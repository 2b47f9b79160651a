CONSTANTS
    Agent = {"A"}
    Stale = {"q1"}
    MaxTake = 1
    Checkout = {"gm"}
    ParentCheckout = "gm"
    Work = {"x"}
SPECIFICATION LandingSpec
INVARIANT WorkBackedUp
CHECK_DEADLOCK FALSE
