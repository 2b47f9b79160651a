CONSTANTS
    c1 = c1
    c2 = c2
    Call = {c1, c2}
    Sessions <- MCSessions
    MaxRow = 1
    MaxOther = 1
    Root = {"p", "q"}
    MaxChange = 1
    MaxFail = 1
    MaxLine = 4
    MaxWait = 2
SPECIFICATION LiveSpec
INVARIANT SessionsInv
PROPERTY IdleIsWarned
PROPERTY GateCatchesUp
PROPERTY EveryLineAnswered
PROPERTY OrphanEnds
CHECK_DEADLOCK FALSE
