CONSTANTS
    i1 = i1
    r1 = r1
    r2 = r2
    Req = {i1, r1}
    Inits = {i1}
    MaxGen = 5
    MaxCrashes = 1
    MaxFailures = 1
    MaxChanges = 1
SPECIFICATION Spec
INVARIANT OpenMeansServed
CHECK_DEADLOCK FALSE
