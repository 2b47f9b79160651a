CONSTANTS
    Pid = {2, 3, 4}
    Self = 2
    MAX_PARENT_HOPS = 4
    MaxPerPass = 1
    MaxStart = 2
    v1 = v1
    u1 = u1
    u2 = u2
    DriftServer = {v1}
    Reader = {u1, u2}
    Bundle = {"A", "B", "C"}
    MaxDeploy = 3
SPECIFICATION HostSpec
INVARIANT ReaperInv
INVARIANT DriftInv
PROPERTY LeakRetired
PROPERTY NewBundleTold
CHECK_DEADLOCK FALSE
