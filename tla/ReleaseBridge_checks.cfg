CONSTANTS
    p1 = p1
    p2 = p2
    None = None
    Proc = {p1}
    LastRelease = 2
    MaxFault = 3
SPECIFICATION FairSpec
PROPERTY BridgeSafe
PROPERTY PartsInstalled
PROPERTY PendingSignalMade
CHECK_DEADLOCK FALSE
