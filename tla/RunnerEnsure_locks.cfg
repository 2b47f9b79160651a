CONSTANTS
    p1 = p1
    p2 = p2
    r1 = r1
    n1 = n1
    n2 = n2
    None = None
    Proc = {p1, p2}
    Root = {r1}
    Runner = {n1, n2}
    Mortal = {p1}
    SlowPasses = FALSE
SPECIFICATION FairSpec
INVARIANT EnsureInv
PROPERTY UnservedGetsRunner
PROPERTY HungSpoolReaped
CHECK_DEADLOCK FALSE
