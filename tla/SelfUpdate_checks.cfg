CONSTANTS
    s1 = s1
    c1 = c1
    b1 = b1
    b2 = b2
    next = next
    None = None
    Proc = {s1, c1}
    Cli = {c1}
    Mortal = {c1}
    Build = {b1, b2, next}
    LastCommit = 2
    BundleAt <- Mains
    VersionOf <- Numbers
    LocalBuild = {b1}
    Pinnable = {b1}
    Images = {b1, next}
SPECIFICATION FairSpec
INVARIANT CacheInv
PROPERTY CurrentIsTrue
PROPERTY ReleaseDeployed
CHECK_DEADLOCK FALSE
