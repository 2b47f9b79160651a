CONSTANTS
    a = a
    b = b
    c = c
    doc = doc
    row = row
    closes = closes
    text0 = text0
    k1 = k1
    k2 = k2
    k3 = k3
    Lane = {a, b, c}
    CloneOf <- Clones
    Path = {doc, row, closes}
    ClosesFile = closes
    RowFile = row
    Text = text0
    Edits <- EditsOf
    Drops <- DropsOf
    Closing = {c}
    Pins <- PinsOf
    Clashing <- Clash
    s1 = s1
    s2 = s2
    op = op
    bak = bak
    bak2 = bak2
    shelf = shelf
    lane_ = lane_
    x = x
    y = y
    Server = {s1, s2}
    Operator = {op}
    Item = {lane_, shelf}
    ClassOf <- Classes
    BaseOf <- Bases
    MaxCrash = 1
    FileLines <- LinesOf
    Frame = 3
    InlineMax = 6
    Caps = {5, 8, 14}
    Chars = 7
    Limits = {1, 3, 10}
    Notices <- NoticesOf
    r1 = r1
    r2 = r2
    c1 = c1
    c2 = c2
    g1 = g1
    g2 = g2
    e1 = e1
    e2 = e2
    p1 = p1
    f1 = f1
    f2 = f2
    z1 = z1
    m1 = m1
    Row = {r1, r2}
    FirstRows = {r1}
    GateCall = {c1, c2}
    MaxLost = 2
    Dir <- Dirs
    MaxEntries = 3
    GitProc = {g1, g2}
    LockServer = {s1}
    Editor = {e1, e2}
    Texts <- TextsOf
    Replacements <- NewTexts
    Planner = {p1}
    File = {f1, z1}
    Sub = {m1}
    DirOf <- DirOfFile
    Excluded = {z1}
    AddLimit = 1
    q1 = q1
    q2 = q2
    d1 = d1
    i1 = i1
    n1 = n1
    JPid = {q1, q2}
    Entry = {d1, i1}
    Install = {i1}
    Record = {n1}
    PidIn <- PidInOf
    TextCap = 24
    Block = 3
    BlockReserve = 5
    CutNotice = 3
    HeadMax = 2
    PartMin = 3
    Heading = 2
    Lengths = {1, 6, 12, 22, 24, 25}
    MaxCalls = 2
    TopKeys = {"cwd"}
    Fields = {"id", "note"}
    Prose = "note"
    Required = {"id"}
    Loose = {"timeout_seconds"}
    Others = {"x"}
    Agent = {"A", "B"}
    Stale = {"q1", "q2"}
    MaxTake = 3
    Checkout = {"gm", "sub"}
    ParentCheckout = "gm"
    Work = {"x", "y"}
    Writer = {"w1", "w2", "w3"}
    QueueRow = {"x", "y"}
    Asked = {"a", "b"}
    Srv = {"p", "q"}
    Sess = {"s", "t"}
    DefaultPoll = 60
    ExecDefault = 60
    ExecCeiling = 180
    LaneWait = 120
    MaxTimer = 1000
    Ceilings = {40, 120, 2000}
    Amounts = {0, 1, 61, 119, 120, 180, 181, 1000, 1001}
    CiBudgets = {1, 5, 9}
    FirstNap = 1
    LongNap = 3
    CiCallMax = 2
    Daemon = {"d1", "d2"}
    Request = {1, 2, 3}
    VerbOf <- Verbs
    OwnRequest = 3
    ClaimCap = 1
    Events = 4
    MaxWatch = 2
    Budget = 9
    Silence = 2
    Retries = 2
    Boss = {"b1", "b2", "b3"}
SPECIFICATION PartsSpec
VIEW Moving
CONSTRAINT Bounded
INVARIANT PublishInv
INVARIANT HousekeepInv
INVARIANT TellingInv
INVARIANT CloseGateInv
INVARIANT GitRepoInv
INVARIANT FileCallsInv
 
INVARIANT HoldersInv
INVARIANT TriageInv
INVARIANT LeasesInv
INVARIANT CallersInv
INVARIANT LivenessInv
PROPERTY JanitorSafe
CHECK_DEADLOCK FALSE
