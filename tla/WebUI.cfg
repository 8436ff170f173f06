SPECIFICATION PartSpec
CONSTANTS
    y1 = y1
    y2 = y2
    m1 = m1
    m2 = m2
    u1 = u1
    g0 = g0
    g1 = g1
    p0 = p0
    p1 = p1
    n1 = n1
    A = A
    B = B
    r1 = r1
    i1 = i1
    b1 = b1
    b2 = b2
    c1 = c1
    c2 = c2
    c3 = c3
    root = root
    none = none
    unlimited = unlimited
    Turns = {y1, y2}
    Models = {m1, m2}
    NoModel = none
    Fallback <- MCFallback
    Policies <- MCPolicies
    Unlimited = unlimited
    Reports = {0, 2}
    MaxUnits = 1
    MaxWindows = 2
    MaxCuts = 1
    Members = {u1}
    GroupIds = {g0, g1}
    ModelIds = {p0, p1, n1}
    Projection <- MCProjection
    System = {g0}
    DefaultGroup = g0
    Names = {A, B}
    RuleSets = {r1}
    NoId = none
    NoRules = none
    Admins = {y1, y2}
    Items = {i1}
    Bodies = {b1, b2}
    Tabs = {y1, y2}
    Editors = {y1, y2}
    MaxItems = 1
    MaxRevision = 2
    NoItem = none
    Requests = {y1, y2}
    Lengths = {1, 2}
    DefaultDays = 1
    Given = {2}
    MaxSpan = 7
    LastTick = 4
    Sends = {c1, c2, c3}
    Root = root
    all = all
    mine = mine
    Callers = {c1, c2, c3}
    CallIds = {y1, y2, c1}
    Scopes = {all, mine}
    FifoScopes = {mine}
    ScopesOf <- MCScopesOf
    Ceiling <- MCCeiling
    Limits <- MCLimits
    LeaseTicks = 2
    StatusTicks = 1
    QueueTicks = 1
    BeatTicks = 1
    RunTicks = 2
    Released = none
    Sites = {y1, y2}
    Owners = {m1}
    Visitors = {c1}
    Forms <- MCForms
    MaxSaves = 2
    KeepTicks = 1
    FetchTicks = 1
    Founder = root
    NoSite = none
    Ids = {root, b1, b2}
    FirstId = root
    NoMessage = none
    Clients = {y1, y2}
    InitialSpan = 1
    OlderSpan = 1
    MaxSecond = 2
    MaxWrites = 2
SYMMETRY Interchangeable
INVARIANTS
    TurnsSettled
    ChatsSafety
    AccessSafety
PROPERTIES
    AllowanceKept
    GroupsSafety
    AnnouncementsSafety
    SubscriptionSafety
    MemorySafety
CHECK_DEADLOCK FALSE
