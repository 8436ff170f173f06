SPECIFICATION PartSpec
CONSTANTS
    f1 = f1
    g1 = g1
    s1 = s1
    y1 = y1
    y2 = y2
    p1 = p1
    p2 = p2
    a1 = a1
    none = none
    Uploads = {f1}
    Generated = {g1}
    Standard = {s1}
    Processes = {p1, p2}
    Pages = {y1, y2}
    Quota = 2
    Uploader = none
    Unlocked = none
    Accounts = {a1}
    Claude = {a1}
    Manual = {}
    Requests = {y1, y2}
    MaxLogins = 2
    MaxSessions = 2
SYMMETRY Interchangeable
INVARIANT StorageSafety
PROPERTY LoginSafety
CHECK_DEADLOCK FALSE
