SPECIFICATION Spec
CONSTANTS
    r1 = r1
    r2 = r2
    m1 = m1
    m2 = m2
    p1 = p1
    p2 = p2
    user = user
    pending = pending
    Callers = {r1, r2, m1, m2}
    Mutators = {m1, m2}
    ProcessOf <- FourProcesses
    Roles = {user}
    RoleOf <- OneRole4
    MaxTTL = 2
    LockTTL = 2
    LockWait = 4
    MaxWork = 1
    MaxVersion = 2
    MaxFaults = 0
INVARIANT Coherent
INVARIANT SingleFlight
