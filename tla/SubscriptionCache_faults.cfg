SPECIFICATION FairSpec
CONSTANTS
    r1 = r1
    r2 = r2
    m1 = m1
    m2 = m2
    p1 = p1
    p2 = p2
    user = user
    pending = pending
    Callers = {r1, r2, m1}
    Mutators = {m1}
    ProcessOf <- ThreeProcesses
    Roles = {user, pending}
    RoleOf <- TwoRoles3
    MaxTTL = 2
    LockTTL = 1
    LockWait = 1
    MaxWork = 1
    MaxVersion = 1
    MaxFaults = 2
INVARIANT StaleIsBounded
PROPERTY LockGivenBack
