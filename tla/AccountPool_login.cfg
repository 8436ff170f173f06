CONSTANTS
    a1 = a1
    a2 = a2
    t1 = t1
    t2 = t2
    t3 = t3
    p1 = p1
    c1 = c1
    c2 = c2
    l1 = l1
    l2 = l2
    Accounts = {a1, a2}
    Lanes = {l1}
    Turns = {t1, t2}
    Probes = {p1}
    Chats = {c1}
    ChatOf <- MCChatOf
    LaneOf <- OneLane
    MaxConcurrency <- MCMaxConcurrency
    LeaseTime = 3
    ClaimTime = 1
    CoolTime = 1
    BlockTime = 1
    Threshold = 1
    MaxAttempts = 2
    Managed = {a2}
    MaxFaults = 1
SPECIFICATION Spec
SYMMETRY Interchangeable
INVARIANTS OneTurnPerChat ReadyIsUsable LoginUndisturbed
PROPERTY LeasesAreSlots
CHECK_DEADLOCK FALSE
