CONSTANTS
    a1 = a1
    a2 = a2
    t1 = t1
    t2 = t2
    t3 = t3
    p1 = p1
    c1 = c1
    c2 = c2
    l1 = l1
    l2 = l2
    Accounts = {a2}
    Lanes = {l1, l2}
    Turns = {t1, t2, t3}
    Probes = {p1}
    Chats = {c1, c2}
    ChatOf <- MCChatOf
    LaneOf <- MCLaneOf
    MaxConcurrency <- MCMaxConcurrency
    LeaseTime = 3
    ClaimTime = 1
    CoolTime = 1
    BlockTime = 1
    Threshold = 2
    MaxAttempts = 1
    Managed = {}
    MaxFaults = 1
SPECIFICATION FairSpec
INVARIANTS WithinCapacity 
PROPERTIES SlotReturned LaneRetried
CHECK_DEADLOCK FALSE
