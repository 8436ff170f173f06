SPECIFICATION PartSpec
CONSTANTS
    u1 = u1
    k1 = k1
    x1 = x1
    x2 = x2
    g1 = g1
    a1 = a1
    a2 = a2
    t1 = t1
    t2 = t2
    i1 = i1
    i2 = i2
    p1 = p1
    q1 = q1
    none = none
    master = master
    Users = {u1}
    KeyIds = {k1}
    RequestIds = {x1, x2}
    GrantIds = {g1}
    Amounts = {1, 2}
    Prices = {1}
    Multipliers = {1}
    Scale = 1
    KeyLimits = {1}
    Legacy = {}
    NoBalance = none
    Turns = {t1, t2}
    Master = master
    Accounts = {a1, a2}
    Slots <- MCSlots
    MaxAttempts = 2
    NoAccount = none
    MaxFaults = 1
    Stagers = {t1, t2}
    Tasks = {q1}
    Images = {i1, i2}
    Profiles = {p1}
    Hosts = {a1, a2}
    NoHost = none
    Nobody = none
    MaxTries = 2
SYMMETRY Interchangeable
INVARIANTS
    CreditIsHeldByCalls
    DebtsPaid
    AskedAgainOnlyIfEmpty
    PaidOnce
    StageSafety
PROPERTIES
    ExactUntilLateRecord
    BalanceMovesWithLedger
CHECK_DEADLOCK FALSE
