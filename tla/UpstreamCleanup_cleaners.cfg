SPECIFICATION Spec
CONSTANTS
    r1 = r1
    r2 = r2
    w1 = w1
    w2 = w2
    chat = chat
    other = other
    Resources = {r1, r2}
    Workers = {w1, w2}
    Chats = {chat}
    ChatOf <- OneChat
    Derived = {r1}
    RetentionOf <- Kept2
    BatchSize = 2
    Lapse = 2
    MaxBatch = 2
    MaxDelay = 0
    MaxTurns = 2
    MaxFaults = 1
    RecordMayFail = TRUE
SYMMETRY Interchangeable
INVARIANT OneCleaner
