SPECIFICATION FairSpec
CONSTANTS
    r1 = r1
    r2 = r2
    w1 = w1
    w2 = w2
    chat = chat
    other = other
    Resources = {r1, r2}
    Workers = {w1}
    Chats = {chat, other}
    ChatOf <- TwoChats
    Derived = {r1}
    RetentionOf <- Kept2
    BatchSize = 2
    Lapse = 1
    MaxBatch = 1
    MaxDelay = 1
    MaxTurns = 2
    MaxFaults = 1
    RecordMayFail = FALSE
INVARIANTS
    Tracked
    KeptForRetention
PROPERTY
    DeletedChatCleaned
