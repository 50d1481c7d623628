SPECIFICATION Spec
CONSTANTS
    d1 = d1
    d2 = d2
    m1 = m1
    id1 = id1
    Deliveries = {d1}
    Messages = {m1}
    MsgOf <- OnceM1
    IngestIds = {id1}
    NoId = NoId
    IdOf <- NoMessageId
    AttachmentCount <- OneAttachment
    Hosted = {m1}
    Workers = {w1, w2}
    MaxTries = 2
    FallbackForward = TRUE
    NoEntry = NoEntry
INVARIANTS
    RetriesNeverDuplicate
CHECK_DEADLOCK FALSE
