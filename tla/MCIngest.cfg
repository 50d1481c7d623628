SPECIFICATION FairSpec
CONSTANTS
    d1 = d1
    d2 = d2
    m1 = m1
    id1 = id1
    Deliveries = {d1, d2}
    Messages = {m1}
    MsgOf <- BothOfM1
    IngestIds = {id1}
    NoId = NoId
    IdOf <- WithMessageId
    AttachmentCount <- OneAttachment
    Hosted = {m1}
    Workers = {w1, w2}
    MaxTries = 2
    FallbackForward = FALSE
    NoEntry = NoEntry
INVARIANTS
    TypeOK
    OneRowPerIngestKey
    AttachmentsOnceInOrder
    AnnouncedOnceWhenComplete
    AcceptedIsAccountedFor
PROPERTIES
    AcceptedMailSettles
    ImplementsInbox
CHECK_DEADLOCK FALSE
