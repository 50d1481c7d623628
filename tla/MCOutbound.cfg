SPECIFICATION FairSpec
CONSTANTS
    Composers = {c1}
    Attachments = 1
    Tries = 3
    MaxPresses = 2
INVARIANTS
    TypeOK
    HonestStatus
    SentIsRecorded
PROPERTIES
    EveryPressEnds
CHECK_DEADLOCK FALSE
