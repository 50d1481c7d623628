SPECIFICATION FairSpec
CONSTANTS
    Accounts = {a1, a2}
    Others = {a2}
    Runs = {r1, r2}
    Readable = TRUE
    MaxKeys = 2
    MaxFails = 1
    MaxUsers = 3
INVARIANTS
    TypeOK
PROPERTIES
    StarvesNobody
    ReopenedIsReachable
CHECK_DEADLOCK FALSE
