SPECIFICATION FairSpec
CONSTANTS
    Accounts = {a1, a2}
    Others = {a2}
    Runs = {r1, r2}
    Readable = FALSE
    MaxKeys = 2
    MaxFails = 1
    MaxUsers = 3
PROPERTIES
    ReopenedAnywhere
CHECK_DEADLOCK FALSE
