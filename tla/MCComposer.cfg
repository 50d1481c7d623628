SPECIFICATION CSpec
CONSTANTS
    Accounts = {"me", "alt"}
    Signatures <- MCSignatures
    FirstProfile <- MCFirstProfile
    People = {"p", "q"}
    Files = {f1, f2}
    Size <- MCSize
    MAX_TOTAL = 3
    Lines = {"", "________", "name", "own", "sig", "From: P <p>", "From: P"}
    Original <- MCOriginal
    Shown <- MCShown
    MaxActs = 3
    MaxSettings = 1
    MaxAsked = 1
INVARIANTS
    CTypeOK
    AttachmentsFit
    CardIsOwnSignature
CHECK_DEADLOCK FALSE
