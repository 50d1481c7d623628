SPECIFICATION Spec
CONSTANTS
    Composers = {c1}
    Attachments = 1
    Tries = 3
    MaxPresses = 1
INVARIANTS
    DispatchedIsRecorded
CHECK_DEADLOCK FALSE
