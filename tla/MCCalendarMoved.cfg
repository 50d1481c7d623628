SPECIFICATION Spec
CONSTANTS
    i1 = i1
    i2 = i2
    s1 = s1
    s2 = s2
    Schedulers = {s1}
    Imports = {}
    Invite <- NoInvite
    Starts = {2, 4}
    Window = 1
    Horizon = 5
    MaxEvents = 1
    MaxEdits = 2
    MaxDeaths = 0
INVARIANTS
    RemindedBeforeItsTime
CHECK_DEADLOCK FALSE
