SPECIFICATION Spec
CONSTANTS
    i1 = i1
    i2 = i2
    s1 = s1
    s2 = s2
    Schedulers = {s1, s2}
    Imports = {i1, i2}
    Invite <- Rescheduled
    Starts = {2, 3}
    Window = 1
    Horizon = 3
    MaxEvents = 3
    MaxEdits = 1
    MaxDeaths = 1
INVARIANTS
    TypeOK
    RemindedOncePerDeath
    DueIsHandledInTime
    NoLostEdit
    OneEventPerInvite
CHECK_DEADLOCK FALSE
SYMMETRY SchedulerSymmetry
