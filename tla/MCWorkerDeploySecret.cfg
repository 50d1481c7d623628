SPECIFICATION Spec
CONSTANTS
    a1 = a1
    a2 = a2
    d1 = d1
    d2 = d2
    i1 = i1
    i2 = i2
    Accounts = {a1}
    AccountIds = {i1, i2}
    WorkerVars = {"v1", "v2"}
    NamePrefixes = {"p1", "p2"}
    Stubs = {"t1", "t2"}
    Envs <- Releases
    First <- FirstRelease
    Deployers = {d1}
    NoFile = NoFile
    NoHash = NoHash
    NoSecret = NoSecret
    MaxStarts = 1
    MaxSaves = 1
    MaxReleases = 1
INVARIANTS
    NotDriftedIsDeployed
CHECK_DEADLOCK FALSE
