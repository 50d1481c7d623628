SPECIFICATION Spec
CONSTANTS
    Tabs = {t1}
    Installer = sw
    MaxBuild = 3
    Files <- MCFiles
    Version <- MCVersion
INVARIANTS
    CachedShellIsComplete
CHECK_DEADLOCK FALSE
