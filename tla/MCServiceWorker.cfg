SPECIFICATION FairSpec
CONSTANTS
    Tabs = {t1}
    Installer = sw
    MaxBuild = 3
    Files <- MCFiles
    Version <- MCVersion
INVARIANTS
    TypeOK
    WholeShellIsBootable
PROPERTIES LaunchesGetFresh ReconnectEnds
CHECK_DEADLOCK FALSE
