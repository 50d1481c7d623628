SPECIFICATION FairSpec
CONSTANTS
    Tabs = {t1}
    Installer = sw
    MaxBuild = 3
    Files <- MCFiles
    Version <- MCVersion
PROPERTY ReconnectHeals
CHECK_DEADLOCK FALSE
