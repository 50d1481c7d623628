SPECIFICATION FairSpec
CONSTANTS
    e1 = e1
    e2 = e2
    s1 = s1
    s2 = s2
    Emails <- MCOne
    Tabs = {t1}
    Syncs = {s1, s2}
    MaxLogins <- MCTwice
    Counts <- MCCounts
    None = None
PROPERTIES
    BadgeSettles
    DeadTokensGo
CHECK_DEADLOCK FALSE
