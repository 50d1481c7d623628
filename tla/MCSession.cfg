SPECIFICATION Spec
CONSTANTS
    e1 = e1
    e2 = e2
    s1 = s1
    s2 = s2
    Emails <- MCBoth
    Tabs = {t1}
    Syncs = {s1, s2}
    MaxLogins <- MCTwice
    Counts <- MCUnread
    None = None
INVARIANTS
    TypeOK
    NextLaunchAgrees
PROPERTY VanishRightly
CHECK_DEADLOCK FALSE
SYMMETRY MCSymmetry
