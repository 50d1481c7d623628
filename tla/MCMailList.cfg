SPECIFICATION Spec
CONSTANTS
    a1 = a1
    a2 = a2
    f1 = f1
    f2 = f2
    c1 = c1
    c2 = c2
    Mails = {1, 2}
    Accounts = {a1, a2}
    AccountOf <- MCAccountOf
    ThreadOf <- MCThreadOf
    Elsewheres <- MCElsewheres
    Beginnings <- MCBeginnings
    Fetches = {f1, f2}
    Calls = {c1, c2}
    MaxActs = 2
    MaxAsks = 1
    MaxElse = 1
SYMMETRY MCSymmetry
INVARIANTS
    TypeOK
    CacheIsOfItsKey
    RowsAgree
CHECK_DEADLOCK FALSE
