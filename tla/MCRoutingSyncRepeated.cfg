SPECIFICATION RSSpec
CONSTANTS
    p1 = p1
    p2 = p2
    r1 = r1
    r2 = r2
    d1 = d1
    a1 = a1
    a2 = a2
    Rules = {r1, r2}
    Addresses = {d1}
    CatchAll = CatchAll
    Actions = {a1, a2}
    NoActions = NoActions
    Requests = {p1, p2}
    PageSize = 50
    MaxRows = 2
    MaxOps = 3
    MaxEdits = 2
    Absent = Absent
    Deleted = Deleted
INVARIANTS
    OneRulePerOperation
CHECK_DEADLOCK FALSE
SYMMETRY Symmetries
