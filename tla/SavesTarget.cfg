\* The save of a character after its user has taken up another one.
CONSTANTS
    u1 = u1
    u2 = u2
    a1 = a1
    a2 = a2
    NoAccount = NoAccount
    Users = {u1, u2}
    Accounts = {a1, a2}
    Size = 2
    MaxSessions = 3
    MaxUploads = 3
    MaxRows = 2
SPECIFICATION Spec
SYMMETRY Symmetry
INVARIANT
    SavedWhereBegun
CHECK_DEADLOCK FALSE
