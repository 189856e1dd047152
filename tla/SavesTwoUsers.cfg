\* Two users, one of which may save the other's character.
CONSTANTS
    u1 = u1
    u2 = u2
    a1 = a1
    a2 = a2
    NoAccount = NoAccount
    Users = {u1, u2}
    Accounts = {a1, a2}
    Size = 2
    MaxSessions = 3
    MaxUploads = 2
    MaxRows = 2
SPECIFICATION Spec
SYMMETRY Symmetry
INVARIANTS
    IInv
    RowsAreWholeUploads
    NewCharacterStaysInAccount
    AccountOnlineOnce
PROPERTIES
    StoredOnce
    RowsChangeInAccount
    ImplementsStore
CHECK_DEADLOCK FALSE
