\* Three connections, three accounts, two of which have one handle.
CONSTANTS
    u1 = u1
    u2 = u2
    u3 = u3
    a1 = a1
    a2 = a2
    a3 = a3
    h1 = h1
    h2 = h2
    NoAccount = NoAccount
    NoHandle = NoHandle
    Users = {u1, u2, u3}
    Accounts = {a1, a2, a3}
    Handles = {h1, h2}
    Handle <- MCHandle
    MaxRows = 2
SPECIFICATION Spec
SYMMETRY Symmetry
VIEW OwedView
INVARIANTS
    IInv
    ListsAreRows
    ShownUnlessDropped
CHECK_DEADLOCK FALSE
