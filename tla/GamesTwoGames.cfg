\* Two users of Return to Arms, two games of one seat each, and the promise of the list.
CONSTANTS
    u1 = u1
    u2 = u2
    u3 = u3
    n1 = n1
    s1 = s1
    EmptyName = EmptyName
    NoUser = NoUser
    NoSession = NoSession
    Norrath = {}
    Arms = {u1, u2}
    Users <- MCUsers
    TypeOf <- MCTypeOf
    Names = {n1}
    Stages = {s1}
    Seats = 1
    MaxGames = 2
    Counts = {}
SPECIFICATION Spec
SYMMETRY Symmetry
VIEW View
INVARIANTS
    IInv
    DepartedHostEndsGame
PROPERTIES
    ImplementsLifecycle
CHECK_DEADLOCK FALSE
