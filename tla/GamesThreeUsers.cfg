\* Three users of Champions of Norrath compete for the two seats of one game, and report counts.
CONSTANTS
    u1 = u1
    u2 = u2
    u3 = u3
    n1 = n1
    s1 = s1
    EmptyName = EmptyName
    NoUser = NoUser
    NoSession = NoSession
    Norrath = {u1, u2, u3}
    Arms = {}
    Users <- MCUsers
    TypeOf <- MCTypeOf
    Names = {n1}
    Stages = {s1}
    Seats = 2
    MaxGames = 1
    Counts <- FewCounts
SPECIFICATION Spec
SYMMETRY Symmetry
VIEW View
INVARIANTS
    OneSeatEach
PROPERTIES
    StrangerCannotEndGame
    SeatingIsCounted
CHECK_DEADLOCK FALSE
