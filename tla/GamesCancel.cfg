\* A user that only asked for the game cancels it.
CONSTANTS
    u1 = u1
    u2 = u2
    u3 = u3
    n1 = n1
    s1 = s1
    EmptyName = EmptyName
    NoUser = NoUser
    NoSession = NoSession
    Norrath = {u1, u2}
    Arms = {}
    Users <- MCUsers
    TypeOf <- MCTypeOf
    Names = {n1}
    Stages = {s1}
    Seats = 2
    MaxGames = 1
    Counts = {}
SPECIFICATION Spec
PROPERTIES
    CancelRemovesEmptyGames
CHECK_DEADLOCK FALSE
