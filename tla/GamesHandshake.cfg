\* The host's handshake opens its game; clients report counts of zero.
CONSTANTS
    u1 = u1
    u2 = u2
    u3 = u3
    n1 = n1
    s1 = s1
    EmptyName = EmptyName
    NoUser = NoUser
    NoSession = NoSession
    Norrath = {}
    Arms = {u1, u2}
    Users <- MCUsers
    TypeOf <- MCTypeOf
    Names = {n1}
    Stages = {s1}
    Seats = 2
    MaxGames = 1
    Counts = {0}
SPECIFICATION Spec
PROPERTIES
    HandshakeOpensGame
    HostlessGameEnds
CHECK_DEADLOCK FALSE
