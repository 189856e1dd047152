\* Three users, a public room and up to four private ones.
CONSTANTS
    u1 = u1
    u2 = u2
    u3 = u3
    n1 = n1
    n2 = n2
    EmptyName = EmptyName
    Users = {u1, u2, u3}
    Public = 1
    PublicNames <- MCPublicNames
    Names = {n1, n2}
    MaxRooms = 5
SPECIFICATION Spec
SYMMETRY Symmetry
INVARIANTS
    IInv
    KeptRoomsHaveUser
    InKeptRoomsOnly
    RoomNamesUnique
    PublicRoomsStay
    NoEmptyPrivateRoom
CHECK_DEADLOCK FALSE
