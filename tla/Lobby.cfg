\* A client with two packets of any kind, and a notification.
CONSTANTS
    c1 = c1
    c2 = c2
    NoClient = NoClient
    Clients = {c1}
    Friends <- MCFriends
    ChunkMax = 2
    Window = 2
    Kinds = {"request", "empty", "invalid"}
    MaxPackets = 2
    MaxNotices = 1
SPECIFICATION ReadSpec
INVARIANTS
    IInv
    RequestsInOrder
    NoRequestLeft
PROPERTIES
    WaitingEnds
    StopEnds
CHECK_DEADLOCK FALSE
