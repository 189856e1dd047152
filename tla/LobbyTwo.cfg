\* Two clients, each with a request; the main thread stops the server.
CONSTANTS
    c1 = c1
    c2 = c2
    NoClient = NoClient
    Clients = {c1, c2}
    Friends <- MCFriends
    ChunkMax = 2
    Window = 2
    Kinds = {"request"}
    MaxPackets = 1
    MaxNotices = 0
SPECIFICATION Spec
VIEW View
SYMMETRY Symmetry
INVARIANTS
    SentOnce
    OnlineAreListed
CHECK_DEADLOCK FALSE
