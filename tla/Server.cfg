\* From the start of the process to its end, with up to two datagrams waiting.
CONSTANTS
    MaxArrived = 2
SPECIFICATION Spec
INVARIANTS
    IInv
    NoThreadLeft
PROPERTIES
    ServersServe
    EndsOrIsHeld
CHECK_DEADLOCK FALSE
