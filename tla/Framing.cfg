\* Both receive loops, three packets of 1, 3 and 5 bytes, rings of 10 and 9 bytes.
CONSTANTS
    eBUFFER_DEFAULT = 10
    Bits = 2
    packet_code = 1
    packet_key = 3
    BitXor <- MCBitXor
    Kinds = {"net", "lan"}
    sendSize = 11
    recvSize = 10
    Messages <- MCMessages
    RandKeys = {0, 2}
    MaxMade = 3
SPECIFICATION Spec
INVARIANTS
    InOrder
    OnlyBadFramesDisconnect
    RoomToReceive
    RoomIsFree
    NothingLeftBehind
PROPERTIES
    ImplementsQueue
\* The sender stops.
CHECK_DEADLOCK FALSE
