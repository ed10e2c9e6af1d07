\* Liveness of release, every operation the kernel holds completes some day.
CONSTANTS
    s1 = s1
    s2 = s2
    w1 = w1
    w2 = w2
    w3 = w3
    Slots = {s1}
    Workers = {w1, w2}
    Acceptor = acceptor
    Timer = timer
    NoSlot = NoSlot
    NoCall = NoCall
    MaxId = 1
    MaxSendQ = 1
    Ops = {"disconnect"}
SPECIFICATION FairSpec
PROPERTIES
    DisconnectedIsReleased
