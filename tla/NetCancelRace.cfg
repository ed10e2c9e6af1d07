\* The same without that assumption: a receive posted after the cancellation.
CONSTANTS
    s1 = s1
    s2 = s2
    w1 = w1
    w2 = w2
    w3 = w3
    Slots = {s1}
    Workers = {w1, w2}
    Acceptor = acceptor
    Timer = timer
    NoSlot = NoSlot
    NoCall = NoCall
    MaxId = 1
    MaxSendQ = 1
    Ops = {"disconnect"}
SPECIFICATION ThreadFairSpec
PROPERTIES
    DisconnectedIsReleased
