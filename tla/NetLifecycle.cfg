\* One slot used by two sessions in turn, three workers, every API call.
CONSTANTS
    s1 = s1
    s2 = s2
    w1 = w1
    w2 = w2
    w3 = w3
    Slots = {s1}
    Workers = {w1, w2, w3}
    Acceptor = acceptor
    Timer = timer
    NoSlot = NoSlot
    NoCall = NoCall
    MaxId = 2
    MaxSendQ = 1
    Ops = {"send", "disconnect"}
SPECIFICATION Spec
SYMMETRY Symmetry
INVARIANTS
    TypeOK
    NoCrash
    CountIsReferences
    OneIoOutstanding
    FreeSlotIsClean
    ApiTargetsItsSession
    NoLostWakeup
PROPERTIES
    Contract
