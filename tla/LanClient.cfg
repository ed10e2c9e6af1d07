\* A pool of two workers, two connections, three packets of which two fit in m_sendQ.
CONSTANTS
    w1 = w1
    w2 = w2
    app = app
    Workers = {w1, w2}
    Main = app
    MaxConnects = 2
    MaxPackets = 3
    MaxSendQ = 2
    MaxWsaBuf = 1
SPECIFICATION FairSpec
INVARIANTS
    NoCrash
    CountIsReferences
    OneIoOutstanding
    PacketsAccountedFor
PROPERTIES
    DisconnectReturns
    BrokenIsReleased
\* A client whose workers have ended may be left alone.
CHECK_DEADLOCK FALSE
