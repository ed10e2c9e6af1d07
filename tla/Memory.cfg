\* Two workers and the accept thread; lists of two packets; three session slots;
\* regions of two pages, up to four sessions, three starts.
CONSTANTS
    w1 = w1
    w2 = w2
    acceptor = acceptor
    Thread = {w1, w2, acceptor}
    Acceptor = acceptor
    MaxNode = 3
    ChunkSize = 2
    MaxChunkOps = 2
    MaxObj = 6
    MaxOut = 3
    MaxSession = 3
    MaxSlotOps = 9
    HALF_PAGE = 1
    PAGE_SIZE = 2
    GRANULARITY = 4
    MaxRegion = 6
    SessionCounts = {1, 2, 4}
    MaxStarts = 3
SPECIFICATION Spec
SYMMETRY WorkerSymmetry
INVARIANTS
    ObjectsInOnePlace
    SlotsInOnePlace
    BuffersInOnePlace
PROPERTIES
    ImplementsStack
\* The threads have made all the calls the bounds allow.
CHECK_DEADLOCK FALSE
