\* Two producers, two workers, four nodes, both kinds of callers.
CONSTANTS
    p1 = p1
    p2 = p2
    c1 = c1
    c2 = c2
    Producers = {p1, p2}
    Consumers = {c1, c2}
    NodeCount = 4
    MaxEnqueues = 4
    Callers = {"send", "log"}
SPECIFICATION FairSpec
INVARIANTS
    NodesApart
    NothingLost
    TakenOnce
    TailAhead
PROPERTIES
    ImplementsPacketQueue
    EventuallyTaken
\* Every producer has reached its bound.
CHECK_DEADLOCK FALSE
