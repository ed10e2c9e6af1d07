\* Two threads in SendPacket, two workers in turn in sendPost, four nodes.
CONSTANTS
    p1 = p1
    p2 = p2
    c1 = c1
    c2 = c2
    Producers = {p1, p2}
    Consumers = {c1, c2}
    NodeCount = 4
    MaxEnqueues = 4
    Callers = {"send"}
SPECIFICATION Spec
INVARIANT
    NoEmptySend
\* Every producer has reached its bound.
CHECK_DEADLOCK FALSE
