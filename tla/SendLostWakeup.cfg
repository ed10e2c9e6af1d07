\* The same with the store buffers of x86: a packet is left behind.
CONSTANTS
    a = a
    b = b
    w1 = w1
    w2 = w2
    Senders = {a, b}
    Workers = {w1, w2}
    MaxPackets = 3
    MaxSendQ = 2
    MaxBatch = 2
    Memories = {"TSO"}
SPECIFICATION FairSpec
PROPERTIES
    EventuallySent
\* The bounded senders stop.
CHECK_DEADLOCK FALSE
