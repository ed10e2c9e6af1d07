\* Two senders, two workers, with and without the store buffers of x86.
CONSTANTS
    a = a
    b = b
    w1 = w1
    w2 = w2
    Senders = {a, b}
    Workers = {w1, w2}
    MaxPackets = 3
    MaxSendQ = 2
    MaxBatch = 2
    Memories = {"SC", "TSO"}
SPECIFICATION FairSpec
INVARIANT
    SingleSender
PROPERTIES
    ImplementsChannel
    SentWithoutBuffers
\* The bounded senders stop.
CHECK_DEADLOCK FALSE
