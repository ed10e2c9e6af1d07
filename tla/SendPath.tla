------------------------------ MODULE SendPath ------------------------------
(***************************************************************************)
(* The send path of one connected Session: SendPacket, sendPend, trySend,  *)
(* sendPost and the completion of WSASend, packet by packet, with the      *)
(* memory the threads really share.  send_post_flag is set with            *)
(* InterlockedExchange and cleared with a plain store; on x86 that store   *)
(* may still sit in the store buffer of its thread when a later plain load *)
(* (of the size of send_q) is performed.  memory = "TSO" models the        *)
(* buffers, "SC" is sequentially consistent memory.                        *)
(*                                                                         *)
(* send_q is a LockFreeQueue, seen as a PacketQueue: taking a node, linking *)
(* it, counting it and dequeuing it are steps of their own, and a packet   *)
(* may come into line behind one that was accepted later.                  *)
(*                                                                         *)
(* References, release and stale ids are the subject of NetServer: here    *)
(* every thread holds a reference and the id matches.                      *)
(***************************************************************************)
EXTENDS Naturals, Sequences

CONSTANTS Senders,      \* threads calling SendPacket
          Workers,      \* threads in runIoThread
          MaxPackets,   \* bound: packets sent in a run
          MaxSendQ,     \* MAX_SENDQ, capacity of send_q
          MaxBatch,     \* packets that fit in send_buffer
          Memories      \* memory models of the run

Threads == Senders \cup Workers

ASSUME DisjointThreads == Senders \cap Workers = {}
ASSUME SizesAssumption == /\ MaxPackets \in Nat /\ MaxSendQ \in Nat \ {0}
                          /\ MaxBatch \in Nat \ {0} /\ Memories \subseteq {"SC", "TSO"}

VARIABLES memory,           \* the memory model; no step changes it
          send_post_flag,   \* as the other threads see it
          buffered,         \* threads whose store of false is in their buffer
          accepted,         \* number of packets that got a node of send_q
          unlinked,         \* of a sender: its packet not linked yet, and those behind
          send_q,           \* the packets Dequeue can reach
          in_line,          \* history: the packets that came into send_q, in order
          send_size,        \* _size of send_q
          free_nodes,       \* in the pool of send_q
          send_buffer,      \* copied out of send_q, in flight or about to be
          port,             \* packets of this session in the completion port
          pending,          \* 1: a WSASend whose completion no worker got yet
          in_flight,        \* packets of that WSASend
          disconnect,
          sent,             \* packets handed to WSASend
          pc

shared == <<memory, send_post_flag, buffered>>
lists  == <<accepted, unlinked, send_q, in_line>>
queue  == <<lists, send_size, free_nodes>>
io     == <<port, pending, in_flight, sent>>
vars   == <<shared, queue, send_buffer, io, disconnect, pc>>

Q == INSTANCE PacketQueue
       WITH Producers <- Senders, made <- accepted, chain <- unlinked, line <- send_q,
            taken <- {in_line[i] : i \in 1 .. Len(in_line) - Len(send_q)}

Posts == {"SEND_PEND", "SEND", "SEND0"}
Init ==
    /\ memory \in Memories
    /\ send_post_flag = 0
    /\ buffered = {}
    /\ accepted = 0
    /\ unlinked = [t \in Senders |-> <<>>]
    /\ send_q = <<>>
    /\ in_line = <<>>
    /\ send_size = 0
    /\ free_nodes = MaxSendQ
    /\ send_buffer = <<>>
    /\ port = [p \in Posts |-> 0]
    /\ pending = 0
    /\ in_flight = 0
    /\ disconnect = 0
    /\ sent = <<>>
    /\ pc = [t \in Threads |-> "idle"]

Goto(t, l) == pc' = [pc EXCEPT ![t] = l]

\* The plain store send_post_flag = false.
StoreFalse(t) ==
    /\ IF memory = "TSO"
         THEN buffered' = buffered \cup {t} /\ UNCHANGED send_post_flag
         ELSE send_post_flag' = 0 /\ UNCHANGED buffered
    /\ UNCHANGED memory

\* The buffered store reaches memory.
Drain(t) ==
    /\ t \in buffered
    /\ buffered' = buffered \ {t}
    /\ send_post_flag' = 0
    /\ UNCHANGED <<memory, queue, send_buffer, io, disconnect, pc>>

\* InterlockedExchange(&send_post_flag, true) waits for the buffer to drain.
ExchangeTrue(t) == /\ t \notin buffered
                   /\ send_post_flag' = 1
                   /\ UNCHANGED <<memory, buffered>>
-----------------------------------------------------------------------------
(* SendPacket and sendPend *)

\* A disconnected session makes SendPacket return false.
SendPacket(t) ==
    /\ pc[t] = "idle" /\ t \in Senders
    /\ disconnect = 0
    /\ Goto(t, "enqueue")
    /\ UNCHANGED <<shared, queue, send_buffer, io, disconnect>>

\* Enqueue takes a node, or there is none and the session is disconnected.
Enqueue(t) ==
    /\ pc[t] = "enqueue"
    /\ accepted < MaxPackets
    /\ IF free_nodes > 0
         THEN /\ Q!Take(t) /\ free_nodes' = free_nodes - 1
              /\ Goto(t, "link")
              /\ UNCHANGED disconnect
         ELSE /\ disconnect' = 1
              /\ Goto(t, "idle")
              /\ UNCHANGED <<accepted, unlinked, send_q, free_nodes>>
    /\ UNCHANGED <<shared, in_line, send_size, send_buffer, io>>

\* The compare-exchange of next that succeeds: behind the last node of the list, or of
\* one that another sender took and has not linked.
EnqueueLink(t) ==
    /\ pc[t] = "link"
    /\ \/ Q!LinkLast(t) /\ in_line' = in_line \o unlinked[t]
       \/ (\E u \in Senders : Q!LinkBehind(t, u)) /\ UNCHANGED in_line
    /\ Goto(t, "count")
    /\ UNCHANGED <<shared, send_size, free_nodes, send_buffer, io, disconnect>>

EnqueueCount(t) ==
    /\ pc[t] = "count"
    /\ send_size' = send_size + 1
    /\ Goto(t, "pend_check")
    /\ UNCHANGED <<shared, lists, free_nodes, send_buffer, io, disconnect>>

PendCheck(t) ==
    /\ pc[t] = "pend_check"
    /\ Goto(t, IF disconnect = 0 THEN "pend_xchg" ELSE "idle")
    /\ UNCHANGED <<shared, queue, send_buffer, io, disconnect>>

PendExchange(t) ==
    /\ pc[t] = "pend_xchg"
    /\ ExchangeTrue(t)
    /\ port' = IF send_post_flag = 1 THEN port ELSE [port EXCEPT !["SEND_PEND"] = @ + 1]
    /\ Goto(t, "idle")
    /\ UNCHANGED <<queue, send_buffer, pending, in_flight, sent, disconnect>>
-----------------------------------------------------------------------------
(* runIoThread: the packets of the send path *)

GetSendPend(t) ==
    /\ pc[t] = "idle" /\ t \in Workers \ buffered
    /\ port["SEND_PEND"] > 0
    /\ port' = [port EXCEPT !["SEND_PEND"] = @ - 1]
    /\ Goto(t, "try_clear")
    /\ UNCHANGED <<shared, queue, send_buffer, pending, in_flight, sent, disconnect>>

\* Mutant: MoveFront is forgotten, what was sent stays in send_buffer.
GetSendDone_Kept(t) ==
    /\ pc[t] = "idle" /\ t \in Workers \ buffered
    /\ port["SEND"] > 0
    /\ port' = [port EXCEPT !["SEND"] = @ - 1]
    /\ pending' = 0 /\ in_flight' = 0
    /\ IF disconnect = 0 THEN Goto(t, "try_clear") ELSE UNCHANGED pc
    /\ UNCHANGED <<shared, queue, send_buffer, sent, disconnect>>

\* The bytes sent leave send_buffer; a disconnected session is left alone.
GetSendDone(t) ==
    /\ pc[t] = "idle" /\ t \in Workers \ buffered
    /\ port["SEND"] > 0
    /\ port' = [port EXCEPT !["SEND"] = @ - 1]
    /\ pending' = 0 /\ in_flight' = 0
    /\ IF disconnect = 0
         THEN /\ send_buffer' = SubSeq(send_buffer, in_flight + 1, Len(send_buffer))
              /\ Goto(t, "try_clear")
         ELSE UNCHANGED <<send_buffer, pc>>
    /\ UNCHANGED <<shared, queue, sent, disconnect>>

\* Cancelled, failed, or a WSASend of 0 bytes, which is taken for failed.
GetSendFailed(t) ==
    /\ pc[t] = "idle" /\ t \in Workers \ buffered
    /\ port["SEND0"] > 0
    /\ port' = [port EXCEPT !["SEND0"] = @ - 1]
    /\ pending' = 0 /\ in_flight' = 0
    /\ disconnect' = 1
    /\ UNCHANGED <<shared, queue, send_buffer, sent, pc>>
-----------------------------------------------------------------------------
(* trySend and sendPost *)

TryClear(t) ==
    /\ pc[t] = "try_clear"
    /\ StoreFalse(t)
    /\ Goto(t, "try_size")
    /\ UNCHANGED <<queue, send_buffer, io, disconnect>>

\* Mutant: trySend trusts the flag and does not look at send_q.
TrySize_NoRecheck(t) ==
    /\ pc[t] = "try_size"
    /\ Goto(t, "idle")
    /\ UNCHANGED <<shared, queue, send_buffer, io, disconnect>>

TrySize(t) ==
    /\ pc[t] = "try_size"
    /\ Goto(t, IF send_size > 0 THEN "sp_check" ELSE "idle")
    /\ UNCHANGED <<shared, queue, send_buffer, io, disconnect>>

SendCheck(t) ==
    /\ pc[t] = "sp_check"
    /\ Goto(t, IF disconnect = 0 THEN "sp_xchg" ELSE "idle")
    /\ UNCHANGED <<shared, queue, send_buffer, io, disconnect>>

\* Mutant: the flag is set without testing who had it.
SendExchange_Untested(t) ==
    /\ pc[t] = "sp_xchg"
    /\ ExchangeTrue(t)
    /\ Goto(t, "sp_size")
    /\ UNCHANGED <<queue, send_buffer, io, disconnect>>

SendExchange(t) ==
    /\ pc[t] = "sp_xchg"
    /\ ExchangeTrue(t)
    /\ Goto(t, IF send_post_flag = 1 THEN "idle" ELSE "sp_size")
    /\ UNCHANGED <<queue, send_buffer, io, disconnect>>

SendNothing(t) ==
    /\ pc[t] = "sp_size"
    /\ send_size = 0
    /\ StoreFalse(t)
    /\ Goto(t, "pend_check")
    /\ UNCHANGED <<queue, send_buffer, io, disconnect>>

SendSomething(t) ==
    /\ pc[t] = "sp_size"
    /\ send_size > 0
    /\ Goto(t, "sp_front")
    /\ UNCHANGED <<shared, queue, send_buffer, io, disconnect>>

\* Front() is copied to send_buffer, before Dequeue() takes it out of send_q.
SendFront(t) ==
    /\ pc[t] = "sp_front"
    /\ IF send_q # <<>> /\ Len(send_buffer) < MaxBatch
         THEN /\ send_buffer' = Append(send_buffer, Head(send_q))
              /\ Goto(t, "sp_dequeue")
         ELSE /\ UNCHANGED send_buffer
              /\ Goto(t, "sp_send")
    /\ UNCHANGED <<shared, queue, io, disconnect>>

\* Dequeue is repeated while _size does not count the packet yet.
SendDequeue(t) ==
    /\ pc[t] = "sp_dequeue"
    /\ send_size > 0
    /\ Q!Remove
    /\ Goto(t, "sp_count")
    /\ UNCHANGED <<shared, in_line, send_size, free_nodes, send_buffer, io, disconnect>>

\* _size is decremented and the node goes back to the pool.
SendCount(t) ==
    /\ pc[t] = "sp_count"
    /\ send_size' = send_size - 1
    /\ free_nodes' = free_nodes + 1
    /\ Goto(t, "sp_front")
    /\ UNCHANGED <<shared, lists, send_buffer, io, disconnect>>

\* WSASend of everything in send_buffer, which may be nothing, accepted or refused.
SendPost(t) ==
    /\ pc[t] = "sp_send"
    /\ \/ /\ sent' = sent \o send_buffer
          /\ pending' = 1 /\ in_flight' = Len(send_buffer)
          /\ UNCHANGED disconnect
       \/ /\ disconnect' = 1
          /\ UNCHANGED <<sent, pending, in_flight>>
    /\ Goto(t, "idle")
    /\ UNCHANGED <<shared, queue, send_buffer, port>>
-----------------------------------------------------------------------------
(* The kernel, and everybody else who may disconnect the session *)

\* A disconnected session's WSASend is cancelled or completes, a connected
\* one's completes or fails.  What was nothing completes with 0 bytes.
SendComplete ==
    /\ pending = 1
    /\ port["SEND"] + port["SEND0"] = 0
    /\ \E p \in {"SEND", "SEND0"} : /\ p = "SEND" => in_flight > 0
                                   /\ port' = [port EXCEPT ![p] = 1]
    /\ UNCHANGED <<shared, queue, send_buffer, pending, in_flight, sent, disconnect, pc>>

Disconnected ==
    /\ disconnect = 0
    /\ disconnect' = 1
    /\ UNCHANGED <<shared, queue, send_buffer, io, pc>>
-----------------------------------------------------------------------------
\* The steps of a thread that is inside the server.
Run(t) ==
    \/ Drain(t) \/ Enqueue(t) \/ EnqueueLink(t) \/ EnqueueCount(t)
    \/ PendCheck(t) \/ PendExchange(t) \/ TryClear(t) \/ TrySize(t)
    \/ SendCheck(t) \/ SendExchange(t) \/ SendNothing(t) \/ SendSomething(t)
    \/ SendFront(t) \/ SendDequeue(t) \/ SendCount(t) \/ SendPost(t)

Get(t) == GetSendPend(t) \/ GetSendDone(t) \/ GetSendFailed(t)

Next == \/ \E t \in Threads : Run(t)
        \/ \E t \in Workers : Get(t)
        \/ \E t \in Senders : SendPacket(t)
        \/ SendComplete
        \/ Disconnected

Spec == Init /\ [][Next]_vars

\* A thread that can run runs, workers dequeue what is in the port, WSASend
\* completes.  Nobody has to call SendPacket again.
Fairness == /\ \A t \in Threads : WF_vars(Run(t))
            /\ WF_vars(\E t \in Workers : Get(t))
            /\ WF_vars(SendComplete)

FairSpec == Spec /\ Fairness
-----------------------------------------------------------------------------
(* Properties *)

Numbers == 1 .. MaxPackets

\* Every variable has its type.
TypeOK ==
    /\ memory \in Memories
    /\ send_post_flag \in {0, 1}
    /\ buffered \subseteq Threads
    /\ accepted \in 0 .. MaxPackets
    /\ unlinked \in [Senders -> Seq(Numbers)]
    /\ send_q \in Seq(Numbers) /\ in_line \in Seq(Numbers)
    /\ send_size \in Nat /\ free_nodes \in Nat
    /\ send_buffer \in Seq(Numbers) /\ Len(send_buffer) <= MaxBatch
    /\ port \in [Posts -> Nat]
    /\ pending \in {0, 1}
    /\ in_flight \in 0 .. MaxBatch
    /\ disconnect \in {0, 1}
    /\ sent \in Seq(Numbers)
    /\ pc \in [Threads -> {"idle", "enqueue", "link", "count", "pend_check", "pend_xchg",
                           "try_clear", "try_size", "sp_check", "sp_xchg", "sp_size",
                           "sp_front", "sp_dequeue", "sp_count", "sp_send"}]

\* The thread that owns the send side of the Session: it has dequeued SEND_PEND
\* or a completion and not yet cleared the flag, or it won the exchange and has
\* not yet called WSASend.
Owns(t) == pc[t] \in {"try_clear", "sp_size", "sp_front", "sp_dequeue", "sp_count",
                      "sp_send"}

\* send_q has one consumer and a Session one outstanding WSASend: the send side
\* belongs to one thread, to a SEND_PEND packet or to a WSASend whose completion
\* was not dequeued yet.  Front() and Dequeue() of send_q and the unlocked
\* send_buffer rely on it (LockFreeQueue.h:35).
SingleSender ==
    /\ \A t, u \in Threads : Owns(t) /\ Owns(u) => t = u
    /\ \A t \in Threads : Owns(t) => port["SEND_PEND"] = 0 /\ pending = 0
    /\ pending = 1 => port["SEND_PEND"] = 0
    /\ port["SEND_PEND"] + port["SEND"] + port["SEND0"] <= 1

Channel == INSTANCE PacketChannel
             WITH order <- in_line, delivered <- sent, broken <- disconnect

\* The send path implements the channel, in either memory.  However the senders get in
\* each other's way in Enqueue, and whenever send_q or send_buffer is full, an accepted
\* packet comes into line at most once, and WSASend gets the packets once each, in the
\* order in which send_q gives them out, and skips none.
ImplementsChannel == Channel!Spec

Sent == {sent[i] : i \in 1 .. Len(sent)}

\* SendPacket: "sends the packet to the session" (CNetServer.h:90).  A packet
\* that was accepted is handed to WSASend unless the session is disconnected,
\* whether or not SendPacket is called again.
EventuallySent == \A n \in Numbers :
    accepted >= n ~> (n \in Sent \/ disconnect = 1)

\* The same on a machine that performs loads and stores in program order: the
\* second look at send_q (CNetServer.cpp:719, 890) leaves no packet behind.
SentWithoutBuffers == \A n \in Numbers :
    (memory = "SC" /\ accepted >= n) ~> (n \in Sent \/ disconnect = 1)
=============================================================================
