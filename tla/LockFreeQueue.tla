---------------------------- MODULE LockFreeQueue ----------------------------
(***************************************************************************)
(* LockFreeQueue: a linked list with a dummy node in front, a tagged head  *)
(* and a tagged tail that are changed by compare-exchange, nodes recycled  *)
(* through the queue's own pool at once, and a counter of its own.         *)
(*                                                                         *)
(* Two callers.  Log enqueues and posts LOG_PEND, a worker that gets one   *)
(* calls writeLog and repeats Dequeue until it has a log.  SendPacket      *)
(* enqueues to send_q, and the one thread inside sendPost asks GetSize,    *)
(* takes what Front shows, and hands the batch to WSASend.                 *)
(*                                                                         *)
(* One step is one access to shared memory.  Merged: a test and the        *)
(* compare-exchange it short-cuts; Alloc with the writes to the new node,  *)
(* whose only other readers hold a stale tag or see next afterwards; the   *)
(* pool is an atomic stack.                                                *)
(***************************************************************************)
EXTENDS Integers, Sequences, FiniteSets

CONSTANTS Producers,       \* threads that call Enqueue
          Consumers,       \* threads that call Dequeue
          NodeCount,       \* capacity + 1 nodes: LockFreePool(capacity + 1)
          MaxEnqueues,     \* bound: how often Enqueue is called
          Callers          \* "send": send_q and sendPost, "log": m_logQueue and writeLog

ASSUME ThreadsAssumption == /\ IsFiniteSet(Producers) /\ IsFiniteSet(Consumers)
                            /\ Producers \cap Consumers = {}
ASSUME BoundsAssumption  == NodeCount \in Nat \ {0} /\ MaxEnqueues \in Nat
ASSUME CallersAssumption == Callers \subseteq {"send", "log"}

Null    == 0
Nodes   == 1 .. NodeCount
Threads == Producers \cup Consumers
Values  == 1 .. MaxEnqueues   \* numbered as they get their nodes
NoValue == 0
Tagged  == [node : Nodes \cup {Null}, tag : Nat]
NoTagged == [node |-> Null, tag |-> 0]

VARIABLES
    caller,            \* what the queue is used for
    next, data,        \* the fields of a node
    _head, _tail,      \* a node and the count in its upper bits
    _size,
    pool,              \* the stack of free nodes
    posted,            \* LOG_PEND packets in the completion port
    \* a thread: location, new node, value of _head or _tail it read, next, data
    pc, my, old, nx, val,
    \* number of values that got a node, values dequeued, packets in sendPost's batch
    made, taken, batch

queue == <<next, data, _head, _tail, _size, pool>>
local == <<my, old, nx, val>>
vars  == <<caller, queue, posted, pc, local, made, taken, batch>>

Init == /\ caller \in Callers
        /\ next = [n \in Nodes |-> Null]
        /\ data = [n \in Nodes |-> NoValue]
        /\ _head = [node |-> 1, tag |-> 0]
        /\ _tail = [node |-> 1, tag |-> 0]
        /\ _size = 0
        /\ pool = [i \in 1 .. NodeCount - 1 |-> i + 1]
        /\ posted = 0
        /\ pc = [t \in Threads |-> "idle"]
        /\ my = [p \in Producers |-> Null]
        /\ old = [t \in Threads |-> NoTagged]
        /\ nx = [t \in Threads |-> Null]
        /\ val = [t \in Consumers |-> NoValue]
        /\ made = 0
        /\ taken = {}
        /\ batch = 0

\* LockFreePool, as an atomic stack: the node freed last is the next to be used.
Alloc(n) == pool # <<>> /\ n = Head(pool) /\ pool' = Tail(pool)
Free(n)  == pool' = <<n>> \o pool

Goto(t, l) == pc' = [pc EXCEPT ![t] = l]
Moved(to, from) == [node |-> to, tag |-> from.tag + 1]
-----------------------------------------------------------------------------
(* Enqueue; an empty pool refuses it *)

EnqAlloc(p) ==
    /\ pc[p] = "idle" /\ made < MaxEnqueues
    /\ \E n \in Nodes :
        /\ Alloc(n)
        /\ data' = [data EXCEPT ![n] = made + 1]
        /\ next' = [next EXCEPT ![n] = Null]
        /\ my' = [my EXCEPT ![p] = n]
    /\ made' = made + 1
    /\ Goto(p, "e_tail")
    /\ UNCHANGED <<caller, _head, _tail, _size, posted, old, nx, val, taken, batch>>

EnqTail(p) ==
    /\ pc[p] = "e_tail"
    /\ old' = [old EXCEPT ![p] = _tail]
    /\ Goto(p, "e_next")
    /\ UNCHANGED <<caller, queue, posted, my, nx, val, made, taken, batch>>

EnqNext(p) ==
    /\ pc[p] = "e_next"
    /\ nx' = [nx EXCEPT ![p] = next[old[p].node]]
    /\ Goto(p, IF nx'[p] = Null THEN "e_link" ELSE "e_help")
    /\ UNCHANGED <<caller, queue, posted, my, old, val, made, taken, batch>>

\* Mutant: the new node is stored without looking again.
EnqLink_Store(p) ==
    /\ pc[p] = "e_link"
    /\ next' = [next EXCEPT ![old[p].node] = my[p]]
    /\ Goto(p, "e_swing")
    /\ UNCHANGED <<caller, data, _head, _tail, _size, pool, posted, local, made, taken, batch>>

\* next has no tag: the node may have been recycled since it was the tail.
EnqLink(p) ==
    /\ pc[p] = "e_link"
    /\ IF next[old[p].node] = Null
         THEN next' = [next EXCEPT ![old[p].node] = my[p]] /\ Goto(p, "e_swing")
         ELSE UNCHANGED next /\ Goto(p, "e_tail")
    /\ UNCHANGED <<caller, data, _head, _tail, _size, pool, posted, local, made, taken, batch>>

EnqHelp(p) ==
    /\ pc[p] = "e_help"
    /\ _tail' = IF _tail = old[p] THEN Moved(nx[p], old[p]) ELSE _tail
    /\ Goto(p, "e_tail")
    /\ UNCHANGED <<caller, next, data, _head, _size, pool, posted, local, made, taken, batch>>

EnqSwing(p) ==
    /\ pc[p] = "e_swing"
    /\ _tail' = IF _tail = old[p] THEN Moved(my[p], old[p]) ELSE _tail
    /\ Goto(p, "e_count")
    /\ UNCHANGED <<caller, next, data, _head, _size, pool, posted, local, made, taken, batch>>

EnqCount(p) ==
    /\ pc[p] = "e_count"
    /\ _size' = _size + 1
    /\ Goto(p, IF caller = "send" THEN "idle" ELSE "post")
    /\ my' = [my EXCEPT ![p] = Null]
    /\ old' = [old EXCEPT ![p] = NoTagged]
    /\ nx' = [nx EXCEPT ![p] = Null]
    /\ UNCHANGED <<caller, next, data, _head, _tail, pool, posted, val, made, taken, batch>>

\* Log posts LOG_PEND.
PostLog(p) ==
    /\ pc[p] = "post"
    /\ posted' = posted + 1
    /\ Goto(p, "idle")
    /\ UNCHANGED <<caller, queue, local, made, taken, batch>>
-----------------------------------------------------------------------------
(* Dequeue: what returns true ends in DeqFree, what returns false in Again *)

\* writeLog and sendPost repeat a Dequeue that failed.
Again(c) == Goto(c, "d_size")

\* Mutant: the last value is never taken.
DeqSize_OffByOne(c) ==
    /\ pc[c] = "d_size"
    /\ IF _size <= 1 THEN Again(c) ELSE Goto(c, "d_head")
    /\ UNCHANGED <<caller, queue, posted, local, made, taken, batch>>

DeqSize(c) ==
    /\ pc[c] = "d_size"
    /\ IF _size <= 0 THEN Again(c) ELSE Goto(c, "d_head")
    /\ UNCHANGED <<caller, queue, posted, local, made, taken, batch>>

DeqHead(c) ==
    /\ pc[c] = "d_head"
    /\ old' = [old EXCEPT ![c] = _head]
    /\ Goto(c, "d_next")
    /\ UNCHANGED <<caller, queue, posted, my, nx, val, made, taken, batch>>

DeqNext(c) ==
    /\ pc[c] = "d_next"
    /\ nx' = [nx EXCEPT ![c] = next[old[c].node]]
    /\ IF nx'[c] = Null THEN Again(c) ELSE Goto(c, "d_tail")
    /\ UNCHANGED <<caller, queue, posted, my, old, val, made, taken, batch>>

\* Mutant: the tail is not pushed on in front of the head.
DeqTail_NoHelp(c) ==
    /\ pc[c] = "d_tail"
    /\ Goto(c, "d_data")
    /\ UNCHANGED <<caller, queue, posted, local, made, taken, batch>>

DeqTail(c) ==
    /\ pc[c] = "d_tail"
    /\ _tail' = IF _tail = old[c] THEN Moved(nx[c], old[c]) ELSE _tail
    /\ Goto(c, "d_data")
    /\ UNCHANGED <<caller, next, data, _head, _size, pool, posted, local, made, taken, batch>>

\* Mutant: the value of the dummy node is returned in place of the next one's.
DeqData_Dummy(c) ==
    /\ pc[c] = "d_data"
    /\ val' = [val EXCEPT ![c] = data[old[c].node]]
    /\ Goto(c, "d_cas")
    /\ UNCHANGED <<caller, queue, posted, my, old, nx, made, taken, batch>>

DeqData(c) ==
    /\ pc[c] = "d_data"
    /\ val' = [val EXCEPT ![c] = data[nx[c]]]
    /\ Goto(c, "d_cas")
    /\ UNCHANGED <<caller, queue, posted, my, old, nx, made, taken, batch>>

\* Mutant: the compare-exchange does not look at the count.
DeqCas_NoTag(c) ==
    /\ pc[c] = "d_cas"
    /\ IF _head.node = old[c].node
         THEN /\ _head' = Moved(nx[c], old[c])
              /\ taken' = taken \cup {val[c]}
              /\ Goto(c, "d_count")
         ELSE UNCHANGED <<caller, _head, taken>> /\ Goto(c, "d_head")
    /\ UNCHANGED <<caller, next, data, _tail, _size, pool, posted, local, made, batch>>

DeqCas(c) ==
    /\ pc[c] = "d_cas"
    /\ IF _head = old[c]
         THEN /\ _head' = Moved(nx[c], old[c])
              /\ taken' = taken \cup {val[c]}
              /\ Goto(c, "d_count")
         ELSE UNCHANGED <<caller, _head, taken>> /\ Goto(c, "d_head")
    /\ UNCHANGED <<caller, next, data, _tail, _size, pool, posted, local, made, batch>>

DeqCount(c) ==
    /\ pc[c] = "d_count"
    /\ _size' = _size - 1
    /\ Goto(c, "d_free")
    /\ UNCHANGED <<caller, next, data, _head, _tail, pool, posted, local, made, taken, batch>>

\* Mutant: the node of the value is freed in place of the old dummy.
DeqFree_Next(c) ==
    /\ pc[c] = "d_free"
    /\ Free(nx[c])
    /\ old' = [old EXCEPT ![c] = NoTagged]
    /\ nx' = [nx EXCEPT ![c] = Null]
    /\ val' = [val EXCEPT ![c] = NoValue]
    /\ Goto(c, IF caller = "send" THEN "front" ELSE "idle")
    /\ UNCHANGED <<caller, next, data, _head, _tail, _size, posted, my, made, taken, batch>>

\* The node that was the dummy goes back to the pool.
DeqFree(c) ==
    /\ pc[c] = "d_free"
    /\ Free(old[c].node)
    /\ old' = [old EXCEPT ![c] = NoTagged]
    /\ nx' = [nx EXCEPT ![c] = Null]
    /\ val' = [val EXCEPT ![c] = NoValue]
    /\ IF caller = "send" THEN batch' = batch + 1 /\ Goto(c, "front")
                          ELSE UNCHANGED batch /\ Goto(c, "idle")
    /\ UNCHANGED <<caller, next, data, _head, _tail, _size, posted, my, made, taken>>
-----------------------------------------------------------------------------
(* The callers of Dequeue *)

WriteLog(c) ==
    /\ caller = "log" /\ pc[c] = "idle" /\ posted > 0
    /\ posted' = posted - 1
    /\ Goto(c, "d_size")
    /\ UNCHANGED <<caller, queue, local, made, taken, batch>>

\* sendPost: the thread got send_post_flag, and GetSize was positive.
SendPost(c) ==
    /\ caller = "send" /\ \A d \in Consumers : pc[d] = "idle"
    /\ _size > 0
    /\ Goto(c, "front")
    /\ UNCHANGED <<caller, queue, posted, local, made, taken, batch>>

\* Front; when there is something, Dequeue it.
Front(c) ==
    /\ pc[c] = "front"
    /\ Goto(c, IF next[_head.node] = Null THEN "wsasend" ELSE "d_size")
    /\ UNCHANGED <<caller, queue, posted, local, made, taken, batch>>

\* send_buffer is full.
BufferFull(c) ==
    /\ pc[c] = "front" /\ batch > 0
    /\ Goto(c, "wsasend")
    /\ UNCHANGED <<caller, queue, posted, local, made, taken, batch>>

WsaSend(c) ==
    /\ pc[c] = "wsasend"
    /\ batch' = 0
    /\ Goto(c, "idle")
    /\ UNCHANGED <<caller, queue, posted, local, made, taken>>
-----------------------------------------------------------------------------
Produce(p) == \/ EnqAlloc(p) \/ EnqTail(p) \/ EnqNext(p) \/ EnqLink(p)
              \/ EnqHelp(p) \/ EnqSwing(p) \/ EnqCount(p) \/ PostLog(p)
Dequeue(c) == \/ DeqSize(c) \/ DeqHead(c) \/ DeqNext(c) \/ DeqTail(c)
              \/ DeqData(c) \/ DeqCas(c) \/ DeqCount(c) \/ DeqFree(c)
Consume(c) == \/ WriteLog(c) \/ SendPost(c) \/ Front(c) \/ BufferFull(c)
              \/ WsaSend(c) \/ Dequeue(c)

Next == (\E p \in Producers : Produce(p)) \/ (\E c \in Consumers : Consume(c))

Spec == Init /\ [][Next]_vars

\* Threads run.
Fairness == /\ \A p \in Producers : WF_vars(Produce(p))
            /\ \A c \in Consumers : WF_vars(Consume(c))
FairSpec == Spec /\ Fairness
-----------------------------------------------------------------------------
(* Properties *)

Locations == {"idle", "e_tail", "e_next", "e_link", "e_help", "e_swing", "e_count", "post",
              "d_size", "d_head", "d_next", "d_tail", "d_data", "d_cas", "d_count",
              "d_free", "front", "wsasend"}

\* Every variable has its type; _size may fall behind, but by no more than the
\* enqueues that have not counted yet.
TypeOK ==
    /\ caller \in Callers
    /\ next \in [Nodes -> Nodes \cup {Null}]
    /\ data \in [Nodes -> Values \cup {NoValue}]
    /\ _head \in [node : Nodes, tag : Nat] /\ _tail \in [node : Nodes, tag : Nat]
    /\ _size \in -Cardinality(Producers) .. NodeCount
    /\ pool \in Seq(Nodes) /\ Len(pool) < NodeCount
    /\ posted \in Nat
    /\ pc \in [Threads -> Locations]
    /\ my \in [Producers -> Nodes \cup {Null}]
    /\ old \in [Threads -> Tagged]
    /\ nx \in [Threads -> Nodes \cup {Null}]
    /\ val \in [Consumers -> Values \cup {NoValue}]
    /\ made \in 0 .. MaxEnqueues
    /\ taken \subseteq Values
    /\ batch \in Nat

\* The node k links behind node n, Null when there is none.
Behind(n, k) == LET at[i \in 0 .. k] == IF i = 0 THEN n
                                       ELSE IF at[i - 1] = Null THEN Null
                                       ELSE next[at[i - 1]]
                IN  at[k]
From(n) == {Behind(n, k) : k \in 0 .. NodeCount} \ {Null}

InPool    == {pool[i] : i \in 1 .. Len(pool)}
Unlinked  == {p \in Producers : pc[p] \in {"e_tail", "e_next", "e_link", "e_help"}}
Unfreed   == {c \in Consumers : pc[c] \in {"d_count", "d_free"}}
Private   == {my[p] : p \in Unlinked} \cup {old[c].node : c \in Unfreed}

\* A node is in one place: in the pool once, in the list, or with the one thread that
\* took it and has not linked or freed it yet.
NodesApart ==
    /\ Cardinality(InPool) = Len(pool)
    /\ InPool \cap From(_head.node) = {}
    /\ InPool \cap Private = {}
    /\ Private \cap From(_head.node) = {}
    /\ Cardinality(Private) = Cardinality(Unlinked) + Cardinality(Unfreed)

\* Values whose node was linked behind another one.
Linked == (1 .. made) \ {data[my[p]] : p \in Unlinked}

\* A value that was linked and not dequeued is in the list, or behind a node that its
\* owner is going to link: recycling never cuts it off, although the
\* compare-exchange of next cannot tell a recycled node from the old tail.
NothingLost == \A v \in Linked \ taken :
    \E n \in {_head.node} \cup {my[p] : p \in Unlinked} :
        \E m \in From(n) \ {_head.node} : data[m] = v

\* What the list holds was not dequeued before and will be dequeued once.
TakenOnce ==
    LET Held == From(_head.node) \ {_head.node} IN
    /\ \A m \in Held : data[m] \in Linked \ taken
    /\ \A m, n \in Held : data[m] = data[n] => m = n

\* _tail is never left behind _head, and the counts are positions: equal counts mean
\* the same node, which Dequeue relies on when it compares _head with _tail.
TailAhead == \E k \in 0 .. NodeCount : /\ Behind(_head.node, k) = _tail.node
                                       /\ _tail.tag = _head.tag + k

\* A Dequeue that fails because of an Enqueue in progress succeeds once the enqueuer
\* has finished (LockFreeQueue.h:155, CNetServer.cpp:1177): nothing that was linked
\* stays in the queue, and no writeLog repeats Dequeue for ever.  Enqueues are
\* bounded, so that "again and again everything is taken" says it of each value.
EventuallyTaken == []<>(Linked \subseteq taken)

\* A completion of WSASend with 0 bytes means a failed operation or a posted packet
\* (CNetServer.cpp:457): sendPost, which calls WSASend when GetSize was positive,
\* sends something.
NoEmptySend == \A c \in Consumers : pc[c] = "wsasend" => batch > 0

\* The values of node n and of those behind it.
ValuesFrom(n) == LET k == CHOOSE j \in 1 .. NodeCount :
                                Behind(n, j) = Null /\ Behind(n, j - 1) # Null
                 IN  [i \in 1 .. k |-> data[Behind(n, i - 1)]]

\* What a Dequeue can reach, and what an enqueuer has not linked yet.
Line    == Tail(ValuesFrom(_head.node))
Waiting == [p \in Producers |-> IF p \in Unlinked THEN ValuesFrom(my[p]) ELSE <<>>]

Promise == INSTANCE PacketQueue WITH line <- Line, chain <- Waiting

\* What the callers may rely on, whatever nodes are recycled meanwhile: a value comes into
\* the list once, behind what is in it, and waits before that at most behind a value whose
\* node was taken later and is not linked; Dequeue returns the first of the list and takes
\* it out.  (The order of the calls is not kept, not even of one caller's.)
ImplementsPacketQueue == Promise!Spec
=============================================================================
