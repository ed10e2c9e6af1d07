-------------------------- MODULE LockFreeQueueProof --------------------------
(***************************************************************************)
(* For any number of threads and nodes: the nodes are in one place each,   *)
(* no value is lost or taken twice, the tail stays ahead of the head, and  *)
(* the queue keeps what PacketQueue promises.                              *)
(*                                                                         *)
(* The invariant IInv says that some description of the list fits the      *)
(* state: ch, the chains of nodes.  It is not kept in a variable: each     *)
(* step lemma names the chains after the step.                             *)
(***************************************************************************)
EXTENDS LockFreeQueue, FiniteSetTheorems, SequenceTheorems, TLAPS

(***************************************************************************)
(* The list and the chains beside it.  An enqueuer that has not linked its *)
(* node yet may find others linked behind it: threads that read the tail   *)
(* before that node was recycled, and whose compare-exchange of next, which *)
(* has no tag, takes the new Null for the old one.  So there is a chain    *)
(* from _head, the list, and one from each node that is not linked.        *)
(***************************************************************************)
Anchors == {_head.node} \cup {my[p] : p \in Unlinked}

\* ch[a] is the chain that begins with the node a.
On(ch, a)  == {ch[a][i] : i \in 1 .. Len(ch[a])}
Chains(ch) == UNION {On(ch, a) : a \in Anchors}
Live(ch)   == Chains(ch) \ {_head.node}
Made       == 1 .. made

Enqueuing == {"e_tail", "e_next", "e_link", "e_help", "e_swing", "e_count"}
Aiming    == {"e_next", "e_link", "e_help", "e_swing"}
Linking   == {"e_next", "e_link"}
Dequeuing == {"d_next", "d_tail", "d_data", "d_cas"}
Knowing   == {"d_tail", "d_data", "d_cas"}
Unfreeing == {"d_count", "d_free"}

\* Types, and the fields a thread has filled in at its location.
Typed ==
    /\ caller \in Callers
    /\ next \in [Nodes -> Nodes \cup {Null}]
    /\ data \in [Nodes -> Values \cup {NoValue}]
    /\ _head \in [node : Nodes, tag : Nat] /\ _tail \in [node : Nodes, tag : Nat]
    /\ _size \in Int /\ pool \in Seq(Nodes) /\ posted \in Nat /\ batch \in Nat
    /\ pc \in [Threads -> Locations]
    /\ my \in [Producers -> Nodes \cup {Null}]
    /\ old \in [Threads -> Tagged]
    /\ nx \in [Threads -> Nodes \cup {Null}]
    /\ val \in [Consumers -> Values \cup {NoValue}]
    /\ made \in 0 .. MaxEnqueues

Filled ==
    /\ \A p \in Producers :
        /\ pc[p] \in {"idle", "post"} \cup Enqueuing
        /\ pc[p] \in Enqueuing => my[p] \in Nodes
        /\ pc[p] \in Aiming => old[p].node \in Nodes
        /\ pc[p] = "e_help" => nx[p] \in Nodes
    /\ \A c \in Consumers :
        /\ pc[c] \in {"idle", "front", "wsasend", "d_size", "d_head"} \cup Dequeuing \cup Unfreeing
        /\ pc[c] \in Dequeuing \cup Unfreeing => old[c].node \in Nodes
        /\ pc[c] \in Knowing => nx[c] \in Nodes

\* ch describes the chains, and no node is on two of them or twice on one.
Chained(ch) ==
    /\ ch \in [Nodes -> Seq(Nodes)]
    /\ \A p, q \in Unlinked : my[p] = my[q] => p = q
    /\ \A p \in Unlinked : my[p] # _head.node
    /\ \A a \in Anchors : Len(ch[a]) > 0 /\ ch[a][1] = a
    /\ \A a \in Anchors : \A i \in 1 .. Len(ch[a]) :
        next[ch[a][i]] = IF i < Len(ch[a]) THEN ch[a][i + 1] ELSE Null
    /\ \A a, b \in Anchors : \A i \in 1 .. Len(ch[a]), j \in 1 .. Len(ch[b]) :
        ch[a][i] = ch[b][j] => a = b /\ i = j

\* The pool, the nodes about to be freed and the chains share no node.
Apart(ch) ==
    /\ \A i, j \in 1 .. Len(pool) : pool[i] = pool[j] => i = j
    /\ \A c, d \in Unfreed : old[c].node = old[d].node => c = d
    /\ \A c \in Unfreed : old[c].node \notin InPool
    /\ \A n \in Chains(ch) : n \notin InPool
    /\ \A c \in Unfreed : old[c].node \notin Chains(ch)

\* The counts of head and tail are positions in the list.
TailOn(ch) ==
    /\ _tail.tag - _head.tag \in 0 .. Len(ch[_head.node]) - 1
    /\ _tail.node = ch[_head.node][_tail.tag - _head.tag + 1]

\* What enqueuer p may rely on.  The node it saw as the tail may be anywhere now; if its
\* next is Null, it is the last of a chain.  If that is the chain of an enqueuer q that
\* has not linked its node, then q took that node after p took its own, and the values
\* are numbered in the order in which the nodes were taken.
Enqueues(ch, p) ==
    /\ pc[p] \in Aiming => /\ old[p].tag <= _tail.tag
                           /\ old[p].tag = _tail.tag => old[p] = _tail
    /\ pc[p] \in Linking =>
        /\ next[old[p].node] = Null => old[p].node \in Chains(ch)
        /\ \A q \in Unlinked : old[p].node \in On(ch, my[q])
                               => data[my[p]] < data[my[q]]
    /\ pc[p] = "e_help" /\ old[p] = _tail => next[_tail.node] = nx[p]
    /\ pc[p] = "e_swing" /\ old[p] = _tail => next[_tail.node] = my[p]

\* What dequeuer c may rely on, as long as the head is the one it read.
Dequeues(c) ==
    /\ pc[c] \in Dequeuing => /\ old[c].tag <= _head.tag
                              /\ old[c].tag = _head.tag => old[c] = _head
    /\ pc[c] \in Knowing /\ old[c] = _head => next[_head.node] = nx[c]
    /\ pc[c] \in {"d_data", "d_cas"} /\ old[c] = _head => _head.tag < _tail.tag
    /\ pc[c] = "d_cas" /\ old[c] = _head => val[c] = data[nx[c]]

\* The chains hold what was enqueued and not dequeued, each value once.
Stored(ch) ==
    /\ taken \subseteq Made
    /\ \A n \in Live(ch) : data[n] \in Made \ taken
    /\ \A m, n \in Live(ch) : data[m] = data[n] => m = n
    /\ \A v \in Made \ taken : \E n \in Live(ch) : data[n] = v

Shape(ch) == /\ Typed /\ Filled /\ Chained(ch) /\ Apart(ch) /\ TailOn(ch)
             /\ \A p \in Producers : Enqueues(ch, p)
             /\ \A c \in Consumers : Dequeues(c)
             /\ Stored(ch)
-----------------------------------------------------------------------------
(* Chains *)

\* A chain is a sequence of nodes that begins with its anchor.
LEMMA ChainTypes ==
    ASSUME NEW ch, Typed, Filled, Chained(ch), NEW a \in Anchors
    PROVE  /\ a \in Nodes /\ ch[a] \in Seq(Nodes) /\ Len(ch[a]) \in Nat \ {0}
           /\ \A i \in 1 .. Len(ch[a]) : ch[a][i] \in Nodes
           /\ a \in On(ch, a) /\ On(ch, a) \subseteq Chains(ch) /\ On(ch, a) \subseteq Nodes
<1>1. a \in Nodes
  BY DEF Anchors, Typed, Filled, Unlinked, Enqueuing
<1>2. ch[a] \in Seq(Nodes) /\ Len(ch[a]) \in Nat \ {0} /\ ch[a][1] = a
  BY <1>1 DEF Chained
<1>3. \A i \in 1 .. Len(ch[a]) : ch[a][i] \in Nodes
  BY <1>2
<1>4. QED
  BY <1>1, <1>2, <1>3 DEF On, Chains

\* The nodes of a chain are linked one to the next.
LEMMA ChainLinks ==
    ASSUME NEW ch, Chained(ch), NEW a \in Anchors, NEW i \in 1 .. Len(ch[a])
    PROVE  next[ch[a][i]] = IF i < Len(ch[a]) THEN ch[a][i + 1] ELSE Null
BY DEF Chained

\* Two chains share no node, and a chain does not pass through a node twice.
LEMMA ChainPlace ==
    ASSUME NEW ch, Chained(ch), NEW a \in Anchors, NEW b \in Anchors,
           NEW i \in 1 .. Len(ch[a]), NEW j \in 1 .. Len(ch[b]), ch[a][i] = ch[b][j]
    PROVE  a = b /\ i = j
BY DEF Chained

\* A node is on one chain only.
LEMMA ChainsApart ==
    ASSUME NEW ch, Chained(ch), NEW a \in Anchors, NEW b \in Anchors,
           NEW n \in On(ch, a), n \in On(ch, b)
    PROVE  a = b
<1>1. PICK i \in 1 .. Len(ch[a]) : n = ch[a][i]
  BY DEF On
<1>2. PICK j \in 1 .. Len(ch[b]) : n = ch[b][j]
  BY DEF On
<1>3. QED
  BY <1>1, <1>2, ChainPlace

\* The tail is on the list.
LEMMA TailOnList ==
    ASSUME NEW ch, Typed, Filled, Chained(ch), TailOn(ch)
    PROVE  /\ _head.node \in Anchors /\ _tail.node \in On(ch, _head.node)
           /\ _tail.node \in Chains(ch)
           /\ _head.tag \in Nat /\ _tail.tag \in Nat /\ _head.tag <= _tail.tag
           /\ _head.node \in Nodes /\ _tail.node \in Nodes
<1>1. _head.node \in Anchors
  BY DEF Anchors
<1>2. ch[_head.node] \in Seq(Nodes) /\ Len(ch[_head.node]) \in Nat \ {0}
  BY <1>1, ChainTypes
<1>3. _head.tag \in Nat /\ _tail.tag \in Nat /\ _head.node \in Nodes /\ _tail.node \in Nodes
  BY DEF Typed
<1>4. _tail.tag - _head.tag + 1 \in 1 .. Len(ch[_head.node]) /\ _head.tag <= _tail.tag
  BY <1>2, <1>3 DEF TailOn
<1>5. _tail.node \in On(ch, _head.node)
  BY <1>4 DEF TailOn, On
<1>6. QED
  BY <1>1, <1>3, <1>4, <1>5 DEF Chains

\* The values of nodes that are not linked.
LEMMA OwnValues ==
    ASSUME NEW ch, Typed, Filled, Chained(ch), Stored(ch)
    PROVE  \A p \in Unlinked : /\ my[p] \in Anchors /\ my[p] \in Live(ch) /\ my[p] \in On(ch, my[p])
                             /\ data[my[p]] \in Made /\ data[my[p]] \in Nat
<1>1. ASSUME NEW p \in Unlinked PROVE /\ my[p] \in Anchors /\ my[p] # _head.node
  BY DEF Anchors, Chained
<1>2. \A p \in Unlinked : my[p] \in On(ch, my[p]) /\ my[p] \in Live(ch)
  BY <1>1, ChainTypes DEF Live
<1>3. \A p \in Unlinked : data[my[p]] \in Made
  BY <1>2 DEF Stored
<1>4. Made \subseteq Nat
  BY DEF Made
<1>5. QED
  BY <1>1, <1>2, <1>3, <1>4
-----------------------------------------------------------------------------
(* What a step leaves alone *)

\* Neither the chains nor what lies beside them change.
Untouched ==
    /\ UNCHANGED <<next, data, _head, pool, made, taken>>
    /\ Unlinked' = Unlinked /\ Unfreed' = Unfreed
    /\ \A p \in Unlinked : my'[p] = my[p]
    /\ \A c \in Unfreed : old'[c] = old[c]

\* Only thread t changes its variables.
OnlyOf(t) ==
    /\ \A u \in Threads \ {t} : pc'[u] = pc[u] /\ old'[u] = old[u] /\ nx'[u] = nx[u]
    /\ \A p \in Producers \ {t} : my'[p] = my[p]
    /\ \A c \in Consumers \ {t} : val'[c] = val[c]

\* The parts of the invariant that are not about one thread.
LEMMA StillShaped ==
    ASSUME NEW ch, Shape(ch), Untouched
    PROVE  /\ Anchors' = Anchors /\ Chains(ch)' = Chains(ch) /\ Live(ch)' = Live(ch)
           /\ Chained(ch)' /\ Apart(ch)' /\ Stored(ch)'
<1>1. Anchors' = Anchors
  BY DEF Anchors, Untouched
<1>2. Chains(ch)' = Chains(ch) /\ Live(ch)' = Live(ch)
  BY <1>1 DEF Chains, Live, On, Untouched
<1>3. Chained(ch)'
  <2>1. Chained(ch)
    BY DEF Shape
  <2>2. QED
    BY <1>1, <2>1 DEF Chained, Untouched
<1>4. Apart(ch)'
  BY <1>2 DEF Shape, Apart, Untouched, InPool
<1>5. Stored(ch)'
  BY <1>2 DEF Shape, Stored, Untouched, Made
<1>6. QED
  BY <1>1, <1>2, <1>3, <1>4, <1>5

\* A step of thread t that only changes its own variables.
LEMMA QuietStep ==
    ASSUME NEW ch, Shape(ch), Untouched, _tail' = _tail,
           NEW t \in Threads, OnlyOf(t), Typed', Filled',
           t \in Producers => Enqueues(ch, t)', t \in Consumers => Dequeues(t)'
    PROVE  Shape(ch)' /\ Live(ch)' = Live(ch)
<1>1. /\ Anchors' = Anchors /\ Chains(ch)' = Chains(ch) /\ Live(ch)' = Live(ch)
      /\ Chained(ch)' /\ Apart(ch)' /\ Stored(ch)'
  BY StillShaped
<1>2. TailOn(ch)'
  BY DEF Shape, TailOn, Untouched
<1>3. ASSUME NEW p \in Producers \ {t} PROVE Enqueues(ch, p)'
  <2>1. Enqueues(ch, p)
    BY DEF Shape
  <2>2. pc'[p] = pc[p] /\ old'[p] = old[p] /\ nx'[p] = nx[p] /\ my'[p] = my[p]
    BY DEF OnlyOf, Threads
  <2>3. \A q \in Unlinked' : q \in Unlinked /\ my'[q] = my[q]
    BY DEF Untouched
  <2>4. QED
    BY <1>1, <2>1, <2>2, <2>3 DEF Enqueues, On, Untouched
<1>4. ASSUME NEW c \in Consumers \ {t} PROVE Dequeues(c)'
  <2>1. Dequeues(c)
    BY DEF Shape
  <2>2. pc'[c] = pc[c] /\ old'[c] = old[c] /\ nx'[c] = nx[c] /\ val'[c] = val[c]
    BY DEF OnlyOf, Threads
  <2>3. QED
    BY <2>1, <2>2 DEF Dequeues, Untouched
<1>5. QED
  BY <1>1, <1>2, <1>3, <1>4 DEF Shape
-----------------------------------------------------------------------------
(* Enqueue: the steps that only read, and the count *)

\* No thread both enqueues and dequeues.
LEMMA Disjoint == ASSUME NEW p \in Producers, NEW c \in Consumers PROVE p # c
BY ThreadsAssumption

\* Reading _tail: the node is on the list, hence on no chain of an unlinked node.
LEMMA EnqTailStep ==
    ASSUME NEW ch, Shape(ch), NEW p \in Producers, EnqTail(p)
    PROVE  Shape(ch)' /\ Live(ch)' = Live(ch)
<1> USE DEF Enqueuing, Aiming, Linking, Dequeuing, Knowing, Unfreeing
<1>1. Typed /\ Filled /\ p \in Threads /\ p \notin Consumers
  BY Disjoint DEF Shape, Threads
<1>2. Untouched
  BY <1>1, Disjoint DEF EnqTail, Untouched, queue, Unlinked, Unfreed, Goto, Typed
<1>3. OnlyOf(p)
  BY <1>1 DEF EnqTail, OnlyOf, Goto, Typed
<1>4. Typed'
  BY <1>1 DEF EnqTail, Typed, queue, Goto, Locations, Tagged
<1>5. Filled'
  BY <1>1, Disjoint DEF EnqTail, Filled, Typed, queue, Goto, Threads
<1>6. Enqueues(ch, p)'
  <2>1. /\ pc'[p] = "e_next" /\ old'[p] = _tail /\ _tail' = _tail /\ next' = next
    BY <1>1 DEF EnqTail, queue, Goto, Typed
  <2>2. /\ _head.node \in Anchors /\ _tail.node \in On(ch, _head.node)
        /\ _tail.node \in Chains(ch) /\ _tail.tag \in Nat
    BY TailOnList DEF Shape
  <2>3. \A q \in Unlinked : my[q] \in Anchors /\ my[q] # _head.node
    BY DEF Shape, Chained, Anchors
  <2>4. \A q \in Unlinked : _tail.node \notin On(ch, my[q])
    BY <2>2, <2>3, ChainsApart DEF Shape
  <2>5. Chains(ch)' = Chains(ch) /\ \A q \in Unlinked' : q \in Unlinked /\ my'[q] = my[q]
    BY <1>2, StillShaped DEF Untouched
  <2>6. QED
    BY <2>1, <2>2, <2>3, <2>4, <2>5 DEF Enqueues, On
<1>7. QED
  BY <1>1, <1>2, <1>3, <1>4, <1>5, <1>6, QuietStep DEF EnqTail, queue

\* Reading next of the node that was the tail.
LEMMA EnqNextStep ==
    ASSUME NEW ch, Shape(ch), NEW p \in Producers, EnqNext(p)
    PROVE  Shape(ch)' /\ Live(ch)' = Live(ch)
<1> USE DEF Enqueuing, Aiming, Linking, Dequeuing, Knowing, Unfreeing
<1>1. Typed /\ Filled /\ p \in Threads /\ p \notin Consumers /\ old[p].node \in Nodes
  BY Disjoint DEF Shape, Threads, EnqNext, Filled
<1>2. Untouched
  BY <1>1, Disjoint DEF EnqNext, Untouched, queue, Unlinked, Unfreed, Goto, Typed
<1>3. OnlyOf(p)
  BY <1>1 DEF EnqNext, OnlyOf, Goto, Typed
<1>4. Typed'
  BY <1>1 DEF EnqNext, Typed, queue, Goto, Locations
<1>5. Filled'
  BY <1>1, Disjoint DEF EnqNext, Filled, Typed, queue, Goto, Threads
<1>6. Enqueues(ch, p)'
  <2>1. /\ pc[p] = "e_next" /\ pc'[p] \in {"e_link", "e_help"}
        /\ old' = old /\ _tail' = _tail /\ next' = next /\ nx'[p] = next[old[p].node]
        /\ data' = data /\ my' = my
    BY <1>1 DEF EnqNext, queue, Goto, Typed
  <2>2. Chains(ch)' = Chains(ch) /\ \A q \in Unlinked' : q \in Unlinked /\ my'[q] = my[q]
    BY <1>2, StillShaped DEF Untouched
  <2>3. Enqueues(ch, p)
    BY DEF Shape
  <2>4. QED
    BY <2>1, <2>2, <2>3 DEF Enqueues, On
<1>7. QED
  BY <1>1, <1>2, <1>3, <1>4, <1>5, <1>6, QuietStep DEF EnqNext, queue

\* Counting the enqueued value, and posting LOG_PEND.
LEMMA EnqCountStep ==
    ASSUME NEW ch, Shape(ch), NEW p \in Producers, EnqCount(p) \/ PostLog(p)
    PROVE  Shape(ch)' /\ Live(ch)' = Live(ch)
<1> USE DEF Enqueuing, Aiming, Linking, Dequeuing, Knowing, Unfreeing
<1>1. Typed /\ Filled /\ p \in Threads /\ p \notin Consumers
  BY Disjoint DEF Shape, Threads
<1>2. Untouched
  <2> DEFINE l == pc'[p]
  <2>0. /\ pc' = [pc EXCEPT ![p] = l] /\ pc[p] \in {"e_count", "post"} /\ l \in {"idle", "post"}
    BY <1>1 DEF EnqCount, PostLog, Goto, Typed
  <2>1. Unlinked' = Unlinked /\ p \notin Unlinked
    <3>1. \A q \in Producers : q # p => pc'[q] = pc[q]
      BY <1>1, <2>0 DEF Typed, Threads
    <3>2. QED
      BY <2>0, <3>1 DEF Unlinked
  <2>2. Unfreed' = Unfreed /\ p \notin Unfreed
    <3>1. \A c \in Consumers : pc'[c] = pc[c]
      BY <1>1, <2>0 DEF Typed, Threads
    <3>2. QED
      BY <1>1, <3>1 DEF Unfreed
  <2>3. \A c \in Unfreed : c \in Consumers
    BY DEF Unfreed
  <2>4. QED
    BY <1>1, <2>1, <2>2, <2>3, Disjoint DEF EnqCount, PostLog, Untouched, queue, local, Typed,
       Unlinked, Threads
<1>3. OnlyOf(p)
  BY <1>1 DEF EnqCount, PostLog, OnlyOf, local, Goto, Typed
<1>4. Typed'
  <2>1. CASE EnqCount(p)
    BY <1>1, <2>1 DEF EnqCount, Typed, Goto, Locations, Tagged, NoTagged
  <2>2. CASE PostLog(p)
    BY <1>1, <2>2 DEF PostLog, Typed, queue, local, Goto, Locations
  <2>3. QED
    BY <2>1, <2>2
<1>5. Filled'
  <2>1. pc'[p] \in {"idle", "post"}
    BY <1>1 DEF EnqCount, PostLog, Goto, Typed
  <2>2. QED
    BY <1>1, <1>3, <2>1, Disjoint DEF Filled, OnlyOf, Threads
<1>6. Enqueues(ch, p)'
  BY <1>1 DEF EnqCount, PostLog, Goto, Typed, Enqueues
<1>7. QED
  BY <1>1, <1>2, <1>3, <1>4, <1>5, <1>6, QuietStep DEF EnqCount, PostLog, queue
-----------------------------------------------------------------------------
(* Dequeue: the steps that only read, and the count *)

\* Reading _head.
LEMMA DeqHeadStep ==
    ASSUME NEW ch, Shape(ch), NEW c \in Consumers, DeqHead(c)
    PROVE  Shape(ch)' /\ Live(ch)' = Live(ch)
<1> USE DEF Enqueuing, Aiming, Linking, Dequeuing, Knowing, Unfreeing
<1>1. Typed /\ Filled /\ c \in Threads /\ c \notin Producers
  BY Disjoint DEF Shape, Threads
<1>2. Untouched
  BY <1>1, Disjoint DEF DeqHead, Untouched, queue, Unlinked, Unfreed, Goto, Typed
<1>3. OnlyOf(c)
  BY <1>1 DEF DeqHead, OnlyOf, Goto, Typed
<1>4. Typed'
  BY <1>1 DEF DeqHead, Typed, queue, Goto, Locations, Tagged
<1>5. Filled'
  BY <1>1, Disjoint DEF DeqHead, Filled, Typed, queue, Goto, Threads
<1>6. Dequeues(c)'
  BY <1>1 DEF DeqHead, queue, Goto, Typed, Dequeues
<1>7. QED
  BY <1>1, <1>2, <1>3, <1>4, <1>5, <1>6, QuietStep DEF DeqHead, queue

\* Reading next of the node that was the head, or starting again.
LEMMA DeqNextStep ==
    ASSUME NEW ch, Shape(ch), NEW c \in Consumers, DeqNext(c)
    PROVE  Shape(ch)' /\ Live(ch)' = Live(ch)
<1> USE DEF Enqueuing, Aiming, Linking, Dequeuing, Knowing, Unfreeing
<1>1. Typed /\ Filled /\ c \in Threads /\ c \notin Producers /\ old[c].node \in Nodes
  BY Disjoint DEF Shape, Threads, DeqNext, Filled
<1>2. Untouched
  <2>0. /\ pc[c] = "d_next" /\ pc'[c] \in {"d_size", "d_tail"}
        /\ \A u \in Threads : u # c => pc'[u] = pc[u]
    BY <1>1 DEF DeqNext, Goto, Again, Typed
  <2>1. Unlinked' = Unlinked
    <3>1. \A q \in Producers : pc'[q] = pc[q]
      BY <1>1, <2>0 DEF Threads
    <3>2. QED
      BY <3>1 DEF Unlinked
  <2>2. Unfreed' = Unfreed
    <3>1. \A d \in Consumers : d # c => pc'[d] = pc[d]
      BY <2>0 DEF Threads
    <3>2. QED
      BY <2>0, <3>1 DEF Unfreed
  <2>3. QED
    BY <1>1, <2>1, <2>2, Disjoint DEF DeqNext, Untouched, Unfreed, queue, Typed
<1>3. OnlyOf(c)
  BY <1>1 DEF DeqNext, OnlyOf, Goto, Again, Typed
<1>4. Typed'
  BY <1>1 DEF DeqNext, Typed, queue, Goto, Again, Locations
<1>5. Filled'
  BY <1>1, Disjoint DEF DeqNext, Filled, Typed, queue, Goto, Again, Threads
<1>6. Dequeues(c)'
  <2>1. Dequeues(c)
    BY DEF Shape
  <2>2. QED
    BY <1>1, <2>1 DEF DeqNext, queue, Goto, Again, Typed, Dequeues
<1>7. QED
  BY <1>1, <1>2, <1>3, <1>4, <1>5, <1>6, QuietStep DEF DeqNext, queue

\* Reading the value: it is the one of the node behind the head, if that is still the head.
LEMMA DeqDataStep ==
    ASSUME NEW ch, Shape(ch), NEW c \in Consumers, DeqData(c)
    PROVE  Shape(ch)' /\ Live(ch)' = Live(ch)
<1> USE DEF Enqueuing, Aiming, Linking, Dequeuing, Knowing, Unfreeing
<1>1. Typed /\ Filled /\ c \in Threads /\ c \notin Producers /\ nx[c] \in Nodes
  BY Disjoint DEF Shape, Threads, DeqData, Filled
<1>2. Untouched
  BY <1>1, Disjoint DEF DeqData, Untouched, queue, Unlinked, Unfreed, Goto, Typed
<1>3. OnlyOf(c)
  BY <1>1, Disjoint DEF DeqData, OnlyOf, Goto, Typed
<1>4. Typed'
  BY <1>1 DEF DeqData, Typed, queue, Goto, Locations
<1>5. Filled'
  BY <1>1, Disjoint DEF DeqData, Filled, Typed, queue, Goto, Threads
<1>6. Dequeues(c)'
  <2>1. Dequeues(c)
    BY DEF Shape
  <2>2. QED
    BY <1>1, <2>1 DEF DeqData, queue, Goto, Typed, Dequeues
<1>7. QED
  BY <1>1, <1>2, <1>3, <1>4, <1>5, <1>6, QuietStep DEF DeqData, queue

\* The steps at which a consumer knows nothing of the list.
Outside(c) == \/ DeqSize(c) \/ WriteLog(c) \/ SendPost(c) \/ Front(c)
              \/ BufferFull(c) \/ WsaSend(c)

\* What the callers of Dequeue do, and the check of _size.
LEMMA OutsideStep ==
    ASSUME NEW ch, Shape(ch), NEW c \in Consumers, Outside(c)
    PROVE  Shape(ch)' /\ Live(ch)' = Live(ch)
<1> USE DEF Enqueuing, Aiming, Linking, Dequeuing, Knowing, Unfreeing
<1>1. Typed /\ Filled /\ c \in Threads /\ c \notin Producers
  BY Disjoint DEF Shape, Threads
<1>2. /\ UNCHANGED <<queue, local, made, taken>> /\ _tail' = _tail
      /\ posted' \in Nat /\ batch' \in Nat /\ caller' = caller
      /\ pc[c] \in {"idle", "d_size", "front", "wsasend"} \/ \A d \in Consumers : pc[d] = "idle"
      /\ \E l \in {"idle", "front", "wsasend", "d_size", "d_head"} : Goto(c, l)
  BY <1>1 DEF Outside, DeqSize, WriteLog, SendPost, Front, BufferFull, WsaSend, Again, queue,
              Typed
<1>3. PICK l \in {"idle", "front", "wsasend", "d_size", "d_head"} : Goto(c, l)
  BY <1>2
<1>4. Untouched
  <2>1. Unlinked' = Unlinked
    BY <1>1, <1>3, Disjoint DEF Unlinked, Goto, Typed
  <2>2. Unfreed' = Unfreed
    BY <1>1, <1>2, <1>3 DEF Unfreed, Goto, Typed
  <2>3. QED
    BY <1>2, <2>1, <2>2 DEF Untouched, queue, local
<1>5. OnlyOf(c)
  BY <1>1, <1>2, <1>3 DEF OnlyOf, local, Goto, Typed
<1>6. Typed'
  BY <1>1, <1>2, <1>3 DEF Typed, queue, local, Goto, Locations
<1>7. Filled'
  BY <1>1, <1>2, <1>3, Disjoint DEF Filled, Typed, local, Goto, Threads
<1>8. Dequeues(c)'
  BY <1>1, <1>3 DEF Goto, Typed, Dequeues
<1>9. QED
  BY <1>1, <1>2, <1>4, <1>5, <1>6, <1>7, <1>8, QuietStep

\* Counting the dequeued value: the old head is still to be freed.
LEMMA DeqCountStep ==
    ASSUME NEW ch, Shape(ch), NEW c \in Consumers, DeqCount(c)
    PROVE  Shape(ch)' /\ Live(ch)' = Live(ch)
<1> USE DEF Enqueuing, Aiming, Linking, Dequeuing, Knowing, Unfreeing
<1>1. Typed /\ Filled /\ c \in Threads /\ c \notin Producers
  BY Disjoint DEF Shape, Threads
<1>2. Untouched
  BY <1>1, Disjoint DEF DeqCount, Untouched, local, Unlinked, Unfreed, Goto, Typed
<1>3. OnlyOf(c)
  BY <1>1 DEF DeqCount, OnlyOf, local, Goto, Typed
<1>4. Typed'
  BY <1>1 DEF DeqCount, Typed, local, Goto, Locations
<1>5. Filled'
  BY <1>1, Disjoint DEF DeqCount, Filled, Typed, local, Goto, Threads
<1>6. Dequeues(c)'
  BY <1>1 DEF DeqCount, Goto, Typed, Dequeues
<1>7. QED
  BY <1>1, <1>2, <1>3, <1>4, <1>5, <1>6, QuietStep DEF DeqCount
-----------------------------------------------------------------------------
(* The steps that push the tail on *)

\* The tail moves to the next node of the list.
TailMoves == /\ next[_tail.node] \in Nodes
             /\ _tail' = [node |-> next[_tail.node], tag |-> _tail.tag + 1]

\* The tail stays on the list when it moves on, and its count grows.
LEMMA TailMovesOn ==
    ASSUME NEW ch, Typed, Filled, Chained(ch), TailOn(ch), _head' = _head,
           TailMoves \/ _tail' = _tail
    PROVE  TailOn(ch)' /\ _tail'.tag \in Nat /\ _tail.tag <= _tail'.tag
<1> DEFINE h == _head.node
           k == _tail.tag - _head.tag
<1>1. /\ _head.tag \in Nat /\ _tail.tag \in Nat
      /\ h \in Anchors /\ ch[h] \in Seq(Nodes) /\ Len(ch[h]) \in Nat \ {0}
      /\ k \in 0 .. Len(ch[h]) - 1 /\ _tail.node = ch[h][k + 1]
  BY TailOnList, ChainTypes DEF TailOn
<1>2. CASE TailMoves
  <2>0. k + 1 \in 1 .. Len(ch[h]) /\ (k + 1) + 1 = k + 2
    BY <1>1
  <2>1. next[ch[h][k + 1]] = IF k + 1 < Len(ch[h]) THEN ch[h][(k + 1) + 1] ELSE Null
    BY <1>1, <2>0, ChainLinks DEF Shape
  <2>2. k + 1 < Len(ch[h]) /\ next[_tail.node] = ch[h][k + 2]
    BY <1>1, <1>2, <2>0, <2>1 DEF TailMoves, Nodes, Null
  <2>3. _tail'.tag = _tail.tag + 1 /\ _tail'.node = ch[h][k + 2]
    BY <1>2, <2>2 DEF TailMoves
  <2>4. _tail'.tag - _head'.tag = k + 1 /\ k + 1 \in 0 .. Len(ch[h]) - 1 /\ _head'.node = h
    <3>1. _head'.tag = _head.tag /\ _head'.node = h
      OBVIOUS
    <3>2. (_tail.tag + 1) - _head.tag = k + 1
      BY <1>1
    <3>3. k + 1 \in 0 .. Len(ch[h]) - 1
      BY <1>1, <2>2
    <3>4. QED
      BY <2>3, <3>1, <3>2, <3>3
  <2>5. (_tail'.tag - _head'.tag) + 1 = k + 2
    BY <1>1, <2>4
  <2>6. TailOn(ch)'
    BY <2>3, <2>4, <2>5 DEF TailOn
  <2>7. _tail'.tag \in Nat /\ _tail.tag <= _tail'.tag
    BY <1>1, <2>3
  <2>8. QED
    BY <2>6, <2>7
<1>3. CASE _tail' = _tail
  BY <1>1, <1>3 DEF TailOn
<1>4. QED
  BY <1>2, <1>3

\* A step of thread t that pushes the tail on, or finds that another one has.
LEMMA TailStep ==
    ASSUME NEW ch, Shape(ch), Untouched, TailMoves \/ _tail' = _tail,
           NEW t \in Threads, OnlyOf(t), Typed', Filled',
           t \in Producers => Enqueues(ch, t)', t \in Consumers => Dequeues(t)'
    PROVE  Shape(ch)' /\ Live(ch)' = Live(ch)
<1>1. /\ Anchors' = Anchors /\ Chains(ch)' = Chains(ch) /\ Live(ch)' = Live(ch)
      /\ Chained(ch)' /\ Apart(ch)' /\ Stored(ch)'
  BY StillShaped
<1>2. TailOn(ch)' /\ _tail'.tag \in Nat /\ _tail.tag \in Nat /\ _head.tag \in Nat
  BY TailMovesOn, TailOnList DEF Shape, Untouched
<1>3. ASSUME NEW p \in Producers \ {t} PROVE Enqueues(ch, p)'
  <2>1. Enqueues(ch, p) /\ old[p].tag \in Nat
    BY DEF Shape, Typed, Threads, Tagged
  <2>2. pc'[p] = pc[p] /\ old'[p] = old[p] /\ nx'[p] = nx[p] /\ my'[p] = my[p]
    BY DEF OnlyOf, Threads
  <2>3. \A q \in Unlinked' : q \in Unlinked /\ my'[q] = my[q]
    BY DEF Untouched
  <2>4. next' = next /\ data' = data
    BY DEF Untouched
  <2>5. CASE _tail' = _tail
    BY <1>1, <2>1, <2>2, <2>3, <2>4, <2>5 DEF Enqueues, On
  <2>6. CASE TailMoves
    <3>1. _tail'.tag = _tail.tag + 1
      BY <2>6 DEF TailMoves
    <3>2. pc[p] \in Aiming => old[p].tag < _tail'.tag /\ old[p] # _tail'
      BY <1>2, <2>1, <3>1 DEF Enqueues
    <3>3. pc[p] \in Linking => \A q \in Unlinked' : old[p].node \in On(ch, my'[q])
                                => data'[my'[p]] < data'[my'[q]]
      BY <2>1, <2>2, <2>3, <2>4 DEF Enqueues
    <3>4. pc[p] \in Linking /\ next[old[p].node] = Null => old[p].node \in Chains(ch)
      BY <2>1 DEF Enqueues
    <3>5. QED
      BY <1>1, <1>2, <2>1, <2>2, <2>4, <3>2, <3>3, <3>4 DEF Enqueues, On, Aiming
  <2>7. QED
    BY <2>5, <2>6
<1>4. ASSUME NEW c \in Consumers \ {t} PROVE Dequeues(c)'
  <2>1. Dequeues(c)
    BY DEF Shape
  <2>2. pc'[c] = pc[c] /\ old'[c] = old[c] /\ nx'[c] = nx[c] /\ val'[c] = val[c]
    BY DEF OnlyOf, Threads
  <2>3. _tail.tag <= _tail'.tag
    BY TailMovesOn DEF Shape, Untouched
  <2>4. QED
    BY <1>2, <2>1, <2>2, <2>3 DEF Dequeues, Untouched
<1>5. QED
  BY <1>1, <1>2, <1>3, <1>4 DEF Shape

\* An enqueuer that saw the tail behind pushes it on.
LEMMA EnqHelpStep ==
    ASSUME NEW ch, Shape(ch), NEW p \in Producers, EnqHelp(p)
    PROVE  Shape(ch)' /\ Live(ch)' = Live(ch)
<1> USE DEF Enqueuing, Aiming, Linking, Dequeuing, Knowing, Unfreeing
<1>1. Typed /\ Filled /\ p \in Threads /\ p \notin Consumers /\ nx[p] \in Nodes
  BY Disjoint DEF Shape, Threads, EnqHelp, Filled
<1>2. Untouched
  BY <1>1, Disjoint DEF EnqHelp, Untouched, local, Unlinked, Unfreed, Goto, Typed
<1>3. OnlyOf(p)
  BY <1>1 DEF EnqHelp, OnlyOf, local, Goto, Typed
<1>4. Typed'
  BY <1>1 DEF EnqHelp, Typed, local, Goto, Locations, Moved
<1>5. Filled'
  BY <1>1, Disjoint DEF EnqHelp, Filled, Typed, local, Goto, Threads
<1>6. Enqueues(ch, p)'
  BY <1>1 DEF EnqHelp, local, Goto, Typed, Enqueues
<1>7. TailMoves \/ _tail' = _tail
  BY <1>1 DEF Shape, Enqueues, EnqHelp, TailMoves, Moved
<1>8. QED
  BY <1>1, <1>2, <1>3, <1>4, <1>5, <1>6, <1>7, TailStep

\* An enqueuer pushes the tail on to the node it linked.
LEMMA EnqSwingStep ==
    ASSUME NEW ch, Shape(ch), NEW p \in Producers, EnqSwing(p)
    PROVE  Shape(ch)' /\ Live(ch)' = Live(ch)
<1> USE DEF Enqueuing, Aiming, Linking, Dequeuing, Knowing, Unfreeing
<1>1. Typed /\ Filled /\ p \in Threads /\ p \notin Consumers /\ my[p] \in Nodes
  BY Disjoint DEF Shape, Threads, EnqSwing, Filled
<1>2. Untouched
  BY <1>1, Disjoint DEF EnqSwing, Untouched, local, Unlinked, Unfreed, Goto, Typed
<1>3. OnlyOf(p)
  BY <1>1 DEF EnqSwing, OnlyOf, local, Goto, Typed
<1>4. Typed'
  BY <1>1 DEF EnqSwing, Typed, local, Goto, Locations, Moved
<1>5. Filled'
  BY <1>1, Disjoint DEF EnqSwing, Filled, Typed, local, Goto, Threads
<1>6. Enqueues(ch, p)'
  BY <1>1 DEF EnqSwing, local, Goto, Typed, Enqueues
<1>7. TailMoves \/ _tail' = _tail
  BY <1>1 DEF Shape, Enqueues, EnqSwing, TailMoves, Moved
<1>8. QED
  BY <1>1, <1>2, <1>3, <1>4, <1>5, <1>6, <1>7, TailStep

\* A dequeuer pushes the tail on when it is where the head is.
LEMMA DeqTailStep ==
    ASSUME NEW ch, Shape(ch), NEW c \in Consumers, DeqTail(c)
    PROVE  Shape(ch)' /\ Live(ch)' = Live(ch)
<1> USE DEF Enqueuing, Aiming, Linking, Dequeuing, Knowing, Unfreeing
<1>1. Typed /\ Filled /\ c \in Threads /\ c \notin Producers /\ nx[c] \in Nodes
  BY Disjoint DEF Shape, Threads, DeqTail, Filled
<1>2. Untouched
  BY <1>1, Disjoint DEF DeqTail, Untouched, local, Unlinked, Unfreed, Goto, Typed
<1>3. OnlyOf(c)
  BY <1>1 DEF DeqTail, OnlyOf, local, Goto, Typed
<1>4. Typed'
  BY <1>1 DEF DeqTail, Typed, local, Goto, Locations, Moved
<1>5. Filled'
  BY <1>1, Disjoint DEF DeqTail, Filled, Typed, local, Goto, Threads
<1>6. /\ Dequeues(c) /\ pc[c] = "d_tail" /\ old[c].tag <= _head.tag
      /\ old[c].tag = _head.tag => old[c] = _head
      /\ _head.tag \in Nat /\ _tail.tag \in Nat /\ _head.tag <= _tail.tag /\ old[c].tag \in Nat
      /\ _tail.node = ch[_head.node][_tail.tag - _head.tag + 1] /\ ch[_head.node][1] = _head.node
  BY <1>1, TailOnList DEF Shape, Dequeues, DeqTail, TailOn, Chained, Typed, Tagged, Anchors
\* Equal counts mean the same node.
<1>7. _head.tag = _tail.tag => _tail = _head
  BY <1>1, <1>6 DEF Typed
<1>8. _tail = old[c] => old[c] = _head /\ next[_tail.node] = nx[c]
  BY <1>6 DEF Dequeues
<1>9. TailMoves \/ _tail' = _tail
  BY <1>1, <1>8 DEF DeqTail, TailMoves, Moved
<1>10. Dequeues(c)'
  <2>1. /\ pc'[c] = "d_data" /\ old' = old /\ nx' = nx /\ _head' = _head /\ next' = next
    BY <1>1 DEF DeqTail, local, Goto, Typed
  <2>2. old[c] = _head => _head.tag < _tail'.tag
    <3>1. CASE _tail = old[c]
      BY <1>6, <3>1 DEF DeqTail, Moved
    <3>2. CASE _tail # old[c]
      BY <1>6, <1>7, <3>2 DEF DeqTail
    <3>3. QED
      BY <3>1, <3>2
  <2>3. QED
    BY <1>6, <2>1, <2>2 DEF Dequeues
<1>11. QED
  BY <1>1, <1>2, <1>3, <1>4, <1>5, <1>9, <1>10, TailStep
-----------------------------------------------------------------------------
(* EnqAlloc: a chain of one node *)

\* What stays of the facts about the other threads when nodes outside the chains
\* change, and a node is added to them.
LEMMA EnqAllocStep ==
    ASSUME NEW ch, Shape(ch), NEW p \in Producers, EnqAlloc(p)
    PROVE  \E ch2 \in [Nodes -> Seq(Nodes)] :
               /\ Shape(ch2)'
               /\ \E n \in Nodes \ Live(ch) : Live(ch2)' = Live(ch) \cup {n}
               /\ my'[p] \in Nodes \ Chains(ch)
               /\ ch2 = [ch EXCEPT ![my'[p]] = <<my'[p]>>]
<1> USE DEF Enqueuing, Aiming, Linking, Dequeuing, Knowing, Unfreeing
<1>1. /\ Typed /\ Filled /\ Chained(ch) /\ Apart(ch) /\ TailOn(ch) /\ Stored(ch)
      /\ p \in Threads /\ p \notin Consumers
  BY Disjoint DEF Shape, Threads
<1>2. PICK n \in Nodes :
        /\ Alloc(n)
        /\ data' = [data EXCEPT ![n] = made + 1]
        /\ next' = [next EXCEPT ![n] = Null]
        /\ my' = [my EXCEPT ![p] = n]
  BY DEF EnqAlloc
<1>3. /\ pc[p] = "idle" /\ made < MaxEnqueues /\ made' = made + 1
      /\ pc' = [pc EXCEPT ![p] = "e_tail"]
      /\ UNCHANGED <<caller, _head, _tail, _size, posted, old, nx, val, taken, batch>>
  BY DEF EnqAlloc, Goto
<1>4. /\ Len(pool) \in Nat \ {0} /\ n = pool[1] /\ pool' = Tail(pool)
      /\ Len(pool') = Len(pool) - 1 /\ \A i \in 1 .. Len(pool') : pool'[i] = pool[i + 1]
      /\ pool' \in Seq(Nodes)
  BY <1>1, <1>2 DEF Alloc, Typed
<1>5. n \in InPool /\ n \notin Chains(ch) /\ n \notin InPool' /\ InPool' \subseteq InPool
  BY <1>1, <1>4 DEF Apart, InPool
<1> DEFINE chn == [ch EXCEPT ![n] = <<n>>]
<1>6. PICK ch2 : ch2 = chn
  OBVIOUS
<1>7. \A q \in Unlinked : /\ my[q] \in Anchors /\ my[q] \in Live(ch)
                        /\ data[my[q]] \in 1 .. made
  BY <1>1, OwnValues DEF Made
<1> HIDE DEF chn
<1>8. /\ ch2 \in [Nodes -> Seq(Nodes)] /\ ch2[n] = <<n>> /\ \A a \in Nodes \ {n} : ch2[a] = ch[a]
      /\ Len(ch2[n]) = 1 /\ ch2[n][1] = n
  BY <1>1, <1>6 DEF Chained, chn
<1>9. made \in Nat /\ made + 1 \in Values /\ made' \in 0 .. MaxEnqueues
  BY <1>1, <1>3, BoundsAssumption DEF Typed, Values
<1>10. p \notin Unlinked /\ Unlinked' = Unlinked \cup {p} /\ my'[p] = n
       /\ \A q \in Unlinked : q # p /\ my'[q] = my[q]
  BY <1>1, <1>2, <1>3 DEF Unlinked, Typed, Threads
<1>11. Unfreed' = Unfreed /\ \A c \in Consumers : pc'[c] = pc[c]
  BY <1>1, <1>3, Disjoint DEF Unfreed, Typed, Threads
<1>12. n \notin Anchors /\ Anchors' = Anchors \cup {n} /\ Anchors \subseteq Nodes
  <2>1. Anchors \subseteq Nodes /\ n \notin Anchors
    BY <1>1, <1>5, ChainTypes
  <2>2. Anchors' = Anchors \cup {n}
    BY <1>3, <1>10 DEF Anchors
  <2>3. QED
    BY <2>1, <2>2
<1>13. /\ \A a \in Anchors : a # n /\ ch2[a] = ch[a] /\ On(ch2, a) = On(ch, a)
       /\ On(ch2, n) = {n}
  <2>1. \A a \in Anchors : a # n /\ ch2[a] = ch[a]
    BY <1>8, <1>12
  <2>2. \A a \in Anchors : On(ch2, a) = On(ch, a)
    BY <2>1 DEF On
  <2>3. 1 .. Len(ch2[n]) = {1}
    BY <1>8
  <2>4. On(ch2, n) = {n}
    BY <1>8, <2>3 DEF On
  <2>5. QED
    BY <2>1, <2>2, <2>4
<1>14. Chains(ch2)' = Chains(ch) \cup {n}
  <2>1. Chains(ch2)' = UNION {On(ch2, a) : a \in Anchors \cup {n}}
    BY <1>12 DEF Chains, On
  <2>2. QED
    BY <1>13, <2>1 DEF Chains
<1>15. _head' = _head /\ _head.node \in Chains(ch) /\ _head.node # n /\ _head.node \in Anchors
  BY <1>1, <1>3, <1>5, ChainTypes DEF Anchors
<1>16. Live(ch2)' = Live(ch) \cup {n} /\ n \notin Live(ch)
  BY <1>5, <1>14, <1>15 DEF Live
<1>17. \A a \in Anchors : \A i \in 1 .. Len(ch[a]) :
          ch[a][i] \in Chains(ch) /\ ch[a][i] # n /\ ch[a][i] \in Nodes
  BY <1>1, <1>5, ChainTypes DEF Chains, On
<1>18. \A m \in Nodes \ {n} : next'[m] = next[m] /\ data'[m] = data[m]
  BY <1>1, <1>2 DEF Typed
<1>19. next'[n] = Null /\ data'[n] = made + 1
  BY <1>1, <1>2 DEF Typed
<1>20. Typed'
  BY <1>1, <1>2, <1>3, <1>4, <1>9 DEF Typed, Locations
<1>21. Filled'
  BY <1>1, <1>2, <1>3, Disjoint DEF Filled, Typed, Threads
<1>22. Chained(ch2)'
  <2>1. \A q, r \in Unlinked' : my'[q] = my'[r] => q = r
    BY <1>1, <1>10, <1>12 DEF Chained, Anchors
  <2>2. \A q \in Unlinked' : my'[q] # _head'.node
    BY <1>1, <1>10, <1>15 DEF Chained
  <2>3. \A a \in Anchors' : Len(ch2[a]) > 0 /\ ch2[a][1] = a
    BY <1>1, <1>8, <1>12, <1>13 DEF Chained
  <2>4. \A a \in Anchors' : \A i \in 1 .. Len(ch2[a]) :
          next'[ch2[a][i]] = IF i < Len(ch2[a]) THEN ch2[a][i + 1] ELSE Null
    <3>1. ASSUME NEW a \in Anchors, NEW i \in 1 .. Len(ch[a])
          PROVE  next'[ch[a][i]] = IF i < Len(ch[a]) THEN ch[a][i + 1] ELSE Null
      BY <1>1, <1>17, <1>18, ChainLinks
    <3>2. ASSUME NEW i \in 1 .. Len(ch2[n])
          PROVE  next'[ch2[n][i]] = IF i < Len(ch2[n]) THEN ch2[n][i + 1] ELSE Null
      BY <1>8, <1>19
    <3>3. QED
      BY <1>12, <1>13, <3>1, <3>2
  <2>5. \A a, b \in Anchors' : \A i \in 1 .. Len(ch2[a]), j \in 1 .. Len(ch2[b]) :
          ch2[a][i] = ch2[b][j] => a = b /\ i = j
    <3>1. ASSUME NEW a \in Anchors', NEW b \in Anchors',
                 NEW i \in 1 .. Len(ch2[a]), NEW j \in 1 .. Len(ch2[b]), ch2[a][i] = ch2[b][j]
          PROVE  a = b /\ i = j
      <4>1. CASE a = n \/ b = n
        <5>1. CASE a = n /\ b = n
          <6>1. Len(ch2[a]) = 1 /\ Len(ch2[b]) = 1
            BY <1>8, <5>1
          <6>2. i = 1 /\ j = 1
            BY <3>1, <6>1
          <6>3. QED
            BY <5>1, <6>2
        <5>2. CASE a = n /\ b # n
          <6>1. ch2[a][i] = n
            BY <1>8, <5>2
          <6>2. b \in Anchors /\ ch2[b] = ch[b]
            BY <1>12, <1>13, <5>2
          <6>3. ch2[b][j] # n
            BY <1>17, <6>2
          <6>4. QED
            BY <3>1, <6>1, <6>3
        <5>3. CASE a # n /\ b = n
          <6>1. ch2[b][j] = n
            BY <1>8, <5>3
          <6>2. a \in Anchors /\ ch2[a] = ch[a]
            BY <1>12, <1>13, <5>3
          <6>3. ch2[a][i] # n
            BY <1>17, <6>2
          <6>4. QED
            BY <3>1, <6>1, <6>3
        <5>4. QED
          BY <4>1, <5>1, <5>2, <5>3
      <4>2. CASE a # n /\ b # n
        BY <1>1, <1>12, <1>13, <3>1, <4>2, ChainPlace
      <4>3. QED
        BY <4>1, <4>2
    <3>2. QED
      BY <3>1
  <2>6. QED
    BY <1>8, <2>1, <2>2, <2>3, <2>4, <2>5 DEF Chained
<1>23. Apart(ch2)'
  <2>1. \A i, j \in 1 .. Len(pool') : pool'[i] = pool'[j] => i = j
    BY <1>1, <1>4 DEF Apart
  <2>2. \A c, d \in Unfreed' : old'[c].node = old'[d].node => c = d
    BY <1>1, <1>3, <1>11 DEF Apart
  <2>3. \A c \in Unfreed' : old'[c].node \notin InPool' /\ old'[c].node \notin Chains(ch2)'
    BY <1>1, <1>3, <1>5, <1>11, <1>14 DEF Apart
  <2>4. \A m \in Chains(ch2)' : m \notin InPool'
    BY <1>1, <1>5, <1>14 DEF Apart
  <2>5. QED
    BY <2>1, <2>2, <2>3, <2>4 DEF Apart
<1>24. TailOn(ch2)'
  BY <1>1, <1>3, <1>13, <1>15 DEF TailOn
<1>25. ASSUME NEW q \in Unlinked
       PROVE  data'[my[q]] = data[my[q]] /\ data'[my[q]] < data'[n]
  <2>1. my[q] \in Nodes \ {n} /\ data[my[q]] \in 1 .. made
    BY <1>7, <1>12
  <2>2. data'[my[q]] = data[my[q]]
    BY <1>18, <2>1
  <2>3. QED
    BY <1>9, <1>19, <2>1, <2>2
<1>26. _tail.node # n /\ _tail.node \in Nodes /\ next'[_tail.node] = next[_tail.node]
  BY <1>1, <1>5, <1>18, TailOnList
<1>27. ASSUME NEW q \in Producers PROVE Enqueues(ch2, q)'
  <2>1. CASE q = p
    BY <1>1, <1>3, <2>1 DEF Enqueues, Typed
  <2>2. CASE q # p
    <3>1. Enqueues(ch, q) /\ pc'[q] = pc[q] /\ my'[q] = my[q]
      BY <1>1, <1>2, <1>3, <2>2 DEF Shape, Typed, Threads
    <3>2. pc[q] \in Linking /\ next'[old[q].node] = Null => old[q].node \in Chains(ch2)'
      <4>1. pc[q] \in Linking => old[q].node \in Nodes
        BY <1>1 DEF Filled
      <4>2. QED
        BY <1>14, <1>18, <3>1, <4>1 DEF Enqueues
    <3>3. ASSUME pc[q] \in Linking, NEW r \in Unlinked', old[q].node \in On(ch2, my'[r])
          PROVE  data'[my'[q]] < data'[my'[r]]
      <4>0. q \in Unlinked
        BY <3>3 DEF Unlinked
      <4>1. CASE r = p
        BY <1>10, <1>25, <3>1, <4>0, <4>1
      <4>2. CASE r # p
        <5>1. r \in Unlinked /\ my'[r] = my[r] /\ my[r] \in Anchors
          BY <1>10, <4>2 DEF Anchors
        <5>2. data[my[q]] < data[my[r]]
          BY <1>13, <3>1, <3>3, <5>1 DEF Enqueues
        <5>3. QED
          BY <1>25, <3>1, <4>0, <5>1, <5>2
      <4>3. QED
        BY <4>1, <4>2
    <3>4. QED
      BY <1>3, <1>26, <3>1, <3>2, <3>3 DEF Enqueues, On
  <2>3. QED
    BY <2>1, <2>2
<1>28. ASSUME NEW c \in Consumers PROVE Dequeues(c)'
  <2>1. Dequeues(c) /\ pc'[c] = pc[c]
    BY <1>11 DEF Shape
  <2>2. next'[_head.node] = next[_head.node]
    BY <1>1, <1>15, <1>18 DEF Typed
  <2>3. ASSUME pc[c] = "d_cas", old[c] = _head PROVE data'[nx[c]] = data[nx[c]]
    <3>1. next[_head.node] = nx[c] /\ nx[c] \in Nodes
      BY <1>1, <2>1, <2>3 DEF Dequeues, Filled
    <3>2. ch[_head.node][1] = _head.node /\ 1 \in 1 .. Len(ch[_head.node])
      BY <1>1, <1>15, ChainTypes DEF Chained
    <3>3. 1 < Len(ch[_head.node]) /\ nx[c] = ch[_head.node][1 + 1]
      BY <1>1, <1>15, <3>1, <3>2, ChainLinks DEF Nodes, Null
    <3>4. nx[c] # n
      BY <1>1, <1>15, <1>17, <3>3, ChainTypes
    <3>5. QED
      BY <1>18, <3>1, <3>4
  <2>4. QED
    BY <1>3, <2>1, <2>2, <2>3 DEF Dequeues
<1>29. Stored(ch2)'
  <2> DEFINE v == made + 1
  <2>1. Made' = Made \cup {v} /\ v \notin Made
    BY <1>3, <1>9 DEF Made
  <2>2. taken' = taken /\ taken \subseteq Made
    BY <1>1, <1>3 DEF Stored
  <2>3. \A m \in Live(ch) : m \in Nodes \ {n} /\ data'[m] = data[m] /\ data[m] \in Made \ taken
    BY <1>1, <1>16, <1>17, <1>18 DEF Live, Chains, On, Stored
  <2>5. \A m \in Live(ch2)' : data'[m] \in Made' \ taken'
    BY <1>16, <1>19, <2>1, <2>2, <2>3
  <2>6. \A m, k \in Live(ch2)' : data'[m] = data'[k] => m = k
    BY <1>1, <1>16, <1>19, <2>1, <2>3 DEF Stored
  <2>7. \A w \in Made' \ taken' : \E m \in Live(ch2)' : data'[m] = w
    BY <1>1, <1>16, <1>19, <2>1, <2>2, <2>3 DEF Stored
  <2>8. QED
    BY <2>1, <2>2, <2>5, <2>6, <2>7 DEF Stored
<1>30. Shape(ch2)'
  BY <1>20, <1>21, <1>22, <1>23, <1>24, <1>27, <1>28, <1>29 DEF Shape
<1>31. QED
  BY <1>5, <1>6, <1>8, <1>10, <1>16, <1>30 DEF chn
-----------------------------------------------------------------------------
(* EnqLink: the chain of the new node behind the last node of another *)

\* The compare-exchange of next fails, and Enqueue starts again.
LEMMA EnqRetryStep ==
    ASSUME NEW ch, Shape(ch), NEW p \in Producers, EnqLink(p),
           next[old[p].node] # Null
    PROVE  Shape(ch)' /\ Live(ch)' = Live(ch)
<1> USE DEF Enqueuing, Aiming, Linking, Dequeuing, Knowing, Unfreeing
<1>1. Typed /\ Filled /\ p \in Threads /\ p \notin Consumers
  BY Disjoint DEF Shape, Threads
<1>2. Untouched
  <2>0. /\ pc[p] = "e_link" /\ pc'[p] = "e_tail" /\ \A u \in Threads : u # p => pc'[u] = pc[u]
        /\ UNCHANGED <<next, data, _head, pool, made, taken, my, old>>
    BY <1>1 DEF EnqLink, Goto, Typed, local
  <2>1. Unlinked' = Unlinked
    <3>1. \A q \in Producers : q # p => pc'[q] = pc[q]
      BY <2>0 DEF Threads
    <3>2. QED
      BY <2>0, <3>1 DEF Unlinked
  <2>2. Unfreed' = Unfreed
    <3>1. \A c \in Consumers : pc'[c] = pc[c]
      BY <1>1, <2>0 DEF Threads
    <3>2. QED
      BY <3>1 DEF Unfreed
  <2>3. QED
    BY <2>0, <2>1, <2>2 DEF Untouched
<1>3. OnlyOf(p)
  BY <1>1 DEF EnqLink, OnlyOf, local, Goto, Typed
<1>4. Typed'
  BY <1>1 DEF EnqLink, Typed, local, Goto, Locations
<1>5. Filled'
  BY <1>1, Disjoint DEF EnqLink, Filled, Typed, local, Goto, Threads
<1>6. Enqueues(ch, p)'
  BY <1>1 DEF EnqLink, local, Goto, Typed, Enqueues
<1>7. QED
  BY <1>1, <1>2, <1>3, <1>4, <1>5, <1>6, QuietStep DEF EnqLink

\* The compare-exchange of next succeeds: one chain is put behind another, or the list,
\* and by the order of the values never behind itself.
LEMMA EnqLinkStep ==
    ASSUME NEW ch, Shape(ch), NEW p \in Producers, EnqLink(p),
           next[old[p].node] = Null
    PROVE  \E ch2 \in [Nodes -> Seq(Nodes)] :
               /\ Shape(ch2)' /\ Live(ch2)' = Live(ch)
               /\ \E a \in Anchors \ {my[p]} : /\ old[p].node \in On(ch, a)
                                             /\ ch2 = [ch EXCEPT ![a] = ch[a] \o ch[my[p]]]
<1> USE DEF Enqueuing, Aiming, Linking, Dequeuing, Knowing, Unfreeing
<1>1. /\ Typed /\ Filled /\ Chained(ch) /\ Apart(ch) /\ TailOn(ch) /\ Stored(ch)
      /\ p \in Threads /\ p \notin Consumers /\ pc[p] = "e_link"
  BY Disjoint DEF Shape, Threads, EnqLink
<1> DEFINE y == old[p].node
           m == my[p]
<1>2. y \in Nodes /\ m \in Nodes /\ p \in Unlinked /\ m \in Anchors /\ m # _head.node
  BY <1>1 DEF Filled, Unlinked, Anchors, Chained
<1>3. /\ next' = [next EXCEPT ![y] = m] /\ pc' = [pc EXCEPT ![p] = "e_swing"]
      /\ UNCHANGED <<caller, data, _head, _tail, _size, pool, posted, local, made, taken, batch>>
  BY DEF EnqLink, Goto
<1>4. Enqueues(ch, p)
  BY DEF Shape
<1>5. PICK a \in Anchors : y \in On(ch, a)
  BY <1>1, <1>4 DEF Enqueues, Chains
\* The chain is not the own one: p took its node before the owner of that chain did.
<1>own. \A q \in Unlinked : data[my[q]] \in Nat
  BY <1>1, OwnValues
<1>6. a # m
  <2>1. ~(data[m] < data[m])
    BY <1>2, <1>own
  <2>2. QED
    BY <1>1, <1>2, <1>4, <1>5, <2>1 DEF Enqueues
<1>7. /\ a \in Nodes /\ ch[a] \in Seq(Nodes) /\ Len(ch[a]) \in Nat \ {0}
      /\ ch[m] \in Seq(Nodes) /\ Len(ch[m]) \in Nat \ {0} /\ ch[m][1] = m /\ ch[a][1] = a
  BY <1>1, <1>2, <1>5, ChainTypes DEF Chained
<1>8. y = ch[a][Len(ch[a])]
  <2>1. PICK i \in 1 .. Len(ch[a]) : y = ch[a][i]
    BY <1>5 DEF On
  <2>2. next[y] = IF i < Len(ch[a]) THEN ch[a][i + 1] ELSE Null
    BY <1>1, <2>1, ChainLinks
  <2>3. i < Len(ch[a]) => ch[a][i + 1] \in Nodes
    BY <1>1, <1>7, <2>1, ChainTypes
  <2>4. i = Len(ch[a])
    BY <1>7, <2>1, <2>2, <2>3 DEF Nodes, Null
  <2>5. QED
    BY <2>1, <2>4
<1> DEFINE chm == [ch EXCEPT ![a] = ch[a] \o ch[m]]
<1>9. PICK ch2 : ch2 = chm
  OBVIOUS
<1>la. PICK la \in Nat \ {0} : la = Len(ch[a])
  BY <1>7
<1>lm. PICK lm \in Nat \ {0} : lm = Len(ch[m])
  BY <1>7
<1>10. /\ ch2 \in [Nodes -> Seq(Nodes)] /\ ch2[a] = ch[a] \o ch[m]
       /\ \A b \in Anchors \ {a} : ch2[b] = ch[b]
  <2>1. ch \in [Nodes -> Seq(Nodes)] /\ Anchors \subseteq Nodes
    BY <1>1, ChainTypes DEF Chained
  <2>2. ch[a] \o ch[m] \in Seq(Nodes)
    BY <1>7
  <2>3. QED
    BY <1>7, <1>9, <2>1, <2>2
<1> HIDE DEF chm
<1>con. /\ Len(ch[a] \o ch[m]) = la + lm
        /\ \A i \in 1 .. la : (ch[a] \o ch[m])[i] = ch[a][i]
        /\ \A i \in 1 .. lm : (ch[a] \o ch[m])[la + i] = ch[m][i]
  <2>1. PICK s \in Seq(Nodes), t \in Seq(Nodes) : s = ch[a] /\ t = ch[m]
    BY <1>7
  <2>2. la \in Nat /\ lm \in Nat /\ Len(s) = la /\ Len(t) = lm
    BY <1>la, <1>lm, <2>1
  <2>3. /\ Len(s \o t) = la + lm
        /\ \A i \in 1 .. la : (s \o t)[i] = s[i]
        /\ \A i \in 1 .. lm : (s \o t)[la + i] = t[i]
    BY <2>2
  <2>4. QED
    BY <2>1, <2>3
<1>11. /\ la \in Nat \ {0} /\ lm \in Nat \ {0} /\ Len(ch2[a]) = la + lm
  BY <1>10, <1>con
<1>front. \A i \in 1 .. la : ch2[a][i] = ch[a][i]
  BY <1>10, <1>con
<1>back. \A i \in 1 .. lm : ch2[a][la + i] = ch[m][i]
  BY <1>10, <1>con
<1>12. On(ch2, a) = On(ch, a) \cup On(ch, m)
  <2>1. ASSUME NEW x \in On(ch2, a) PROVE x \in On(ch, a) \cup On(ch, m)
    <3>1. PICK i \in 1 .. la + lm : x = ch2[a][i]
      BY <1>11, <2>1 DEF On
    <3>2. CASE i \in 1 .. la
      BY <1>la, <1>front, <3>1, <3>2 DEF On
    <3>3. CASE i \notin 1 .. la
      <4>1. i - la \in 1 .. lm /\ la + (i - la) = i
        BY <1>11, <3>1, <3>3
      <4>2. x = ch[m][i - la]
        BY <1>back, <3>1, <4>1
      <4>3. QED
        BY <1>lm, <4>1, <4>2 DEF On
    <3>4. QED
      BY <3>2, <3>3
  <2>2. ASSUME NEW x \in On(ch, a) PROVE x \in On(ch2, a)
    <3>1. PICK i \in 1 .. la : x = ch[a][i]
      BY <1>la, <2>2 DEF On
    <3>2. i \in 1 .. Len(ch2[a])
      BY <1>11, <3>1
    <3>3. x = ch2[a][i]
      BY <1>front, <3>1
    <3>4. QED
      BY <3>2, <3>3 DEF On
  <2>3. ASSUME NEW x \in On(ch, m) PROVE x \in On(ch2, a)
    <3>1. PICK i \in 1 .. lm : x = ch[m][i]
      BY <1>lm, <2>3 DEF On
    <3>2. la + i \in 1 .. Len(ch2[a])
      BY <1>11, <3>1
    <3>3. x = ch2[a][la + i]
      BY <1>back, <3>1
    <3>4. QED
      BY <3>2, <3>3 DEF On
  <2>4. QED
    BY <2>1, <2>2, <2>3
<1>13. \A b \in Anchors \ {a} : On(ch2, b) = On(ch, b)
  BY <1>10 DEF On
<1>14. /\ Unlinked' = Unlinked \ {p} /\ my' = my /\ old' = old /\ nx' = nx /\ val' = val
       /\ \A q \in Unlinked \ {p} : my[q] # m
  BY <1>1, <1>2, <1>3 DEF Unlinked, Typed, Threads, local, Chained
<1>15. Unfreed' = Unfreed /\ \A c \in Consumers : pc'[c] = pc[c]
  BY <1>1, <1>3, Disjoint DEF Unfreed, Typed, Threads
<1>16. Anchors' = Anchors \ {m} /\ a \in Anchors'
  BY <1>2, <1>3, <1>5, <1>6, <1>14 DEF Anchors
<1>17. Chains(ch2)' = Chains(ch)
  <2>1. Chains(ch2)' = UNION {On(ch2, b) : b \in Anchors \ {m}}
    BY <1>16 DEF Chains, On
  <2>2. QED
    BY <1>2, <1>5, <1>6, <1>12, <1>13, <2>1 DEF Chains
<1>18. Live(ch2)' = Live(ch)
  BY <1>3, <1>17 DEF Live
<1>19. \A n \in Nodes : next[n] # Null => next'[n] = next[n]
  BY <1>1, <1>2, <1>3 DEF Typed
<1>20. next'[y] = m /\ \A n \in Nodes \ {y} : next'[n] = next[n]
  BY <1>1, <1>2, <1>3 DEF Typed
<1>21. Typed'
  BY <1>1, <1>2, <1>3 DEF Typed, Locations, local
<1>22. Filled'
  BY <1>1, <1>3, <1>14, Disjoint DEF Filled, Typed, Threads
<1>23. Chained(ch2)'
  <2>1. \A q, r \in Unlinked' : my'[q] = my'[r] => q = r
    BY <1>1, <1>14 DEF Chained
  <2>2. \A q \in Unlinked' : my'[q] # _head'.node
    BY <1>1, <1>3, <1>14 DEF Chained
  <2>3. \A b \in Anchors' : Len(ch2[b]) > 0 /\ ch2[b][1] = b
    <3>1. Len(ch2[a]) > 0 /\ ch2[a][1] = a
      BY <1>7, <1>11, <1>front, 1 \in 1 .. la, Len(ch2[a]) > 0
    <3>2. \A b \in Anchors \ {a} : Len(ch2[b]) > 0 /\ ch2[b][1] = b
      BY <1>1, <1>10 DEF Chained
    <3>3. QED
      BY <1>16, <3>1, <3>2
  <2>4. ASSUME NEW b \in Anchors', NEW i \in 1 .. Len(ch2[b])
        PROVE  next'[ch2[b][i]] = IF i < Len(ch2[b]) THEN ch2[b][i + 1] ELSE Null
    <3>1. CASE b # a
      <4>1. b \in Anchors /\ ch2[b] = ch[b] /\ i \in 1 .. Len(ch[b])
        BY <1>10, <1>16, <2>4, <3>1
      <4>2. ch[b][i] \in Nodes /\ ch[b][i] # y
        <5>1. ch[b][i] \in On(ch, b)
          BY <4>1 DEF On
        <5>2. QED
          BY <1>1, <1>5, <3>1, <4>1, <5>1, ChainTypes, ChainsApart
      <4>3. QED
        BY <1>1, <1>20, <4>1, <4>2, ChainLinks
    <3>2. CASE b = a /\ i \in 1 .. la /\ i # la
      <4>1. ch[a][i] \in Nodes /\ ch[a][i] # y
        <5>1. la \in 1 .. Len(ch[a])
          BY <1>la, <1>11
        <5>2. QED
          BY <1>1, <1>5, <1>8, <1>la, <3>2, <5>1, ChainTypes, ChainPlace
      <4>2. next[ch[a][i]] = ch[a][i + 1]
        BY <1>1, <1>5, <1>la, <3>2, ChainLinks
      <4>3. i < Len(ch2[a]) /\ i + 1 \in 1 .. la
        BY <1>11, <3>2
      <4>4. ch2[a][i] = ch[a][i] /\ ch2[a][i + 1] = ch[a][i + 1]
        BY <1>front, <3>2, <4>3
      <4>5. QED
        BY <1>20, <3>2, <4>1, <4>2, <4>3, <4>4
    <3>3. CASE b = a /\ i = la
      <4>0. i \in 1 .. la /\ i < Len(ch2[a]) /\ 1 \in 1 .. lm
        BY <1>11, <3>3
      <4>1. ch2[a][i] = y /\ i < Len(ch2[a]) /\ ch2[a][i + 1] = m
        BY <1>7, <1>8, <1>la, <1>front, <1>back, <3>3, <4>0
      <4>2. QED
        BY <1>20, <3>3, <4>1
    <3>4. CASE b = a /\ i \notin 1 .. la
      <4> DEFINE j == i - la
      <4>0. j \in 1 .. lm /\ i = la + j /\ i + 1 = la + (j + 1)
        BY <1>11, <2>4, <3>4
      <4>1. j \in 1 .. lm /\ ch2[a][i] = ch[m][j] /\ i = la + j /\ i + 1 = la + (j + 1)
        BY <1>back, <4>0
      <4>2. i < Len(ch2[a]) <=> j < lm
        BY <1>11, <4>1
      <4>3. j < lm => ch2[a][i + 1] = ch[m][j + 1]
        <5>1. j < lm => j + 1 \in 1 .. lm
          BY <4>0
        <5>2. QED
          BY <1>back, <4>0, <5>1
      <4>4. ch[m][j] \in Nodes /\ ch[m][j] # y
        <5>1. ch[m][j] \in On(ch, m)
          BY <1>lm, <4>1 DEF On
        <5>2. QED
          BY <1>1, <1>2, <1>5, <1>6, <4>1, <5>1, ChainTypes, ChainsApart
      <4>5. next[ch[m][j]] = IF j < lm THEN ch[m][j + 1] ELSE Null
        BY <1>1, <1>2, <1>lm, <4>1, ChainLinks
      <4>6. QED
        BY <1>20, <3>4, <4>1, <4>2, <4>3, <4>4, <4>5
    <3>5. QED
      BY <3>1, <3>2, <3>3, <3>4
  <2>5. ASSUME NEW b \in Anchors', NEW c \in Anchors',
               NEW i \in 1 .. Len(ch2[b]), NEW j \in 1 .. Len(ch2[c]), ch2[b][i] = ch2[c][j]
        PROVE  b = c /\ i = j
    \* A place on a new chain is one on an old chain.
    <3> DEFINE Was(d, k, e, l) == /\ e \in Anchors /\ l \in 1 .. Len(ch[e])
                                  /\ ch2[d][k] = ch[e][l]
                                  /\ \/ e # m /\ e = d /\ k = l
                                     \/ e = m /\ d = a /\ k = la + l
    <3>1. ASSUME NEW d \in Anchors', NEW k \in 1 .. Len(ch2[d])
          PROVE  \E e, l : Was(d, k, e, l)
      <4>1. CASE d # a
        <5>1. d \in Anchors /\ d # m /\ ch2[d] = ch[d]
          BY <1>10, <1>16, <4>1
        <5>2. k \in 1 .. Len(ch[d]) /\ Was(d, k, d, k)
          BY <3>1, <5>1
        <5>3. QED
          BY <5>1, <5>2
      <4>2. CASE d = a /\ k \in 1 .. la
        <5>1. Was(d, k, a, k)
          BY <1>5, <1>6, <1>la, <1>front, <4>2
        <5>2. QED
          BY <1>5, <4>2, <5>1
      <4>3. CASE d = a /\ k \notin 1 .. la
        <5>0. k - la \in 1 .. lm /\ k = la + (k - la)
          BY <1>11, <3>1, <4>3
        <5>1. k - la \in 1 .. lm /\ ch2[a][k] = ch[m][k - la] /\ k = la + (k - la)
          BY <1>back, <5>0
        <5>2. Was(d, k, m, k - la)
          BY <1>2, <1>lm, <4>3, <5>1
        <5>3. QED
          BY <1>2, <5>1, <5>2
      <4>4. QED
        BY <4>1, <4>2, <4>3
    <3>2. PICK e, l : Was(b, i, e, l)
      BY <2>5, <3>1
    <3>3. PICK f, n : Was(c, j, f, n)
      BY <2>5, <3>1
    <3>4. e = f /\ l = n
      <4>1. ch[e][l] = ch[f][n]
        BY <2>5, <3>2, <3>3
      <4>2. /\ e \in Anchors /\ l \in 1 .. Len(ch[e])
            /\ f \in Anchors /\ n \in 1 .. Len(ch[f])
        BY <3>2, <3>3
      <4>3. QED
        BY <1>1, <4>1, <4>2, ChainPlace
    <3>5. QED
      BY <3>2, <3>3, <3>4
  <2>6. QED
    BY <1>10, <2>1, <2>2, <2>3, <2>4, <2>5 DEF Chained
<1>24. Apart(ch2)'
  BY <1>1, <1>3, <1>14, <1>15, <1>17 DEF Apart, InPool
<1>25. TailOn(ch2)'
  <2> DEFINE h == _head.node
             k == _tail.tag - _head.tag
  <2>1. /\ h \in Anchors /\ Len(ch[h]) \in Nat \ {0} /\ _tail.tag \in Nat /\ _head.tag \in Nat
        /\ k \in 0 .. Len(ch[h]) - 1 /\ _tail.node = ch[h][k + 1]
    BY <1>1, TailOnList, ChainTypes DEF TailOn
  <2>2. k \in 0 .. Len(ch2[h]) - 1 /\ ch2[h][k + 1] = ch[h][k + 1]
    <3>1. CASE h = a
      <4>0. k \in 0 .. la - 1
        BY <1>la, <2>1, <3>1
      <4>1. k \in 0 .. Len(ch2[h]) - 1 /\ k + 1 \in 1 .. la
        BY <1>11, <3>1, <4>0
      <4>2. QED
        BY <1>front, <3>1, <4>1
    <3>2. CASE h # a
      BY <1>10, <2>1, <3>2
    <3>3. QED
      BY <3>1, <3>2
  <2>3. QED
    BY <1>3, <2>1, <2>2 DEF TailOn
<1>27. _tail.node \in Nodes /\ _head.node \in Nodes
  BY <1>1 DEF Typed
<1>28. ASSUME NEW q \in Producers PROVE Enqueues(ch2, q)'
  <2>1. Enqueues(ch, q)
    BY DEF Shape
  <2>2. ASSUME pc[q] \in Linking, NEW r \in Unlinked', old[q].node \in On(ch2, my[r])
        PROVE  data[my[q]] < data[my[r]]
    <3>1. r \in Unlinked /\ my[r] \in Anchors /\ q \in Unlinked
      BY <1>14, <2>2 DEF Anchors, Unlinked
    <3>2. CASE old[q].node \in On(ch, my[r])
      BY <2>1, <2>2, <3>1, <3>2 DEF Enqueues
    <3>3. CASE old[q].node \notin On(ch, my[r])
      <4>1. my[r] = a /\ old[q].node \in On(ch, m)
        BY <1>12, <1>13, <2>2, <3>1, <3>3
      <4>2. data[my[q]] < data[m]
        BY <1>2, <2>1, <2>2, <4>1 DEF Enqueues
      <4>3. data[m] < data[my[r]]
        BY <1>1, <1>4, <1>5, <3>1, <4>1 DEF Enqueues
      <4>4. QED
        BY <1>2, <1>own, <3>1, <4>2, <4>3
    <3>4. QED
      BY <3>2, <3>3
  <2>3. CASE q = p
    <3>1. pc'[q] = "e_swing" /\ (old[p] = _tail => next'[_tail.node] = my[p])
      BY <1>1, <1>3, <1>20, <2>3 DEF Typed
    <3>2. QED
      BY <1>1, <1>3, <1>14, <2>1, <2>3, <3>1 DEF Enqueues
  <2>4. CASE q # p
    <3>1. pc'[q] = pc[q]
      BY <1>1, <1>3, <2>4 DEF Typed, Threads
    <3>2. pc[q] \in Linking /\ next'[old[q].node] = Null => old[q].node \in Chains(ch2)'
      <4>1. pc[q] \in Linking => old[q].node \in Nodes
        BY <1>1 DEF Filled
      <4>2. QED
        BY <1>2, <1>17, <1>20, <2>1, <4>1 DEF Enqueues, Nodes, Null
    <3>3. pc[q] = "e_help" => nx[q] # Null
      BY <1>1 DEF Filled, Nodes, Null
    <3>4. pc[q] = "e_swing" => my[q] # Null
      BY <1>1 DEF Filled, Nodes, Null
    <3>5. \A r \in Unlinked' : pc[q] \in Linking /\ old[q].node \in On(ch2, my[r])
                                => data[my[q]] < data[my[r]]
      BY <2>2
    <3>6. QED
      BY <1>3, <1>14, <1>19, <1>27, <2>1, <3>1, <3>2, <3>3, <3>4, <3>5 DEF Enqueues, On
  <2>5. QED
    BY <2>3, <2>4
<1>29. ASSUME NEW c \in Consumers PROVE Dequeues(c)'
  <2>1. Dequeues(c) /\ pc'[c] = pc[c]
    BY <1>15 DEF Shape
  <2>2. pc[c] \in Knowing => nx[c] # Null
    BY <1>1 DEF Filled, Nodes, Null
  <2>3. QED
    BY <1>3, <1>14, <1>19, <1>27, <2>1, <2>2 DEF Dequeues
<1>30. Stored(ch2)'
  BY <1>1, <1>3, <1>14, <1>18 DEF Stored, Made
<1>31. Shape(ch2)'
  BY <1>21, <1>22, <1>23, <1>24, <1>25, <1>28, <1>29, <1>30 DEF Shape
<1>32. QED
  BY <1>5, <1>6, <1>9, <1>10, <1>18, <1>31 DEF chm
-----------------------------------------------------------------------------
(* DeqCas, DeqFree: the first node leaves the list, and goes to the pool *)

\* The compare-exchange of _head fails, and Dequeue starts again.
LEMMA DeqRetryStep ==
    ASSUME NEW ch, Shape(ch), NEW c \in Consumers, DeqCas(c), _head # old[c]
    PROVE  Shape(ch)' /\ Live(ch)' = Live(ch)
<1> USE DEF Enqueuing, Aiming, Linking, Dequeuing, Knowing, Unfreeing
<1>1. Typed /\ Filled /\ c \in Threads /\ c \notin Producers
  BY Disjoint DEF Shape, Threads
<1>2. /\ pc[c] = "d_cas" /\ pc'[c] = "d_head" /\ \A u \in Threads : u # c => pc'[u] = pc[u]
      /\ UNCHANGED <<next, data, _head, _tail, pool, made, taken, my, old, nx, val>>
  BY <1>1 DEF DeqCas, Goto, Typed, local
<1>3. Untouched
  <2>1. Unlinked' = Unlinked
    <3>1. \A p \in Producers : pc'[p] = pc[p]
      BY <1>1, <1>2 DEF Threads
    <3>2. QED
      BY <3>1 DEF Unlinked
  <2>2. Unfreed' = Unfreed
    <3>1. \A d \in Consumers : d # c => pc'[d] = pc[d]
      BY <1>2 DEF Threads
    <3>2. QED
      BY <1>2, <3>1 DEF Unfreed
  <2>3. QED
    BY <1>2, <2>1, <2>2 DEF Untouched
<1>4. OnlyOf(c)
  BY <1>1 DEF DeqCas, OnlyOf, local, Goto, Typed
<1>5. Typed'
  BY <1>1 DEF DeqCas, Typed, local, Goto, Locations
<1>6. Filled'
  BY <1>1, Disjoint DEF DeqCas, Filled, Typed, local, Goto, Threads
<1>7. Dequeues(c)'
  BY <1>2 DEF Dequeues
<1>8. QED
  BY <1>1, <1>2, <1>3, <1>4, <1>5, <1>6, <1>7, QuietStep

\* The compare-exchange of _head succeeds: the list loses its first node, and the value
\* taken is the one of the second.
LEMMA DeqCasStep ==
    ASSUME NEW ch, Shape(ch), NEW c \in Consumers, DeqCas(c), _head = old[c]
    PROVE  \E ch2 \in [Nodes -> Seq(Nodes)] :
               /\ Shape(ch2)'
               /\ \E n \in Live(ch) : Live(ch2)' = Live(ch) \ {n}
               /\ nx[c] \in Nodes \ Anchors /\ val[c] = data[nx[c]]
               /\ Len(ch[_head.node]) > 1 /\ nx[c] = ch[_head.node][2]
               /\ ch2 = [ch EXCEPT ![nx[c]] = Tail(ch[_head.node])]
<1> USE DEF Enqueuing, Aiming, Linking, Dequeuing, Knowing, Unfreeing
<1>1. /\ Typed /\ Filled /\ Chained(ch) /\ Apart(ch) /\ TailOn(ch) /\ Stored(ch)
      /\ c \in Threads /\ c \notin Producers /\ pc[c] = "d_cas"
  BY Disjoint DEF Shape, Threads, DeqCas
<1> DEFINE n == nx[c]
           h == _head.node
<1>2. /\ _head' = [node |-> n, tag |-> _head.tag + 1] /\ taken' = taken \cup {val[c]}
      /\ pc' = [pc EXCEPT ![c] = "d_count"]
      /\ UNCHANGED <<caller, next, data, _tail, _size, pool, posted, local, made, batch>>
  BY DEF DeqCas, Goto, Moved
<1>3. /\ n \in Nodes /\ next[h] = n /\ _head.tag < _tail.tag /\ val[c] = data[n] /\ n # Null
  <2>1. Dequeues(c)
    BY DEF Shape
  <2>2. QED
    BY <1>1, <2>1 DEF Dequeues, Filled, Nodes, Null
<1>4. /\ h \in Anchors /\ h \in Nodes /\ _head.tag \in Nat /\ _tail.tag \in Nat
      /\ ch[h] \in Seq(Nodes) /\ Len(ch[h]) \in Nat \ {0} /\ ch[h][1] = h
  BY <1>1, TailOnList, ChainTypes DEF Chained
<1>5. 1 < Len(ch[h]) /\ n = ch[h][2]
  <2>1. 1 \in 1 .. Len(ch[h])
    BY <1>4
  <2>2. next[ch[h][1]] = IF 1 < Len(ch[h]) THEN ch[h][1 + 1] ELSE Null
    BY <1>1, <1>4, <2>1, ChainLinks
  <2>3. QED
    BY <1>3, <1>4, <2>2
<1>6. n \in On(ch, h) /\ n # h /\ n \notin Anchors
  <2>1. 1 \in 1 .. Len(ch[h]) /\ 2 \in 1 .. Len(ch[h])
    BY <1>4, <1>5
  <2>2. n \in On(ch, h)
    BY <1>5, <2>1 DEF On
  <2>3. n # h
    BY <1>1, <1>4, <1>5, <2>1, ChainPlace
  <2>4. n \notin Anchors
    <3>1. ASSUME n \in Anchors PROVE FALSE
      <4>1. n \in On(ch, n)
        BY <1>1, <3>1, ChainTypes
      <4>2. QED
        BY <1>1, <1>4, <2>2, <2>3, <3>1, <4>1, ChainsApart
    <3>2. QED
      BY <3>1
  <2>5. QED
    BY <2>2, <2>3, <2>4
<1> DEFINE cht == [ch EXCEPT ![n] = Tail(ch[h])]
<1>7. PICK ch2 : ch2 = cht
  OBVIOUS
<1>8. PICK l \in Nat \ {0} : Len(ch[h]) = l + 1
  <2>1. Len(ch[h]) - 1 \in Nat \ {0} /\ Len(ch[h]) = (Len(ch[h]) - 1) + 1
    BY <1>4, <1>5
  <2>2. QED
    BY <2>1
<1>9. Tail(ch[h]) \in Seq(Nodes) /\ Len(Tail(ch[h])) = l
      /\ \A i \in 1 .. l : Tail(ch[h])[i] = ch[h][i + 1]
  <2>1. PICK s \in Seq(Nodes) : s = ch[h]
    BY <1>4
  <2>2. Len(s) = l + 1
    BY <1>8, <2>1
  <2>3. Tail(s) \in Seq(Nodes) /\ Len(Tail(s)) = l /\ \A i \in 1 .. l : Tail(s)[i] = s[i + 1]
    BY <2>2
  <2>4. QED
    BY <2>1, <2>3
<1>10. /\ ch2 \in [Nodes -> Seq(Nodes)] /\ ch2[n] = Tail(ch[h])
       /\ \A b \in Anchors : ch2[b] = ch[b]
  <2>1. ch \in [Nodes -> Seq(Nodes)] /\ Anchors \subseteq Nodes
    BY <1>1, ChainTypes DEF Chained
  <2>2. QED
    BY <1>3, <1>6, <1>7, <1>9, <2>1
<1> HIDE DEF cht
<1>len. Len(ch2[n]) = l
  BY <1>9, <1>10
<1>tl. \A i \in 1 .. l : ch2[n][i] = ch[h][i + 1]
  BY <1>9, <1>10
<1>11. \A b \in Anchors : On(ch2, b) = On(ch, b)
  BY <1>10 DEF On
<1>12. On(ch2, n) = On(ch, h) \ {h}
  <2>1. ASSUME NEW x \in On(ch2, n) PROVE x \in On(ch, h) \ {h}
    <3>1. PICK i \in 1 .. l : x = ch2[n][i]
      BY <1>len, <2>1 DEF On
    <3>2. i + 1 \in 1 .. Len(ch[h]) /\ x = ch[h][i + 1] /\ 1 \in 1 .. Len(ch[h]) /\ i + 1 # 1
      BY <1>8, <1>tl, <3>1
    <3>3. x # h
      BY <1>1, <1>4, <3>2, ChainPlace
    <3>4. QED
      BY <3>2, <3>3 DEF On
  <2>2. ASSUME NEW x \in On(ch, h) \ {h} PROVE x \in On(ch2, n)
    <3>1. PICK i \in 1 .. Len(ch[h]) : x = ch[h][i]
      BY <2>2 DEF On
    <3>2. i # 1
      BY <1>4, <2>2, <3>1
    <3>3. i - 1 \in 1 .. l /\ (i - 1) + 1 = i
      BY <1>8, <3>1, <3>2
    <3>4. x = ch2[n][i - 1]
      BY <1>tl, <3>1, <3>3
    <3>5. QED
      BY <1>len, <3>3, <3>4 DEF On
  <2>3. QED
    BY <2>1, <2>2
<1>13. /\ Unfreed' = Unfreed \cup {c} /\ c \notin Unfreed
       /\ my' = my /\ old' = old /\ nx' = nx /\ val' = val
       /\ \A d \in Consumers : d # c => pc'[d] = pc[d]
  BY <1>1, <1>2 DEF Unfreed, Typed, Threads, local
<1>14. Unlinked' = Unlinked /\ \A p \in Producers : pc'[p] = pc[p]
  BY <1>1, <1>2 DEF Unlinked, Typed, Threads
<1>15. Anchors' = (Anchors \ {h}) \cup {n}
  <2>1. h \notin {my[p] : p \in Unlinked}
    BY <1>1 DEF Chained
  <2>2. Anchors' = {n} \cup {my[p] : p \in Unlinked}
    BY <1>2, <1>13, <1>14 DEF Anchors
  <2>3. QED
    BY <2>1, <2>2 DEF Anchors
<1>16. \A b \in Anchors \ {h} : h \notin On(ch, b)
  BY <1>1, <1>4, ChainsApart, ChainTypes
<1>17. Chains(ch2)' = Chains(ch) \ {h}
  <2>1. Chains(ch2)' = UNION {On(ch2, b) : b \in (Anchors \ {h}) \cup {n}}
    BY <1>15 DEF Chains, On
  <2>2. \A x : x \in Chains(ch) <=> \E b \in Anchors : x \in On(ch, b)
    BY DEF Chains
  <2>3. \A x : x \in Chains(ch2)' <=> \E b \in (Anchors \ {h}) \cup {n} : x \in On(ch2, b)
    BY <2>1
  <2>4. ASSUME NEW x PROVE x \in Chains(ch2)' <=> x \in Chains(ch) \ {h}
    BY <1>4, <1>11, <1>12, <1>16, <2>2, <2>3
  <2>5. QED
    BY <2>4
<1>18. h \in Chains(ch) /\ n \in Chains(ch)
  BY <1>1, <1>4, <1>6, ChainTypes
<1>19. Live(ch2)' = Live(ch) \ {n} /\ n \in Live(ch)
  BY <1>2, <1>6, <1>17, <1>18 DEF Live
<1>20. Typed'
  BY <1>1, <1>2, <1>3, <1>4 DEF Typed, Locations, local
<1>21. Filled'
  BY <1>1, <1>2, <1>13, <1>14 DEF Filled, Typed, Threads
<1>22. Chained(ch2)'
  <2>1. \A q, r \in Unlinked' : my'[q] = my'[r] => q = r
    BY <1>1, <1>13, <1>14 DEF Chained
  <2>2. \A q \in Unlinked' : my'[q] # _head'.node
    BY <1>2, <1>6, <1>13, <1>14 DEF Anchors
  <2>3. \A b \in Anchors' : Len(ch2[b]) > 0 /\ ch2[b][1] = b
    <3>1. Len(ch2[n]) > 0 /\ ch2[n][1] = n
      <4>1. 1 \in 1 .. l /\ l > 0 /\ 1 + 1 = 2
        OBVIOUS
      <4>2. QED
        BY <1>5, <1>len, <1>tl, <4>1
    <3>2. \A b \in Anchors : Len(ch2[b]) > 0 /\ ch2[b][1] = b
      BY <1>1, <1>10 DEF Chained
    <3>3. QED
      BY <1>15, <3>1, <3>2
  <2>4. ASSUME NEW b \in Anchors', NEW i \in 1 .. Len(ch2[b])
        PROVE  next'[ch2[b][i]] = IF i < Len(ch2[b]) THEN ch2[b][i + 1] ELSE Null
    <3>1. CASE b = n
      <4>1. i \in 1 .. l /\ i + 1 \in 1 .. Len(ch[h]) /\ (i < l <=> i + 1 < Len(ch[h]))
        BY <1>8, <1>len, <2>4, <3>1
      <4>2. next[ch[h][i + 1]] = IF i + 1 < Len(ch[h]) THEN ch[h][(i + 1) + 1] ELSE Null
        BY <1>1, <1>4, <4>1, ChainLinks
      <4>3. i < l => i + 1 \in 1 .. l
        BY <4>1
      <4>4. ch2[n][i] = ch[h][i + 1] /\ (i < l => ch2[n][i + 1] = ch[h][(i + 1) + 1])
        BY <1>tl, <4>1, <4>3
      <4>5. QED
        BY <1>2, <1>len, <3>1, <4>1, <4>2, <4>4
    <3>2. CASE b # n
      <4>1. b \in Anchors /\ ch2[b] = ch[b]
        BY <1>10, <1>15, <3>2
      <4>2. QED
        BY <1>1, <1>2, <2>4, <4>1, ChainLinks
    <3>3. QED
      BY <3>1, <3>2
  <2>5. ASSUME NEW b \in Anchors', NEW d \in Anchors',
               NEW i \in 1 .. Len(ch2[b]), NEW j \in 1 .. Len(ch2[d]), ch2[b][i] = ch2[d][j]
        PROVE  b = d /\ i = j
    <3> DEFINE Was(e, k, f, m) == /\ f \in Anchors /\ m \in 1 .. Len(ch[f])
                                  /\ ch2[e][k] = ch[f][m]
                                  /\ \/ f # h /\ f = e /\ m = k
                                     \/ f = h /\ e = n /\ m = k + 1
    <3>1. ASSUME NEW e \in Anchors', NEW k \in 1 .. Len(ch2[e])
          PROVE  \E f, m : Was(e, k, f, m)
      <4>1. CASE e # n
        <5>1. e \in Anchors /\ e # h /\ ch2[e] = ch[e]
          BY <1>10, <1>15, <4>1
        <5>2. Was(e, k, e, k)
          BY <3>1, <5>1
        <5>3. QED
          BY <5>2
      <4>2. CASE e = n
        <5>1. k \in 1 .. l /\ k + 1 \in 1 .. Len(ch[h])
          BY <1>8, <1>len, <3>1, <4>2
        <5>2. Was(e, k, h, k + 1)
          BY <1>4, <1>tl, <4>2, <5>1
        <5>3. QED
          BY <5>2
      <4>3. QED
        BY <4>1, <4>2
    <3>2. PICK f, m : Was(b, i, f, m)
      BY <2>5, <3>1
    <3>3. PICK g, k : Was(d, j, g, k)
      BY <2>5, <3>1
    <3>4. f = g /\ m = k
      <4>1. ch[f][m] = ch[g][k]
        BY <2>5, <3>2, <3>3
      <4>2. f \in Anchors /\ m \in 1 .. Len(ch[f]) /\ g \in Anchors /\ k \in 1 .. Len(ch[g])
        BY <3>2, <3>3
      <4>3. QED
        BY <1>1, <4>1, <4>2, ChainPlace
    <3>5. QED
      BY <2>5, <3>2, <3>3, <3>4
  <2>6. QED
    BY <1>10, <2>1, <2>2, <2>3, <2>4, <2>5 DEF Chained
<1>23. Apart(ch2)'
  <2>1. \A d, e \in Unfreed' : old'[d].node = old'[e].node => d = e
    BY <1>1, <1>13, <1>18 DEF Apart
  <2>2. \A d \in Unfreed' : old'[d].node \notin InPool' /\ old'[d].node \notin Chains(ch2)'
    BY <1>1, <1>2, <1>13, <1>17, <1>18 DEF Apart, InPool
  <2>3. \A m \in Chains(ch2)' : m \notin InPool'
    BY <1>1, <1>2, <1>17 DEF Apart, InPool
  <2>4. QED
    BY <1>1, <1>2, <2>1, <2>2, <2>3 DEF Apart
<1>24. TailOn(ch2)'
  <2> DEFINE k == _tail.tag - _head.tag
  <2>1. k \in 1 .. l /\ _tail.node = ch[h][k + 1]
    BY <1>1, <1>3, <1>4, <1>8 DEF TailOn
  <2>2. _tail.node = ch2[n][k]
    BY <1>tl, <2>1
  <2>3. _head'.node = n /\ _tail' = _tail /\ _tail'.tag - _head'.tag = k - 1
    BY <1>2, <1>4
  <2>4. k - 1 \in 0 .. l - 1 /\ (k - 1) + 1 = k
    BY <2>1
  <2>5. QED
    BY <1>len, <2>2, <2>3, <2>4 DEF TailOn
<1>26. ASSUME NEW p \in Producers PROVE Enqueues(ch2, p)'
  <2>1. Enqueues(ch, p) /\ pc'[p] = pc[p]
    BY <1>14 DEF Shape
  <2>2. pc[p] \in Linking /\ next[old[p].node] = Null => old[p].node \in Chains(ch2)'
    BY <1>3, <1>17, <2>1 DEF Enqueues
  <2>3. ASSUME pc[p] \in Linking, NEW q \in Unlinked, old[p].node \in On(ch2, my[q])
        PROVE  data[my[p]] < data[my[q]]
    BY <1>11, <2>1, <2>3 DEF Enqueues, Anchors
  <2>4. QED
    BY <1>2, <1>13, <1>14, <2>1, <2>2, <2>3 DEF Enqueues, On
<1>27. ASSUME NEW d \in Consumers PROVE Dequeues(d)'
  <2>1. CASE d = c
    BY <1>1, <1>2, <2>1 DEF Dequeues, Typed
  <2>2. CASE d # c
    <3>1. Dequeues(d) /\ pc'[d] = pc[d] /\ old[d].tag \in Nat
      BY <1>1, <1>13, <2>2 DEF Shape, Typed, Threads, Tagged
    <3>2. _head'.tag = _head.tag + 1
      BY <1>2
    <3>3. pc[d] \in Dequeuing => old[d].tag < _head'.tag /\ old[d] # _head'
      BY <1>4, <3>1, <3>2 DEF Dequeues
    <3>4. _head'.tag \in Nat
      BY <1>4, <3>2
    <3>5. QED
      BY <1>13, <3>1, <3>3, <3>4 DEF Dequeues
  <2>3. QED
    BY <2>1, <2>2
<1>28. Stored(ch2)'
  <2>1. Made' = Made /\ data' = data /\ made' = made /\ data[n] \in Made \ taken
    BY <1>1, <1>2, <1>19 DEF Made, Stored
  <2>2. taken' = taken \cup {data[n]}
    BY <1>2, <1>3
  <2>4. \A m \in Live(ch2)' : data'[m] \in Made' \ taken'
    BY <1>1, <1>19, <2>1, <2>2 DEF Stored
  <2>5. \A m, k \in Live(ch2)' : data'[m] = data'[k] => m = k
    BY <1>1, <1>19, <2>1 DEF Stored
  <2>6. \A v \in Made' \ taken' : \E m \in Live(ch2)' : data'[m] = v
    BY <1>1, <1>19, <2>1, <2>2 DEF Stored
  <2>7. QED
    BY <1>1, <2>1, <2>2, <2>4, <2>5, <2>6 DEF Stored
<1>29. Shape(ch2)'
  BY <1>20, <1>21, <1>22, <1>23, <1>24, <1>26, <1>27, <1>28 DEF Shape
<1>30. QED
  BY <1>3, <1>4, <1>5, <1>6, <1>7, <1>10, <1>19, <1>29 DEF cht

\* The old head goes back to the pool, where no chain can reach it.
LEMMA DeqFreeStep ==
    ASSUME NEW ch, Shape(ch), NEW c \in Consumers, DeqFree(c)
    PROVE  Shape(ch)' /\ Live(ch)' = Live(ch)
<1> USE DEF Enqueuing, Aiming, Linking, Dequeuing, Knowing, Unfreeing
<1>1. /\ Typed /\ Filled /\ Chained(ch) /\ Apart(ch) /\ TailOn(ch) /\ Stored(ch)
      /\ c \in Threads /\ c \notin Producers /\ pc[c] = "d_free"
  BY Disjoint DEF Shape, Threads, DeqFree
<1> DEFINE n == old[c].node
<1>2. /\ n \in Nodes /\ pool' = <<n>> \o pool
      /\ old' = [old EXCEPT ![c] = NoTagged] /\ nx' = [nx EXCEPT ![c] = Null]
      /\ val' = [val EXCEPT ![c] = NoValue] /\ batch' \in Nat
      /\ UNCHANGED <<caller, next, data, _head, _tail, _size, posted, my, made, taken>>
      /\ \E l \in {"front", "idle"} : pc' = [pc EXCEPT ![c] = l]
  BY <1>1 DEF DeqFree, Free, Goto, Filled, Typed
<1>3. PICK l \in {"front", "idle"} : pc' = [pc EXCEPT ![c] = l]
  BY <1>2
<1>4. /\ Unfreed' = Unfreed \ {c} /\ c \in Unfreed
      /\ \A d \in Consumers : d # c => /\ pc'[d] = pc[d] /\ old'[d] = old[d]
                                       /\ nx'[d] = nx[d] /\ val'[d] = val[d]
      /\ pc'[c] = l
  BY <1>1, <1>2, <1>3 DEF Unfreed, Typed, Threads
<1>5. /\ Unlinked' = Unlinked
      /\ \A p \in Producers : pc'[p] = pc[p] /\ old'[p] = old[p] /\ nx'[p] = nx[p]
  BY <1>1, <1>2, <1>3 DEF Unlinked, Typed, Threads
<1>6. Anchors' = Anchors /\ Chains(ch)' = Chains(ch) /\ Live(ch)' = Live(ch)
  <2>1. Anchors' = Anchors
    BY <1>2, <1>5 DEF Anchors
  <2>2. QED
    BY <1>2, <2>1 DEF Chains, Live, On
<1>7. PICK k \in Nat : Len(pool) = k
  BY <1>1 DEF Typed
<1>8. pool' \in Seq(Nodes) /\ Len(pool') = k + 1 /\ pool'[1] = n
      /\ \A i \in 1 .. k : pool'[i + 1] = pool[i]
  BY <1>1, <1>2, <1>7 DEF Typed
<1>9. \A i \in 1 .. k + 1 : (i = 1 /\ pool'[i] = n) \/ (i - 1 \in 1 .. k /\ pool'[i] = pool[i - 1])
  <2>1. ASSUME NEW i \in 1 .. k + 1, i # 1 PROVE i - 1 \in 1 .. k /\ pool'[i] = pool[i - 1]
    <3>1. i - 1 \in 1 .. k /\ (i - 1) + 1 = i
      BY <2>1
    <3>2. QED
      BY <1>8, <3>1
  <2>2. QED
    BY <1>8, <2>1
<1>10. InPool' = InPool \cup {n} /\ n \notin InPool
  <2>1. InPool' \subseteq InPool \cup {n}
    BY <1>7, <1>8, <1>9 DEF InPool
  <2>2. n \in InPool'
    BY <1>8, 1 \in 1 .. k + 1 DEF InPool
  <2>3. ASSUME NEW x \in InPool PROVE x \in InPool'
    <3>1. PICK i \in 1 .. k : x = pool[i]
      BY <1>7, <2>3 DEF InPool
    <3>2. i + 1 \in 1 .. k + 1 /\ x = pool'[i + 1]
      BY <1>8, <3>1
    <3>3. QED
      BY <1>8, <3>2 DEF InPool
  <2>4. n \notin InPool
    BY <1>1, <1>4 DEF Apart
  <2>5. QED
    BY <2>1, <2>2, <2>3, <2>4
<1>11. Typed'
  BY <1>1, <1>2, <1>3, <1>8 DEF Typed, Locations, Tagged, NoTagged
<1>12. Filled'
  BY <1>1, <1>2, <1>3, <1>4, <1>5 DEF Filled
<1>13. Chained(ch)'
  BY <1>1, <1>2, <1>5, <1>6 DEF Chained
<1>14. Apart(ch)'
  <2>1. ASSUME NEW i \in 1 .. k + 1, NEW j \in 1 .. k + 1, pool'[i] = pool'[j] PROVE i = j
    <3>1. \A m \in 1 .. k : pool[m] # n
      BY <1>7, <1>10 DEF InPool
    <3>2. \A m, o \in 1 .. k : pool[m] = pool[o] => m = o
      BY <1>1, <1>7 DEF Apart
    <3>3. CASE i = 1 \/ j = 1
      BY <1>8, <1>9, <2>1, <3>1, <3>3
    <3>4. CASE i # 1 /\ j # 1
      <4>1. i - 1 \in 1 .. k /\ j - 1 \in 1 .. k /\ pool[i - 1] = pool[j - 1]
        BY <1>9, <2>1, <3>4
      <4>2. i - 1 = j - 1
        BY <3>2, <4>1
      <4>3. QED
        BY <2>1, <4>2
    <3>5. QED
      BY <3>3, <3>4
  <2>2. \A d, e \in Unfreed' : old'[d].node = old'[e].node => d = e
    BY <1>1, <1>4 DEF Apart, Unfreed
  <2>3. \A d \in Unfreed' : old'[d].node \notin InPool' /\ old'[d].node \notin Chains(ch)'
    BY <1>1, <1>4, <1>6, <1>10 DEF Apart, Unfreed
  <2>4. \A m \in Chains(ch)' : m \notin InPool'
    BY <1>1, <1>4, <1>6, <1>10 DEF Apart
  <2>5. QED
    BY <1>8, <2>1, <2>2, <2>3, <2>4 DEF Apart
<1>15. TailOn(ch)'
  BY <1>1, <1>2 DEF TailOn
<1>17. ASSUME NEW p \in Producers PROVE Enqueues(ch, p)'
  <2>1. Enqueues(ch, p)
    BY DEF Shape
  <2>2. UNCHANGED <<next, data, _tail, my>> /\ pc'[p] = pc[p] /\ old'[p] = old[p] /\ nx'[p] = nx[p]
    BY <1>2, <1>5
  <2>3. /\ Chains(ch)' = Chains(ch) /\ \A q \in Unlinked : On(ch, my[q])' = On(ch, my[q])
        /\ my' = my /\ data' = data /\ next' = next /\ _tail' = _tail
    BY <1>2, <1>6 DEF On
  <2>4. QED
    BY <1>5, <2>1, <2>2, <2>3 DEF Enqueues
<1>18. ASSUME NEW d \in Consumers PROVE Dequeues(d)'
  <2>1. CASE d = c
    BY <1>4, <2>1 DEF Dequeues
  <2>2. CASE d # c
    <3>1. Dequeues(d)
      BY DEF Shape
    <3>2. QED
      BY <1>2, <1>4, <2>2, <3>1 DEF Dequeues
  <2>3. QED
    BY <2>1, <2>2
<1>19. Stored(ch)'
  BY <1>1, <1>2, <1>5, <1>6 DEF Stored, Made
<1>20. QED
  BY <1>6, <1>11, <1>12, <1>13, <1>14, <1>15, <1>17, <1>18, <1>19 DEF Shape
-----------------------------------------------------------------------------
(* The invariant: some chains fit *)

\* _size counts what is in the chains, short of the enqueuers that have not counted
\* theirs, plus what was taken and not counted.
Uncounted == {p \in Producers : pc[p] \in Enqueuing}
Owing     == {c \in Consumers : pc[c] = "d_count"}
Sized(ch) == _size = Cardinality(Live(ch)) - Cardinality(Uncounted) + Cardinality(Owing)

IInv == \E ch \in [Nodes -> Seq(Nodes)] : Shape(ch) /\ Sized(ch)

\* What Sized counts is finite.
LEMMA FiniteParts ==
    ASSUME NEW ch, Typed, Filled, Chained(ch)
    PROVE  /\ IsFiniteSet(Live(ch)) /\ Cardinality(Live(ch)) \in Nat /\ Live(ch) \subseteq Nodes
           /\ IsFiniteSet(Uncounted) /\ Cardinality(Uncounted) \in Nat
           /\ IsFiniteSet(Owing) /\ Cardinality(Owing) \in Nat
<1>1. IsFiniteSet(Nodes)
  BY BoundsAssumption, FS_Interval DEF Nodes
<1>2. Live(ch) \subseteq Nodes
  BY ChainTypes DEF Live, Chains
<1>3. IsFiniteSet(Live(ch)) /\ IsFiniteSet(Uncounted) /\ IsFiniteSet(Owing)
  BY <1>1, <1>2, ThreadsAssumption, FS_Subset DEF Uncounted, Owing
<1>4. QED
  BY <1>2, <1>3, FS_CardinalityType

\* A step that changes neither what is stored nor who has counted.
LEMMA SameSize ==
    ASSUME NEW ch, NEW ch2, Sized(ch), _size' = _size, Live(ch2)' = Live(ch),
           Uncounted' = Uncounted, Owing' = Owing
    PROVE  Sized(ch2)'
BY DEF Sized

\* Who is among Uncounted and Owing, after a step of thread t.
LEMMA CountersOf ==
    ASSUME Typed, NEW t \in Threads, NEW l, pc' = [pc EXCEPT ![t] = l]
    PROVE  /\ t \in Producers => Owing' = Owing
           /\ t \in Producers /\ l \in Enqueuing => Uncounted' = Uncounted \cup {t}
           /\ t \in Producers /\ l \notin Enqueuing => Uncounted' = Uncounted \ {t}
           /\ t \in Consumers => Uncounted' = Uncounted
           /\ t \in Consumers /\ l = "d_count" => Owing' = Owing \cup {t}
           /\ t \in Consumers /\ l # "d_count" => Owing' = Owing \ {t}
<1>1. pc'[t] = l /\ \A u \in Threads : u # t => pc'[u] = pc[u]
  BY DEF Typed
<1>2. ASSUME t \in Producers PROVE \A c \in Consumers : pc'[c] = pc[c]
  BY <1>1, <1>2, ThreadsAssumption DEF Threads
<1>3. ASSUME t \in Consumers PROVE \A p \in Producers : pc'[p] = pc[p]
  BY <1>1, <1>3, ThreadsAssumption DEF Threads
<1>4. ASSUME t \in Producers
      PROVE  /\ l \in Enqueuing => Uncounted' = Uncounted \cup {t}
             /\ l \notin Enqueuing => Uncounted' = Uncounted \ {t}
  BY <1>1, <1>4 DEF Uncounted, Threads
<1>5. ASSUME t \in Consumers
      PROVE  /\ l = "d_count" => Owing' = Owing \cup {t}
             /\ l # "d_count" => Owing' = Owing \ {t}
  BY <1>1, <1>5 DEF Owing, Threads
<1>6. QED
  BY <1>2, <1>3, <1>4, <1>5 DEF Uncounted, Owing

\* A new member adds one.
LEMMA AddOne ==
    ASSUME NEW S, IsFiniteSet(S), NEW x, x \notin S
    PROVE  Cardinality(S \cup {x}) = Cardinality(S) + 1
BY FS_AddElement

\* A member that leaves takes one away.
LEMMA LoseOne ==
    ASSUME NEW S, IsFiniteSet(S), NEW x \in S
    PROVE  Cardinality(S \ {x}) = Cardinality(S) - 1
BY FS_RemoveElement

\* At the start the list is the dummy node alone.
LEMMA InitIInv == Init => IInv
<1> SUFFICES ASSUME Init PROVE IInv
  OBVIOUS
<1> DEFINE ch0 == [n \in Nodes |-> <<n>>]
<1>0. 1 \in Nodes /\ NodeCount \in Nat \ {0}
  BY BoundsAssumption DEF Nodes
<1>1. /\ Unlinked = {} /\ Unfreed = {} /\ Uncounted = {} /\ Owing = {}
      /\ \A p \in Producers : p \in Threads /\ pc[p] = "idle"
      /\ \A c \in Consumers : c \in Threads /\ pc[c] = "idle"
  BY DEF Init, Unlinked, Unfreed, Uncounted, Owing, Threads, Enqueuing
<1>2. Anchors = {1}
  BY <1>1 DEF Anchors, Init
<1>3. PICK ch : ch = ch0
  OBVIOUS
<1>4. ch \in [Nodes -> Seq(Nodes)] /\ ch[1] = <<1>> /\ Len(ch[1]) = 1 /\ ch[1][1] = 1
  BY <1>0, <1>3
<1> HIDE DEF ch0
<1>5. On(ch, 1) = {1} /\ Chains(ch) = {1} /\ Live(ch) = {}
  <2>1. On(ch, 1) = {1}
    BY <1>4 DEF On
  <2>2. Chains(ch) = {1}
    BY <1>2, <2>1 DEF Chains
  <2>3. QED
    BY <2>1, <2>2 DEF Live, Init
<1>6. Len(pool) = NodeCount - 1 /\ pool \in Seq(Nodes)
      /\ \A i \in 1 .. Len(pool) : pool[i] = i + 1 /\ pool[i] # 1
  <2>1. \A i \in 1 .. NodeCount - 1 : i + 1 \in Nodes /\ i + 1 # 1
    BY <1>0 DEF Nodes
  <2>2. NodeCount - 1 \in Nat
    BY <1>0
  <2>3. pool = [i \in 1 .. NodeCount - 1 |-> i + 1]
    BY DEF Init
  <2>4. QED
    BY <2>1, <2>2, <2>3
<1>7. Typed
  BY <1>0, <1>6, BoundsAssumption
     DEF Typed, Init, Locations, Tagged, NoTagged, Null
<1>8. Filled
  BY <1>1 DEF Filled, Enqueuing, Aiming, Dequeuing, Knowing, Unfreeing
<1>9. Chained(ch)
  <2>1. next[1] = Null
    BY <1>0 DEF Init
  <2>2. \A i \in 1 .. Len(ch[1]) : i = 1
    BY <1>4
  <2>3. next[ch[1][1]] = Null /\ ~(1 < Len(ch[1]))
    BY <1>4, <2>1
  <2>4. \A a \in Anchors : a = 1
    BY <1>2
  <2>5. \A a \in Anchors : \A i \in 1 .. Len(ch[a]) :
          next[ch[a][i]] = IF i < Len(ch[a]) THEN ch[a][i + 1] ELSE Null
    BY <2>2, <2>3, <2>4
  <2>6. \A a \in Anchors : Len(ch[a]) > 0 /\ ch[a][1] = a
    BY <1>4, <2>4
  <2>7. \A a, b \in Anchors : \A i \in 1 .. Len(ch[a]), j \in 1 .. Len(ch[b]) :
          ch[a][i] = ch[b][j] => a = b /\ i = j
    BY <2>2, <2>4
  <2>8. QED
    BY <1>1, <1>4, <2>5, <2>6, <2>7 DEF Chained
<1>10. Apart(ch)
  BY <1>1, <1>5, <1>6 DEF Apart, InPool
<1>11. TailOn(ch)
  <2>1. _tail.tag - _head.tag = 0 /\ _tail.node = 1 /\ _head.node = 1
    BY DEF Init
  <2>2. QED
    BY <1>4, <2>1 DEF TailOn
<1>13. Stored(ch)
  <2>1. Made = {}
    BY DEF Made, Init
  <2>2. QED
    BY <1>1, <1>5, <2>1 DEF Stored, Init
<1>14. \A p \in Producers : Enqueues(ch, p)
  BY <1>1 DEF Enqueues, Aiming, Linking
<1>15. \A c \in Consumers : Dequeues(c)
  BY <1>1 DEF Dequeues, Dequeuing, Knowing
<1>16. Sized(ch)
  BY <1>1, <1>5, FS_EmptySet DEF Sized, Init
<1>17. Shape(ch)
  BY <1>7, <1>8, <1>9, <1>10, <1>11, <1>13, <1>14, <1>15 DEF Shape
<1>18. QED
  BY <1>4, <1>16, <1>17 DEF IInv

\* Every step of an enqueuer.
LEMMA ProduceStep ==
    ASSUME NEW ch \in [Nodes -> Seq(Nodes)],
           Shape(ch), Sized(ch), NEW p \in Producers, Produce(p)
    PROVE  IInv'
<1>1. /\ Typed /\ Filled /\ Chained(ch) /\ p \in Threads
      /\ IsFiniteSet(Live(ch)) /\ Cardinality(Live(ch)) \in Nat
      /\ IsFiniteSet(Uncounted) /\ Cardinality(Uncounted) \in Nat
      /\ Cardinality(Owing) \in Nat
  BY FiniteParts DEF Shape, Threads
<1>2. CASE EnqAlloc(p)
  <2>1. PICK ch2 \in [Nodes -> Seq(Nodes)] :
            Shape(ch2)' /\ \E n \in Nodes \ Live(ch) : Live(ch2)' = Live(ch) \cup {n}
    BY <1>2, EnqAllocStep
  <2>2. Cardinality(Live(ch2)') = Cardinality(Live(ch)) + 1
    BY <1>1, <2>1, AddOne
  <2>3. pc' = [pc EXCEPT ![p] = "e_tail"] /\ pc[p] = "idle" /\ _size' = _size
    BY <1>2 DEF EnqAlloc, Goto
  <2>4. Uncounted' = Uncounted \cup {p} /\ p \notin Uncounted /\ Owing' = Owing
    BY <1>1, <2>3, CountersOf DEF Enqueuing, Uncounted
  <2>5. Cardinality(Uncounted') = Cardinality(Uncounted) + 1
    BY <1>1, <2>4, AddOne
  <2>6. Sized(ch2)'
    BY <1>1, <2>2, <2>3, <2>4, <2>5 DEF Sized
  <2>7. QED
    BY <2>1, <2>6 DEF IInv
<1>3. CASE EnqCount(p)
  <2>1. Shape(ch)' /\ Live(ch)' = Live(ch)
    BY <1>3, EnqCountStep
  <2>2. PICK l \in {"idle", "post"} : pc' = [pc EXCEPT ![p] = l]
    BY <1>3 DEF EnqCount, Goto
  <2>3. pc[p] = "e_count" /\ _size' = _size + 1
    BY <1>3 DEF EnqCount
  <2>4. Uncounted' = Uncounted \ {p} /\ p \in Uncounted /\ Owing' = Owing
    BY <1>1, <2>2, <2>3, CountersOf DEF Enqueuing, Uncounted
  <2>5. Cardinality(Uncounted') = Cardinality(Uncounted) - 1
    BY <1>1, <2>4, LoseOne
  <2>6. Sized(ch)'
    BY <1>1, <2>1, <2>3, <2>4, <2>5 DEF Sized
  <2>7. QED
    BY <2>1, <2>6 DEF IInv
<1>4. ASSUME PostLog(p) \/ EnqTail(p) \/ EnqNext(p) \/ EnqLink(p) \/ EnqHelp(p) \/ EnqSwing(p)
      PROVE  _size' = _size /\ Uncounted' = Uncounted /\ Owing' = Owing
  <2>1. PICK l : pc' = [pc EXCEPT ![p] = l] /\ _size' = _size
                 /\ (l \in Enqueuing <=> pc[p] \in Enqueuing)
    BY <1>4 DEF PostLog, EnqTail, EnqNext, EnqLink, EnqHelp, EnqSwing, Goto, queue, Enqueuing
  <2>2. p \in Uncounted <=> l \in Enqueuing
    BY <2>1 DEF Uncounted
  <2>3. /\ Owing' = Owing
        /\ l \in Enqueuing => Uncounted' = Uncounted \cup {p}
        /\ l \notin Enqueuing => Uncounted' = Uncounted \ {p}
    BY <1>1, <2>1, CountersOf
  <2>4. Uncounted' = Uncounted
    BY <2>2, <2>3
  <2>5. QED
    BY <2>1, <2>3, <2>4
<1>5. CASE EnqLink(p) /\ next[old[p].node] = Null
  <2>1. PICK ch2 \in [Nodes -> Seq(Nodes)] : Shape(ch2)' /\ Live(ch2)' = Live(ch)
    BY <1>5, EnqLinkStep
  <2>2. Sized(ch2)'
    BY <1>4, <1>5, <2>1, SameSize
  <2>3. QED
    BY <2>1, <2>2 DEF IInv
<1>6. CASE \/ PostLog(p) \/ EnqTail(p) \/ EnqNext(p) \/ EnqHelp(p) \/ EnqSwing(p)
           \/ EnqLink(p) /\ next[old[p].node] # Null
  <2>1. Shape(ch)' /\ Live(ch)' = Live(ch)
    BY <1>6, EnqCountStep, EnqTailStep, EnqNextStep, EnqHelpStep, EnqSwingStep, EnqRetryStep
  <2>2. Sized(ch)'
    BY <1>4, <1>6, <2>1, SameSize
  <2>3. QED
    BY <2>1, <2>2 DEF IInv
<1>7. QED
  BY <1>2, <1>3, <1>5, <1>6 DEF Produce

\* Every step of a consumer.
LEMMA ConsumeStep ==
    ASSUME NEW ch \in [Nodes -> Seq(Nodes)],
           Shape(ch), Sized(ch), NEW c \in Consumers, Consume(c)
    PROVE  IInv'
<1>1. /\ Typed /\ Filled /\ Chained(ch) /\ c \in Threads
      /\ IsFiniteSet(Live(ch)) /\ Cardinality(Live(ch)) \in Nat
      /\ IsFiniteSet(Owing) /\ Cardinality(Owing) \in Nat
      /\ Cardinality(Uncounted) \in Nat
  BY FiniteParts DEF Shape, Threads
<1>2. CASE DeqCas(c) /\ _head = old[c]
  <2>1. PICK ch2 \in [Nodes -> Seq(Nodes)] :
            Shape(ch2)' /\ \E n \in Live(ch) : Live(ch2)' = Live(ch) \ {n}
    BY <1>2, DeqCasStep
  <2>2. Cardinality(Live(ch2)') = Cardinality(Live(ch)) - 1
    BY <1>1, <2>1, LoseOne
  <2>3. pc' = [pc EXCEPT ![c] = "d_count"] /\ pc[c] = "d_cas" /\ _size' = _size
    BY <1>2 DEF DeqCas, Goto
  <2>4. Owing' = Owing \cup {c} /\ c \notin Owing /\ Uncounted' = Uncounted
    BY <1>1, <2>3, CountersOf DEF Owing
  <2>5. Cardinality(Owing') = Cardinality(Owing) + 1
    BY <1>1, <2>4, AddOne
  <2>6. Sized(ch2)'
    BY <1>1, <2>2, <2>3, <2>4, <2>5 DEF Sized
  <2>7. QED
    BY <2>1, <2>6 DEF IInv
<1>3. CASE DeqCount(c)
  <2>1. Shape(ch)' /\ Live(ch)' = Live(ch)
    BY <1>3, DeqCountStep
  <2>2. pc' = [pc EXCEPT ![c] = "d_free"] /\ pc[c] = "d_count" /\ _size' = _size - 1
    BY <1>3 DEF DeqCount, Goto
  <2>3. Owing' = Owing \ {c} /\ c \in Owing /\ Uncounted' = Uncounted
    <3>1. PICK l \in {"d_free"} : pc' = [pc EXCEPT ![c] = l]
      BY <2>2
    <3>2. Owing' = Owing \ {c} /\ Uncounted' = Uncounted
      <4>1. l # "d_count"
        OBVIOUS
      <4>2. QED
        BY <1>1, <3>1, <4>1, CountersOf
    <3>3. c \in Owing
      BY <2>2 DEF Owing
    <3>4. QED
      BY <3>2, <3>3
  <2>4. Cardinality(Owing') = Cardinality(Owing) - 1
    BY <1>1, <2>3, LoseOne
  <2>5. Sized(ch)'
    BY <1>1, <2>1, <2>2, <2>3, <2>4 DEF Sized
  <2>6. QED
    BY <2>1, <2>5 DEF IInv
<1>4. CASE \/ Outside(c) \/ DeqHead(c) \/ DeqNext(c) \/ DeqTail(c) \/ DeqData(c) \/ DeqFree(c)
           \/ DeqCas(c) /\ _head # old[c]
  <2>1. Shape(ch)' /\ Live(ch)' = Live(ch)
    BY <1>4, OutsideStep, DeqHeadStep, DeqNextStep, DeqTailStep, DeqDataStep, DeqFreeStep,
       DeqRetryStep
  <2>2. PICK l : pc' = [pc EXCEPT ![c] = l] /\ _size' = _size /\ l # "d_count"
    <3>1. CASE Outside(c)
      BY <3>1 DEF Outside, DeqSize, WriteLog, SendPost, Front, BufferFull, WsaSend, Again, queue,
                  Goto
    <3>2. CASE ~Outside(c)
      BY <1>4, <3>2 DEF DeqHead, DeqNext, DeqTail, DeqData, DeqFree, DeqCas, Again, queue, Goto
    <3>3. QED
      BY <3>1, <3>2
  <2>3. c \notin Owing
    BY <1>4 DEF Owing, Outside, DeqSize, WriteLog, SendPost, Front, BufferFull, WsaSend, DeqHead,
                DeqNext, DeqTail, DeqData, DeqFree, DeqCas
  <2>4. Uncounted' = Uncounted /\ Owing' = Owing
    <3>1. Owing' = Owing \ {c} /\ Uncounted' = Uncounted
      BY <1>1, <2>2, CountersOf
    <3>2. QED
      BY <2>3, <3>1
  <2>5. Sized(ch)'
    BY <2>1, <2>2, <2>4, SameSize
  <2>6. QED
    BY <2>1, <2>5 DEF IInv
<1>5. QED
  BY <1>2, <1>3, <1>4 DEF Consume, Dequeue, Outside

\* Every step keeps the invariant.
LEMMA IInvStep == IInv /\ [Next]_vars => IInv'
<1> SUFFICES ASSUME IInv, [Next]_vars PROVE IInv'
  OBVIOUS
<1>1. PICK ch \in [Nodes -> Seq(Nodes)] :
          Shape(ch) /\ Sized(ch)
  BY DEF IInv
<1>2. CASE \E p \in Producers : Produce(p)
  BY <1>1, <1>2, ProduceStep
<1>3. CASE \E c \in Consumers : Consume(c)
  BY <1>1, <1>3, ConsumeStep
<1>4. CASE UNCHANGED vars
  <2>1. /\ UNCHANGED <<caller, next, data, _head, _tail, _size, pool, posted, pc, my, old, nx, val>>
        /\ UNCHANGED <<made, taken, batch>>
    BY <1>4 DEF vars, queue, local
  <2>2. /\ Unlinked' = Unlinked /\ Unfreed' = Unfreed /\ InPool' = InPool
        /\ Uncounted' = Uncounted /\ Owing' = Owing /\ Made' = Made
    BY <2>1 DEF Unlinked, Unfreed, InPool, Uncounted, Owing, Made
  <2>3. Untouched
    BY <2>1, <2>2 DEF Untouched
  <2>4. /\ Anchors' = Anchors /\ Chains(ch)' = Chains(ch) /\ Live(ch)' = Live(ch)
        /\ Chained(ch)' /\ Apart(ch)' /\ Stored(ch)'
    BY <1>1, <2>3, StillShaped
  <2>5. Typed' /\ Filled' /\ TailOn(ch)'
    BY <1>1, <2>1 DEF Shape, Typed, Filled, TailOn
  <2>6. ASSUME NEW p \in Producers PROVE Enqueues(ch, p)'
    <3>1. Enqueues(ch, p)
      BY <1>1 DEF Shape
    <3>2. QED
      BY <2>1, <2>2, <2>4, <3>1 DEF Enqueues, On
  <2>7. ASSUME NEW c \in Consumers PROVE Dequeues(c)'
    <3>1. Dequeues(c)
      BY <1>1 DEF Shape
    <3>2. QED
      BY <2>1, <3>1 DEF Dequeues
  <2>8. Shape(ch)' /\ Sized(ch)'
    BY <1>1, <2>1, <2>2, <2>4, <2>5, <2>6, <2>7, SameSize DEF Shape
  <2>9. QED
    BY <2>8 DEF IInv
<1>5. QED
  BY <1>2, <1>3, <1>4 DEF Next

\* The invariant holds in every reachable state.
LEMMA IInvCorrect == Spec => []IInv
BY InitIInv, IInvStep, PTL DEF Spec
-----------------------------------------------------------------------------
(* From the chains to the properties *)

\* The subsets of a finite set include a minimal one.
LEMMA MinimalSet ==
    ASSUME NEW U, IsFiniteSet(U), NEW F \in SUBSET (SUBSET U), F # {}
    PROVE  \E A \in F : \A B \in F : B \subseteq A => B = A
<1>1. IsWellFoundedOn(StrictSubsetOrdering(U), SUBSET U)
  BY FS_StrictSubsetOrderingWellFounded, FS_FiniteSubsetsOfFinite
<1>2. PICK A \in F : \A B \in F : ~(<<B, A>> \in StrictSubsetOrdering(U))
  BY <1>1, WFMin
<1>3. QED
  BY <1>2 DEF StrictSubsetOrdering

\* A set of numbers up to n has a least one.
LEMMA LeastNumber ==
    ASSUME NEW n \in Nat, NEW T \in SUBSET (0 .. n), T # {}
    PROVE  \E k \in T : \A j \in T : k <= j
<1> DEFINE F == {0 .. k : k \in T}
<1>1. IsFiniteSet(0 .. n)
  BY FS_Interval
<1>2. F \in SUBSET (SUBSET (0 .. n)) /\ F # {}
  <2>1. ASSUME NEW k \in T PROVE 0 .. k \subseteq 0 .. n
    OBVIOUS
  <2>2. QED
    BY <2>1
<1>3. \E A \in F : \A B \in F : B \subseteq A => B = A
  <2> DEFINE U == 0 .. n
  <2>1. IsFiniteSet(U) /\ F \in SUBSET (SUBSET U) /\ F # {}
    BY <1>1, <1>2
  <2> HIDE DEF F, U
  <2>2. QED
    BY <2>1, MinimalSet
<1>4. PICK k \in T : \A B \in F : B \subseteq 0 .. k => B = 0 .. k
  BY <1>3
<1>5. ASSUME NEW j \in T, j < k PROVE FALSE
  <2>1. 0 .. j \in F /\ 0 .. j \subseteq 0 .. k /\ k \in 0 .. k /\ k \notin 0 .. j
    BY <1>5
  <2>2. QED
    BY <1>4, <2>1
<1>6. QED
  BY <1>5

\* Behind(n, k) is where k steps along the links lead: the place k of any walk w.
LEMMA BehindIs ==
    ASSUME NEW n, NEW k \in Nat, NEW w \in [0 .. k -> Nodes \cup {Null}],
           w[0] = n,
           \A i \in 1 .. k : w[i] = IF w[i - 1] = Null THEN Null ELSE next[w[i - 1]]
    PROVE  Behind(n, k) = w[k]
<1> DEFINE Walk(i, f) == IF i = 0 THEN n
                         ELSE IF f[i - 1] = Null THEN Null ELSE next[f[i - 1]]
           at == CHOOSE f : f = [i \in 0 .. k |-> Walk(i, f)]
<1>1. w = [i \in 0 .. k |-> Walk(i, w)]
  OBVIOUS
<1>2. at = [i \in 0 .. k |-> Walk(i, at)]
  BY <1>1
<1>3. Behind(n, k) = at[k]
  BY DEF Behind
<1> HIDE DEF at
<1>4. \A i \in 0 .. k : at[i] = Walk(i, at)
  BY <1>2
<1> DEFINE T == {i \in 0 .. k : at[i] # w[i]}
<1>5. ASSUME T # {} PROVE FALSE
  <2>1. PICK m \in T : \A j \in T : m <= j
    BY <1>5, LeastNumber
  <2>2. CASE m = 0
    BY <1>4, <2>1, <2>2
  <2>3. CASE m # 0
    <3>1. m - 1 \in 0 .. k /\ m - 1 \notin T /\ m \in 1 .. k
      BY <2>1, <2>3
    <3>2. at[m - 1] = w[m - 1]
      BY <3>1
    <3>3. at[m] = w[m]
      BY <1>4, <2>3, <3>1, <3>2
    <3>4. QED
      BY <2>1, <3>3
  <2>4. QED
    BY <2>2, <2>3
<1>6. QED
  BY <1>3, <1>5

\* A chain is no longer than there are nodes.
LEMMA ChainBounded ==
    ASSUME NEW ch, Typed, Filled, Chained(ch), NEW a \in Anchors
    PROVE  Len(ch[a]) <= NodeCount
<1>1. Len(ch[a]) \in Nat /\ \A i \in 1 .. Len(ch[a]) : ch[a][i] \in Nodes
  BY ChainTypes
<1> DEFINE f == [i \in 1 .. Len(ch[a]) |-> ch[a][i]]
<1>2. f \in Injection(1 .. Len(ch[a]), Nodes)
  <2>1. f \in [1 .. Len(ch[a]) -> Nodes]
    BY <1>1
  <2>2. \A i, j \in 1 .. Len(ch[a]) : f[i] = f[j] => i = j
    BY ChainPlace
  <2>3. QED
    BY <2>1, <2>2 DEF Injection, IsInjective
<1>3. IsFiniteSet(Nodes) /\ Cardinality(Nodes) = NodeCount
  BY BoundsAssumption, FS_Interval DEF Nodes
<1>4. Cardinality(1 .. Len(ch[a])) <= NodeCount
  BY <1>2, <1>3, FS_Injection
<1>5. Cardinality(1 .. Len(ch[a])) = Len(ch[a])
  BY <1>1, FS_Interval
<1>6. QED
  BY <1>4, <1>5

\* Behind walks along a chain, and finds nothing after its end.
LEMMA BehindInChain ==
    ASSUME NEW ch, Typed, Filled, Chained(ch), NEW a \in Anchors, NEW k \in Nat
    PROVE  Behind(a, k) = IF k < Len(ch[a]) THEN ch[a][k + 1] ELSE Null
<1>1. /\ Len(ch[a]) \in Nat \ {0} /\ ch[a][1] = a
      /\ \A i \in 1 .. Len(ch[a]) : ch[a][i] \in Nodes /\ ch[a][i] # Null
  <2>1. Len(ch[a]) \in Nat \ {0} /\ \A i \in 1 .. Len(ch[a]) : ch[a][i] \in Nodes
    BY ChainTypes
  <2>2. ch[a][1] = a
    BY DEF Chained
  <2>3. \A n \in Nodes : n # Null
    BY DEF Nodes, Null
  <2>4. QED
    BY <2>1, <2>2, <2>3
<1> DEFINE w == [i \in 0 .. k |-> IF i < Len(ch[a]) THEN ch[a][i + 1] ELSE Null]
<1>2. w \in [0 .. k -> Nodes \cup {Null}]
  BY <1>1
<1>3. w[0] = a
  BY <1>1
<1>4. ASSUME NEW i \in 1 .. k
      PROVE  w[i] = IF w[i - 1] = Null THEN Null ELSE next[w[i - 1]]
  <2>1. i - 1 \in 0 .. k /\ i \in 0 .. k /\ (i - 1) + 1 = i
    BY <1>4
  <2>2. CASE i - 1 < Len(ch[a])
    <3>1. i \in 1 .. Len(ch[a])
      BY <1>1, <1>4, <2>2
    <3>2. w[i - 1] = ch[a][i] /\ w[i - 1] # Null
      BY <1>1, <2>1, <2>2, <3>1
    <3>3. next[ch[a][i]] = IF i < Len(ch[a]) THEN ch[a][i + 1] ELSE Null
      BY <3>1, ChainLinks
    <3>4. QED
      BY <2>1, <3>2, <3>3
  <2>3. CASE ~(i - 1 < Len(ch[a]))
    <3>1. ~(i < Len(ch[a]))
      BY <1>1, <1>4, <2>3
    <3>2. QED
      BY <2>1, <2>3, <3>1
  <2>4. QED
    BY <2>2, <2>3
<1>5. Behind(a, k) = w[k]
  <2> HIDE DEF w
  <2>1. QED
    BY <1>2, <1>3, <1>4, BehindIs
<1>6. QED
  BY <1>5

\* What can be reached from an anchor is its chain.
LEMMA FromIsOn ==
    ASSUME NEW ch, Typed, Filled, Chained(ch), NEW a \in Anchors
    PROVE  From(a) = On(ch, a)
<1>1. Len(ch[a]) \in Nat \ {0} /\ Len(ch[a]) <= NodeCount /\ NodeCount \in Nat
      /\ \A i \in 1 .. Len(ch[a]) : ch[a][i] # Null
  BY ChainTypes, ChainBounded, BoundsAssumption DEF Nodes, Null
<1>2. ASSUME NEW x \in From(a) PROVE x \in On(ch, a)
  <2>1. PICK k \in 0 .. NodeCount : x = Behind(a, k) /\ x # Null
    BY <1>2 DEF From
  <2>2. k < Len(ch[a]) /\ x = ch[a][k + 1]
    BY <2>1, BehindInChain
  <2>3. QED
    BY <1>1, <2>2 DEF On
<1>3. ASSUME NEW x \in On(ch, a) PROVE x \in From(a)
  <2>1. PICK i \in 1 .. Len(ch[a]) : x = ch[a][i]
    BY <1>3 DEF On
  <2>2. i - 1 \in 0 .. NodeCount /\ i - 1 \in Nat /\ i - 1 < Len(ch[a]) /\ (i - 1) + 1 = i
    BY <1>1
  <2>3. Behind(a, i - 1) = ch[a][(i - 1) + 1]
    BY <2>2, BehindInChain
  <2>4. x = Behind(a, i - 1) /\ x # Null
    BY <1>1, <2>1, <2>2, <2>3
  <2>5. QED
    BY <2>2, <2>4 DEF From
<1>4. QED
  BY <1>2, <1>3
-----------------------------------------------------------------------------
(* The theorems *)

\* A function that keeps the members of a finite set apart has as many values.
LEMMA AsMany ==
    ASSUME NEW S, IsFiniteSet(S), NEW T, NEW f \in [S -> T],
           \A x, y \in S : f[x] = f[y] => x = y,
           \A z \in T : \E x \in S : f[x] = z
    PROVE  IsFiniteSet(T) /\ Cardinality(T) = Cardinality(S)
<1>1. f \in Bijection(S, T)
  BY DEF Bijection, Injection, Surjection, IsInjective
<1>2. QED
  BY <1>1, FS_Bijection DEF ExistsBijection

\* The pool holds a node at most once, and never the one at the head.
LEMMA PoolSize ==
    ASSUME NEW ch, Typed, Filled, Chained(ch), Apart(ch)
    PROVE  Cardinality(InPool) = Len(pool) /\ Len(pool) < NodeCount
<1>1. pool \in Seq(Nodes) /\ Len(pool) \in Nat /\ NodeCount \in Nat \ {0}
  BY BoundsAssumption DEF Typed
<1>2. IsFiniteSet(1 .. Len(pool)) /\ Cardinality(1 .. Len(pool)) = Len(pool)
  BY <1>1, FS_Interval
<1>3. Cardinality(InPool) = Len(pool)
  <2> DEFINE f == [i \in 1 .. Len(pool) |-> pool[i]]
  <2>1. f \in [1 .. Len(pool) -> InPool]
    BY DEF InPool
  <2>2. \A i, j \in 1 .. Len(pool) : f[i] = f[j] => i = j
    BY DEF Apart
  <2>3. \A z \in InPool : \E i \in 1 .. Len(pool) : f[i] = z
    BY DEF InPool
  <2> HIDE DEF f
  <2>4. Cardinality(InPool) = Cardinality(1 .. Len(pool))
    BY <1>2, <2>1, <2>2, <2>3, AsMany
  <2>5. QED
    BY <1>2, <2>4
<1>4. InPool \subseteq Nodes \ {_head.node}
  <2>1. InPool \subseteq Nodes
    BY <1>1 DEF InPool
  <2>2. _head.node \in Chains(ch)
    BY ChainTypes DEF Anchors
  <2>3. QED
    BY <2>1, <2>2 DEF Apart
<1>5. IsFiniteSet(Nodes) /\ Cardinality(Nodes) = NodeCount /\ _head.node \in Nodes
  BY <1>1, FS_Interval DEF Nodes, Typed
<1>6. /\ IsFiniteSet(Nodes \ {_head.node})
      /\ Cardinality(Nodes \ {_head.node}) = NodeCount - 1
  BY <1>5, FS_RemoveElement
<1>7. Cardinality(InPool) <= NodeCount - 1
  BY <1>4, <1>6, FS_Subset
<1>8. QED
  BY <1>1, <1>3, <1>7

\* Nodes about to be freed are as many as the threads that will free them.
LEMMA OldNodes ==
    ASSUME NEW ch, Apart(ch), NEW C \in SUBSET Unfreed
    PROVE  /\ IsFiniteSet(C) /\ IsFiniteSet({old[c].node : c \in C})
           /\ Cardinality({old[c].node : c \in C}) = Cardinality(C)
<1> DEFINE f == [c \in C |-> old[c].node]
<1>1. IsFiniteSet(C)
  BY ThreadsAssumption, FS_Subset DEF Unfreed
<1>2. f \in [C -> {old[c].node : c \in C}]
  OBVIOUS
<1>3. \A c, d \in C : f[c] = f[d] => c = d
  BY DEF Apart
<1>4. \A z \in {old[c].node : c \in C} : \E c \in C : f[c] = z
  OBVIOUS
<1> HIDE DEF f
<1>5. QED
  BY <1>1, <1>2, <1>3, <1>4, AsMany

\* _size stays within the nodes there are and the enqueuers that may lag behind.
LEMMA SizeBounds ==
    ASSUME NEW ch, Typed, Filled, Chained(ch), Apart(ch), Sized(ch)
    PROVE  _size \in -Cardinality(Producers) .. NodeCount
<1> DEFINE O == {old[c].node : c \in Owing}
<1>1. Owing \subseteq Unfreed
  BY DEF Owing, Unfreed
<1>2. IsFiniteSet(O) /\ Cardinality(O) = Cardinality(Owing)
  BY <1>1, OldNodes
<1>3. /\ IsFiniteSet(Live(ch)) /\ Cardinality(Live(ch)) \in Nat /\ Live(ch) \subseteq Nodes
      /\ Cardinality(Uncounted) \in Nat /\ Cardinality(Owing) \in Nat
  BY FiniteParts
<1>4. O \subseteq Nodes /\ Live(ch) \cap O = {}
  <2>1. \A c \in Owing : old[c].node \in Nodes
    BY DEF Owing, Filled, Dequeuing, Unfreeing
  <2>2. \A c \in Owing : old[c].node \notin Chains(ch)
    BY <1>1 DEF Apart
  <2>3. QED
    BY <2>1, <2>2 DEF Live
<1>5. Cardinality(Live(ch) \cup O) = Cardinality(Live(ch)) + Cardinality(Owing)
  <2> HIDE DEF O
  <2>1. Cardinality(Live(ch) \cap O) = 0
    BY <1>4, FS_EmptySet
  <2>2. QED
    BY <1>2, <1>3, <2>1, FS_Union
<1>6. IsFiniteSet(Nodes) /\ Cardinality(Nodes) = NodeCount /\ NodeCount \in Nat
  BY BoundsAssumption, FS_Interval DEF Nodes
<1>7. Cardinality(Live(ch) \cup O) <= NodeCount
  <2> HIDE DEF O
  <2>1. Live(ch) \cup O \in SUBSET Nodes
    BY <1>3, <1>4
  <2>2. QED
    BY <1>6, <2>1, FS_Subset
<1>8. Cardinality(Uncounted) <= Cardinality(Producers) /\ Cardinality(Producers) \in Nat
  <2>1. Uncounted \in SUBSET Producers
    BY DEF Uncounted
  <2>2. QED
    BY <2>1, ThreadsAssumption, FS_Subset, FS_CardinalityType
<1>9. QED
  BY <1>3, <1>5, <1>6, <1>7, <1>8 DEF Sized

\* Every variable keeps its type; the pool never overflows, and _size is never behind
\* by more than the enqueuers that have not counted, nor ahead of the nodes there are.
THEOREM TypeCorrect == Spec => []TypeOK
<1>1. ASSUME IInv PROVE TypeOK
  <2>1. PICK ch \in [Nodes -> Seq(Nodes)] :
            Shape(ch) /\ Sized(ch)
    BY <1>1 DEF IInv
  <2>2. Typed /\ Filled /\ Chained(ch) /\ Apart(ch) /\ Stored(ch)
    BY <2>1 DEF Shape
  <2>3. Len(pool) < NodeCount /\ _size \in -Cardinality(Producers) .. NodeCount
    BY <2>1, <2>2, PoolSize, SizeBounds
  <2>4. taken \subseteq Values
    <3>1. made \in Nat /\ made <= MaxEnqueues /\ MaxEnqueues \in Nat /\ taken \subseteq 1 .. made
      BY <2>2, BoundsAssumption DEF Typed, Stored, Made
    <3>2. QED
      BY <3>1 DEF Values
  <2>5. QED
    BY <2>2, <2>3, <2>4 DEF TypeOK, Typed
<1>2. QED
  BY <1>1, IInvCorrect, PTL

\* The nodes that threads hold are apart from each other and from the list.
LEMMA PrivateApart ==
    ASSUME NEW ch, Typed, Filled, Chained(ch), Apart(ch)
    PROVE  /\ InPool \cap Private = {}
           /\ Private \cap On(ch, _head.node) = {}
           /\ Cardinality(Private) = Cardinality(Unlinked) + Cardinality(Unfreed)
<1> DEFINE A == {my[p] : p \in Unlinked}
           O == {old[c].node : c \in Unfreed}
<1>1. /\ A \subseteq Chains(ch)
      /\ A \cap On(ch, _head.node) = {}
  <2>1. ASSUME NEW p \in Unlinked PROVE my[p] \in Chains(ch) /\ my[p] \notin On(ch, _head.node)
    <3>1. my[p] \in Anchors /\ _head.node \in Anchors /\ my[p] # _head.node
      BY DEF Anchors, Chained
    <3>2. my[p] \in On(ch, my[p]) /\ my[p] \in Chains(ch)
      BY <3>1, ChainTypes
    <3>3. QED
      BY <3>1, <3>2, ChainsApart
  <2>2. QED
    BY <2>1
<1>2. O \cap Chains(ch) = {} /\ O \cap InPool = {} /\ InPool \cap Chains(ch) = {}
  BY DEF Apart
<1>3. On(ch, _head.node) \subseteq Chains(ch)
  BY DEF Anchors, Chains
<1>4. IsFiniteSet(O) /\ Cardinality(O) = Cardinality(Unfreed)
  BY OldNodes
<1>5. IsFiniteSet(A) /\ Cardinality(A) = Cardinality(Unlinked)
  <2> DEFINE f == [p \in Unlinked |-> my[p]]
  <2>1. IsFiniteSet(Unlinked)
    BY ThreadsAssumption, FS_Subset DEF Unlinked
  <2>2. f \in [Unlinked -> A]
    OBVIOUS
  <2>3. \A p, q \in Unlinked : f[p] = f[q] => p = q
    BY DEF Chained
  <2>4. \A z \in A : \E p \in Unlinked : f[p] = z
    OBVIOUS
  <2> HIDE DEF f, A
  <2>5. QED
    BY <2>1, <2>2, <2>3, <2>4, AsMany
<1>6. Private = A \cup O
  BY DEF Private
<1> HIDE DEF A, O
<1>7. Cardinality(A \cap O) = 0 /\ Cardinality(A) \in Nat /\ Cardinality(O) \in Nat
  <2>1. A \cap O = {}
    BY <1>1, <1>2
  <2>2. QED
    BY <1>4, <1>5, <2>1, FS_EmptySet, FS_CardinalityType
<1>8. Cardinality(A \cup O) = Cardinality(A) + Cardinality(O)
  <2>1. Cardinality(A \cup O) = Cardinality(A) + Cardinality(O) - Cardinality(A \cap O)
    BY <1>4, <1>5, FS_Union
  <2>2. QED
    BY <1>7, <2>1
<1>9. InPool \cap Private = {} /\ Private \cap On(ch, _head.node) = {}
  BY <1>1, <1>2, <1>3, <1>6
<1>10. QED
  BY <1>4, <1>5, <1>6, <1>8, <1>9

\* A node is in one place, although a node is recycled while other threads still hold
\* its address: the pool, the list, and what threads took are apart.
THEOREM NodesStayApart == Spec => []NodesApart
<1>1. ASSUME IInv PROVE NodesApart
  <2>1. PICK ch \in [Nodes -> Seq(Nodes)] : Shape(ch)
    BY <1>1 DEF IInv
  <2>2. Typed /\ Filled /\ Chained(ch) /\ Apart(ch)
    BY <2>1 DEF Shape
  <2>3. _head.node \in Anchors /\ From(_head.node) = On(ch, _head.node)
    BY <2>2, FromIsOn DEF Anchors
  <2>4. On(ch, _head.node) \subseteq Chains(ch)
    BY <2>3 DEF Chains
  <2>5. InPool \cap From(_head.node) = {}
    BY <2>2, <2>3, <2>4 DEF Apart
  <2>6. QED
    BY <2>2, <2>3, <2>5, PoolSize, PrivateApart DEF NodesApart
<1>2. QED
  BY <1>1, IInvCorrect, PTL

\* A value that was enqueued is not lost: it is in the list, or on a chain that its
\* owner links, whatever the compare-exchange without a tag linked where.
THEOREM NothingIsLost == Spec => []NothingLost
<1>1. ASSUME IInv PROVE NothingLost
  <2>1. PICK ch \in [Nodes -> Seq(Nodes)] : Shape(ch)
    BY <1>1 DEF IInv
  <2>2. Typed /\ Filled /\ Chained(ch) /\ Stored(ch)
    BY <2>1 DEF Shape
  <2>3. ASSUME NEW v \in Linked \ taken
        PROVE  \E n \in Anchors : \E m \in From(n) \ {_head.node} : data[m] = v
    <3>1. v \in Made \ taken
      BY DEF Linked, Made
    <3>2. PICK m \in Live(ch) : data[m] = v
      BY <2>2, <3>1 DEF Stored
    <3>3. PICK n \in Anchors : m \in On(ch, n) /\ m # _head.node
      BY <3>2 DEF Live, Chains
    <3>4. m \in From(n)
      BY <2>2, <3>3, FromIsOn
    <3>5. QED
      BY <3>2, <3>3, <3>4
  <2>4. QED
    BY <2>3 DEF NothingLost, Anchors
<1>2. QED
  BY <1>1, IInvCorrect, PTL

\* The list holds each value once, and none that was dequeued: with NothingLost, each
\* value is dequeued at most once and stays until it is.
THEOREM ValuesTakenOnce == Spec => []TakenOnce
<1>1. ASSUME IInv PROVE TakenOnce
  <2>1. PICK ch \in [Nodes -> Seq(Nodes)] : Shape(ch)
    BY <1>1 DEF IInv
  <2>2. Typed /\ Filled /\ Chained(ch) /\ Stored(ch)
    BY <2>1 DEF Shape
  <2>3. _head.node \in Anchors /\ From(_head.node) = On(ch, _head.node)
    BY <2>2, FromIsOn DEF Anchors
  <2> DEFINE Held == From(_head.node) \ {_head.node}
  <2>4. Held \subseteq Live(ch)
    BY <2>3 DEF Live, Chains
  <2>5. ASSUME NEW m \in Held PROVE data[m] \in Linked \ taken
    <3>1. m \in Live(ch) /\ m \in On(ch, _head.node)
      BY <2>3, <2>4
    <3>2. data[m] \in Made \ taken
      BY <2>2, <3>1 DEF Stored
    <3>3. ASSUME NEW p \in Unlinked, data[m] = data[my[p]] PROVE FALSE
      <4>1. my[p] \in Anchors /\ my[p] # _head.node /\ my[p] \in On(ch, my[p]) /\ my[p] \in Live(ch)
        BY <2>2, OwnValues DEF Chained
      <4>2. my[p] = m
        BY <2>2, <3>1, <3>3, <4>1 DEF Stored
      <4>3. QED
        BY <2>2, <2>3, <3>1, <4>1, <4>2, ChainsApart
    <3>4. QED
      BY <3>2, <3>3 DEF Linked, Made
  <2>6. \A m, n \in Held : data[m] = data[n] => m = n
    BY <2>2, <2>4 DEF Stored
  <2>7. QED
    BY <2>5, <2>6 DEF TakenOnce
<1>2. QED
  BY <1>1, IInvCorrect, PTL

\* The tail is never behind the head: Dequeue compares them, and pushes the tail on,
\* only when they are equal, and that is enough.
THEOREM TailStaysAhead == Spec => []TailAhead
<1>1. ASSUME IInv PROVE TailAhead
  <2>1. PICK ch \in [Nodes -> Seq(Nodes)] : Shape(ch)
    BY <1>1 DEF IInv
  <2>2. Typed /\ Filled /\ Chained(ch) /\ TailOn(ch)
    BY <2>1 DEF Shape
  <2> DEFINE k == _tail.tag - _head.tag
  <2>3. /\ _head.node \in Anchors /\ _head.tag \in Nat /\ _tail.tag \in Nat
        /\ Len(ch[_head.node]) \in Nat /\ Len(ch[_head.node]) <= NodeCount
        /\ NodeCount \in Nat
    BY <2>2, TailOnList, ChainTypes, ChainBounded, BoundsAssumption
  <2>4. /\ k \in Nat /\ k < Len(ch[_head.node]) /\ k \in 0 .. NodeCount
        /\ _tail.tag = _head.tag + k
    <3>1. k \in 0 .. Len(ch[_head.node]) - 1
      BY <2>2 DEF TailOn
    <3>2. QED
      BY <2>3, <3>1
  <2>5. _tail.node = ch[_head.node][k + 1]
    BY <2>2 DEF TailOn
  <2> HIDE DEF k
  <2>6. Behind(_head.node, k) = _tail.node
    BY <2>2, <2>3, <2>4, <2>5, BehindInChain
  <2>7. QED
    BY <2>4, <2>6 DEF TailAhead
<1>2. QED
  BY <1>1, IInvCorrect, PTL
-----------------------------------------------------------------------------
(* The promise: the list as its callers see it *)

\* The values on the chain of a.
ValuesOn(ch, a) == [i \in 1 .. Len(ch[a]) |-> data[ch[a][i]]]

\* The values behind an anchor are those of its chain.
LEMMA ValuesFromChain ==
    ASSUME NEW ch, Typed, Filled, Chained(ch), NEW a \in Anchors
    PROVE  ValuesFrom(a) = ValuesOn(ch, a)
<1>1. /\ Len(ch[a]) \in Nat \ {0} /\ Len(ch[a]) <= NodeCount /\ NodeCount \in Nat
      /\ \A i \in 1 .. Len(ch[a]) : ch[a][i] # Null
  BY ChainTypes, ChainBounded, BoundsAssumption DEF Nodes, Null
<1> DEFINE Ends(j) == Behind(a, j) = Null /\ Behind(a, j - 1) # Null
           k == CHOOSE j \in 1 .. NodeCount : Ends(j)
<1>2. ASSUME NEW j \in 1 .. NodeCount PROVE Ends(j) <=> j = Len(ch[a])
  <2>1. j \in Nat /\ j - 1 \in Nat /\ (j - 1) + 1 = j
    BY <1>1, <1>2
  <2>2. /\ Behind(a, j) = IF j < Len(ch[a]) THEN ch[a][j + 1] ELSE Null
        /\ Behind(a, j - 1) = IF j - 1 < Len(ch[a]) THEN ch[a][j] ELSE Null
    BY <2>1, BehindInChain
  <2>3. j < Len(ch[a]) => ch[a][j + 1] # Null
    BY <1>1, <2>1
  <2>4. j - 1 < Len(ch[a]) => ch[a][j] # Null
    BY <1>1, <1>2, <2>1
  <2>5. Behind(a, j) = Null <=> ~(j < Len(ch[a]))
    BY <2>2, <2>3
  <2>6. Behind(a, j - 1) # Null <=> j - 1 < Len(ch[a])
    BY <2>2, <2>4
  <2>7. QED
    BY <1>1, <1>2, <2>5, <2>6
<1>3. k = Len(ch[a])
  <2>1. Len(ch[a]) \in 1 .. NodeCount
    BY <1>1
  <2> HIDE DEF Ends
  <2>2. QED
    BY <1>2, <2>1
<1>4. \A i \in 1 .. Len(ch[a]) : Behind(a, i - 1) = ch[a][i]
  <2>1. ASSUME NEW i \in 1 .. Len(ch[a]) PROVE Behind(a, i - 1) = ch[a][i]
    <3>1. i - 1 \in Nat /\ i - 1 < Len(ch[a]) /\ (i - 1) + 1 = i
      BY <1>1
    <3>2. Behind(a, i - 1) = IF i - 1 < Len(ch[a]) THEN ch[a][(i - 1) + 1] ELSE Null
      BY <3>1, BehindInChain
    <3>3. QED
      BY <3>1, <3>2
  <2>2. QED
    BY <2>1
<1>5. ValuesFrom(a) = [i \in 1 .. k |-> data[Behind(a, i - 1)]]
  BY DEF ValuesFrom
<1> HIDE DEF k
<1>6. QED
  BY <1>3, <1>4, <1>5 DEF ValuesOn

\* Line and Waiting, told from the chains.
Told == \A ch : Shape(ch) =>
            /\ Line = Tail(ValuesOn(ch, _head.node))
            /\ Waiting = [p \in Producers |-> IF p \in Unlinked THEN ValuesOn(ch, my[p]) ELSE <<>>]

\* The chains tell them in this state.
LEMMA ToldNow == Told
<1> SUFFICES ASSUME NEW ch, Shape(ch)
             PROVE  /\ Line = Tail(ValuesOn(ch, _head.node))
                    /\ Waiting = [p \in Producers |-> IF p \in Unlinked THEN ValuesOn(ch, my[p])
                                                                       ELSE <<>>]
  BY DEF Told
<1>1. Typed /\ Filled /\ Chained(ch)
  BY DEF Shape
<1>2. ValuesFrom(_head.node) = ValuesOn(ch, _head.node)
  BY <1>1, ValuesFromChain DEF Anchors
<1>3. \A p \in Unlinked : ValuesFrom(my[p]) = ValuesOn(ch, my[p])
  BY <1>1, ValuesFromChain DEF Anchors
<1>4. QED
  BY <1>2, <1>3 DEF Line, Waiting

\* And in the next.
LEMMA ToldNext == Told'
BY ToldNow, PTL

\* A step that leaves the chains alone is none of the promise.
LEMMA PromiseStutters ==
    ASSUME NEW ch, Shape(ch), Shape(ch)', UNCHANGED <<next, data, _head, made, taken>>,
           Unlinked' = Unlinked, \A p \in Unlinked : my'[p] = my[p]
    PROVE  UNCHANGED Promise!vars
<1>1. /\ Line = Tail(ValuesOn(ch, _head.node))
      /\ Waiting = [p \in Producers |-> IF p \in Unlinked THEN ValuesOn(ch, my[p]) ELSE <<>>]
  BY ToldNow DEF Told
<1>2. /\ Line' = Tail(ValuesOn(ch, _head.node))'
      /\ Waiting' = [p \in Producers |-> IF p \in Unlinked THEN ValuesOn(ch, my[p]) ELSE <<>>]'
  BY ToldNext DEF Told
<1>3. Tail(ValuesOn(ch, _head.node))' = Tail(ValuesOn(ch, _head.node))
  BY DEF ValuesOn
<1>4. \A p \in Unlinked : ValuesOn(ch, my[p])' = ValuesOn(ch, my[p])
  BY DEF ValuesOn
<1>5. Line' = Line
  BY <1>1, <1>2, <1>3
<1>6. Waiting' = Waiting
  BY <1>1, <1>2, <1>4
<1>7. QED
  BY <1>5, <1>6 DEF Promise!vars

\* Enqueue takes a node: its value waits alone.
LEMMA PromiseTakes ==
    ASSUME NEW ch, Shape(ch), NEW p \in Producers, EnqAlloc(p)
    PROVE  Promise!Next
<1>1. Typed /\ Filled /\ Chained(ch) /\ p \in Threads
  BY DEF Shape, Threads
<1>2. PICK ch2 \in [Nodes -> Seq(Nodes)] :
        /\ Shape(ch2)'
        /\ my'[p] \in Nodes \ Chains(ch)
        /\ ch2 = [ch EXCEPT ![my'[p]] = <<my'[p]>>]
  BY EnqAllocStep
<1> DEFINE n == my'[p]
<1>3. /\ data' = [data EXCEPT ![n] = made + 1] /\ \A q \in Producers \ {p} : my'[q] = my[q]
      /\ pc[p] = "idle" /\ pc' = [pc EXCEPT ![p] = "e_tail"]
      /\ _head' = _head /\ taken' = taken /\ made' = made + 1
  BY <1>1 DEF EnqAlloc, Goto, Typed
<1>4. /\ p \notin Unlinked /\ Unlinked' = Unlinked \cup {p}
      /\ \A q \in Unlinked : q # p /\ my'[q] = my[q]
  BY <1>1, <1>3 DEF Unlinked, Typed, Threads
<1>5. ASSUME NEW a \in Anchors
      PROVE  /\ ch2[a] = ch[a]
             /\ \A i \in 1 .. Len(ch[a]) : data'[ch[a][i]] = data[ch[a][i]]
  <2>1. a \in Nodes /\ a # n
    BY <1>1, <1>2, ChainTypes
  <2>2. ch2[a] = ch[a]
    BY <1>1, <1>2, <2>1 DEF Chained
  <2>3. \A i \in 1 .. Len(ch[a]) : ch[a][i] \in Nodes \ {n}
    BY <1>1, <1>2, ChainTypes DEF On
  <2>4. QED
    BY <1>1, <1>3, <2>2, <2>3 DEF Typed
<1>6. ch2[n] = <<n>> /\ data'[n] = made + 1
  BY <1>1, <1>2, <1>3 DEF Chained, Typed
<1>7. /\ Line = Tail(ValuesOn(ch, _head.node))
      /\ Waiting = [q \in Producers |-> IF q \in Unlinked THEN ValuesOn(ch, my[q]) ELSE <<>>]
  BY ToldNow DEF Told
<1>8. /\ Line' = Tail(ValuesOn(ch2, _head.node))'
      /\ Waiting' = [q \in Producers |-> IF q \in Unlinked THEN ValuesOn(ch2, my[q]) ELSE <<>>]'
  BY <1>2, ToldNext DEF Told
<1>9. Tail(ValuesOn(ch2, _head.node))' = Tail(ValuesOn(ch, _head.node))
  <2>1. _head.node \in Anchors
    BY DEF Anchors
  <2>2. _head' = _head
    BY <1>3
  <2>3. ValuesOn(ch2, _head.node)' = ValuesOn(ch, _head.node)
    BY <1>5, <2>1, <2>2 DEF ValuesOn
  <2>4. QED
    BY <2>3
<1>10. \A q \in Unlinked : ValuesOn(ch2, my[q])' = ValuesOn(ch, my[q])
  BY <1>4, <1>5 DEF ValuesOn, Anchors
<1>11. ValuesOn(ch2, my[p])' = <<made + 1>>
  BY <1>6 DEF ValuesOn
<1>12. Line' = Line
  BY <1>7, <1>8, <1>9
<1>13. Waiting' = [Waiting EXCEPT ![p] = <<made + 1>>] /\ Waiting[p] = <<>>
  BY <1>4, <1>7, <1>8, <1>10, <1>11
<1>14. Promise!Take(p)
  BY <1>3, <1>12, <1>13 DEF Promise!Take
<1>15. QED
  BY <1>3, <1>14 DEF Promise!Next

\* The values on some nodes.
LEMMA ValuesTypes ==
    ASSUME NEW s \in Seq(Nodes)
    PROVE  /\ [i \in 1 .. Len(s) |-> data[s[i]]] \in Seq({data[n] : n \in Nodes})
           /\ Len([i \in 1 .. Len(s) |-> data[s[i]]]) = Len(s)
<1>1. PICK l \in Nat : l = Len(s)
  OBVIOUS
<1>2. \A i \in 1 .. l : data[s[i]] \in {data[n] : n \in Nodes}
  BY <1>1
<1>3. QED
  BY <1>1, <1>2

\* Two sequences, one behind the other.
LEMMA Concatenated ==
    ASSUME NEW D, NEW f \in Seq(D), NEW g \in Seq(D)
    PROVE  f \o g = [i \in 1 .. Len(f) + Len(g) |-> IF i <= Len(f) THEN f[i] ELSE g[i - Len(f)]]
<1>1. /\ f \o g \in Seq(D) /\ Len(f \o g) = Len(f) + Len(g)
      /\ \A i \in 1 .. Len(f) : (f \o g)[i] = f[i]
      /\ \A i \in 1 .. Len(g) : (f \o g)[Len(f) + i] = g[i]
  OBVIOUS
<1>2. f \o g = [i \in 1 .. Len(f \o g) |-> (f \o g)[i]]
  <2>1. PICK h \in Seq(D) : h = f \o g
    BY <1>1
  <2>2. h = [i \in 1 .. Len(h) |-> h[i]]
    OBVIOUS
  <2>3. QED
    BY <2>1, <2>2
<1>3. ASSUME NEW i \in 1 .. Len(f) + Len(g)
      PROVE  (f \o g)[i] = IF i <= Len(f) THEN f[i] ELSE g[i - Len(f)]
  <2>1. i <= Len(f) => i \in 1 .. Len(f)
    BY <1>3
  <2>2. ~(i <= Len(f)) => i - Len(f) \in 1 .. Len(g) /\ Len(f) + (i - Len(f)) = i
    BY <1>3
  <2>3. QED
    BY <1>1, <2>1, <2>2
<1>4. QED
  BY <1>1, <1>2, <1>3

\* Two chains become one.
LEMMA JoinedValues ==
    ASSUME NEW s \in Seq(Nodes), NEW t \in Seq(Nodes)
    PROVE  [i \in 1 .. Len(s \o t) |-> data[(s \o t)[i]]]
             = [i \in 1 .. Len(s) |-> data[s[i]]] \o [i \in 1 .. Len(t) |-> data[t[i]]]
<1> DEFINE f == [i \in 1 .. Len(s) |-> data[s[i]]]
           g == [i \in 1 .. Len(t) |-> data[t[i]]]
           h == [i \in 1 .. Len(s \o t) |-> data[(s \o t)[i]]]
           D == {data[n] : n \in Nodes}
<1>1. PICK l \in Nat, m \in Nat : l = Len(s) /\ m = Len(t)
  OBVIOUS
<1>3. f = [i \in 1 .. l |-> data[s[i]]] /\ g = [i \in 1 .. m |-> data[t[i]]]
  BY <1>1
<1>4. f \in Seq(D) /\ Len(f) = l /\ g \in Seq(D) /\ Len(g) = m
  BY <1>1, ValuesTypes
<1>5. /\ Len(s \o t) = l + m
      /\ \A i \in 1 .. l + m : (s \o t)[i] = IF i <= l THEN s[i] ELSE t[i - l]
  BY <1>1
<1>6. f \o g = [i \in 1 .. l + m |-> IF i <= l THEN f[i] ELSE g[i - l]]
  <2> HIDE DEF f, g, D
  <2>1. f \o g = [i \in 1 .. Len(f) + Len(g) |-> IF i <= Len(f) THEN f[i] ELSE g[i - Len(f)]]
    BY <1>4, Concatenated
  <2>2. QED
    BY <1>4, <2>1
<1>7. ASSUME NEW i \in 1 .. l + m PROVE h[i] = (f \o g)[i]
  <2>1. CASE i <= l
    <3>1. i \in 1 .. l
      BY <1>1, <1>7, <2>1
    <3>2. f[i] = data[s[i]] /\ h[i] = data[s[i]]
      BY <1>3, <1>5, <1>7, <2>1, <3>1
    <3>3. QED
      BY <1>6, <1>7, <2>1, <3>2
  <2>2. CASE ~(i <= l)
    <3>1. i - l \in 1 .. m
      BY <1>1, <1>7, <2>2
    <3>2. g[i - l] = data[t[i - l]] /\ h[i] = data[t[i - l]]
      BY <1>3, <1>5, <1>7, <2>2, <3>1
    <3>3. QED
      BY <1>6, <1>7, <2>2, <3>2
  <2>3. QED
    BY <2>1, <2>2
<1>8. h = [i \in 1 .. l + m |-> h[i]]
  BY <1>5
<1> HIDE DEF f, g, h
<1>9. f \o g = [i \in 1 .. l + m |-> (f \o g)[i]]
  BY <1>6
<1>10. h = f \o g
  BY <1>7, <1>8, <1>9
<1>11. QED
  BY <1>10 DEF f, g, h

\* Enqueue links its node: behind the last of the list, or behind the last of the chain
\* of an enqueuer that took its node later.
LEMMA PromiseLinks ==
    ASSUME NEW ch, Shape(ch), NEW p \in Producers, EnqLink(p), next[old[p].node] = Null
    PROVE  Promise!Next
<1>1. Typed /\ Filled /\ Chained(ch) /\ p \in Threads /\ pc[p] = "e_link"
  BY DEF Shape, Threads, EnqLink
<1> DEFINE m == my[p]
           D == {data[n] : n \in Nodes}
<1>2. PICK ch2 \in [Nodes -> Seq(Nodes)], a \in Anchors \ {m} :
        Shape(ch2)' /\ old[p].node \in On(ch, a) /\ ch2 = [ch EXCEPT ![a] = ch[a] \o ch[m]]
  BY EnqLinkStep
<1>3. /\ p \in Unlinked /\ m \in Anchors /\ m # _head.node
      /\ \A q \in Unlinked : my[q] \in Anchors /\ my[q] # _head.node /\ (q # p => my[q] # m)
      /\ _head.node \in Anchors
  BY <1>1 DEF Unlinked, Anchors, Chained
<1>4. /\ pc' = [pc EXCEPT ![p] = "e_swing"] /\ Unlinked' = Unlinked \ {p}
      /\ UNCHANGED <<data, _head, my, made, taken>>
  BY <1>1 DEF EnqLink, Goto, local, Unlinked, Typed, Threads
<1>5. /\ ch2[a] = ch[a] \o ch[m] /\ \A b \in Anchors \ {a} : ch2[b] = ch[b]
      /\ ch[a] \in Seq(Nodes) /\ ch[m] \in Seq(Nodes)
      /\ Len(ch[a]) \in Nat \ {0} /\ Len(ch[m]) \in Nat \ {0} /\ ch[a][1] = a /\ ch[m][1] = m
  BY <1>1, <1>2, <1>3, ChainTypes DEF Chained
<1>6. /\ ValuesOn(ch2, a) = ValuesOn(ch, a) \o ValuesOn(ch, m)
      /\ \A b \in Anchors \ {a} : ValuesOn(ch2, b) = ValuesOn(ch, b)
  <2>1. ValuesOn(ch2, a) = ValuesOn(ch, a) \o ValuesOn(ch, m)
    <3>1. PICK s \in Seq(Nodes), t \in Seq(Nodes) : s = ch[a] /\ t = ch[m]
      BY <1>5
    <3>2. [i \in 1 .. Len(s \o t) |-> data[(s \o t)[i]]]
            = [i \in 1 .. Len(s) |-> data[s[i]]] \o [i \in 1 .. Len(t) |-> data[t[i]]]
      BY JoinedValues
    <3>3. QED
      BY <1>5, <3>1, <3>2 DEF ValuesOn
  <2>2. QED
    BY <1>5, <2>1 DEF ValuesOn
<1>7. /\ Line = Tail(ValuesOn(ch, _head.node))
      /\ Waiting = [q \in Producers |-> IF q \in Unlinked THEN ValuesOn(ch, my[q]) ELSE <<>>]
  BY ToldNow DEF Told
<1>8. /\ Line' = Tail(ValuesOn(ch2, _head.node))
      /\ Waiting' = [q \in Producers |-> IF q \in Unlinked \ {p} THEN ValuesOn(ch2, my[q])
                                                                ELSE <<>>]
  <2>1. /\ Line' = Tail(ValuesOn(ch2, _head.node))'
        /\ Waiting' = [q \in Producers |-> IF q \in Unlinked THEN ValuesOn(ch2, my[q]) ELSE <<>>]'
    BY <1>2, ToldNext DEF Told
  <2>2. ValuesOn(ch2, _head.node)' = ValuesOn(ch2, _head.node)
    BY <1>4 DEF ValuesOn
  <2>3. \A q \in Producers : ValuesOn(ch2, my[q])' = ValuesOn(ch2, my[q])
    BY <1>4 DEF ValuesOn
  <2>4. Line' = Tail(ValuesOn(ch2, _head.node))
    BY <2>1, <2>2
  <2>5. QED
    BY <1>4, <2>1, <2>3, <2>4
<1>9. /\ ValuesOn(ch, a) \in Seq(D) /\ Len(ValuesOn(ch, a)) = Len(ch[a])
      /\ ValuesOn(ch, m) \in Seq(D) /\ Len(ValuesOn(ch, m)) = Len(ch[m])
      /\ ValuesOn(ch, a)[1] = data[a] /\ ValuesOn(ch, m)[1] = data[m]
  <2>1. /\ ValuesOn(ch, a) \in Seq(D) /\ Len(ValuesOn(ch, a)) = Len(ch[a])
        /\ ValuesOn(ch, m) \in Seq(D) /\ Len(ValuesOn(ch, m)) = Len(ch[m])
    BY <1>5, ValuesTypes DEF ValuesOn
  <2>2. 1 \in 1 .. Len(ch[a]) /\ 1 \in 1 .. Len(ch[m])
    BY <1>5
  <2>3. ValuesOn(ch, a)[1] = data[a] /\ ValuesOn(ch, m)[1] = data[m]
    BY <1>5, <2>2 DEF ValuesOn
  <2>4. QED
    BY <2>1, <2>3
<1>10. ValuesOn(ch, a) # <<>> /\ ValuesOn(ch, m) # <<>>
       /\ Head(ValuesOn(ch, a)) = data[a] /\ Head(ValuesOn(ch, m)) = data[m]
  <2>1. PICK s \in Seq(D), t \in Seq(D) : s = ValuesOn(ch, a) /\ t = ValuesOn(ch, m)
    BY <1>9
  <2>2. Len(s) > 0 /\ Len(t) > 0 /\ s[1] = data[a] /\ t[1] = data[m]
    BY <1>5, <1>9, <2>1
  <2>3. QED
    BY <2>1, <2>2
<1>11. CASE a = _head.node
  <2>1. Line' = Line \o Waiting[p]
    <3>1. PICK s \in Seq(D), t \in Seq(D) : s = ValuesOn(ch, a) /\ t = ValuesOn(ch, m)
      BY <1>9
    <3>2. Tail(s \o t) = Tail(s) \o t
      <4>1. s # <<>>
        BY <1>10, <3>1
      <4>2. QED
        BY <4>1
    <3>3. Line = Tail(s) /\ Waiting[p] = t /\ Line' = Tail(s \o t)
      BY <1>3, <1>6, <1>7, <1>8, <1>11, <3>1
    <3>4. QED
      BY <3>2, <3>3
  <2>2. Waiting' = [Waiting EXCEPT ![p] = <<>>]
    <3>1. \A q \in Unlinked : ValuesOn(ch2, my[q]) = ValuesOn(ch, my[q])
      BY <1>3, <1>6, <1>11
    <3>2. QED
      BY <1>7, <1>8, <3>1
  <2>3. Waiting[p] # <<>>
    BY <1>3, <1>7, <1>10
  <2>4. Promise!LinkLast(p)
    BY <1>4, <2>1, <2>2, <2>3 DEF Promise!LinkLast
  <2>5. QED
    BY <1>4, <2>4 DEF Promise!Next
<1>12. CASE a # _head.node
  <2>1. PICK q \in Unlinked : a = my[q] /\ q # p /\ q \in Producers
    BY <1>2, <1>12 DEF Anchors, Unlinked
  <2>2. Line' = Line
    BY <1>3, <1>6, <1>7, <1>8, <1>12
  <2>3. /\ Waiting[p] = ValuesOn(ch, m) /\ Waiting[q] = ValuesOn(ch, a)
        /\ Waiting[p] # <<>> /\ Waiting[q] # <<>>
    BY <1>3, <1>7, <1>10, <2>1
  <2>4. Head(Waiting[p]) < Head(Waiting[q])
    <3>1. Enqueues(ch, p)
      BY DEF Shape
    <3>2. data[m] < data[a]
      BY <1>1, <1>2, <2>1, <3>1 DEF Enqueues, Linking
    <3>3. QED
      BY <1>10, <2>3, <3>2
  <2>5. Waiting' = [Waiting EXCEPT ![q] = @ \o Waiting[p], ![p] = <<>>]
    <3>1. \A r \in Unlinked \ {p, q} : ValuesOn(ch2, my[r]) = ValuesOn(ch, my[r])
      <4>1. \A r \in Unlinked \ {p, q} : my[r] \in Anchors /\ my[r] # a
        BY <1>1, <1>3, <2>1 DEF Chained
      <4>2. QED
        BY <1>6, <4>1
    <3>2. ValuesOn(ch2, my[q]) = Waiting[q] \o Waiting[p]
      BY <1>6, <2>1, <2>3
    <3>3. QED
      BY <1>7, <1>8, <2>1, <3>1, <3>2
  <2>6. Promise!LinkBehind(p, q)
    BY <1>4, <2>2, <2>3, <2>4, <2>5 DEF Promise!LinkBehind
  <2>7. QED
    BY <1>4, <2>1, <2>6 DEF Promise!Next
<1>13. QED
  BY <1>11, <1>12

\* Dequeue moves the head on: the first value of the list leaves it.
LEMMA PromiseRemoves ==
    ASSUME NEW ch, Shape(ch), NEW c \in Consumers, DeqCas(c), _head = old[c]
    PROVE  Promise!Next
<1>1. Typed /\ Filled /\ Chained(ch) /\ c \in Threads /\ c \notin Producers /\ pc[c] = "d_cas"
  BY Disjoint DEF Shape, Threads, DeqCas
<1> DEFINE n == nx[c]
           h == _head.node
           D == {data[x] : x \in Nodes}
<1>2. PICK ch2 \in [Nodes -> Seq(Nodes)] :
        /\ Shape(ch2)'
        /\ n \in Nodes \ Anchors /\ val[c] = data[n] /\ Len(ch[h]) > 1 /\ n = ch[h][2]
        /\ ch2 = [ch EXCEPT ![n] = Tail(ch[h])]
  BY DeqCasStep
<1>3. /\ _head' = [node |-> n, tag |-> _head.tag + 1] /\ taken' = taken \cup {data[n]}
      /\ pc' = [pc EXCEPT ![c] = "d_count"] /\ Unlinked' = Unlinked
      /\ UNCHANGED <<data, my, made>>
  BY <1>1, <1>2 DEF DeqCas, Goto, Moved, local, Unlinked, Typed, Threads
<1>4. /\ ch[h] \in Seq(Nodes) /\ h \in Anchors /\ ch2[n] = Tail(ch[h])
      /\ \A q \in Unlinked : ch2[my[q]] = ch[my[q]]
  <2>1. \A q \in Unlinked : my[q] \in Anchors /\ my[q] \in Nodes /\ my[q] # n
    BY <1>1, <1>2, ChainTypes DEF Anchors
  <2>2. h \in Anchors
    BY DEF Anchors
  <2>3. ch[h] \in Seq(Nodes)
    BY <1>1, <2>2, ChainTypes
  <2>4. QED
    BY <1>1, <1>2, <2>1, <2>2, <2>3 DEF Chained
<1>5. /\ Line = Tail(ValuesOn(ch, h))
      /\ Waiting = [q \in Producers |-> IF q \in Unlinked THEN ValuesOn(ch, my[q]) ELSE <<>>]
  BY ToldNow DEF Told
<1>6. /\ Line' = Tail(ValuesOn(ch2, n))
      /\ Waiting' = [q \in Producers |-> IF q \in Unlinked THEN ValuesOn(ch2, my[q]) ELSE <<>>]
  <2>1. /\ Line' = Tail(ValuesOn(ch2, _head.node))'
        /\ Waiting' = [q \in Producers |-> IF q \in Unlinked THEN ValuesOn(ch2, my[q]) ELSE <<>>]'
    BY <1>2, ToldNext DEF Told
  <2>2. _head'.node = n
    BY <1>3
  <2>3. ValuesOn(ch2, _head.node)' = ValuesOn(ch2, n)
    BY <1>3, <2>2 DEF ValuesOn
  <2>4. \A q \in Producers : ValuesOn(ch2, my[q])' = ValuesOn(ch2, my[q])
    BY <1>3 DEF ValuesOn
  <2>5. Line' = Tail(ValuesOn(ch2, n))
    BY <2>1, <2>3
  <2>6. QED
    BY <1>3, <2>1, <2>4, <2>5
<1>7. PICK s \in Seq(Nodes) : s = ch[h] /\ Len(s) > 1 /\ s[2] = n
  BY <1>2, <1>4
<1> DEFINE f == [i \in 1 .. Len(s) |-> data[s[i]]]
<1>8. f \in Seq(D) /\ Len(f) = Len(s) /\ ValuesOn(ch, h) = f /\ f[2] = data[n]
  <2>1. 2 \in 1 .. Len(s)
    BY <1>7
  <2>2. f[2] = data[n]
    BY <1>7, <2>1
  <2>3. QED
    BY <1>7, <2>2, ValuesTypes DEF ValuesOn
<1>9. ValuesOn(ch2, n) = Tail(f)
  <2>1. PICK l \in Nat : Len(s) = l + 1
    <3>1. Len(s) - 1 \in Nat /\ Len(s) = (Len(s) - 1) + 1
      BY <1>7
    <3>2. QED
      BY <3>1
  <2>2. Len(Tail(s)) = l /\ \A i \in 1 .. l : Tail(s)[i] = s[i + 1]
    BY <1>7, <2>1
  <2>3. \A i \in 1 .. l : i + 1 \in 1 .. Len(s)
    BY <2>1
  <2>4. \A i \in 1 .. l : f[i + 1] = data[s[i + 1]]
    BY <2>3
  <2>5. Tail(f) = [i \in 1 .. l |-> f[i + 1]]
    <3> HIDE DEF f, D
    <3>1. Len(f) = l + 1 /\ f # <<>>
      BY <1>8, <2>1
    <3>2. Len(Tail(f)) = l /\ Tail(f) \in Seq(D) /\ \A i \in 1 .. l : Tail(f)[i] = f[i + 1]
      BY <1>8, <3>1
    <3>3. PICK t \in Seq(D) : t = Tail(f)
      BY <3>2
    <3>4. t = [i \in 1 .. Len(t) |-> t[i]]
      OBVIOUS
    <3>5. QED
      BY <3>2, <3>3, <3>4
  <2>6. ValuesOn(ch2, n) = [i \in 1 .. l |-> data[s[i + 1]]]
    BY <1>4, <1>7, <2>2 DEF ValuesOn
  <2>7. QED
    BY <2>4, <2>5, <2>6
<1> HIDE DEF f, D
<1>10. Line # <<>> /\ Head(Line) = data[n] /\ Line' = Tail(Line)
  <2>1. Line = Tail(f) /\ Line' = Tail(Tail(f))
    BY <1>5, <1>6, <1>8, <1>9
  <2>2. Len(Tail(f)) > 0 /\ Tail(f) \in Seq(D) /\ Tail(f)[1] = f[2]
    <3>1. Len(f) \in Nat /\ Len(f) > 1
      BY <1>7, <1>8
    <3>2. Tail(f) \in Seq(D) /\ Len(Tail(f)) = Len(f) - 1
      BY <1>8, <3>1
    <3>3. 1 \in 1 .. Len(f) - 1 /\ 1 + 1 = 2
      BY <3>1
    <3>4. Tail(f)[1] = f[1 + 1]
      BY <1>8, <3>1, <3>3
    <3>5. QED
      BY <3>1, <3>2, <3>3, <3>4
  <2>3. PICK t \in Seq(D) : t = Tail(f)
    BY <2>2
  <2>a. Len(t) > 0 /\ t[1] = data[n]
    BY <1>8, <2>2, <2>3
  <2>4. t # <<>> /\ Head(t) = t[1]
    BY <2>a
  <2>5. QED
    BY <1>8, <2>1, <2>2, <2>3, <2>4
<1>11. Waiting' = Waiting
  <2>1. \A q \in Unlinked : ValuesOn(ch2, my[q]) = ValuesOn(ch, my[q])
    BY <1>4 DEF ValuesOn
  <2>2. QED
    BY <1>5, <1>6, <2>1
<1>12. QED
  BY <1>3, <1>10, <1>11 DEF Promise!Next, Promise!Remove

\* Every step of an enqueuer is one of the promise, or none.
LEMMA PromiseProduces ==
    ASSUME NEW ch, Shape(ch), NEW p \in Producers, Produce(p)
    PROVE  [Promise!Next]_(Promise!vars)
<1> USE DEF Enqueuing, Aiming, Linking, Dequeuing, Knowing, Unfreeing
<1>1. CASE EnqAlloc(p)
  BY <1>1, PromiseTakes
<1>2. CASE EnqLink(p) /\ next[old[p].node] = Null
  BY <1>2, PromiseLinks
<1>3. CASE \/ PostLog(p) \/ EnqCount(p) \/ EnqTail(p) \/ EnqNext(p) \/ EnqHelp(p) \/ EnqSwing(p)
           \/ EnqLink(p) /\ next[old[p].node] # Null
  <2>1. Shape(ch)'
    BY <1>3, EnqCountStep, EnqTailStep, EnqNextStep, EnqHelpStep, EnqSwingStep, EnqRetryStep
  <2>2. UNCHANGED <<next, data, _head, made, taken>>
    BY <1>3 DEF PostLog, EnqCount, EnqTail, EnqNext, EnqHelp, EnqSwing, EnqLink, queue
  <2>3. Typed /\ p \in Threads
    BY DEF Shape, Threads
  <2>4. \A q \in Producers : q # p => pc'[q] = pc[q] /\ my'[q] = my[q]
    BY <1>3, <2>3 DEF PostLog, EnqCount, EnqTail, EnqNext, EnqHelp, EnqSwing, EnqLink, queue, local,
                      Goto, Typed, Threads
  <2>5. /\ pc[p] \in {"e_tail", "e_next", "e_link", "e_help"} => my'[p] = my[p]
        /\ pc'[p] \in {"e_tail", "e_next", "e_link", "e_help"}
             <=> pc[p] \in {"e_tail", "e_next", "e_link", "e_help"}
    BY <1>3, <2>3 DEF PostLog, EnqCount, EnqTail, EnqNext, EnqHelp, EnqSwing, EnqLink, queue, local,
                      Goto, Typed
  <2>6. Unlinked' = Unlinked /\ \A q \in Unlinked : my'[q] = my[q]
    BY <2>4, <2>5 DEF Unlinked
  <2>7. QED
    BY <2>1, <2>2, <2>6, PromiseStutters
<1>4. QED
  BY <1>1, <1>2, <1>3 DEF Produce

\* Every step of a consumer is one of the promise, or none.
LEMMA PromiseConsumes ==
    ASSUME NEW ch, Shape(ch), NEW c \in Consumers, Consume(c)
    PROVE  [Promise!Next]_(Promise!vars)
<1>1. CASE DeqCas(c) /\ _head = old[c]
  BY <1>1, PromiseRemoves
<1>2. CASE \/ Outside(c) \/ DeqHead(c) \/ DeqNext(c) \/ DeqTail(c) \/ DeqData(c) \/ DeqCount(c)
           \/ DeqFree(c)
           \/ DeqCas(c) /\ _head # old[c]
  <2>1. Shape(ch)'
    BY <1>2, OutsideStep, DeqHeadStep, DeqNextStep, DeqTailStep, DeqDataStep, DeqCountStep,
       DeqFreeStep, DeqRetryStep
  <2>2. UNCHANGED <<next, data, _head, my, made, taken>>
    <3>1. CASE Outside(c)
      BY <3>1 DEF Outside, DeqSize, WriteLog, SendPost, Front, BufferFull, WsaSend, queue, local
    <3>2. CASE ~Outside(c)
      BY <1>2, <3>2 DEF DeqHead, DeqNext, DeqTail, DeqData, DeqCount, DeqFree, DeqCas, queue, local
    <3>3. QED
      BY <3>1, <3>2
  <2>3. Typed /\ c \in Threads /\ c \notin Producers
    BY Disjoint DEF Shape, Threads
  <2>4. PICK l : pc' = [pc EXCEPT ![c] = l]
    <3>1. CASE Outside(c)
      BY <3>1 DEF Outside, DeqSize, WriteLog, SendPost, Front, BufferFull, WsaSend, Again, Goto
    <3>2. CASE ~Outside(c)
      BY <1>2, <3>2 DEF DeqHead, DeqNext, DeqTail, DeqData, DeqCount, DeqFree, DeqCas, Again, Goto
    <3>3. QED
      BY <3>1, <3>2
  <2>5. \A p \in Producers : pc'[p] = pc[p]
    BY <2>3, <2>4 DEF Typed, Threads
  <2>6. Unlinked' = Unlinked
    BY <2>5 DEF Unlinked
  <2>7. QED
    BY <2>1, <2>2, <2>6, PromiseStutters
<1>3. \/ DeqCas(c) /\ _head = old[c]
      \/ DeqCas(c) /\ _head # old[c]
      \/ Outside(c) \/ DeqHead(c) \/ DeqNext(c) \/ DeqTail(c) \/ DeqData(c) \/ DeqCount(c)
      \/ DeqFree(c)
  BY DEF Consume, Dequeue, Outside
<1>4. QED
  BY <1>1, <1>2, <1>3

\* A list of the dummy alone holds nothing.
LEMMA NothingBehind == ASSUME NEW v PROVE Tail(<<v>>) = <<>>
<1>1. <<v>> \in Seq({v}) /\ Len(<<v>>) = 1
  OBVIOUS
<1>2. Tail(<<v>>) \in Seq({v}) /\ Len(Tail(<<v>>)) = 0
  BY <1>1
<1>3. PICK t \in Seq({v}) : t = Tail(<<v>>)
  BY <1>2
<1>4. QED
  BY <1>2, <1>3, EmptySeq

\* The queue keeps its promise: a value comes into the list once, behind what is in it,
\* and Dequeue takes the first of the list, however nodes are recycled meanwhile.
THEOREM PromiseKept == Spec => ImplementsPacketQueue
<1>1. Init => Promise!Init
  <2> SUFFICES ASSUME Init PROVE Promise!Init
    OBVIOUS
  <2>1. PICK ch : Shape(ch)
    BY InitIInv DEF IInv
  <2>2. Typed /\ Filled /\ Chained(ch) /\ _head.node = 1 /\ next[1] = Null /\ Unlinked = {}
    BY <2>1, BoundsAssumption DEF Shape, Init, Nodes, Unlinked, Threads
  <2>3. Len(ch[1]) = 1
    <3>1. 1 \in Anchors
      BY <2>2 DEF Anchors
    <3>2. /\ Len(ch[1]) \in Nat \ {0} /\ ch[1][1] = 1
          /\ \A i \in 1 .. Len(ch[1]) : ch[1][i] \in Nodes
      <4>1. ch[1][1] = 1
        BY <2>2, <3>1 DEF Chained
      <4>2. QED
        BY <2>2, <3>1, <4>1, ChainTypes
    <3>3. 1 \in 1 .. Len(ch[1])
      BY <3>2
    <3>4. next[ch[1][1]] = IF 1 < Len(ch[1]) THEN ch[1][1 + 1] ELSE Null
      BY <2>2, <3>1, <3>3, ChainLinks
    <3>5. PICK l \in Nat \ {0} : l = Len(ch[1])
      BY <3>2
    <3>6. ASSUME l # 1 PROVE FALSE
      <4>1. 1 < l /\ 1 + 1 \in 1 .. l
        BY <3>6
      <4>2. next[1] = ch[1][1 + 1] /\ ch[1][1 + 1] \in Nodes
        BY <3>2, <3>4, <3>5, <4>1
      <4>3. next[1] = Null /\ Null \notin Nodes
        BY <2>2 DEF Null, Nodes
      <4>4. QED
        BY <4>2, <4>3
    <3>7. QED
      BY <3>5, <3>6
  <2>4. /\ Line = Tail(ValuesOn(ch, 1))
        /\ Waiting = [p \in Producers |-> IF p \in Unlinked THEN ValuesOn(ch, my[p]) ELSE <<>>]
    BY <2>1, <2>2, ToldNow DEF Told
  <2>5. Line = <<>>
    <3>1. ValuesOn(ch, 1) = <<data[ch[1][1]]>>
      <4>1. ValuesOn(ch, 1) = [i \in 1 .. 1 |-> data[ch[1][i]]]
        BY <2>3 DEF ValuesOn
      <4>2. [i \in 1 .. 1 |-> data[ch[1][i]]] = <<data[ch[1][1]]>>
        OBVIOUS
      <4>3. QED
        BY <4>1, <4>2
    <3>2. QED
      BY <2>4, <3>1, NothingBehind
  <2>6. Waiting = [p \in Producers |-> <<>>]
    BY <2>2, <2>4
  <2>7. QED
    BY <2>5, <2>6 DEF Promise!Init, Init
<1>2. IInv /\ [Next]_vars => [Promise!Next]_(Promise!vars)
  <2> SUFFICES ASSUME IInv, [Next]_vars PROVE [Promise!Next]_(Promise!vars)
    OBVIOUS
  <2>1. PICK ch : Shape(ch)
    BY DEF IInv
  <2>2. CASE \E p \in Producers : Produce(p)
    BY <2>1, <2>2, PromiseProduces
  <2>3. CASE \E c \in Consumers : Consume(c)
    BY <2>1, <2>3, PromiseConsumes
  <2>4. CASE UNCHANGED vars
    <3>1. UNCHANGED Promise!vars
      BY <2>4 DEF vars, queue, local, Promise!vars, Line, Waiting, ValuesFrom, Behind, Unlinked
    <3>2. QED
      BY <3>1
  <2>5. QED
    BY <2>2, <2>3, <2>4 DEF Next
<1>3. QED
  BY <1>1, <1>2, IInvCorrect, PTL DEF Spec, ImplementsPacketQueue, Promise!Spec
=============================================================================
