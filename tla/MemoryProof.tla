---------------------------- MODULE MemoryProof ----------------------------
(***************************************************************************)
(* The lock-free stack and its users, proved for any number of threads,    *)
(* nodes, slots, objects and buffers: the stack is an atomic stack, and    *)
(* every free slot of CNetServer, every object of MemoryPoolTls and every  *)
(* buffer of BufferAllocator is in one place.                              *)
(*                                                                         *)
(* The stack.  Top and links are two chains, the stack and the pool of its *)
(* nodes (Chained), and a node is on one of them or in one thread's hands  *)
(* (NodesApart).  A thread between its read and its compare-exchange       *)
(* remembers links of nodes that others recycle; what it remembers is true *)
(* for as long as the tag it read is the tag of the top (Recalls), and the *)
(* tag grows with every exchange, so a compare-exchange that succeeds      *)
(* installs a true link.  Each Push and each Pop then happens at its own   *)
(* compare-exchange (StackEffect), which is the refinement, and a value    *)
(* that is pushed once is on the stack, or in one hand, once.              *)
(*                                                                         *)
(* The objects.  What the pool keeps in a chunk is a list of a length its  *)
(* counters know (Lists), the chunks of the stack and of the threads'      *)
(* calls are different ones (ValuesApart, Calls), and the places an object *)
(* can be in are disjoint and hold all of them (Located).  A step of a     *)
(* thread moves objects between the places near it and leaves every other  *)
(* place as it was (Relocates), which is all Located needs (Reassembled).  *)
(* ObjectsInOnePlace counts places where Located compares them: sizes of   *)
(* disjoint parts add up to the size of their union (SumOfParts).          *)
(*                                                                         *)
(* The buffers of the RingBuffers.  The maps of BufferAllocator count what *)
(* there is (Mapped), every buffer has its page and every page its region  *)
(* (Held), the buffers of a region lie in the order they were allocated    *)
(* (Ascending), and a pointer that goes on in a region is behind           *)
(* everything there, alone (Frontier).  A Free keeps the last because the  *)
(* pointers into the page it decommits are moved behind it                 *)
(* (fixDecommittedAddr), and because that page is never the first of a     *)
(* region with others left: a pointer at the end of the region before      *)
(* would be moved into this one.  This is why the order in which Stop      *)
(* destroys the sessions matters.                                          *)
(***************************************************************************)
EXTENDS Memory, FiniteSetTheorems, TLAPS
-----------------------------------------------------------------------------
(* The stack and the pool of its nodes *)

Pushing == {"poolAlloc", "poolAllocNext", "poolAllocSwap", "pushRead", "pushSwap"}
Popping == {"popRead", "popNext", "popSwap"}
Popped  == {"freeRead", "freeSwap", "popped"}
Labels  == Pushing \cup Popping \cup Popped \cup {"idle", "pushed", "empty"}

Pointers == [addr : Node \cup {Nil}, tag : Nat]
Links    == Node \cup {Nil, Junk}
Regs     == [old : Pointers, after : Links, node : Node \cup {Nil}, val : Int]

StackTyped ==
  /\ top \in Pointers /\ poolTop \in Pointers
  /\ next \in [Node -> Links] /\ poolNext \in [Node -> Links]
  /\ data \in [Node -> Int] /\ size \in Int /\ capacity \in 0..MaxNode
  /\ pc \in [Thread -> Labels] /\ reg \in [Thread -> Regs]

\* s are the nodes from n on along the links f, to the last one.
On(s)       == {s[i] : i \in 1..Len(s)}
Distinct(s) == \A i, j \in 1..Len(s) : s[i] = s[j] => i = j
Chain(f, n, s) ==
  /\ s \in Seq(Node) /\ Distinct(s)
  /\ n = IF Len(s) = 0 THEN Nil ELSE s[1]
  /\ \A i \in 1..Len(s) : f[s[i]] = IF i < Len(s) THEN s[i + 1] ELSE Nil

\* The nodes in the pool, and the threads that have one in their hands.
Pooled   == Walk(poolNext, poolTop.addr, MaxNode)
Carriers == {t \in Thread : pc[t] \in {"pushRead", "pushSwap", "freeRead", "freeSwap"}}

Chained == Chain(next, top.addr, Stacked) /\ Chain(poolNext, poolTop.addr, Pooled)

\* A node is on the stack, in the pool or with one thread, and has been allocated.
NodesApart ==
  /\ On(Stacked) \cap On(Pooled) = {}
  /\ On(Stacked) \cup On(Pooled) \subseteq 1..capacity
  /\ \A t \in Carriers : reg[t].node \in 1..capacity \ (On(Stacked) \cup On(Pooled))
  /\ \A t, u \in Carriers : reg[t].node = reg[u].node => t = u

\* What a thread has read of a top is older than the top or still true of it, and
\* the link of the node in its hands is the one it wrote.
Recalls(t) ==
  /\ pc[t] \in {"poolAllocNext", "poolAllocSwap"} =>
       reg[t].old.addr \in Node /\ reg[t].old.tag <= poolTop.tag
  /\ pc[t] = "poolAllocSwap" /\ reg[t].old = poolTop =>
       reg[t].after = poolNext[poolTop.addr]
  /\ pc[t] \in {"popNext", "popSwap"} =>
       reg[t].old.addr \in Node /\ reg[t].old.tag <= top.tag
  /\ pc[t] = "popSwap" /\ reg[t].old = top => reg[t].after = next[top.addr]
  /\ pc[t] = "pushSwap" => next[reg[t].node] = reg[t].old.addr
  /\ pc[t] = "freeSwap" => poolNext[reg[t].node] = reg[t].old.addr
  /\ pc[t] \in {"pushRead", "pushSwap"} => data[reg[t].node] = reg[t].val

StackInv == StackTyped /\ Chained /\ NodesApart /\ \A t \in Thread : Recalls(t)

\* The values on the stack, the top first.
Contents == [i \in DOMAIN Stacked |-> data[Stacked[i]]]

\* What a step of t inside Push or Pop does to the values: nothing, or the one
\* push or pop.
StackEffect(t) ==
  /\ \A u \in Thread \ {t} : pc'[u] = pc[u] /\ reg'[u] = reg[u]
  /\ \/ Contents' = Contents /\ pc[t] \in Popping /\ pc'[t] \in Popping
     \/ /\ Contents' = Contents /\ reg'[t].val = reg[t].val
        /\ \/ pc[t] \in Pushing /\ pc'[t] \in Pushing
           \/ pc[t] \in Popped /\ pc'[t] \in Popped
     \/ /\ pc[t] = "pushSwap" /\ pc'[t] = "pushed"
        /\ Contents' = <<reg[t].val>> \o Contents
     \/ /\ pc[t] \in Popping /\ pc'[t] = "freeRead" /\ Contents # <<>>
        /\ reg'[t].val = Head(Contents) /\ Contents' = Tail(Contents)
     \/ /\ pc[t] \in Popping /\ pc'[t] = "empty"
        /\ Contents = <<>> /\ Contents' = Contents

\* The threads with a value in their hands, pushing it or having popped it: a value
\* is with one of them or once on the stack.
Hands  == {t \in Thread : pc[t] \in Pushing \cup Popped}
Values == On(Contents) \cup {reg[t].val : t \in Hands}
ValuesApart ==
  /\ Distinct(Contents)
  /\ \A t \in Hands : reg[t].val \notin On(Contents)
  /\ \A t, u \in Hands : reg[t].val = reg[u].val => t = u

-----------------------------------------------------------------------------
(* The free slots *)

SlotsInv ==
  /\ open \subseteq Slot
  /\ \A w \in Workers : pc[w] \in Pushing \cup {"idle", "pushed"}
  /\ pc[Acceptor] \in Popping \cup Popped \cup {"idle", "empty"}
  /\ ValuesApart
  /\ Values = Slot \ open
-----------------------------------------------------------------------------
(* The objects *)

\* s are the k objects from o on along the links f.
Strand(f, o, k, s) ==
  /\ s \in Seq(Obj) /\ Distinct(s) /\ Len(s) = k
  /\ k # 0 => s[1] = o
  /\ \A i \in 1..(k - 1) : f[s[i]] = s[i + 1]

IsList(f, o, k)  == \E s : Strand(f, o, k, s)
Members(f, o, k) == {Walk(f, o, k)[i] : i \in DOMAIN Walk(f, o, k)}

\* The members of Places, and those the steps of thread t concern.
InUse        == [kind |-> "out"]
FreeingBy(t) == [kind |-> "freeing", of |-> t]
PoolOf(t)    == [kind |-> "pool", of |-> t]
ChunkOf(t)   == [kind |-> "chunk", of |-> t]
SharedAt(v)  == [kind |-> "shared", of |-> v]
Mine(t)      == {InUse, FreeingBy(t), PoolOf(t), ChunkOf(t)}

List == [top : Obj \cup {Nil, Junk}, size : 0..ChunkSize]
PoolTyped ==
  /\ attached \subseteq Thread
  /\ pool \in [Thread -> List] /\ chunk \in [Thread -> List]
  /\ link \in [Obj -> Obj \cup {Nil, Junk}]
  /\ allocSize \in Nat /\ allocSize <= MaxObj /\ useSize \in Int
  /\ out \subseteq Obj /\ freeing \in [Thread -> Obj \cup {Nil}]

\* What a thread has in its lists while it pops, pushes or has not begun.
Calls(t) ==
  /\ t \notin attached => pc[t] = "idle"
  /\ t \notin attached \/ pc[t] \in Popping \cup Popped \cup {"empty"} =>
       pool[t].size = 0 /\ chunk[t].size = 0
  /\ pc[t] \in Pushing => Full(chunk[t]) /\ reg[t].val = chunk[t].top
  /\ pc[t] \in Pushing \cup {"pushed"} <=> freeing[t] # Nil

\* Every list is as long as its size says, a shared one as long as ChunkSize.
OwnLists(t) == /\ IsList(link, pool[t].top, pool[t].size)
               /\ pc[t] # "pushed" => IsList(link, chunk[t].top, chunk[t].size)
Lists ==
  /\ \A t \in Thread : OwnLists(t)
  /\ \A v \in StackedValues : IsList(link, v, ChunkSize)

\* Every object allocated is in one place.
Located ==
  /\ \A p, q \in Places : p # q => Objects(p) \cap Objects(q) = {}
  /\ UNION {Objects(p) : p \in Places} = 1..allocSize

\* What a step of t leaves alone.
Alone(t) == \A u \in Thread \ {t} : /\ pc'[u] = pc[u] /\ pool'[u] = pool[u]
                                    /\ chunk'[u] = chunk[u] /\ freeing'[u] = freeing[u]
                                    /\ reg'[u].val = reg[u].val
                                    /\ u \in attached' <=> u \in attached

\* The objects near thread t: those in use, those the thread has, and those of
\* the shared chunk that v heads, if it does.
Own(t) == out \cup Objects(FreeingBy(t)) \cup Objects(PoolOf(t)) \cup Objects(ChunkOf(t))
OwnApart(t) ==
  /\ out \cap Objects(FreeingBy(t)) = {} /\ out \cap Objects(PoolOf(t)) = {}
  /\ out \cap Objects(ChunkOf(t)) = {}
  /\ Objects(FreeingBy(t)) \cap Objects(PoolOf(t)) = {}
  /\ Objects(FreeingBy(t)) \cap Objects(ChunkOf(t)) = {}
  /\ Objects(PoolOf(t)) \cap Objects(ChunkOf(t)) = {}
ChunkAt(v) == IF v \in StackedValues THEN Objects(SharedAt(v)) ELSE {}
Near(t, v) == Own(t) \cup ChunkAt(v)
NearApart(t, v) == OwnApart(t) /\ Own(t) \cap ChunkAt(v) = {}

ObjectsInv ==
  /\ PoolTyped /\ Lists /\ ValuesApart
  /\ \A t \in Thread : Calls(t)
  /\ Located
-----------------------------------------------------------------------------
(* Walks along links *)

\* The subsets of a finite set include a minimal one.
LEMMA MinimalSet ==
    ASSUME NEW U, IsFiniteSet(U), NEW F \in SUBSET (SUBSET U), F # {}
    PROVE  \E A \in F : \A B \in F : B \subseteq A => B = A
<1>1. IsWellFoundedOn(StrictSubsetOrdering(U), SUBSET U)
  BY FS_StrictSubsetOrderingWellFounded, FS_FiniteSubsetsOfFinite
<1>2. PICK A \in F : \A B \in F : ~(<<B, A>> \in StrictSubsetOrdering(U))
  BY <1>1, WFMin
<1>3. QED
  BY <1>2 DEF StrictSubsetOrdering

\* A set of numbers up to n has a least one.
LEMMA LeastNumber ==
    ASSUME NEW n \in Nat, NEW T \in SUBSET (0 .. n), T # {}
    PROVE  \E k \in T : \A j \in T : k <= j
<1> DEFINE F == {0 .. k : k \in T}
<1>1. IsFiniteSet(0 .. n)
  BY FS_Interval
<1>2. F \in SUBSET (SUBSET (0 .. n)) /\ F # {}
  <2>1. ASSUME NEW k \in T PROVE 0 .. k \subseteq 0 .. n
    OBVIOUS
  <2>2. QED
    BY <2>1
<1>3. \E A \in F : \A B \in F : B \subseteq A => B = A
  <2> DEFINE U == 0 .. n
  <2>1. IsFiniteSet(U) /\ F \in SUBSET (SUBSET U) /\ F # {}
    BY <1>1, <1>2
  <2> HIDE DEF F, U
  <2>2. QED
    BY <2>1, MinimalSet
<1>4. PICK k \in T : \A B \in F : B \subseteq 0 .. k => B = 0 .. k
  BY <1>3
<1>5. ASSUME NEW j \in T, j < k PROVE FALSE
  <2>1. 0 .. j \in F /\ 0 .. j \subseteq 0 .. k /\ k \in 0 .. k /\ k \notin 0 .. j
    BY <1>5
  <2>2. QED
    BY <1>4, <2>1
<1>6. QED
  BY <1>5

\* w are the first k nodes along f from n, c of them nodes indeed.
Steps(f, n, k, w, c) ==
  /\ w \in [1..k -> Int] /\ c \in 0..k
  /\ k # 0 => w[1] = n
  /\ \A i \in 2..k : w[i] = IF w[i - 1] \in {Nil, Junk} THEN Nil ELSE f[w[i - 1]]
  /\ \A j \in 1..k : w[j] \notin {Nil, Junk} <=> j <= c

\* A walk stops at the first link that is nil, and its first c nodes are what Walk answers.
LEMMA WalkNodes ==
    ASSUME NEW f, NEW n, NEW k \in Nat, NEW w, NEW c, Steps(f, n, k, w, c),
           NEW s, s = [i \in 1..c |-> w[i]]
    PROVE  Walk(f, n, k) = s
<1> USE DEF Steps
<1> DEFINE Step(i, h) == IF i = 1 THEN n
                         ELSE IF h[i - 1] \in {Nil, Junk} THEN Nil ELSE f[h[i - 1]]
           at == CHOOSE h : h = [i \in 1..k |-> Step(i, h)]
<1>1. w = [i \in 1..k |-> Step(i, w)]
  OBVIOUS
<1>2. at = [i \in 1..k |-> Step(i, at)]
  BY <1>1
<1>3. Walk(f, n, k) = [i \in 1..Cardinality({j \in 1..k : at[j] \notin {Nil, Junk}}) |-> at[i]]
  BY DEF Walk
<1> HIDE DEF at
<1>4. \A i \in 1..k : at[i] = Step(i, at)
  BY <1>2
<1> DEFINE T == {i \in 1..k : at[i] # w[i]}
<1>5. ASSUME T # {} PROVE FALSE
  <2>1. PICK m \in T : \A j \in T : m <= j
    <3>1. T \in SUBSET (0..k)
      OBVIOUS
    <3> HIDE DEF T
    <3>2. QED
      BY <1>5, <3>1, LeastNumber
  <2>2. CASE m = 1
    BY <1>4, <2>1, <2>2
  <2>3. CASE m # 1
    <3>1. m - 1 \in 1..k /\ m - 1 \notin T /\ m \in 2..k
      BY <2>1, <2>3
    <3>2. at[m - 1] = w[m - 1]
      BY <3>1
    <3>3. at[m] = w[m]
      BY <1>4, <2>3, <3>1, <3>2
    <3>4. QED
      BY <2>1, <3>3
  <2>4. QED
    BY <2>2, <2>3
<1>6. at = w
  <2>1. at = [i \in 1..k |-> at[i]]
    BY <1>2
  <2>2. \A i \in 1..k : at[i] = w[i]
    BY <1>5
  <2>3. QED
    BY <2>1, <2>2
<1>7. {j \in 1..k : w[j] \notin {Nil, Junk}} = 1..c
  OBVIOUS
<1>8. Cardinality(1..c) = c
  BY FS_Interval
<1>9. Walk(f, n, k) = [i \in 1..c |-> w[i]]
  <2>1. {j \in 1..k : at[j] \notin {Nil, Junk}} = {j \in 1..k : w[j] \notin {Nil, Junk}}
    BY <1>6
  <2>2. Cardinality({j \in 1..k : at[j] \notin {Nil, Junk}}) = c
    BY <1>7, <1>8, <2>1
  <2>3. QED
    BY <1>3, <1>6, <2>2
<1>10. QED
  BY <1>9

\* A walk of k nodes is the list s, if s has k nodes or ends with a link to none.
LEMMA WalkIs ==
    ASSUME NEW f, NEW n, NEW k \in Nat, NEW s \in Seq(Nat \ {0}),
           Len(s) <= k,
           Len(s) # 0 => s[1] = n,
           \A i \in 1..(Len(s) - 1) : f[s[i]] = s[i + 1],
           Len(s) < k => Nil = IF Len(s) = 0 THEN n ELSE f[s[Len(s)]]
    PROVE  Walk(f, n, k) = s
<1>1. Len(s) \in Nat /\ \A i \in 1..Len(s) : s[i] \in Int /\ s[i] \notin {Nil, Junk}
  BY DEF Nil, Junk
<1> DEFINE w == [i \in 1..k |-> IF i <= Len(s) THEN s[i] ELSE Nil]
<1>2. w \in [1..k -> Int]
  BY <1>1 DEF Nil
<1>3. k # 0 => w[1] = n
  BY <1>1
<1>4. ASSUME NEW i \in 2..k
      PROVE  w[i] = IF w[i - 1] \in {Nil, Junk} THEN Nil ELSE f[w[i - 1]]
  <2>1. i - 1 \in 1..k /\ i \in 1..k /\ (i - 1) + 1 = i
    OBVIOUS
  <2>2. CASE i <= Len(s)
    BY <1>1, <2>1, <2>2
  <2>3. CASE ~(i <= Len(s)) /\ i - 1 <= Len(s)
    <3>1. i - 1 = Len(s) /\ Len(s) < k /\ Len(s) # 0
      BY <1>1, <2>1, <2>3
    <3>2. QED
      BY <1>1, <2>1, <2>3, <3>1
  <2>4. CASE ~(i - 1 <= Len(s))
    BY <1>1, <2>1, <2>4
  <2>5. QED
    BY <1>1, <2>2, <2>3, <2>4
<1>5. Len(s) \in 0..k /\ \A j \in 1..k : w[j] \notin {Nil, Junk} <=> j <= Len(s)
  BY <1>1
<1>6. s = [i \in 1..Len(s) |-> w[i]]
  <2>1. s = [i \in 1..Len(s) |-> s[i]]
    OBVIOUS
  <2>2. \A i \in 1..Len(s) : w[i] = s[i]
    BY <1>1
  <2> HIDE DEF w
  <2>3. [i \in 1..Len(s) |-> w[i]] = [i \in 1..Len(s) |-> s[i]]
    BY <2>2
  <2>4. QED
    BY <2>1, <2>3
<1>7. Steps(f, n, k, w, Len(s))
  <2> HIDE DEF w
  <2>1. QED
    BY <1>2, <1>3, <1>4, <1>5 DEF Steps
<1> HIDE DEF w
<1>8. QED
  BY <1>6, <1>7, WalkNodes

\* A sequence that repeats nothing is no longer than its values are many.
LEMMA NoRepeatBound ==
    ASSUME NEW V, IsFiniteSet(V), NEW s \in Seq(V), Distinct(s)
    PROVE  Len(s) <= Cardinality(V)
<1> DEFINE f == [i \in 1..Len(s) |-> s[i]]
<1>1. f \in Injection(1..Len(s), V)
  BY DEF Injection, IsInjective, Distinct
<1>2. Cardinality(1..Len(s)) <= Cardinality(V)
  BY <1>1, FS_Injection
<1>3. Cardinality(1..Len(s)) = Len(s)
  <2> DEFINE k == Len(s)
  <2>1. k \in Nat
    OBVIOUS
  <2> HIDE DEF k
  <2>2. Cardinality(1..k) = k
    BY <2>1, FS_Interval
  <2>3. QED
    BY <2>2 DEF k
<1>4. QED
  BY <1>2, <1>3

\* The walk from the top of a chain is the chain.
LEMMA ChainIs ==
    ASSUME NEW f, NEW n, NEW s, Chain(f, n, s)
    PROVE  Walk(f, n, MaxNode) = s
<1>1. s \in Seq(Node) /\ Len(s) \in Nat /\ \A i \in 1..Len(s) : s[i] \in Node
  BY DEF Chain
<1>2. s \in Seq(Nat \ {0})
  BY <1>1, StackAssumption DEF Node
<1>3. IsFiniteSet(Node) /\ Cardinality(Node) = MaxNode
  BY StackAssumption, FS_Interval DEF Node
<1>4. Len(s) <= MaxNode
  BY <1>1, <1>3, NoRepeatBound DEF Chain
<1>5. \A i \in 1..(Len(s) - 1) : f[s[i]] = s[i + 1]
  BY <1>1 DEF Chain
<1>6. Nil = IF Len(s) = 0 THEN n ELSE f[s[Len(s)]]
  BY <1>1 DEF Chain
<1>7. Len(s) # 0 => s[1] = n
  BY <1>1 DEF Chain
<1>8. QED
  BY <1>2, <1>4, <1>5, <1>6, <1>7, StackAssumption, WalkIs

\* A sequence with a value put before it, or its first one taken away.
LEMMA OnPushed ==
    ASSUME NEW V, NEW s \in Seq(V), NEW x \in V
    PROVE  /\ On(<<x>> \o s) = On(s) \cup {x}
           /\ Distinct(s) /\ x \notin On(s) => Distinct(<<x>> \o s)
<1> DEFINE r == <<x>> \o s
<1>1. /\ Len(s) \in Nat /\ Len(r) = Len(s) + 1 /\ r[1] = x /\ 1 \in 1..Len(r)
      /\ \A i \in 2..Len(r) : r[i] = s[i - 1] /\ i - 1 \in 1..Len(s)
      /\ \A i \in 1..Len(s) : i + 1 \in 2..Len(r) /\ (i + 1) - 1 = i
      /\ \A i \in 1..Len(r) : i # 1 => i \in 2..Len(r)
  OBVIOUS
<1> HIDE DEF r
<1>2. ASSUME NEW y \in On(r) PROVE y \in On(s) \cup {x}
  <2>1. PICK i \in 1..Len(r) : y = r[i]
    BY <1>2 DEF On
  <2>2. QED
    BY <1>1, <2>1 DEF On
<1>3. ASSUME NEW y \in On(s) PROVE y \in On(r)
  <2>1. PICK i \in 1..Len(s) : y = s[i]
    BY <1>3 DEF On
  <2>2. i + 1 \in 2..Len(r) /\ r[i + 1] = s[i] /\ i + 1 \in 1..Len(r)
    BY <1>1, <2>1
  <2>3. QED
    BY <2>1, <2>2 DEF On
<1>4. x \in On(r)
  BY <1>1 DEF On
<1>5. ASSUME Distinct(s), x \notin On(s), NEW i \in 1..Len(r), NEW j \in 1..Len(r), r[i] = r[j]
      PROVE  i = j
  <2>1. \A k \in 2..Len(r) : r[k] # x
    BY <1>1, <1>5 DEF On
  <2>2. CASE i = 1 \/ j = 1
    BY <1>1, <1>5, <2>1, <2>2
  <2>3. CASE i # 1 /\ j # 1
    <3>1. i \in 2..Len(r) /\ j \in 2..Len(r)
      BY <1>1, <1>5, <2>3
    <3>2. s[i - 1] = s[j - 1] /\ i - 1 \in 1..Len(s) /\ j - 1 \in 1..Len(s)
      BY <1>1, <1>5, <3>1
    <3>3. i - 1 = j - 1
      BY <1>5, <3>2 DEF Distinct
    <3>4. QED
      BY <1>5, <3>3
  <2>4. QED
    BY <2>2, <2>3
<1>6. On(r) = On(s) \cup {x}
  BY <1>2, <1>3, <1>4
<1>7. Distinct(s) /\ x \notin On(s) => Distinct(r)
  BY <1>5 DEF Distinct
<1>8. QED
  BY <1>6, <1>7 DEF r

\* A popped sequence has every node of the old one but its head.
LEMMA OnPopped ==
    ASSUME NEW V, NEW s \in Seq(V), s # <<>>, Distinct(s)
    PROVE  /\ Head(s) \in On(s) /\ On(Tail(s)) = On(s) \ {Head(s)} /\ Distinct(Tail(s))
<1> DEFINE r == Tail(s)
<1>1. /\ Len(s) \in Nat \ {0} /\ Len(r) = Len(s) - 1 /\ Len(r) \in Nat /\ 1 \in 1..Len(s)
      /\ \A i \in 1..Len(r) : r[i] = s[i + 1] /\ i + 1 \in 1..Len(s) /\ i + 1 # 1
      /\ Head(s) = s[1]
  OBVIOUS
<1> HIDE DEF r
<1>2. ASSUME NEW y \in On(r) PROVE y \in On(s) \ {Head(s)}
  <2>1. PICK i \in 1..Len(r) : y = r[i]
    BY <1>2 DEF On
  <2>2. y = s[i + 1] /\ i + 1 \in 1..Len(s) /\ i + 1 # 1
    BY <1>1, <2>1
  <2>3. y # s[1]
    BY <1>1, <2>2 DEF Distinct
  <2>4. QED
    BY <1>1, <2>2, <2>3 DEF On
<1>3. ASSUME NEW y \in On(s), y # Head(s) PROVE y \in On(r)
  <2>1. PICK i \in 1..Len(s) : y = s[i]
    BY <1>3 DEF On
  <2>2. i # 1
    BY <1>1, <1>3, <2>1
  <2>3. i - 1 \in 1..Len(r) /\ (i - 1) + 1 = i
    BY <1>1, <2>1, <2>2
  <2>4. r[i - 1] = s[i]
    BY <1>1, <2>3
  <2>5. QED
    BY <2>1, <2>3, <2>4 DEF On
<1>4. ASSUME NEW i \in 1..Len(r), NEW j \in 1..Len(r), r[i] = r[j] PROVE i = j
  <2>1. s[i + 1] = s[j + 1] /\ i + 1 \in 1..Len(s) /\ j + 1 \in 1..Len(s)
    BY <1>1, <1>4
  <2>2. i + 1 = j + 1
    BY <2>1 DEF Distinct
  <2>3. QED
    BY <1>4, <2>2
<1>5. Head(s) \in On(s) /\ On(r) = On(s) \ {Head(s)}
  BY <1>1, <1>2, <1>3 DEF On
<1>6. Distinct(r)
  BY <1>4 DEF Distinct
<1>7. QED
  BY <1>5, <1>6 DEF r

\* A chain with a node put on top, its top taken off, or other links changed.
LEMMA ChainPush ==
    ASSUME NEW f, NEW n, NEW s, Chain(f, n, s), NEW m \in Node, m \notin On(s), f[m] = n
    PROVE  Chain(f, m, <<m>> \o s) /\ On(<<m>> \o s) = On(s) \cup {m}
<1> DEFINE r == <<m>> \o s
<1>1. s \in Seq(Node) /\ Len(s) \in Nat /\ Distinct(s)
  BY DEF Chain
<1>2. /\ r \in Seq(Node) /\ Len(r) = Len(s) + 1 /\ r[1] = m
      /\ \A i \in 2..Len(r) : r[i] = s[i - 1] /\ i - 1 \in 1..Len(s)
  BY <1>1
<1>3. On(r) = On(s) \cup {m} /\ Distinct(r)
  BY <1>1, OnPushed
<1> HIDE DEF r
<1>4. ASSUME NEW i \in 1..Len(r)
      PROVE  f[r[i]] = IF i < Len(r) THEN r[i + 1] ELSE Nil
  <2>1. CASE i = 1
    <3>1. n = IF Len(s) = 0 THEN Nil ELSE s[1]
      BY DEF Chain
    <3>2. 1 < Len(r) => r[2] = s[1]
      BY <1>1, <1>2
    <3>3. QED
      BY <1>1, <1>2, <2>1, <3>1, <3>2
  <2>2. CASE i # 1
    <3>1. i \in 2..Len(r) /\ i - 1 \in 1..Len(s) /\ r[i] = s[i - 1]
      BY <1>1, <1>2, <2>2
    <3>2. f[s[i - 1]] = IF i - 1 < Len(s) THEN s[(i - 1) + 1] ELSE Nil
      BY <3>1 DEF Chain
    <3>3. (i - 1 < Len(s) <=> i < Len(r)) /\ (i - 1) + 1 = i
      BY <1>1, <1>2, <3>1
    <3>4. i < Len(r) => r[i + 1] = s[i]
      <4>1. SUFFICES ASSUME i < Len(r) PROVE r[i + 1] = s[i]
        OBVIOUS
      <4>2. i + 1 \in 2..Len(r) /\ (i + 1) - 1 = i
        BY <1>1, <1>2, <3>1, <4>1
      <4>3. QED
        BY <1>2, <4>2
    <3>5. QED
      BY <3>1, <3>2, <3>3, <3>4
  <2>3. QED
    BY <2>1, <2>2
<1>5. Chain(f, m, r)
  BY <1>1, <1>2, <1>3, <1>4 DEF Chain
<1>6. QED
  BY <1>3, <1>5 DEF r

\* Without its first node a chain is the chain from the link of that node.
LEMMA ChainPop ==
    ASSUME NEW f, NEW n, NEW s, Chain(f, n, s), n # Nil
    PROVE  /\ Len(s) # 0 /\ n \in Node /\ n \in On(s) /\ s[1] = n
           /\ Chain(f, f[n], Tail(s)) /\ On(Tail(s)) = On(s) \ {n}
<1> DEFINE r == Tail(s)
<1>1. s \in Seq(Node) /\ Len(s) \in Nat /\ Distinct(s) /\ \A i \in 1..Len(s) : s[i] \in Node
  BY DEF Chain
<1>2. Len(s) # 0 /\ s[1] = n /\ 1 \in 1..Len(s) /\ s # <<>> /\ Head(s) = n
  BY <1>1 DEF Chain
<1>3. /\ r \in Seq(Node) /\ Len(r) = Len(s) - 1 /\ Len(r) \in Nat
      /\ \A i \in 1..Len(r) : r[i] = s[i + 1] /\ i + 1 \in 1..Len(s)
  BY <1>1, <1>2
<1>4. n \in On(s) /\ On(r) = On(s) \ {n} /\ Distinct(r)
  BY <1>1, <1>2, OnPopped
<1> HIDE DEF r
<1>5. ASSUME NEW i \in 1..Len(r)
      PROVE  f[r[i]] = IF i < Len(r) THEN r[i + 1] ELSE Nil
  <2>1. f[s[i + 1]] = IF i + 1 < Len(s) THEN s[(i + 1) + 1] ELSE Nil
    BY <1>3 DEF Chain
  <2>2. (i + 1 < Len(s) <=> i < Len(r)) /\ (i < Len(r) => i + 1 \in 1..Len(r))
    BY <1>1, <1>3
  <2>3. QED
    BY <1>3, <2>1, <2>2
<1>6. f[n] = IF Len(r) = 0 THEN Nil ELSE r[1]
  <2>1. f[s[1]] = IF 1 < Len(s) THEN s[1 + 1] ELSE Nil
    BY <1>2 DEF Chain
  <2>2. (1 < Len(s) <=> Len(r) # 0) /\ (Len(r) # 0 => 1 \in 1..Len(r))
    BY <1>1, <1>3
  <2>3. QED
    BY <1>2, <1>3, <2>1, <2>2
<1>7. Chain(f, f[n], r)
  BY <1>3, <1>4, <1>5, <1>6 DEF Chain
<1>8. QED
  BY <1>1, <1>2, <1>4, <1>7 DEF r

\* A chain does not depend on the links of nodes that are not on it.
LEMMA ChainFrame ==
    ASSUME NEW f, NEW g, NEW n, NEW s, Chain(f, n, s), \A m \in On(s) : g[m] = f[m]
    PROVE  Chain(g, n, s)
<1>1. \A i \in 1..Len(s) : g[s[i]] = f[s[i]]
  BY DEF On
<1>2. QED
  BY <1>1 DEF Chain

\* A chain starts at a node, or nowhere.
LEMMA ChainHead ==
    ASSUME NEW f, NEW n, NEW s, Chain(f, n, s)
    PROVE  n \in Node \cup {Nil}
<1>1. s \in Seq(Node) /\ n = IF Len(s) = 0 THEN Nil ELSE s[1]
  BY DEF Chain
<1>2. CASE Len(s) = 0
  BY <1>1, <1>2
<1>3. CASE Len(s) # 0
  <2>1. 1 \in 1..Len(s)
    BY <1>1, <1>3
  <2>2. QED
    BY <1>1, <1>3, <2>1
<1>4. QED
  BY <1>2, <1>3
-----------------------------------------------------------------------------
(* What a step leaves alone *)

\* The chains are what the walks from the two tops find.
LEMMA StackedIs ==
    ASSUME NEW r, Chain(next', top'.addr, r)
    PROVE  Stacked' = r
<1>1. ASSUME NEW f, NEW n, Chain(f, n, r) PROVE Walk(f, n, MaxNode) = r
  BY <1>1, ChainIs
<1>2. Walk(next', top'.addr, MaxNode) = r
  BY <1>1
<1>3. QED
  BY <1>2 DEF Stacked

\* A chain of the pool after a step is the pool after the step.
LEMMA PooledIs ==
    ASSUME NEW r, Chain(poolNext', poolTop'.addr, r)
    PROVE  Pooled' = r
<1>1. ASSUME NEW f, NEW n, Chain(f, n, r) PROVE Walk(f, n, MaxNode) = r
  BY <1>1, ChainIs
<1>2. Walk(poolNext', poolTop'.addr, MaxNode) = r
  BY <1>1
<1>3. QED
  BY <1>2 DEF Pooled

\* A stack whose top stays, and of whose nodes no link changes, stays.
LEMMA StackedKept ==
    ASSUME Chained, top' = top, \A m \in On(Stacked) : next'[m] = next[m]
    PROVE  Stacked' = Stacked /\ Chain(next', top'.addr, Stacked')
<1>1. Chain(next, top.addr, Stacked)
  BY DEF Chained
<1>2. ASSUME NEW g, \A m \in On(Stacked) : g[m] = next[m] PROVE Chain(g, top.addr, Stacked)
  BY <1>1, <1>2, ChainFrame
<1>3. Chain(next', top'.addr, Stacked)
  BY <1>2
<1>4. QED
  BY <1>3, StackedIs

\* The pool stays what it is when its top and the links of its nodes do.
LEMMA PooledKept ==
    ASSUME Chained, poolTop' = poolTop, \A m \in On(Pooled) : poolNext'[m] = poolNext[m]
    PROVE  Pooled' = Pooled /\ Chain(poolNext', poolTop'.addr, Pooled')
<1>1. Chain(poolNext, poolTop.addr, Pooled)
  BY DEF Chained
<1>2. ASSUME NEW g, \A m \in On(Pooled) : g[m] = poolNext[m] PROVE Chain(g, poolTop.addr, Pooled)
  BY <1>1, <1>2, ChainFrame
<1>3. Chain(poolNext', poolTop'.addr, Pooled)
  BY <1>2
<1>4. QED
  BY <1>3, PooledIs

\* Who has no other node in hand than before, with stack and pool as they were.
LEMMA ApartKept ==
    ASSUME NodesApart, Stacked' = Stacked, Pooled' = Pooled, capacity' = capacity,
           Carriers' \subseteq Carriers,
           \A u \in Carriers' : reg'[u].node = reg[u].node
    PROVE  NodesApart'
BY DEF NodesApart

\* The values stay while the stacked nodes and their data do.
LEMMA ContentsKept ==
    ASSUME Stacked' = Stacked, \A m \in On(Stacked) : data'[m] = data[m],
           NEW k \in Nat, DOMAIN Stacked = 1..k, Len(Stacked) = k
    PROVE  Contents' = Contents
<1>1. \A i \in DOMAIN Stacked : Stacked[i] \in On(Stacked)
  BY DEF On
<1>2. \A i \in DOMAIN Stacked : data'[Stacked[i]] = data[Stacked[i]]
  BY <1>1
<1>3. QED
  BY <1>2 DEF Contents

\* The chains are sequences of nodes.
LEMMA ChainTypes ==
    ASSUME Chained
    PROVE  /\ Stacked \in Seq(Node) /\ Pooled \in Seq(Node)
           /\ Len(Stacked) \in Nat /\ DOMAIN Stacked = 1..Len(Stacked)
           /\ Len(Pooled) \in Nat /\ DOMAIN Pooled = 1..Len(Pooled)
           /\ On(Stacked) \subseteq Node /\ On(Pooled) \subseteq Node
           /\ top.addr # Nil => top.addr \in On(Stacked)
           /\ poolTop.addr # Nil => poolTop.addr \in On(Pooled)
<1>1. Stacked \in Seq(Node) /\ Pooled \in Seq(Node)
  BY DEF Chained, Chain
<1>2. top.addr # Nil => top.addr \in On(Stacked)
  BY ChainPop DEF Chained
<1>3. poolTop.addr # Nil => poolTop.addr \in On(Pooled)
  BY ChainPop DEF Chained
<1>4. \A i \in 1..Len(Stacked) : Stacked[i] \in Node
  BY <1>1
<1>5. \A i \in 1..Len(Pooled) : Pooled[i] \in Node
  BY <1>1
<1>6. On(Stacked) \subseteq Node /\ On(Pooled) \subseteq Node
  BY <1>4, <1>5 DEF On
<1>7. QED
  BY <1>1, <1>2, <1>3, <1>6

\* The tops the others have seen: still there with the link they lead to, or out of
\* date for good.
Settled ==
  /\ \/ poolTop'.tag = poolTop.tag + 1
     \/ /\ poolTop' = poolTop
        /\ poolTop.addr \in Node => poolNext'[poolTop.addr] = poolNext[poolTop.addr]
  /\ \/ top'.tag = top.tag + 1
     \/ /\ top' = top
        /\ top.addr \in Node => next'[top.addr] = next[top.addr]

\* What another thread remembers stays right.
LEMMA RecallsKept ==
    ASSUME StackTyped, Settled, NEW u \in Thread, Recalls(u),
           pc'[u] = pc[u], reg'[u] = reg[u],
           u \in Carriers => /\ next'[reg[u].node] = next[reg[u].node]
                             /\ poolNext'[reg[u].node] = poolNext[reg[u].node]
                             /\ data'[reg[u].node] = data[reg[u].node]
    PROVE  Recalls(u)'
<1>1. reg[u] \in Regs /\ reg[u].old \in Pointers /\ reg[u].old.tag \in Nat
  BY DEF StackTyped, Regs, Pointers
<1>2. top.tag \in Nat /\ poolTop.tag \in Nat
  BY DEF StackTyped, Pointers
<1>3. pc[u] \in {"poolAllocNext", "poolAllocSwap"} =>
        reg[u].old.addr \in Node /\ reg[u].old.tag <= poolTop'.tag
  BY <1>1, <1>2 DEF Recalls, Settled
<1>4. pc[u] = "poolAllocSwap" /\ reg[u].old = poolTop' =>
        reg[u].after = poolNext'[poolTop'.addr]
  BY <1>1, <1>2 DEF Recalls, Settled
<1>5. pc[u] \in {"popNext", "popSwap"} =>
        reg[u].old.addr \in Node /\ reg[u].old.tag <= top'.tag
  BY <1>1, <1>2 DEF Recalls, Settled
<1>6. pc[u] = "popSwap" /\ reg[u].old = top' => reg[u].after = next'[top'.addr]
  BY <1>1, <1>2 DEF Recalls, Settled
<1>7. /\ pc[u] = "pushSwap" => next'[reg[u].node] = reg[u].old.addr
      /\ pc[u] = "freeSwap" => poolNext'[reg[u].node] = reg[u].old.addr
      /\ pc[u] \in {"pushRead", "pushSwap"} => data'[reg[u].node] = reg[u].val
  BY DEF Recalls, Carriers
<1>8. QED
  BY <1>3, <1>4, <1>5, <1>6, <1>7 DEF Recalls

\* Where a thread goes, and what it writes down.
LEMMA GoesTo ==
    ASSUME StackTyped, NEW t \in Thread, NEW l \in Labels, Goto(t, l)
    PROVE  /\ pc' \in [Thread -> Labels] /\ pc'[t] = l
           /\ \A u \in Thread \ {t} : pc'[u] = pc[u]
BY DEF Goto, StackTyped

\* The step of a thread writes the registers of that thread.
LEMMA WritesDown ==
    ASSUME StackTyped, NEW t \in Thread, NEW r \in Regs, reg' = [reg EXCEPT ![t] = r]
    PROVE  /\ reg' \in [Thread -> Regs] /\ reg'[t] = r
           /\ \A u \in Thread \ {t} : reg'[u] = reg[u]
BY DEF StackTyped

\* One field written, the others kept.
LEMMA WritesField ==
    ASSUME StackTyped, NEW t \in Thread
    PROVE  /\ \A p \in Pointers : reg' = [reg EXCEPT ![t].old = p] =>
                /\ reg' \in [Thread -> Regs] /\ reg'[t].old = p
                /\ reg'[t].after = reg[t].after /\ reg'[t].node = reg[t].node
                /\ reg'[t].val = reg[t].val
                /\ \A u \in Thread \ {t} : reg'[u] = reg[u]
           /\ \A a \in Links : reg' = [reg EXCEPT ![t].after = a] =>
                /\ reg' \in [Thread -> Regs] /\ reg'[t].after = a
                /\ reg'[t].old = reg[t].old /\ reg'[t].node = reg[t].node
                /\ reg'[t].val = reg[t].val
                /\ \A u \in Thread \ {t} : reg'[u] = reg[u]
           /\ \A n \in Node : reg' = [reg EXCEPT ![t].node = n] =>
                /\ reg' \in [Thread -> Regs] /\ reg'[t].node = n
                /\ reg'[t].old = reg[t].old /\ reg'[t].after = reg[t].after
                /\ reg'[t].val = reg[t].val
                /\ \A u \in Thread \ {t} : reg'[u] = reg[u]
           /\ \A x \in Int : reg' = [reg EXCEPT ![t].val = x] =>
                /\ reg' \in [Thread -> Regs] /\ reg'[t].val = x
                /\ reg'[t].old = reg[t].old /\ reg'[t].after = reg[t].after
                /\ reg'[t].node = reg[t].node
                /\ \A u \in Thread \ {t} : reg'[u] = reg[u]
<1>1. reg \in [Thread -> Regs] /\ reg[t] \in Regs
  BY DEF StackTyped
<1>2. ASSUME NEW p \in Pointers, reg' = [reg EXCEPT ![t].old = p]
      PROVE  /\ reg' \in [Thread -> Regs] /\ reg'[t].old = p
             /\ reg'[t].after = reg[t].after /\ reg'[t].node = reg[t].node
             /\ reg'[t].val = reg[t].val
             /\ \A u \in Thread \ {t} : reg'[u] = reg[u]
  BY <1>1, <1>2 DEF Regs
<1>3. ASSUME NEW a \in Links, reg' = [reg EXCEPT ![t].after = a]
      PROVE  /\ reg' \in [Thread -> Regs] /\ reg'[t].after = a
             /\ reg'[t].old = reg[t].old /\ reg'[t].node = reg[t].node
             /\ reg'[t].val = reg[t].val
             /\ \A u \in Thread \ {t} : reg'[u] = reg[u]
  BY <1>1, <1>3 DEF Regs
<1>4. ASSUME NEW n \in Node, reg' = [reg EXCEPT ![t].node = n]
      PROVE  /\ reg' \in [Thread -> Regs] /\ reg'[t].node = n
             /\ reg'[t].old = reg[t].old /\ reg'[t].after = reg[t].after
             /\ reg'[t].val = reg[t].val
             /\ \A u \in Thread \ {t} : reg'[u] = reg[u]
  BY <1>1, <1>4 DEF Regs
<1>5. ASSUME NEW x \in Int, reg' = [reg EXCEPT ![t].val = x]
      PROVE  /\ reg' \in [Thread -> Regs] /\ reg'[t].val = x
             /\ reg'[t].old = reg[t].old /\ reg'[t].after = reg[t].after
             /\ reg'[t].node = reg[t].node
             /\ \A u \in Thread \ {t} : reg'[u] = reg[u]
  BY <1>1, <1>5 DEF Regs
<1>6. QED
  BY <1>2, <1>3, <1>4, <1>5
-----------------------------------------------------------------------------
(* The steps of Push and Pop *)

\* A step that only reads shared memory.
LEMMA ReadStep ==
    ASSUME StackInv, NEW t \in Thread,
           UNCHANGED <<top, next, data, size, poolTop, poolNext, capacity>>,
           pc' \in [Thread -> Labels], reg' \in [Thread -> Regs],
           \A u \in Thread \ {t} : pc'[u] = pc[u] /\ reg'[u] = reg[u],
           t \in Carriers' => t \in Carriers /\ reg'[t].node = reg[t].node,
           Recalls(t)'
    PROVE  StackInv' /\ Contents' = Contents
<1>1. StackTyped /\ Chained /\ NodesApart /\ \A u \in Thread : Recalls(u)
  BY DEF StackInv
<1>2. Stacked' = Stacked /\ Pooled' = Pooled /\ Contents' = Contents /\ Chained'
  <2>1. Stacked' = Stacked /\ Pooled' = Pooled
    BY DEF Stacked, Pooled
  <2>2. Contents' = Contents
    BY <2>1 DEF Contents
  <2>3. Chained'
    BY <1>1, <2>1 DEF Chained
  <2>4. QED
    BY <2>1, <2>2, <2>3
<1>3. StackTyped'
  BY <1>1 DEF StackTyped
<1>4. NodesApart'
  <2>1. ASSUME NEW u \in Carriers' PROVE u \in Carriers /\ reg'[u].node = reg[u].node
    <3>1. u \in Thread
      BY <2>1 DEF Carriers
    <3>2. CASE u = t
      BY <2>1, <3>2
    <3>3. CASE u # t
      BY <2>1, <3>1, <3>3 DEF Carriers
    <3>4. QED
      BY <3>2, <3>3
  <2>2. QED
    BY <1>1, <1>2, <2>1, ApartKept
<1>5. ASSUME NEW u \in Thread PROVE Recalls(u)'
  <2>1. CASE u = t
    BY <2>1
  <2>2. CASE u # t
    <3>1. Settled
      BY DEF Settled
    <3>2. QED
      BY <1>1, <2>2, <3>1, RecallsKept
  <2>3. QED
    BY <2>1, <2>2
<1>6. QED
  BY <1>2, <1>3, <1>4, <1>5 DEF StackInv

\* Push reads the top of the pool of nodes.
LEMMA PoolAllocReadStep ==
    ASSUME StackInv, NEW t \in Thread, PoolAllocRead(t)
    PROVE  StackInv' /\ StackEffect(t)
<1>1. StackTyped /\ Chained /\ Recalls(t) /\ pc[t] = "poolAlloc" /\ poolTop.addr # Nil
  BY DEF StackInv, PoolAllocRead, At
<1>2. /\ pc' \in [Thread -> Labels] /\ pc'[t] = "poolAllocNext"
      /\ \A u \in Thread \ {t} : pc'[u] = pc[u]
  BY <1>1, GoesTo DEF PoolAllocRead, Labels, Pushing
<1>3. /\ reg' \in [Thread -> Regs] /\ reg'[t].old = poolTop /\ reg'[t].val = reg[t].val
      /\ \A u \in Thread \ {t} : reg'[u] = reg[u]
  BY <1>1, WritesField DEF PoolAllocRead, StackTyped
<1>4. UNCHANGED <<top, next, data, size, poolTop, poolNext, capacity>>
  BY DEF PoolAllocRead
<1>5. Recalls(t)'
  <2>1. poolTop.addr \in Node /\ poolTop.tag \in Nat
    BY <1>1 DEF StackTyped, Pointers
  <2>2. QED
    BY <1>2, <1>3, <1>4, <2>1 DEF Recalls
<1>6. StackInv' /\ Contents' = Contents
  BY <1>2, <1>3, <1>4, <1>5, ReadStep DEF Carriers
<1>7. QED
  BY <1>1, <1>2, <1>3, <1>6 DEF StackEffect, Pushing

\* Push reads the link of the node it saw on top of the pool.
LEMMA PoolAllocNextStep ==
    ASSUME StackInv, NEW t \in Thread, PoolAllocNext(t)
    PROVE  StackInv' /\ StackEffect(t)
<1>1. StackTyped /\ Chained /\ Recalls(t) /\ pc[t] = "poolAllocNext"
  BY DEF StackInv, PoolAllocNext, At
<1>2. reg[t].old.addr \in Node /\ reg[t].old.tag <= poolTop.tag
  BY <1>1 DEF Recalls
<1>3. /\ pc' \in [Thread -> Labels] /\ pc'[t] = "poolAllocSwap"
      /\ \A u \in Thread \ {t} : pc'[u] = pc[u]
  BY <1>1, GoesTo DEF PoolAllocNext, Labels, Pushing
<1>4. poolNext[reg[t].old.addr] \in Links
  BY <1>1, <1>2 DEF StackTyped
<1>5. /\ reg' \in [Thread -> Regs] /\ reg'[t].old = reg[t].old /\ reg'[t].val = reg[t].val
      /\ reg'[t].after = poolNext[reg[t].old.addr]
      /\ \A u \in Thread \ {t} : reg'[u] = reg[u]
  BY <1>1, <1>4, WritesField DEF PoolAllocNext
<1>6. UNCHANGED <<top, next, data, size, poolTop, poolNext, capacity>>
  BY DEF PoolAllocNext
<1>7. Recalls(t)'
  BY <1>2, <1>3, <1>5, <1>6 DEF Recalls
<1>8. StackInv' /\ Contents' = Contents
  BY <1>3, <1>5, <1>6, <1>7, ReadStep DEF Carriers
<1>9. QED
  BY <1>1, <1>3, <1>5, <1>8 DEF StackEffect, Pushing

\* Pop reads the top; it ends when there is none.
LEMMA PopReadStep ==
    ASSUME StackInv, NEW t \in Thread, PopRead(t)
    PROVE  StackInv' /\ StackEffect(t)
<1>1. StackTyped /\ Chained /\ Recalls(t) /\ pc[t] = "popRead"
  BY DEF StackInv, PopRead, At
<1>2. /\ pc' \in [Thread -> Labels]
      /\ pc'[t] = IF top.addr = Nil THEN "empty" ELSE "popNext"
      /\ \A u \in Thread \ {t} : pc'[u] = pc[u]
  <2>1. (IF top.addr = Nil THEN "empty" ELSE "popNext") \in Labels
    BY DEF Labels, Popping
  <2>2. Goto(t, IF top.addr = Nil THEN "empty" ELSE "popNext")
    BY DEF PopRead
  <2>3. QED
    BY <1>1, <2>1, <2>2, GoesTo
<1>3. /\ reg' \in [Thread -> Regs] /\ reg'[t].old = top /\ reg'[t].val = reg[t].val
      /\ \A u \in Thread \ {t} : reg'[u] = reg[u]
  BY <1>1, WritesField DEF PopRead, StackTyped
<1>4. UNCHANGED <<top, next, data, size, poolTop, poolNext, capacity>>
  BY DEF PopRead
<1>5. Recalls(t)'
  <2>1. (top.addr # Nil => top.addr \in Node) /\ top.tag \in Nat
    BY <1>1 DEF StackTyped, Pointers
  <2>2. QED
    BY <1>2, <1>3, <1>4, <2>1 DEF Recalls
<1>6. StackInv' /\ Contents' = Contents
  BY <1>2, <1>3, <1>4, <1>5, ReadStep DEF Carriers
<1>7. CASE top.addr = Nil
  <2>1. Chain(next, top.addr, Stacked) /\ Stacked \in Seq(Node)
    BY <1>1, ChainTypes DEF Chained
  <2>2. \A i \in 1..Len(Stacked) : Stacked[i] # Nil
    BY <2>1, StackAssumption DEF Node, Nil
  <2>3. Len(Stacked) = 0
    BY <1>7, <2>1, <2>2 DEF Chain
  <2>4. Stacked = <<>> /\ DOMAIN Stacked = {}
    BY <2>1, <2>3
  <2>5. Contents = <<>>
    BY <2>4 DEF Contents
  <2>6. QED
    BY <1>1, <1>2, <1>3, <1>6, <1>7, <2>5 DEF StackEffect, Popping
<1>8. CASE top.addr # Nil
  BY <1>1, <1>2, <1>3, <1>6, <1>8 DEF StackEffect, Popping
<1>9. QED
  BY <1>6, <1>7, <1>8

\* Pop reads the link and the value of the node it saw on top.
LEMMA PopNextStep ==
    ASSUME StackInv, NEW t \in Thread, PopNext(t)
    PROVE  StackInv' /\ StackEffect(t)
<1>1. StackTyped /\ Chained /\ Recalls(t) /\ pc[t] = "popNext"
  BY DEF StackInv, PopNext, At
<1>2. reg[t].old.addr \in Node /\ reg[t].old.tag <= top.tag
  BY <1>1 DEF Recalls
<1>3. /\ pc' \in [Thread -> Labels] /\ pc'[t] = "popSwap"
      /\ \A u \in Thread \ {t} : pc'[u] = pc[u]
  BY <1>1, GoesTo DEF PopNext, Labels, Popping
<1>4. next[reg[t].old.addr] \in Links
  BY <1>1, <1>2 DEF StackTyped
<1>5. /\ reg' \in [Thread -> Regs] /\ reg'[t].old = reg[t].old
      /\ reg'[t].after = next[reg[t].old.addr]
      /\ \A u \in Thread \ {t} : reg'[u] = reg[u]
  BY <1>1, <1>4, WritesField DEF PopNext
<1>6. UNCHANGED <<top, next, data, size, poolTop, poolNext, capacity>>
  BY DEF PopNext
<1>7. Recalls(t)'
  BY <1>2, <1>3, <1>5, <1>6 DEF Recalls
<1>8. StackInv' /\ Contents' = Contents
  BY <1>3, <1>5, <1>6, <1>7, ReadStep DEF Carriers
<1>9. QED
  BY <1>1, <1>3, <1>5, <1>8 DEF StackEffect, Popping

\* The registers of a thread that begins its loop again.
LEMMA Blank ==
    /\ NoReg \in Regs /\ NoReg.old \in Pointers
    /\ \A x \in Int : [NoReg EXCEPT !.val = x] \in Regs /\ [NoReg EXCEPT !.val = x].val = x
    /\ \A n \in Node, x \in Int : /\ [NoReg EXCEPT !.node = n, !.val = x] \in Regs
                                  /\ [NoReg EXCEPT !.node = n, !.val = x].node = n
                                  /\ [NoReg EXCEPT !.node = n, !.val = x].val = x
<1>1. NoReg \in Regs /\ NoReg.old \in Pointers
  BY DEF NoReg, Regs, Pointers, Links, Nil
<1>2. ASSUME NEW x \in Int
      PROVE  [NoReg EXCEPT !.val = x] \in Regs /\ [NoReg EXCEPT !.val = x].val = x
  BY <1>1 DEF Regs
<1>3. ASSUME NEW n \in Node, NEW x \in Int
      PROVE  /\ [NoReg EXCEPT !.node = n, !.val = x] \in Regs
             /\ [NoReg EXCEPT !.node = n, !.val = x].node = n
             /\ [NoReg EXCEPT !.node = n, !.val = x].val = x
  BY <1>1 DEF Regs
<1>4. QED
  BY <1>1, <1>2, <1>3

\* Push takes a node from the pool when the top is still what it read.
LEMMA PoolAllocSwapStep ==
    ASSUME StackInv, NEW t \in Thread, PoolAllocSwap(t)
    PROVE  StackInv' /\ StackEffect(t)
<1>1. /\ StackTyped /\ Chained /\ NodesApart /\ \A u \in Thread : Recalls(u)
      /\ pc[t] = "poolAllocSwap"
  BY DEF StackInv, PoolAllocSwap, At
<1>2. reg[t] \in Regs /\ reg[t].val \in Int
  BY <1>1 DEF StackTyped, Regs
<1>3. CASE ~Same(poolTop, reg[t].old)
  <2>1. /\ pc' \in [Thread -> Labels] /\ pc'[t] = "poolAlloc"
        /\ \A u \in Thread \ {t} : pc'[u] = pc[u]
    BY <1>1, <1>3, GoesTo DEF PoolAllocSwap, Labels, Pushing
  <2>2. /\ reg' \in [Thread -> Regs] /\ reg'[t].val = reg[t].val
        /\ \A u \in Thread \ {t} : reg'[u] = reg[u]
    BY <1>1, <1>2, <1>3, Blank, WritesDown DEF PoolAllocSwap
  <2>3. UNCHANGED <<top, next, data, size, poolTop, poolNext, capacity>>
    BY <1>3 DEF PoolAllocSwap
  <2>4. Recalls(t)'
    BY <2>1 DEF Recalls
  <2>5. StackInv' /\ Contents' = Contents
    BY <2>1, <2>2, <2>3, <2>4, ReadStep DEF Carriers
  <2>6. QED
    BY <1>1, <2>1, <2>2, <2>5 DEF StackEffect, Pushing
<1>4. CASE Same(poolTop, reg[t].old)
  <2> DEFINE n == poolTop.addr
  <2>1. reg[t].old = poolTop /\ n \in Node /\ n # Nil /\ reg[t].after = poolNext[n]
    <3>1. reg[t].old = poolTop
      BY <1>4 DEF Same
    <3>2. n \in Node /\ reg[t].after = poolNext[n]
      BY <1>1, <3>1 DEF Recalls
    <3>3. QED
      BY <3>1, <3>2, StackAssumption DEF Node, Nil
  <2>2. /\ pc' \in [Thread -> Labels] /\ pc'[t] = "pushRead"
        /\ \A u \in Thread \ {t} : pc'[u] = pc[u]
    BY <1>1, <1>4, GoesTo DEF PoolAllocSwap, Labels, Pushing
  <2>3. /\ reg' \in [Thread -> Regs] /\ reg'[t].node = n /\ reg'[t].val = reg[t].val
        /\ \A u \in Thread \ {t} : reg'[u] = reg[u]
    <3>1. reg' = [reg EXCEPT ![t] = [NoReg EXCEPT !.node = n, !.val = reg[t].val]]
      BY <1>4, <2>1 DEF PoolAllocSwap
    <3> DEFINE r == [NoReg EXCEPT !.node = n, !.val = reg[t].val]
    <3>2. r \in Regs /\ r.node = n /\ r.val = reg[t].val
      BY <1>2, <2>1, Blank
    <3> HIDE DEF r
    <3>3. QED
      BY <1>1, <3>1, <3>2, WritesDown DEF r
  <2>4. /\ poolTop'.addr = poolNext[n] /\ poolTop'.tag = poolTop.tag + 1
        /\ poolTop' = [addr |-> poolNext[n], tag |-> poolTop.tag + 1]
    BY <1>4, <2>1 DEF PoolAllocSwap, Retag
  <2>5. data' = [data EXCEPT ![n] = reg[t].val]
    BY <1>4, <2>1 DEF PoolAllocSwap
  <2>6. UNCHANGED <<top, next, size, poolNext, capacity>>
    BY DEF PoolAllocSwap
  <2>7. /\ n \in On(Pooled) /\ Chain(poolNext, poolNext[n], Tail(Pooled))
        /\ On(Tail(Pooled)) = On(Pooled) \ {n}
    BY <1>1, <2>1, ChainPop DEF Chained
  <2>8. Pooled' = Tail(Pooled) /\ Stacked' = Stacked /\ Chained'
    <3>1. Pooled' = Tail(Pooled)
      BY <2>4, <2>6, <2>7, PooledIs
    <3>2. Stacked' = Stacked
      BY <2>6 DEF Stacked
    <3>3. QED
      BY <1>1, <2>4, <2>6, <2>7, <3>1, <3>2 DEF Chained
  <2>9. Contents' = Contents
    <3>1. \A m \in On(Stacked) : m # n /\ data'[m] = data[m]
      BY <1>1, <2>5, <2>7, ChainTypes DEF NodesApart, StackTyped
    <3>2. QED
      BY <1>1, <2>8, <3>1, ContentsKept, ChainTypes
  <2>10. StackTyped'
    <3>1. poolNext[n] \in Node \cup {Nil}
      BY <2>7, ChainHead
    <3>2. poolTop' \in Pointers
      BY <1>1, <2>4, <3>1 DEF StackTyped, Pointers
    <3>3. data' \in [Node -> Int]
      BY <1>1, <1>2, <2>5 DEF StackTyped
    <3>4. QED
      BY <1>1, <2>2, <2>3, <2>6, <3>2, <3>3 DEF StackTyped
  <2>11. NodesApart'
    <3>1. On(Stacked') = On(Stacked) /\ On(Pooled') = On(Pooled) \ {n} /\ n \notin On(Stacked)
      BY <1>1, <2>7, <2>8 DEF NodesApart
    <3>2. Carriers' = Carriers \cup {t}
      BY <1>1, <2>2 DEF Carriers
    <3>3. \A u \in Carriers : u # t /\ reg'[u].node = reg[u].node /\ reg[u].node # n
      BY <1>1, <2>3, <2>7 DEF Carriers, NodesApart
    <3>4. n \in 1..capacity
      BY <1>1, <2>7 DEF NodesApart
    <3>5. QED
      BY <1>1, <2>3, <2>6, <3>1, <3>2, <3>3, <3>4 DEF NodesApart
  <2>12. ASSUME NEW u \in Thread PROVE Recalls(u)'
    <3>1. CASE u = t
      BY <1>1, <2>1, <2>2, <2>3, <2>5, <3>1 DEF Recalls, StackTyped
    <3>2. CASE u # t
      <4>1. Settled
        BY <2>4, <2>6 DEF Settled
      <4>2. u \in Carriers => data'[reg[u].node] = data[reg[u].node]
        BY <1>1, <2>5, <2>7 DEF NodesApart, StackTyped
      <4>3. QED
        BY <1>1, <2>2, <2>3, <2>6, <3>2, <4>1, <4>2, RecallsKept
    <3>3. QED
      BY <3>1, <3>2
  <2>13. QED
    BY <1>1, <2>2, <2>3, <2>8, <2>9, <2>10, <2>11, <2>12 DEF StackInv, StackEffect, Pushing
<1>5. QED
  BY <1>3, <1>4

\* Push takes a fresh node when the pool is empty.
LEMMA PoolAllocNewStep ==
    ASSUME StackInv, NEW t \in Thread, PoolAllocNew(t)
    PROVE  StackInv' /\ StackEffect(t)
<1>1. /\ StackTyped /\ Chained /\ NodesApart /\ \A u \in Thread : Recalls(u)
      /\ pc[t] = "poolAlloc" /\ poolTop.addr = Nil /\ capacity < MaxNode
  BY DEF StackInv, PoolAllocNew, At
<1> DEFINE n == capacity + 1
<1>2. /\ capacity' = n /\ capacity \in Nat /\ n \in Node /\ n # Nil /\ n \notin 1..capacity
      /\ n \in 1..n /\ 1..capacity \subseteq 1..n
  BY <1>1, StackAssumption DEF PoolAllocNew, StackTyped, Node, Nil
<1>3. /\ pc' \in [Thread -> Labels] /\ pc'[t] = "pushRead"
      /\ \A u \in Thread \ {t} : pc'[u] = pc[u]
  BY <1>1, GoesTo DEF PoolAllocNew, Labels, Pushing
<1>4. /\ reg' \in [Thread -> Regs] /\ reg'[t].node = n /\ reg'[t].val = reg[t].val
      /\ \A u \in Thread \ {t} : reg'[u] = reg[u]
  <2>1. reg' = [reg EXCEPT ![t].node = n]
    BY <1>2 DEF PoolAllocNew
  <2> HIDE DEF n
  <2>2. QED
    BY <1>1, <1>2, <2>1, WritesField
<1>5. /\ poolNext' = [poolNext EXCEPT ![n] = Nil] /\ data' = [data EXCEPT ![n] = reg[t].val]
      /\ UNCHANGED <<top, next, size, poolTop>>
  BY <1>2 DEF PoolAllocNew
<1> HIDE DEF n
<1>6. reg[t] \in Regs /\ reg[t].val \in Int
  BY <1>1 DEF StackTyped, Regs
<1>7. /\ n \notin On(Stacked) /\ n \notin On(Pooled)
      /\ \A u \in Carriers : reg[u].node # n
  BY <1>1, <1>2 DEF NodesApart
<1>8. \A m \in Node \ {n} : poolNext'[m] = poolNext[m] /\ data'[m] = data[m]
  BY <1>1, <1>5 DEF StackTyped
<1>9. Stacked' = Stacked /\ Pooled' = Pooled /\ Chained'
  <2>1. Stacked' = Stacked
    BY <1>5 DEF Stacked
  <2>2. Pooled' = Pooled /\ Chain(poolNext', poolTop'.addr, Pooled')
    BY <1>1, <1>5, <1>7, <1>8, PooledKept, ChainTypes
  <2>3. QED
    BY <1>1, <1>5, <2>1, <2>2 DEF Chained
<1>10. Contents' = Contents
  BY <1>1, <1>7, <1>8, <1>9, ContentsKept, ChainTypes
<1>11. StackTyped'
  <2>1. poolNext' \in [Node -> Links] /\ data' \in [Node -> Int]
    BY <1>1, <1>5, <1>6 DEF StackTyped, Links
  <2>2. capacity' \in 0..MaxNode
    BY <1>1, <1>2, StackAssumption DEF Node
  <2>3. QED
    BY <1>1, <1>3, <1>4, <1>5, <2>1, <2>2 DEF StackTyped
<1>12. NodesApart'
  <2>1. Carriers' = Carriers \cup {t}
    BY <1>1, <1>3 DEF Carriers
  <2>2. \A u \in Carriers : u # t /\ reg'[u].node = reg[u].node
    BY <1>1, <1>4 DEF Carriers
  <2>3. QED
    BY <1>1, <1>2, <1>4, <1>7, <1>9, <2>1, <2>2 DEF NodesApart
<1>13. ASSUME NEW u \in Thread PROVE Recalls(u)'
  <2>1. CASE u = t
    BY <1>1, <1>2, <1>3, <1>4, <1>5, <2>1 DEF Recalls, StackTyped
  <2>2. CASE u # t
    <3>1. Settled
      BY <1>1, <1>5, <1>8, StackAssumption DEF Settled, Node, Nil
    <3>2. u \in Carriers => reg[u].node \in Node \ {n}
      BY <1>1, <1>2, <1>7, StackAssumption DEF NodesApart, Node, StackTyped
    <3>3. QED
      BY <1>1, <1>3, <1>4, <1>5, <1>8, <2>2, <3>1, <3>2, RecallsKept
  <2>3. QED
    BY <2>1, <2>2
<1>14. QED
  BY <1>1, <1>3, <1>4, <1>9, <1>10, <1>11, <1>12, <1>13 DEF StackInv, StackEffect, Pushing

\* Push reads the top and links its node to it.
LEMMA PushReadStep ==
    ASSUME StackInv, NEW t \in Thread, PushRead(t)
    PROVE  StackInv' /\ StackEffect(t)
<1>1. /\ StackTyped /\ Chained /\ NodesApart /\ \A u \in Thread : Recalls(u)
      /\ pc[t] = "pushRead" /\ t \in Carriers
  BY DEF StackInv, PushRead, At, Carriers
<1> DEFINE n == reg[t].node
<1>2. /\ n \in 1..capacity /\ n \in Node /\ n \notin On(Stacked) /\ n \notin On(Pooled)
      /\ \A u \in Carriers : u # t => reg[u].node # n
  BY <1>1, StackAssumption DEF NodesApart, StackTyped, Node
<1>3. /\ pc' \in [Thread -> Labels] /\ pc'[t] = "pushSwap"
      /\ \A u \in Thread \ {t} : pc'[u] = pc[u]
  BY <1>1, GoesTo DEF PushRead, Labels, Pushing
<1>4. /\ reg' \in [Thread -> Regs] /\ reg'[t].old = top
      /\ reg'[t].node = n /\ reg'[t].val = reg[t].val
      /\ \A u \in Thread \ {t} : reg'[u] = reg[u]
  BY <1>1, WritesField DEF PushRead, StackTyped
<1>5. /\ next' = [next EXCEPT ![n] = top.addr]
      /\ UNCHANGED <<top, data, size, poolTop, poolNext, capacity>>
  BY DEF PushRead
<1> HIDE DEF n
<1>6. top.addr \in Node \cup {Nil}
  BY <1>1 DEF StackTyped, Pointers
<1>7. next'[n] = top.addr /\ \A m \in Node \ {n} : next'[m] = next[m]
  BY <1>1, <1>2, <1>5 DEF StackTyped
<1>8. Stacked' = Stacked /\ Pooled' = Pooled /\ Chained' /\ Contents' = Contents
  <2>1. Stacked' = Stacked /\ Chain(next', top'.addr, Stacked')
    BY <1>1, <1>2, <1>5, <1>7, StackedKept, ChainTypes
  <2>2. Pooled' = Pooled
    BY <1>5 DEF Pooled
  <2>3. Contents' = Contents
    BY <1>5, <2>1 DEF Contents
  <2>4. QED
    BY <1>1, <1>5, <2>1, <2>2, <2>3 DEF Chained
<1>9. StackTyped'
  <2>1. next' \in [Node -> Links]
    BY <1>1, <1>5, <1>6 DEF StackTyped, Links
  <2>2. QED
    BY <1>1, <1>3, <1>4, <1>5, <2>1 DEF StackTyped
<1>10. NodesApart'
  <2>1. \A u \in Carriers' : u \in Carriers /\ reg'[u].node = reg[u].node
    BY <1>1, <1>3, <1>4 DEF Carriers, n
  <2>2. QED
    BY <1>1, <1>5, <1>8, <2>1, ApartKept
<1>11. ASSUME NEW u \in Thread PROVE Recalls(u)'
  <2>1. CASE u = t
    BY <1>1, <1>3, <1>4, <1>5, <1>7, <2>1 DEF Recalls, n
  <2>2. CASE u # t
    <3>1. Settled
      BY <1>1, <1>2, <1>5, <1>7, ChainTypes, StackAssumption DEF Settled, Node, Nil
    <3>2. u \in Carriers => next'[reg[u].node] = next[reg[u].node]
      BY <1>1, <1>2, <1>7, <2>2, StackAssumption DEF NodesApart, StackTyped, Node
    <3>3. QED
      BY <1>1, <1>3, <1>4, <1>5, <2>2, <3>1, <3>2, RecallsKept
  <2>3. QED
    BY <2>1, <2>2
<1>12. QED
  BY <1>1, <1>3, <1>4, <1>8, <1>9, <1>10, <1>11 DEF StackInv, StackEffect, Pushing, n

\* Pop reads the top of the pool and links its node to it.
LEMMA FreeReadStep ==
    ASSUME StackInv, NEW t \in Thread, FreeRead(t)
    PROVE  StackInv' /\ StackEffect(t)
<1>1. /\ StackTyped /\ Chained /\ NodesApart /\ \A u \in Thread : Recalls(u)
      /\ pc[t] = "freeRead" /\ t \in Carriers
  BY DEF StackInv, FreeRead, At, Carriers
<1> DEFINE n == reg[t].node
<1>2. /\ n \in 1..capacity /\ n \in Node /\ n \notin On(Stacked) /\ n \notin On(Pooled)
      /\ \A u \in Carriers : u # t => reg[u].node # n
  BY <1>1, StackAssumption DEF NodesApart, StackTyped, Node
<1>3. /\ pc' \in [Thread -> Labels] /\ pc'[t] = "freeSwap"
      /\ \A u \in Thread \ {t} : pc'[u] = pc[u]
  BY <1>1, GoesTo DEF FreeRead, Labels, Popped
<1>4. /\ reg' \in [Thread -> Regs] /\ reg'[t].old = poolTop
      /\ reg'[t].node = n /\ reg'[t].val = reg[t].val
      /\ \A u \in Thread \ {t} : reg'[u] = reg[u]
  BY <1>1, WritesField DEF FreeRead, StackTyped
<1>5. /\ poolNext' = [poolNext EXCEPT ![n] = poolTop.addr]
      /\ UNCHANGED <<top, next, data, size, poolTop, capacity>>
  BY DEF FreeRead
<1> HIDE DEF n
<1>6. poolTop.addr \in Node \cup {Nil}
  BY <1>1 DEF StackTyped, Pointers
<1>7. poolNext'[n] = poolTop.addr /\ \A m \in Node \ {n} : poolNext'[m] = poolNext[m]
  BY <1>1, <1>2, <1>5 DEF StackTyped
<1>8. Stacked' = Stacked /\ Pooled' = Pooled /\ Chained' /\ Contents' = Contents
  <2>1. Pooled' = Pooled /\ Chain(poolNext', poolTop'.addr, Pooled')
    BY <1>1, <1>2, <1>5, <1>7, PooledKept, ChainTypes
  <2>2. Stacked' = Stacked
    BY <1>5 DEF Stacked
  <2>3. Contents' = Contents
    BY <1>5, <2>2 DEF Contents
  <2>4. QED
    BY <1>1, <1>5, <2>1, <2>2, <2>3 DEF Chained
<1>9. StackTyped'
  <2>1. poolNext' \in [Node -> Links]
    BY <1>1, <1>5, <1>6 DEF StackTyped, Links
  <2>2. QED
    BY <1>1, <1>3, <1>4, <1>5, <2>1 DEF StackTyped
<1>10. NodesApart'
  <2>1. \A u \in Carriers' : u \in Carriers /\ reg'[u].node = reg[u].node
    BY <1>1, <1>3, <1>4 DEF Carriers, n
  <2>2. QED
    BY <1>1, <1>5, <1>8, <2>1, ApartKept
<1>11. ASSUME NEW u \in Thread PROVE Recalls(u)'
  <2>1. CASE u = t
    BY <1>1, <1>3, <1>4, <1>5, <1>7, <2>1 DEF Recalls, n
  <2>2. CASE u # t
    <3>1. Settled
      BY <1>1, <1>2, <1>5, <1>7, ChainTypes, StackAssumption DEF Settled, Node, Nil
    <3>2. u \in Carriers => poolNext'[reg[u].node] = poolNext[reg[u].node]
      BY <1>1, <1>2, <1>7, <2>2, StackAssumption DEF NodesApart, StackTyped, Node
    <3>3. QED
      BY <1>1, <1>3, <1>4, <1>5, <2>2, <3>1, <3>2, RecallsKept
  <2>3. QED
    BY <2>1, <2>2
<1>12. QED
  BY <1>1, <1>3, <1>4, <1>8, <1>9, <1>10, <1>11 DEF StackInv, StackEffect, Popped, n

\* The values of a stack with the node n on top, or without its top.
LEMMA ContentsPushed ==
    ASSUME NEW n \in Node, Stacked \in Seq(Node), Stacked' = <<n>> \o Stacked, data' = data
    PROVE  Contents' = <<data[n]>> \o Contents
<1> DEFINE r == <<n>> \o Stacked
           c == <<data[n]>> \o Contents
<1>1. /\ Len(Stacked) \in Nat /\ DOMAIN Stacked = 1..Len(Stacked)
      /\ Len(r) = Len(Stacked) + 1 /\ DOMAIN r = 1..(Len(Stacked) + 1)
      /\ \A i \in 1..Len(r) : r[i] = IF i = 1 THEN n ELSE Stacked[i - 1]
  OBVIOUS
<1>2. Contents = [i \in 1..Len(Stacked) |-> data[Stacked[i]]]
  BY <1>1 DEF Contents
<1>3. Contents \in Seq({data[m] : m \in Node}) /\ Len(Contents) = Len(Stacked)
  BY <1>1, <1>2
<1>4. /\ c = [i \in 1..(Len(Stacked) + 1) |-> IF i = 1 THEN data[n] ELSE Contents[i - 1]]
  BY <1>1, <1>3
<1>5. Contents' = [i \in DOMAIN r |-> data[r[i]]]
  BY DEF Contents
<1>6. \A i \in 1..(Len(Stacked) + 1) :
        data[r[i]] = IF i = 1 THEN data[n] ELSE Contents[i - 1]
  BY <1>1, <1>2
<1>7. Contents' = [i \in 1..(Len(Stacked) + 1) |-> data[r[i]]]
  BY <1>1, <1>5
<1> HIDE DEF r, c
<1>8. Contents' = c
  BY <1>4, <1>6, <1>7
<1>9. QED
  BY <1>8 DEF c

\* Without its top node the stack has the values of the rest.
LEMMA ContentsPopped ==
    ASSUME Stacked \in Seq(Node), Stacked # <<>>, Stacked' = Tail(Stacked), data' = data
    PROVE  /\ Contents # <<>> /\ Head(Contents) = data[Stacked[1]]
           /\ Contents' = Tail(Contents)
<1> DEFINE r == Tail(Stacked)
<1>1. /\ Len(Stacked) \in Nat \ {0} /\ DOMAIN Stacked = 1..Len(Stacked)
      /\ Len(r) = Len(Stacked) - 1 /\ DOMAIN r = 1..(Len(Stacked) - 1)
      /\ \A i \in 1..Len(r) : r[i] = Stacked[i + 1]
  OBVIOUS
<1>2. Contents = [i \in 1..Len(Stacked) |-> data[Stacked[i]]]
  BY <1>1 DEF Contents
<1>3. Contents \in Seq({data[m] : m \in Node}) /\ Len(Contents) = Len(Stacked)
  BY <1>1, <1>2
<1>4. Contents # <<>> /\ Head(Contents) = Contents[1] /\ Contents[1] = data[Stacked[1]]
  BY <1>1, <1>2, <1>3
<1>5. Tail(Contents) = [i \in 1..(Len(Stacked) - 1) |-> Contents[i + 1]]
  <2>1. ASSUME NEW V, NEW c \in Seq(V), c # <<>>
        PROVE  Tail(c) = [i \in 1..(Len(c) - 1) |-> c[i + 1]]
    <3> DEFINE rest == Tail(c)
    <3>1. /\ rest \in Seq(V) /\ Len(rest) = Len(c) - 1
          /\ \A i \in 1..(Len(c) - 1) : rest[i] = c[i + 1]
      BY <2>1
    <3> HIDE DEF rest
    <3>2. rest = [i \in 1..(Len(c) - 1) |-> rest[i]]
      BY <3>1
    <3>3. QED
      BY <3>1, <3>2 DEF rest
  <2>2. QED
    BY <1>3, <1>4, <2>1
<1>6. Contents' = [i \in DOMAIN r |-> data[r[i]]]
  BY DEF Contents
<1>7. \A i \in 1..(Len(Stacked) - 1) : data[r[i]] = Contents[i + 1]
  BY <1>1, <1>2
<1>8. QED
  BY <1>1, <1>4, <1>5, <1>6, <1>7

\* Push puts its node on top when the top is still what it read.
LEMMA PushSwapStep ==
    ASSUME StackInv, NEW t \in Thread, PushSwap(t)
    PROVE  StackInv' /\ StackEffect(t)
<1>1. /\ StackTyped /\ Chained /\ NodesApart /\ \A u \in Thread : Recalls(u)
      /\ pc[t] = "pushSwap" /\ t \in Carriers
  BY DEF StackInv, PushSwap, At, Carriers
<1> DEFINE n == reg[t].node
<1>2. /\ n \in 1..capacity /\ n \in Node /\ n \notin On(Stacked) /\ n \notin On(Pooled)
      /\ \A u \in Carriers : u # t => reg[u].node # n
  BY <1>1, StackAssumption DEF NodesApart, StackTyped, Node
<1>3. CASE ~Same(top, reg[t].old)
  <2>1. /\ pc' \in [Thread -> Labels] /\ pc'[t] = "pushRead"
        /\ \A u \in Thread \ {t} : pc'[u] = pc[u]
    BY <1>1, <1>3, GoesTo DEF PushSwap, PushAgain, Labels, Pushing
  <2>2. /\ reg' \in [Thread -> Regs] /\ reg'[t].node = n /\ reg'[t].val = reg[t].val
        /\ \A u \in Thread \ {t} : reg'[u] = reg[u]
    BY <1>1, <1>3, Blank, WritesField DEF PushSwap, PushAgain
  <2>3. UNCHANGED <<top, next, data, size, poolTop, poolNext, capacity>>
    BY <1>3 DEF PushSwap, PushAgain
  <2>4. Recalls(t)'
    BY <1>1, <2>1, <2>2, <2>3 DEF Recalls
  <2>5. StackInv' /\ Contents' = Contents
    BY <1>1, <2>1, <2>2, <2>3, <2>4, ReadStep DEF Carriers
  <2>6. QED
    BY <1>1, <2>1, <2>2, <2>5 DEF StackEffect, Pushing
<1>4. CASE Same(top, reg[t].old)
  <2>1. reg[t].old = top /\ next[n] = top.addr /\ data[n] = reg[t].val
    BY <1>1, <1>4 DEF Same, Recalls
  <2>2. /\ pc' \in [Thread -> Labels] /\ pc'[t] = "pushed"
        /\ \A u \in Thread \ {t} : pc'[u] = pc[u]
    BY <1>1, <1>4, GoesTo DEF PushSwap, Labels
  <2>3. reg' \in [Thread -> Regs] /\ \A u \in Thread \ {t} : reg'[u] = reg[u]
    BY <1>1, <1>4, Blank, WritesDown DEF PushSwap
  <2>4. top' = [addr |-> n, tag |-> top.tag + 1] /\ top'.addr = n /\ top'.tag = top.tag + 1
    BY <1>4, <2>1 DEF PushSwap, Retag
  <2>5. UNCHANGED <<next, data, poolTop, poolNext, capacity>> /\ size' = size + 1
    BY <1>4 DEF PushSwap
  <2> HIDE DEF n
  <2>6. /\ Chain(next, n, <<n>> \o Stacked) /\ On(<<n>> \o Stacked) = On(Stacked) \cup {n}
    BY <1>1, <1>2, <2>1, ChainPush DEF Chained
  <2>7. Stacked' = <<n>> \o Stacked /\ Pooled' = Pooled /\ Chained'
    <3>1. Stacked' = <<n>> \o Stacked
      BY <2>4, <2>5, <2>6, StackedIs
    <3>2. Pooled' = Pooled
      BY <2>5 DEF Pooled
    <3>3. QED
      BY <1>1, <2>4, <2>5, <2>6, <3>1, <3>2 DEF Chained
  <2>8. Contents' = <<reg[t].val>> \o Contents
    BY <1>1, <1>2, <2>1, <2>5, <2>7, ContentsPushed, ChainTypes
  <2>9. StackTyped'
    <3>1. top' \in Pointers /\ size' \in Int
      BY <1>1, <1>2, <2>4, <2>5 DEF StackTyped, Pointers
    <3>2. QED
      BY <1>1, <2>2, <2>3, <2>5, <3>1 DEF StackTyped
  <2>10. NodesApart'
    <3>1. On(Stacked') = On(Stacked) \cup {n}
      BY <2>6, <2>7
    <3>2. Carriers' = Carriers \ {t}
      BY <1>1, <2>2 DEF Carriers
    <3>3. \A u \in Carriers \ {t} : reg'[u].node = reg[u].node /\ reg[u].node # n
      BY <1>2, <2>3 DEF Carriers
    <3>4. QED
      BY <1>1, <1>2, <2>5, <2>7, <3>1, <3>2, <3>3, SMTT(30) DEF NodesApart
  <2>11. ASSUME NEW u \in Thread PROVE Recalls(u)'
    <3>1. CASE u = t
      BY <2>2, <3>1 DEF Recalls
    <3>2. CASE u # t
      <4>1. Settled
        BY <2>4, <2>5 DEF Settled
      <4>2. QED
        BY <1>1, <2>2, <2>3, <2>5, <3>2, <4>1, RecallsKept
    <3>3. QED
      BY <3>1, <3>2
  <2>12. QED
    BY <1>1, <2>2, <2>3, <2>7, <2>8, <2>9, <2>10, <2>11 DEF StackInv, StackEffect
<1>5. QED
  BY <1>3, <1>4

\* Pop gives its node to the pool when the top is still what it read.
LEMMA FreeSwapStep ==
    ASSUME StackInv, NEW t \in Thread, FreeSwap(t)
    PROVE  StackInv' /\ StackEffect(t)
<1>1. /\ StackTyped /\ Chained /\ NodesApart /\ \A u \in Thread : Recalls(u)
      /\ pc[t] = "freeSwap" /\ t \in Carriers
  BY DEF StackInv, FreeSwap, At, Carriers
<1> DEFINE n == reg[t].node
<1>2. /\ n \in 1..capacity /\ n \in Node /\ n \notin On(Stacked) /\ n \notin On(Pooled)
      /\ \A u \in Carriers : u # t => reg[u].node # n
  BY <1>1, StackAssumption DEF NodesApart, StackTyped, Node
<1>3. CASE ~Same(poolTop, reg[t].old)
  <2>1. /\ pc' \in [Thread -> Labels] /\ pc'[t] = "freeRead"
        /\ \A u \in Thread \ {t} : pc'[u] = pc[u]
    BY <1>1, <1>3, GoesTo DEF FreeSwap, Labels, Popped
  <2>2. /\ reg' \in [Thread -> Regs] /\ reg'[t].node = n /\ reg'[t].val = reg[t].val
        /\ \A u \in Thread \ {t} : reg'[u] = reg[u]
    BY <1>1, <1>3, Blank, WritesField DEF FreeSwap
  <2>3. UNCHANGED <<top, next, data, size, poolTop, poolNext, capacity>>
    BY <1>3 DEF FreeSwap
  <2>4. Recalls(t)'
    BY <2>1 DEF Recalls
  <2>5. StackInv' /\ Contents' = Contents
    BY <1>1, <2>1, <2>2, <2>3, <2>4, ReadStep DEF Carriers
  <2>6. QED
    BY <1>1, <2>1, <2>2, <2>5 DEF StackEffect, Popped
<1>4. CASE Same(poolTop, reg[t].old)
  <2>1. reg[t].old = poolTop /\ poolNext[n] = poolTop.addr
    BY <1>1, <1>4 DEF Same, Recalls
  <2>2. /\ pc' \in [Thread -> Labels] /\ pc'[t] = "popped"
        /\ \A u \in Thread \ {t} : pc'[u] = pc[u]
    BY <1>1, <1>4, GoesTo DEF FreeSwap, Labels, Popped
  <2>3. /\ reg' \in [Thread -> Regs] /\ reg'[t].val = reg[t].val
        /\ \A u \in Thread \ {t} : reg'[u] = reg[u]
    <3>1. reg[t].val \in Int
      BY <1>1 DEF StackTyped, Regs
    <3>2. QED
      BY <1>1, <1>4, <3>1, Blank, WritesDown DEF FreeSwap
  <2>4. /\ poolTop' = [addr |-> n, tag |-> poolTop.tag + 1]
        /\ poolTop'.addr = n /\ poolTop'.tag = poolTop.tag + 1
    BY <1>4, <2>1 DEF FreeSwap, Retag
  <2>5. UNCHANGED <<top, next, data, size, poolNext, capacity>>
    BY DEF FreeSwap
  <2> HIDE DEF n
  <2>6. /\ Chain(poolNext, n, <<n>> \o Pooled) /\ On(<<n>> \o Pooled) = On(Pooled) \cup {n}
    BY <1>1, <1>2, <2>1, ChainPush DEF Chained
  <2>7. Pooled' = <<n>> \o Pooled /\ Stacked' = Stacked /\ Chained'
    <3>1. Pooled' = <<n>> \o Pooled
      BY <2>4, <2>5, <2>6, PooledIs
    <3>2. Stacked' = Stacked
      BY <2>5 DEF Stacked
    <3>3. QED
      BY <1>1, <2>4, <2>5, <2>6, <3>1, <3>2 DEF Chained
  <2>8. Contents' = Contents
    BY <2>5, <2>7 DEF Contents
  <2>9. StackTyped'
    <3>1. poolTop' \in Pointers
      BY <1>1, <1>2, <2>4 DEF StackTyped, Pointers
    <3>2. QED
      BY <1>1, <2>2, <2>3, <2>5, <3>1 DEF StackTyped
  <2>10. NodesApart'
    <3>1. On(Pooled') = On(Pooled) \cup {n}
      BY <2>6, <2>7
    <3>2. Carriers' = Carriers \ {t}
      BY <1>1, <2>2 DEF Carriers
    <3>3. \A u \in Carriers \ {t} : reg'[u].node = reg[u].node /\ reg[u].node # n
      BY <1>2, <2>3 DEF Carriers
    <3>4. QED
      BY <1>1, <1>2, <2>5, <2>7, <3>1, <3>2, <3>3 DEF NodesApart
  <2>11. ASSUME NEW u \in Thread PROVE Recalls(u)'
    <3>1. CASE u = t
      BY <2>2, <3>1 DEF Recalls
    <3>2. CASE u # t
      <4>1. Settled
        BY <2>4, <2>5 DEF Settled
      <4>2. QED
        BY <1>1, <2>2, <2>3, <2>5, <3>2, <4>1, RecallsKept
    <3>3. QED
      BY <3>1, <3>2
  <2>12. QED
    BY <1>1, <2>2, <2>3, <2>7, <2>8, <2>9, <2>10, <2>11 DEF StackInv, StackEffect, Popped
<1>5. QED
  BY <1>3, <1>4

\* Pop takes the top node when the top, tag included, is still what it read.
LEMMA PopSwapStep ==
    ASSUME StackInv, NEW t \in Thread, PopSwap(t)
    PROVE  StackInv' /\ StackEffect(t)
<1>1. /\ StackTyped /\ Chained /\ NodesApart /\ \A u \in Thread : Recalls(u)
      /\ pc[t] = "popSwap"
  BY DEF StackInv, PopSwap, At
<1>2. CASE ~Same(top, reg[t].old)
  <2>1. /\ pc' \in [Thread -> Labels] /\ pc'[t] = "popRead"
        /\ \A u \in Thread \ {t} : pc'[u] = pc[u]
    BY <1>1, <1>2, GoesTo DEF PopSwap, Labels, Popping
  <2>2. reg' \in [Thread -> Regs] /\ \A u \in Thread \ {t} : reg'[u] = reg[u]
    BY <1>1, <1>2, Blank, WritesDown DEF PopSwap
  <2>3. UNCHANGED <<top, next, data, size, poolTop, poolNext, capacity>>
    BY <1>2 DEF PopSwap
  <2>4. Recalls(t)'
    BY <2>1 DEF Recalls
  <2>5. StackInv' /\ Contents' = Contents
    BY <2>1, <2>2, <2>3, <2>4, ReadStep DEF Carriers
  <2>6. QED
    BY <1>1, <2>1, <2>2, <2>5 DEF StackEffect, Popping
<1>3. CASE Same(top, reg[t].old)
  <2> DEFINE n == top.addr
  <2>1. reg[t].old = top /\ n \in Node /\ n # Nil /\ reg[t].after = next[n]
    <3>1. reg[t].old = top
      BY <1>3 DEF Same
    <3>2. n \in Node /\ reg[t].after = next[n]
      BY <1>1, <3>1 DEF Recalls
    <3>3. QED
      BY <3>1, <3>2, StackAssumption DEF Node, Nil
  <2>2. /\ pc' \in [Thread -> Labels] /\ pc'[t] = "freeRead"
        /\ \A u \in Thread \ {t} : pc'[u] = pc[u]
    BY <1>1, <1>3, GoesTo DEF PopSwap, Labels, Popped
  <2>3. /\ reg' \in [Thread -> Regs] /\ reg'[t].node = n /\ reg'[t].val = data[n]
        /\ \A u \in Thread \ {t} : reg'[u] = reg[u]
    <3>1. reg' = [reg EXCEPT ![t] = [NoReg EXCEPT !.node = n, !.val = data[n]]]
      BY <1>3, <2>1 DEF PopSwap
    <3>2. data[n] \in Int
      BY <1>1, <2>1 DEF StackTyped
    <3> DEFINE r == [NoReg EXCEPT !.node = n, !.val = data[n]]
    <3>3. r \in Regs /\ r.node = n /\ r.val = data[n]
      BY <2>1, <3>2, Blank
    <3> HIDE DEF r
    <3>4. QED
      BY <1>1, <3>1, <3>3, WritesDown DEF r
  <2>4. /\ top'.addr = next[n] /\ top'.tag = top.tag + 1
        /\ top' = [addr |-> next[n], tag |-> top.tag + 1]
    BY <1>3, <2>1 DEF PopSwap, Retag
  <2>5. UNCHANGED <<next, data, poolTop, poolNext, capacity>> /\ size' = size - 1
    BY <1>3 DEF PopSwap
  <2>6. /\ n \in On(Stacked) /\ Chain(next, next[n], Tail(Stacked)) /\ Len(Stacked) # 0
        /\ Stacked[1] = n /\ On(Tail(Stacked)) = On(Stacked) \ {n}
    BY <1>1, <2>1, ChainPop DEF Chained
  <2>7. Stacked' = Tail(Stacked) /\ Pooled' = Pooled /\ Chained'
    <3>1. Stacked' = Tail(Stacked)
      BY <2>4, <2>5, <2>6, StackedIs
    <3>2. Pooled' = Pooled
      BY <2>5 DEF Pooled
    <3>3. QED
      BY <1>1, <2>4, <2>5, <2>6, <3>1, <3>2 DEF Chained
  <2>8. Contents # <<>> /\ Head(Contents) = data[n] /\ Contents' = Tail(Contents)
    <3>1. Stacked \in Seq(Node) /\ Stacked # <<>>
      BY <1>1, <2>6, ChainTypes
    <3>2. QED
      BY <2>5, <2>6, <2>7, <3>1, ContentsPopped
  <2>9. StackTyped'
    <3>1. next[n] \in Node \cup {Nil}
      BY <2>6, ChainHead
    <3>2. top' \in Pointers /\ size' \in Int
      BY <1>1, <2>4, <2>5, <3>1 DEF StackTyped, Pointers
    <3>3. QED
      BY <1>1, <2>2, <2>3, <2>5, <3>2 DEF StackTyped
  <2>10. NodesApart'
    <3>1. On(Stacked') = On(Stacked) \ {n} /\ n \notin On(Pooled)
      BY <1>1, <2>6, <2>7 DEF NodesApart
    <3>2. Carriers' = Carriers \cup {t}
      BY <1>1, <2>2 DEF Carriers
    <3>3. \A u \in Carriers : u # t /\ reg'[u].node = reg[u].node /\ reg[u].node # n
      BY <1>1, <2>3, <2>6 DEF Carriers, NodesApart
    <3>4. n \in 1..capacity
      BY <1>1, <2>6 DEF NodesApart
    <3>5. QED
      BY <1>1, <2>3, <2>5, <2>7, <3>1, <3>2, <3>3, <3>4 DEF NodesApart
  <2>11. ASSUME NEW u \in Thread PROVE Recalls(u)'
    <3>1. CASE u = t
      BY <2>2, <3>1 DEF Recalls
    <3>2. CASE u # t
      <4>1. Settled
        BY <2>4, <2>5 DEF Settled
      <4>2. QED
        BY <1>1, <2>2, <2>3, <2>5, <3>2, <4>1, RecallsKept
    <3>3. QED
      BY <3>1, <3>2
  <2>12. QED
    BY <1>1, <2>2, <2>3, <2>7, <2>8, <2>9, <2>10, <2>11 DEF StackInv, StackEffect, Popping
<1>4. QED
  BY <1>2, <1>3

\* Each step inside Push or Pop keeps the invariant of the stack.
LEMMA StackStepKeeps ==
    ASSUME StackInv, NEW t \in Thread, StackStep(t)
    PROVE  StackInv' /\ StackEffect(t)
BY PoolAllocReadStep, PoolAllocNewStep, PoolAllocNextStep, PoolAllocSwapStep, PushReadStep,
   PushSwapStep, PopReadStep, PopNextStep, PopSwapStep, FreeReadStep, FreeSwapStep
   DEF StackStep
-----------------------------------------------------------------------------
(* The initial states, the calls and the returns *)

\* Whatever is pushed before the threads begin, the stack is in order.
LEMMA StackInitInv ==
    ASSUME NEW n \in 0..MaxNode, NEW v, \A i \in 1..n : v[i] \in Int, StackInit(n, v)
    PROVE  /\ StackInv /\ Len(Contents) = n /\ DOMAIN Contents = 1..n
           /\ \A i \in 1..n : Contents[i] = v[i]
           /\ \A t \in Thread : pc[t] = "idle"
<1>1. n \in Nat /\ MaxNode \in Nat /\ \A i \in 1..n : i \in Node
  BY StackAssumption DEF Node
<1> DEFINE s == [i \in 1..n |-> i]
<1>2. s \in Seq(Node) /\ Len(s) = n /\ \A i \in 1..n : s[i] = i
  BY <1>1
<1>3. Chain(next, top.addr, s)
  <2>1. top.addr = IF n = 0 THEN Nil ELSE 1
    BY DEF StackInit
  <2>2. ASSUME NEW i \in 1..n PROVE next[i] = IF i < n THEN i + 1 ELSE Nil
    BY <1>1 DEF StackInit
  <2>3. \A i \in 1..n : i < n => i + 1 \in 1..n
    BY <1>1
  <2> HIDE DEF s
  <2>4. QED
    BY <1>1, <1>2, <2>1, <2>2, <2>3 DEF Chain, Distinct
<1>4. Chain(poolNext, poolTop.addr, <<>>)
  <2>1. poolTop.addr = Nil
    BY DEF StackInit
  <2>2. QED
    BY <2>1 DEF Chain, Distinct
<1> HIDE DEF s
<1>5. Stacked = s /\ Pooled = <<>>
  BY <1>3, <1>4, ChainIs DEF Stacked, Pooled
<1>6. Chained
  BY <1>3, <1>4, <1>5 DEF Chained
<1>7. StackTyped
  <2>1. top \in Pointers /\ poolTop \in Pointers
    BY <1>1 DEF StackInit, Pointers, Node, Nil
  <2>2. next \in [Node -> Links] /\ poolNext \in [Node -> Links]
    <3>1. ASSUME NEW i \in Node
          PROVE  (IF i < n THEN i + 1 ELSE IF i = n THEN Nil ELSE Junk) \in Links
      BY <1>1 DEF Node, Links
    <3>2. ASSUME NEW i \in Node PROVE (IF i > n THEN Junk ELSE i - 1) \in Links
      BY <1>1 DEF Node, Links, Nil
    <3>3. QED
      BY <3>1, <3>2 DEF StackInit, PooledNodes
  <2>3. data \in [Node -> Int]
    <3>1. ASSUME NEW i \in Node PROVE (IF i <= n THEN v[i] ELSE Junk) \in Int
      BY <1>1 DEF Node, Junk
    <3>2. QED
      BY <3>1 DEF StackInit
  <2>4. pc \in [Thread -> Labels] /\ reg \in [Thread -> Regs]
    BY Blank DEF StackInit, Labels
  <2>5. QED
    BY <1>1, <2>1, <2>2, <2>3, <2>4 DEF StackTyped, StackInit
<1>8. \A t \in Thread : pc[t] = "idle"
  BY DEF StackInit
<1>9. NodesApart
  <2>1. Carriers = {}
    BY <1>8 DEF Carriers
  <2>2. capacity = n
    BY DEF StackInit
  <2>3. On(Pooled) = {} /\ On(Stacked) \subseteq 1..n
    BY <1>2, <1>5 DEF On
  <2>4. QED
    BY <2>1, <2>2, <2>3 DEF NodesApart
<1>10. ASSUME NEW t \in Thread PROVE Recalls(t)
  BY <1>8 DEF Recalls
<1>11. Contents = [i \in 1..n |-> data[i]]
  BY <1>2, <1>5 DEF Contents, s
<1>12. ASSUME NEW i \in 1..n PROVE data[i] = v[i]
  BY <1>1 DEF StackInit
<1>13. Len(Contents) = n
  BY <1>1, <1>11
<1>14. QED
  BY <1>6, <1>7, <1>8, <1>9, <1>10, <1>11, <1>12, <1>13 DEF StackInv

\* The calls and the return touch nothing the threads share.
LEMMA PushCallKeeps ==
    ASSUME StackInv, NEW t \in Thread, NEW x \in Int, PushCall(t, x)
    PROVE  /\ StackInv' /\ Contents' = Contents
           /\ pc[t] = "idle" /\ pc'[t] = "poolAlloc" /\ reg'[t].val = x
           /\ \A u \in Thread \ {t} : pc'[u] = pc[u] /\ reg'[u] = reg[u]
<1>1. StackTyped /\ pc[t] = "idle"
  BY DEF StackInv, PushCall, At
<1>2. /\ pc' \in [Thread -> Labels] /\ pc'[t] = "poolAlloc"
      /\ \A u \in Thread \ {t} : pc'[u] = pc[u]
  BY <1>1, GoesTo DEF PushCall, Labels, Pushing
<1>3. /\ reg' \in [Thread -> Regs] /\ reg'[t].val = x
      /\ \A u \in Thread \ {t} : reg'[u] = reg[u]
  BY <1>1, WritesField DEF PushCall
<1>4. UNCHANGED <<top, next, data, size, poolTop, poolNext, capacity>>
  BY DEF PushCall
<1>5. Recalls(t)' /\ t \notin Carriers'
  BY <1>2 DEF Recalls, Carriers
<1>6. StackInv' /\ Contents' = Contents
  BY <1>2, <1>3, <1>4, <1>5, ReadStep
<1>7. QED
  BY <1>1, <1>2, <1>3, <1>6

\* The call of Pop changes no node.
LEMMA PopCallKeeps ==
    ASSUME StackInv, NEW t \in Thread, PopCall(t)
    PROVE  /\ StackInv' /\ Contents' = Contents
           /\ pc[t] = "idle" /\ pc'[t] = "popRead" /\ reg' = reg
           /\ \A u \in Thread \ {t} : pc'[u] = pc[u] /\ reg'[u] = reg[u]
<1>1. StackTyped /\ pc[t] = "idle"
  BY DEF StackInv, PopCall, At
<1>2. /\ pc' \in [Thread -> Labels] /\ pc'[t] = "popRead"
      /\ \A u \in Thread \ {t} : pc'[u] = pc[u]
  BY <1>1, GoesTo DEF PopCall, Labels, Popping
<1>3. UNCHANGED <<top, next, data, size, poolTop, poolNext, capacity>> /\ reg' = reg
  BY DEF PopCall
<1>4. reg' \in [Thread -> Regs]
  BY <1>1, <1>3 DEF StackTyped
<1>5. Recalls(t)' /\ t \notin Carriers'
  BY <1>2 DEF Recalls, Carriers
<1>6. StackInv' /\ Contents' = Contents
  BY <1>2, <1>3, <1>4, <1>5, ReadStep
<1>7. QED
  BY <1>1, <1>2, <1>3, <1>6

\* The return of a call changes no node.
LEMMA ReturnKeeps ==
    ASSUME StackInv, NEW t \in Thread, StackReturn(t)
    PROVE  /\ StackInv' /\ Contents' = Contents
           /\ pc[t] \in {"pushed", "popped", "empty"} /\ pc'[t] = "idle"
           /\ \A u \in Thread \ {t} : pc'[u] = pc[u] /\ reg'[u] = reg[u]
<1>1. StackTyped /\ pc[t] \in {"pushed", "popped", "empty"}
  BY DEF StackInv, StackReturn
<1>2. /\ pc' \in [Thread -> Labels] /\ pc'[t] = "idle"
      /\ \A u \in Thread \ {t} : pc'[u] = pc[u]
  BY <1>1, GoesTo DEF StackReturn, Labels
<1>3. reg' \in [Thread -> Regs] /\ \A u \in Thread \ {t} : reg'[u] = reg[u]
  BY <1>1, Blank, WritesDown DEF StackReturn
<1>4. UNCHANGED <<top, next, data, size, poolTop, poolNext, capacity>>
  BY DEF StackReturn
<1>5. Recalls(t)' /\ t \notin Carriers'
  BY <1>2 DEF Recalls, Carriers
<1>6. StackInv' /\ Contents' = Contents
  BY <1>2, <1>3, <1>4, <1>5, ReadStep
<1>7. QED
  BY <1>1, <1>2, <1>3, <1>6

\* A step that leaves the stack alone keeps all of it.
LEMMA StackStutter ==
    ASSUME StackInv, UNCHANGED stackVars
    PROVE  StackInv' /\ Contents' = Contents
<1>1. Stacked' = Stacked /\ Pooled' = Pooled
  BY DEF stackVars, Stacked, Pooled
<1>2. Contents' = Contents
  BY <1>1 DEF Contents, stackVars
<1>3. StackTyped' /\ Chained' /\ NodesApart'
  BY <1>1 DEF StackInv, StackTyped, Chained, NodesApart, Carriers, stackVars
<1>4. ASSUME NEW t \in Thread PROVE Recalls(t)'
  BY DEF StackInv, Recalls, stackVars
<1>5. QED
  BY <1>2, <1>3, <1>4 DEF StackInv
-----------------------------------------------------------------------------
(* What the steps do to the values *)

\* The values on the stack are integers, one for each node.
LEMMA ContentsTypes ==
    ASSUME StackInv
    PROVE  /\ Contents \in Seq(Int) /\ Len(Contents) = Len(Stacked) /\ Len(Contents) \in Nat
           /\ DOMAIN Contents = DOMAIN Stacked /\ DOMAIN Contents = 1..Len(Contents)
           /\ \A i \in 1..Len(Contents) : Contents[i] = data[Stacked[i]]
<1>1. Stacked \in Seq(Node) /\ Len(Stacked) \in Nat /\ DOMAIN Stacked = 1..Len(Stacked)
  BY ChainTypes DEF StackInv
<1>2. \A i \in 1..Len(Stacked) : data[Stacked[i]] \in Int
  BY <1>1 DEF StackInv, StackTyped
<1>3. Contents = [i \in 1..Len(Stacked) |-> data[Stacked[i]]]
  BY <1>1 DEF Contents
<1>4. QED
  BY <1>1, <1>2, <1>3

\* A step inside Push or Pop neither loses nor doubles a value.
LEMMA StepValues ==
    ASSUME StackInv, ValuesApart, NEW t \in Thread, StackEffect(t)
    PROVE  ValuesApart' /\ Values' = Values
<1>1. Contents \in Seq(Int)
  BY ContentsTypes
<1>2. \A u \in Thread \ {t} : /\ u \in Hands' <=> u \in Hands
                              /\ reg'[u].val = reg[u].val
  BY DEF StackEffect, Hands
<1>3. reg[t].val \in Int
  BY DEF StackInv, StackTyped, Regs
<1>4. CASE Contents' = Contents /\ ~(t \in Hands) /\ ~(t \in Hands')
  <2>1. Hands' = Hands /\ \A u \in Hands : reg'[u].val = reg[u].val
    BY <1>2, <1>4 DEF Hands
  <2>2. QED
    BY <1>4, <2>1 DEF ValuesApart, Values
<1>5. CASE Contents' = Contents /\ t \in Hands /\ t \in Hands' /\ reg'[t].val = reg[t].val
  <2>1. Hands' = Hands /\ \A u \in Hands : reg'[u].val = reg[u].val
    BY <1>2, <1>5 DEF Hands
  <2>2. QED
    BY <1>5, <2>1 DEF ValuesApart, Values
<1>6. CASE /\ pc[t] = "pushSwap" /\ pc'[t] = "pushed"
           /\ Contents' = <<reg[t].val>> \o Contents
  <2>1. t \in Hands /\ Hands' = Hands \ {t} /\ \A u \in Hands' : reg'[u].val = reg[u].val
    BY <1>2, <1>6 DEF Hands, Pushing, Popped
  <2>2. reg[t].val \notin On(Contents)
    BY <2>1 DEF ValuesApart
  <2>3. On(Contents') = On(Contents) \cup {reg[t].val} /\ Distinct(Contents')
    BY <1>1, <1>3, <1>6, <2>2, OnPushed DEF ValuesApart
  <2>4. QED
    BY <2>1, <2>3 DEF ValuesApart, Values
<1>7. CASE /\ pc[t] \in Popping /\ pc'[t] = "freeRead" /\ Contents # <<>>
           /\ reg'[t].val = Head(Contents) /\ Contents' = Tail(Contents)
  <2>1. /\ t \notin Hands /\ Hands' = Hands \cup {t}
        /\ \A u \in Hands : u # t /\ reg'[u].val = reg[u].val
    BY <1>2, <1>7 DEF Hands, Pushing, Popped, Popping
  <2>2. /\ Head(Contents) \in On(Contents) /\ On(Contents') = On(Contents) \ {Head(Contents)}
        /\ Distinct(Contents')
    BY <1>1, <1>7, OnPopped DEF ValuesApart
  <2>3. QED
    BY <1>7, <2>1, <2>2 DEF ValuesApart, Values
<1>8. QED
  <2>1. /\ pc[t] \in Popping => t \notin Hands
        /\ pc[t] \in Pushing \cup Popped <=> t \in Hands
        /\ pc'[t] \in Pushing \cup Popped <=> t \in Hands'
        /\ pc'[t] \in Popping \cup {"empty"} => t \notin Hands'
    BY DEF Hands, Pushing, Popped, Popping
  <2>2. QED
    BY <1>4, <1>5, <1>6, <1>7, <2>1 DEF StackEffect

\* A Push brings a value that is nowhere yet, a Pop that has ended takes one away.
LEMMA PushCallValues ==
    ASSUME StackInv, ValuesApart, NEW t \in Thread, NEW x \in Int, x \notin Values,
           PushCall(t, x)
    PROVE  ValuesApart' /\ Values' = Values \cup {x}
<1>1. /\ Contents' = Contents /\ pc[t] = "idle" /\ pc'[t] = "poolAlloc" /\ reg'[t].val = x
      /\ \A u \in Thread \ {t} : pc'[u] = pc[u] /\ reg'[u] = reg[u]
  BY PushCallKeeps
<1>2. /\ t \notin Hands /\ Hands' = Hands \cup {t}
      /\ \A u \in Hands : u # t /\ reg'[u].val = reg[u].val
  BY <1>1 DEF Hands, Pushing, Popped
<1>3. x \notin On(Contents) /\ \A u \in Hands : reg[u].val # x
  BY DEF Values
<1>4. QED
  BY <1>1, <1>2, <1>3 DEF ValuesApart, Values

\* The call of Pop changes no value.
LEMMA PopCallValues ==
    ASSUME StackInv, ValuesApart, NEW t \in Thread, PopCall(t)
    PROVE  ValuesApart' /\ Values' = Values
<1>1. /\ Contents' = Contents /\ pc[t] = "idle" /\ pc'[t] = "popRead" /\ reg' = reg
      /\ \A u \in Thread \ {t} : pc'[u] = pc[u]
  BY PopCallKeeps
<1>2. Hands' = Hands
  BY <1>1 DEF Hands, Pushing, Popped
<1>3. QED
  BY <1>1, <1>2 DEF ValuesApart, Values

\* The return of Pop hands its value to the caller.
LEMMA ReturnValues ==
    ASSUME StackInv, ValuesApart, NEW t \in Thread, StackReturn(t)
    PROVE  /\ ValuesApart'
           /\ Values' = IF pc[t] = "popped" THEN Values \ {reg[t].val} ELSE Values
           /\ pc[t] = "popped" => reg[t].val \in Values
<1>1. /\ Contents' = Contents /\ pc[t] \in {"pushed", "popped", "empty"} /\ pc'[t] = "idle"
      /\ \A u \in Thread \ {t} : pc'[u] = pc[u] /\ reg'[u] = reg[u]
  BY ReturnKeeps
<1>2. /\ Hands' = Hands \ {t} /\ (t \in Hands <=> pc[t] = "popped")
      /\ \A u \in Hands' : u # t /\ reg'[u].val = reg[u].val
  BY <1>1 DEF Hands, Pushing, Popped
<1>3. ValuesApart'
  BY <1>1, <1>2 DEF ValuesApart
<1>4. CASE pc[t] = "popped"
  <2>1. \A u \in Hands : u # t => reg[u].val # reg[t].val
    BY <1>2, <1>4 DEF ValuesApart
  <2>2. reg[t].val \notin On(Contents)
    BY <1>2, <1>4 DEF ValuesApart
  <2>3. {reg'[u].val : u \in Hands'} = {reg[u].val : u \in Hands} \ {reg[t].val}
    BY <1>2, <1>4, <2>1
  <2>4. QED
    BY <1>1, <1>2, <1>3, <1>4, <2>2, <2>3 DEF Values
<1>5. CASE pc[t] # "popped"
  <2>1. Hands' = Hands
    BY <1>2, <1>5
  <2>2. QED
    BY <1>1, <1>2, <1>3, <1>5, <2>1 DEF Values
<1>6. QED
  BY <1>4, <1>5

-----------------------------------------------------------------------------
(* The free slots *)

\* Start pushes every slot.
LEMMA SlotsInit ==
    ASSUME Init, use = "slots"
    PROVE  StackInv /\ SlotsInv
<1>1. MaxSession \in 0..MaxNode /\ MaxSession \in Nat
  BY UsesAssumption, StackAssumption
<1> DEFINE v == [i \in Node |-> i]
<1>2. \A i \in 1..MaxSession : v[i] = i /\ v[i] \in Int
  BY <1>1, StackAssumption DEF Node
<1>3. StackInit(MaxSession, v)
  BY DEF Init
<1> HIDE DEF v
<1>4. /\ StackInv /\ Len(Contents) = MaxSession
      /\ \A i \in 1..MaxSession : Contents[i] = v[i]
      /\ \A t \in Thread : pc[t] = "idle"
  BY <1>1, <1>2, <1>3, StackInitInv
<1>5. \A i \in 1..MaxSession : Contents[i] = i
  BY <1>2, <1>4
<1>6. Hands = {}
  BY <1>4 DEF Hands, Pushing, Popped
<1>7. On(Contents) = Slot /\ Distinct(Contents)
  BY <1>4, <1>5 DEF On, Distinct, Slot
<1>8. ValuesApart /\ Values = Slot
  BY <1>6, <1>7 DEF ValuesApart, Values
<1>9. open = {}
  BY DEF Init
<1>10. Acceptor \in Thread /\ Workers \subseteq Thread
  BY UsesAssumption DEF Workers
<1>11. QED
  BY <1>4, <1>8, <1>9, <1>10 DEF SlotsInv

\* Each step of the accept thread and of the workers leaves the slots in one place.
LEMMA SlotsStep ==
    ASSUME StackInv, SlotsInv, SlotNext
    PROVE  StackInv' /\ SlotsInv'
<1>1. Acceptor \in Thread /\ Acceptor \notin Workers /\ Workers \subseteq Thread
      /\ \A t \in Thread : t = Acceptor \/ t \in Workers
  BY UsesAssumption DEF Workers
<1>2. Slot \subseteq Int
  BY UsesAssumption, StackAssumption DEF Slot
<1>3. CASE AcceptCall
  <2>1. PopCall(Acceptor) /\ open' = open
    BY <1>3 DEF AcceptCall
  <2>2. StackInv' /\ ValuesApart' /\ Values' = Values
    BY <1>1, <2>1, PopCallKeeps, PopCallValues DEF SlotsInv
  <2>3. pc'[Acceptor] = "popRead" /\ \A u \in Workers : pc'[u] = pc[u]
    BY <1>1, <2>1, PopCallKeeps
  <2>4. QED
    BY <1>1, <2>1, <2>2, <2>3 DEF SlotsInv, Popping
<1>4. CASE AcceptSession
  <2>1. /\ StackReturn(Acceptor) /\ open' = open \cup {reg[Acceptor].val}
        /\ pc[Acceptor] = "popped"
    BY <1>4 DEF AcceptSession, At
  <2>2. /\ StackInv' /\ ValuesApart' /\ Values' = Values \ {reg[Acceptor].val}
        /\ reg[Acceptor].val \in Values
    BY <1>1, <2>1, ReturnKeeps, ReturnValues DEF SlotsInv
  <2>3. pc'[Acceptor] = "idle" /\ \A u \in Workers : pc'[u] = pc[u]
    BY <1>1, <2>1, ReturnKeeps
  <2>4. QED
    BY <1>1, <2>1, <2>2, <2>3 DEF SlotsInv
<1>5. CASE AcceptRefused
  <2>1. StackReturn(Acceptor) /\ open' = open /\ pc[Acceptor] = "empty"
    BY <1>5 DEF AcceptRefused, At
  <2>2. StackInv' /\ ValuesApart' /\ Values' = Values
    BY <1>1, <2>1, ReturnKeeps, ReturnValues DEF SlotsInv
  <2>3. pc'[Acceptor] = "idle" /\ \A u \in Workers : pc'[u] = pc[u]
    BY <1>1, <2>1, ReturnKeeps
  <2>4. QED
    BY <1>1, <2>1, <2>2, <2>3 DEF SlotsInv
<1>6. ASSUME NEW w \in Workers, NEW i \in open, ReleaseCall(w, i)
      PROVE  StackInv' /\ SlotsInv'
  <2>1. PushCall(w, i) /\ open' = open \ {i} /\ i \in Slot /\ i \in Int /\ i \notin Values
    BY <1>2, <1>6 DEF ReleaseCall, SlotsInv
  <2>2. StackInv' /\ ValuesApart' /\ Values' = Values \cup {i}
    BY <1>1, <2>1, PushCallKeeps, PushCallValues DEF SlotsInv
  <2>3. /\ pc'[w] = "poolAlloc" /\ pc'[Acceptor] = pc[Acceptor]
        /\ \A u \in Workers : u # w => pc'[u] = pc[u]
    BY <1>1, <2>1, PushCallKeeps
  <2>4. QED
    BY <1>1, <2>1, <2>2, <2>3 DEF SlotsInv, Pushing
<1>7. ASSUME NEW w \in Workers, ReleaseDone(w)
      PROVE  StackInv' /\ SlotsInv'
  <2>1. StackReturn(w) /\ open' = open /\ pc[w] = "pushed"
    BY <1>7 DEF ReleaseDone, At
  <2>2. StackInv' /\ ValuesApart' /\ Values' = Values
    BY <1>1, <2>1, ReturnKeeps, ReturnValues DEF SlotsInv
  <2>3. /\ pc'[w] = "idle" /\ pc'[Acceptor] = pc[Acceptor]
        /\ \A u \in Workers : u # w => pc'[u] = pc[u]
    BY <1>1, <2>1, ReturnKeeps
  <2>4. QED
    BY <1>1, <2>1, <2>2, <2>3 DEF SlotsInv
<1>8. ASSUME NEW t \in Thread, StackStep(t), UNCHANGED open
      PROVE  StackInv' /\ SlotsInv'
  <2>1. StackInv' /\ StackEffect(t)
    BY <1>8, StackStepKeeps
  <2>2. ValuesApart' /\ Values' = Values
    BY <2>1, StepValues DEF SlotsInv
  <2>3. \A u \in Thread \ {t} : pc'[u] = pc[u]
    BY <2>1 DEF StackEffect
  <2>4. CASE t = Acceptor
    <3>1. pc'[t] \in Popping \cup Popped \cup {"idle", "empty"}
      BY <2>1, <2>4 DEF StackEffect, SlotsInv, Pushing, Popping, Popped
    <3>2. QED
      BY <1>1, <1>8, <2>1, <2>2, <2>3, <2>4, <3>1 DEF SlotsInv
  <2>5. CASE t \in Workers
    <3>1. pc'[t] \in Pushing \cup {"idle", "pushed"}
      BY <2>1, <2>5 DEF StackEffect, SlotsInv, Pushing, Popping, Popped
    <3>2. QED
      BY <1>1, <1>8, <2>1, <2>2, <2>3, <2>5, <3>1 DEF SlotsInv
  <2>6. QED
    BY <1>1, <2>4, <2>5
<1>9. QED
  BY <1>3, <1>4, <1>5, <1>6, <1>7, <1>8 DEF SlotNext

\* The values on the stack and in hand are those the property counts.
LEMMA SlotsWhere ==
    ASSUME StackInv, SlotsInv
    PROVE  /\ BeingPushed \cup StackedValues = Values /\ BeingPushed \cap StackedValues = {}
           /\ BeingPushed \subseteq Slot \ open /\ StackedValues \subseteq Slot \ open
<1> DEFINE P == {u \in Workers : pc[u] \in Pushing}
           Q == {u \in Thread : pc[u] \in Popped}
<1>1. /\ Acceptor \in Thread /\ Workers \subseteq Thread
      /\ \A t \in Thread : t = Acceptor \/ t \in Workers
  BY UsesAssumption DEF Workers
<1>2. BeingPushed = {reg[t].val : t \in P}
  <2>1. ASSUME NEW u \in Workers, pc[u] \in {"pushRead", "pushSwap"}
        PROVE  data[reg[u].node] = reg[u].val
    BY <1>1, <2>1 DEF StackInv, Recalls
  <2>2. QED
    BY <2>1 DEF BeingPushed, Pushing
<1>3. StackedValues = On(Contents) \cup {reg[t].val : t \in Q}
  <2>1. {data[Stacked[i]] : i \in DOMAIN Stacked} = On(Contents)
    BY ContentsTypes DEF On
  <2>2. QED
    BY <2>1 DEF StackedValues, Popped
<1>4. Hands = P \cup Q
  BY <1>1 DEF Hands, SlotsInv, Pushing, Popping, Popped
<1>5. P \cap Q = {}
  BY DEF Pushing, Popped
<1>6. {reg[t].val : t \in P} \cap {reg[t].val : t \in Q} = {}
  BY <1>4, <1>5 DEF SlotsInv, ValuesApart
<1>7. {reg[t].val : t \in P} \cap On(Contents) = {}
  BY <1>4 DEF SlotsInv, ValuesApart
<1>8. BeingPushed \cup StackedValues = Values
  BY <1>2, <1>3, <1>4 DEF Values
<1>9. QED
  BY <1>2, <1>3, <1>6, <1>7, <1>8 DEF SlotsInv
-----------------------------------------------------------------------------
(* The lists of objects *)

\* The walk along a list finds it.
LEMMA StrandIs ==
    ASSUME NEW f, NEW o, NEW k \in Nat, NEW s, Strand(f, o, k, s)
    PROVE  Walk(f, o, k) = s /\ Members(f, o, k) = On(s)
<1>1. s \in Seq(Nat \ {0})
  <2>1. \A x \in Obj : x \in Nat \ {0}
    BY PoolAssumption DEF Obj
  <2>2. QED
    BY <2>1 DEF Strand
<1>2. Len(s) = k /\ Len(s) <= k /\ ~(Len(s) < k)
  BY DEF Strand
<1>3. Len(s) # 0 => s[1] = o
  BY DEF Strand
<1>4. \A i \in 1..(Len(s) - 1) : f[s[i]] = s[i + 1]
  BY DEF Strand
<1>5. Walk(f, o, k) = s
  BY <1>1, <1>2, <1>3, <1>4, WalkIs
<1>6. DOMAIN s = 1..Len(s)
  BY <1>1
<1>7. QED
  BY <1>5, <1>6 DEF Members, On

\* The empty list.
LEMMA ListEmpty ==
    ASSUME NEW f, NEW o
    PROVE  IsList(f, o, 0) /\ Members(f, o, 0) = {}
<1>1. Strand(f, o, 0, <<>>)
  BY DEF Strand, Distinct
<1>2. QED
  BY <1>1, StrandIs DEF IsList, On

\* Its top taken off.
LEMMA ListTake ==
    ASSUME NEW f, NEW o, NEW k \in Nat, k # 0, IsList(f, o, k)
    PROVE  /\ o \in Obj /\ o \in Members(f, o, k) /\ Members(f, o, k) \subseteq Obj
           /\ IsList(f, f[o], k - 1) /\ Members(f, f[o], k - 1) = Members(f, o, k) \ {o}
<1>1. PICK s : Strand(f, o, k, s)
  BY DEF IsList
<1> DEFINE r == Tail(s)
<1>2. /\ s \in Seq(Obj) /\ Distinct(s) /\ Len(s) = k /\ s[1] = o /\ 1 \in 1..k
      /\ \A i \in 1..(k - 1) : f[s[i]] = s[i + 1]
  BY <1>1 DEF Strand
<1>3. s # <<>> /\ Head(s) = o /\ o \in Obj /\ \A i \in 1..k : s[i] \in Obj
  BY <1>2
<1>4. /\ r \in Seq(Obj) /\ Len(r) = k - 1 /\ k - 1 \in Nat
      /\ \A i \in 1..(k - 1) : r[i] = s[i + 1]
  BY <1>2, <1>3
<1>5. o \in On(s) /\ On(r) = On(s) \ {o} /\ Distinct(r)
  BY <1>2, <1>3, OnPopped
<1> HIDE DEF r
<1>6. k - 1 # 0 => r[1] = f[o]
  <2>1. SUFFICES ASSUME k - 1 # 0 PROVE r[1] = f[o]
    OBVIOUS
  <2>2. 1 \in 1..(k - 1)
    BY <1>4, <2>1
  <2>3. r[1] = s[1 + 1] /\ f[s[1]] = s[1 + 1]
    BY <1>2, <1>4, <2>2
  <2>4. QED
    BY <1>2, <2>3
<1>7. ASSUME NEW i \in 1..((k - 1) - 1) PROVE f[r[i]] = r[i + 1]
  <2>1. i \in 1..(k - 1) /\ i + 1 \in 1..(k - 1)
    OBVIOUS
  <2>2. r[i] = s[i + 1] /\ r[i + 1] = s[(i + 1) + 1] /\ f[s[i + 1]] = s[(i + 1) + 1]
    BY <1>2, <1>4, <2>1
  <2>3. QED
    BY <2>2
<1>8. Strand(f, f[o], k - 1, r)
  BY <1>4, <1>5, <1>6, <1>7 DEF Strand
<1>9. Members(f, o, k) = On(s) /\ Members(f, f[o], k - 1) = On(r)
  BY <1>1, <1>4, <1>8, StrandIs
<1>10. On(s) \subseteq Obj
  BY <1>2, <1>3 DEF On
<1>11. QED
  BY <1>3, <1>5, <1>8, <1>9, <1>10 DEF IsList

\* An object put on top, whose link leads to the old one.
LEMMA ListPut ==
    ASSUME NEW f, NEW o, NEW k \in Nat, IsList(f, o, k),
           NEW m \in Obj, m \notin Members(f, o, k), f[m] = o
    PROVE  IsList(f, m, k + 1) /\ Members(f, m, k + 1) = Members(f, o, k) \cup {m}
<1>1. PICK s : Strand(f, o, k, s)
  BY DEF IsList
<1> DEFINE r == <<m>> \o s
<1>2. /\ s \in Seq(Obj) /\ Distinct(s) /\ Len(s) = k /\ (k # 0 => s[1] = o)
      /\ \A i \in 1..(k - 1) : f[s[i]] = s[i + 1]
  BY <1>1 DEF Strand
<1>3. Members(f, o, k) = On(s)
  BY <1>1, StrandIs
<1>4. /\ r \in Seq(Obj) /\ Len(r) = k + 1 /\ r[1] = m
      /\ \A i \in 2..(k + 1) : r[i] = s[i - 1]
  BY <1>2
<1>5. On(r) = On(s) \cup {m} /\ Distinct(r)
  BY <1>2, <1>3, OnPushed
<1> HIDE DEF r
<1>6. ASSUME NEW i \in 1..((k + 1) - 1) PROVE f[r[i]] = r[i + 1]
  <2>1. i + 1 \in 2..(k + 1) /\ (i + 1) - 1 = i
    OBVIOUS
  <2>2. r[i + 1] = s[i]
    BY <1>4, <2>1
  <2>3. CASE i = 1
    BY <1>2, <1>4, <2>2, <2>3
  <2>4. CASE i # 1
    <3>1. i \in 2..(k + 1) /\ i - 1 \in 1..(k - 1) /\ (i - 1) + 1 = i
      BY <2>4
    <3>2. r[i] = s[i - 1] /\ f[s[i - 1]] = s[i]
      BY <1>2, <1>4, <3>1
    <3>3. QED
      BY <2>2, <3>2
  <2>5. QED
    BY <2>3, <2>4
<1>7. Strand(f, m, k + 1, r)
  BY <1>4, <1>5, <1>6 DEF Strand
<1>8. Members(f, m, k + 1) = On(r)
  BY <1>7, StrandIs
<1>9. QED
  BY <1>3, <1>5, <1>7, <1>8 DEF IsList

\* Links changed elsewhere.
LEMMA ListKept ==
    ASSUME NEW f, NEW g, NEW o, NEW k \in Nat, IsList(f, o, k),
           \A m \in Members(f, o, k) : g[m] = f[m]
    PROVE  IsList(g, o, k) /\ Members(g, o, k) = Members(f, o, k)
<1>1. PICK s : Strand(f, o, k, s)
  BY DEF IsList
<1>2. Members(f, o, k) = On(s)
  BY <1>1, StrandIs
<1>3. Len(s) = k /\ \A i \in 1..(k - 1) : s[i] \in On(s)
  BY <1>1 DEF Strand, On
<1>4. Strand(g, o, k, s)
  BY <1>1, <1>2, <1>3 DEF Strand
<1>5. QED
  BY <1>2, <1>4, StrandIs DEF IsList

\* POOL::Generate: n objects from a + n down to a + 1, each linked to the one before.
LEMMA ListGenerated ==
    ASSUME NEW f, NEW a \in Nat, NEW n \in Nat \ {0}, a + n <= MaxObj,
           \A i \in (a + 2)..(a + n) : f[i] = i - 1
    PROVE  IsList(f, a + n, n) /\ Members(f, a + n, n) = (a + 1)..(a + n)
<1> DEFINE s == [i \in 1..n |-> ((a + n) + 1) - i]
<1>1. \A i \in 1..n : s[i] \in Obj /\ s[i] \in (a + 1)..(a + n) /\ s[i] = ((a + n) + 1) - i
  BY PoolAssumption DEF Obj
<1>2. s \in Seq(Obj) /\ Len(s) = n
  BY <1>1
<1> HIDE DEF s
<1>3. Distinct(s)
  BY <1>1, <1>2 DEF Distinct
<1>4. s[1] = a + n
  BY <1>1
<1>5. ASSUME NEW i \in 1..(n - 1) PROVE f[s[i]] = s[i + 1]
  <2>1. s[i] = ((a + n) + 1) - i /\ s[i + 1] = ((a + n) + 1) - (i + 1)
    BY <1>1
  <2>2. s[i] \in (a + 2)..(a + n) /\ s[i + 1] = s[i] - 1
    BY <2>1
  <2>3. QED
    BY <2>2
<1>6. Strand(f, a + n, n, s)
  BY <1>2, <1>3, <1>4, <1>5 DEF Strand
<1>7. On(s) = (a + 1)..(a + n)
  <2>1. ASSUME NEW x \in (a + 1)..(a + n) PROVE x \in On(s)
    <3>1. ((a + n) + 1) - x \in 1..n /\ ((a + n) + 1) - (((a + n) + 1) - x) = x
      BY <2>1
    <3>2. s[((a + n) + 1) - x] = x
      BY <1>1, <3>1
    <3>3. QED
      BY <1>2, <3>1, <3>2 DEF On
  <2>2. QED
    BY <1>1, <1>2, <2>1 DEF On
<1>8. QED
  BY <1>6, <1>7, StrandIs DEF IsList
-----------------------------------------------------------------------------
(* The places of the objects *)

\* The places are told apart by kind and owner.
LEMMA PlaceKinds ==
    /\ \A p : p \in Places <=> \/ p = InUse
                               \/ \E t \in Thread : p \in {FreeingBy(t), PoolOf(t), ChunkOf(t)}
                               \/ \E v \in StackedValues : p = SharedAt(v)
    /\ \A t, u : /\ InUse # FreeingBy(t) /\ InUse # PoolOf(t) /\ InUse # ChunkOf(t)
                 /\ InUse # SharedAt(t)
                 /\ FreeingBy(t) # PoolOf(u) /\ FreeingBy(t) # ChunkOf(u)
                 /\ FreeingBy(t) # SharedAt(u) /\ PoolOf(t) # ChunkOf(u)
                 /\ PoolOf(t) # SharedAt(u) /\ ChunkOf(t) # SharedAt(u)
    /\ \A t, u : /\ FreeingBy(t) = FreeingBy(u) => t = u
                 /\ PoolOf(t) = PoolOf(u) => t = u
                 /\ ChunkOf(t) = ChunkOf(u) => t = u
                 /\ SharedAt(t) = SharedAt(u) => t = u
<1>1. \A p : p \in Places <=> \/ p = InUse
                              \/ \E t \in Thread : p \in {FreeingBy(t), PoolOf(t), ChunkOf(t)}
                              \/ \E v \in StackedValues : p = SharedAt(v)
  <2>1. \A p : p \in [kind : {"out"}] <=> p = InUse
    BY DEF InUse
  <2>2. \A p : p \in [kind : {"freeing", "pool", "chunk"}, of : Thread] <=>
                 \E t \in Thread : p \in {FreeingBy(t), PoolOf(t), ChunkOf(t)}
    BY DEF FreeingBy, PoolOf, ChunkOf
  <2>3. \A p : p \in [kind : {"shared"}, of : StackedValues] <=>
                 \E v \in StackedValues : p = SharedAt(v)
    BY DEF SharedAt
  <2>4. QED
    BY <2>1, <2>2, <2>3 DEF Places
<1>2. \A t, u : /\ InUse # FreeingBy(t) /\ InUse # PoolOf(t) /\ InUse # ChunkOf(t)
                /\ InUse # SharedAt(t)
                /\ FreeingBy(t) # PoolOf(u) /\ FreeingBy(t) # ChunkOf(u)
                /\ FreeingBy(t) # SharedAt(u) /\ PoolOf(t) # ChunkOf(u)
                /\ PoolOf(t) # SharedAt(u) /\ ChunkOf(t) # SharedAt(u)
  <2>1. \A t : /\ FreeingBy(t).kind = "freeing" /\ PoolOf(t).kind = "pool"
               /\ ChunkOf(t).kind = "chunk" /\ SharedAt(t).kind = "shared"
               /\ InUse.kind = "out"
    BY DEF FreeingBy, PoolOf, ChunkOf, SharedAt, InUse
  <2>2. QED
    BY <2>1
<1>3. \A t, u : /\ FreeingBy(t) = FreeingBy(u) => t = u
                /\ PoolOf(t) = PoolOf(u) => t = u
                /\ ChunkOf(t) = ChunkOf(u) => t = u
                /\ SharedAt(t) = SharedAt(u) => t = u
  <2>1. \A t : /\ FreeingBy(t).of = t /\ PoolOf(t).of = t
               /\ ChunkOf(t).of = t /\ SharedAt(t).of = t
    BY DEF FreeingBy, PoolOf, ChunkOf, SharedAt
  <2>2. QED
    BY <2>1
<1>4. QED
  BY <1>1, <1>2, <1>3

\* The places after the step.
LEMMA PlaceKindsNext ==
    \A p : p \in Places' <=> \/ p = InUse
                             \/ \E t \in Thread : p \in {FreeingBy(t), PoolOf(t), ChunkOf(t)}
                             \/ \E v \in StackedValues' : p = SharedAt(v)
<1>1. \A p : p \in [kind : {"out"}] <=> p = InUse
  BY DEF InUse
<1>2. \A p : p \in [kind : {"freeing", "pool", "chunk"}, of : Thread] <=>
               \E t \in Thread : p \in {FreeingBy(t), PoolOf(t), ChunkOf(t)}
  BY DEF FreeingBy, PoolOf, ChunkOf
<1>3. \A p : p \in [kind : {"shared"}, of : StackedValues'] <=>
               \E v \in StackedValues' : p = SharedAt(v)
  BY DEF SharedAt
<1>4. QED
  BY <1>1, <1>2, <1>3 DEF Places

\* What is in each place.
LEMMA PlaceObjects ==
    /\ Objects(InUse) = out
    /\ \A t : /\ Objects(FreeingBy(t)) = {freeing[t]} \ {Nil}
              /\ Objects(PoolOf(t)) = Members(link, pool[t].top, pool[t].size)
              /\ Objects(ChunkOf(t)) = IF pc[t] = "pushed" THEN {}
                                       ELSE Members(link, chunk[t].top, chunk[t].size)
              /\ Objects(SharedAt(t)) = Members(link, t, ChunkSize)
<1>1. \A o, k : ListOf(o, k) = Members(link, o, k)
  BY DEF ListOf, Members
<1>2. QED
  BY <1>1 DEF Objects, InUse, FreeingBy, PoolOf, ChunkOf, SharedAt, SecondList

\* The same after the step.
LEMMA PlaceObjectsNext ==
    /\ Objects(InUse)' = out'
    /\ \A t : /\ Objects(FreeingBy(t))' = {freeing'[t]} \ {Nil}
              /\ Objects(PoolOf(t))' = Members(link', pool'[t].top, pool'[t].size)
              /\ Objects(ChunkOf(t))' = IF pc'[t] = "pushed" THEN {}
                                        ELSE Members(link', chunk'[t].top, chunk'[t].size)
              /\ Objects(SharedAt(t))' = Members(link', t, ChunkSize)
<1>1. \A o, k : ListOf(o, k)' = Members(link', o, k)
  BY DEF ListOf, Members
<1>2. QED
  BY <1>1 DEF Objects, InUse, FreeingBy, PoolOf, ChunkOf, SharedAt, SecondList
-----------------------------------------------------------------------------
(* What a step leaves where it is *)

\* What is near a thread is in different places.
LEMMA NearIsApart ==
    ASSUME Located, NEW t \in Thread, NEW v
    PROVE  NearApart(t, v)
<1>1. {InUse, FreeingBy(t), PoolOf(t), ChunkOf(t)} \subseteq Places
      /\ (v \in StackedValues => SharedAt(v) \in Places)
  BY PlaceKinds
<1>2. ASSUME NEW p \in Places, NEW q \in Places, p # q
      PROVE  Objects(p) \cap Objects(q) = {}
  BY <1>2 DEF Located
<1>3. /\ Objects(InUse) \cap Objects(FreeingBy(t)) = {}
      /\ Objects(InUse) \cap Objects(PoolOf(t)) = {}
      /\ Objects(InUse) \cap Objects(ChunkOf(t)) = {}
      /\ Objects(FreeingBy(t)) \cap Objects(PoolOf(t)) = {}
      /\ Objects(FreeingBy(t)) \cap Objects(ChunkOf(t)) = {}
      /\ Objects(PoolOf(t)) \cap Objects(ChunkOf(t)) = {}
  BY <1>1, <1>2, PlaceKinds
<1>4. v \in StackedValues =>
        /\ Objects(InUse) \cap Objects(SharedAt(v)) = {}
        /\ Objects(FreeingBy(t)) \cap Objects(SharedAt(v)) = {}
        /\ Objects(PoolOf(t)) \cap Objects(SharedAt(v)) = {}
        /\ Objects(ChunkOf(t)) \cap Objects(SharedAt(v)) = {}
  BY <1>1, <1>2, PlaceKinds
<1>5. Objects(InUse) = out
  BY PlaceObjects
<1>6. QED
  BY <1>3, <1>4, <1>5 DEF NearApart, OwnApart, Own, ChunkAt

\* The places not near a thread share nothing with those that are.
LEMMA NotNear ==
    ASSUME Located, NEW t \in Thread, NEW v, NEW p \in Places, p \notin Mine(t), p # SharedAt(v)
    PROVE  Objects(p) \cap Near(t, v) = {} /\ Objects(p) \subseteq 1..allocSize
<1>1. {InUse, FreeingBy(t), PoolOf(t), ChunkOf(t)} \subseteq Places
      /\ (v \in StackedValues => SharedAt(v) \in Places)
  BY PlaceKinds
<1>2. ASSUME NEW q \in Places, p # q
      PROVE  Objects(p) \cap Objects(q) = {}
  BY <1>2 DEF Located
<1>3. /\ Objects(p) \cap Objects(InUse) = {} /\ Objects(p) \cap Objects(FreeingBy(t)) = {}
      /\ Objects(p) \cap Objects(PoolOf(t)) = {} /\ Objects(p) \cap Objects(ChunkOf(t)) = {}
      /\ v \in StackedValues => Objects(p) \cap Objects(SharedAt(v)) = {}
  BY <1>1, <1>2 DEF Mine
<1>4. Objects(InUse) = out
  BY PlaceObjects
<1>5. Objects(p) \cap Near(t, v) = {}
  BY <1>3, <1>4 DEF Near, Own, ChunkAt
<1>6. Objects(p) \subseteq 1..allocSize
  BY DEF Located
<1>7. QED
  BY <1>5, <1>6

\* A step that changes links only near its thread leaves the other lists.
LEMMA Elsewhere ==
    ASSUME PoolTyped, Lists, Located, NEW t \in Thread, NEW v, Alone(t),
           \A o \in 1..allocSize : o \notin Near(t, v) => link'[o] = link[o]
    PROVE  /\ \A u \in Thread \ {t} : OwnLists(u)'
           /\ \A x \in StackedValues : x # v => IsList(link', x, ChunkSize)
           /\ \A p \in Places : p \notin Mine(t) /\ p # SharedAt(v) => Objects(p)' = Objects(p)
<1> ChunkSize \in Nat
  BY PoolAssumption
<1>1. ASSUME NEW u \in Thread \ {t}
      PROVE  /\ Objects(FreeingBy(u))' = Objects(FreeingBy(u))
             /\ Objects(PoolOf(u))' = Objects(PoolOf(u))
             /\ Objects(ChunkOf(u))' = Objects(ChunkOf(u))
             /\ OwnLists(u)'
  <2>1. /\ pc'[u] = pc[u] /\ pool'[u] = pool[u] /\ chunk'[u] = chunk[u]
        /\ freeing'[u] = freeing[u]
    BY DEF Alone
  <2>2. {PoolOf(u), ChunkOf(u)} \subseteq Places
    BY PlaceKinds
  <2>3. PoolOf(u) \notin Mine(t) /\ ChunkOf(u) \notin Mine(t)
        /\ PoolOf(u) # SharedAt(v) /\ ChunkOf(u) # SharedAt(v)
    BY PlaceKinds DEF Mine
  <2>4. /\ \A o \in Objects(PoolOf(u)) : link'[o] = link[o]
        /\ \A o \in Objects(ChunkOf(u)) : link'[o] = link[o]
    BY <2>2, <2>3, NotNear
  <2>5. pool[u].size \in Nat /\ chunk[u].size \in Nat
    BY DEF PoolTyped, List
  <2>6. IsList(link', pool[u].top, pool[u].size)
        /\ Members(link', pool[u].top, pool[u].size) = Members(link, pool[u].top, pool[u].size)
    <3>1. IsList(link, pool[u].top, pool[u].size)
      BY DEF Lists, OwnLists
    <3>2. \A o \in Members(link, pool[u].top, pool[u].size) : link'[o] = link[o]
      BY <2>4, PlaceObjects
    <3>3. QED
      BY <2>5, <3>1, <3>2, ListKept
  <2>7. CASE pc[u] # "pushed"
    <3>1. IsList(link, chunk[u].top, chunk[u].size)
      BY <2>7 DEF Lists, OwnLists
    <3>2. \A o \in Members(link, chunk[u].top, chunk[u].size) : link'[o] = link[o]
      BY <2>4, <2>7, PlaceObjects
    <3>3. /\ IsList(link', chunk[u].top, chunk[u].size)
          /\ Members(link', chunk[u].top, chunk[u].size)
               = Members(link, chunk[u].top, chunk[u].size)
      BY <2>5, <3>1, <3>2, ListKept
    <3>4. QED
      BY <2>1, <2>6, <2>7, <3>3, PlaceObjects, PlaceObjectsNext, ZenonT(30) DEF OwnLists
  <2>8. CASE pc[u] = "pushed"
    <3>1. OwnLists(u)'
      BY <2>1, <2>6, <2>8 DEF OwnLists
    <3>2. Objects(ChunkOf(u))' = Objects(ChunkOf(u))
      BY <2>1, <2>8, PlaceObjects, PlaceObjectsNext, ZenonT(30)
    <3>3. Objects(PoolOf(u))' = Objects(PoolOf(u))
      BY <2>1, <2>6, PlaceObjects, PlaceObjectsNext, ZenonT(30)
    <3>4. Objects(FreeingBy(u))' = Objects(FreeingBy(u))
      BY <2>1, PlaceObjects, PlaceObjectsNext, ZenonT(30)
    <3>5. QED
      BY <3>1, <3>2, <3>3, <3>4
  <2>9. QED
    BY <2>7, <2>8
<1>2. ASSUME NEW x \in StackedValues, x # v
      PROVE  IsList(link', x, ChunkSize) /\ Objects(SharedAt(x))' = Objects(SharedAt(x))
  <2>1. SharedAt(x) \in Places /\ SharedAt(x) \notin Mine(t) /\ SharedAt(x) # SharedAt(v)
    BY <1>2, PlaceKinds DEF Mine
  <2>2. \A o \in Objects(SharedAt(x)) : link'[o] = link[o]
    BY <2>1, NotNear
  <2>3. \A o \in Members(link, x, ChunkSize) : link'[o] = link[o]
    BY <2>2, PlaceObjects
  <2>4. IsList(link, x, ChunkSize)
    BY DEF Lists
  <2>5. IsList(link', x, ChunkSize) /\ Members(link', x, ChunkSize) = Members(link, x, ChunkSize)
    BY <2>3, <2>4, ListKept
  <2>6. QED
    BY <2>5, PlaceObjects, PlaceObjectsNext
<1>3. ASSUME NEW p \in Places, p \notin Mine(t), p # SharedAt(v)
      PROVE  Objects(p)' = Objects(p)
  <2>1. CASE \E u \in Thread : p \in {FreeingBy(u), PoolOf(u), ChunkOf(u)}
    BY <1>1, <1>3, <2>1 DEF Mine
  <2>2. CASE \E x \in StackedValues : p = SharedAt(x)
    <3>1. PICK x \in StackedValues : p = SharedAt(x)
      BY <2>2
    <3>2. QED
      BY <1>2, <1>3, <3>1
  <2>3. QED
    BY <1>3, <2>1, <2>2, PlaceKinds DEF Mine
<1>4. QED
  BY <1>1, <1>2, <1>3

\* A step that only moves objects about near its thread, and new ones there,
\* leaves every object in one place.
LEMMA Relocates ==
    ASSUME PoolTyped, Lists, Located, NEW t \in Thread, NEW v, Alone(t),
           \A o \in 1..allocSize : o \notin Near(t, v) => link'[o] = link[o],
           \A x : x # v => (x \in StackedValues' <=> x \in StackedValues),
           allocSize' \in Nat, allocSize <= allocSize',
           NearApart(t, v)', Near(t, v)' = Near(t, v) \cup ((allocSize + 1)..allocSize')
    PROVE  /\ Located'
           /\ \A u \in Thread \ {t} : OwnLists(u)'
           /\ \A x \in StackedValues : x # v => IsList(link', x, ChunkSize)
<1> DEFINE Far(p) == p \notin Mine(t) /\ p # SharedAt(v)
<1>1. /\ \A u \in Thread \ {t} : OwnLists(u)'
      /\ \A x \in StackedValues : x # v => IsList(link', x, ChunkSize)
      /\ \A p \in Places : Far(p) => Objects(p)' = Objects(p)
  BY Elsewhere
<1>2. allocSize \in Nat
  BY DEF PoolTyped
<1>3. \A p : p \in Places' <=> \/ p \in Mine(t)
                               \/ v \in StackedValues' /\ p = SharedAt(v)
                               \/ p \in Places /\ Far(p)
  <2>1. \A p : p \in Places' <=> \/ p = InUse
                                 \/ \E u \in Thread : p \in {FreeingBy(u), PoolOf(u), ChunkOf(u)}
                                 \/ \E x \in StackedValues' : p = SharedAt(x)
    BY PlaceKindsNext
  <2>2. \A p : p \in Places <=> \/ p = InUse
                                \/ \E u \in Thread : p \in {FreeingBy(u), PoolOf(u), ChunkOf(u)}
                                \/ \E x \in StackedValues : p = SharedAt(x)
    BY PlaceKinds
  <2>3. \A x : SharedAt(x) \notin Mine(t)
    BY PlaceKinds DEF Mine
  <2>4. \A x : SharedAt(x) = SharedAt(v) => x = v
    BY PlaceKinds
  <2>5. ASSUME NEW p, p \in Mine(t) PROVE p \in Places'
    BY <2>1, <2>5 DEF Mine
  <2>6. ASSUME NEW p, p = SharedAt(v)
        PROVE  (p \in Places' <=> v \in StackedValues') /\ p \notin Mine(t)
    <3>1. \A u : p # FreeingBy(u) /\ p # PoolOf(u) /\ p # ChunkOf(u) /\ p # InUse
      BY <2>6, PlaceKinds
    <3>2. QED
      BY <2>1, <2>3, <2>4, <2>6, <3>1
  <2>7. ASSUME NEW p, Far(p) PROVE p \in Places' <=> p \in Places
    <3>1. \A x : p = SharedAt(x) => (x \in StackedValues' <=> x \in StackedValues)
      BY <2>7
    <3>2. QED
      BY <2>1, <2>2, <3>1
  <2>8. QED
    BY <2>5, <2>6, <2>7
<1>4. \A p \in Places : \/ p \in Mine(t)
                        \/ v \in StackedValues /\ p = SharedAt(v)
                        \/ Far(p)
  <2>1. \A p \in Places : p = SharedAt(v) => v \in StackedValues
    BY PlaceKinds
  <2>2. QED
    BY <2>1
<1>5. Objects(InUse) = out /\ Objects(InUse)' = out'
  BY PlaceObjects, PlaceObjectsNext
<1>6. Near(t, v) \subseteq 1..allocSize
      /\ \A p \in Places : Far(p) =>
            Objects(p) \cap Near(t, v) = {} /\ Objects(p) \subseteq 1..allocSize
  <2>1. \A p \in Places : Objects(p) \subseteq 1..allocSize
    BY DEF Located
  <2>2. {InUse, FreeingBy(t), PoolOf(t), ChunkOf(t)} \subseteq Places
        /\ (v \in StackedValues => SharedAt(v) \in Places)
    BY PlaceKinds
  <2>3. Near(t, v) \subseteq 1..allocSize
    BY <1>5, <2>1, <2>2 DEF Near, Own, ChunkAt
  <2>4. QED
    BY <2>3, NotNear
<1>7. \A p : p \in Mine(t) \/ (v \in StackedValues' /\ p = SharedAt(v)) =>
               Objects(p)' \subseteq Near(t, v)'
  BY <1>5 DEF Near, Own, ChunkAt, Mine
<1>8. \A p, q : /\ p \in Mine(t) \/ (v \in StackedValues' /\ p = SharedAt(v))
                /\ q \in Mine(t) \/ (v \in StackedValues' /\ q = SharedAt(v))
                /\ p # q
                => Objects(p)' \cap Objects(q)' = {}
  BY <1>5 DEF NearApart, OwnApart, Own, ChunkAt, Mine
<1>9. \A p \in Places : Far(p) => Objects(p)' \cap Near(t, v)' = {}
                                  /\ Objects(p)' \subseteq 1..allocSize
  <2>1. ASSUME NEW p \in Places, Far(p)
        PROVE  Objects(p)' \cap Near(t, v)' = {} /\ Objects(p)' \subseteq 1..allocSize
    <3>1. /\ Objects(p)' = Objects(p) /\ Objects(p) \cap Near(t, v) = {}
          /\ Objects(p) \subseteq 1..allocSize
      BY <1>1, <1>6, <2>1
    <3>2. \A o \in 1..allocSize : o \notin (allocSize + 1)..allocSize'
      BY <1>2
    <3>3. QED
      BY <3>1, <3>2
  <2>2. QED
    BY <2>1
<1> HIDE DEF Far
<1>10. ASSUME NEW p \in Places', NEW q \in Places', p # q
       PROVE  Objects(p)' \cap Objects(q)' = {}
  <2>1. CASE Far(p) /\ p \in Places /\ Far(q) /\ q \in Places
    <3>1. Objects(p) \cap Objects(q) = {}
      BY <1>10, <2>1 DEF Located
    <3>2. QED
      BY <1>1, <2>1, <3>1
  <2>2. QED
    BY <1>3, <1>7, <1>8, <1>9, <1>10, <2>1
<1>11. UNION {Objects(p)' : p \in Places'} = 1..allocSize'
  <2>1. \A o : o \in 1..allocSize' <=> o \in 1..allocSize \/ o \in (allocSize + 1)..allocSize'
    BY <1>2
  <2>2. ASSUME NEW o \in 1..allocSize PROVE \E p \in Places' : o \in Objects(p)'
    <3>1. PICK p \in Places : o \in Objects(p)
      BY DEF Located
    <3>2. CASE Far(p)
      BY <1>1, <1>3, <3>1, <3>2
    <3>3. CASE ~Far(p)
      <4>1. o \in Near(t, v)
        BY <1>4, <1>5, <3>1, <3>3 DEF Near, Own, ChunkAt, Mine
      <4>2. o \in Near(t, v)'
        BY <4>1
      <4>3. \E q : /\ q \in Mine(t) \/ (v \in StackedValues' /\ q = SharedAt(v))
                   /\ o \in Objects(q)'
        BY <1>5, <4>2 DEF Near, Own, ChunkAt, Mine
      <4>4. QED
        BY <1>3, <4>3
    <3>4. QED
      BY <3>2, <3>3
  <2>3. ASSUME NEW o \in (allocSize + 1)..allocSize' PROVE \E p \in Places' : o \in Objects(p)'
    <3>1. o \in Near(t, v)'
      OBVIOUS
    <3>2. \E q : /\ q \in Mine(t) \/ (v \in StackedValues' /\ q = SharedAt(v))
                 /\ o \in Objects(q)'
      BY <1>5, <3>1 DEF Near, Own, ChunkAt, Mine
    <3>3. QED
      BY <1>3, <3>2
  <2>4. ASSUME NEW p \in Places' PROVE Objects(p)' \subseteq 1..allocSize'
    <3>1. /\ 1..allocSize \subseteq 1..allocSize'
          /\ (allocSize + 1)..allocSize' \subseteq 1..allocSize'
      BY <2>1
    <3>2. Near(t, v)' \subseteq 1..allocSize'
      BY <1>6, <3>1
    <3>3. QED
      BY <1>3, <1>7, <1>9, <3>1, <3>2
  <2>5. QED
    BY <2>1, <2>2, <2>3, <2>4
<1>12. Located'
  BY <1>10, <1>11 DEF Located
<1>13. QED
  BY <1>1, <1>12
-----------------------------------------------------------------------------
(* The chunks that are shared *)

\* They are headed by the values on the stack and those a Pop has taken off.
LEMMA SharedIs ==
    ASSUME StackInv
    PROVE  StackedValues = On(Contents) \cup {reg[t].val : t \in {u \in Thread : pc[u] \in Popped}}
<1>1. {data[Stacked[i]] : i \in DOMAIN Stacked} = On(Contents)
  BY ContentsTypes DEF On
<1>2. QED
  BY <1>1 DEF StackedValues, Popped

\* The same after a step.
LEMMA SharedIsNext ==
    ASSUME Contents' \in Seq(Int)
    PROVE  StackedValues' =
             On(Contents') \cup {reg'[t].val : t \in {u \in Thread : pc'[u] \in Popped}}
<1> DEFINE c == Contents'
<1>1. c \in Seq(Int) /\ DOMAIN c = DOMAIN Stacked'
      /\ \A i \in DOMAIN Stacked' : c[i] = data'[Stacked'[i]]
  BY DEF Contents
<1> HIDE DEF c
<1>2. DOMAIN c = 1..Len(c)
  BY <1>1
<1>3. {data'[Stacked'[i]] : i \in DOMAIN Stacked'} = {c[i] : i \in DOMAIN c}
  BY <1>1
<1>4. {data'[Stacked'[i]] : i \in DOMAIN Stacked'} = On(c)
  BY <1>2, <1>3 DEF On
<1>5. QED
  BY <1>4 DEF StackedValues, Popped, c

\* A step inside Push or Pop shares no chunk but the one whose Push succeeds.
LEMMA SharedStep ==
    ASSUME StackInv, ValuesApart, NEW t \in Thread, StackEffect(t)
    PROVE  \/ /\ StackedValues' = StackedValues /\ pc'[t] # "pushed"
              /\ pc[t] \in Pushing <=> pc'[t] \in Pushing
              /\ pc[t] \in Pushing => reg'[t].val = reg[t].val
              /\ pc[t] \in Popping \cup Popped \cup Pushing
              /\ pc'[t] \in Popping \cup Popped \cup Pushing \cup {"empty"}
           \/ /\ pc[t] = "pushSwap" /\ pc'[t] = "pushed" /\ reg[t].val \notin StackedValues
              /\ StackedValues' = StackedValues \cup {reg[t].val}
<1> DEFINE T == {u \in Thread : pc[u] \in Popped}
<1>1. Contents \in Seq(Int) /\ reg[t].val \in Int
  BY ContentsTypes DEF StackInv, StackTyped, Regs
<1>2. StackedValues = On(Contents) \cup {reg[u].val : u \in T}
  BY SharedIs
<1>3. \A u \in Thread \ {t} : pc'[u] = pc[u] /\ reg'[u].val = reg[u].val
  BY DEF StackEffect
<1>4. CASE /\ pc[t] = "pushSwap" /\ pc'[t] = "pushed"
           /\ Contents' = <<reg[t].val>> \o Contents
  <2>1. Contents' \in Seq(Int)
    BY <1>1, <1>4
  <2>2. StackedValues' = On(Contents') \cup {reg'[u].val : u \in {x \in Thread : pc'[x] \in Popped}}
    BY <2>1, SharedIsNext
  <2>3. {x \in Thread : pc'[x] \in Popped} = T /\ \A u \in T : reg'[u].val = reg[u].val
    BY <1>3, <1>4 DEF Popped
  <2>4. On(Contents') = On(Contents) \cup {reg[t].val}
    BY <1>1, <1>4, OnPushed
  <2>5. t \in Hands /\ \A u \in T : u # t /\ u \in Hands
    BY <1>4 DEF Hands, Pushing, Popped
  <2>6. reg[t].val \notin StackedValues
    BY <1>2, <2>5 DEF ValuesApart
  <2>7. QED
    BY <1>2, <1>4, <2>2, <2>3, <2>4, <2>6
<1>5. CASE /\ pc[t] \in Popping /\ pc'[t] = "freeRead" /\ Contents # <<>>
           /\ reg'[t].val = Head(Contents) /\ Contents' = Tail(Contents)
  <2>1. Contents' \in Seq(Int)
    BY <1>1, <1>5
  <2>2. StackedValues' = On(Contents') \cup {reg'[u].val : u \in {x \in Thread : pc'[x] \in Popped}}
    BY <2>1, SharedIsNext
  <2>3. /\ {x \in Thread : pc'[x] \in Popped} = T \cup {t} /\ t \notin T
        /\ \A u \in T : reg'[u].val = reg[u].val
    BY <1>3, <1>5 DEF Popped, Popping
  <2>4. Head(Contents) \in On(Contents) /\ On(Contents') = On(Contents) \ {Head(Contents)}
    BY <1>1, <1>5, OnPopped DEF ValuesApart
  <2>5. StackedValues' = StackedValues
    BY <1>2, <1>5, <2>2, <2>3, <2>4
  <2>6. QED
    BY <1>5, <2>5 DEF Popping, Popped, Pushing
<1>6. CASE /\ Contents' = Contents /\ (pc[t] \in Popped <=> pc'[t] \in Popped)
           /\ pc[t] \in Popped => reg'[t].val = reg[t].val
  <2>1. StackedValues' = On(Contents') \cup {reg'[u].val : u \in {x \in Thread : pc'[x] \in Popped}}
    BY <1>1, <1>6, SharedIsNext
  <2>2. {x \in Thread : pc'[x] \in Popped} = T /\ \A u \in T : reg'[u].val = reg[u].val
    BY <1>3, <1>6
  <2>3. StackedValues' = StackedValues
    BY <1>2, <1>6, <2>1, <2>2
  <2>4. \/ pc[t] \in Popping /\ pc'[t] \in Popping
        \/ pc[t] \in Pushing /\ pc'[t] \in Pushing /\ reg'[t].val = reg[t].val
        \/ pc[t] \in Popped /\ pc'[t] \in Popped
        \/ pc[t] \in Popping /\ pc'[t] = "empty"
    <3>1. Contents # <<reg[t].val>> \o Contents
      <4>1. Len(<<reg[t].val>> \o Contents) = Len(Contents) + 1 /\ Len(Contents) \in Nat
        BY <1>1
      <4>2. QED
        BY <4>1
    <3>2. pc'[t] = "freeRead" => pc[t] \in Popped
      BY <1>6 DEF Popped
    <3>3. pc[t] \in Popped => pc[t] \notin Popping
      BY DEF Popping, Popped
    <3>4. QED
      BY <1>6, <3>1, <3>2, <3>3 DEF StackEffect
  <2>5. QED
    BY <2>3, <2>4 DEF Popping, Popped, Pushing
<1>7. QED
  <2>1. \/ Contents' = Contents /\ pc[t] \in Popping /\ pc'[t] \in Popping \cup {"empty"}
        \/ /\ Contents' = Contents /\ reg'[t].val = reg[t].val
           /\ \/ pc[t] \in Pushing /\ pc'[t] \in Pushing
              \/ pc[t] \in Popped /\ pc'[t] \in Popped
        => /\ Contents' = Contents /\ (pc[t] \in Popped <=> pc'[t] \in Popped)
           /\ pc[t] \in Popped => reg'[t].val = reg[t].val
    BY DEF Popped, Popping, Pushing
  <2>2. QED
    BY <1>4, <1>5, <1>6, <2>1 DEF StackEffect

\* A call begun changes nothing, a Pop that returns takes its chunk away.
LEMMA SharedReturn ==
    ASSUME StackInv, ValuesApart, NEW t \in Thread, StackReturn(t)
    PROVE  /\ StackedValues' =
                IF pc[t] = "popped" THEN StackedValues \ {reg[t].val} ELSE StackedValues
           /\ pc[t] = "popped" => reg[t].val \in StackedValues
<1> DEFINE T == {u \in Thread : pc[u] \in Popped}
<1>1. /\ Contents' = Contents /\ pc[t] \in {"pushed", "popped", "empty"} /\ pc'[t] = "idle"
      /\ \A u \in Thread \ {t} : pc'[u] = pc[u] /\ reg'[u] = reg[u]
  BY ReturnKeeps
<1>2. Contents \in Seq(Int)
  BY ContentsTypes
<1>3. StackedValues = On(Contents) \cup {reg[u].val : u \in T}
  BY SharedIs
<1>4. StackedValues' = On(Contents) \cup {reg'[u].val : u \in {x \in Thread : pc'[x] \in Popped}}
  BY <1>1, <1>2, SharedIsNext
<1>5. {x \in Thread : pc'[x] \in Popped} = T \ {t} /\ \A u \in T \ {t} : reg'[u].val = reg[u].val
  BY <1>1 DEF Popped
<1>6. CASE pc[t] = "popped"
  <2>1. t \in T /\ T \subseteq Hands
    BY <1>6 DEF Hands, Popped
  <2>2. \A u \in T : u # t => reg[u].val # reg[t].val
    BY <2>1 DEF ValuesApart
  <2>3. reg[t].val \notin On(Contents)
    BY <2>1 DEF ValuesApart
  <2>4. {reg'[u].val : u \in T \ {t}} = {reg[u].val : u \in T} \ {reg[t].val}
    BY <1>5, <2>1, <2>2
  <2>5. QED
    BY <1>3, <1>4, <1>5, <1>6, <2>1, <2>3, <2>4
<1>7. CASE pc[t] # "popped"
  <2>1. t \notin T
    BY <1>1, <1>7 DEF Popped
  <2>2. QED
    BY <1>3, <1>4, <1>5, <1>7, <2>1
<1>8. QED
  BY <1>6, <1>7

\* A Push or a Pop that begins leaves the chunks alone.
LEMMA SharedCall ==
    ASSUME StackInv, NEW t \in Thread, Contents' = Contents,
           pc[t] = "idle", pc'[t] \in {"poolAlloc", "popRead"},
           \A u \in Thread \ {t} : pc'[u] = pc[u] /\ reg'[u] = reg[u]
    PROVE  StackedValues' = StackedValues
<1> DEFINE T == {u \in Thread : pc[u] \in Popped}
<1>1. Contents \in Seq(Int)
  BY ContentsTypes
<1>2. StackedValues = On(Contents) \cup {reg[u].val : u \in T}
  BY SharedIs
<1>3. StackedValues' = On(Contents) \cup {reg'[u].val : u \in {x \in Thread : pc'[x] \in Popped}}
  BY <1>1, SharedIsNext
<1>4. {x \in Thread : pc'[x] \in Popped} = T /\ \A u \in T : reg'[u].val = reg[u].val
  BY DEF Popped
<1>5. QED
  BY <1>2, <1>3, <1>4

\* Nothing of the stack changed.
LEMMA SharedKept ==
    ASSUME UNCHANGED stackVars
    PROVE  StackedValues' = StackedValues /\ (ValuesApart => ValuesApart')
<1>1. Stacked' = Stacked /\ data' = data /\ pc' = pc /\ reg' = reg
  BY DEF stackVars, Stacked
<1>2. Contents' = Contents /\ Hands' = Hands
  BY <1>1 DEF Contents, Hands
<1>3. QED
  BY <1>1, <1>2 DEF StackedValues, ValuesApart

\* The first node of a shared chunk is an object.
LEMMA SharedObjects ==
    ASSUME Lists
    PROVE  StackedValues \subseteq Obj
<1>1. ChunkSize \in Nat /\ ChunkSize # 0
  BY PoolAssumption
<1>2. ASSUME NEW v \in StackedValues PROVE v \in Obj
  <2>1. IsList(link, v, ChunkSize)
    BY DEF Lists
  <2>2. QED
    BY <1>1, <2>1, ListTake
<1>3. QED
  BY <1>2
-----------------------------------------------------------------------------
(* The steps of the pool *)

\* What makes a step of t keep the invariant: it moves objects about near t, and
\* leaves t with lists of the length it has noted.
LEMMA Reassembled ==
    ASSUME StackInv, ObjectsInv, NEW t \in Thread, NEW v, Alone(t),
           \A o \in 1..allocSize : o \notin Near(t, v) => link'[o] = link[o],
           \A x : x # v => (x \in StackedValues' <=> x \in StackedValues),
           PoolTyped', ValuesApart', allocSize <= allocSize',
           NearApart(t, v)', Near(t, v)' = Near(t, v) \cup ((allocSize + 1)..allocSize'),
           OwnLists(t)', Calls(t)', v \in StackedValues' => IsList(link', v, ChunkSize)
    PROVE  ObjectsInv'
<1>1. PoolTyped /\ Lists /\ Located
  BY DEF ObjectsInv
<1>2. allocSize' \in Nat
  BY DEF PoolTyped
<1>3. /\ Located'
      /\ \A u \in Thread \ {t} : OwnLists(u)'
      /\ \A x \in StackedValues : x # v => IsList(link', x, ChunkSize)
  BY <1>1, <1>2, Relocates
<1>4. Lists'
  BY <1>3 DEF Lists
<1>5. ASSUME NEW u \in Thread \ {t} PROVE Calls(u)'
  <2>1. /\ pc'[u] = pc[u] /\ pool'[u] = pool[u]
        /\ chunk'[u] = chunk[u] /\ freeing'[u] = freeing[u]
        /\ reg'[u].val = reg[u].val /\ (u \in attached' <=> u \in attached)
    BY DEF Alone
  <2>2. Calls(u)
    BY DEF ObjectsInv
  <2>3. QED
    BY <2>1, <2>2 DEF Calls, Full
<1>6. QED
  BY <1>3, <1>4, <1>5 DEF ObjectsInv

\* The same where no chunk is shared or taken.
LEMMA ReassembledAlone ==
    ASSUME StackInv, ObjectsInv, NEW t \in Thread, Alone(t),
           \A o \in 1..allocSize : o \notin Own(t) => link'[o] = link[o],
           StackedValues' = StackedValues,
           PoolTyped', ValuesApart', allocSize <= allocSize',
           OwnApart(t)', Own(t)' = Own(t) \cup ((allocSize + 1)..allocSize'),
           OwnLists(t)', Calls(t)'
    PROVE  ObjectsInv'
<1>1. Nil \notin StackedValues
  <2>1. Nil \notin Obj
    BY PoolAssumption DEF Nil, Obj
  <2>2. QED
    BY <2>1, SharedObjects DEF ObjectsInv
<1>2. ChunkAt(Nil) = {} /\ ChunkAt(Nil)' = {}
  BY <1>1 DEF ChunkAt
<1>3. Near(t, Nil) = Own(t) /\ Near(t, Nil)' = Own(t)' /\ NearApart(t, Nil)'
  BY <1>2 DEF Near, NearApart
<1> DEFINE v == Nil
<1>4. /\ \A o \in 1..allocSize : o \notin Near(t, v) => link'[o] = link[o]
      /\ Near(t, v)' = Near(t, v) \cup ((allocSize + 1)..allocSize')
      /\ NearApart(t, v)' /\ v \notin StackedValues'
  BY <1>1, <1>3
<1> HIDE DEF v
<1>5. QED
  BY <1>4, Reassembled

\* What is near a thread is apart, and has been allocated.
LEMMA NearObjects ==
    ASSUME ObjectsInv, NEW t \in Thread
    PROVE  OwnApart(t) /\ Own(t) \subseteq 1..allocSize
<1>1. NearApart(t, Nil)
  BY NearIsApart DEF ObjectsInv
<1>2. {InUse, FreeingBy(t), PoolOf(t), ChunkOf(t)} \subseteq Places
  BY PlaceKinds
<1>3. \A p \in Places : Objects(p) \subseteq 1..allocSize
  BY DEF ObjectsInv, Located
<1>4. Objects(InUse) = out
  BY PlaceObjects
<1>5. /\ Objects(InUse) \subseteq 1..allocSize /\ Objects(FreeingBy(t)) \subseteq 1..allocSize
      /\ Objects(PoolOf(t)) \subseteq 1..allocSize
      /\ Objects(ChunkOf(t)) \subseteq 1..allocSize
  BY <1>2, <1>3
<1>6. QED
  BY <1>1, <1>4, <1>5 DEF NearApart, Own

\* Places whose lists have not changed.
LEMMA SamePlaces ==
    ASSUME NEW t
    PROVE  /\ freeing' = freeing => Objects(FreeingBy(t))' = Objects(FreeingBy(t))
           /\ pool' = pool /\ link' = link => Objects(PoolOf(t))' = Objects(PoolOf(t))
           /\ chunk' = chunk /\ link' = link /\ pc[t] # "pushed" /\ pc'[t] # "pushed"
                => Objects(ChunkOf(t))' = Objects(ChunkOf(t))
<1>1. ASSUME freeing' = freeing PROVE Objects(FreeingBy(t))' = Objects(FreeingBy(t))
  BY <1>1, PlaceObjects, PlaceObjectsNext
<1>2. ASSUME pool' = pool, link' = link PROVE Objects(PoolOf(t))' = Objects(PoolOf(t))
  BY <1>2, PlaceObjects, PlaceObjectsNext
<1>3. ASSUME chunk' = chunk, link' = link, pc[t] # "pushed", pc'[t] # "pushed"
      PROVE  Objects(ChunkOf(t))' = Objects(ChunkOf(t))
  BY <1>3, PlaceObjects, PlaceObjectsNext
<1>4. QED
  BY <1>1, <1>2, <1>3

\* A function changed at one argument.
LEMMA Changes ==
    ASSUME NEW X, NEW Y, NEW f \in [X -> Y], NEW x \in X, NEW y \in Y, NEW g,
           g = [f EXCEPT ![x] = y]
    PROVE  g \in [X -> Y] /\ g[x] = y /\ \A z \in X \ {x} : g[z] = f[z]
OBVIOUS

\* An object of the second list is handed out.
LEMMA AllocFromChunkStep ==
    ASSUME StackInv, ObjectsInv, NEW t \in Thread, AllocFromChunk(t)
    PROVE  StackInv' /\ ObjectsInv'
<1> DEFINE x == chunk[t].top
<1>1. /\ pc[t] = "idle" /\ t \in attached /\ chunk[t].size # 0
      /\ out' = out \cup {x} /\ useSize' = useSize + 1
      /\ UNCHANGED <<attached, pool, link, allocSize, freeing>> /\ UNCHANGED stackVars
  BY DEF AllocFromChunk, CanAlloc, At, HandOut
<1>2. StackInv' /\ ValuesApart' /\ StackedValues' = StackedValues /\ pc' = pc /\ reg' = reg
  BY <1>1, StackStutter, SharedKept DEF ObjectsInv, stackVars
<1>3. PoolTyped /\ OwnLists(t) /\ Calls(t)
  BY DEF ObjectsInv, Lists
<1>4. /\ IsList(link, x, chunk[t].size) /\ chunk[t].size \in Nat
      /\ chunk[t].size <= ChunkSize
  BY <1>1, <1>3 DEF OwnLists, PoolTyped, List
<1>5. /\ x \in Obj /\ x \in Members(link, x, chunk[t].size)
      /\ IsList(link, link[x], chunk[t].size - 1)
      /\ Members(link, link[x], chunk[t].size - 1) = Members(link, x, chunk[t].size) \ {x}
  BY <1>1, <1>4, ListTake
<1>6. link[x] \in Obj \cup {Nil, Junk} /\ chunk[t].size - 1 \in 0..ChunkSize
  BY <1>1, <1>3, <1>4, <1>5, PoolAssumption DEF PoolTyped
<1>7. /\ chunk' \in [Thread -> List] /\ \A u \in Thread \ {t} : chunk'[u] = chunk[u]
      /\ chunk'[t].top = link[x] /\ chunk'[t].size = chunk[t].size - 1
  <2>1. Taken(chunk[t]) \in List
    BY <1>6 DEF Taken, List
  <2>2. /\ chunk' \in [Thread -> List] /\ \A u \in Thread \ {t} : chunk'[u] = chunk[u]
        /\ chunk'[t] = Taken(chunk[t])
    BY <1>3, <2>1, Changes DEF AllocFromChunk, PoolTyped
  <2>3. QED
    BY <2>2 DEF Taken
<1>8. PoolTyped'
  BY <1>1, <1>3, <1>5, <1>7 DEF PoolTyped
<1>9. Alone(t)
  BY <1>1, <1>2, <1>7 DEF Alone
<1>10. /\ Objects(FreeingBy(t))' = Objects(FreeingBy(t))
       /\ Objects(PoolOf(t))' = Objects(PoolOf(t))
       /\ x \in Objects(ChunkOf(t)) /\ Objects(ChunkOf(t))' = Objects(ChunkOf(t)) \ {x}
  <2>1. pc[t] # "pushed" /\ pc'[t] # "pushed"
    BY <1>1, <1>2
  <2>2. /\ Objects(ChunkOf(t)) = Members(link, x, chunk[t].size)
        /\ Objects(ChunkOf(t))' = Members(link', chunk'[t].top, chunk'[t].size)
    BY <2>1, PlaceObjects, PlaceObjectsNext
  <2>3. Objects(ChunkOf(t))' = Members(link, x, chunk[t].size) \ {x}
    BY <1>1, <1>5, <1>7, <2>2
  <2>4. /\ Objects(FreeingBy(t))' = Objects(FreeingBy(t))
        /\ Objects(PoolOf(t))' = Objects(PoolOf(t))
    BY <1>1, SamePlaces
  <2>5. QED
    BY <1>5, <2>2, <2>3, <2>4
<1>11. OwnLists(t)'
  BY <1>1, <1>2, <1>3, <1>5, <1>7 DEF OwnLists
<1>12. Calls(t)'
  BY <1>1, <1>2, <1>3 DEF Calls, Pushing, Popping, Popped
<1>13. OwnApart(t)' /\ Own(t)' = Own(t)
  BY <1>1, <1>10, NearObjects DEF OwnApart, Own
<1>14. (allocSize + 1)..allocSize' = {} /\ allocSize <= allocSize'
  BY <1>1, <1>3 DEF PoolTyped
<1>15. QED
  BY <1>1, <1>2, <1>8, <1>9, <1>11, <1>12, <1>13, <1>14, ReassembledAlone

\* An object of the first list is handed out.
LEMMA AllocFromPoolStep ==
    ASSUME StackInv, ObjectsInv, NEW t \in Thread, AllocFromPool(t)
    PROVE  StackInv' /\ ObjectsInv'
<1> DEFINE x == pool[t].top
<1>1. /\ pc[t] = "idle" /\ t \in attached /\ pool[t].size # 0
      /\ out' = out \cup {x} /\ useSize' = useSize + 1
      /\ UNCHANGED <<attached, chunk, link, allocSize, freeing>> /\ UNCHANGED stackVars
  BY DEF AllocFromPool, CanAlloc, At, HandOut
<1>2. StackInv' /\ ValuesApart' /\ StackedValues' = StackedValues /\ pc' = pc /\ reg' = reg
  BY <1>1, StackStutter, SharedKept DEF ObjectsInv, stackVars
<1>3. PoolTyped /\ OwnLists(t) /\ Calls(t)
  BY DEF ObjectsInv, Lists
<1>4. /\ IsList(link, x, pool[t].size) /\ pool[t].size \in Nat
      /\ pool[t].size <= ChunkSize
  BY <1>1, <1>3 DEF OwnLists, PoolTyped, List
<1>5. /\ x \in Obj /\ x \in Members(link, x, pool[t].size)
      /\ IsList(link, link[x], pool[t].size - 1)
      /\ Members(link, link[x], pool[t].size - 1) = Members(link, x, pool[t].size) \ {x}
  BY <1>1, <1>4, ListTake
<1>6. link[x] \in Obj \cup {Nil, Junk} /\ pool[t].size - 1 \in 0..ChunkSize
  BY <1>1, <1>3, <1>4, <1>5, PoolAssumption DEF PoolTyped
<1>7. /\ pool' \in [Thread -> List] /\ \A u \in Thread \ {t} : pool'[u] = pool[u]
      /\ pool'[t].top = link[x] /\ pool'[t].size = pool[t].size - 1
  <2>1. Taken(pool[t]) \in List
    BY <1>6 DEF Taken, List
  <2>2. /\ pool' \in [Thread -> List] /\ \A u \in Thread \ {t} : pool'[u] = pool[u]
        /\ pool'[t] = Taken(pool[t])
    BY <1>3, <2>1, Changes DEF AllocFromPool, PoolTyped
  <2>3. QED
    BY <2>2 DEF Taken
<1>8. PoolTyped'
  BY <1>1, <1>3, <1>5, <1>7 DEF PoolTyped
<1>9. Alone(t)
  BY <1>1, <1>2, <1>7 DEF Alone
<1>10. /\ Objects(FreeingBy(t))' = Objects(FreeingBy(t))
       /\ Objects(ChunkOf(t))' = Objects(ChunkOf(t))
       /\ x \in Objects(PoolOf(t)) /\ Objects(PoolOf(t))' = Objects(PoolOf(t)) \ {x}
  <2>1. pc[t] # "pushed" /\ pc'[t] # "pushed"
    BY <1>1, <1>2
  <2>2. /\ Objects(PoolOf(t)) = Members(link, x, pool[t].size)
        /\ Objects(PoolOf(t))' = Members(link', pool'[t].top, pool'[t].size)
    BY PlaceObjects, PlaceObjectsNext
  <2>3. Objects(PoolOf(t))' = Members(link, x, pool[t].size) \ {x}
    BY <1>1, <1>5, <1>7, <2>2
  <2>4. /\ Objects(FreeingBy(t))' = Objects(FreeingBy(t))
        /\ Objects(ChunkOf(t))' = Objects(ChunkOf(t))
    BY <1>1, <2>1, SamePlaces
  <2>5. QED
    BY <1>5, <2>2, <2>3, <2>4
<1>11. OwnLists(t)'
  BY <1>1, <1>2, <1>3, <1>5, <1>7 DEF OwnLists
<1>12. Calls(t)'
  BY <1>1, <1>2, <1>3 DEF Calls, Pushing, Popping, Popped
<1>13. OwnApart(t)' /\ Own(t)' = Own(t)
  BY <1>1, <1>10, NearObjects DEF OwnApart, Own
<1>14. (allocSize + 1)..allocSize' = {} /\ allocSize <= allocSize'
  BY <1>1, <1>3 DEF PoolTyped
<1>15. QED
  BY <1>1, <1>2, <1>8, <1>9, <1>11, <1>12, <1>13, <1>14, ReassembledAlone

\* The thread asks the others for a chunk.
LEMMA AllocSharedStep ==
    ASSUME StackInv, ObjectsInv, NEW t \in Thread, AllocShared(t)
    PROVE  StackInv' /\ ObjectsInv'
<1>1. /\ pool[t].size = 0 /\ chunk[t].size = 0 /\ PopCall(t) /\ UNCHANGED localVars
      /\ t \in attached
  BY DEF AllocShared, CanAlloc
<1>2. /\ StackInv' /\ Contents' = Contents /\ pc[t] = "idle" /\ pc'[t] = "popRead" /\ reg' = reg
      /\ \A u \in Thread \ {t} : pc'[u] = pc[u] /\ reg'[u] = reg[u]
      /\ ValuesApart'
  BY <1>1, PopCallKeeps, PopCallValues DEF ObjectsInv
<1>3. StackedValues' = StackedValues
  BY <1>2, SharedCall
<1>4. PoolTyped /\ OwnLists(t) /\ Calls(t)
  BY DEF ObjectsInv, Lists
<1>5. /\ pool' = pool /\ chunk' = chunk /\ link' = link /\ freeing' = freeing /\ out' = out
      /\ attached' = attached /\ allocSize' = allocSize /\ useSize' = useSize
  BY <1>1 DEF localVars
<1>6. PoolTyped' /\ Alone(t)
  BY <1>2, <1>4, <1>5 DEF PoolTyped, Alone
<1>7. OwnLists(t)'
  BY <1>2, <1>4, <1>5 DEF OwnLists
<1>8. Calls(t)'
  BY <1>1, <1>2, <1>4, <1>5 DEF Calls, Pushing, Popping, Popped
<1>9. /\ Objects(FreeingBy(t))' = Objects(FreeingBy(t))
      /\ Objects(PoolOf(t))' = Objects(PoolOf(t)) /\ Objects(ChunkOf(t))' = Objects(ChunkOf(t))
  BY <1>2, <1>5, SamePlaces
<1>10. OwnApart(t)' /\ Own(t)' = Own(t)
  BY <1>5, <1>9, NearObjects DEF OwnApart, Own
<1>11. (allocSize + 1)..allocSize' = {} /\ allocSize <= allocSize'
  BY <1>4, <1>5 DEF PoolTyped
<1>12. QED
  BY <1>2, <1>3, <1>5, <1>6, <1>7, <1>8, <1>10, <1>11, ReassembledAlone

\* An object is put on the first list.
LEMMA FreeToPoolStep ==
    ASSUME StackInv, ObjectsInv, NEW t \in Thread, NEW o \in out, FreeToPool(t, o)
    PROVE  StackInv' /\ ObjectsInv'
<1>1. /\ pc[t] = "idle" /\ t \in attached /\ pool[t].size # ChunkSize
      /\ link' = [link EXCEPT ![o] = pool[t].top]
      /\ out' = out \ {o} /\ useSize' = useSize - 1
      /\ UNCHANGED <<attached, chunk, allocSize, freeing>> /\ UNCHANGED stackVars
  BY DEF FreeToPool, At, Full
<1>2. StackInv' /\ ValuesApart' /\ StackedValues' = StackedValues /\ pc' = pc /\ reg' = reg
  BY <1>1, StackStutter, SharedKept DEF ObjectsInv, stackVars
<1>3. PoolTyped /\ OwnLists(t) /\ Calls(t)
  BY DEF ObjectsInv, Lists
<1>4. /\ pool[t].size \in Nat /\ pool[t].size <= ChunkSize /\ chunk[t].size \in Nat
      /\ pool[t].top \in Obj \cup {Nil, Junk} /\ o \in Obj
  BY <1>3 DEF PoolTyped, List
<1>5. pc[t] # "pushed" /\ pc'[t] # "pushed"
  BY <1>1, <1>2
<1>6. /\ link' \in [Obj -> Obj \cup {Nil, Junk}] /\ link'[o] = pool[t].top
      /\ \A m \in Obj \ {o} : link'[m] = link[m]
  BY <1>1, <1>3, <1>4, Changes DEF PoolTyped
<1>7. /\ pool' \in [Thread -> List] /\ \A u \in Thread \ {t} : pool'[u] = pool[u]
      /\ pool'[t].top = o /\ pool'[t].size = pool[t].size + 1
  <2>1. pool[t].size + 1 \in 0..ChunkSize
    BY <1>1, <1>4, PoolAssumption
  <2>2. Put(pool[t], o) \in List
    BY <1>4, <2>1 DEF Put, List
  <2>3. /\ pool' \in [Thread -> List] /\ \A u \in Thread \ {t} : pool'[u] = pool[u]
        /\ pool'[t] = Put(pool[t], o)
    BY <1>3, <2>2, Changes DEF FreeToPool, PoolTyped
  <2>4. QED
    BY <2>3 DEF Put
<1>8. PoolTyped'
  BY <1>1, <1>3, <1>6, <1>7 DEF PoolTyped
<1>9. Alone(t)
  BY <1>1, <1>2, <1>7 DEF Alone
<1>10. OwnApart(t) /\ Own(t) \subseteq 1..allocSize
  BY NearObjects
<1>11. 1..allocSize \subseteq Obj
  BY <1>3, PoolAssumption DEF PoolTyped, Obj
<1>12. /\ Objects(PoolOf(t)) = Members(link, pool[t].top, pool[t].size)
       /\ Objects(ChunkOf(t)) = Members(link, chunk[t].top, chunk[t].size)
  BY <1>5, PlaceObjects
<1>13. /\ o \notin Objects(PoolOf(t)) /\ o \notin Objects(ChunkOf(t))
       /\ Objects(PoolOf(t)) \subseteq Obj /\ Objects(ChunkOf(t)) \subseteq Obj
  BY <1>10, <1>11 DEF OwnApart, Own
<1>14. /\ IsList(link', pool[t].top, pool[t].size)
       /\ Members(link', pool[t].top, pool[t].size) = Objects(PoolOf(t))
  BY <1>3, <1>4, <1>6, <1>12, <1>13, ListKept DEF OwnLists
<1>15. /\ IsList(link', o, pool[t].size + 1)
       /\ Members(link', o, pool[t].size + 1) = Objects(PoolOf(t)) \cup {o}
  BY <1>4, <1>6, <1>13, <1>14, ListPut
<1>16. /\ IsList(link', chunk[t].top, chunk[t].size)
       /\ Members(link', chunk[t].top, chunk[t].size) = Objects(ChunkOf(t))
  BY <1>3, <1>4, <1>5, <1>6, <1>12, <1>13, ListKept DEF OwnLists
<1>17. OwnLists(t)'
  BY <1>1, <1>7, <1>15, <1>16 DEF OwnLists
<1>18. /\ Objects(PoolOf(t))' = Objects(PoolOf(t)) \cup {o}
       /\ Objects(ChunkOf(t))' = Objects(ChunkOf(t))
       /\ Objects(FreeingBy(t))' = Objects(FreeingBy(t))
  <2>1. Objects(PoolOf(t))' = Objects(PoolOf(t)) \cup {o}
    BY <1>7, <1>15, PlaceObjectsNext
  <2>2. Objects(ChunkOf(t))' = Objects(ChunkOf(t))
    BY <1>1, <1>5, <1>16, PlaceObjectsNext
  <2>3. QED
    BY <1>1, <2>1, <2>2, SamePlaces
<1>19. Calls(t)'
  BY <1>1, <1>2, <1>3 DEF Calls, Pushing, Popping, Popped
<1>20. OwnApart(t)' /\ Own(t)' = Own(t)
  BY <1>1, <1>10, <1>18 DEF OwnApart, Own
<1>21. (allocSize + 1)..allocSize' = {} /\ allocSize <= allocSize'
  BY <1>1, <1>3 DEF PoolTyped
<1>22. \A m \in 1..allocSize : m \notin Own(t) => link'[m] = link[m]
  BY <1>6, <1>11 DEF Own
<1>23. QED
  BY <1>2, <1>8, <1>9, <1>17, <1>19, <1>20, <1>21, <1>22, ReassembledAlone

\* An object is put on the second list.
LEMMA FreeToChunkStep ==
    ASSUME StackInv, ObjectsInv, NEW t \in Thread, NEW o \in out, FreeToChunk(t, o)
    PROVE  StackInv' /\ ObjectsInv'
<1>1. /\ pc[t] = "idle" /\ t \in attached /\ chunk[t].size # ChunkSize
      /\ link' = [link EXCEPT ![o] = chunk[t].top]
      /\ out' = out \ {o} /\ useSize' = useSize - 1
      /\ UNCHANGED <<attached, pool, allocSize, freeing>> /\ UNCHANGED stackVars
  BY DEF FreeToChunk, At, Full
<1>2. StackInv' /\ ValuesApart' /\ StackedValues' = StackedValues /\ pc' = pc /\ reg' = reg
  BY <1>1, StackStutter, SharedKept DEF ObjectsInv, stackVars
<1>3. PoolTyped /\ OwnLists(t) /\ Calls(t)
  BY DEF ObjectsInv, Lists
<1>4. /\ chunk[t].size \in Nat /\ chunk[t].size <= ChunkSize /\ pool[t].size \in Nat
      /\ chunk[t].top \in Obj \cup {Nil, Junk} /\ o \in Obj
  BY <1>3 DEF PoolTyped, List
<1>5. pc[t] # "pushed" /\ pc'[t] # "pushed"
  BY <1>1, <1>2
<1>6. /\ link' \in [Obj -> Obj \cup {Nil, Junk}] /\ link'[o] = chunk[t].top
      /\ \A m \in Obj \ {o} : link'[m] = link[m]
  BY <1>1, <1>3, <1>4, Changes DEF PoolTyped
<1>7. /\ chunk' \in [Thread -> List] /\ \A u \in Thread \ {t} : chunk'[u] = chunk[u]
      /\ chunk'[t].top = o /\ chunk'[t].size = chunk[t].size + 1
  <2>1. chunk[t].size + 1 \in 0..ChunkSize
    BY <1>1, <1>4, PoolAssumption
  <2>2. Put(chunk[t], o) \in List
    BY <1>4, <2>1 DEF Put, List
  <2>3. /\ chunk' \in [Thread -> List] /\ \A u \in Thread \ {t} : chunk'[u] = chunk[u]
        /\ chunk'[t] = Put(chunk[t], o)
    BY <1>3, <2>2, Changes DEF FreeToChunk, PoolTyped
  <2>4. QED
    BY <2>3 DEF Put
<1>8. PoolTyped'
  BY <1>1, <1>3, <1>6, <1>7 DEF PoolTyped
<1>9. Alone(t)
  BY <1>1, <1>2, <1>7 DEF Alone
<1>10. OwnApart(t) /\ Own(t) \subseteq 1..allocSize
  BY NearObjects
<1>11. 1..allocSize \subseteq Obj
  BY <1>3, PoolAssumption DEF PoolTyped, Obj
<1>12. /\ Objects(PoolOf(t)) = Members(link, pool[t].top, pool[t].size)
       /\ Objects(ChunkOf(t)) = Members(link, chunk[t].top, chunk[t].size)
  BY <1>5, PlaceObjects
<1>13. /\ o \notin Objects(PoolOf(t)) /\ o \notin Objects(ChunkOf(t))
       /\ Objects(PoolOf(t)) \subseteq Obj /\ Objects(ChunkOf(t)) \subseteq Obj
  BY <1>10, <1>11 DEF OwnApart, Own
<1>14. /\ IsList(link', chunk[t].top, chunk[t].size)
       /\ Members(link', chunk[t].top, chunk[t].size) = Objects(ChunkOf(t))
  BY <1>3, <1>4, <1>5, <1>6, <1>12, <1>13, ListKept DEF OwnLists
<1>15. /\ IsList(link', o, chunk[t].size + 1)
       /\ Members(link', o, chunk[t].size + 1) = Objects(ChunkOf(t)) \cup {o}
  BY <1>4, <1>6, <1>13, <1>14, ListPut
<1>16. /\ IsList(link', pool[t].top, pool[t].size)
       /\ Members(link', pool[t].top, pool[t].size) = Objects(PoolOf(t))
  BY <1>3, <1>4, <1>6, <1>12, <1>13, ListKept DEF OwnLists
<1>17. OwnLists(t)'
  BY <1>1, <1>7, <1>15, <1>16 DEF OwnLists
<1>18. /\ Objects(ChunkOf(t))' = Objects(ChunkOf(t)) \cup {o}
       /\ Objects(PoolOf(t))' = Objects(PoolOf(t))
       /\ Objects(FreeingBy(t))' = Objects(FreeingBy(t))
  <2>1. Objects(ChunkOf(t))' = Objects(ChunkOf(t)) \cup {o}
    BY <1>5, <1>7, <1>15, PlaceObjectsNext
  <2>2. Objects(PoolOf(t))' = Objects(PoolOf(t))
    BY <1>1, <1>16, PlaceObjectsNext
  <2>3. QED
    BY <1>1, <2>1, <2>2, SamePlaces
<1>19. Calls(t)'
  BY <1>1, <1>2, <1>3 DEF Calls, Pushing, Popping, Popped
<1>20. OwnApart(t)' /\ Own(t)' = Own(t)
  BY <1>1, <1>10, <1>18 DEF OwnApart, Own
<1>21. (allocSize + 1)..allocSize' = {} /\ allocSize <= allocSize'
  BY <1>1, <1>3 DEF PoolTyped
<1>22. \A m \in 1..allocSize : m \notin Own(t) => link'[m] = link[m]
  BY <1>6, <1>11 DEF Own
<1>23. QED
  BY <1>2, <1>8, <1>9, <1>17, <1>19, <1>20, <1>21, <1>22, ReassembledAlone

\* Both lists are full: the second one is about to be pushed, the object waits.
LEMMA FreeSharedStep ==
    ASSUME StackInv, ObjectsInv, NEW t \in Thread, NEW o \in out, FreeShared(t, o)
    PROVE  StackInv' /\ ObjectsInv'
<1> DEFINE x == chunk[t].top
<1>1. /\ t \in attached /\ Full(chunk[t]) /\ PushCall(t, x)
      /\ out' = out \ {o} /\ UNCHANGED <<attached, pool, chunk, link, allocSize, useSize>>
      /\ pc[t] = "idle" /\ chunk[t].size = ChunkSize
  BY DEF FreeShared, PushCall, At, Full
<1>2. PoolTyped /\ OwnLists(t) /\ Calls(t) /\ ChunkSize \in Nat /\ ChunkSize # 0
  BY PoolAssumption DEF ObjectsInv, Lists
<1>3. IsList(link, x, ChunkSize)
  BY <1>1, <1>2 DEF OwnLists
<1>4. x \in Obj /\ x \in Members(link, x, ChunkSize)
  BY <1>2, <1>3, ListTake
<1>5. x \in Objects(ChunkOf(t))
  BY <1>1, <1>4, PlaceObjects
<1>6. x \notin Values
  <2>1. \A p \in Places : p # ChunkOf(t) => x \notin Objects(p)
    <3>1. ChunkOf(t) \in Places
      BY PlaceKinds
    <3>2. QED
      BY <1>5, <3>1 DEF ObjectsInv, Located
  <2>2. x \notin StackedValues
    <3>1. SUFFICES ASSUME x \in StackedValues PROVE FALSE
      OBVIOUS
    <3>2. SharedAt(x) \in Places /\ SharedAt(x) # ChunkOf(t)
      BY <3>1, PlaceKinds
    <3>3. Objects(SharedAt(x)) = Members(link, x, ChunkSize)
      BY PlaceObjects
    <3>4. QED
      BY <1>4, <2>1, <3>2, <3>3
  <2>3. ASSUME NEW u \in Thread, pc[u] \in Pushing PROVE reg[u].val # x
    <3>1. u # t
      BY <1>1, <2>3 DEF Pushing
    <3>2. Calls(u) /\ OwnLists(u)
      BY DEF ObjectsInv, Lists
    <3>3. chunk[u].size = ChunkSize /\ reg[u].val = chunk[u].top /\ pc[u] # "pushed"
      BY <2>3, <3>2 DEF Calls, Full, Pushing
    <3>4. chunk[u].top \in Members(link, chunk[u].top, ChunkSize)
      BY <1>2, <3>2, <3>3, ListTake DEF OwnLists
    <3>5. chunk[u].top \in Objects(ChunkOf(u))
      BY <3>3, <3>4, PlaceObjects
    <3>6. ChunkOf(u) \in Places /\ ChunkOf(u) # ChunkOf(t)
      BY <3>1, PlaceKinds
    <3>7. QED
      BY <2>1, <3>3, <3>5, <3>6
  <2>4. StackedValues = On(Contents) \cup {reg[u].val : u \in {z \in Thread : pc[z] \in Popped}}
    BY SharedIs
  <2>5. QED
    BY <2>2, <2>3, <2>4 DEF Values, Hands
<1>7. x \in Int
  BY <1>4, PoolAssumption DEF Obj
<1>8. /\ StackInv' /\ Contents' = Contents /\ pc'[t] = "poolAlloc" /\ reg'[t].val = x
      /\ \A u \in Thread \ {t} : pc'[u] = pc[u] /\ reg'[u] = reg[u]
      /\ ValuesApart'
  BY <1>1, <1>6, <1>7, PushCallKeeps, PushCallValues DEF ObjectsInv
<1>9. StackedValues' = StackedValues
  BY <1>1, <1>8, SharedCall
<1>10. o \in Obj /\ freeing[t] = Nil
  BY <1>1, <1>2 DEF PoolTyped, Calls, Pushing
<1>11. /\ freeing' \in [Thread -> Obj \cup {Nil}] /\ freeing'[t] = o
       /\ \A u \in Thread \ {t} : freeing'[u] = freeing[u]
  BY <1>2, <1>10, Changes DEF FreeShared, PoolTyped
<1>12. PoolTyped' /\ Alone(t)
  BY <1>1, <1>2, <1>8, <1>11 DEF PoolTyped, Alone
<1>13. OwnLists(t)'
  BY <1>1, <1>2, <1>8 DEF OwnLists
<1>14. o # Nil
  BY <1>10, PoolAssumption DEF Obj, Nil
<1>15. Calls(t)'
  BY <1>1, <1>8, <1>11, <1>14 DEF Calls, Full, Pushing, Popping, Popped
<1>16. /\ Objects(FreeingBy(t)) = {} /\ Objects(FreeingBy(t))' = {o}
       /\ Objects(PoolOf(t))' = Objects(PoolOf(t)) /\ Objects(ChunkOf(t))' = Objects(ChunkOf(t))
  <2>1. Objects(FreeingBy(t)) = {} /\ Objects(FreeingBy(t))' = {o}
    BY <1>10, <1>11, <1>14, PlaceObjects, PlaceObjectsNext
  <2>2. QED
    BY <1>1, <1>8, <2>1, SamePlaces
<1>17. OwnApart(t)' /\ Own(t)' = Own(t)
  BY <1>1, <1>16, NearObjects DEF OwnApart, Own
<1>18. (allocSize + 1)..allocSize' = {} /\ allocSize <= allocSize'
  BY <1>1, <1>2 DEF PoolTyped
<1>19. QED
  BY <1>1, <1>8, <1>9, <1>12, <1>13, <1>15, <1>17, <1>18, ReassembledAlone

\* The second list is shared; the object that waited starts a new one.
LEMMA FreePushedStep ==
    ASSUME StackInv, ObjectsInv, NEW t \in Thread, FreePushed(t)
    PROVE  StackInv' /\ ObjectsInv'
<1> DEFINE o == freeing[t]
<1>1. /\ pc[t] = "pushed" /\ StackReturn(t) /\ UNCHANGED <<attached, pool, allocSize, out>>
      /\ link' = [link EXCEPT ![o] = Nil] /\ useSize' = useSize - 1
      /\ chunk' = [chunk EXCEPT ![t] = [top |-> o, size |-> 0 + 1]]
      /\ freeing' = [freeing EXCEPT ![t] = Nil]
  BY DEF FreePushed, At, Cleared, Put
<1>2. PoolTyped /\ OwnLists(t) /\ Calls(t) /\ ChunkSize \in Nat /\ ChunkSize # 0
  BY PoolAssumption DEF ObjectsInv, Lists
<1>3. o \in Obj /\ t \in attached
  BY <1>1, <1>2 DEF PoolTyped, Calls
<1>4. /\ StackInv' /\ pc'[t] = "idle" /\ ValuesApart'
      /\ \A u \in Thread \ {t} : pc'[u] = pc[u] /\ reg'[u] = reg[u]
  BY <1>1, ReturnKeeps, ReturnValues DEF ObjectsInv
<1>5. StackedValues' = StackedValues
  BY <1>1, SharedReturn DEF ObjectsInv
<1>6. /\ link' \in [Obj -> Obj \cup {Nil, Junk}] /\ link'[o] = Nil
      /\ \A m \in Obj \ {o} : link'[m] = link[m]
  BY <1>1, <1>2, <1>3, Changes DEF PoolTyped
<1>7. /\ chunk' \in [Thread -> List] /\ \A u \in Thread \ {t} : chunk'[u] = chunk[u]
      /\ chunk'[t].top = o /\ chunk'[t].size = 0 + 1
  <2>1. [top |-> o, size |-> 0 + 1] \in List
    BY <1>2, <1>3 DEF List
  <2>2. QED
    BY <1>1, <1>2, <2>1, Changes DEF PoolTyped
<1>8. /\ freeing' \in [Thread -> Obj \cup {Nil}] /\ freeing'[t] = Nil
      /\ \A u \in Thread \ {t} : freeing'[u] = freeing[u]
  BY <1>1, <1>2, Changes DEF PoolTyped
<1>9. PoolTyped'
  BY <1>1, <1>2, <1>6, <1>7, <1>8 DEF PoolTyped
<1>10. Alone(t)
  BY <1>1, <1>4, <1>7, <1>8 DEF Alone
<1>11. OwnApart(t) /\ Own(t) \subseteq 1..allocSize
  BY NearObjects
<1>12. 1..allocSize \subseteq Obj
  BY <1>2, PoolAssumption DEF PoolTyped, Obj
<1>13. o # Nil
  BY <1>3, PoolAssumption DEF Obj, Nil
<1>14. /\ Objects(PoolOf(t)) = Members(link, pool[t].top, pool[t].size)
       /\ Objects(ChunkOf(t)) = {} /\ Objects(FreeingBy(t)) = {o}
  BY <1>1, <1>13, PlaceObjects
<1>15. o \notin Objects(PoolOf(t)) /\ Objects(PoolOf(t)) \subseteq Obj
  BY <1>11, <1>12, <1>14 DEF OwnApart, Own
<1>16. pool[t].size \in Nat
  BY <1>2 DEF PoolTyped, List
<1>17. /\ IsList(link', pool[t].top, pool[t].size)
       /\ Members(link', pool[t].top, pool[t].size) = Objects(PoolOf(t))
  BY <1>2, <1>6, <1>14, <1>15, <1>16, ListKept DEF OwnLists
<1>18. IsList(link', o, 0 + 1) /\ Members(link', o, 0 + 1) = {o}
  <2>1. IsList(link', Nil, 0) /\ Members(link', Nil, 0) = {}
    BY ListEmpty
  <2>2. QED
    BY <1>3, <1>6, <2>1, ListPut
<1>19. OwnLists(t)'
  BY <1>1, <1>7, <1>17, <1>18 DEF OwnLists
<1>20. /\ Objects(PoolOf(t))' = Objects(PoolOf(t)) /\ Objects(ChunkOf(t))' = {o}
       /\ Objects(FreeingBy(t))' = {}
  <2>1. Objects(PoolOf(t))' = Objects(PoolOf(t))
    BY <1>1, <1>17, PlaceObjectsNext
  <2>2. Objects(ChunkOf(t))' = {o}
    BY <1>4, <1>7, <1>18, PlaceObjectsNext
  <2>3. Objects(FreeingBy(t))' = {}
    BY <1>8, PlaceObjectsNext
  <2>4. QED
    BY <2>1, <2>2, <2>3
<1>21. Calls(t)'
  BY <1>1, <1>3, <1>4, <1>8 DEF Calls, Pushing, Popping, Popped
<1>22. OwnApart(t)' /\ Own(t)' = Own(t)
  BY <1>1, <1>11, <1>14, <1>20 DEF OwnApart, Own
<1>23. (allocSize + 1)..allocSize' = {} /\ allocSize <= allocSize'
  BY <1>1, <1>2 DEF PoolTyped
<1>24. \A m \in 1..allocSize : m \notin Own(t) => link'[m] = link[m]
  BY <1>6, <1>12, <1>14 DEF Own
<1>25. QED
  BY <1>4, <1>5, <1>9, <1>10, <1>19, <1>21, <1>22, <1>23, <1>24, ReassembledAlone

\* What POOL::Generate makes of a list: ChunkSize new objects.
LEMMA GeneratedIs ==
    ASSUME PoolTyped, RoomToGenerate, NEW l \in List, NEW g, g = LinkGenerated(l)
    PROVE  /\ g \in [Obj -> Obj \cup {Nil, Junk}]
           /\ \A o \in 1..allocSize : g[o] = link[o]
           /\ IsList(g, allocSize + ChunkSize, ChunkSize)
           /\ Members(g, allocSize + ChunkSize, ChunkSize)
                = (allocSize + 1)..(allocSize + ChunkSize)
<1> DEFINE a == allocSize
           n == ChunkSize
<1>1. a \in Nat /\ n \in Nat \ {0} /\ a + n <= MaxObj /\ MaxObj \in Nat
  BY PoolAssumption DEF PoolTyped, RoomToGenerate
<1>2. g = [o \in Obj |-> IF o \in (a + 1)..(a + n) THEN IF o = a + 1 THEN l.top ELSE o - 1
                                                   ELSE link[o]]
  BY DEF LinkGenerated
<1>3. link \in [Obj -> Obj \cup {Nil, Junk}] /\ l.top \in Obj \cup {Nil, Junk}
  BY DEF PoolTyped, List
<1> HIDE DEF a, n
<1>4. \A o \in (a + 1)..(a + n) : o # a + 1 => o - 1 \in Obj
  BY <1>1 DEF Obj
<1>5. g \in [Obj -> Obj \cup {Nil, Junk}]
  BY <1>2, <1>3, <1>4
<1>6. \A o \in 1..a : o \in Obj /\ o \notin (a + 1)..(a + n)
  BY <1>1 DEF Obj
<1>7. \A o \in 1..a : g[o] = link[o]
  BY <1>2, <1>6
<1>8. \A i \in (a + 2)..(a + n) : i \in Obj /\ i \in (a + 1)..(a + n) /\ i # a + 1
  BY <1>1 DEF Obj
<1>9. \A i \in (a + 2)..(a + n) : g[i] = i - 1
  BY <1>2, <1>8
<1>10. IsList(g, a + n, n) /\ Members(g, a + n, n) = (a + 1)..(a + n)
  BY <1>1, <1>9, ListGenerated
<1>11. QED
  BY <1>5, <1>7, <1>10 DEF a, n

\* The first call of a thread.
LEMMA AttachStep ==
    ASSUME StackInv, ObjectsInv, NEW t \in Thread, Attach(t)
    PROVE  StackInv' /\ ObjectsInv'
<1> DEFINE N == (allocSize + 1)..(allocSize + ChunkSize)
<1>1. /\ pc[t] = "idle" /\ t \notin attached /\ RoomToGenerate
      /\ attached' = attached \cup {t} /\ link' = LinkGenerated(pool[t])
      /\ pool' = [pool EXCEPT ![t] = [top |-> allocSize + ChunkSize, size |-> ChunkSize]]
      /\ allocSize' = allocSize + ChunkSize
      /\ UNCHANGED <<chunk, useSize, out, freeing>> /\ UNCHANGED stackVars
  BY DEF Attach, At, Generated
<1>2. StackInv' /\ ValuesApart' /\ StackedValues' = StackedValues /\ pc' = pc /\ reg' = reg
  BY <1>1, StackStutter, SharedKept DEF ObjectsInv, stackVars
<1>3. /\ PoolTyped /\ OwnLists(t) /\ Calls(t) /\ ChunkSize \in Nat /\ ChunkSize # 0
      /\ MaxObj \in Nat /\ pool[t] \in List /\ chunk[t] \in List
  BY PoolAssumption DEF ObjectsInv, Lists, PoolTyped
<1>4. /\ link' \in [Obj -> Obj \cup {Nil, Junk}]
      /\ \A o \in 1..allocSize : link'[o] = link[o]
      /\ IsList(link', allocSize + ChunkSize, ChunkSize)
      /\ Members(link', allocSize + ChunkSize, ChunkSize) = N
  BY <1>1, <1>3, GeneratedIs
<1>5. /\ allocSize \in Nat /\ allocSize' \in Nat /\ allocSize' <= MaxObj
      /\ allocSize + ChunkSize \in Obj /\ allocSize <= allocSize'
  BY <1>1, <1>3 DEF PoolTyped, RoomToGenerate, Obj
<1>6. /\ pool' \in [Thread -> List] /\ \A u \in Thread \ {t} : pool'[u] = pool[u]
      /\ pool'[t].top = allocSize + ChunkSize /\ pool'[t].size = ChunkSize
  <2>1. [top |-> allocSize + ChunkSize, size |-> ChunkSize] \in List
    BY <1>3, <1>5 DEF List
  <2>2. QED
    BY <1>1, <1>3, <2>1, Changes DEF PoolTyped
<1>7. PoolTyped'
  BY <1>1, <1>3, <1>4, <1>5, <1>6 DEF PoolTyped
<1>8. Alone(t)
  BY <1>1, <1>2, <1>6 DEF Alone
<1>9. OwnApart(t) /\ Own(t) \subseteq 1..allocSize
  BY NearObjects
<1>10. pool[t].size = 0 /\ chunk[t].size = 0
  BY <1>1, <1>3 DEF Calls
<1>11. /\ Objects(PoolOf(t)) = {} /\ Objects(ChunkOf(t)) = {}
  BY <1>10, PlaceObjects, ListEmpty
<1>12. /\ Objects(PoolOf(t))' = N /\ Objects(ChunkOf(t))' = {}
       /\ Objects(FreeingBy(t))' = Objects(FreeingBy(t))
  <2>1. Objects(PoolOf(t))' = N
    BY <1>4, <1>6, PlaceObjectsNext
  <2>2. Objects(ChunkOf(t))' = {}
    BY <1>1, <1>10, PlaceObjectsNext, ListEmpty
  <2>3. QED
    BY <1>1, <2>1, <2>2, SamePlaces
<1>13. OwnLists(t)'
  BY <1>1, <1>4, <1>6, <1>10, ListEmpty DEF OwnLists
<1>14. Calls(t)'
  BY <1>1, <1>2, <1>3 DEF Calls, Pushing, Popping, Popped
<1>15. N \cap (1..allocSize) = {} /\ N = (allocSize + 1)..allocSize'
  BY <1>1, <1>3, <1>5
<1>16. OwnApart(t)' /\ Own(t)' = Own(t) \cup N
  <2> HIDE DEF N
  <2>1. QED
    BY <1>1, <1>9, <1>11, <1>12, <1>15 DEF OwnApart, Own
<1>17. QED
  BY <1>2, <1>4, <1>5, <1>7, <1>8, <1>13, <1>14, <1>15, <1>16, ReassembledAlone

\* Nothing is shared: new objects, the last one handed out.
LEMMA AllocGeneratedStep ==
    ASSUME StackInv, ObjectsInv, NEW t \in Thread, AllocGenerated(t)
    PROVE  StackInv' /\ ObjectsInv'
<1> DEFINE N == (allocSize + 1)..(allocSize + ChunkSize)
           x == allocSize + ChunkSize
<1>1. /\ pc[t] = "empty" /\ RoomToGenerate /\ link' = LinkGenerated(pool[t])
      /\ pool' = [pool EXCEPT ![t] = [top |-> link'[x], size |-> ChunkSize - 1]]
      /\ out' = out \cup {x} /\ useSize' = useSize + 1
      /\ allocSize' = allocSize + ChunkSize
      /\ UNCHANGED <<attached, chunk, freeing>> /\ StackReturn(t)
  BY DEF AllocGenerated, At, Generated, HandOut
<1>2. /\ StackInv' /\ pc'[t] = "idle" /\ ValuesApart'
      /\ \A u \in Thread \ {t} : pc'[u] = pc[u] /\ reg'[u] = reg[u]
  BY <1>1, ReturnKeeps, ReturnValues DEF ObjectsInv
<1>3. StackedValues' = StackedValues
  BY <1>1, SharedReturn DEF ObjectsInv
<1>4. /\ PoolTyped /\ OwnLists(t) /\ Calls(t) /\ ChunkSize \in Nat /\ ChunkSize # 0
      /\ MaxObj \in Nat /\ pool[t] \in List /\ chunk[t] \in List
  BY PoolAssumption DEF ObjectsInv, Lists, PoolTyped
<1>5. /\ link' \in [Obj -> Obj \cup {Nil, Junk}]
      /\ \A o \in 1..allocSize : link'[o] = link[o]
      /\ IsList(link', x, ChunkSize) /\ Members(link', x, ChunkSize) = N
  BY <1>1, <1>4, GeneratedIs
<1>6. /\ allocSize \in Nat /\ allocSize' \in Nat /\ allocSize' <= MaxObj
      /\ x \in Obj /\ allocSize <= allocSize' /\ ChunkSize - 1 \in 0..ChunkSize
  BY <1>1, <1>4 DEF PoolTyped, RoomToGenerate, Obj
<1>7. /\ x \in N /\ IsList(link', link'[x], ChunkSize - 1)
      /\ Members(link', link'[x], ChunkSize - 1) = N \ {x}
  <2> HIDE DEF N, x
  <2>1. QED
    BY <1>4, <1>5, ListTake
<1>8. /\ pool' \in [Thread -> List] /\ \A u \in Thread \ {t} : pool'[u] = pool[u]
      /\ pool'[t].top = link'[x] /\ pool'[t].size = ChunkSize - 1
  <2>1. [top |-> link'[x], size |-> ChunkSize - 1] \in List
    BY <1>5, <1>6 DEF List
  <2>2. QED
    BY <1>1, <1>4, <2>1, Changes DEF PoolTyped
<1>9. PoolTyped'
  BY <1>1, <1>4, <1>5, <1>6, <1>8 DEF PoolTyped
<1>10. Alone(t)
  BY <1>1, <1>2, <1>8 DEF Alone
<1>11. OwnApart(t) /\ Own(t) \subseteq 1..allocSize
  BY NearObjects
<1>12. pool[t].size = 0 /\ chunk[t].size = 0 /\ t \in attached
  BY <1>1, <1>4 DEF Calls
<1>13. /\ Objects(PoolOf(t)) = {} /\ Objects(ChunkOf(t)) = {}
  BY <1>12, PlaceObjects, ListEmpty
<1>14. /\ Objects(PoolOf(t))' = N \ {x} /\ Objects(ChunkOf(t))' = {}
       /\ Objects(FreeingBy(t))' = Objects(FreeingBy(t))
  <2>1. Objects(PoolOf(t))' = N \ {x}
    BY <1>7, <1>8, PlaceObjectsNext
  <2>2. Objects(ChunkOf(t))' = {}
    BY <1>1, <1>12, PlaceObjectsNext, ListEmpty
  <2>3. QED
    BY <1>1, <2>1, <2>2, SamePlaces
<1>15. OwnLists(t)'
  BY <1>1, <1>7, <1>8, <1>12, ListEmpty DEF OwnLists
<1>16. Calls(t)'
  BY <1>1, <1>2, <1>4, <1>12 DEF Calls, Pushing, Popping, Popped
<1>17. N \cap (1..allocSize) = {} /\ N = (allocSize + 1)..allocSize'
  BY <1>1, <1>4, <1>6
<1>18. OwnApart(t)' /\ Own(t)' = Own(t) \cup N
  <2> HIDE DEF N, x
  <2>1. QED
    BY <1>1, <1>7, <1>11, <1>13, <1>14, <1>17 DEF OwnApart, Own
<1>19. QED
  BY <1>2, <1>3, <1>5, <1>6, <1>9, <1>10, <1>15, <1>16, <1>17, <1>18, ReassembledAlone

\* A chunk popped becomes the first list, its first object is handed out.
LEMMA AllocPoppedStep ==
    ASSUME StackInv, ObjectsInv, NEW t \in Thread, AllocPopped(t)
    PROVE  StackInv' /\ ObjectsInv'
<1>0. PICK v : v = reg[t].val
  OBVIOUS
<1>1. /\ pc[t] = "popped" /\ StackReturn(t)
      /\ pool' = [pool EXCEPT ![t] = [top |-> link[v], size |-> ChunkSize - 1]]
      /\ out' = out \cup {v} /\ useSize' = useSize + 1
      /\ UNCHANGED <<attached, chunk, link, allocSize, freeing>>
  BY <1>0 DEF AllocPopped, At, Taken, HandOut
<1>2. /\ PoolTyped /\ OwnLists(t) /\ Calls(t) /\ ChunkSize \in Nat /\ ChunkSize # 0 /\ Lists
  BY PoolAssumption DEF ObjectsInv, Lists
<1>3. /\ StackInv' /\ pc'[t] = "idle" /\ ValuesApart'
      /\ \A u \in Thread \ {t} : pc'[u] = pc[u] /\ reg'[u] = reg[u]
  BY <1>1, ReturnKeeps, ReturnValues DEF ObjectsInv
<1>4. StackedValues' = StackedValues \ {v} /\ v \in StackedValues
  BY <1>0, <1>1, SharedReturn DEF ObjectsInv
<1>5. IsList(link, v, ChunkSize)
  BY <1>2, <1>4 DEF Lists
<1>6. /\ v \in Obj /\ v \in Members(link, v, ChunkSize)
      /\ IsList(link, link[v], ChunkSize - 1)
      /\ Members(link, link[v], ChunkSize - 1) = Members(link, v, ChunkSize) \ {v}
  BY <1>2, <1>5, ListTake
<1>7. /\ pool' \in [Thread -> List] /\ \A u \in Thread \ {t} : pool'[u] = pool[u]
      /\ pool'[t].top = link[v] /\ pool'[t].size = ChunkSize - 1
  <2>1. link[v] \in Obj \cup {Nil, Junk} /\ ChunkSize - 1 \in 0..ChunkSize
    BY <1>2, <1>6 DEF PoolTyped
  <2>2. [top |-> link[v], size |-> ChunkSize - 1] \in List
    BY <2>1 DEF List
  <2>3. QED
    BY <1>1, <1>2, <2>2, Changes DEF PoolTyped
<1>8. PoolTyped'
  BY <1>1, <1>2, <1>6, <1>7 DEF PoolTyped
<1>9. Alone(t)
  BY <1>1, <1>3, <1>7 DEF Alone
<1>10. NearApart(t, v)
  BY NearIsApart DEF ObjectsInv
<1>11. pool[t].size = 0 /\ chunk[t].size = 0 /\ t \in attached
  BY <1>1, <1>2 DEF Calls, Popped
<1>12. /\ Objects(PoolOf(t)) = {} /\ Objects(ChunkOf(t)) = {}
       /\ Objects(SharedAt(v)) = Members(link, v, ChunkSize)
  BY <1>11, PlaceObjects, ListEmpty
<1>13. /\ Objects(PoolOf(t))' = Objects(SharedAt(v)) \ {v} /\ Objects(ChunkOf(t))' = {}
       /\ Objects(FreeingBy(t))' = Objects(FreeingBy(t))
  <2>1. Objects(PoolOf(t))' = Objects(SharedAt(v)) \ {v}
    BY <1>1, <1>6, <1>7, <1>12, PlaceObjectsNext
  <2>2. Objects(ChunkOf(t))' = {}
    BY <1>1, <1>11, PlaceObjectsNext, ListEmpty
  <2>3. QED
    BY <1>1, <2>1, <2>2, SamePlaces
<1>14. OwnLists(t)'
  BY <1>1, <1>6, <1>7, <1>11, ListEmpty DEF OwnLists
<1>15. Calls(t)'
  BY <1>1, <1>2, <1>3, <1>11 DEF Calls, Pushing, Popping, Popped
<1>16. ChunkAt(v) = Objects(SharedAt(v)) /\ ChunkAt(v)' = {}
  BY <1>4 DEF ChunkAt
<1>17. v \in Objects(SharedAt(v))
  BY <1>6, <1>12
<1>18. NearApart(t, v)' /\ Near(t, v)' = Near(t, v)
  <2>1. OwnApart(t) /\ Own(t) \cap Objects(SharedAt(v)) = {}
    BY <1>10, <1>16 DEF NearApart
  <2>2. OwnApart(t)'
    BY <1>1, <1>12, <1>13, <1>17, <2>1 DEF OwnApart, Own
  <2>3. Own(t)' = Own(t) \cup Objects(SharedAt(v))
    BY <1>1, <1>12, <1>13, <1>17 DEF Own
  <2>4. NearApart(t, v)'
    BY <1>16, <2>2 DEF NearApart
  <2>5. QED
    BY <1>16, <2>3, <2>4 DEF Near
<1>19. (allocSize + 1)..allocSize' = {} /\ allocSize <= allocSize'
  BY <1>1, <1>2 DEF PoolTyped
<1>20. QED
  BY <1>1, <1>3, <1>4, <1>8, <1>9, <1>14, <1>15, <1>18, <1>19, Reassembled

\* A step inside Push or Pop: a Push that succeeds shares the second list.
LEMMA PoolStackStep ==
    ASSUME StackInv, ObjectsInv, NEW t \in Thread, StackStep(t), UNCHANGED localVars
    PROVE  StackInv' /\ ObjectsInv'
<1>1. StackInv' /\ StackEffect(t) /\ ValuesApart'
  BY StackStepKeeps, StepValues DEF ObjectsInv
<1>2. \A u \in Thread \ {t} : pc'[u] = pc[u] /\ reg'[u] = reg[u]
  BY <1>1 DEF StackEffect
<1>3. /\ pool' = pool /\ chunk' = chunk /\ link' = link /\ freeing' = freeing /\ out' = out
      /\ attached' = attached /\ allocSize' = allocSize /\ useSize' = useSize
  BY DEF localVars
<1>4. /\ PoolTyped /\ OwnLists(t) /\ Calls(t) /\ Lists
  BY DEF ObjectsInv, Lists
<1>5. PoolTyped' /\ Alone(t)
  BY <1>2, <1>3, <1>4 DEF PoolTyped, Alone
<1>6. (allocSize + 1)..allocSize' = {} /\ allocSize <= allocSize'
  BY <1>3, <1>4 DEF PoolTyped
<1>7. OwnLists(t)'
  <2>1. pc'[t] # "pushed" => pc[t] # "pushed"
    BY <1>1 DEF StackEffect, Pushing, Popping, Popped
  <2>2. QED
    BY <1>3, <1>4, <2>1 DEF OwnLists
<1>8. CASE /\ StackedValues' = StackedValues /\ pc'[t] # "pushed"
           /\ pc[t] \in Pushing <=> pc'[t] \in Pushing
           /\ pc[t] \in Pushing => reg'[t].val = reg[t].val
           /\ pc[t] \in Popping \cup Popped \cup Pushing
           /\ pc'[t] \in Popping \cup Popped \cup Pushing \cup {"empty"}
  <2>1. pc[t] # "pushed" /\ pc[t] # "idle"
    BY <1>8 DEF Pushing, Popping, Popped
  <2>2. Calls(t)'
    <3>1. t \in attached
      BY <1>4, <2>1 DEF Calls
    <3>2. pc'[t] \in Popping \cup Popped \cup {"empty"} =>
            pc[t] \in Popping \cup Popped \cup {"empty"}
      BY <1>8 DEF Pushing, Popping, Popped
    <3>3. pc[t] \in Pushing \cup {"pushed"} <=> pc'[t] \in Pushing \cup {"pushed"}
      BY <1>8, <2>1
    <3>4. QED
      BY <1>3, <1>4, <1>8, <3>1, <3>2, <3>3 DEF Calls, Full
  <2>3. /\ Objects(FreeingBy(t))' = Objects(FreeingBy(t))
        /\ Objects(PoolOf(t))' = Objects(PoolOf(t)) /\ Objects(ChunkOf(t))' = Objects(ChunkOf(t))
    BY <1>3, <1>8, <2>1, SamePlaces
  <2>4. OwnApart(t)' /\ Own(t)' = Own(t)
    BY <1>3, <2>3, NearObjects DEF OwnApart, Own
  <2>5. StackedValues' = StackedValues
    BY <1>8
  <2>6. \A o \in 1..allocSize : o \notin Own(t) => link'[o] = link[o]
    BY <1>3
  <2>7. QED
    BY <1>1, <1>5, <1>6, <1>7, <2>2, <2>4, <2>5, <2>6, ReassembledAlone
<1>9. CASE /\ pc[t] = "pushSwap" /\ pc'[t] = "pushed" /\ reg[t].val \notin StackedValues
           /\ StackedValues' = StackedValues \cup {reg[t].val}
  <2>1. PICK v : v = reg[t].val
    OBVIOUS
  <2>2. chunk[t].top = v /\ chunk[t].size = ChunkSize /\ freeing[t] # Nil /\ t \in attached
    BY <1>4, <1>9, <2>1 DEF Calls, Full, Pushing
  <2>3. IsList(link, v, ChunkSize)
    BY <1>4, <1>9, <2>2 DEF OwnLists
  <2>4. v \in StackedValues' => IsList(link', v, ChunkSize)
    BY <1>3, <2>3
  <2>5. Calls(t)'
    BY <1>3, <1>9, <2>2 DEF Calls, Pushing, Popping, Popped
  <2>6. /\ Objects(ChunkOf(t)) = Members(link, v, ChunkSize)
        /\ Objects(ChunkOf(t))' = {}
        /\ Objects(SharedAt(v))' = Members(link, v, ChunkSize)
    BY <1>3, <1>9, <2>2, PlaceObjects, PlaceObjectsNext
  <2>7. /\ Objects(FreeingBy(t))' = Objects(FreeingBy(t))
        /\ Objects(PoolOf(t))' = Objects(PoolOf(t))
    BY <1>3, SamePlaces
  <2>8. ChunkAt(v) = {} /\ ChunkAt(v)' = Objects(ChunkOf(t))
    BY <1>9, <2>1, <2>6 DEF ChunkAt
  <2>9. NearApart(t, v)' /\ Near(t, v)' = Near(t, v)
    <3>1. OwnApart(t)
      BY NearObjects
    <3>2. OwnApart(t)' /\ Own(t)' \cap Objects(ChunkOf(t)) = {}
      BY <1>3, <2>6, <2>7, <3>1 DEF OwnApart, Own
    <3>3. Own(t) = Own(t)' \cup Objects(ChunkOf(t))
      BY <1>3, <2>6, <2>7 DEF Own
    <3>4. QED
      BY <2>8, <3>2, <3>3 DEF Near, NearApart
  <2>10. \A x : x # v => (x \in StackedValues' <=> x \in StackedValues)
    BY <1>9, <2>1
  <2>11. \A o \in 1..allocSize : o \notin Near(t, v) => link'[o] = link[o]
    BY <1>3
  <2>12. QED
    BY <1>1, <1>5, <1>6, <1>7, <2>4, <2>5, <2>9, <2>10, <2>11, Reassembled
<1>10. QED
  BY <1>1, <1>8, <1>9, SharedStep DEF ObjectsInv

\* At the start no thread has called and nothing is allocated.
LEMMA ObjectsInit ==
    ASSUME Init, use # "slots"
    PROVE  StackInv /\ ObjectsInv
<1>1. 0 \in 0..MaxNode
  BY StackAssumption
<1> DEFINE v == [i \in Node |-> i]
<1>2. StackInit(0, v)
  BY DEF Init
<1> HIDE DEF v
<1>3. /\ StackInv /\ Len(Contents) = 0 /\ DOMAIN Contents = 1..0
      /\ \A t \in Thread : pc[t] = "idle"
  BY <1>1, <1>2, StackInitInv
<1>4. On(Contents) = {} /\ Hands = {} /\ {u \in Thread : pc[u] \in Popped} = {}
  BY <1>3 DEF On, Hands, Pushing, Popped
<1>5. ValuesApart
  BY <1>3, <1>4 DEF ValuesApart, Distinct
<1>6. StackedValues = {}
  BY <1>3, <1>4, SharedIs
<1>7. PoolInit /\ ChunkSize \in Nat /\ MaxObj \in Nat
  BY PoolAssumption DEF Init
<1>8. /\ PoolTyped
      /\ attached = {} /\ allocSize = 0 /\ out = {}
      /\ \A t \in Thread : pool[t].size = 0 /\ chunk[t].size = 0 /\ freeing[t] = Nil
  BY <1>7 DEF PoolInit, PoolTyped, List
<1>9. Lists
  BY <1>6, <1>8, ListEmpty DEF Lists, OwnLists
<1>10. \A t \in Thread : Calls(t)
  BY <1>3, <1>8 DEF Calls, Pushing
<1>11. \A p \in Places : Objects(p) = {}
  <2>1. ASSUME NEW t \in Thread
        PROVE  /\ Objects(FreeingBy(t)) = {} /\ Objects(PoolOf(t)) = {}
               /\ Objects(ChunkOf(t)) = {}
    BY <1>8, PlaceObjects, ListEmpty
  <2>2. Objects(InUse) = {}
    BY <1>8, PlaceObjects
  <2>3. QED
    BY <1>6, <2>1, <2>2, PlaceKinds
<1>12. Located
  <2>1. 1..allocSize = {}
    BY <1>8
  <2>2. QED
    BY <1>11, <2>1 DEF Located
<1>13. QED
  BY <1>3, <1>5, <1>8, <1>9, <1>10, <1>12 DEF ObjectsInv

\* Every step of every thread keeps each object in one place.
LEMMA PoolStep ==
    ASSUME StackInv, ObjectsInv, NEW t \in Thread, PoolNext(t)
    PROVE  StackInv' /\ ObjectsInv'
BY AttachStep, AllocFromChunkStep, AllocFromPoolStep, AllocSharedStep, AllocPoppedStep,
   AllocGeneratedStep, FreeToPoolStep, FreeToChunkStep, FreeSharedStep, FreePushedStep,
   PoolStackStep
   DEF PoolNext
-----------------------------------------------------------------------------
(* One place for each object, counted *)

\* The values of a function on a finite set are finitely many.
LEMMA FiniteImage ==
    ASSUME NEW S, IsFiniteSet(S), NEW T, NEW f \in [S -> T], \A y \in T : \E x \in S : f[x] = y
    PROVE  IsFiniteSet(T)
<1>1. f \in Surjection(S, T)
  BY DEF Surjection
<1>2. QED
  BY <1>1, FS_Surjection

\* There are finitely many places.
LEMMA FinitePlaces ==
    ASSUME Lists
    PROVE  IsFiniteSet(Places)
<1>1. IsFiniteSet(Thread) /\ MaxObj \in Nat
  BY PoolAssumption
<1>2. IsFiniteSet(StackedValues)
  <2>1. IsFiniteSet(1..MaxObj)
    BY <1>1, FS_Interval
  <2>2. StackedValues \in SUBSET (1..MaxObj)
    BY SharedObjects DEF Obj
  <2>3. QED
    BY <2>1, <2>2, FS_Subset
<1> DEFINE A == {FreeingBy(t) : t \in Thread}
           B == {PoolOf(t) : t \in Thread}
           C == {ChunkOf(t) : t \in Thread}
           D == {SharedAt(v) : v \in StackedValues}
<1>3. IsFiniteSet(A)
  <2> DEFINE f == [t \in Thread |-> FreeingBy(t)]
  <2>1. f \in [Thread -> A] /\ \A y \in A : \E x \in Thread : f[x] = y
    OBVIOUS
  <2> HIDE DEF f, A
  <2>2. QED
    BY <1>1, <2>1, FiniteImage
<1>4. IsFiniteSet(B)
  <2> DEFINE f == [t \in Thread |-> PoolOf(t)]
  <2>1. f \in [Thread -> B] /\ \A y \in B : \E x \in Thread : f[x] = y
    OBVIOUS
  <2> HIDE DEF f, B
  <2>2. QED
    BY <1>1, <2>1, FiniteImage
<1>5. IsFiniteSet(C)
  <2> DEFINE f == [t \in Thread |-> ChunkOf(t)]
  <2>1. f \in [Thread -> C] /\ \A y \in C : \E x \in Thread : f[x] = y
    OBVIOUS
  <2> HIDE DEF f, C
  <2>2. QED
    BY <1>1, <2>1, FiniteImage
<1>6. IsFiniteSet(D)
  <2> DEFINE f == [v \in StackedValues |-> SharedAt(v)]
  <2>1. f \in [StackedValues -> D] /\ \A y \in D : \E x \in StackedValues : f[x] = y
    OBVIOUS
  <2> HIDE DEF f, D
  <2>2. QED
    BY <1>2, <2>1, FiniteImage
<1>7. Places = {InUse} \cup A \cup B \cup C \cup D
  <2>1. \A p : p \in Places <=> p \in {InUse} \cup A \cup B \cup C \cup D
    BY PlaceKinds
  <2>2. QED
    BY <2>1
<1> HIDE DEF A, B, C, D
<1>8. IsFiniteSet({InUse})
  BY FS_Singleton
<1>9. IsFiniteSet({InUse} \cup A)
  BY <1>3, <1>8, FS_Union
<1>10. IsFiniteSet({InUse} \cup A \cup B)
  BY <1>4, <1>9, FS_Union
<1>11. IsFiniteSet({InUse} \cup A \cup B \cup C)
  BY <1>5, <1>10, FS_Union
<1>12. QED
  BY <1>6, <1>7, <1>11, FS_Union

\* The sum over a finite set of disjoint parts of a finite set counts their union.
\* h is the sum as MapThenSumSet computes it, choosing one part after the other.
Summed(S, F, c, h) ==
  h = [s \in SUBSET S |-> IF s = {} THEN 0 ELSE Cardinality(F[c[s]]) + h[s \ {c[s]}]]

\* The sums of the sizes of disjoint parts exist, and add up to the size of their union.
LEMMA SumOfParts ==
    ASSUME NEW S, IsFiniteSet(S), NEW U, IsFiniteSet(U), NEW F \in [S -> SUBSET U],
           \A p, q \in S : p # q => F[p] \cap F[q] = {},
           NEW c, \A s \in SUBSET S : s # {} => c[s] \in s
    PROVE  /\ \E h : Summed(S, F, c, h)
           /\ \A h : Summed(S, F, c, h) => h[S] = Cardinality(UNION {F[p] : p \in S})
<1> DEFINE All(s) == UNION {F[p] : p \in s}
           w == [s \in SUBSET S |-> Cardinality(All(s))]
<1>1. \A T \in SUBSET U : IsFiniteSet(T) /\ Cardinality(T) \in Nat
  BY FS_Subset, FS_CardinalityType
<1>2. ASSUME NEW s \in SUBSET S, s # {}
      PROVE  Cardinality(All(s)) = Cardinality(F[c[s]]) + Cardinality(All(s \ {c[s]}))
  <2>1. c[s] \in s /\ c[s] \in S
    BY <1>2
  <2> DEFINE A == F[c[s]]
             B == All(s \ {c[s]})
  <2>2. All(s) = A \cup B
    BY <2>1
  <2>3. A \cap B = {}
    BY <2>1
  <2>4. A \in SUBSET U /\ B \in SUBSET U
    BY <2>1
  <2> HIDE DEF A, B
  <2>5. Cardinality(A \cup B) = Cardinality(A) + Cardinality(B) - Cardinality(A \cap B)
    BY <1>1, <2>4, FS_Union
  <2>6. Cardinality(A \cap B) = 0
    BY <2>3, FS_EmptySet
  <2>7. Cardinality(A) \in Nat /\ Cardinality(B) \in Nat
    BY <1>1, <2>4
  <2>8. Cardinality(A \cup B) = Cardinality(A) + Cardinality(B)
    BY <2>5, <2>6, <2>7
  <2>9. QED
    BY <2>2, <2>8 DEF A, B
<1>3. Cardinality(All({})) = 0
  <2>1. All({}) = {}
    OBVIOUS
  <2>2. QED
    BY <2>1, FS_EmptySet
<1> HIDE DEF All
<1>4. Summed(S, F, c, w)
  <2>1. ASSUME NEW s \in SUBSET S
        PROVE  w[s] = IF s = {} THEN 0 ELSE Cardinality(F[c[s]]) + w[s \ {c[s]}]
    <3>1. s \ {c[s]} \in SUBSET S
      OBVIOUS
    <3>2. QED
      BY <1>2, <1>3, <3>1
  <2>2. w = [s \in SUBSET S |-> w[s]]
    OBVIOUS
  <2> HIDE DEF w
  <2>3. QED
    BY <2>1, <2>2 DEF Summed
<1>5. \A s \in SUBSET S : w[s] = Cardinality(All(s))
  OBVIOUS
<1> HIDE DEF w
<1>6. ASSUME NEW h, Summed(S, F, c, h) PROVE h[S] = Cardinality(All(S))
  <2>1. \A s \in SUBSET S :
          h[s] = IF s = {} THEN 0 ELSE Cardinality(F[c[s]]) + h[s \ {c[s]}]
    BY <1>6 DEF Summed
  <2>2. \A s \in SUBSET S :
          w[s] = IF s = {} THEN 0 ELSE Cardinality(F[c[s]]) + w[s \ {c[s]}]
    BY <1>4 DEF Summed
  <2> DEFINE X == {s \in SUBSET S : h[s] # w[s]}
  <2>3. ASSUME X # {} PROVE FALSE
    <3>1. PICK s \in X : \A r \in X : r \subseteq s => r = s
      <4>1. X \in SUBSET (SUBSET S)
        OBVIOUS
      <4> HIDE DEF X
      <4>2. QED
        BY <2>3, <4>1, MinimalSet
    <3>2. s \in SUBSET S /\ s # {}
      BY <2>1, <2>2
    <3>3. c[s] \in s /\ s \ {c[s]} \in SUBSET S /\ s \ {c[s]} # s
      BY <3>2
    <3>4. s \ {c[s]} \notin X
      BY <3>1, <3>3
    <3>5. h[s \ {c[s]}] = w[s \ {c[s]}]
      BY <3>3, <3>4
    <3>6. h[s] = w[s]
      BY <2>1, <2>2, <3>2, <3>5
    <3>7. QED
      BY <3>6
  <2>4. S \in SUBSET S /\ S \notin X
    BY <2>3
  <2>5. QED
    BY <1>5, <2>4
<1>7. QED
  BY <1>4, <1>6 DEF All

\* The objects are in one place: the property the run checks.
LEMMA ObjectsAre ==
    ASSUME ObjectsInv
    PROVE  ObjectsApart
<1>1. PoolTyped /\ Lists /\ Located /\ allocSize \in Nat
  BY DEF ObjectsInv, PoolTyped
<1> DEFINE F == [p \in Places |-> Objects(p)]
           c == [s \in SUBSET Places |-> CHOOSE x \in s : TRUE]
           it == CHOOSE h : h = [s \in SUBSET Places |->
                   IF s = {} THEN 0 ELSE Cardinality(Objects(CHOOSE x \in s : TRUE))
                                          + h[s \ {CHOOSE x \in s : TRUE}]]
<1>2. MapThenSumSet(LAMBDA p : Cardinality(Objects(p)), Places) = it[Places]
  BY DEF MapThenSumSet, MapThenFoldSet
<1>3. \A p \in Places : F[p] = Objects(p)
  OBVIOUS
<1>4. \A s \in SUBSET Places : c[s] = CHOOSE x \in s : TRUE
  OBVIOUS
<1>5. \A s \in SUBSET Places : s # {} => c[s] \in s /\ c[s] \in Places
  BY <1>4
<1>6. UNION {F[p] : p \in Places} = 1..allocSize
  BY <1>1, <1>3 DEF Located
<1>7. /\ F \in [Places -> SUBSET (1..allocSize)]
      /\ \A p, q \in Places : p # q => F[p] \cap F[q] = {}
  BY <1>1, <1>3 DEF Located
<1>8. IsFiniteSet(1..allocSize) /\ Cardinality(1..allocSize) = allocSize
  BY <1>1, FS_Interval
<1>9. IsFiniteSet(Places)
  BY <1>1, FinitePlaces
<1>10. ASSUME NEW h
       PROVE  Summed(Places, F, c, h) <=>
                h = [s \in SUBSET Places |->
                       IF s = {} THEN 0 ELSE Cardinality(Objects(CHOOSE x \in s : TRUE))
                                              + h[s \ {CHOOSE x \in s : TRUE}]]
  <2>1. ASSUME NEW s \in SUBSET Places
        PROVE  (IF s = {} THEN 0 ELSE Cardinality(F[c[s]]) + h[s \ {c[s]}])
               = IF s = {} THEN 0 ELSE Cardinality(Objects(CHOOSE x \in s : TRUE))
                                       + h[s \ {CHOOSE x \in s : TRUE}]
    <3> HIDE DEF F, c
    <3>1. CASE s = {}
      BY <3>1
    <3>2. CASE s # {}
      <4>1. c[s] = (CHOOSE x \in s : TRUE) /\ F[c[s]] = Objects(CHOOSE x \in s : TRUE)
        BY <1>3, <1>4, <1>5, <3>2
      <4>2. QED
        BY <3>2, <4>1
    <3>3. QED
      BY <3>1, <3>2
  <2> HIDE DEF F, c
  <2>2. QED
    BY <2>1 DEF Summed
<1> DEFINE U == 1..allocSize
<1> HIDE DEF F, c
<1>11. \E h : Summed(Places, F, c, h)
  <2>1. /\ IsFiniteSet(U) /\ F \in [Places -> SUBSET U]
        /\ \A s \in SUBSET Places : s # {} => c[s] \in s
    BY <1>5, <1>7, <1>8
  <2> HIDE DEF U
  <2>2. QED
    BY <1>7, <1>9, <2>1, SumOfParts, SMTT(30)
<1>12. Summed(Places, F, c, it)
  BY <1>10, <1>11
<1> HIDE DEF it
<1>13. it[Places] = Cardinality(UNION {F[p] : p \in Places})
  <2>1. /\ IsFiniteSet(U) /\ F \in [Places -> SUBSET U]
        /\ \A s \in SUBSET Places : s # {} => c[s] \in s
    BY <1>5, <1>7, <1>8
  <2> HIDE DEF U
  <2>2. QED
    BY <1>7, <1>9, <1>12, <2>1, SumOfParts, SMTT(30)
<1>14. QED
  BY <1>1, <1>2, <1>6, <1>8, <1>13 DEF ObjectsApart, Located
-----------------------------------------------------------------------------
(* The memory *)

MemoryInv ==
  /\ use \in {"chunks", "slots", "buffers"}
  /\ StackInv
  /\ use = "slots" => SlotsInv
  /\ use = "chunks" => ObjectsInv

\* Where nothing of the pool changes its invariant stays.
LEMMA PoolStutter ==
    ASSUME ObjectsInv, UNCHANGED stackVars, UNCHANGED localVars
    PROVE  ObjectsInv'
<1>1. StackedValues' = StackedValues /\ ValuesApart' /\ pc' = pc /\ reg' = reg
  BY SharedKept DEF ObjectsInv, stackVars
<1>2. /\ pool' = pool /\ chunk' = chunk /\ link' = link /\ freeing' = freeing /\ out' = out
      /\ attached' = attached /\ allocSize' = allocSize /\ useSize' = useSize
  BY DEF localVars
<1>3. PoolTyped'
  BY <1>2 DEF ObjectsInv, PoolTyped
<1>4. Lists'
  BY <1>1, <1>2 DEF ObjectsInv, Lists, OwnLists
<1>5. \A t \in Thread : Calls(t)'
  BY <1>1, <1>2 DEF ObjectsInv, Calls
<1>6. Places' = Places /\ \A p : Objects(p)' = Objects(p)
  BY <1>1, <1>2 DEF Places, Objects, ListOf, SecondList
<1>7. Located'
  BY <1>2, <1>6 DEF ObjectsInv, Located
<1>8. QED
  BY <1>1, <1>3, <1>4, <1>5, <1>7 DEF ObjectsInv

\* The same for the slots.
LEMMA SlotsStutter ==
    ASSUME SlotsInv, UNCHANGED <<stackVars, open>>
    PROVE  SlotsInv'
<1>1. StackedValues' = StackedValues /\ ValuesApart' /\ pc' = pc /\ reg' = reg /\ open' = open
  BY SharedKept DEF SlotsInv, stackVars
<1>2. Values' = Values
  <2>1. Stacked' = Stacked /\ data' = data
    BY DEF stackVars, Stacked
  <2>2. Contents' = Contents /\ Hands' = Hands
    BY <1>1, <2>1 DEF Contents, Hands
  <2>3. QED
    BY <1>1, <2>2 DEF Values
<1>3. QED
  BY <1>1, <1>2 DEF SlotsInv

\* The memory starts in order, whatever it is used for.
LEMMA MemoryInit == Init => MemoryInv
<1> SUFFICES ASSUME Init PROVE MemoryInv
  OBVIOUS
<1>1. use \in {"chunks", "slots", "buffers"}
  BY DEF Init
<1>2. QED
  BY <1>1, SlotsInit, ObjectsInit DEF MemoryInv

\* Each of its steps keeps it so.
LEMMA MemoryStep == MemoryInv /\ [Next]_vars => MemoryInv'
<1> SUFFICES ASSUME MemoryInv, [Next]_vars PROVE MemoryInv'
  OBVIOUS
<1> USE DEF MemoryInv
<1>1. CASE use = "chunks" /\ (\E w \in Workers : PoolNext(w)) /\ use' = use
  <2>1. Workers \subseteq Thread
    BY DEF Workers
  <2>2. StackInv' /\ ObjectsInv'
    BY <1>1, <2>1, PoolStep
  <2>3. QED
    BY <1>1, <2>2
<1>2. CASE use = "slots" /\ SlotNext /\ use' = use
  BY <1>2, SlotsStep
<1>3. CASE use = "buffers" /\ UNCHANGED <<use, open, stackVars, localVars>>
  BY <1>3, StackStutter
<1>4. CASE UNCHANGED vars
  BY <1>4, StackStutter, PoolStutter, SlotsStutter DEF vars
<1>5. QED
  BY <1>1, <1>2, <1>3, <1>4 DEF Next

\* Of the memory: the stacks of nodes are chained and hold each node once, what a
\* thread remembers of a top is true of it while the tag is the same, and the slots
\* or the objects are in one place each.
THEOREM MemoryInvariant == Spec => []MemoryInv
BY MemoryInit, MemoryStep, PTL DEF Spec

\* A slot whose session has ended is given to one later session: every slot is
\* open, being pushed, or on the stack, and in no two of these places.
THEOREM SlotsAreInOnePlace == Spec => []SlotsInOnePlace
<1>1. MemoryInv => SlotsInOnePlace
  <2>1. SUFFICES ASSUME StackInv, SlotsInv
        PROVE  /\ open \cup BeingPushed \cup StackedValues = Slot
               /\ Cardinality(open) + Cardinality(BeingPushed) + Cardinality(StackedValues)
                    = MaxSession
    BY DEF MemoryInv, SlotsInOnePlace
  <2> DEFINE B == BeingPushed
             S == StackedValues
  <2>2. /\ B \cup S = Slot \ open /\ B \cap S = {} /\ open \subseteq Slot
    BY <2>1, SlotsWhere DEF SlotsInv
  <2>3. IsFiniteSet(Slot) /\ Cardinality(Slot) = MaxSession
    <3>1. MaxSession \in Nat
      BY UsesAssumption, StackAssumption
    <3>2. QED
      BY <3>1, FS_Interval DEF Slot
  <2> HIDE DEF B, S
  <2>4. /\ IsFiniteSet(open) /\ IsFiniteSet(B) /\ IsFiniteSet(S) /\ IsFiniteSet(B \cup S)
        /\ open \cup (B \cup S) = Slot /\ open \cap (B \cup S) = {}
    <3>1. open \in SUBSET Slot /\ B \in SUBSET Slot /\ S \in SUBSET Slot
          /\ B \cup S \in SUBSET Slot
      BY <2>2
    <3>2. IsFiniteSet(open) /\ IsFiniteSet(B) /\ IsFiniteSet(S) /\ IsFiniteSet(B \cup S)
      BY <2>3, <3>1, FS_Subset
    <3>3. QED
      BY <2>2, <3>2
  <2>5. Cardinality({}) = 0
    BY FS_EmptySet
  <2>6. Cardinality(B \cup S) = Cardinality(B) + Cardinality(S) - Cardinality({})
    BY <2>2, <2>4, FS_Union
  <2>7. Cardinality(Slot) = Cardinality(open) + Cardinality(B \cup S) - Cardinality({})
    BY <2>4, FS_Union
  <2>8. Cardinality(open) \in Nat /\ Cardinality(B) \in Nat /\ Cardinality(S) \in Nat
    BY <2>4, FS_CardinalityType
  <2>9. Cardinality(open) + Cardinality(B) + Cardinality(S) = MaxSession
    BY <2>3, <2>5, <2>6, <2>7, <2>8
  <2>10. QED
    BY <2>2, <2>9 DEF B, S
<1>2. QED
  BY <1>1, MemoryInvariant, PTL

\* An object allocated is in use, on its way back, on one list of one thread or in
\* one shared chunk of ChunkSize objects, and in no two of these places.
THEOREM ObjectsAreInOnePlace == Spec => []ObjectsInOnePlace
<1>1. MemoryInv => ObjectsInOnePlace
  BY ObjectsAre DEF MemoryInv, ObjectsInOnePlace
<1>2. QED
  BY <1>1, MemoryInvariant, PTL

-----------------------------------------------------------------------------
(* LockFreeStack implements the atomic stack *)

Results == [t \in Thread |-> Outcome(t)]

\* What a call returns, by where it is.
LEMMA OutcomeIs ==
    ASSUME NEW t
    PROVE  /\ pc[t] \in Pushing \cup Popping \cup {"idle"} => Outcome(t) = NoResult
           /\ pc[t] \in Popped => Outcome(t) = reg[t].val
           /\ pc[t] = "pushed" => Outcome(t) = HasPushed
           /\ pc[t] = "empty" => Outcome(t) = NothingFound
BY DEF Outcome, Pushing, Popping, Popped

\* The same after a step.
LEMMA OutcomeIsNext ==
    ASSUME NEW t
    PROVE  /\ pc'[t] \in Pushing \cup Popping \cup {"idle"} => Outcome(t)' = NoResult
           /\ pc'[t] \in Popped => Outcome(t)' = reg'[t].val
           /\ pc'[t] = "pushed" => Outcome(t)' = HasPushed
           /\ pc'[t] = "empty" => Outcome(t)' = NothingFound
BY DEF Outcome, Pushing, Popping, Popped

\* Only the result of the thread that steps changes.
LEMMA ResultOf ==
    ASSUME NEW t \in Thread, \A u \in Thread \ {t} : pc'[u] = pc[u] /\ reg'[u] = reg[u],
           NEW y, Outcome(t)' = y
    PROVE  Results' = [Results EXCEPT ![t] = y] /\ Results[t] = Outcome(t)
<1>1. \A u \in Thread \ {t} : Outcome(u)' = Outcome(u)
  BY DEF Outcome
<1>2. QED
  BY <1>1 DEF Results

\* A step inside Push or Pop is one of the atomic stack, or none.
LEMMA StackStepRefines ==
    ASSUME StackInv, NEW t \in Thread, StackEffect(t),
           pc[t] = "pushSwap" => reg[t].val \in Obj \cup Slot
    PROVE  [Stack!Next]_(Stack!vars)
<1>1. \A u \in Thread \ {t} : pc'[u] = pc[u] /\ reg'[u] = reg[u]
  BY DEF StackEffect
<1>2. /\ Results' = [Results EXCEPT ![t] = Outcome(t)'] /\ Results[t] = Outcome(t)
      /\ Results = [Results EXCEPT ![t] = Outcome(t)]
  BY <1>1, ResultOf DEF Results
<1> USE DEF Contents, Results
<1>3. CASE Contents' = Contents /\ Outcome(t)' = Outcome(t)
  BY <1>2, <1>3 DEF Stack!vars
<1>4. CASE /\ pc[t] = "pushSwap" /\ pc'[t] = "pushed"
           /\ Contents' = <<reg[t].val>> \o Contents
  <2>1. Outcome(t) = NoResult /\ Outcome(t)' = HasPushed
    BY <1>4, OutcomeIs, OutcomeIsNext DEF Pushing
  <2>2. \E x \in Obj \cup Slot : Contents' = <<x>> \o Contents
    BY <1>4
  <2>3. Stack!Push(t)
    BY <1>2, <2>1, <2>2 DEF Stack!Push
  <2>4. QED
    BY <2>3 DEF Stack!Next
<1>5. CASE /\ pc[t] \in Popping /\ pc'[t] = "freeRead" /\ Contents # <<>>
           /\ reg'[t].val = Head(Contents) /\ Contents' = Tail(Contents)
  <2>1. Outcome(t) = NoResult /\ Outcome(t)' = Head(Contents)
    BY <1>5, OutcomeIs, OutcomeIsNext DEF Popped
  <2>2. Stack!Pop(t)
    BY <1>2, <1>5, <2>1 DEF Stack!Pop
  <2>3. QED
    BY <2>2 DEF Stack!Next
<1>6. CASE /\ pc[t] \in Popping /\ pc'[t] = "empty"
           /\ Contents = <<>> /\ Contents' = Contents
  <2>1. Outcome(t) = NoResult /\ Outcome(t)' = NothingFound
    BY <1>6, OutcomeIs, OutcomeIsNext
  <2>2. Stack!PopEmpty(t)
    BY <1>2, <1>6, <2>1 DEF Stack!PopEmpty
  <2>3. QED
    BY <2>2 DEF Stack!Next
<1>7. QED
  <2>1. \/ pc[t] \in Popping /\ pc'[t] \in Popping
        \/ pc[t] \in Pushing /\ pc'[t] \in Pushing
        \/ pc[t] \in Popped /\ pc'[t] \in Popped /\ reg'[t].val = reg[t].val
        => Outcome(t)' = Outcome(t)
    BY OutcomeIs, OutcomeIsNext
  <2>2. QED
    BY <1>3, <1>4, <1>5, <1>6, <2>1 DEF StackEffect

\* A call that returns takes its result with it.
LEMMA ReturnRefines ==
    ASSUME StackInv, NEW t \in Thread, StackReturn(t), pc[t] = "popped" => reg[t].val # NoResult
    PROVE  [Stack!Next]_(Stack!vars)
<1>1. /\ Contents' = Contents /\ pc[t] \in {"pushed", "popped", "empty"} /\ pc'[t] = "idle"
      /\ \A u \in Thread \ {t} : pc'[u] = pc[u] /\ reg'[u] = reg[u]
  BY ReturnKeeps
<1>2. Outcome(t)' = NoResult
  BY <1>1, OutcomeIsNext
<1>3. Outcome(t) # NoResult
  BY <1>1, OutcomeIs DEF Popped, NoResult, HasPushed, NothingFound
<1>4. Results' = [Results EXCEPT ![t] = NoResult] /\ Results[t] = Outcome(t)
  BY <1>1, <1>2, ResultOf
<1>5. Stack!Return(t)
  BY <1>1, <1>3, <1>4 DEF Stack!Return, Contents, Results
<1>6. QED
  BY <1>5 DEF Stack!Next

\* A call that begins shows nothing yet.
LEMMA CallRefines ==
    ASSUME NEW t \in Thread, Contents' = Contents,
           pc[t] = "idle", pc'[t] \in {"poolAlloc", "popRead"},
           \A u \in Thread \ {t} : pc'[u] = pc[u] /\ reg'[u] = reg[u]
    PROVE  [Stack!Next]_(Stack!vars)
<1>1. Outcome(t) = NoResult /\ Outcome(t)' = NoResult
  BY OutcomeIs, OutcomeIsNext DEF Pushing, Popping
<1>2. Results' = [Results EXCEPT ![t] = NoResult] /\ Results[t] = NoResult
  BY <1>1, ResultOf
<1>3. Results' = Results
  BY <1>2 DEF Results
<1>4. QED
  BY <1>3 DEF Stack!vars, Contents, Results

\* Nothing of the stack changed.
LEMMA StutterRefines ==
    ASSUME UNCHANGED stackVars
    PROVE  [Stack!Next]_(Stack!vars)
<1>1. Stacked' = Stacked /\ data' = data /\ pc' = pc /\ reg' = reg
  BY DEF stackVars, Stacked
<1>2. \A t : Outcome(t)' = Outcome(t)
  BY <1>1 DEF Outcome
<1>3. QED
  BY <1>1, <1>2 DEF Stack!vars

\* Every step of the pool and of the slots is one of the atomic stack, or none.
LEMMA MemoryRefines == MemoryInv /\ [Next]_vars => [Stack!Next]_(Stack!vars)
<1> SUFFICES ASSUME MemoryInv, [Next]_vars PROVE [Stack!Next]_(Stack!vars)
  OBVIOUS
<1>1. StackInv
  BY DEF MemoryInv
<1>2. NoResult \notin Obj /\ NoResult \notin Slot
  BY PoolAssumption, UsesAssumption, StackAssumption DEF Obj, Slot, NoResult
<1>3. ASSUME use = "chunks", NEW t \in Workers, PoolNext(t)
      PROVE  [Stack!Next]_(Stack!vars)
  <2>1. ObjectsInv /\ t \in Thread
    BY <1>3 DEF MemoryInv, Workers
  <2>2. StackReturn(t) => [Stack!Next]_(Stack!vars)
    <3>1. StackReturn(t) /\ pc[t] = "popped" => reg[t].val \in Obj
      BY <1>1, <2>1, SharedReturn, SharedObjects DEF ObjectsInv
    <3>2. QED
      BY <1>1, <1>2, <2>1, <3>1, ReturnRefines
  <2>3. StackStep(t) => [Stack!Next]_(Stack!vars)
    <3>1. StackStep(t) => StackEffect(t)
      BY <1>1, <2>1, StackStepKeeps
    <3>2. ASSUME pc[t] = "pushSwap" PROVE reg[t].val \in Obj
      <4>1. Calls(t) /\ OwnLists(t) /\ ChunkSize \in Nat /\ ChunkSize # 0
        BY <2>1, PoolAssumption DEF ObjectsInv, Lists
      <4>2. reg[t].val = chunk[t].top /\ chunk[t].size = ChunkSize
        BY <3>2, <4>1 DEF Calls, Full, Pushing
      <4>3. QED
        BY <3>2, <4>1, <4>2, ListTake DEF OwnLists
    <3>3. QED
      BY <1>1, <2>1, <3>1, <3>2, StackStepRefines
  <2>4. PopCall(t) => [Stack!Next]_(Stack!vars)
    <3>1. PopCall(t) => /\ Contents' = Contents /\ pc[t] = "idle" /\ pc'[t] = "popRead"
                        /\ \A u \in Thread \ {t} : pc'[u] = pc[u] /\ reg'[u] = reg[u]
      BY <1>1, <2>1, PopCallKeeps
    <3>2. QED
      BY <2>1, <3>1, CallRefines
  <2>5. ASSUME NEW o \in out, FreeShared(t, o) PROVE [Stack!Next]_(Stack!vars)
    <3>1. PushCall(t, chunk[t].top) /\ chunk[t].top \in Int
      <4>1. Lists /\ pc[t] = "idle" /\ chunk[t].size = ChunkSize
        BY <2>1, <2>5 DEF ObjectsInv, FreeShared, Full, PushCall, At
      <4>2. IsList(link, chunk[t].top, ChunkSize) /\ ChunkSize \in Nat /\ ChunkSize # 0
        BY <2>1, <4>1, PoolAssumption DEF Lists, OwnLists
      <4>3. chunk[t].top \in Obj
        BY <4>2, ListTake
      <4>4. QED
        BY <2>5, <4>3, PoolAssumption DEF FreeShared, Obj
    <3>2. /\ Contents' = Contents /\ pc[t] = "idle" /\ pc'[t] = "poolAlloc"
          /\ \A u \in Thread \ {t} : pc'[u] = pc[u] /\ reg'[u] = reg[u]
      BY <1>1, <2>1, <3>1, PushCallKeeps
    <3>3. QED
      BY <2>1, <3>2, CallRefines
  <2>6. \/ UNCHANGED stackVars \/ StackReturn(t) \/ StackStep(t) \/ PopCall(t)
        \/ \E o \in out : FreeShared(t, o)
    BY <1>3 DEF PoolNext, Attach, AllocFromChunk, AllocFromPool, AllocShared, AllocPopped,
                AllocGenerated, FreeToPool, FreeToChunk, FreePushed
  <2>7. QED
    BY <2>2, <2>3, <2>4, <2>5, <2>6, StutterRefines
<1>4. ASSUME use = "slots", SlotNext
      PROVE  [Stack!Next]_(Stack!vars)
  <2>1. SlotsInv /\ Acceptor \in Thread /\ Workers \subseteq Thread
    BY <1>4, UsesAssumption DEF MemoryInv, Workers
  <2>2. ASSUME NEW t \in Thread, t \in Hands PROVE reg[t].val \in Slot
    BY <2>1, <2>2 DEF SlotsInv, Values
  <2>3. ASSUME NEW t \in Thread, StackReturn(t) PROVE [Stack!Next]_(Stack!vars)
    <3>1. pc[t] = "popped" => reg[t].val \in Slot
      BY <2>2 DEF Hands, Popped
    <3>2. QED
      BY <1>1, <1>2, <2>3, <3>1, ReturnRefines
  <2>4. ASSUME NEW t \in Thread, StackStep(t) PROVE [Stack!Next]_(Stack!vars)
    <3>1. StackEffect(t)
      BY <1>1, <2>4, StackStepKeeps
    <3>2. pc[t] = "pushSwap" => reg[t].val \in Slot
      BY <2>2 DEF Hands, Pushing
    <3>3. QED
      BY <1>1, <3>1, <3>2, StackStepRefines
  <2>5. ASSUME NEW t \in Thread, PopCall(t) PROVE [Stack!Next]_(Stack!vars)
    <3>1. /\ Contents' = Contents /\ pc[t] = "idle" /\ pc'[t] = "popRead"
          /\ \A u \in Thread \ {t} : pc'[u] = pc[u] /\ reg'[u] = reg[u]
      BY <1>1, <2>5, PopCallKeeps
    <3>2. QED
      BY <3>1, CallRefines
  <2>6. ASSUME NEW t \in Thread, NEW i \in open, PushCall(t, i)
        PROVE  [Stack!Next]_(Stack!vars)
    <3>1. i \in Int
      BY <2>1, UsesAssumption, StackAssumption DEF SlotsInv, Slot
    <3>2. /\ Contents' = Contents /\ pc[t] = "idle" /\ pc'[t] = "poolAlloc"
          /\ \A u \in Thread \ {t} : pc'[u] = pc[u] /\ reg'[u] = reg[u]
      BY <1>1, <2>6, <3>1, PushCallKeeps
    <3>3. QED
      BY <3>2, CallRefines
  <2>7. \E t \in Thread : \/ StackReturn(t) \/ StackStep(t) \/ PopCall(t)
                          \/ \E i \in open : PushCall(t, i)
    BY <1>4, <2>1 DEF SlotNext, AcceptCall, AcceptSession, AcceptRefused, ReleaseCall, ReleaseDone
  <2>8. QED
    BY <2>3, <2>4, <2>5, <2>6, <2>7
<1>5. UNCHANGED stackVars => [Stack!Next]_(Stack!vars)
  BY StutterRefines
<1>6. QED
  BY <1>3, <1>4, <1>5 DEF Next, vars

\* The stack pops the value pushed last, to one caller, and finds nothing only when
\* it is empty, although its nodes are recycled and links are read unprotected.
THEOREM StackIsAtomic == Spec => ImplementsStack
BY MemoryInvariant, MemoryRefines, PTL DEF Spec, ImplementsStack, Stack!StepsOnly

-----------------------------------------------------------------------------
(* The pages of BufferAllocator *)

\* The page and the region of buffer i, and what lies in a page and in a region.
PageAt(i)   == Pages!PageOf(buffers[i].addr)
RegionAt(i) == Pages!RegionOf(buffers[i].addr)
InPage(p)   == {i \in DOMAIN buffers : PageAt(i) = p}
PagesIn(r)  == {p \in committed : Pages!RegionOf(p) = r}
End(i)      == buffers[i].addr + buffers[i].size

PagesTyped ==
  /\ m_addr \in [Pages!Sizes -> Nat] /\ \A s \in Pages!Sizes : m_addr[s] % s = 0
  /\ buffers \in Seq([addr : Nat, size : Pages!Sizes])
  /\ \A i \in DOMAIN buffers : buffers[i].addr % buffers[i].size = 0
  /\ wanted \in Seq(Pages!Sizes)
  /\ reserved \subseteq Pages!Regions
  /\ committed \subseteq Nat /\ IsFiniteSet(committed) /\ \A p \in committed : p % PAGE_SIZE = 0

\* The maps count the buffers of the pages and the pages of the regions.
Mapped ==
  /\ DOMAIN m_commitMap = committed /\ DOMAIN m_reserveMap = reserved
  /\ \A p \in committed : m_commitMap[p] = Cardinality(InPage(p))
  /\ \A r \in reserved : m_reserveMap[r] = Cardinality(PagesIn(r))

\* A buffer has its page, a page its region and a buffer.
Held ==
  /\ \A i \in DOMAIN buffers : PageAt(i) \in committed
  /\ \A p \in committed : InPage(p) # {} /\ Pages!RegionOf(p) \in reserved

\* Within a region buffers are dealt out in ascending order.
Ascending == \A i, j \in DOMAIN buffers :
  i < j /\ RegionAt(i) = RegionAt(j) => End(i) <= buffers[j].addr

\* A pointer that does not ask for a new region goes on in a region that is reserved,
\* behind everything in it; the pointers go on in different ones.
Going(s) == m_addr[s] % GRANULARITY # 0
Goal(s)  == Pages!RegionOf(m_addr[s])
Behind(s, r) ==
  /\ \A i \in DOMAIN buffers : RegionAt(i) = r => End(i) <= m_addr[s]
  /\ \A p \in PagesIn(r) : p < m_addr[s]
Frontier ==
  /\ \A s \in Pages!Sizes : Going(s) => Goal(s) \in reserved /\ Behind(s, Goal(s))
  /\ \A s1, s2 \in Pages!Sizes : Going(s1) /\ Going(s2) /\ s1 # s2 => Goal(s1) # Goal(s2)
  /\ m_addr[HALF_PAGE] % PAGE_SIZE # 0 => Pages!PageOf(m_addr[HALF_PAGE]) \in committed

PagesInv == PagesTyped /\ Mapped /\ Held /\ Ascending /\ Frontier

-----------------------------------------------------------------------------
(* Multiples *)

\* a without its remainder is the last multiple of n that is not above a.
LEMMA LastMultiple ==
    ASSUME NEW n \in Nat \ {0}, NEW a \in Nat
    PROVE  /\ a - (a % n) \in Nat /\ a - (a % n) <= a /\ a < a - (a % n) + n
           /\ \E q \in Nat : a - (a % n) = n * q
<1>1. a = (n * (a \div n)) + (a % n) /\ (a % n) \in 0 .. n - 1 /\ (a \div n) \in Nat
  OBVIOUS
<1> DEFINE q == a \div n
           r == a % n
<1>2. q \in Nat /\ r \in 0 .. n - 1 /\ a = n * q + r /\ n * q \in Nat
  BY <1>1
<1> HIDE DEF q, r
<1>3. a - r = n * q /\ a - r \in Nat /\ a - r <= a /\ a < a - r + n
  BY <1>2
<1>4. QED
  BY <1>2, <1>3 DEF r

\* It is the only multiple there.
LEMMA TheMultiple ==
    ASSUME NEW n \in Nat \ {0}, NEW a \in Nat, NEW q \in Nat, n * q <= a, a < n * q + n
    PROVE  a - (a % n) = n * q
<1>1. PICK p \in Nat : a - (a % n) = n * p /\ n * p <= a /\ a < n * p + n
  BY LastMultiple
<1>2. ASSUME NEW x \in Nat, NEW y \in Nat, x < y PROVE n * x + n <= n * y
  <2>1. PICK d \in Nat : y = x + 1 + d
    BY <1>2, y - x - 1 \in Nat, y = x + 1 + (y - x - 1)
  <2>2. n * y = n * x + n + n * d /\ n * d \in Nat /\ n * x \in Nat
    BY <2>1
  <2>3. QED
    BY <2>2
<1>3. n * p \in Nat /\ n * q \in Nat
  OBVIOUS
<1>4. ~(p < q) /\ ~(q < p)
  BY <1>1, <1>2, <1>3
<1>5. p = q
  BY <1>4
<1>6. QED
  BY <1>1, <1>5

\* What has no remainder is a multiple.
LEMMA Multiples ==
    ASSUME NEW n \in Nat \ {0}, NEW a \in Nat
    PROVE  a % n = 0 <=> \E q \in Nat : a = n * q
<1>1. \E q \in Nat : a - (a % n) = n * q
  BY LastMultiple
<1> (a % n) \in Nat
  OBVIOUS
<1>2. ASSUME a % n = 0 PROVE \E q \in Nat : a = n * q
  BY <1>1, <1>2
<1>3. ASSUME NEW q \in Nat, a = n * q PROVE a % n = 0
  <2>1. n * q <= a /\ a < n * q + n
    BY <1>3
  <2>2. a - (a % n) = n * q
    BY <2>1, TheMultiple
  <2>3. QED
    BY <1>1, <1>3, <2>2
<1>4. QED
  BY <1>2, <1>3

\* Multiples are n apart; their sums, and the multiples of a multiple, are multiples.
LEMMA MultiplesApart ==
    ASSUME NEW n \in Nat \ {0}, NEW a \in Nat, NEW b \in Nat, a % n = 0, b % n = 0
    PROVE  (a + b) % n = 0 /\ (a < b => a + n <= b)
<1>1. PICK p \in Nat, q \in Nat : a = n * p /\ b = n * q
  BY Multiples
<1>2. a + b = n * (p + q) /\ p + q \in Nat /\ a + b \in Nat
  BY <1>1
<1>3. (a + b) % n = 0
  BY <1>2, Multiples
<1>4. ASSUME a < b PROVE a + n <= b
  <2>1. b < a + n => a = b
    <3>1. SUFFICES ASSUME b < a + n PROVE a = b
      OBVIOUS
    <3>2. n * p <= b /\ b < n * p + n
      BY <1>1, <1>4, <3>1
    <3>3. b - (b % n) = n * p
      BY <3>2, TheMultiple
    <3>4. QED
      BY <1>1, <3>3
  <2>2. QED
    BY <1>4, <2>1
<1>5. QED
  BY <1>3, <1>4

\* A multiple of a multiple of n is one of n.
LEMMA MultiplesOfMultiples ==
    ASSUME NEW n \in Nat \ {0}, NEW m \in Nat \ {0}, NEW a \in Nat, a % m = 0, m % n = 0
    PROVE  a % n = 0
<1>1. PICK p \in Nat, q \in Nat : a = m * p /\ m = n * q
  BY Multiples
<1>2. n * (q * p) = (n * q) * p /\ q * p \in Nat
  OBVIOUS
<1>3. a = n * (q * p)
  BY <1>1, <1>2
<1>4. QED
  BY <1>2, <1>3, Multiples

-----------------------------------------------------------------------------
(* Pages and regions *)

\* A region is made of pages, a page of two halves.
LEMMA SizesOf ==
    /\ HALF_PAGE \in Nat \ {0} /\ PAGE_SIZE \in Nat \ {0} /\ GRANULARITY \in Nat \ {0}
    /\ PAGE_SIZE = 2 * HALF_PAGE /\ HALF_PAGE # PAGE_SIZE
    /\ GRANULARITY % PAGE_SIZE = 0 /\ PAGE_SIZE % PAGE_SIZE = 0 /\ PAGE_SIZE % HALF_PAGE = 0
    /\ MaxRegion \in Nat /\ SessionCounts \subseteq Nat
    /\ Pages!Sizes = {HALF_PAGE, PAGE_SIZE}
<1>1. /\ HALF_PAGE \in Nat \ {0} /\ PAGE_SIZE \in Nat \ {0} /\ GRANULARITY \in Nat \ {0}
      /\ PAGE_SIZE = 2 * HALF_PAGE /\ HALF_PAGE # PAGE_SIZE /\ GRANULARITY % PAGE_SIZE = 0
      /\ MaxRegion \in Nat /\ SessionCounts \subseteq Nat
  BY PageSizes DEF Pages!BufferSizes
<1>2. PAGE_SIZE = HALF_PAGE * 2 /\ PAGE_SIZE = PAGE_SIZE * 1 /\ 1 \in Nat /\ 2 \in Nat
  BY <1>1
<1>3. PAGE_SIZE % PAGE_SIZE = 0 /\ PAGE_SIZE % HALF_PAGE = 0
  BY <1>1, <1>2, Multiples
<1>4. QED
  BY <1>1, <1>3 DEF Pages!Sizes

\* Where the page and the region of an address begin and end.
LEMMA Addresses ==
    ASSUME NEW a \in Nat
    PROVE  /\ Pages!PageOf(a) \in Nat /\ Pages!PageOf(a) % PAGE_SIZE = 0
           /\ Pages!PageOf(a) <= a /\ a < Pages!PageOf(a) + PAGE_SIZE
           /\ Pages!RegionOf(a) \in Nat /\ Pages!RegionOf(a) % GRANULARITY = 0
           /\ Pages!RegionOf(a) % PAGE_SIZE = 0
           /\ Pages!RegionOf(a) <= a /\ a < Pages!RegionOf(a) + GRANULARITY
           /\ a % PAGE_SIZE = 0 => Pages!PageOf(a) = a
           /\ a % GRANULARITY = 0 => Pages!RegionOf(a) = a
<1> DEFINE p == a - (a % PAGE_SIZE)
           r == a - (a % GRANULARITY)
<1>1. /\ p \in Nat /\ p <= a /\ a < p + PAGE_SIZE /\ \E q \in Nat : p = PAGE_SIZE * q
      /\ r \in Nat /\ r <= a /\ a < r + GRANULARITY /\ \E q \in Nat : r = GRANULARITY * q
  BY SizesOf, LastMultiple
<1>2. p % PAGE_SIZE = 0 /\ r % GRANULARITY = 0
  <2> HIDE DEF p, r
  <2>1. QED
    BY <1>1, SizesOf, Multiples
<1>3. r % PAGE_SIZE = 0
  <2> HIDE DEF p, r
  <2>1. QED
    BY <1>1, <1>2, SizesOf, MultiplesOfMultiples
<1>4. (a % PAGE_SIZE = 0 => p = a) /\ (a % GRANULARITY = 0 => r = a)
  OBVIOUS
<1>5. p = Pages!PageOf(a) /\ r = Pages!RegionOf(a)
  BY DEF Pages!PageOf, Pages!RegionOf
<1> HIDE DEF p, r
<1>6. QED
  BY <1>1, <1>2, <1>3, <1>4, <1>5

\* The page, and the region, around an address.
LEMMA PageIs ==
    ASSUME NEW a \in Nat, NEW p \in Nat, p % PAGE_SIZE = 0, p <= a, a < p + PAGE_SIZE
    PROVE  Pages!PageOf(a) = p
<1>1. PICK q \in Nat : p = PAGE_SIZE * q
  BY SizesOf, Multiples
<1>2. a - (a % PAGE_SIZE) = PAGE_SIZE * q
  BY <1>1, SizesOf, TheMultiple
<1>3. QED
  BY <1>1, <1>2 DEF Pages!PageOf

\* The same for regions.
LEMMA RegionIs ==
    ASSUME NEW a \in Nat, NEW r \in Nat, r % GRANULARITY = 0, r <= a, a < r + GRANULARITY
    PROVE  Pages!RegionOf(a) = r
<1>1. PICK q \in Nat : r = GRANULARITY * q
  BY SizesOf, Multiples
<1>2. a - (a % GRANULARITY) = GRANULARITY * q
  BY <1>1, SizesOf, TheMultiple
<1>3. QED
  BY <1>1, <1>2 DEF Pages!RegionOf

\* A page lies in one region.
LEMMA PageInRegion ==
    ASSUME NEW a \in Nat
    PROVE  /\ Pages!RegionOf(a) <= Pages!PageOf(a)
           /\ Pages!PageOf(a) + PAGE_SIZE <= Pages!RegionOf(a) + GRANULARITY
           /\ Pages!RegionOf(Pages!PageOf(a)) = Pages!RegionOf(a)
<1> DEFINE p == Pages!PageOf(a)
           r == Pages!RegionOf(a)
<1>1. /\ p \in Nat /\ p % PAGE_SIZE = 0 /\ p <= a /\ a < p + PAGE_SIZE
      /\ r \in Nat /\ r % GRANULARITY = 0 /\ r % PAGE_SIZE = 0 /\ r <= a /\ a < r + GRANULARITY
  BY Addresses
<1> HIDE DEF p, r
<1>2. p < r => p + PAGE_SIZE <= r
  BY <1>1, SizesOf, MultiplesApart
<1>3. r <= p
  BY <1>1, <1>2, SizesOf
<1>4. (r + GRANULARITY) % PAGE_SIZE = 0
  BY <1>1, SizesOf, MultiplesApart
<1> r + GRANULARITY \in Nat
  BY <1>1, SizesOf
<1>5. p < r + GRANULARITY
  BY <1>1, SizesOf
<1>6. p + PAGE_SIZE <= r + GRANULARITY
  BY <1>1, <1>4, <1>5, SizesOf, MultiplesApart
<1>7. Pages!RegionOf(p) = r
  BY <1>1, <1>3, <1>5, RegionIs
<1>8. QED
  BY <1>3, <1>6, <1>7 DEF p, r

\* A buffer lies in one page, and the next one may follow it.
LEMMA BufferInPage ==
    ASSUME NEW a \in Nat, NEW s \in Pages!Sizes, a % s = 0
    PROVE  a + s <= Pages!PageOf(a) + PAGE_SIZE /\ (a + s) % s = 0 /\ s \in Nat \ {0}
<1> DEFINE p == Pages!PageOf(a)
<1>1. p \in Nat /\ p % PAGE_SIZE = 0 /\ p <= a /\ a < p + PAGE_SIZE
  BY Addresses
<1> HIDE DEF p
<1>2. s \in Nat \ {0} /\ s % s = 0 /\ PAGE_SIZE % s = 0
  <2>1. HALF_PAGE = HALF_PAGE * 1 /\ 1 \in Nat
    BY SizesOf
  <2>2. HALF_PAGE % HALF_PAGE = 0
    BY <2>1, SizesOf, Multiples
  <2>3. QED
    BY <2>2, SizesOf
<1>3. p % s = 0
  BY <1>1, <1>2, SizesOf, MultiplesOfMultiples
<1>4. (p + PAGE_SIZE) % s = 0
  <2>1. PAGE_SIZE \in Nat
    BY SizesOf
  <2>2. QED
    BY <1>1, <1>2, <1>3, <2>1, MultiplesApart
<1> p + PAGE_SIZE \in Nat
  BY <1>1, SizesOf
<1>5. a + s <= p + PAGE_SIZE
  BY <1>1, <1>2, <1>4, MultiplesApart
<1>6. (a + s) % s = 0
  BY <1>2, MultiplesApart
<1>7. QED
  BY <1>2, <1>5, <1>6 DEF p

\* Half a page behind the middle of a page the next page begins.
LEMMA SecondHalf ==
    ASSUME NEW a \in Nat, a % HALF_PAGE = 0, a % PAGE_SIZE # 0
    PROVE  (a + HALF_PAGE) % PAGE_SIZE = 0
<1> DEFINE p == Pages!PageOf(a)
<1>1. p \in Nat /\ p % PAGE_SIZE = 0 /\ p <= a /\ a < p + PAGE_SIZE /\ p # a
  BY Addresses
<1> HIDE DEF p
<1>2. p % HALF_PAGE = 0
  BY <1>1, SizesOf, MultiplesOfMultiples
<1>3. p + HALF_PAGE <= a
  BY <1>1, <1>2, SizesOf, MultiplesApart
<1>4. PAGE_SIZE \in Nat /\ p + PAGE_SIZE \in Nat
  BY <1>1, SizesOf
<1>5. (p + PAGE_SIZE) % HALF_PAGE = 0 /\ (p + PAGE_SIZE) % PAGE_SIZE = 0
  BY <1>1, <1>2, <1>4, SizesOf, MultiplesApart
<1>6. a + HALF_PAGE <= p + PAGE_SIZE
  BY <1>1, <1>4, <1>5, SizesOf, MultiplesApart
<1>7. a + HALF_PAGE = p + PAGE_SIZE
  BY <1>1, <1>3, <1>6, SizesOf
<1>8. QED
  BY <1>5, <1>7

\* What the types say of a buffer.
LEMMA BufferFacts ==
    ASSUME PagesTyped, NEW i \in DOMAIN buffers
    PROVE  /\ buffers[i].addr \in Nat /\ buffers[i].size \in Nat \ {0} /\ End(i) \in Nat
           /\ PageAt(i) \in Nat /\ RegionAt(i) \in Nat /\ Pages!RegionOf(PageAt(i)) = RegionAt(i)
           /\ PageAt(i) % PAGE_SIZE = 0 /\ RegionAt(i) % GRANULARITY = 0
           /\ RegionAt(i) <= PageAt(i) /\ PageAt(i) <= buffers[i].addr /\ buffers[i].addr < End(i)
           /\ End(i) <= PageAt(i) + PAGE_SIZE
           /\ PageAt(i) + PAGE_SIZE <= RegionAt(i) + GRANULARITY
<1> DEFINE a == buffers[i].addr
           s == buffers[i].size
<1>1. a \in Nat /\ s \in Pages!Sizes /\ a % s = 0
  <2>1. buffers \in Seq([addr : Nat, size : Pages!Sizes]) /\ a % s = 0
    BY DEF PagesTyped
  <2>2. ASSUME NEW V, NEW q \in Seq(V), i \in DOMAIN q PROVE q[i] \in V
    BY <2>2
  <2>3. buffers[i] \in [addr : Nat, size : Pages!Sizes]
    BY <2>1, <2>2
  <2>4. QED
    BY <2>1, <2>3
<1>2. PageAt(i) = Pages!PageOf(a) /\ RegionAt(i) = Pages!RegionOf(a) /\ End(i) = a + s
  BY DEF PageAt, RegionAt, End
<1> HIDE DEF a, s
<1>3. a + s <= Pages!PageOf(a) + PAGE_SIZE /\ s \in Nat \ {0}
  BY <1>1, BufferInPage
<1>4. /\ Pages!PageOf(a) \in Nat /\ Pages!RegionOf(a) \in Nat /\ Pages!PageOf(a) <= a
      /\ Pages!PageOf(a) % PAGE_SIZE = 0 /\ Pages!RegionOf(a) % GRANULARITY = 0
  BY <1>1, Addresses
<1>5. /\ Pages!RegionOf(a) <= Pages!PageOf(a)
      /\ Pages!PageOf(a) + PAGE_SIZE <= Pages!RegionOf(a) + GRANULARITY
      /\ Pages!RegionOf(Pages!PageOf(a)) = Pages!RegionOf(a)
  BY <1>1, PageInRegion
<1>6. a + s \in Nat /\ a < a + s
  BY <1>1, <1>3
<1>7. QED
  BY <1>1, <1>2, <1>3, <1>4, <1>5, <1>6 DEF a, s

\* A buffer more leaves the others where they are.
LEMMA Appended ==
    ASSUME PagesTyped, NEW at \in Nat, NEW s \in Pages!Sizes,
           buffers' = Append(buffers, [addr |-> at, size |-> s]), NEW n, n = Len(buffers) + 1
    PROVE  /\ DOMAIN buffers' = DOMAIN buffers \cup {n} /\ n \notin DOMAIN buffers /\ n \in Nat
           /\ \A i \in DOMAIN buffers : i \in Nat /\ i < n /\ buffers'[i] = buffers[i]
           /\ \A i \in DOMAIN buffers :
                PageAt(i)' = PageAt(i) /\ RegionAt(i)' = RegionAt(i) /\ End(i)' = End(i)
           /\ buffers'[n] = [addr |-> at, size |-> s] /\ End(n)' = at + s
           /\ PageAt(n)' = Pages!PageOf(at) /\ RegionAt(n)' = Pages!RegionOf(at)
           /\ buffers' \in Seq([addr : Nat, size : Pages!Sizes])
<1>1. /\ buffers \in Seq([addr : Nat, size : Pages!Sizes]) /\ Len(buffers) \in Nat
      /\ DOMAIN buffers = 1 .. Len(buffers)
      /\ [addr |-> at, size |-> s] \in [addr : Nat, size : Pages!Sizes]
  BY DEF PagesTyped
<1>2. /\ buffers' \in Seq([addr : Nat, size : Pages!Sizes])
      /\ Len(buffers') = n /\ buffers'[n] = [addr |-> at, size |-> s]
      /\ \A i \in 1 .. Len(buffers) : buffers'[i] = buffers[i]
      /\ DOMAIN buffers' = 1 .. n
  BY <1>1
<1>3. 1 .. n = (1 .. Len(buffers)) \cup {n} /\ n \notin 1 .. Len(buffers) /\ n \in Nat
  BY <1>1
<1>4. \A i \in DOMAIN buffers :
        PageAt(i)' = PageAt(i) /\ RegionAt(i)' = RegionAt(i) /\ End(i)' = End(i)
  BY <1>1, <1>2 DEF PageAt, RegionAt, End, Pages!PageOf, Pages!RegionOf
<1>5. PageAt(n)' = Pages!PageOf(at) /\ RegionAt(n)' = Pages!RegionOf(at) /\ End(n)' = at + s
  BY <1>2 DEF PageAt, RegionAt, End, Pages!PageOf, Pages!RegionOf
<1>6. QED
  BY <1>1, <1>2, <1>3, <1>4, <1>5

\* So does one buffer less.
LEMMA Dropped ==
    ASSUME PagesTyped, Len(buffers) > 1, buffers' = Pages!Front(buffers),
           NEW n, n = Len(buffers)
    PROVE  /\ DOMAIN buffers' = DOMAIN buffers \ {n} /\ n \in DOMAIN buffers /\ n \in Nat
           /\ \A i \in DOMAIN buffers : i \in Nat /\ i <= n
           /\ \A i \in DOMAIN buffers \ {n} :
                /\ buffers'[i] = buffers[i]
                /\ PageAt(i)' = PageAt(i) /\ RegionAt(i)' = RegionAt(i) /\ End(i)' = End(i)
           /\ buffers' \in Seq([addr : Nat, size : Pages!Sizes])
<1>1. /\ buffers \in Seq([addr : Nat, size : Pages!Sizes]) /\ n \in Nat
      /\ DOMAIN buffers = 1 .. n /\ n \in 1 .. n
  BY DEF PagesTyped
<1>2. buffers' = SubSeq(buffers, 1, n - 1)
  BY DEF Pages!Front
<1>3. /\ buffers' \in Seq([addr : Nat, size : Pages!Sizes]) /\ DOMAIN buffers' = 1 .. (n - 1)
      /\ \A i \in 1 .. (n - 1) : buffers'[i] = buffers[i]
  <2>1. ASSUME NEW V, NEW q \in Seq(V), NEW m \in Nat, m + 1 = Len(q)
        PROVE  /\ SubSeq(q, 1, m) \in Seq(V) /\ DOMAIN SubSeq(q, 1, m) = 1 .. m
               /\ \A i \in 1 .. m : SubSeq(q, 1, m)[i] = q[i]
    BY <2>1
  <2> DEFINE V == [addr : Nat, size : Pages!Sizes]
             m == n - 1
  <2>2. m \in Nat /\ m + 1 = Len(buffers) /\ buffers \in Seq(V) /\ buffers' = SubSeq(buffers, 1, m)
    BY <1>1, <1>2
  <2> HIDE DEF V, m
  <2>3. /\ SubSeq(buffers, 1, m) \in Seq(V) /\ DOMAIN SubSeq(buffers, 1, m) = 1 .. m
        /\ \A i \in 1 .. m : SubSeq(buffers, 1, m)[i] = buffers[i]
    BY <2>1, <2>2
  <2>4. QED
    BY <2>2, <2>3 DEF V, m
<1>4. 1 .. (n - 1) = (1 .. n) \ {n}
  BY <1>1
<1>5. \A i \in DOMAIN buffers \ {n} :
        PageAt(i)' = PageAt(i) /\ RegionAt(i)' = RegionAt(i) /\ End(i)' = End(i)
  BY <1>1, <1>3, <1>4 DEF PageAt, RegionAt, End, Pages!PageOf, Pages!RegionOf
<1>6. QED
  BY <1>1, <1>3, <1>4, <1>5

-----------------------------------------------------------------------------
(* A buffer is placed *)

\* What allocByAddr needs of the address at: everything in its region lies before it,
\* its page is committed unless it starts there, and no other pointer goes on there.
Fits(at, s, r) ==
  /\ at \in Nat /\ at % s = 0 /\ r = Pages!RegionOf(at)
  /\ \A i \in DOMAIN buffers : RegionAt(i) = r => End(i) <= at
  /\ \A p \in PagesIn(r) : p < at
  /\ at % PAGE_SIZE # 0 => Pages!PageOf(at) \in committed
  /\ \A q \in Pages!Sizes \ {s} : Going(q) => Goal(q) # r

\* The page of the address is committed now, and was not if the buffer starts it.
LEMMA PlacePage ==
    ASSUME PagesInv, NEW s \in Pages!Sizes, NEW at, NEW r, Fits(at, s, r),
           NEW c, c = Pages!PageOf(at),
           NEW map, Pages!Place(s, at, map)
    PROVE  /\ c \in Nat /\ c % PAGE_SIZE = 0 /\ c <= at /\ at < c + PAGE_SIZE
           /\ Pages!RegionOf(c) = r
           /\ r <= at /\ c + PAGE_SIZE <= r + GRANULARITY /\ r \in Nat /\ r % GRANULARITY = 0
           /\ committed' = committed \cup {c}
           /\ at % PAGE_SIZE = 0 => at = c /\ c \notin committed /\ InPage(c) = {}
           /\ at % PAGE_SIZE # 0 => c \in committed
<1>1. /\ c \in Nat /\ c % PAGE_SIZE = 0 /\ c <= at /\ at < c + PAGE_SIZE /\ Pages!RegionOf(c) = r
      /\ r <= at /\ c + PAGE_SIZE <= r + GRANULARITY /\ r \in Nat /\ r % GRANULARITY = 0
  BY Addresses, PageInRegion DEF Fits
<1>2. at % PAGE_SIZE # 0 => c \in committed /\ committed' = committed
  BY DEF Fits, Pages!Place
<1>3. CASE at % PAGE_SIZE = 0
  <2>1. at = c /\ committed' = committed \cup {at}
    BY <1>3, Addresses DEF Fits, Pages!Place
  <2>2. c \notin committed
    BY <1>1, <2>1 DEF Fits, PagesIn
  <2>3. InPage(c) = {}
    BY <2>2 DEF PagesInv, Held, InPage
  <2>4. QED
    BY <1>1, <1>3, <2>1, <2>2, <2>3
<1>4. QED
  BY <1>1, <1>2, <1>3

\* The maps count the buffer and its page.
LEMMA PlaceMapped ==
    ASSUME PagesInv, NEW s \in Pages!Sizes, NEW at, NEW r, Fits(at, s, r),
           NEW c, c = Pages!PageOf(at), NEW n, n = Len(buffers) + 1,
           NEW map, Pages!Place(s, at, map), reserved' = reserved \cup {r},
           DOMAIN map = reserved', \A q \in reserved' : map[q] = Cardinality(PagesIn(q))
    PROVE  Mapped'
<1>1. /\ Pages!RegionOf(c) = r /\ committed' = committed \cup {c}
      /\ at % PAGE_SIZE = 0 => at = c /\ c \notin committed /\ InPage(c) = {}
      /\ at % PAGE_SIZE # 0 => c \in committed
  BY PlacePage
<1>2. /\ DOMAIN buffers' = DOMAIN buffers \cup {n} /\ n \notin DOMAIN buffers
      /\ \A i \in DOMAIN buffers : PageAt(i)' = PageAt(i)
      /\ PageAt(n)' = c
  <2>1. PagesTyped /\ at \in Nat /\ buffers' = Append(buffers, [addr |-> at, size |-> s])
    BY DEF PagesInv, Fits, Pages!Place
  <2>2. QED
    BY <2>1, Appended
<1>3. IsFiniteSet(DOMAIN buffers) /\ IsFiniteSet(committed)
  <2>1. Len(buffers) \in Nat /\ DOMAIN buffers = 1 .. Len(buffers)
    BY DEF PagesInv, PagesTyped
  <2>2. \A m \in Nat : IsFiniteSet(1 .. m)
    BY FS_Interval
  <2>3. QED
    BY <2>1, <2>2 DEF PagesInv, PagesTyped
<1>4. /\ DOMAIN m_commitMap = committed
      /\ \A p \in committed : m_commitMap[p] = Cardinality(InPage(p))
  BY DEF PagesInv, Mapped
<1>5. /\ DOMAIN m_commitMap' = committed'
      /\ m_commitMap'[c] = Cardinality(InPage(c)) + 1
      /\ \A p \in committed : p # c => m_commitMap'[p] = m_commitMap[p]
  <2>1. CASE at % PAGE_SIZE = 0
    <3>1. m_commitMap' = Pages!Inserted(m_commitMap, c, 1) /\ Cardinality(InPage(c)) = 0
      BY <1>1, <2>1, FS_EmptySet DEF Pages!Place
    <3>2. m_commitMap' = [k \in committed \cup {c} |-> IF k = c THEN 1 ELSE m_commitMap[k]]
      BY <1>1, <1>4, <2>1, <3>1 DEF Pages!Inserted
    <3>3. QED
      BY <1>1, <3>1, <3>2
  <2>2. CASE at % PAGE_SIZE # 0
    <3>1. m_commitMap' = Pages!Incremented(m_commitMap, c)
      BY <2>2 DEF Pages!Place
    <3>2. m_commitMap' = [m_commitMap EXCEPT ![c] = @ + 1]
      BY <1>1, <1>4, <2>2, <3>1 DEF Pages!Incremented, Pages!Inserted
    <3>3. QED
      BY <1>1, <1>4, <2>2, <3>2
  <2>3. QED
    BY <2>1, <2>2
<1>6. InPage(c)' = InPage(c) \cup {n} /\ \A p \in committed : p # c => InPage(p)' = InPage(p)
  BY <1>2 DEF InPage
<1>7. Cardinality(InPage(c)') = Cardinality(InPage(c)) + 1
  <2>1. InPage(c) \subseteq DOMAIN buffers /\ n \notin InPage(c)
    BY <1>2 DEF InPage
  <2>2. IsFiniteSet(InPage(c))
    BY <1>3, <2>1, FS_Subset
  <2>3. Cardinality(InPage(c) \cup {n}) = Cardinality(InPage(c)) + 1
    BY <2>1, <2>2, FS_AddElement
  <2>4. QED
    BY <1>6, <2>3
<1>8. \A p \in committed' : m_commitMap'[p] = Cardinality(InPage(p)')
  BY <1>1, <1>4, <1>5, <1>6, <1>7
<1>9. /\ DOMAIN m_reserveMap' = reserved'
      /\ \A q \in reserved' : m_reserveMap'[q] = Cardinality(PagesIn(q)')
  <2>1. PagesIn(r)' = PagesIn(r) \cup {c} /\ \A q \in reserved' : q # r => PagesIn(q)' = PagesIn(q)
    BY <1>1 DEF PagesIn, Pages!RegionOf
  <2>2. CASE at % PAGE_SIZE = 0
    <3>1. m_reserveMap' = Pages!Incremented(map, r)
      BY <2>2 DEF Pages!Place, Fits
    <3>2. m_reserveMap' = [map EXCEPT ![r] = @ + 1] /\ r \in DOMAIN map
      BY <3>1 DEF Pages!Incremented, Pages!Inserted
    <3>3. PagesIn(r) \subseteq committed /\ c \notin PagesIn(r)
      BY <1>1, <2>2 DEF PagesIn
    <3>4. IsFiniteSet(PagesIn(r))
      BY <1>3, <3>3, FS_Subset
    <3>5. Cardinality(PagesIn(r)') = Cardinality(PagesIn(r)) + 1
      BY <2>1, <3>3, <3>4, FS_AddElement
    <3>6. QED
      BY <2>1, <3>2, <3>5
  <2>3. CASE at % PAGE_SIZE # 0
    <3>1. m_reserveMap' = map
      BY <2>3 DEF Pages!Place
    <3>2. PagesIn(r)' = PagesIn(r)
      BY <1>1, <2>1, <2>3 DEF PagesIn
    <3>3. QED
      BY <2>1, <3>1, <3>2
  <2>4. QED
    BY <2>2, <2>3
<1>10. QED
  BY <1>5, <1>8, <1>9 DEF Mapped

\* What is held, the order of the buffers and the pointers.
LEMMA PlaceKept ==
    ASSUME PagesInv, NEW s \in Pages!Sizes, NEW at, NEW r, Fits(at, s, r),
           NEW c, c = Pages!PageOf(at), NEW n, n = Len(buffers) + 1,
           NEW map, Pages!Place(s, at, map), r \in Pages!Regions, reserved' = reserved \cup {r},
           wanted # <<>>, wanted' = Tail(wanted)
    PROVE  PagesTyped' /\ Held' /\ Ascending' /\ Frontier'
<1>1. /\ c \in Nat /\ c % PAGE_SIZE = 0 /\ c <= at /\ at < c + PAGE_SIZE /\ Pages!RegionOf(c) = r
      /\ r <= at /\ c + PAGE_SIZE <= r + GRANULARITY /\ r \in Nat /\ r % GRANULARITY = 0
      /\ committed' = committed \cup {c}
      /\ at % PAGE_SIZE = 0 => at = c
  BY PlacePage
<1>2. PagesTyped /\ Held /\ Ascending /\ Frontier /\ at \in Nat /\ at % s = 0
  BY DEF PagesInv, Fits
<1>3. /\ DOMAIN buffers' = DOMAIN buffers \cup {n} /\ n \notin DOMAIN buffers /\ n \in Nat
      /\ \A i \in DOMAIN buffers : i \in Nat /\ i < n /\ buffers'[i] = buffers[i]
      /\ \A i \in DOMAIN buffers :
           PageAt(i)' = PageAt(i) /\ RegionAt(i)' = RegionAt(i) /\ End(i)' = End(i)
      /\ buffers'[n] = [addr |-> at, size |-> s] /\ End(n)' = at + s
      /\ PageAt(n)' = c /\ RegionAt(n)' = r
      /\ buffers' \in Seq([addr : Nat, size : Pages!Sizes])
  <2>1. buffers' = Append(buffers, [addr |-> at, size |-> s]) /\ r = Pages!RegionOf(at)
    BY DEF Fits, Pages!Place
  <2>2. QED
    BY <1>2, <2>1, Appended
<1>4. /\ s \in Nat \ {0} /\ at + s \in Nat /\ (at + s) % s = 0 /\ at + s <= c + PAGE_SIZE
  BY <1>2, BufferInPage
<1>5. /\ m_addr' = [m_addr EXCEPT ![s] = at + s] /\ m_addr' \in [Pages!Sizes -> Nat]
      /\ m_addr'[s] = at + s /\ \A q \in Pages!Sizes \ {s} : m_addr'[q] = m_addr[q]
  BY <1>2, <1>4 DEF PagesTyped, Pages!Place
<1>6. PagesTyped'
  <2>1. \A q \in Pages!Sizes : m_addr'[q] % q = 0
    BY <1>2, <1>4, <1>5 DEF PagesTyped
  <2>2. \A i \in DOMAIN buffers' : buffers'[i].addr % buffers'[i].size = 0
    BY <1>2, <1>3 DEF PagesTyped
  <2>3. wanted' \in Seq(Pages!Sizes)
    BY <1>2 DEF PagesTyped
  <2>4. IsFiniteSet(committed')
    BY <1>1, <1>2, FS_AddElement DEF PagesTyped
  <2>5. /\ reserved' \subseteq Pages!Regions /\ committed' \subseteq Nat
        /\ \A p \in committed' : p % PAGE_SIZE = 0
    BY <1>1, <1>2 DEF PagesTyped
  <2>6. Pages!Regions' = Pages!Regions /\ Pages!Sizes' = Pages!Sizes
    BY DEF Pages!Regions, Pages!Sizes
  <2>7. QED
    BY <1>3, <1>5, <2>1, <2>2, <2>3, <2>4, <2>5, <2>6 DEF PagesTyped
<1>7. Held'
  <2>1. ASSUME NEW i \in DOMAIN buffers' PROVE PageAt(i)' \in committed'
    BY <1>1, <1>2, <1>3 DEF Held
  <2>2. ASSUME NEW p \in committed' PROVE InPage(p)' # {} /\ Pages!RegionOf(p) \in reserved'
    <3>1. CASE p = c
      BY <1>1, <1>3, <3>1 DEF InPage
    <3>2. CASE p # c
      <4>1. InPage(p) # {} /\ Pages!RegionOf(p) \in reserved
        BY <1>1, <1>2, <3>2 DEF Held
      <4>2. PICK i \in DOMAIN buffers : PageAt(i) = p
        BY <4>1 DEF InPage
      <4>3. i \in DOMAIN buffers' /\ PageAt(i)' = p
        BY <1>3, <4>2
      <4>4. QED
        BY <4>1, <4>3 DEF InPage
    <3>3. QED
      BY <3>1, <3>2
  <2>3. QED
    BY <2>1, <2>2 DEF Held, Pages!RegionOf
<1>8. Ascending'
  <2>1. ASSUME NEW i \in DOMAIN buffers', NEW j \in DOMAIN buffers',
               i < j, RegionAt(i)' = RegionAt(j)'
        PROVE  End(i)' <= buffers'[j].addr
    <3>1. i \in DOMAIN buffers
      BY <1>3, <2>1
    <3>2. CASE j = n
      <4>1. RegionAt(i) = r
        BY <1>3, <2>1, <3>1, <3>2
      <4>2. End(i) <= at
        BY <3>1, <4>1 DEF Fits
      <4>3. QED
        BY <1>3, <3>1, <3>2, <4>2
    <3>3. CASE j # n
      <4>1. j \in DOMAIN buffers
        BY <1>3, <3>3
      <4>2. End(i) <= buffers[j].addr
        BY <1>2, <1>3, <2>1, <3>1, <4>1 DEF Ascending
      <4>3. QED
        BY <1>3, <3>1, <4>1, <4>2
    <3>4. QED
      BY <3>2, <3>3
  <2>2. QED
    BY <2>1 DEF Ascending
<1>9. Frontier'
  <2>1. Going(s)' => Goal(s)' = r
    <3>1. Going(s)' <=> (at + s) % GRANULARITY # 0
      BY <1>5 DEF Going
    <3>2. Goal(s)' = Pages!RegionOf(at + s)
      BY <1>5 DEF Goal, Pages!RegionOf
    <3>3. ASSUME (at + s) % GRANULARITY # 0 PROVE Pages!RegionOf(at + s) = r
      <4>1. (r + GRANULARITY) % GRANULARITY = 0 /\ GRANULARITY \in Nat
        <5>1. GRANULARITY % GRANULARITY = 0
          BY SizesOf, GRANULARITY = GRANULARITY * 1, 1 \in Nat, Multiples
        <5>2. QED
          BY <1>1, <5>1, SizesOf, MultiplesApart
      <4>2. r <= at + s /\ at + s < r + GRANULARITY
        <5>1. at + s # r + GRANULARITY
          BY <3>3, <4>1
        <5>2. r \in Nat /\ c \in Nat /\ s \in Nat /\ PAGE_SIZE \in Nat
          BY <1>1, <1>4, SizesOf
        <5>3. r <= at /\ c + PAGE_SIZE <= r + GRANULARITY /\ at + s <= c + PAGE_SIZE
          BY <1>1, <1>4
        <5>4. QED
          BY <1>2, <4>1, <5>1, <5>2, <5>3
      <4>3. QED
        BY <1>1, <1>4, <4>2, RegionIs
    <3>4. QED
      BY <3>1, <3>2, <3>3
  <2>2. \A q \in Pages!Sizes \ {s} : (Going(q)' <=> Going(q)) /\ Goal(q)' = Goal(q)
    BY <1>5 DEF Going, Goal, Pages!RegionOf
  <2>3. PagesIn(r)' = PagesIn(r) \cup {c} /\ \A x : x # r => PagesIn(x)' = PagesIn(x)
    BY <1>1 DEF PagesIn, Pages!RegionOf
  <2>4. ASSUME NEW q \in Pages!Sizes, Going(q)', NEW x, x = Goal(q)'
        PROVE  x \in reserved' /\ Behind(q, x)'
    <3>1. CASE q = s
      <4>1. ASSUME NEW i \in DOMAIN buffers', RegionAt(i)' = r PROVE End(i)' <= at + s
        <5>1. CASE i = n
          BY <1>2, <1>3, <1>4, <5>1
        <5>2. CASE i # n
          <6>1. i \in DOMAIN buffers /\ RegionAt(i) = r /\ End(i)' = End(i)
            BY <1>3, <4>1, <5>2
          <6>2. End(i) <= at /\ End(i) \in Nat
            BY <1>2, <6>1, BufferFacts DEF Fits
          <6>3. QED
            BY <1>2, <1>4, <6>1, <6>2
        <5>3. QED
          BY <5>1, <5>2
      <4>2. ASSUME NEW p \in PagesIn(r)' PROVE p < at + s
        <5>1. CASE p = c
          BY <1>1, <1>2, <1>4, <5>1
        <5>2. CASE p # c
          <6>1. p < at /\ p \in Nat
            BY <1>2, <2>3, <4>2, <5>2 DEF Fits, PagesIn, PagesTyped
          <6>2. QED
            BY <1>2, <1>4, <6>1
        <5>3. QED
          BY <5>1, <5>2
      <4>3. QED
        BY <1>5, <2>1, <2>4, <3>1, <4>1, <4>2 DEF Behind
    <3>2. CASE q # s
      <4>1. Going(q) /\ x = Goal(q) /\ x # r /\ m_addr'[q] = m_addr[q]
        BY <1>5, <2>2, <2>4, <3>2 DEF Fits
      <4>2. x \in reserved /\ Behind(q, x)
        BY <1>2, <4>1 DEF Frontier
      <4>3. PagesIn(x)' = PagesIn(x)
        BY <2>3, <4>1
      <4>4. ASSUME NEW i \in DOMAIN buffers', RegionAt(i)' = x PROVE End(i)' <= m_addr'[q]
        <5>1. i \in DOMAIN buffers /\ RegionAt(i) = x /\ End(i)' = End(i)
          BY <1>3, <4>1, <4>4
        <5>2. QED
          BY <4>1, <4>2, <5>1 DEF Behind
      <4>5. QED
        BY <4>1, <4>2, <4>3, <4>4 DEF Behind
    <3>3. QED
      BY <3>1, <3>2
  <2>5. ASSUME NEW q1 \in Pages!Sizes, NEW q2 \in Pages!Sizes, Going(q1)', Going(q2)', q1 # q2
        PROVE  Goal(q1)' # Goal(q2)'
    <3>1. CASE q1 = s
      BY <2>1, <2>2, <2>5, <3>1 DEF Fits
    <3>2. CASE q2 = s
      BY <2>1, <2>2, <2>5, <3>2 DEF Fits
    <3>3. CASE q1 # s /\ q2 # s
      BY <1>2, <2>2, <2>5, <3>3 DEF Frontier
    <3>4. QED
      BY <3>1, <3>2, <3>3
  <2>6. m_addr'[HALF_PAGE] % PAGE_SIZE # 0 => Pages!PageOf(m_addr'[HALF_PAGE]) \in committed'
    <3>1. CASE s = HALF_PAGE /\ at % PAGE_SIZE = 0
      <4>1. Pages!PageOf(at + s) = c
        <5>1. c <= at + s /\ at + s < c + PAGE_SIZE
          <6>1. /\ c \in Nat /\ c = at /\ s = HALF_PAGE
                /\ HALF_PAGE \in Nat \ {0} /\ PAGE_SIZE = 2 * HALF_PAGE
            BY <1>1, <3>1, SizesOf, PageSizes DEF Pages!BufferSizes
          <6>2. QED
            BY <6>1
        <5>2. QED
          BY <1>1, <1>4, <5>1, PageIs
      <4>2. QED
        BY <1>1, <1>5, <3>1, <4>1
    <3>2. CASE s = HALF_PAGE /\ at % PAGE_SIZE # 0
      BY <1>2, <1>5, <3>2, SecondHalf
    <3>3. CASE s # HALF_PAGE
      BY <1>1, <1>2, <1>5, <3>3, SizesOf DEF Frontier
    <3>4. QED
      BY <3>1, <3>2, <3>3
  <2>7. QED
    <3>1. /\ Pages!Sizes' = Pages!Sizes
          /\ Pages!PageOf(m_addr[HALF_PAGE])' = Pages!PageOf(m_addr'[HALF_PAGE])
      BY DEF Pages!Sizes, Pages!PageOf
    <3>2. QED
      BY <2>4, <2>5, <2>6, <3>1 DEF Frontier
<1>10. QED
  BY <1>6, <1>7, <1>8, <1>9

\* Alloc places the buffer in a new region, or where the pointer of its size is.
LEMMA AllocKeeps ==
    ASSUME PagesInv, Pages!Alloc
    PROVE  PagesInv'
<1> DEFINE s == Head(wanted)
<1>1. s \in Pages!Sizes /\ wanted # <<>> /\ wanted' = Tail(wanted)
  BY DEF PagesInv, PagesTyped, Pages!Alloc
<1>2. PICK x : x = s
  OBVIOUS
<1>3. ASSUME NEW at, NEW r, Fits(at, x, r), NEW map, Pages!Place(x, at, map),
             r \in Pages!Regions, reserved' = reserved \cup {r}, DOMAIN map = reserved',
             \A q \in reserved' : map[q] = Cardinality(PagesIn(q))
      PROVE  PagesInv'
  <2>1. x \in Pages!Sizes
    BY <1>1, <1>2
  <2>2. Mapped'
    BY <1>3, <2>1, PlaceMapped
  <2>3. PagesTyped' /\ Held' /\ Ascending' /\ Frontier'
    BY <1>1, <1>3, <2>1, PlaceKept
  <2>4. QED
    BY <2>2, <2>3 DEF PagesInv
<1>4. PagesTyped /\ Mapped /\ Held /\ Frontier /\ x \in Pages!Sizes
  BY <1>1, <1>2 DEF PagesInv
<1>5. CASE Pages!AllocRegion(x)
  <2>1. PICK r \in Pages!Regions \ reserved :
          /\ reserved' = reserved \cup {r}
          /\ Pages!Place(x, r, Pages!Inserted(m_reserveMap, r, 0))
    BY <1>5 DEF Pages!AllocRegion
  <2> DEFINE map == Pages!Inserted(m_reserveMap, r, 0)
  <2>2. map = [q \in reserved \cup {r} |-> IF q = r THEN 0 ELSE m_reserveMap[q]]
    BY <1>4, <2>1 DEF Mapped, Pages!Inserted
  <2>3. r \in Nat /\ r % GRANULARITY = 0
    <3>1. PICK k \in 1 .. MaxRegion : r = GRANULARITY * k
      BY <2>1 DEF Pages!Regions
    <3>2. k \in Nat /\ GRANULARITY * k \in Nat
      BY SizesOf
    <3>3. QED
      BY <3>1, <3>2, SizesOf, Multiples
  <2>4. r % PAGE_SIZE = 0 /\ r % x = 0 /\ Pages!RegionOf(r) = r
    <3>1. r % PAGE_SIZE = 0
      BY <2>3, SizesOf, MultiplesOfMultiples
    <3>2. r % HALF_PAGE = 0
      BY <2>3, <3>1, SizesOf, MultiplesOfMultiples
    <3>3. QED
      BY <1>4, <2>3, <3>1, <3>2, SizesOf, Addresses
  <2>5. PagesIn(r) = {}
    BY <1>4, <2>1 DEF PagesIn, Held
  <2>6. \A i \in DOMAIN buffers : RegionAt(i) # r
    <3>1. ASSUME NEW i \in DOMAIN buffers PROVE RegionAt(i) \in reserved
      BY <1>4, BufferFacts DEF Held
    <3>2. QED
      BY <2>1, <3>1
  <2>7. Fits(r, x, r)
    BY <1>4, <2>1, <2>3, <2>4, <2>5, <2>6 DEF Fits, Frontier
  <2>8. \A q \in reserved' : map[q] = Cardinality(PagesIn(q))
    BY <1>4, <2>1, <2>2, <2>5, FS_EmptySet DEF Mapped
  <2>9. DOMAIN map = reserved'
    BY <2>1, <2>2
  <2> HIDE DEF map
  <2>10. Pages!Place(x, r, map)
    BY <2>1 DEF map
  <2>11. QED
    BY <1>3, <2>1, <2>7, <2>8, <2>9, <2>10
<1>6. CASE Pages!AllocNext(x)
  <2>1. Going(x) /\ Pages!Place(x, m_addr[x], m_reserveMap) /\ reserved' = reserved
    BY <1>6 DEF Pages!AllocNext, Going
  <2>2. PICK at, r : at = m_addr[x] /\ r = Goal(x)
    OBVIOUS
  <2>3. at \in Nat /\ at % x = 0 /\ r = Pages!RegionOf(at) /\ r \in reserved /\ Behind(x, r)
    BY <1>4, <2>1, <2>2 DEF PagesTyped, Frontier, Goal
  <2>4. at % PAGE_SIZE # 0 => Pages!PageOf(at) \in committed
    BY <1>4, <2>2, <2>3, SizesOf DEF Frontier
  <2>5. Fits(at, x, r)
    BY <1>4, <2>1, <2>2, <2>3, <2>4 DEF Fits, Frontier, Behind
  <2>6. /\ r \in Pages!Regions /\ reserved' = reserved \cup {r} /\ DOMAIN m_reserveMap = reserved'
        /\ \A q \in reserved' : m_reserveMap[q] = Cardinality(PagesIn(q))
    BY <1>4, <2>1, <2>3 DEF PagesTyped, Mapped
  <2>7. QED
    BY <1>3, <2>1, <2>2, <2>5, <2>6
<1>7. QED
  BY <1>2, <1>5, <1>6 DEF Pages!Alloc

-----------------------------------------------------------------------------
(* A buffer is freed *)

\* Without the last buffer: its page has one less, and the order of the others stays.
LEMMA FreedPage ==
    ASSUME PagesInv, Len(buffers) > 1, buffers' = Pages!Front(buffers), wanted' = wanted,
           NEW n, n = Len(buffers), NEW c, c = PageAt(n)
    PROVE  /\ n \in DOMAIN buffers /\ c \in committed /\ n \in InPage(c)
           /\ InPage(c)' = InPage(c) \ {n} /\ \A p \in Nat \ {c} : InPage(p)' = InPage(p)
           /\ IsFiniteSet(InPage(c)) /\ Cardinality(InPage(c)') = Cardinality(InPage(c)) - 1
           /\ m_commitMap[c] = 1 => InPage(c) = {n}
           /\ Ascending'
           /\ buffers' \in Seq([addr : Nat, size : Pages!Sizes])
           /\ \A i \in DOMAIN buffers' : buffers'[i].addr % buffers'[i].size = 0
<1>1. PagesTyped /\ Mapped /\ Held /\ Ascending
  BY DEF PagesInv
<1>2. /\ DOMAIN buffers' = DOMAIN buffers \ {n} /\ n \in DOMAIN buffers
      /\ \A i \in DOMAIN buffers \ {n} :
           /\ buffers'[i] = buffers[i]
           /\ PageAt(i)' = PageAt(i) /\ RegionAt(i)' = RegionAt(i) /\ End(i)' = End(i)
      /\ buffers' \in Seq([addr : Nat, size : Pages!Sizes])
  BY <1>1, Dropped
<1>3. c \in committed /\ n \in InPage(c)
  BY <1>1, <1>2 DEF Held, InPage
<1>4. InPage(c)' = InPage(c) \ {n} /\ \A p \in Nat \ {c} : InPage(p)' = InPage(p)
  BY <1>2 DEF InPage
<1>5. IsFiniteSet(InPage(c))
  <2>1. Len(buffers) \in Nat /\ DOMAIN buffers = 1 .. Len(buffers)
    BY <1>1 DEF PagesTyped
  <2>2. \A m \in Nat : IsFiniteSet(1 .. m)
    BY FS_Interval
  <2>3. IsFiniteSet(DOMAIN buffers) /\ InPage(c) \subseteq DOMAIN buffers
    BY <2>1, <2>2 DEF InPage
  <2>4. QED
    BY <2>3, FS_Subset
<1>6. Cardinality(InPage(c)') = Cardinality(InPage(c)) - 1
  BY <1>3, <1>4, <1>5, FS_RemoveElement
<1>7. m_commitMap[c] = 1 => InPage(c) = {n}
  <2>1. ASSUME NEW S, IsFiniteSet(S), Cardinality(S) = 1, n \in S PROVE S = {n}
    BY <2>1, FS_Singleton
  <2>2. m_commitMap[c] = Cardinality(InPage(c))
    BY <1>1, <1>3 DEF Mapped
  <2>3. QED
    BY <1>3, <1>5, <2>1, <2>2
<1>8. Ascending'
  <2>1. ASSUME NEW i \in DOMAIN buffers', NEW j \in DOMAIN buffers',
               i < j, RegionAt(i)' = RegionAt(j)'
        PROVE  End(i)' <= buffers'[j].addr
    <3>1. i \in DOMAIN buffers \ {n} /\ j \in DOMAIN buffers \ {n}
      BY <1>2, <2>1
    <3>2. End(i) <= buffers[j].addr
      BY <1>1, <1>2, <2>1, <3>1 DEF Ascending
    <3>3. QED
      BY <1>2, <3>1, <3>2
  <2>2. QED
    BY <2>1 DEF Ascending
<1>9. \A i \in DOMAIN buffers' : buffers'[i].addr % buffers'[i].size = 0
  BY <1>1, <1>2 DEF PagesTyped
<1>10. QED
  BY <1>2, <1>3, <1>4, <1>5, <1>6, <1>7, <1>8, <1>9

\* Pages and buffers may go while a pointer goes on behind them.
LEMMA PointersKept ==
    ASSUME PagesInv, Len(buffers) > 1, buffers' = Pages!Front(buffers),
           committed' \subseteq committed,
           m_addr' \in [Pages!Sizes -> Nat],
           \A s \in Pages!Sizes : Going(s)' =>
             /\ Going(s) /\ Goal(s)' = Goal(s) /\ m_addr[s] <= m_addr'[s]
             /\ Goal(s) \in reserved',
           m_addr'[HALF_PAGE] % PAGE_SIZE # 0 => Pages!PageOf(m_addr'[HALF_PAGE]) \in committed'
    PROVE  Frontier'
<1>1. PagesTyped /\ Frontier
  BY DEF PagesInv
<1>2. PICK n : n = Len(buffers)
  OBVIOUS
<1>3. /\ DOMAIN buffers' = DOMAIN buffers \ {n}
      /\ \A i \in DOMAIN buffers \ {n} : RegionAt(i)' = RegionAt(i) /\ End(i)' = End(i)
  BY <1>1, <1>2, Dropped
<1>4. \A x : PagesIn(x)' \subseteq PagesIn(x)
  BY DEF PagesIn, Pages!RegionOf
<1>5. ASSUME NEW s \in Pages!Sizes, Going(s)', NEW x, x = Goal(s)'
      PROVE  x \in reserved' /\ Behind(s, x)'
  <2>1. /\ x \in reserved' /\ Behind(s, x) /\ m_addr[s] <= m_addr'[s]
        /\ m_addr[s] \in Nat /\ m_addr'[s] \in Nat
    BY <1>1, <1>5 DEF Frontier, PagesTyped
  <2>2. ASSUME NEW i \in DOMAIN buffers', RegionAt(i)' = x PROVE End(i)' <= m_addr'[s]
    <3>1. i \in DOMAIN buffers /\ RegionAt(i) = x /\ End(i)' = End(i)
      BY <1>3, <2>2
    <3>2. End(i) <= m_addr[s] /\ End(i) \in Nat
      BY <1>1, <2>1, <3>1, BufferFacts DEF Behind
    <3>3. QED
      BY <2>1, <3>1, <3>2
  <2>3. ASSUME NEW p \in PagesIn(x)' PROVE p < m_addr'[s]
    <3>1. p < m_addr[s] /\ p \in Nat
      BY <1>1, <1>4, <2>1, <2>3 DEF Behind, PagesIn, PagesTyped
    <3>2. QED
      BY <2>1, <3>1
  <2>4. QED
    BY <2>1, <2>2, <2>3 DEF Behind
<1>6. ASSUME NEW s1 \in Pages!Sizes, NEW s2 \in Pages!Sizes, Going(s1)', Going(s2)', s1 # s2
      PROVE  Goal(s1)' # Goal(s2)'
  BY <1>1, <1>6 DEF Frontier
<1>7. /\ Pages!Sizes' = Pages!Sizes
      /\ Pages!PageOf(m_addr[HALF_PAGE])' = Pages!PageOf(m_addr'[HALF_PAGE])
  BY DEF Pages!Sizes, Pages!PageOf
<1>8. QED
  BY <1>5, <1>6, <1>7 DEF Frontier

\* One of several buffers in a page: the page stays.
LEMMA FreeSharedKeeps ==
    ASSUME PagesInv, Len(buffers) > 1, buffers' = Pages!Front(buffers), wanted' = wanted,
           NEW n, n = Len(buffers), NEW c, c = PageAt(n), Pages!FreeShared(c)
    PROVE  PagesInv'
<1>1. PagesTyped /\ Mapped /\ Held /\ Frontier
  BY DEF PagesInv
<1>2. /\ n \in DOMAIN buffers /\ c \in committed /\ n \in InPage(c)
      /\ InPage(c)' = InPage(c) \ {n} /\ \A p \in Nat \ {c} : InPage(p)' = InPage(p)
      /\ IsFiniteSet(InPage(c)) /\ Cardinality(InPage(c)') = Cardinality(InPage(c)) - 1
      /\ Ascending'
      /\ buffers' \in Seq([addr : Nat, size : Pages!Sizes])
      /\ \A i \in DOMAIN buffers' : buffers'[i].addr % buffers'[i].size = 0
  BY FreedPage
<1>3. /\ m_commitMap[c] > 1 /\ m_commitMap' = [m_commitMap EXCEPT ![c] = @ - 1]
      /\ UNCHANGED <<m_addr, m_reserveMap, reserved, committed>>
  BY DEF Pages!FreeShared
<1>4. \A x : PagesIn(x)' = PagesIn(x)
  BY <1>3 DEF PagesIn, Pages!RegionOf
<1>5. PagesTyped'
  BY <1>1, <1>2, <1>3 DEF PagesTyped, Pages!Sizes, Pages!Regions
<1>6. Mapped'
  <2>1. \A p \in committed : m_commitMap'[p] = Cardinality(InPage(p)')
    BY <1>1, <1>2, <1>3 DEF Mapped, PagesTyped
  <2>2. \A r \in reserved : m_reserveMap'[r] = Cardinality(PagesIn(r)')
    BY <1>1, <1>3, <1>4 DEF Mapped
  <2>3. QED
    BY <1>1, <1>3, <2>1, <2>2 DEF Mapped
<1>7. Held'
  <2>1. ASSUME NEW i \in DOMAIN buffers' PROVE PageAt(i)' \in committed
    BY <1>1, <2>1, Dropped DEF Held
  <2>2. ASSUME NEW p \in committed PROVE InPage(p)' # {}
    <3>1. Cardinality(InPage(c)) = m_commitMap[c]
      BY <1>1, <1>2 DEF Mapped
    <3>2. Cardinality(InPage(c)) \in Nat
      BY <1>2, FS_CardinalityType
    <3>3. Cardinality(InPage(c)') # 0
      BY <1>2, <1>3, <3>1, <3>2
    <3>4. InPage(c)' # {}
      BY <3>3, FS_EmptySet
    <3>5. QED
      BY <1>1, <1>2, <2>2, <3>4 DEF Held, PagesTyped
  <2>3. QED
    BY <1>1, <1>3, <2>1, <2>2 DEF Held, Pages!RegionOf
<1>8. Frontier'
  <2>1. \A s \in Pages!Sizes : (Going(s)' <=> Going(s)) /\ Goal(s)' = Goal(s)
    BY <1>3 DEF Going, Goal, Pages!RegionOf
  <2>2. \A s \in Pages!Sizes : Going(s)' =>
          Going(s) /\ Goal(s)' = Goal(s) /\ m_addr[s] <= m_addr'[s] /\ Goal(s) \in reserved'
    BY <1>1, <1>3, <2>1 DEF Frontier, PagesTyped
  <2>3. m_addr'[HALF_PAGE] % PAGE_SIZE # 0 => Pages!PageOf(m_addr'[HALF_PAGE]) \in committed'
    BY <1>1, <1>3 DEF Frontier
  <2>4. m_addr' \in [Pages!Sizes -> Nat] /\ committed' \subseteq committed
    BY <1>1, <1>3 DEF PagesTyped
  <2>5. QED
    BY <2>2, <2>3, <2>4, PointersKept
<1>9. QED
  BY <1>2, <1>5, <1>6, <1>7, <1>8 DEF PagesInv

\* Page c goes with its last buffer n; its region r stays, or goes with it.
PageGoes(n, c, r) ==
  /\ Len(buffers) > 1 /\ buffers' = Pages!Front(buffers) /\ wanted' = wanted
  /\ n = Len(buffers) /\ c = PageAt(n) /\ r = RegionAt(n)
  /\ m_commitMap[c] = 1 /\ m_commitMap' = Pages!Erased(m_commitMap, c)
  /\ committed' = committed \ {c}
  /\ reserved' = reserved \/ (reserved' = reserved \ {r} /\ PagesIn(r) = {c})
  /\ m_addr' \in [Pages!Sizes -> Nat] /\ \A s \in Pages!Sizes : m_addr'[s] % s = 0

\* What is left is held and counted as before.
LEMMA PageGone ==
    ASSUME PagesInv, NEW n, NEW c, NEW r, PageGoes(n, c, r)
    PROVE  /\ PagesTyped' /\ Held' /\ Ascending'
           /\ DOMAIN m_commitMap' = committed'
           /\ \A p \in committed' : m_commitMap'[p] = Cardinality(InPage(p)')
           /\ c \in PagesIn(r) /\ r \in reserved /\ IsFiniteSet(PagesIn(r))
           /\ PagesIn(r)' = PagesIn(r) \ {c} /\ \A x : x # r => PagesIn(x)' = PagesIn(x)
<1>1. PagesTyped /\ Mapped /\ Held
  BY DEF PagesInv
<1> USE DEF PageGoes
<1>2. /\ n \in DOMAIN buffers /\ c \in committed /\ InPage(c) = {n}
      /\ \A p \in Nat \ {c} : InPage(p)' = InPage(p)
      /\ Ascending'
      /\ buffers' \in Seq([addr : Nat, size : Pages!Sizes])
      /\ \A i \in DOMAIN buffers' : buffers'[i].addr % buffers'[i].size = 0
  BY FreedPage
<1>3. /\ DOMAIN buffers' = DOMAIN buffers \ {n}
      /\ \A i \in DOMAIN buffers \ {n} : PageAt(i)' = PageAt(i)
  BY <1>1, Dropped
<1>4. Pages!RegionOf(c) = r /\ r \in reserved
  BY <1>1, <1>2, BufferFacts DEF Held
<1>5. /\ c \in PagesIn(r) /\ IsFiniteSet(PagesIn(r))
      /\ PagesIn(r)' = PagesIn(r) \ {c} /\ \A x : x # r => PagesIn(x)' = PagesIn(x)
  <2>1. PagesIn(r) \subseteq committed /\ c \in PagesIn(r)
    BY <1>2, <1>4 DEF PagesIn
  <2>2. IsFiniteSet(PagesIn(r))
    BY <1>1, <2>1, FS_Subset DEF PagesTyped
  <2>3. PagesIn(r)' = PagesIn(r) \ {c} /\ \A x : x # r => PagesIn(x)' = PagesIn(x)
    BY <1>4 DEF PagesIn, Pages!RegionOf
  <2>4. QED
    BY <2>1, <2>2, <2>3
<1>6. PagesTyped'
  <2>1. IsFiniteSet(committed')
    BY <1>1, FS_Subset DEF PagesTyped
  <2>2. committed' \subseteq Nat /\ \A p \in committed' : p % PAGE_SIZE = 0
    BY <1>1 DEF PagesTyped
  <2>3. wanted' \in Seq(Pages!Sizes) /\ reserved' \subseteq Pages!Regions
    BY <1>1 DEF PagesTyped
  <2>4. Pages!Sizes' = Pages!Sizes /\ Pages!Regions' = Pages!Regions
    BY DEF Pages!Sizes, Pages!Regions
  <2>5. QED
    BY <1>2, <2>1, <2>2, <2>3, <2>4 DEF PagesTyped
<1>7. /\ DOMAIN m_commitMap' = committed'
      /\ \A p \in committed' : m_commitMap'[p] = Cardinality(InPage(p)')
  <2>1. m_commitMap' = [p \in committed \ {c} |-> m_commitMap[p]]
    BY <1>1 DEF Mapped, Pages!Erased, Pages!Restrict
  <2>2. QED
    BY <1>1, <1>2, <2>1 DEF Mapped, PagesTyped
<1>8. Held'
  <2>1. ASSUME NEW i \in DOMAIN buffers' PROVE PageAt(i)' \in committed'
    <3>1. i \in DOMAIN buffers /\ i # n /\ PageAt(i)' = PageAt(i) /\ PageAt(i) \in committed
      BY <1>1, <1>3, <2>1 DEF Held
    <3>2. PageAt(i) # c
      BY <1>2, <3>1 DEF InPage
    <3>3. QED
      BY <3>1, <3>2
  <2>2. ASSUME NEW p \in committed' PROVE InPage(p)' # {} /\ Pages!RegionOf(p) \in reserved'
    <3>1. p \in committed /\ p # c /\ p \in Nat
      BY <1>1, <2>2 DEF PagesTyped
    <3>2. InPage(p)' # {} /\ Pages!RegionOf(p) \in reserved
      BY <1>1, <1>2, <3>1 DEF Held
    <3>3. PagesIn(r) = {c} => Pages!RegionOf(p) # r
      BY <3>1 DEF PagesIn
    <3>4. QED
      BY <3>2, <3>3
  <2>3. QED
    BY <2>1, <2>2 DEF Held, Pages!RegionOf
<1>9. QED
  BY <1>2, <1>4, <1>5, <1>6, <1>7, <1>8

\* fixDecommittedAddr moves a pointer that points into the page behind it.
LEMMA Moved ==
    ASSUME PagesInv, NEW s \in Pages!Sizes, NEW n \in DOMAIN buffers, NEW c, c = PageAt(n),
           NEW r, r = RegionAt(n), NEW f, f = Pages!FixDecommitted(m_addr[s], c)
    PROVE  /\ f \in Nat /\ f % s = 0 /\ m_addr[s] \in Nat /\ m_addr[s] <= f
           /\ f # m_addr[s] => /\ f = c + PAGE_SIZE /\ f % PAGE_SIZE = 0
                               /\ Pages!PageOf(m_addr[s]) = c /\ Pages!RegionOf(m_addr[s]) = r
           /\ f = m_addr[s] => Pages!PageOf(m_addr[s]) # c
<1>1. PagesTyped /\ m_addr[s] \in Nat /\ m_addr[s] % s = 0 /\ s \in Nat \ {0}
  BY SizesOf DEF PagesInv, PagesTyped
<1>2. PICK a : a = m_addr[s]
  OBVIOUS
<1>3. /\ c \in Nat /\ c % PAGE_SIZE = 0 /\ Pages!RegionOf(c) = r /\ PAGE_SIZE \in Nat \ {0}
  BY <1>1, BufferFacts, SizesOf
<1>4. CASE c <= a /\ a < c + PAGE_SIZE
  <2>1. f = c + PAGE_SIZE
    BY <1>2, <1>4 DEF Pages!FixDecommitted, Pages!Inside
  <2>2. Pages!PageOf(a) = c
    BY <1>1, <1>2, <1>3, <1>4, PageIs
  <2>3. Pages!RegionOf(a) = r
    BY <1>1, <1>2, <1>3, <2>2, PageInRegion
  <2>4. (c + PAGE_SIZE) % PAGE_SIZE = 0 /\ c + PAGE_SIZE \in Nat
    <3>1. (c + PAGE_SIZE) % PAGE_SIZE = 0
      BY <1>3, SizesOf, MultiplesApart
    <3>2. QED
      BY <1>3, <3>1
  <2>5. (c + PAGE_SIZE) % s = 0
    BY <2>4, SizesOf, MultiplesOfMultiples
  <2>6. a \in Nat /\ a <= c + PAGE_SIZE /\ c + PAGE_SIZE # a
    BY <1>1, <1>2, <1>3, <1>4
  <2>7. QED
    BY <1>2, <2>1, <2>2, <2>3, <2>4, <2>5, <2>6
<1>5. CASE ~(c <= a /\ a < c + PAGE_SIZE)
  <2>1. f = a
    BY <1>2, <1>5 DEF Pages!FixDecommitted, Pages!Inside
  <2>2. Pages!PageOf(a) # c
    BY <1>1, <1>2, <1>5, Addresses
  <2>3. QED
    BY <1>1, <1>2, <2>1, <2>2
<1>6. QED
  BY <1>4, <1>5

\* The last buffer in its page, not in its region: the page goes.
LEMMA FreePageKeeps ==
    ASSUME PagesInv, Len(buffers) > 1, buffers' = Pages!Front(buffers), wanted' = wanted,
           NEW n, n = Len(buffers), NEW c, c = PageAt(n), Pages!FreePage(c)
    PROVE  PagesInv'
<1>1. PagesTyped /\ Mapped /\ Held /\ Frontier /\ Ascending
  BY DEF PagesInv
<1>2. PICK r : r = RegionAt(n)
  OBVIOUS
<1>3. /\ n \in DOMAIN buffers /\ c \in committed /\ InPage(c) = {n} /\ m_commitMap[c] = 1
  BY FreedPage DEF Pages!FreePage
<1>4. /\ c \in Nat /\ c % PAGE_SIZE = 0 /\ Pages!RegionOf(c) = r
      /\ r \in Nat /\ r % GRANULARITY = 0 /\ r <= c /\ c + PAGE_SIZE <= r + GRANULARITY
      /\ c <= buffers[n].addr /\ buffers[n].addr \in Nat /\ End(n) <= c + PAGE_SIZE
      /\ buffers[n].addr < End(n) /\ End(n) \in Nat
  BY <1>1, <1>2, <1>3, BufferFacts
<1>5. /\ m_commitMap' = Pages!Erased(m_commitMap, c) /\ committed' = committed \ {c}
      /\ m_reserveMap[r] > 1 /\ m_reserveMap' = [m_reserveMap EXCEPT ![r] = @ - 1]
      /\ m_addr' = [s \in Pages!Sizes |-> Pages!FixDecommitted(m_addr[s], c)]
      /\ reserved' = reserved
  BY <1>4 DEF Pages!FreePage
<1>6. \A s \in Pages!Sizes :
        /\ m_addr'[s] \in Nat /\ m_addr'[s] % s = 0 /\ m_addr[s] \in Nat /\ m_addr[s] <= m_addr'[s]
        /\ m_addr'[s] # m_addr[s] =>
             /\ m_addr'[s] = c + PAGE_SIZE /\ m_addr'[s] % PAGE_SIZE = 0
             /\ Pages!PageOf(m_addr[s]) = c /\ Pages!RegionOf(m_addr[s]) = r
        /\ m_addr'[s] = m_addr[s] => Pages!PageOf(m_addr[s]) # c
  <2>1. ASSUME NEW s \in Pages!Sizes PROVE m_addr'[s] = Pages!FixDecommitted(m_addr[s], c)
    BY <1>5
  <2>2. QED
    BY <1>2, <1>3, <2>1, Moved
<1>7. m_addr' \in [Pages!Sizes -> Nat]
  BY <1>5, <1>6
<1>8. /\ PagesTyped' /\ Held' /\ Ascending'
      /\ DOMAIN m_commitMap' = committed'
      /\ \A p \in committed' : m_commitMap'[p] = Cardinality(InPage(p)')
      /\ c \in PagesIn(r) /\ r \in reserved /\ IsFiniteSet(PagesIn(r))
      /\ PagesIn(r)' = PagesIn(r) \ {c} /\ \A x : x # r => PagesIn(x)' = PagesIn(x)
  <2>1. \A s \in Pages!Sizes : m_addr'[s] % s = 0
    BY <1>6
  <2>2. /\ m_commitMap' = Pages!Erased(m_commitMap, c) /\ committed' = committed \ {c}
        /\ reserved' = reserved
    BY <1>5
  <2>3. PageGoes(n, c, r)
    BY <1>2, <1>3, <1>7, <2>1, <2>2 DEF PageGoes
  <2>4. QED
    BY <2>3, PageGone
<1>9. Mapped'
  <2>1. Cardinality(PagesIn(r)') = Cardinality(PagesIn(r)) - 1
    BY <1>8, FS_RemoveElement
  <2>2. /\ DOMAIN m_reserveMap' = reserved'
        /\ \A q \in reserved' : m_reserveMap'[q] = Cardinality(PagesIn(q)')
    BY <1>1, <1>5, <1>8, <2>1 DEF Mapped
  <2>3. QED
    BY <1>8, <2>2 DEF Mapped
\* The first page of a region is not the one that goes while others stay.
<1>10. c # r
  <2>1. SUFFICES ASSUME c = r PROVE FALSE
    OBVIOUS
  <2>2. PICK p \in PagesIn(r) : p # c
    <3>1. Cardinality(PagesIn(r)) # 1
      BY <1>1, <1>5, <1>8 DEF Mapped
    <3>2. Cardinality({c}) = 1
      BY FS_Singleton
    <3>3. QED
      BY <1>8, <3>1, <3>2
  <2>3. p \in committed /\ p \in Nat /\ p % PAGE_SIZE = 0 /\ Pages!RegionOf(p) = r
    BY <1>1, <2>2 DEF PagesIn, PagesTyped
  <2>4. c < p
    BY <1>4, <2>1, <2>2, <2>3, Addresses
  <2>5. c + PAGE_SIZE <= p
    BY <1>4, <2>3, <2>4, SizesOf, MultiplesApart
  <2>6. PICK j \in DOMAIN buffers : PageAt(j) = p
    BY <1>1, <2>3 DEF Held, InPage
  <2>7. j \in Nat /\ j < n /\ RegionAt(j) = RegionAt(n)
    <3>1. j # n /\ RegionAt(j) = r
      BY <1>1, <2>2, <2>3, <2>6, BufferFacts
    <3>2. j \in Nat /\ j <= n /\ n \in Nat
      BY <1>1, <2>6, Dropped
    <3>3. QED
      BY <1>2, <3>1, <3>2
  <2>8. End(j) <= buffers[n].addr
    BY <1>1, <1>3, <2>7 DEF Ascending
  <2>9. /\ p <= buffers[j].addr /\ buffers[j].addr < End(j) /\ buffers[j].addr \in Nat
        /\ End(j) \in Nat
    BY <1>1, <2>6, BufferFacts
  <2>10. PAGE_SIZE \in Nat
    BY SizesOf
  <2>11. QED
    BY <1>4, <2>3, <2>5, <2>8, <2>9, <2>10
<1>11. Frontier'
  <2>1. ASSUME NEW s \in Pages!Sizes, Going(s)'
        PROVE  /\ Going(s) /\ Goal(s)' = Goal(s) /\ m_addr[s] <= m_addr'[s]
               /\ Goal(s) \in reserved'
    <3>1. (Going(s)' <=> m_addr'[s] % GRANULARITY # 0) /\ Goal(s)' = Pages!RegionOf(m_addr'[s])
      BY DEF Going, Goal, Pages!RegionOf
    <3>2. CASE m_addr'[s] = m_addr[s]
      BY <1>1, <1>5, <1>6, <2>1, <3>1, <3>2 DEF Going, Goal, Frontier
    <3>3. CASE m_addr'[s] # m_addr[s]
      <4>1. /\ m_addr'[s] = c + PAGE_SIZE /\ Goal(s) = r /\ Pages!PageOf(m_addr[s]) = c
            /\ m_addr[s] \in Nat
        BY <1>6, <3>3 DEF Goal
      <4>2. m_addr'[s] # r + GRANULARITY /\ GRANULARITY \in Nat \ {0} /\ PAGE_SIZE \in Nat \ {0}
        <5>1. GRANULARITY \in Nat \ {0} /\ PAGE_SIZE \in Nat \ {0}
          BY SizesOf
        <5>2. GRANULARITY % GRANULARITY = 0
          BY <5>1, GRANULARITY = GRANULARITY * 1, 1 \in Nat, Multiples
        <5>3. (r + GRANULARITY) % GRANULARITY = 0
          BY <1>4, <5>1, <5>2, MultiplesApart
        <5>4. QED
          BY <2>1, <3>1, <5>1, <5>3
      <4>3. r <= m_addr'[s] /\ m_addr'[s] < r + GRANULARITY /\ m_addr'[s] \in Nat
        BY <1>4, <4>1, <4>2
      <4>4. Goal(s)' = r
        BY <1>4, <3>1, <4>3, RegionIs
      <4>5. Going(s)
        <5>1. SUFFICES ASSUME m_addr[s] % GRANULARITY = 0 PROVE FALSE
          BY DEF Going
        <5>2. m_addr[s] = r
          BY <4>1, <5>1, Addresses DEF Goal
        <5>3. r % PAGE_SIZE = 0
          BY <1>4, SizesOf, MultiplesOfMultiples
        <5>4. Pages!PageOf(r) = r
          BY <1>4, <5>3, Addresses
        <5>5. QED
          BY <1>10, <4>1, <5>2, <5>4
      <4>6. QED
        BY <1>5, <1>6, <1>8, <4>1, <4>4, <4>5
    <3>4. QED
      BY <3>2, <3>3
  <2>2. ASSUME m_addr'[HALF_PAGE] % PAGE_SIZE # 0
        PROVE  Pages!PageOf(m_addr'[HALF_PAGE]) \in committed'
    <3>1. m_addr'[HALF_PAGE] = m_addr[HALF_PAGE] /\ Pages!PageOf(m_addr[HALF_PAGE]) # c
      BY <1>6, <2>2, SizesOf
    <3>2. QED
      BY <1>1, <1>5, <2>2, <3>1 DEF Frontier
  <2>3. committed' \subseteq committed
    BY <1>5
  <2>4. QED
    BY <1>7, <2>1, <2>2, <2>3, PointersKept
<1>12. QED
  BY <1>8, <1>9, <1>11 DEF PagesInv

\* The last buffer in its region: the region is released, and no pointer stays in it.
LEMMA FreeRegionKeeps ==
    ASSUME PagesInv, Len(buffers) > 1, buffers' = Pages!Front(buffers), wanted' = wanted,
           NEW n, n = Len(buffers), NEW c, c = PageAt(n), Pages!FreeRegion(c)
    PROVE  PagesInv'
<1>1. PagesTyped /\ Mapped /\ Held /\ Frontier
  BY DEF PagesInv
<1>2. PICK r : r = RegionAt(n)
  OBVIOUS
<1>3. /\ n \in DOMAIN buffers /\ c \in committed /\ m_commitMap[c] = 1
  BY FreedPage DEF Pages!FreeRegion
<1>4. /\ c \in Nat /\ Pages!RegionOf(c) = r /\ r \in Nat /\ r % GRANULARITY = 0
      /\ r <= c /\ c + PAGE_SIZE <= r + GRANULARITY /\ r \in reserved
  BY <1>1, <1>2, <1>3, BufferFacts DEF Held
<1>5. /\ m_commitMap' = Pages!Erased(m_commitMap, c)
      /\ committed' = {p \in committed : Pages!RegionOf(p) # r}
      /\ m_reserveMap[r] = 1 /\ m_reserveMap' = Pages!Erased(m_reserveMap, r)
      /\ m_addr' = [s \in Pages!Sizes |->
                      Pages!FixReleased(Pages!FixDecommitted(m_addr[s], c), r)]
      /\ reserved' = reserved \ {r}
  BY <1>4 DEF Pages!FreeRegion
<1>6. PagesIn(r) = {c} /\ committed' = committed \ {c}
  <2>1. IsFiniteSet(PagesIn(r)) /\ c \in PagesIn(r)
    <3>1. PagesIn(r) \subseteq committed
      BY DEF PagesIn
    <3>2. IsFiniteSet(PagesIn(r))
      BY <1>1, <3>1, FS_Subset DEF PagesTyped
    <3>3. QED
      BY <1>3, <1>4, <3>2 DEF PagesIn
  <2>2. Cardinality(PagesIn(r)) = 1
    BY <1>1, <1>4, <1>5 DEF Mapped
  <2>3. ASSUME NEW S, IsFiniteSet(S), Cardinality(S) = 1, c \in S PROVE S = {c}
    BY <2>3, FS_Singleton
  <2>4. PagesIn(r) = {c}
    BY <2>1, <2>2, <2>3
  <2>5. QED
    BY <1>5, <2>4 DEF PagesIn
\* A pointer into the region goes back to nullptr, or stands at its end.
<1>7. ASSUME NEW s \in Pages!Sizes
      PROVE  /\ m_addr'[s] \in Nat /\ m_addr'[s] % s = 0
             /\ \/ m_addr'[s] % GRANULARITY = 0 /\ m_addr'[s] % PAGE_SIZE = 0
                \/ /\ m_addr'[s] = m_addr[s] /\ Pages!PageOf(m_addr[s]) # c
                   /\ Pages!RegionOf(m_addr[s]) # r
  <2>1. PICK f : f = Pages!FixDecommitted(m_addr[s], c)
    OBVIOUS
  <2>2. /\ f \in Nat /\ f % s = 0 /\ m_addr[s] \in Nat
        /\ f # m_addr[s] => f = c + PAGE_SIZE /\ f % PAGE_SIZE = 0
        /\ f = m_addr[s] => Pages!PageOf(m_addr[s]) # c
    BY <1>2, <1>3, <2>1, Moved
  <2>3. m_addr'[s] = Pages!FixReleased(f, r)
    BY <1>5, <2>1
  <2>4. GRANULARITY \in Nat \ {0} /\ PAGE_SIZE \in Nat \ {0} /\ s \in Nat \ {0}
    BY SizesOf
  <2>5. CASE r <= f /\ f < r + GRANULARITY
    <3>1. m_addr'[s] = 0
      BY <2>3, <2>5 DEF Pages!FixReleased, Pages!Inside, Pages!nullptr
    <3>2. \A k \in Nat \ {0} : 0 % k = 0
      <4>1. \A k \in Nat \ {0} : 0 = k * 0
        OBVIOUS
      <4>2. QED
        BY <4>1, 0 \in Nat, Multiples
    <3>3. QED
      BY <2>4, <3>1, <3>2
  <2>6. CASE ~(r <= f /\ f < r + GRANULARITY)
    <3>1. m_addr'[s] = f
      BY <2>3, <2>6 DEF Pages!FixReleased, Pages!Inside
    <3>2. CASE f = m_addr[s]
      <4>1. Pages!RegionOf(f) # r
        BY <2>2, <2>6, Addresses
      <4>2. QED
        BY <2>2, <3>1, <3>2, <4>1
    <3>3. CASE f # m_addr[s]
      <4>1. f = r + GRANULARITY
        BY <1>4, <2>2, <2>4, <2>6, <3>3
      <4>2. GRANULARITY % GRANULARITY = 0
        BY <2>4, GRANULARITY = GRANULARITY * 1, 1 \in Nat, Multiples
      <4>3. (r + GRANULARITY) % GRANULARITY = 0
        BY <1>4, <2>4, <4>2, MultiplesApart
      <4>4. QED
        BY <2>2, <3>1, <3>3, <4>1, <4>3
    <3>4. QED
      BY <3>2, <3>3
  <2>7. QED
    BY <2>5, <2>6
<1>8. m_addr' \in [Pages!Sizes -> Nat]
  BY <1>5, <1>7
<1>9. /\ PagesTyped' /\ Held' /\ Ascending'
      /\ DOMAIN m_commitMap' = committed'
      /\ \A p \in committed' : m_commitMap'[p] = Cardinality(InPage(p)')
      /\ \A x : x # r => PagesIn(x)' = PagesIn(x)
  <2>1. \A s \in Pages!Sizes : m_addr'[s] % s = 0
    BY <1>7
  <2>2. PageGoes(n, c, r)
    BY <1>2, <1>3, <1>5, <1>6, <1>8, <2>1 DEF PageGoes
  <2>3. QED
    BY <2>2, PageGone
<1>10. Mapped'
  <2>1. m_reserveMap' = [q \in reserved \ {r} |-> m_reserveMap[q]]
    BY <1>1, <1>5 DEF Mapped, Pages!Erased, Pages!Restrict
  <2>2. /\ DOMAIN m_reserveMap' = reserved'
        /\ \A q \in reserved' : m_reserveMap'[q] = Cardinality(PagesIn(q)')
    BY <1>1, <1>5, <1>9, <2>1 DEF Mapped
  <2>3. QED
    BY <1>9, <2>2 DEF Mapped
<1>11. Frontier'
  <2>1. ASSUME NEW s \in Pages!Sizes, Going(s)'
        PROVE  /\ Going(s) /\ Goal(s)' = Goal(s) /\ m_addr[s] <= m_addr'[s]
               /\ Goal(s) \in reserved'
    <3>1. (Going(s)' <=> m_addr'[s] % GRANULARITY # 0) /\ Goal(s)' = Pages!RegionOf(m_addr'[s])
      BY DEF Going, Goal, Pages!RegionOf
    <3>2. m_addr'[s] = m_addr[s] /\ Pages!RegionOf(m_addr[s]) # r /\ m_addr'[s] \in Nat
      BY <1>7, <2>1, <3>1
    <3>3. QED
      BY <1>1, <1>5, <2>1, <3>1, <3>2 DEF Going, Goal, Frontier
  <2>2. ASSUME m_addr'[HALF_PAGE] % PAGE_SIZE # 0
        PROVE  Pages!PageOf(m_addr'[HALF_PAGE]) \in committed'
    <3>1. m_addr'[HALF_PAGE] = m_addr[HALF_PAGE] /\ Pages!PageOf(m_addr[HALF_PAGE]) # c
      BY <1>7, <2>2, SizesOf
    <3>2. QED
      BY <1>1, <1>6, <2>2, <3>1 DEF Frontier
  <2>3. committed' \subseteq committed
    BY <1>6
  <2>4. QED
    BY <1>8, <2>1, <2>2, <2>3, PointersKept
<1>12. QED
  BY <1>9, <1>10, <1>11 DEF PagesInv

\* Stop frees the last buffer.
LEMMA StopKeeps ==
    ASSUME PagesInv, Pages!Stop
    PROVE  PagesInv'
<1>1. PICK n, c : n = Len(buffers) /\ c = PageAt(n)
  OBVIOUS
<1>2. c = Pages!PageOf(Pages!Last(buffers).addr)
  BY <1>1 DEF PageAt, Pages!Last
<1>3. /\ Len(buffers) > 1 /\ buffers' = Pages!Front(buffers) /\ wanted' = wanted
      /\ Pages!FreeShared(c) \/ Pages!FreePage(c) \/ Pages!FreeRegion(c)
  BY <1>2 DEF Pages!Stop
<1>4. CASE Pages!FreeShared(c)
  BY <1>1, <1>3, <1>4, FreeSharedKeeps
<1>5. CASE Pages!FreePage(c)
  BY <1>1, <1>3, <1>5, FreePageKeeps
<1>6. CASE Pages!FreeRegion(c)
  BY <1>1, <1>3, <1>6, FreeRegionKeeps
<1>7. QED
  BY <1>3, <1>4, <1>5, <1>6

-----------------------------------------------------------------------------
(* The pages of a behaviour *)

\* Buffers, pages, regions and pointers are untouched.
LEMMA PagesKept ==
    ASSUME PagesInv, UNCHANGED <<m_addr, m_reserveMap, m_commitMap, reserved, committed, buffers>>,
           wanted' \in Seq(Pages!Sizes)
    PROVE  PagesInv'
<1>1. /\ \A x : InPage(x)' = InPage(x) /\ PagesIn(x)' = PagesIn(x)
      /\ \A i \in DOMAIN buffers :
           PageAt(i)' = PageAt(i) /\ RegionAt(i)' = RegionAt(i) /\ End(i)' = End(i)
      /\ \A s \in Pages!Sizes : (Going(s)' <=> Going(s)) /\ Goal(s)' = Goal(s)
  BY DEF InPage, PagesIn, PageAt, RegionAt, End, Going, Goal, Pages!RegionOf, Pages!PageOf
<1>2. PagesTyped'
  BY DEF PagesInv, PagesTyped, Pages!Sizes, Pages!Regions
<1>3. Mapped'
  BY <1>1 DEF PagesInv, Mapped
<1>4. Held'
  BY <1>1 DEF PagesInv, Held, Pages!RegionOf
<1>5. Ascending'
  BY <1>1 DEF PagesInv, Ascending
<1>6. Frontier'
  <2>1. ASSUME NEW s \in Pages!Sizes, Going(s)', NEW x, x = Goal(s)'
        PROVE  x \in reserved' /\ Behind(s, x)'
    BY <1>1, <2>1 DEF PagesInv, Frontier, Behind
  <2>2. ASSUME NEW s1 \in Pages!Sizes, NEW s2 \in Pages!Sizes, Going(s1)', Going(s2)', s1 # s2
        PROVE  Goal(s1)' # Goal(s2)'
    BY <1>1, <2>2 DEF PagesInv, Frontier
  <2>3. (m_addr[HALF_PAGE] % PAGE_SIZE # 0 => Pages!PageOf(m_addr[HALF_PAGE]) \in committed)'
    BY DEF PagesInv, Frontier, Pages!PageOf
  <2>4. Pages!Sizes' = Pages!Sizes
    BY DEF Pages!Sizes
  <2>5. QED
    BY <2>1, <2>2, <2>3, <2>4 DEF Frontier
<1>7. QED
  BY <1>2, <1>3, <1>4, <1>5, <1>6 DEF PagesInv

\* Start asks for two buffers for every session.
LEMMA StartKeeps ==
    ASSUME PagesInv, NEW k \in SessionCounts, Pages!Start(k)
    PROVE  PagesInv'
<1>1. wanted' = [i \in 1 .. 2 * k |-> IF i % 2 = 1 THEN PAGE_SIZE ELSE HALF_PAGE]
  BY DEF Pages!Start
<1>2. 2 * k \in Nat
  BY SizesOf
<1>3. wanted' \in Seq(Pages!Sizes)
  <2>1. ASSUME NEW V, NEW m \in Nat, NEW f \in [1 .. m -> V] PROVE f \in Seq(V)
    OBVIOUS
  <2>2. wanted' \in [1 .. 2 * k -> Pages!Sizes]
    BY <1>1, SizesOf
  <2>3. QED
    BY <1>2, <2>1, <2>2
<1>4. QED
  BY <1>3, PagesKept DEF Pages!Start

\* No buffer, page or region yet.
LEMMA PagesInit ==
    ASSUME Pages!Init
    PROVE  PagesInv
<1> USE DEF Pages!Init
<1>1. PagesTyped
  <2>1. \A k \in Nat \ {0} : 0 % k = 0
    <3>1. \A k \in Nat \ {0} : 0 = k * 0
      OBVIOUS
    <3>2. QED
      BY <3>1, 0 \in Nat, Multiples
  <2>2. m_addr \in [Pages!Sizes -> Nat] /\ \A s \in Pages!Sizes : m_addr[s] % s = 0
    BY <2>1, SizesOf DEF Pages!nullptr
  <2>3. buffers \in Seq([addr : Nat, size : Pages!Sizes]) /\ DOMAIN buffers = {}
    OBVIOUS
  <2>4. wanted \in Seq(Pages!Sizes)
    BY SizesOf
  <2>5. IsFiniteSet(committed)
    BY FS_EmptySet
  <2>6. QED
    BY <2>2, <2>3, <2>4, <2>5 DEF PagesTyped
<1>2. DOMAIN buffers = {}
  OBVIOUS
<1>3. Mapped
  BY DEF Mapped
<1>4. Held /\ Ascending
  BY <1>2 DEF Held, Ascending
<1>5. \A s \in Pages!Sizes : ~Going(s)
  <2>1. 0 % GRANULARITY = 0
    BY SizesOf, 0 = GRANULARITY * 0, 0 \in Nat, Multiples
  <2>2. QED
    BY <2>1 DEF Going, Pages!nullptr
<1>6. m_addr[HALF_PAGE] % PAGE_SIZE = 0
  BY SizesOf, 0 = PAGE_SIZE * 0, 0 \in Nat, Multiples DEF Pages!nullptr
<1>7. Frontier
  BY <1>5, <1>6 DEF Frontier
<1>8. QED
  BY <1>1, <1>3, <1>4, <1>7 DEF PagesInv

\* Of the ring buffers' memory: the maps count what there is, the buffers of a region
\* ascend, and a pointer that goes on does so behind everything in its region.
THEOREM PagesInvariant == Spec => []PagesInv
<1>1. Init => PagesInv
  BY PagesInit DEF Init
<1>2. PagesInv /\ [Next]_vars => PagesInv'
  <2>1. SUFFICES ASSUME PagesInv, [Next]_vars PROVE PagesInv'
    OBVIOUS
  <2>2. CASE Pages!Next
    BY <2>1, <2>2, AllocKeeps, StopKeeps, StartKeeps DEF Pages!Next
  <2>3. CASE UNCHANGED pageVars
    <3>1. wanted' \in Seq(Pages!Sizes)
      BY <2>1, <2>3 DEF pageVars, PagesInv, PagesTyped
    <3>2. QED
      BY <2>1, <2>3, <3>1, PagesKept DEF pageVars
  <2>4. QED
    BY <2>1, <2>2, <2>3 DEF Next, vars
<1>3. QED
  BY <1>1, <1>2, PTL DEF Spec

\* However many sessions each Start has, and however often Stop frees them: no two
\* buffers share a byte, each lies in a committed page, and the maps count the buffers
\* of every page and the pages of every region.
THEOREM BuffersAreInOnePlace == Spec => []BuffersInOnePlace
<1>1. PagesInv => BuffersInOnePlace
  <2>1. SUFFICES ASSUME PagesInv PROVE Pages!BuffersApart
    BY DEF BuffersInOnePlace
  <2>2. PagesTyped /\ Mapped /\ Held /\ Ascending
    BY <2>1 DEF PagesInv
  <2>3. ASSUME NEW i \in DOMAIN buffers, NEW j \in DOMAIN buffers, RegionAt(i) < RegionAt(j)
        PROVE  End(i) <= buffers[j].addr
    <3>1. /\ End(i) <= PageAt(i) + PAGE_SIZE /\ PageAt(i) + PAGE_SIZE <= RegionAt(i) + GRANULARITY
          /\ RegionAt(j) <= PageAt(j) /\ PageAt(j) <= buffers[j].addr
          /\ End(i) \in Nat /\ PageAt(i) \in Nat /\ RegionAt(i) \in Nat /\ RegionAt(j) \in Nat
          /\ PageAt(j) \in Nat /\ buffers[j].addr \in Nat
          /\ RegionAt(i) % GRANULARITY = 0 /\ RegionAt(j) % GRANULARITY = 0
      BY <2>2, BufferFacts
    <3>2. RegionAt(i) + GRANULARITY <= RegionAt(j)
      BY <2>3, <3>1, SizesOf, MultiplesApart
    <3>3. PAGE_SIZE \in Nat /\ GRANULARITY \in Nat
      BY SizesOf
    <3>4. QED
      BY <3>1, <3>2, <3>3
  <2>4. ASSUME NEW i \in DOMAIN buffers, NEW j \in DOMAIN buffers, i # j
        PROVE  End(i) <= buffers[j].addr \/ End(j) <= buffers[i].addr
    <3>1. i \in Nat /\ j \in Nat /\ RegionAt(i) \in Nat /\ RegionAt(j) \in Nat
      <4>1. buffers \in Seq([addr : Nat, size : Pages!Sizes])
        BY <2>2 DEF PagesTyped
      <4>2. i \in Nat /\ j \in Nat
        BY <4>1
      <4>3. RegionAt(i) \in Nat /\ RegionAt(j) \in Nat
        BY <2>2, BufferFacts
      <4>4. QED
        BY <4>2, <4>3
    <3>2. CASE RegionAt(i) = RegionAt(j)
      BY <2>2, <2>4, <3>1, <3>2 DEF Ascending
    <3>3. CASE RegionAt(i) # RegionAt(j)
      BY <2>3, <3>1, <3>3
    <3>4. QED
      BY <3>2, <3>3
  <2>5. \A p \in committed : InPage(p) = Pages!BuffersIn(p, PAGE_SIZE)
    <3>1. ASSUME NEW p \in committed, NEW i \in DOMAIN buffers
          PROVE  PageAt(i) = p <=> Pages!Inside(buffers[i].addr, p, PAGE_SIZE)
      <4>1. p \in Nat /\ p % PAGE_SIZE = 0 /\ buffers[i].addr \in Nat
        BY <2>2, BufferFacts DEF PagesTyped
      <4>2. QED
        BY <4>1, Addresses, PageIs DEF PageAt, Pages!Inside
    <3>2. QED
      BY <3>1 DEF InPage, Pages!BuffersIn
  <2>6. \A i \in DOMAIN buffers : Pages!PageOf(buffers[i].addr) \in committed
    BY <2>2 DEF Held, PageAt
  <2>7. \A p \in committed : m_commitMap[p] = Cardinality(Pages!BuffersIn(p, PAGE_SIZE))
    BY <2>2, <2>5 DEF Mapped
  <2>8. \A i, j \in DOMAIN buffers : i # j =>
           \/ buffers[i].addr + buffers[i].size <= buffers[j].addr
           \/ buffers[j].addr + buffers[j].size <= buffers[i].addr
    BY <2>4 DEF End
  <2>9. \A r \in reserved :
           m_reserveMap[r] = Cardinality({p \in committed : Pages!RegionOf(p) = r})
    BY <2>2 DEF Mapped, PagesIn
  <2>10. DOMAIN m_commitMap = committed /\ DOMAIN m_reserveMap = reserved
    BY <2>2 DEF Mapped
  <2>11. ASSUME NEW S PROVE Pages!Cardinality(S) = Cardinality(S)
    BY DEF Pages!Cardinality, Cardinality
  <2>12. QED
    BY <2>6, <2>7, <2>8, <2>9, <2>10, <2>11 DEF Pages!BuffersApart
<1>2. QED
  BY <1>1, PagesInvariant, PTL
=============================================================================
