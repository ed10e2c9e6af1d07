------------------------------ MODULE MemoryPool ------------------------------
(***************************************************************************)
(* MemoryPoolTls<DATA>, the pool of packets, users and log entries.  Each  *)
(* thread keeps two lists of at most default_size objects and takes from   *)
(* and gives back to them without synchronisation.  When both are full the *)
(* second one goes to a LockFreeStack of chunks that all threads share;    *)
(* when both are empty a chunk comes back from there, or is allocated.     *)
(* Only the first node of a chunk is passed: that it heads a list of       *)
(* default_size nodes is taken for granted by the thread that pops it.     *)
(***************************************************************************)
EXTENDS LockFreeStack, FiniteSetsExt

CONSTANTS
  ChunkSize,   \* default_size
  MaxChunkOps, \* bound: pushes and pops of chunks that are begun
  MaxObj,      \* bound: objects allocated from the heap
  MaxOut       \* bound: objects in use at one time

ASSUME PoolAssumption == /\ ChunkSize \in Nat \ {0}
                         /\ {MaxChunkOps, MaxObj} \subseteq Nat
                         /\ MaxOut \in Nat
                         /\ IsFiniteSet(Thread)

Obj == 1..MaxObj   \* the objects, numbered as they are allocated

VARIABLES
  attached,    \* the threads whose THREAD_DATA exists
  pool,        \* THREAD_DATA::pool, the first list: its top and size
  chunk,       \* THREAD_DATA::chunk, the second list
  link,        \* BLOCK_NODE::next
  allocSize,   \* alloc_size, the objects allocated so far
  useSize,     \* use_size
  out,         \* the objects in use
  freeing      \* the object of a Free that is pushing a chunk

localVars == <<attached, pool, chunk, link, allocSize, useSize, out, freeing>>

PoolInit ==
  /\ attached = {}
  /\ pool = [t \in Thread |-> [top |-> Junk, size |-> 0]]
  /\ chunk = [t \in Thread |-> [top |-> Junk, size |-> 0]]
  /\ link = [o \in Obj |-> Junk]
  /\ allocSize = 0
  /\ useSize = 0
  /\ out = {}
  /\ freeing = [t \in Thread |-> Nil]

\* POOL::Generate: default_size new nodes on the list l, whose old top,
\* never written when the list is new, ends under the last of them.
Generated(l) == [top |-> allocSize + ChunkSize, size |-> ChunkSize]
LinkGenerated(l) ==
  [o \in Obj |-> IF o \in (allocSize + 1)..(allocSize + ChunkSize)
                   THEN IF o = allocSize + 1 THEN l.top ELSE o - 1
                   ELSE link[o]]
RoomToGenerate == allocSize + ChunkSize <= MaxObj   \* bound

\* POOL::Alloc and POOL::Free on the list l
Taken(l) == [top |-> link[l.top], size |-> l.size - 1]
Put(l, o) == [top |-> o, size |-> l.size + 1]

\* POOL::Clear of a list that was pushed as a chunk
Cleared_Not(l) == l                      \* mutant: the call is forgotten
Cleared(l) == [top |-> Nil, size |-> 0]

\* The object is handed to the caller, which alone knows it from now on.
HandOut(o) == /\ out' = out \cup {o}
              /\ useSize' = useSize + 1

-----------------------------------------------------------------------------
(* The first call of a thread: THREAD_DATA is made, with a full first list *)
(* and an empty second one.                                                *)
Attach(t) ==
  /\ At(t, "idle")
  /\ t \notin attached
  /\ RoomToGenerate
  /\ attached' = attached \cup {t}
  /\ link' = LinkGenerated(pool[t])
  /\ pool' = [pool EXCEPT ![t] = Generated(pool[t])]
  /\ allocSize' = allocSize + ChunkSize
  /\ UNCHANGED <<stackVars, chunk, useSize, out, freeing>>

(* MemoryPoolTls::Alloc *)
CanAlloc(t) == /\ At(t, "idle")
               /\ t \in attached
               /\ Cardinality(out) < MaxOut

AllocFromChunk(t) ==
  /\ CanAlloc(t)
  /\ chunk[t].size # 0
  /\ HandOut(chunk[t].top)
  /\ chunk' = [chunk EXCEPT ![t] = Taken(chunk[t])]
  /\ UNCHANGED <<stackVars, attached, pool, link, allocSize, freeing>>

AllocFromPool(t) ==
  /\ CanAlloc(t)
  /\ chunk[t].size = 0 /\ pool[t].size # 0
  /\ HandOut(pool[t].top)
  /\ pool' = [pool EXCEPT ![t] = Taken(pool[t])]
  /\ UNCHANGED <<stackVars, attached, chunk, link, allocSize, freeing>>

AllocShared(t) ==                      \* both lists are empty: chunk_pool.Pop
  /\ CanAlloc(t)
  /\ top.tag < MaxChunkOps
  /\ chunk[t].size = 0 /\ pool[t].size = 0
  /\ PopCall(t)
  /\ UNCHANGED localVars

AllocPopped(t) ==                      \* the popped chunk becomes the first list
  /\ At(t, "popped")
  /\ LET l == [top |-> reg[t].val, size |-> ChunkSize]
     IN  /\ pool' = [pool EXCEPT ![t] = Taken(l)]
         /\ HandOut(l.top)
  /\ StackReturn(t)
  /\ UNCHANGED <<attached, chunk, link, allocSize, freeing>>

AllocGenerated(t) ==                   \* nothing is shared: GeneratePool
  /\ At(t, "empty")
  /\ RoomToGenerate
  /\ LET l == Generated(pool[t])
     IN  /\ link' = LinkGenerated(pool[t])
         /\ pool' = [pool EXCEPT ![t] = [top |-> link'[l.top], size |-> l.size - 1]]
         /\ HandOut(l.top)
  /\ allocSize' = allocSize + ChunkSize
  /\ StackReturn(t)
  /\ UNCHANGED <<attached, chunk, freeing>>

(* MemoryPoolTls::Free of an object, whichever thread allocated it.  The   *)
(* objects in use differ in nothing but their number: the least of them    *)
(* stands for whichever one is freed.                                      *)
Freed(o) == o \in out /\ \A x \in out : o <= x

Full(l) == l.size = ChunkSize

FreeToPool(t, o) ==
  /\ At(t, "idle") /\ t \in attached
  /\ ~Full(pool[t])
  /\ pool' = [pool EXCEPT ![t] = Put(pool[t], o)]
  /\ link' = [link EXCEPT ![o] = pool[t].top]
  /\ out' = out \ {o}
  /\ useSize' = useSize - 1
  /\ UNCHANGED <<stackVars, attached, chunk, allocSize, freeing>>

FreeToChunk(t, o) ==
  /\ At(t, "idle") /\ t \in attached
  /\ Full(pool[t]) /\ ~Full(chunk[t])
  /\ chunk' = [chunk EXCEPT ![t] = Put(chunk[t], o)]
  /\ link' = [link EXCEPT ![o] = chunk[t].top]
  /\ out' = out \ {o}
  /\ useSize' = useSize - 1
  /\ UNCHANGED <<stackVars, attached, pool, allocSize, freeing>>

FreeShared(t, o) ==                    \* both lists are full: chunk_pool.Push
  /\ top.tag < MaxChunkOps
  /\ t \in attached
  /\ Full(pool[t]) /\ Full(chunk[t])
  /\ freeing' = [freeing EXCEPT ![t] = o]
  /\ out' = out \ {o}
  /\ PushCall(t, chunk[t].top)
  /\ UNCHANGED <<attached, pool, chunk, link, allocSize, useSize>>

FreePushed(t) ==                       \* Clear, then the object starts a new list
  /\ At(t, "pushed")
  /\ LET o == freeing[t]
     IN  /\ chunk' = [chunk EXCEPT ![t] = Put(Cleared(chunk[t]), o)]
         /\ link' = [link EXCEPT ![o] = Cleared(chunk[t]).top]
  /\ freeing' = [freeing EXCEPT ![t] = Nil]
  /\ useSize' = useSize - 1
  /\ StackReturn(t)
  /\ UNCHANGED <<attached, pool, allocSize, out>>

-----------------------------------------------------------------------------
PoolNext(t) ==
  \/ Attach(t)
  \/ AllocFromChunk(t) \/ AllocFromPool(t) \/ AllocShared(t)
  \/ AllocPopped(t) \/ AllocGenerated(t)
  \/ \E o \in out : Freed(o) /\ (FreeToPool(t, o) \/ FreeToChunk(t, o) \/ FreeShared(t, o))
  \/ FreePushed(t)
  \/ StackStep(t) /\ UNCHANGED localVars

-----------------------------------------------------------------------------
\* The objects on the list of k nodes that starts at o
ListOf(o, k) == {Walk(link, o, k)[i] : i \in DOMAIN Walk(link, o, k)}

\* A Push has handed its chunk on once its swap has succeeded; until Clear the
\* thread still points at it.
SecondList(t) == IF pc[t] = "pushed" THEN {}
                 ELSE ListOf(chunk[t].top, chunk[t].size)

\* Every object allocated is in exactly one place: in use, on its way back, on
\* one list of one thread, or in one shared chunk of default_size objects.  An
\* object in two places would be handed to two callers, one in none is lost,
\* and a chunk that is too short would lead Alloc to an unwritten pointer.
Places ==
  [kind : {"out"}] \cup [kind : {"freeing", "pool", "chunk"}, of : Thread]
    \cup [kind : {"shared"}, of : StackedValues]
Objects(p) ==
  CASE p.kind = "out"     -> out
    [] p.kind = "freeing" -> {freeing[p.of]} \ {Nil}
    [] p.kind = "pool"    -> ListOf(pool[p.of].top, pool[p.of].size)
    [] p.kind = "chunk"   -> SecondList(p.of)
    [] p.kind = "shared"  -> ListOf(p.of, ChunkSize)
ObjectsApart ==
  /\ UNION {Objects(p) : p \in Places} = 1..allocSize
  /\ MapThenSumSet(LAMBDA p : Cardinality(Objects(p)), Places) = allocSize
=============================================================================
