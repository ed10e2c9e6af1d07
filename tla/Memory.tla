-------------------------------- MODULE Memory --------------------------------
(***************************************************************************)
(* The memory the program recycles.  LockFreeStack has two uses: the       *)
(* chunks of a MemoryPoolTls, which any thread pushes and pops, and the    *)
(* indexes of the free session slots of CNetServer (m_emptySessionStack),  *)
(* which the accept thread pops for a new session and the worker that      *)
(* releases a session pushes.  The third kind of memory are the pages of   *)
(* the ring buffers.  The three have nothing to do with one another; a     *)
(* behaviour is one of them.                                               *)
(***************************************************************************)
EXTENDS MemoryPool

CONSTANTS
  Acceptor,     \* the accept thread
  MaxSession,   \* m_maxSession, the number of session slots
  MaxSlotOps,   \* bound: pushes and pops of slots that are begun
  PAGE_SIZE, HALF_PAGE, GRANULARITY, MaxRegion, SessionCounts, MaxStarts

ASSUME UsesAssumption == /\ Acceptor \in Thread
                         /\ MaxSession \in 1..MaxNode
                         /\ MaxSlotOps \in Nat

Workers == Thread \ {Acceptor}
Slot == 1..MaxSession

VARIABLES
  use,    \* "chunks", "slots" or "buffers"
  open,   \* the slots of the sessions that live
  m_addr, m_reserveMap, m_commitMap, reserved, committed, buffers, wanted, starts

Pages == INSTANCE BufferAllocator

ASSUME PageSizes == Pages!BufferSizes

pageVars == <<m_addr, m_reserveMap, m_commitMap, reserved, committed, buffers, wanted, starts>>
vars == <<stackVars, localVars, use, open, pageVars>>

-----------------------------------------------------------------------------
(* The free slots.  Start pushes all of them, the last index first. *)

AcceptCall ==                          \* acceptThread: m_emptySessionStack->Pop
  /\ top.tag < MaxSlotOps
  /\ PopCall(Acceptor)
  /\ UNCHANGED open

AcceptSession ==                       \* the slot is the new session's
  /\ At(Acceptor, "popped")
  /\ open' = open \cup {reg[Acceptor].val}
  /\ StackReturn(Acceptor)

AcceptRefused ==                       \* no slot is free: closesocket
  /\ At(Acceptor, "empty")
  /\ StackReturn(Acceptor)
  /\ UNCHANGED open

ReleaseCall(w, i) ==                   \* releaseSession: m_emptySessionStack->Push
  /\ top.tag < MaxSlotOps
  /\ open' = open \ {i}
  /\ PushCall(w, i)

ReleaseDone(w) ==
  /\ At(w, "pushed")
  /\ StackReturn(w)
  /\ UNCHANGED open

SlotNext ==
  \/ AcceptCall \/ AcceptSession \/ AcceptRefused
  \/ \E w \in Workers : (\E i \in open : ReleaseCall(w, i)) \/ ReleaseDone(w)
  \/ \E t \in Thread : StackStep(t) /\ UNCHANGED open

-----------------------------------------------------------------------------
Init ==
  /\ use \in {"chunks", "slots", "buffers"}
  /\ open = {}
  /\ PoolInit
  /\ Pages!Init
  /\ StackInit(IF use = "slots" THEN MaxSession ELSE 0, [i \in Node |-> i])

Next ==
  \/ /\ use = "chunks"
     /\ \E w \in Workers : PoolNext(w)
     /\ UNCHANGED <<use, open, pageVars>>
  \/ /\ use = "slots"
     /\ SlotNext
     /\ UNCHANGED <<use, localVars, pageVars>>
  \/ /\ use = "buffers"
     /\ Pages!Next
     /\ UNCHANGED <<use, open, stackVars, localVars>>

Spec == Init /\ [][Next]_vars

-----------------------------------------------------------------------------
\* Every packet allocated is in exactly one place: see ObjectsApart.
ObjectsInOnePlace == use = "chunks" => ObjectsApart

\* Every slot is in exactly one place: its session lives, a worker is about to
\* push it, or it is on the stack or in the hands of the accept thread.  A slot
\* in two places would be given to two sessions at once; one in none is lost to
\* the server for good.
BeingPushed ==
  {reg[t].val : t \in {u \in Workers : pc[u] \in {"poolAlloc", "poolAllocNext", "poolAllocSwap"}}}
    \cup {data[reg[t].node] : t \in {u \in Workers : pc[u] \in {"pushRead", "pushSwap"}}}
SlotsInOnePlace ==
  use = "slots" =>
    /\ open \cup BeingPushed \cup StackedValues = Slot
    /\ Cardinality(open) + Cardinality(BeingPushed) + Cardinality(StackedValues) = MaxSession

\* The buffers of sessions and of the client lie apart, in committed pages: see
\* BuffersApart of BufferAllocator.
BuffersInOnePlace == Pages!BuffersApart

\* Nodes recycled through LockFreePool, and next pointers read from nodes other
\* threads may have taken meanwhile, do not show: the stack pops the value
\* pushed last, to one caller, and finds nothing only when it is empty.
Stack == INSTANCE AtomicStack WITH
           Value <- Obj \cup Slot,
           None <- NoResult, Empty <- NothingFound, Pushed <- HasPushed,
           stack <- [i \in DOMAIN Stacked |-> data[Stacked[i]]],
           result <- [t \in Thread |-> Outcome(t)]
ImplementsStack == Stack!StepsOnly
=============================================================================
