---------------------------- MODULE LockFreeStack ----------------------------
(***************************************************************************)
(* LockFreeStack<T> and the LockFreePool its nodes come from: two stacks   *)
(* linked through the same nodes, each with a top pointer that carries a   *)
(* tag in its upper 17 bits.  Every compare-and-swap raises the tag, so    *)
(* that a node popped and pushed again between the read of the top and the *)
(* swap is noticed.  One step is one access to shared memory.              *)
(***************************************************************************)
EXTENDS Naturals, Integers, Sequences, FiniteSets

CONSTANTS
  Thread,    \* the threads that call the stack
  MaxNode    \* bound: nodes _aligned_malloc hands out

ASSUME StackAssumption == MaxNode \in Nat

Node  == 1..MaxNode   \* the nodes, numbered as they are allocated
Nil   == 0            \* nullptr
Junk  == -1           \* memory nobody has written yet

\* What a call returns besides a value
NoResult == -2
NothingFound == -3
HasPushed == -4

VARIABLES
  top,        \* LockFreeStack::_top
  next,       \* Node::next
  data,       \* Node::data
  size,       \* LockFreeStack::_size
  poolTop,    \* LockFreePool::top
  poolNext,   \* BLOCK_NODE::next
  capacity,   \* LockFreePool::_capacity, the nodes allocated so far
  pc,         \* where each thread is inside Push or Pop
  reg         \* the locals of that call

stackVars == <<top, next, data, size, poolTop, poolNext, capacity, pc, reg>>

NoReg == [old |-> [addr |-> Nil, tag |-> 0], after |-> Nil, node |-> Nil, val |-> Nil]

\* LockFreePool(n): the node allocated i-th links to the one allocated before it.
PooledNodes(n) == [i \in Node |-> IF i > n THEN Junk ELSE i - 1]

\* LockFreeStack(n, freeList = true) after n pushes, or after none: node i,
\* allocated i-th and taken n+1-i-th, holds value v[i] and links to the next.
StackInit(n, v) ==
  /\ top = [addr |-> IF n = 0 THEN Nil ELSE 1, tag |-> n]
  /\ next = [i \in Node |-> IF i < n THEN i + 1 ELSE IF i = n THEN Nil ELSE Junk]
  /\ data = [i \in Node |-> IF i <= n THEN v[i] ELSE Junk]
  /\ size = n
  /\ poolTop = [addr |-> Nil, tag |-> n]
  /\ poolNext = PooledNodes(n)
  /\ capacity = n
  /\ pc = [t \in Thread |-> "idle"]
  /\ reg = [t \in Thread |-> NoReg]

At(t, label) == pc[t] = label
Goto(t, label) == pc' = [pc EXCEPT ![t] = label]

\* The pointer a compare-and-swap installs, and the swap itself: it succeeds
\* only if pointer and tag are still the ones read.
Retag(addr, old) == [addr |-> addr, tag |-> old.tag + 1]

Same_Address(pointer, old) == pointer.addr = old.addr            \* mutant: no tag
Same(pointer, old) == pointer = old

-----------------------------------------------------------------------------
(* LockFreePool::Alloc *)

PoolAllocRead(t) ==                    \* old_top = top
  /\ At(t, "poolAlloc")
  /\ poolTop.addr # Nil
  /\ reg' = [reg EXCEPT ![t].old = poolTop]
  /\ Goto(t, "poolAllocNext")
  /\ UNCHANGED <<top, next, data, size, poolTop, poolNext, capacity>>

PoolAllocNew(t) ==                     \* the pool is empty: _aligned_malloc
  /\ At(t, "poolAlloc")
  /\ poolTop.addr = Nil
  /\ capacity < MaxNode
  /\ capacity' = capacity + 1
  /\ poolNext' = [poolNext EXCEPT ![capacity'] = Nil]
  /\ data' = [data EXCEPT ![capacity'] = reg[t].val]
  /\ reg' = [reg EXCEPT ![t].node = capacity']
  /\ Goto(t, "pushRead")
  /\ UNCHANGED <<top, next, size, poolTop>>

PoolAllocNext(t) ==                    \* next = old_top_addr->next, unprotected
  /\ At(t, "poolAllocNext")
  /\ reg' = [reg EXCEPT ![t].after = poolNext[reg[t].old.addr]]
  /\ Goto(t, "poolAllocSwap")
  /\ UNCHANGED <<top, next, data, size, poolTop, poolNext, capacity>>

\* The swap of LockFreePool::Alloc, and node->data = data in Push after it
PoolAllocSwap(t) ==
  /\ At(t, "poolAllocSwap")
  /\ IF Same(poolTop, reg[t].old)
       THEN /\ poolTop' = Retag(reg[t].after, reg[t].old)
            /\ data' = [data EXCEPT ![reg[t].old.addr] = reg[t].val]
            /\ reg' = [reg EXCEPT ![t] = [NoReg EXCEPT !.node = reg[t].old.addr,
                                                        !.val = reg[t].val]]
            /\ Goto(t, "pushRead")
       ELSE /\ Goto(t, "poolAlloc")
            /\ reg' = [reg EXCEPT ![t] = [NoReg EXCEPT !.val = reg[t].val]]
            /\ UNCHANGED <<poolTop, data>>
  /\ UNCHANGED <<top, next, size, poolNext, capacity>>

-----------------------------------------------------------------------------
(* LockFreeStack::Push *)

PushCall(t, x) ==
  /\ At(t, "idle")
  /\ reg' = [reg EXCEPT ![t].val = x]
  /\ Goto(t, "poolAlloc")
  /\ UNCHANGED <<top, next, data, size, poolTop, poolNext, capacity>>

PushRead(t) ==                         \* old_top = _top, node->next = old_top_addr
  /\ At(t, "pushRead")
  /\ reg' = [reg EXCEPT ![t].old = top]
  /\ next' = [next EXCEPT ![reg[t].node] = top.addr]
  /\ Goto(t, "pushSwap")
  /\ UNCHANGED <<top, data, size, poolTop, poolNext, capacity>>

\* The loop begins again: old_top and node->next are read and set anew.
PushAgain_NoRelink(t) ==                                     \* mutant: node->next is not
  /\ UNCHANGED pc
  /\ reg' = [reg EXCEPT ![t].old = top]
PushAgain(t) ==
  /\ Goto(t, "pushRead")
  /\ reg' = [reg EXCEPT ![t].old = NoReg.old]

PushSwap(t) ==
  /\ At(t, "pushSwap")
  /\ IF Same(top, reg[t].old)
       THEN /\ top' = Retag(reg[t].node, reg[t].old)
            /\ reg' = [reg EXCEPT ![t] = NoReg]
            /\ size' = size + 1
            /\ Goto(t, "pushed")
       ELSE PushAgain(t) /\ UNCHANGED <<top, size>>
  /\ UNCHANGED <<next, data, poolTop, poolNext, capacity>>

-----------------------------------------------------------------------------
(* LockFreeStack::Pop *)

PopCall(t) ==
  /\ At(t, "idle")
  /\ Goto(t, "popRead")
  /\ UNCHANGED <<top, next, data, size, poolTop, poolNext, capacity, reg>>

PopRead(t) ==                          \* old_top = _top
  /\ At(t, "popRead")
  /\ reg' = [reg EXCEPT ![t].old = top]
  /\ Goto(t, IF top.addr = Nil THEN "empty" ELSE "popNext")
  /\ UNCHANGED <<top, next, data, size, poolTop, poolNext, capacity>>

PopNext(t) ==                          \* next = old_top_addr->next, unprotected
  /\ At(t, "popNext")
  /\ reg' = [reg EXCEPT ![t].after = next[reg[t].old.addr]]
  /\ Goto(t, "popSwap")
  /\ UNCHANGED <<top, next, data, size, poolTop, poolNext, capacity>>

PopSwap(t) ==
  /\ At(t, "popSwap")
  /\ IF Same(top, reg[t].old)
       THEN /\ top' = Retag(reg[t].after, reg[t].old)
            /\ size' = size - 1
            /\ reg' = [reg EXCEPT ![t] = [NoReg EXCEPT !.node = reg[t].old.addr,
                                                        !.val = data[reg[t].old.addr]]]
            /\ Goto(t, "freeRead")
       ELSE /\ Goto(t, "popRead")
            /\ reg' = [reg EXCEPT ![t] = NoReg]
            /\ UNCHANGED <<top, size>>
  /\ UNCHANGED <<next, data, poolTop, poolNext, capacity>>

(* LockFreePool::Free of the popped node *)

FreeRead(t) ==                         \* old_top = top, node->next = old_top_addr
  /\ At(t, "freeRead")
  /\ reg' = [reg EXCEPT ![t].old = poolTop]
  /\ poolNext' = [poolNext EXCEPT ![reg[t].node] = poolTop.addr]
  /\ Goto(t, "freeSwap")
  /\ UNCHANGED <<top, next, data, size, poolTop, capacity>>

FreeSwap(t) ==
  /\ At(t, "freeSwap")
  /\ IF Same(poolTop, reg[t].old)
       THEN /\ poolTop' = Retag(reg[t].node, reg[t].old)
            /\ reg' = [reg EXCEPT ![t] = [NoReg EXCEPT !.val = reg[t].val]]
            /\ Goto(t, "popped")
       ELSE /\ Goto(t, "freeRead")
            /\ reg' = [reg EXCEPT ![t].old = NoReg.old]
            /\ UNCHANGED poolTop
  /\ UNCHANGED <<top, next, data, size, poolNext, capacity>>

StackStep(t) ==
  \/ PoolAllocRead(t) \/ PoolAllocNew(t) \/ PoolAllocNext(t) \/ PoolAllocSwap(t)
  \/ PushRead(t) \/ PushSwap(t)
  \/ PopRead(t) \/ PopNext(t) \/ PopSwap(t)
  \/ FreeRead(t) \/ FreeSwap(t)

\* The call of t returns to its caller.
StackReturn(t) ==
  /\ pc[t] \in {"pushed", "popped", "empty"}
  /\ Goto(t, "idle")
  /\ reg' = [reg EXCEPT ![t] = NoReg]
  /\ UNCHANGED <<top, next, data, size, poolTop, poolNext, capacity>>

-----------------------------------------------------------------------------
(* LockFreeStack implements the atomic stack. *)

\* The nodes from n on, along the links f, at most k of them.
Walk(f, n, k) ==
  LET at[i \in 1..k] ==
        IF i = 1 THEN n
        ELSE LET m == at[i - 1] IN IF m \in {Nil, Junk} THEN Nil ELSE f[m]
  IN  [i \in 1..Cardinality({j \in 1..k : at[j] \notin {Nil, Junk}}) |-> at[i]]

\* The nodes stacked, the top first.
Stacked == Walk(next, top.addr, MaxNode)

\* What the call of t will return: a push or a pop has taken effect once its
\* swap has succeeded, a pop that found nothing once it has read the top.
Outcome(t) ==
  CASE pc[t] = "pushed" -> HasPushed
    [] pc[t] = "empty" -> NothingFound
    [] pc[t] \in {"freeRead", "freeSwap", "popped"} -> reg[t].val
    [] OTHER -> NoResult

\* The values on the stack, and those a Pop has taken off and not returned yet.
StackedValues ==
  {data[Stacked[i]] : i \in DOMAIN Stacked}
    \cup {reg[t].val : t \in {u \in Thread : pc[u] \in {"freeRead", "freeSwap", "popped"}}}
=============================================================================
