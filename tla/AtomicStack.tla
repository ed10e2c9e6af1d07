----------------------------- MODULE AtomicStack -----------------------------
(***************************************************************************)
(* What LockFreeStack promises its callers: Push and Pop take effect at    *)
(* one instant each, the last value pushed is the first popped, and every  *)
(* pushed value is popped by at most one caller.                           *)
(***************************************************************************)
EXTENDS Naturals, Sequences

CONSTANTS
  Thread,   \* the threads that call the stack
  Value,    \* what is stacked
  None,     \* no result is waiting for this thread
  Empty,    \* the result of a Pop that found nothing
  Pushed    \* the result of a Push

VARIABLES
  stack,    \* the values, the top first
  result    \* what each thread's call will return

vars == <<stack, result>>

Init == /\ stack = <<>>
        /\ result = [t \in Thread |-> None]

Push(t) == /\ result[t] = None
           /\ result' = [result EXCEPT ![t] = Pushed]
           /\ \E x \in Value : stack' = <<x>> \o stack

Pop(t) == /\ result[t] = None
          /\ stack # <<>>
          /\ result' = [result EXCEPT ![t] = Head(stack)]
          /\ stack' = Tail(stack)

PopEmpty(t) == /\ result[t] = None
               /\ result' = [result EXCEPT ![t] = Empty]
               /\ stack = <<>>
               /\ UNCHANGED stack

Return(t) == /\ result[t] # None
             /\ result' = [result EXCEPT ![t] = None]
             /\ UNCHANGED stack

Next == \E t \in Thread :
          Push(t) \/ Pop(t) \/ PopEmpty(t) \/ Return(t)

Spec == Init /\ [][Next]_vars

\* From any contents, the program having pushed something already
StepsOnly == [][Next]_vars
=============================================================================
