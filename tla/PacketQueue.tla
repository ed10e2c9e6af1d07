---------------------------- MODULE PacketQueue ----------------------------
(***************************************************************************)
(* What LockFreeQueue promises its callers.  It is not a queue in the      *)
(* order of the calls: an enqueuer that took a node and has not linked it  *)
(* may find others linking theirs behind it, and all of them come into the *)
(* line when it links its own.  The values in line leave it at the front.  *)
(* Values are numbered in the order in which the enqueuers took a node.    *)
(***************************************************************************)
EXTENDS Naturals, Sequences

CONSTANT Producers

VARIABLES made,     \* number of values that got a node
          chain,    \* of a producer: its value, while it is not linked, and those behind
          line,     \* the values a Dequeue can reach, the next one first
          taken     \* the values dequeued

vars == <<made, chain, line, taken>>

Init == /\ made = 0
        /\ chain = [p \in Producers |-> <<>>]
        /\ line = <<>>
        /\ taken = {}

Take(p) == /\ made' = made + 1
           /\ chain[p] = <<>>
           /\ chain' = [chain EXCEPT ![p] = <<made + 1>>]
           /\ UNCHANGED line

\* The value and what was linked behind it come into the line.
LinkLast(p) == /\ UNCHANGED made
               /\ chain[p] # <<>>
               /\ chain' = [chain EXCEPT ![p] = <<>>]
               /\ line' = line \o chain[p]

\* They come behind a value that is not in line: its node was the tail once, was
\* dequeued, and was taken again after p had taken its own.
LinkBehind(p, q) == /\ chain[p] # <<>> /\ chain[q] # <<>>
                    /\ Head(chain[p]) < Head(chain[q])
                    /\ chain' = [chain EXCEPT ![q] = @ \o chain[p], ![p] = <<>>]
                    /\ UNCHANGED <<made, line>>

Remove == /\ line # <<>>
          /\ line' = Tail(line)
          /\ UNCHANGED <<made, chain>>

Next == \/ UNCHANGED taken /\ \E p \in Producers : Take(p) \/ LinkLast(p)
        \/ UNCHANGED taken /\ \E p, q \in Producers : LinkBehind(p, q)
        \/ Remove /\ taken' = taken \cup {Head(line)}

Spec == Init /\ [][Next]_vars
=============================================================================
