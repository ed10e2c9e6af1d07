----------------------------- MODULE ByteQueue -----------------------------
(***************************************************************************)
(* What a RingBuffer promises: bytes leave it in the order in which they   *)
(* came, unchanged, and it holds at most Capacity of them.                 *)
(***************************************************************************)
EXTENDS Naturals, Sequences

CONSTANTS Capacity, Byte

VARIABLE items

Init == items = <<>>

\* Bytes are appended at the end, all of them or none.
Put == /\ items' \in Seq(Byte)
       /\ Len(items') \in Len(items) + 1 .. Capacity
       /\ SubSeq(items', 1, Len(items)) = items

Take == \E n \in 1 .. Len(items) :
            items' = SubSeq(items, n + 1, Len(items))

Clear == items' = <<>>

Next == Put \/ Take \/ Clear

Spec == Init /\ [][Next]_items
=============================================================================
