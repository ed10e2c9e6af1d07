--------------------------- MODULE PacketChannel ---------------------------
(***************************************************************************)
(* What SendPacket promises for one session.  A packet it accepted comes   *)
(* into line once, at a time of the queue's own (PacketQueue): after the   *)
(* packets that are in line, which need not be those accepted earlier.     *)
(* The packets reach the socket once each and in the order of the line,    *)
(* with none left out.  They are numbered in the order of acceptance.      *)
(***************************************************************************)
EXTENDS Naturals, Sequences

VARIABLES accepted,     \* number of packets SendPacket took
          order,        \* the packets that came into line, in that order
          delivered,    \* the packets handed to the socket
          broken        \* the session is disconnected

vars == <<accepted, order, delivered, broken>>

Init == accepted = 0 /\ order = <<>> /\ delivered = <<>> /\ broken = 0

IsPrefix(s, r) == Len(s) <= Len(r) /\ \A i \in 1 .. Len(s) : r[i] = s[i]

Accept == /\ accepted' = accepted + 1
          /\ UNCHANGED <<order, delivered, broken>>

\* Accepted packets come into line behind the others, none of them twice.
Join == /\ order' # order /\ IsPrefix(order, order')
        /\ \A i \in 1 .. Len(order') : order'[i] \in 1 .. accepted
        /\ \A i, j \in 1 .. Len(order') : order'[i] = order'[j] => i = j
        /\ UNCHANGED <<accepted, delivered, broken>>

\* One WSASend takes any number of the packets that are next in line.
Deliver == /\ delivered' # delivered /\ IsPrefix(delivered, delivered')
           /\ IsPrefix(delivered', order)
           /\ UNCHANGED <<accepted, order, broken>>

Break == broken' = 1 /\ UNCHANGED <<accepted, order, delivered>>

Next == Accept \/ Join \/ Deliver \/ Break

Spec == Init /\ [][Next]_vars
=============================================================================
