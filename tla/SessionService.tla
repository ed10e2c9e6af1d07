--------------------------- MODULE SessionService ---------------------------
(***************************************************************************)
(* What CNetServer promises the application that derives from it: the      *)
(* order in which OnClientJoin, OnRecv and OnClientLeave are called for a  *)
(* session id.  ChatServer relies on it without checking it: CreateUser,   *)
(* AcquireUser and DeleteUser crash the process when it does not hold, and *)
(* a User is filled in by OnRecv without any guard against a second OnRecv *)
(* for the same id.                                                        *)
(***************************************************************************)
CONSTANTS SessionIds,   \* records with a field slot: the index part of an id
          Workers,      \* the threads that call OnRecv
          NoSession

VARIABLES known,        \* ids OnClientJoin was ever called with
          present,      \* ids OnClientJoin was called with, OnClientLeave not yet
          running       \* the id whose OnRecv a worker is in

vars == <<known, present, running>>

Init == /\ known = {}
        /\ present = {}
        /\ running = [t \in Workers |-> NoSession]

\* OnClientJoin: an id nobody has seen, on a slot no present session occupies.
Join(id) == /\ id \notin known
            /\ \A other \in present : other.slot # id.slot
            /\ known' = known \cup {id}
            /\ present' = present \cup {id}
            /\ UNCHANGED running

\* OnRecv is called: the session is present and no other OnRecv runs for it.
RecvBegin(t, id) == /\ id \in present
                    /\ running[t] = NoSession
                    /\ \A u \in Workers : running[u] # id
                    /\ running' = [running EXCEPT ![t] = id]
                    /\ UNCHANGED <<known, present>>

RecvEnd(t) == /\ running[t] # NoSession
              /\ running' = [running EXCEPT ![t] = NoSession]
              /\ UNCHANGED <<known, present>>

\* OnClientLeave: once per id, and not while OnRecv runs for it.
Leave(id) == /\ id \in present
             /\ \A t \in Workers : running[t] # id
             /\ present' = present \ {id}
             /\ UNCHANGED <<known, running>>

Next == \/ \E id \in SessionIds : Join(id) \/ Leave(id)
        \/ \E t \in Workers, id \in SessionIds : RecvBegin(t, id)
        \/ \E t \in Workers : RecvEnd(t)

Spec == Init /\ [][Next]_vars
=============================================================================
