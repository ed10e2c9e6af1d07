--------------------------- MODULE SendPathProof ---------------------------
(***************************************************************************)
(* SingleSender, for any threads, any bounds and either memory model.      *)
(*                                                                         *)
(* The argument.  The send side of a Session is a token.  It is held by a  *)
(* thread that Owns it, by a thread whose store of false is still in its   *)
(* store buffer, by a SEND_PEND packet, or by an outstanding WSASend.      *)
(* While the token exists send_post_flag reads true in memory, so that no  *)
(* InterlockedExchange can create a second one; the only step that makes   *)
(* the flag false is the one that destroys the token.                      *)
(***************************************************************************)
EXTENDS SendPath, SequenceTheorems, TLAPS

Pcs == {"idle", "enqueue", "link", "count", "pend_check", "pend_xchg", "try_clear",
        "try_size", "sp_check", "sp_xchg", "sp_size", "sp_front", "sp_dequeue",
        "sp_count", "sp_send"}

\* The consumer that is about to count a packet out has seen it counted in; the threads
\* inside Enqueue are senders.
Counting == \A t \in Threads :
    /\ pc[t] = "sp_count" => send_size > 0
    /\ pc[t] \in {"enqueue", "link"} => t \in Senders

Holds(t) == Owns(t) \/ t \in buffered

OneHolder     == \A t, u \in Threads : Holds(t) /\ Holds(u) => t = u
HolderAlone   == \A t \in Threads : Holds(t) => port["SEND_PEND"] = 0 /\ pending = 0
PendAlone     == pending = 1 => port["SEND_PEND"] = 0
OnePacket     == port["SEND_PEND"] + port["SEND"] + port["SEND0"] <= 1
DoneInFlight  == port["SEND"] + port["SEND0"] > 0 => pending = 1
BufferedIdle  == \A t \in Threads : t \in buffered => ~Owns(t)
FlagCovers    == /\ \A t \in Threads : Holds(t) => send_post_flag = 1
                 /\ port["SEND_PEND"] > 0 => send_post_flag = 1
                 /\ pending = 1 => send_post_flag = 1

\* What the token argument needs of the types.
Typed == /\ send_post_flag \in {0, 1}
         /\ buffered \subseteq Threads
         /\ port["SEND_PEND"] \in Nat /\ port["SEND"] \in Nat /\ port["SEND0"] \in Nat
         /\ port \in [Posts -> Nat]
         /\ pending \in {0, 1}
         /\ pc \in [Threads -> Pcs]

\* The typing facts of the proofs follow from TypeOK.
LEMMA TypedFromTypeOK == TypeOK => Typed
<1> SUFFICES ASSUME TypeOK PROVE Typed
  OBVIOUS
<1>1. port \in [Posts -> Nat] /\ pending \in {0, 1} /\ pc \in [Threads -> Pcs]
  BY DEF TypeOK, Pcs
<1>2. QED
  BY <1>1 DEF TypeOK, Typed, Posts

Exclusive == /\ OneHolder /\ HolderAlone /\ PendAlone /\ OnePacket
             /\ DoneInFlight /\ BufferedIdle /\ FlagCovers

\* A step that leaves the flag, the port and the WSASend alone and gives no
\* thread the token keeps it single.
LEMMA QuietExclusive ==
    ASSUME Exclusive,
           send_post_flag' = send_post_flag, buffered' = buffered,
           port' = port, pending' = pending,
           \A u \in Threads : Owns(u)' => Owns(u)
    PROVE  Exclusive'
<1>1. \A u \in Threads : Holds(u)' => Holds(u)
  BY DEF Holds
<1>2. OneHolder' /\ HolderAlone'
  BY <1>1 DEF Exclusive, OneHolder, HolderAlone
<1>3. PendAlone' /\ OnePacket' /\ DoneInFlight'
  BY DEF Exclusive, PendAlone, OnePacket, DoneInFlight
<1>4. BufferedIdle'
  BY DEF Exclusive, BufferedIdle
<1>5. FlagCovers'
  BY <1>1 DEF Exclusive, FlagCovers
<1>6. QED
  BY <1>2, <1>3, <1>4, <1>5 DEF Exclusive

\* A thread that moves between two places takes the token only where it owns it.
LEMMA MoveOwns ==
    ASSUME Typed, NEW t \in Threads, NEW l, Goto(t, l),
           l \notin {"try_clear", "sp_size", "sp_front", "sp_dequeue", "sp_count",
                 "sp_send"}
             \/ Owns(t)
    PROVE  \A u \in Threads : Owns(u)' => Owns(u)
BY DEF Typed, Goto, Owns

\* Every step of every thread, and of the kernel, keeps the token single.
LEMMA NextExclusive == Typed /\ Exclusive /\ [Next]_vars => Exclusive'
<1> SUFFICES ASSUME Typed, Exclusive, [Next]_vars PROVE Exclusive'
  OBVIOUS
<1>0. ASSUME NEW t \in Threads, NEW l, Goto(t, l),
             l \notin {"try_clear", "sp_size", "sp_front", "sp_dequeue", "sp_count",
                 "sp_send"}
               \/ Owns(t),
             send_post_flag' = send_post_flag, buffered' = buffered,
             port' = port, pending' = pending
      PROVE  Exclusive'
  BY <1>0, MoveOwns, QuietExclusive
<1> USE DEF Typed, Exclusive, Holds, Owns, OneHolder, HolderAlone,
        PendAlone, OnePacket, DoneInFlight, BufferedIdle, FlagCovers, Posts, Pcs,
        Goto, shared, lists, queue, io
<1>1. ASSUME NEW t \in Threads, Drain(t) PROVE Exclusive'
  <2>0. /\ pc' = pc /\ buffered' = buffered \ {t} /\ t \in buffered
    BY <1>1 DEF Drain
  <2>1. \A u \in Threads : ~Holds(u)' /\ ~Owns(u)'
    BY <2>0
  <2>2. port["SEND_PEND"] = 0 /\ pending = 0
    BY <1>1 DEF Drain
  <2>3. port' = port /\ pending' = pending
    BY <1>1 DEF Drain
  <2>4. OneHolder' /\ HolderAlone' /\ BufferedIdle'
    BY <2>1
  <2>5. PendAlone' /\ OnePacket' /\ DoneInFlight'
    BY <2>3
  <2>6. FlagCovers'
    BY <2>1, <2>2, <2>3
  <2>7. QED
    BY <2>4, <2>5, <2>6
<1>2. ASSUME NEW t \in Threads, Enqueue(t) PROVE Exclusive'
  <2>1. /\ send_post_flag' = send_post_flag /\ buffered' = buffered
        /\ port' = port /\ pending' = pending /\ pc[t] = "enqueue"
    BY <1>2 DEF Enqueue
  <2>2. \E l \in {"link", "idle"} : Goto(t, l)
    BY <1>2 DEF Enqueue
  <2>3. QED
    BY <2>1, <2>2, <1>0
<1>3. ASSUME NEW t \in Threads, EnqueueLink(t) PROVE Exclusive'
  <2>1. /\ send_post_flag' = send_post_flag /\ buffered' = buffered
        /\ port' = port /\ pending' = pending /\ pc[t] = "link"
    BY <1>3 DEF EnqueueLink
  <2>2. \E l \in {"count"} : Goto(t, l)
    BY <1>3 DEF EnqueueLink
  <2>3. QED
    BY <2>1, <2>2, <1>0
<1>4. ASSUME NEW t \in Threads, EnqueueCount(t) PROVE Exclusive'
  <2>1. /\ send_post_flag' = send_post_flag /\ buffered' = buffered
        /\ port' = port /\ pending' = pending /\ pc[t] = "count"
    BY <1>4 DEF EnqueueCount
  <2>2. \E l \in {"pend_check"} : Goto(t, l)
    BY <1>4 DEF EnqueueCount
  <2>3. QED
    BY <2>1, <2>2, <1>0
<1>5. ASSUME NEW t \in Threads, PendCheck(t) PROVE Exclusive'
  <2>1. /\ send_post_flag' = send_post_flag /\ buffered' = buffered
        /\ port' = port /\ pending' = pending /\ pc[t] = "pend_check"
    BY <1>5 DEF PendCheck
  <2>2. \E l \in {"pend_xchg", "idle"} : Goto(t, l)
    BY <1>5 DEF PendCheck
  <2>3. QED
    BY <2>1, <2>2, <1>0
<1>6. ASSUME NEW t \in Threads, PendExchange(t) PROVE Exclusive'
  <2>1. /\ pc[t] = "pend_xchg" /\ Goto(t, "idle")
        /\ send_post_flag' = 1 /\ buffered' = buffered /\ pending' = pending
    BY <1>6 DEF PendExchange, ExchangeTrue
  <2>2. CASE send_post_flag = 1
    <3>1. port' = port
      BY <1>6, <2>2 DEF PendExchange
    <3>2. QED
      BY <2>1, <2>2, <3>1, <1>0
  <2>3. CASE send_post_flag # 1
    <3>1. port' = [port EXCEPT !["SEND_PEND"] = @ + 1]
      BY <1>6, <2>3 DEF PendExchange
    <3>2. /\ port["SEND_PEND"] = 0 /\ pending = 0
          /\ port["SEND"] = 0 /\ port["SEND0"] = 0
      BY <2>3
    <3>3. \A u \in Threads : ~Holds(u)
      BY <2>3
    <3>4. \A u \in Threads : ~Holds(u)' /\ ~Owns(u)'
      BY <2>1, <3>3
    <3>5. port'["SEND_PEND"] = 1 /\ port'["SEND"] = 0 /\ port'["SEND0"] = 0
      BY <3>1, <3>2
    <3>6. OneHolder' /\ HolderAlone' /\ BufferedIdle'
      BY <3>4
    <3>7. PendAlone' /\ OnePacket' /\ DoneInFlight'
      BY <2>1, <3>2, <3>5
    <3>8. FlagCovers'
      BY <2>1, <3>2, <3>4
    <3>9. QED
      BY <3>6, <3>7, <3>8
  <2>4. QED
    BY <2>2, <2>3
<1>7. ASSUME NEW t \in Threads, TryClear(t) PROVE Exclusive'
  <2>1. /\ pc[t] = "try_clear" /\ Goto(t, "try_size")
        /\ port' = port /\ pending' = pending
    BY <1>7 DEF TryClear
  <2>2. /\ Holds(t) /\ port["SEND_PEND"] = 0 /\ pending = 0
        /\ send_post_flag = 1
    BY <2>1
  <2>3. \A u \in Threads : Holds(u) => u = t
    BY <2>2
  <2>4. \A u \in Threads : ~Owns(u)'
    BY <2>1, <2>3
  <2>5. PendAlone' /\ OnePacket' /\ DoneInFlight'
    BY <2>1, <2>2
  <2>6. CASE memory = "TSO"
    <3>1. buffered' = buffered \cup {t} /\ send_post_flag' = send_post_flag
      BY <1>7, <2>6 DEF TryClear, StoreFalse
    <3>2. \A u \in Threads : Holds(u)' => u = t
      BY <2>3, <2>4, <3>1
    <3>3. OneHolder' /\ HolderAlone' /\ BufferedIdle'
      BY <2>1, <2>2, <2>4, <3>2
    <3>4. FlagCovers'
      BY <2>2, <3>1
    <3>5. QED
      BY <2>5, <3>3, <3>4
  <2>7. CASE memory # "TSO"
    <3>1. buffered' = buffered /\ send_post_flag' = 0
      BY <1>7, <2>7 DEF TryClear, StoreFalse
    <3>2. t \notin buffered
      BY <2>1
    <3>3. \A u \in Threads : ~Holds(u)'
      BY <2>3, <2>4, <3>1, <3>2
    <3>4. OneHolder' /\ HolderAlone' /\ BufferedIdle'
      BY <2>4, <3>3
    <3>5. FlagCovers'
      BY <2>1, <2>2, <3>3
    <3>6. QED
      BY <2>5, <3>4, <3>5
  <2>8. QED
    BY <2>6, <2>7
<1>8. ASSUME NEW t \in Threads, TrySize(t) PROVE Exclusive'
  <2>1. /\ send_post_flag' = send_post_flag /\ buffered' = buffered
        /\ port' = port /\ pending' = pending /\ pc[t] = "try_size"
    BY <1>8 DEF TrySize
  <2>2. \E l \in {"sp_check", "idle"} : Goto(t, l)
    BY <1>8 DEF TrySize
  <2>3. QED
    BY <2>1, <2>2, <1>0
<1>9. ASSUME NEW t \in Threads, SendCheck(t) PROVE Exclusive'
  <2>1. /\ send_post_flag' = send_post_flag /\ buffered' = buffered
        /\ port' = port /\ pending' = pending /\ pc[t] = "sp_check"
    BY <1>9 DEF SendCheck
  <2>2. \E l \in {"sp_xchg", "idle"} : Goto(t, l)
    BY <1>9 DEF SendCheck
  <2>3. QED
    BY <2>1, <2>2, <1>0
<1>10. ASSUME NEW t \in Threads, SendExchange(t) PROVE Exclusive'
  <2>1. /\ pc[t] = "sp_xchg" /\ t \notin buffered
        /\ send_post_flag' = 1 /\ buffered' = buffered
        /\ port' = port /\ pending' = pending
    BY <1>10 DEF SendExchange, ExchangeTrue
  <2>2. CASE send_post_flag = 1
    <3>1. Goto(t, "idle")
      BY <1>10, <2>2 DEF SendExchange
    <3>2. QED
      BY <2>1, <2>2, <3>1, <1>0
  <2>3. CASE send_post_flag # 1
    <3>1. Goto(t, "sp_size")
      BY <1>10, <2>3 DEF SendExchange
    <3>2. /\ port["SEND_PEND"] = 0 /\ pending = 0
          /\ \A u \in Threads : ~Holds(u)
      BY <2>3
    <3>3. \A u \in Threads : (Holds(u)' => u = t) /\ (Owns(u)' => u = t)
      BY <2>1, <3>1, <3>2
    <3>4. OneHolder' /\ HolderAlone' /\ BufferedIdle'
      BY <2>1, <3>2, <3>3
    <3>5. PendAlone' /\ OnePacket' /\ DoneInFlight'
      BY <2>1
    <3>6. FlagCovers'
      BY <2>1
    <3>7. QED
      BY <3>4, <3>5, <3>6
  <2>4. QED
    BY <2>2, <2>3
<1>11. ASSUME NEW t \in Threads, SendNothing(t) PROVE Exclusive'
  <2>1. /\ pc[t] = "sp_size" /\ Goto(t, "pend_check")
        /\ port' = port /\ pending' = pending
    BY <1>11 DEF SendNothing
  <2>2. /\ Holds(t) /\ port["SEND_PEND"] = 0 /\ pending = 0
        /\ send_post_flag = 1
    BY <2>1
  <2>3. \A u \in Threads : Holds(u) => u = t
    BY <2>2
  <2>4. \A u \in Threads : ~Owns(u)'
    BY <2>1, <2>3
  <2>5. PendAlone' /\ OnePacket' /\ DoneInFlight'
    BY <2>1, <2>2
  <2>6. CASE memory = "TSO"
    <3>1. buffered' = buffered \cup {t} /\ send_post_flag' = send_post_flag
      BY <1>11, <2>6 DEF SendNothing, StoreFalse
    <3>2. \A u \in Threads : Holds(u)' => u = t
      BY <2>3, <2>4, <3>1
    <3>3. OneHolder' /\ HolderAlone' /\ BufferedIdle'
      BY <2>1, <2>2, <2>4, <3>2
    <3>4. FlagCovers'
      BY <2>2, <3>1
    <3>5. QED
      BY <2>5, <3>3, <3>4
  <2>7. CASE memory # "TSO"
    <3>1. buffered' = buffered /\ send_post_flag' = 0
      BY <1>11, <2>7 DEF SendNothing, StoreFalse
    <3>2. t \notin buffered
      BY <2>1
    <3>3. \A u \in Threads : ~Holds(u)'
      BY <2>3, <2>4, <3>1, <3>2
    <3>4. OneHolder' /\ HolderAlone' /\ BufferedIdle'
      BY <2>4, <3>3
    <3>5. FlagCovers'
      BY <2>1, <2>2, <3>3
    <3>6. QED
      BY <2>5, <3>4, <3>5
  <2>8. QED
    BY <2>6, <2>7
<1>12. ASSUME NEW t \in Threads, SendSomething(t) PROVE Exclusive'
  <2>1. /\ send_post_flag' = send_post_flag /\ buffered' = buffered
        /\ port' = port /\ pending' = pending /\ pc[t] = "sp_size"
    BY <1>12 DEF SendSomething
  <2>2. \E l \in {"sp_front"} : Goto(t, l)
    BY <1>12 DEF SendSomething
  <2>3. QED
    BY <2>1, <2>2, <1>0
<1>13. ASSUME NEW t \in Threads, SendFront(t) PROVE Exclusive'
  <2>1. /\ send_post_flag' = send_post_flag /\ buffered' = buffered
        /\ port' = port /\ pending' = pending /\ pc[t] = "sp_front"
    BY <1>13 DEF SendFront
  <2>2. \E l \in {"sp_dequeue", "sp_send"} : Goto(t, l)
    BY <1>13 DEF SendFront
  <2>3. QED
    BY <2>1, <2>2, <1>0
<1>14. ASSUME NEW t \in Threads, SendDequeue(t) PROVE Exclusive'
  <2>1. /\ send_post_flag' = send_post_flag /\ buffered' = buffered
        /\ port' = port /\ pending' = pending /\ pc[t] = "sp_dequeue"
    BY <1>14 DEF SendDequeue
  <2>2. \E l \in {"sp_count"} : Goto(t, l)
    BY <1>14 DEF SendDequeue
  <2>3. QED
    BY <2>1, <2>2, <1>0
<1>15. ASSUME NEW t \in Threads, SendCount(t) PROVE Exclusive'
  <2>1. /\ send_post_flag' = send_post_flag /\ buffered' = buffered
        /\ port' = port /\ pending' = pending /\ pc[t] = "sp_count"
    BY <1>15 DEF SendCount
  <2>2. \E l \in {"sp_front"} : Goto(t, l)
    BY <1>15 DEF SendCount
  <2>3. QED
    BY <2>1, <2>2, <1>0
<1>16. ASSUME NEW t \in Threads, SendPost(t) PROVE Exclusive'
  <2>1. /\ send_post_flag' = send_post_flag /\ buffered' = buffered /\ port' = port
        /\ pc[t] = "sp_send" /\ pc' = [pc EXCEPT ![t] = "idle"]
    BY <1>16 DEF SendPost
  <2>2. pending' \in {0, 1}
    BY <1>16 DEF SendPost
  <2>3. \A u \in Threads : ~Holds(u)' /\ ~Owns(u)'
    BY <2>1
  <2>4. /\ port["SEND_PEND"] = 0 /\ port["SEND"] + port["SEND0"] = 0
        /\ send_post_flag = 1
    BY <2>1
  <2>5. OneHolder' /\ HolderAlone' /\ BufferedIdle'
    BY <2>3
  <2>6. PendAlone' /\ OnePacket' /\ DoneInFlight'
    BY <2>1, <2>2, <2>4
  <2>7. FlagCovers'
    BY <2>1, <2>3, <2>4
  <2>8. QED
    BY <2>5, <2>6, <2>7
<1>17. ASSUME NEW t \in Workers, GetSendPend(t) PROVE Exclusive'
  <2>1. /\ t \in Threads /\ pc[t] = "idle" /\ port["SEND_PEND"] > 0
        /\ port' = [port EXCEPT !["SEND_PEND"] = @ - 1] /\ Goto(t, "try_clear")
        /\ send_post_flag' = send_post_flag /\ buffered' = buffered
        /\ pending' = pending
    BY <1>17 DEF GetSendPend, Threads
  <2>2. /\ port["SEND_PEND"] = 1 /\ pending = 0 /\ send_post_flag = 1
        /\ port["SEND"] = 0 /\ port["SEND0"] = 0
    BY <2>1
  <2>3. \A u \in Threads : ~Holds(u)
    BY <2>2
  <2>4. \A u \in Threads : (Holds(u)' => u = t) /\ u \notin buffered'
    BY <2>1, <2>3
  <2>5. port'["SEND_PEND"] = 0 /\ port'["SEND"] = 0 /\ port'["SEND0"] = 0
    BY <2>1, <2>2
  <2>6. OneHolder' /\ HolderAlone' /\ BufferedIdle'
    BY <2>1, <2>2, <2>4, <2>5
  <2>7. PendAlone' /\ OnePacket' /\ DoneInFlight'
    BY <2>5
  <2>8. FlagCovers'
    BY <2>1, <2>2
  <2>9. QED
    BY <2>6, <2>7, <2>8
<1>18. ASSUME NEW t \in Workers, GetSendDone(t) PROVE Exclusive'
  <2>1. /\ t \in Threads /\ pc[t] = "idle" /\ port["SEND"] > 0
        /\ port' = [port EXCEPT !["SEND"] = @ - 1] /\ pending' = 0
        /\ send_post_flag' = send_post_flag /\ buffered' = buffered
    BY <1>18 DEF GetSendDone, Threads
  <2>2. pc' = pc \/ Goto(t, "try_clear")
    BY <1>18 DEF GetSendDone
  <2>3. /\ pending = 1 /\ send_post_flag = 1
        /\ port["SEND"] = 1 /\ port["SEND_PEND"] = 0 /\ port["SEND0"] = 0
    BY <2>1
  <2>4. \A u \in Threads : ~Holds(u)
    BY <2>3
  <2>5. \A u \in Threads : (Holds(u)' => u = t) /\ u \notin buffered'
    BY <2>1, <2>2, <2>4
  <2>6. port'["SEND_PEND"] = 0 /\ port'["SEND"] = 0 /\ port'["SEND0"] = 0
    BY <2>1, <2>3
  <2>7. OneHolder' /\ HolderAlone' /\ BufferedIdle'
    BY <2>1, <2>5, <2>6
  <2>8. PendAlone' /\ OnePacket' /\ DoneInFlight'
    BY <2>6
  <2>9. FlagCovers'
    BY <2>1, <2>3, <2>6
  <2>10. QED
    BY <2>7, <2>8, <2>9
<1>19. ASSUME NEW t \in Workers, GetSendFailed(t) PROVE Exclusive'
  <2>1. /\ t \in Threads /\ pc[t] = "idle" /\ port["SEND0"] > 0
        /\ port' = [port EXCEPT !["SEND0"] = @ - 1] /\ pending' = 0
        /\ send_post_flag' = send_post_flag /\ buffered' = buffered
    BY <1>19 DEF GetSendFailed, Threads
  <2>2. pc' = pc
    BY <1>19 DEF GetSendFailed
  <2>3. /\ pending = 1 /\ send_post_flag = 1
        /\ port["SEND0"] = 1 /\ port["SEND_PEND"] = 0 /\ port["SEND"] = 0
    BY <2>1
  <2>4. \A u \in Threads : ~Holds(u)
    BY <2>3
  <2>5. \A u \in Threads : (Holds(u)' => u = t) /\ u \notin buffered'
    BY <2>1, <2>2, <2>4
  <2>6. port'["SEND_PEND"] = 0 /\ port'["SEND"] = 0 /\ port'["SEND0"] = 0
    BY <2>1, <2>3
  <2>7. OneHolder' /\ HolderAlone' /\ BufferedIdle'
    BY <2>1, <2>5, <2>6
  <2>8. PendAlone' /\ OnePacket' /\ DoneInFlight'
    BY <2>6
  <2>9. FlagCovers'
    BY <2>1, <2>3, <2>6
  <2>10. QED
    BY <2>7, <2>8, <2>9
<1>20. ASSUME NEW t \in Senders, SendPacket(t) PROVE Exclusive'
  <2>1. /\ send_post_flag' = send_post_flag /\ buffered' = buffered
        /\ port' = port /\ pending' = pending /\ pc[t] = "idle"
    BY <1>20 DEF SendPacket
  <2>2. \E l \in {"enqueue"} : Goto(t, l)
    BY <1>20 DEF SendPacket
  <2>3. t \in Threads
    BY <1>20 DEF Threads
  <2>4. QED
    BY <2>1, <2>2, <2>3, <1>0
<1>21. CASE SendComplete
  <2>1. /\ send_post_flag' = send_post_flag /\ buffered' = buffered
        /\ pending' = pending /\ pc' = pc
        /\ pending = 1 /\ port["SEND"] + port["SEND0"] = 0
        /\ \/ port' = [port EXCEPT !["SEND"] = 1]
           \/ port' = [port EXCEPT !["SEND0"] = 1]
    BY <1>21 DEF SendComplete
  <2>2. port["SEND_PEND"] = 0 /\ port["SEND"] = 0 /\ port["SEND0"] = 0
    BY <2>1
  <2>3. /\ port'["SEND_PEND"] = 0 /\ port'["SEND"] + port'["SEND0"] = 1
        /\ port'["SEND"] \in Nat /\ port'["SEND0"] \in Nat
    BY <2>1, <2>2
  <2>4. \A u \in Threads : ~Holds(u)' /\ ~Owns(u)'
    <3>1. \A u \in Threads : ~Holds(u)
      BY <2>1
    <3>2. QED
      BY <2>1, <3>1
  <2>5. OneHolder' /\ HolderAlone' /\ BufferedIdle'
    BY <2>4
  <2>6. PendAlone' /\ OnePacket' /\ DoneInFlight'
    <3>1. \/ port'["SEND"] = 1 /\ port'["SEND0"] = 0
          \/ port'["SEND"] = 0 /\ port'["SEND0"] = 1
      BY <2>1, <2>2
    <3>2. pending' = 1
      BY <2>1
    <3>3. QED
      BY <2>3, <3>1, <3>2
  <2>7. FlagCovers'
    BY <2>1, <2>3, <2>4
  <2>8. QED
    BY <2>5, <2>6, <2>7
<1>22. CASE Disconnected
  <2>1. /\ send_post_flag' = send_post_flag /\ buffered' = buffered
        /\ port' = port /\ pending' = pending /\ pc' = pc
    BY <1>22 DEF Disconnected
  <2>2. QED
    BY <2>1, QuietExclusive
<1>23. CASE UNCHANGED vars
  <2>1. /\ send_post_flag' = send_post_flag /\ buffered' = buffered
        /\ port' = port /\ pending' = pending /\ pc' = pc
    BY <1>23 DEF vars
  <2>2. QED
    BY <2>1, QuietExclusive
<1>24. QED
  BY <1>1, <1>2, <1>3, <1>4, <1>5, <1>6, <1>7, <1>8, <1>9, <1>10, <1>11, <1>12, <1>13,
     <1>14, <1>15, <1>16, <1>17, <1>18, <1>19, <1>20, <1>21, <1>22, <1>23
     DEF Next, Run, Get

\* Every variable keeps its type.
LEMMA NextTypeOK == TypeOK /\ Counting /\ [Next]_vars => TypeOK'
<1> SUFFICES ASSUME TypeOK, Counting, [Next]_vars PROVE TypeOK'
  OBVIOUS
<1> USE SizesAssumption DEF TypeOK, Numbers, Posts, Goto, shared, lists, queue, io
<1>1. ASSUME NEW t \in Threads, Drain(t) PROVE TypeOK'
  BY <1>1 DEF Drain
<1>2. ASSUME NEW t \in Threads, Enqueue(t) PROVE TypeOK'
  <2>1. CASE free_nodes > 0
    <3>1. accepted + 1 \in Numbers
      BY <1>2 DEF Enqueue
    <3>2. <<accepted + 1>> \in Seq(Numbers)
      BY <3>1
    <3>3. /\ unlinked' = [unlinked EXCEPT ![t] = <<accepted + 1>>]
          /\ accepted' = accepted + 1 /\ send_q' = send_q
      BY <1>2, <2>1 DEF Enqueue, Q!Take
    <3>4. unlinked' \in [Senders -> Seq(Numbers)]
      BY <3>2, <3>3
    <3>5. accepted' \in 0 .. MaxPackets /\ free_nodes' \in Nat
      BY <1>2, <2>1, <3>1, <3>3 DEF Enqueue
    <3>6. pc' \in [Threads -> Pcs]
      BY <1>2, <2>1 DEF Enqueue, Pcs
    <3>7. QED
      BY <1>2, <2>1, <3>3, <3>4, <3>5, <3>6 DEF Enqueue, Pcs
  <2>2. CASE ~(free_nodes > 0)
    BY <1>2, <2>2 DEF Enqueue
  <2>3. QED
    BY <2>1, <2>2
<1>3. ASSUME NEW t \in Threads, EnqueueLink(t) PROVE TypeOK'
  <2>1. CASE Q!LinkLast(t) /\ in_line' = in_line \o unlinked[t]
    <3>1. t \in Senders
      BY <1>3 DEF EnqueueLink, Counting
    <3>2. /\ send_q \o unlinked[t] \in Seq(Numbers) /\ in_line \o unlinked[t] \in Seq(Numbers)
          /\ <<>> \in Seq(Numbers)
      BY <3>1, ConcatProperties, EmptySeq
    <3>3. /\ unlinked' = [unlinked EXCEPT ![t] = <<>>] /\ send_q' = send_q \o unlinked[t]
          /\ accepted' = accepted
      BY <2>1 DEF Q!LinkLast
    <3>4. unlinked' \in [Senders -> Seq(Numbers)]
      BY <3>2, <3>3
    <3>5. send_q' \in Seq(Numbers) /\ in_line' \in Seq(Numbers)
      BY <2>1, <3>2, <3>3
    <3>6. QED
      BY <1>3, <3>3, <3>4, <3>5 DEF EnqueueLink
  <2>2. ASSUME NEW u \in Senders, Q!LinkBehind(t, u), in_line' = in_line
        PROVE  TypeOK'
    <3>1. t \in Senders
      BY <1>3 DEF EnqueueLink, Counting
    <3>2. unlinked[u] \o unlinked[t] \in Seq(Numbers) /\ <<>> \in Seq(Numbers)
      BY <3>1, ConcatProperties, EmptySeq
    <3>3. /\ unlinked' = [unlinked EXCEPT ![u] = @ \o unlinked[t], ![t] = <<>>]
          /\ accepted' = accepted /\ send_q' = send_q
      BY <2>2 DEF Q!LinkBehind
    <3>4. unlinked' \in [Senders -> Seq(Numbers)]
      BY <3>2, <3>3
    <3>5. QED
      BY <1>3, <2>2, <3>3, <3>4 DEF EnqueueLink
  <2>3. QED
    BY <1>3, <2>1, <2>2 DEF EnqueueLink
<1>4. ASSUME NEW t \in Threads, EnqueueCount(t) PROVE TypeOK'
  BY <1>4 DEF EnqueueCount
<1>5. ASSUME NEW t \in Threads, PendCheck(t) PROVE TypeOK'
  BY <1>5 DEF PendCheck
<1>6. ASSUME NEW t \in Threads, PendExchange(t) PROVE TypeOK'
  BY <1>6 DEF PendExchange, ExchangeTrue
<1>7. ASSUME NEW t \in Threads, TryClear(t) PROVE TypeOK'
  BY <1>7 DEF TryClear, StoreFalse
<1>8. ASSUME NEW t \in Threads, TrySize(t) PROVE TypeOK'
  BY <1>8 DEF TrySize
<1>9. ASSUME NEW t \in Threads, SendCheck(t) PROVE TypeOK'
  BY <1>9 DEF SendCheck
<1>10. ASSUME NEW t \in Threads, SendExchange(t) PROVE TypeOK'
  BY <1>10 DEF SendExchange, ExchangeTrue
<1>11. ASSUME NEW t \in Threads, SendNothing(t) PROVE TypeOK'
  BY <1>11 DEF SendNothing, StoreFalse
<1>12. ASSUME NEW t \in Threads, SendSomething(t) PROVE TypeOK'
  BY <1>12 DEF SendSomething
<1>13. ASSUME NEW t \in Threads, SendFront(t) PROVE TypeOK'
  <2>1. CASE send_q # <<>> /\ Len(send_buffer) < MaxBatch
    <3>1. Head(send_q) \in Numbers
      BY <2>1, HeadTailProperties
    <3>2. /\ Append(send_buffer, Head(send_q)) \in Seq(Numbers)
          /\ Len(Append(send_buffer, Head(send_q))) = Len(send_buffer) + 1
      BY <3>1, AppendProperties
    <3>3. send_buffer' \in Seq(Numbers) /\ Len(send_buffer') <= MaxBatch
      <4>1. Len(send_buffer) \in Nat
        BY LenProperties
      <4>2. send_buffer' = Append(send_buffer, Head(send_q))
        BY <1>13, <2>1 DEF SendFront
      <4>3. QED
        BY <2>1, <3>2, <4>1, <4>2
    <3>4. QED
      BY <1>13, <2>1, <3>3 DEF SendFront
  <2>2. CASE ~(send_q # <<>> /\ Len(send_buffer) < MaxBatch)
    BY <1>13, <2>2 DEF SendFront
  <2>3. QED
    BY <2>1, <2>2
<1>14. ASSUME NEW t \in Threads, SendDequeue(t) PROVE TypeOK'
  <2>1. send_q # <<>> /\ send_q' = Tail(send_q) /\ UNCHANGED <<accepted, unlinked>>
    BY <1>14 DEF SendDequeue, Q!Remove
  <2>2. send_q' \in Seq(Numbers)
    BY <2>1, HeadTailProperties
  <2>3. QED
    BY <1>14, <2>1, <2>2 DEF SendDequeue
<1>15. ASSUME NEW t \in Threads, SendCount(t) PROVE TypeOK'
  <2>1. send_size' \in Nat /\ free_nodes' \in Nat
    BY <1>15 DEF SendCount, Counting
  <2>2. QED
    BY <1>15, <2>1 DEF SendCount
<1>16. ASSUME NEW t \in Threads, SendPost(t) PROVE TypeOK'
  <2>1. sent \o send_buffer \in Seq(Numbers) /\ Len(send_buffer) \in 0 .. MaxBatch
    BY ConcatProperties, LenProperties
  <2>2. QED
    BY <1>16, <2>1 DEF SendPost
<1>17. ASSUME NEW t \in Workers, GetSendPend(t) PROVE TypeOK'
  BY <1>17 DEF GetSendPend, Threads
<1>18. ASSUME NEW t \in Workers, GetSendDone(t) PROVE TypeOK'
  <2>1. CASE disconnect = 0
    <3> DEFINE rest == SubSeq(send_buffer, in_flight + 1, Len(send_buffer))
    <3>1. /\ Len(send_buffer) \in Nat
          /\ \A i \in in_flight + 1 .. Len(send_buffer) : send_buffer[i] \in Numbers
      BY LenProperties, ElementOfSeq
    <3>2. rest \in Seq(Numbers) /\ Len(rest) <= MaxBatch
      BY <3>1, SubSeqProperties
    <3>3. send_buffer' \in Seq(Numbers) /\ Len(send_buffer') <= MaxBatch
      BY <1>18, <2>1, <3>2 DEF GetSendDone
    <3>4. /\ UNCHANGED <<shared, queue, disconnect, sent>>
          /\ pending' \in {0, 1} /\ in_flight' \in 0 .. MaxBatch
          /\ port' \in [Posts -> Nat]
      <4>1. /\ UNCHANGED <<shared, queue, disconnect, sent>>
            /\ pending' = 0 /\ in_flight' = 0
            /\ port["SEND"] > 0 /\ port' = [port EXCEPT !["SEND"] = @ - 1]
        BY <1>18 DEF GetSendDone
      <4>2. port["SEND"] - 1 \in Nat
        BY <4>1
      <4>3. port' \in [Posts -> Nat]
        BY <4>1, <4>2
      <4>4. QED
        BY <4>1, <4>3
    <3>5. pc' = [pc EXCEPT ![t] = "try_clear"]
      BY <1>18, <2>1 DEF GetSendDone
    <3>6. QED
      BY <3>3, <3>4, <3>5 DEF Threads
  <2>2. CASE disconnect # 0
    BY <1>18, <2>2 DEF GetSendDone, Threads
  <2>3. QED
    BY <2>1, <2>2
<1>19. ASSUME NEW t \in Workers, GetSendFailed(t) PROVE TypeOK'
  BY <1>19 DEF GetSendFailed, Threads
<1>20. ASSUME NEW t \in Senders, SendPacket(t) PROVE TypeOK'
  BY <1>20 DEF SendPacket, Threads
<1>21. CASE SendComplete
  BY <1>21 DEF SendComplete
<1>22. CASE Disconnected
  BY <1>22 DEF Disconnected
<1>23. CASE UNCHANGED vars
  BY <1>23 DEF vars
<1>24. QED
  BY <1>1, <1>2, <1>3, <1>4, <1>5, <1>6, <1>7, <1>8, <1>9, <1>10, <1>11, <1>12, <1>13,
     <1>14, <1>15, <1>16, <1>17, <1>18, <1>19, <1>20, <1>21, <1>22, <1>23
     DEF Next, Run, Get

\* What is counted: the consumer's packet, and who is in Enqueue.
LEMMA NextCounting ==
    TypeOK /\ Typed /\ Exclusive /\ Counting /\ [Next]_vars => Counting'
<1> SUFFICES ASSUME TypeOK, Typed, Exclusive, Counting, [Next]_vars PROVE Counting'
  OBVIOUS
<1> USE DEF Typed, Counting, Posts, Pcs, Goto, shared, lists, queue, io
<1>1. send_size \in Nat
  BY DEF TypeOK
<1>2. ASSUME NEW t \in Threads, SendDequeue(t) PROVE Counting'
  BY <1>2 DEF SendDequeue
<1>3. ASSUME NEW t \in Threads, SendCount(t) PROVE Counting'
  <2>1. \A u \in Threads \ {t} : pc[u] # "sp_count"
    BY <1>3 DEF SendCount, Exclusive, OneHolder, Holds, Owns
  <2>2. pc' = [pc EXCEPT ![t] = "sp_front"]
    BY <1>3 DEF SendCount
  <2>3. QED
    BY <2>1, <2>2
<1>4. ASSUME NEW t \in Threads, Run(t), ~SendDequeue(t), ~SendCount(t) PROVE Counting'
  <2>1. send_size' = send_size \/ send_size' = send_size + 1
    BY <1>4 DEF Run, Drain, Enqueue, EnqueueLink, EnqueueCount, PendCheck, PendExchange,
       TryClear, TrySize, SendCheck, SendExchange, SendNothing, SendSomething, SendFront,
       SendPost
  <2>2. pc' = pc \/ \E l \in Pcs \ {"enqueue", "sp_count"} :
            /\ pc' = [pc EXCEPT ![t] = l]
            /\ l = "link" => pc[t] = "enqueue"
    BY <1>4 DEF Run, Drain, Enqueue, EnqueueLink, EnqueueCount, PendCheck, PendExchange,
       TryClear, TrySize, SendCheck, SendExchange, SendNothing, SendSomething, SendFront,
       SendPost
  <2>3. QED
    BY <1>1, <2>1, <2>2
<1>5. ASSUME NEW t \in Workers, Get(t) PROVE Counting'
  BY <1>5 DEF Get, GetSendPend, GetSendDone, GetSendFailed, Threads
<1>6. ASSUME NEW t \in Senders, SendPacket(t) PROVE Counting'
  BY <1>6 DEF SendPacket, Threads
<1>7. CASE SendComplete \/ Disconnected \/ UNCHANGED vars
  BY <1>7 DEF SendComplete, Disconnected, vars
<1>8. QED
  BY <1>2, <1>3, <1>4, <1>5, <1>6, <1>7 DEF Next

\* The types, the token and the counting hold together.
LEMMA SendingCorrect == Spec => [](TypeOK /\ Exclusive /\ Counting)
<1>1. Init => TypeOK
  <2>1. <<>> \in Seq(Numbers) /\ Len(<<>>) = 0
    BY EmptySeq
  <2>2. ASSUME Init
        PROVE  /\ send_q \in Seq(Numbers) /\ in_line \in Seq(Numbers)
               /\ unlinked \in [Senders -> Seq(Numbers)]
               /\ send_buffer \in Seq(Numbers) /\ Len(send_buffer) <= MaxBatch
               /\ sent \in Seq(Numbers)
    BY <2>1, <2>2, SizesAssumption DEF Init
  <2>3. ASSUME Init
        PROVE  /\ memory \in Memories
               /\ send_post_flag \in {0, 1} /\ buffered \subseteq Threads
               /\ port \in [Posts -> Nat] /\ pending \in {0, 1} /\ in_flight \in 0 .. MaxBatch
               /\ disconnect \in {0, 1} /\ accepted \in 0 .. MaxPackets
               /\ send_size \in Nat /\ free_nodes \in Nat
    BY <2>3, SizesAssumption DEF Init, Posts
  <2>4. ASSUME Init PROVE pc \in [Threads -> Pcs]
    BY <2>4 DEF Init, Pcs
  <2>5. QED
    BY <2>2, <2>3, <2>4 DEF TypeOK, Pcs
<1>2. Init => Exclusive
  BY DEF Init, Exclusive, Holds, Owns, OneHolder, HolderAlone, PendAlone,
     OnePacket, DoneInFlight, BufferedIdle, FlagCovers, Posts
<1>3. Init => Counting
  BY DEF Init, Counting
<1>4. TypeOK /\ Exclusive /\ Counting /\ [Next]_vars => (TypeOK /\ Exclusive /\ Counting)'
  BY NextTypeOK, NextExclusive, NextCounting, TypedFromTypeOK
<1>5. QED
  BY <1>1, <1>2, <1>3, <1>4, PTL DEF Spec

\* Type correctness of the send path.
THEOREM TypeCorrect == Spec => []TypeOK
BY SendingCorrect, PTL

\* send_q has one consumer and a Session one outstanding WSASend, in every
\* behaviour, with or without store buffers.
THEOREM SendSideExclusive == Spec => []SingleSender
<1>1. Exclusive => SingleSender
  BY DEF Exclusive, SingleSender, OneHolder, HolderAlone, PendAlone, OnePacket, Holds
<1>2. QED
  BY <1>1, SendingCorrect, PTL

-----------------------------------------------------------------------------
(***************************************************************************)
(* The send path implements PacketChannel, for any threads, any bounds and *)
(* either memory model: a packet comes into line once, and the packets     *)
(* leave once, in the order of the line.                                   *)
(*                                                                         *)
(* The argument.  The packets that senders took nodes for are in the       *)
(* chains of the senders and in the line, each in one place: linking moves *)
(* a chain as a whole.  sent, send_buffer and send_q are pieces of the     *)
(* line without a gap.  Whoever has the token of the send side knows where *)
(* the pieces meet: send_buffer is empty when the token changes hands, is  *)
(* all that is in flight during WSASend, and continues sent while sendPost *)
(* fills it.  When a session was disconnected the token may be lost with   *)
(* the buffer full; then nobody sends again.                               *)
(***************************************************************************)

Elems(s) == {s[i] : i \in 1 .. Len(s)}

Distinct(s) == \A i, j \in 1 .. Len(s) : s[i] = s[j] => i = j

\* The numbers up to n are in one place at most: in the sequence l or in a chain of c.
OncePlaced(l, c, n) ==
    /\ Distinct(l) /\ Elems(l) \subseteq 1 .. n
    /\ \A t \in Senders : /\ Distinct(c[t]) /\ Elems(c[t]) \subseteq 1 .. n
                          /\ Elems(l) \cap Elems(c[t]) = {}
    /\ \A t, u \in Senders : t # u => Elems(c[t]) \cap Elems(c[u]) = {}

Placed == OncePlaced(in_line, unlinked, accepted)

\* The elements of s are those of the line behind its first n.
Continues(s, n) == /\ n + Len(s) <= Len(in_line)
                   /\ \A i \in 1 .. Len(s) : s[i] = in_line[n + i]

\* Between two calls of sendPost: every packet of the line is sent or queued.
Clean == send_buffer = <<>> /\ Len(sent) + Len(send_q) = Len(in_line)

\* While sendPost fills send_buffer; k packets are in it and in send_q.
Filling(k) == /\ Continues(send_buffer, Len(sent))
              /\ Len(sent) + Len(send_buffer) + Len(send_q) = Len(in_line) + k

InOrder == /\ Continues(sent, 0)
           /\ Len(send_q) <= Len(in_line)
           /\ Continues(send_q, Len(in_line) - Len(send_q))

Meet(t) == /\ t \in buffered \/ pc[t] \in {"try_clear", "sp_size"} => Clean
           /\ pc[t] \in {"sp_front", "sp_count", "sp_send"} => Filling(0)
           /\ pc[t] = "sp_dequeue" => Filling(1)

Pieces == /\ InOrder
          /\ send_post_flag = 0 \/ port["SEND_PEND"] > 0 => Clean
          /\ \A t \in Threads : Meet(t)
          /\ pending = 1 => /\ in_flight = Len(send_buffer)
                            /\ Len(sent) + Len(send_q) = Len(in_line)

-----------------------------------------------------------------------------
(* Sequences *)

\* Two sequences without a common element, one behind the other.
LEMMA ConcatDistinct ==
    ASSUME NEW s \in Seq(Numbers), NEW r \in Seq(Numbers), Distinct(s), Distinct(r),
           Elems(s) \cap Elems(r) = {}
    PROVE  Distinct(s \o r) /\ Elems(s \o r) = Elems(s) \cup Elems(r)
<1>1. Len(s) \in Nat /\ Len(r) \in Nat
  BY LenProperties
<1>2. /\ Len(s \o r) = Len(s) + Len(r)
      /\ \A i \in 1 .. Len(s) + Len(r) :
             (s \o r)[i] = IF i <= Len(s) THEN s[i] ELSE r[i - Len(s)]
  BY ConcatProperties
<1>3. \A i \in 1 .. Len(s), j \in 1 .. Len(r) : s[i] # r[j]
  BY DEF Elems
<1>4. Distinct(s \o r)
  BY <1>1, <1>2, <1>3 DEF Distinct
<1>5. \A i \in 1 .. Len(s) : i \in 1 .. Len(s) + Len(r) /\ (s \o r)[i] = s[i]
  BY <1>1, <1>2
<1>6. \A i \in 1 .. Len(r) : /\ Len(s) + i \in 1 .. Len(s) + Len(r)
                             /\ (s \o r)[Len(s) + i] = r[i]
  BY <1>1, <1>2
<1>7. Elems(s) \subseteq Elems(s \o r) /\ Elems(r) \subseteq Elems(s \o r)
  <2>1. ASSUME NEW x \in Elems(s) PROVE x \in Elems(s \o r)
    <3>1. PICK i \in 1 .. Len(s) : x = s[i]
      BY DEF Elems
    <3>2. QED
      BY <1>2, <1>5, <3>1 DEF Elems
  <2>2. ASSUME NEW x \in Elems(r) PROVE x \in Elems(s \o r)
    <3>1. PICK i \in 1 .. Len(r) : x = r[i]
      BY DEF Elems
    <3>2. QED
      BY <1>2, <1>6, <3>1 DEF Elems
  <2>3. QED
    BY <2>1, <2>2
<1>8. \A i \in 1 .. Len(s) + Len(r) :
          \/ i \in 1 .. Len(s) /\ (s \o r)[i] = s[i]
          \/ i - Len(s) \in 1 .. Len(r) /\ (s \o r)[i] = r[i - Len(s)]
  BY <1>1, <1>2
<1>9. Elems(s \o r) \subseteq Elems(s) \cup Elems(r)
  BY <1>2, <1>8 DEF Elems
<1>10. QED
  BY <1>4, <1>7, <1>9

\* A sequence of the line, with the next one of the line appended.
LEMMA AppendContinues ==
    ASSUME NEW s \in Seq(Numbers), NEW n \in Nat, NEW x \in Numbers,
           Len(in_line) \in Nat, Continues(s, n),
           n + Len(s) + 1 <= Len(in_line), x = in_line[n + Len(s) + 1]
    PROVE  Continues(Append(s, x), n) /\ Len(Append(s, x)) = Len(s) + 1
<1>1. Len(s) \in Nat
  BY LenProperties
<1>2. /\ Len(Append(s, x)) = Len(s) + 1
      /\ \A i \in 1 .. Len(s) : Append(s, x)[i] = s[i]
      /\ Append(s, x)[Len(s) + 1] = x
  BY AppendProperties
<1>3. QED
  BY <1>1, <1>2 DEF Continues

\* A sequence of the line, without its first.
LEMMA TailContinues ==
    ASSUME NEW s \in Seq(Numbers), s # <<>>, NEW n \in Nat, Len(in_line) \in Nat,
           Continues(s, n)
    PROVE  /\ Head(s) = in_line[n + 1] /\ Len(s) >= 1
           /\ Continues(Tail(s), n + 1) /\ Len(Tail(s)) = Len(s) - 1
<1>1. Len(s) \in Nat /\ Len(s) >= 1
  BY LenProperties, EmptySeq
<1>2. /\ Head(s) = s[1] /\ Len(Tail(s)) = Len(s) - 1
      /\ \A i \in 1 .. Len(Tail(s)) : Tail(s)[i] = s[i + 1]
  BY HeadTailProperties
<1>3. QED
  BY <1>1, <1>2 DEF Continues

\* Two sequences of the line that meet.
LEMMA ConcatContinues ==
    ASSUME NEW s \in Seq(Numbers), NEW r \in Seq(Numbers), NEW n \in Nat,
           Len(in_line) \in Nat, Continues(s, n), Continues(r, n + Len(s))
    PROVE  Continues(s \o r, n) /\ Len(s \o r) = Len(s) + Len(r)
<1>1. Len(s) \in Nat /\ Len(r) \in Nat
  BY LenProperties
<1>2. /\ Len(s \o r) = Len(s) + Len(r)
      /\ \A i \in 1 .. Len(s) + Len(r) :
             (s \o r)[i] = IF i <= Len(s) THEN s[i] ELSE r[i - Len(s)]
  BY ConcatProperties
<1>3. QED
  BY <1>1, <1>2 DEF Continues

-----------------------------------------------------------------------------
\* The lengths the steps below calculate with.
LEMMA Lengths ==
    ASSUME TypeOK
    PROVE  /\ Len(send_q) \in Nat /\ Len(send_buffer) \in Nat /\ Len(sent) \in Nat
           /\ Len(in_line) \in Nat /\ accepted \in Nat /\ in_flight \in Nat
           /\ send_q \in Seq(Numbers) /\ send_buffer \in Seq(Numbers) /\ sent \in Seq(Numbers)
           /\ in_line \in Seq(Numbers) /\ unlinked \in [Senders -> Seq(Numbers)]
           /\ pc \in [Threads -> Pcs] /\ send_post_flag \in {0, 1} /\ pending \in {0, 1}
           /\ port \in [Posts -> Nat]
           /\ Len(<<>>) = 0
  BY LenProperties, EmptySeq, SizesAssumption DEF TypeOK, Pcs

\* While a thread sends, nobody else has the token.
LEMMA Alone ==
    ASSUME TypeOK, Exclusive, NEW t \in Threads, Owns(t)
    PROVE  /\ \A o \in Threads \ {t} : ~Holds(o)
           /\ t \notin buffered /\ send_post_flag = 1
           /\ port["SEND_PEND"] = 0 /\ pending = 0
  BY DEF Exclusive, OneHolder, HolderAlone, BufferedIdle, FlagCovers, Holds

\* Only Enqueue changes the chains, the line and what was accepted.
LEMMA OthersKeepLists ==
    ASSUME [Next]_vars, ~ \E t \in Threads : Enqueue(t) \/ EnqueueLink(t)
    PROVE  UNCHANGED <<accepted, unlinked, in_line>>
<1> USE DEF shared, lists, queue, io
<1>1. ASSUME NEW t \in Threads, Run(t) PROVE UNCHANGED <<accepted, unlinked, in_line>>
  BY <1>1 DEF Run, Drain, EnqueueCount, PendCheck, PendExchange, TryClear, TrySize, SendCheck,
     SendExchange, SendNothing, SendSomething, SendFront, SendDequeue, Q!Remove, SendCount,
     SendPost
<1>2. ASSUME NEW t \in Workers, Get(t) PROVE UNCHANGED <<accepted, unlinked, in_line>>
  BY <1>2 DEF Get, GetSendPend, GetSendDone, GetSendFailed
<1>3. ASSUME NEW t \in Senders, SendPacket(t) PROVE UNCHANGED <<accepted, unlinked, in_line>>
  BY <1>3 DEF SendPacket
<1>4. CASE SendComplete \/ Disconnected \/ UNCHANGED vars
  BY <1>4 DEF SendComplete, Disconnected, vars
<1>5. QED
  BY <1>1, <1>2, <1>3, <1>4 DEF Next

\* A new number in a chain of its own.
LEMMA TakePlaced ==
    ASSUME NEW l, NEW c \in [Senders -> Seq(Numbers)], NEW n \in Nat, OncePlaced(l, c, n),
           NEW t \in Senders
    PROVE  OncePlaced(l, [c EXCEPT ![t] = <<n + 1>>], n + 1)
<1> DEFINE d == [c EXCEPT ![t] = <<n + 1>>]
<1>1. Distinct(<<n + 1>>) /\ Elems(<<n + 1>>) = {n + 1}
  BY DEF Distinct, Elems
<1>2. n + 1 \notin 1 .. n /\ 1 .. n \subseteq 1 .. n + 1 /\ n + 1 \in 1 .. n + 1
  OBVIOUS
<1>3. \A u \in Senders : d[u] = IF u = t THEN <<n + 1>> ELSE c[u]
  OBVIOUS
<1> HIDE DEF d
<1>4. QED
  BY <1>1, <1>2, <1>3 DEF OncePlaced

\* A chain comes behind the line.
LEMMA LastPlaced ==
    ASSUME NEW l \in Seq(Numbers), NEW c \in [Senders -> Seq(Numbers)], NEW n,
           OncePlaced(l, c, n), NEW t \in Senders
    PROVE  OncePlaced(l \o c[t], [c EXCEPT ![t] = <<>>], n)
<1> DEFINE d == [c EXCEPT ![t] = <<>>]
           k == l \o c[t]
<1>1. Distinct(k) /\ Elems(k) = Elems(l) \cup Elems(c[t])
  BY ConcatDistinct DEF OncePlaced
<1>2. Distinct(<<>>) /\ Elems(<<>>) = {}
  BY EmptySeq DEF Distinct, Elems
<1>3. \A u \in Senders : d[u] = IF u = t THEN <<>> ELSE c[u]
  OBVIOUS
<1> HIDE DEF d, k
<1>4. OncePlaced(k, d, n)
  BY <1>1, <1>2, <1>3 DEF OncePlaced
<1>5. QED
  BY <1>4 DEF k, d

\* A chain comes behind another.
LEMMA BehindPlaced ==
    ASSUME NEW l, NEW c \in [Senders -> Seq(Numbers)], NEW n,
           OncePlaced(l, c, n), NEW t \in Senders, NEW u \in Senders, t # u
    PROVE  OncePlaced(l, [c EXCEPT ![u] = @ \o c[t], ![t] = <<>>], n)
<1> DEFINE d == [c EXCEPT ![u] = @ \o c[t], ![t] = <<>>]
           k == c[u] \o c[t]
<1>1. Distinct(k) /\ Elems(k) = Elems(c[u]) \cup Elems(c[t])
  BY ConcatDistinct DEF OncePlaced
<1>2. Distinct(<<>>) /\ Elems(<<>>) = {}
  BY EmptySeq DEF Distinct, Elems
<1>3. \A v \in Senders : d[v] = IF v = t THEN <<>> ELSE IF v = u THEN k ELSE c[v]
  OBVIOUS
<1> HIDE DEF d, k
<1>4. OncePlaced(l, d, n)
  BY <1>1, <1>2, <1>3 DEF OncePlaced
<1>5. QED
  BY <1>4 DEF d

\* Taking a node and linking it keep every packet in one place.
LEMMA StepPlaced ==
    ASSUME TypeOK, Counting, Placed, [Next]_vars PROVE Placed'
<1> USE DEF Placed
<1>1. ASSUME NEW t \in Threads, Enqueue(t) PROVE Placed'
  <2>1. CASE free_nodes > 0
    <3>1. /\ t \in Senders
          /\ unlinked' = [unlinked EXCEPT ![t] = <<accepted + 1>>]
          /\ accepted' = accepted + 1 /\ in_line' = in_line
      BY <1>1, <2>1 DEF Enqueue, Q!Take, Counting
    <3>2. QED
      BY <3>1, Lengths, TakePlaced
  <2>2. CASE ~(free_nodes > 0)
    BY <1>1, <2>2 DEF Enqueue
  <2>3. QED
    BY <2>1, <2>2
<1>2. ASSUME NEW t \in Threads, EnqueueLink(t) PROVE Placed'
  <2>1. t \in Senders
    BY <1>2 DEF EnqueueLink, Counting
  <2>2. CASE Q!LinkLast(t) /\ in_line' = in_line \o unlinked[t]
    <3>1. unlinked' = [unlinked EXCEPT ![t] = <<>>] /\ accepted' = accepted
      BY <2>2 DEF Q!LinkLast
    <3>2. QED
      BY <2>1, <2>2, <3>1, Lengths, LastPlaced
  <2>3. ASSUME NEW u \in Senders, Q!LinkBehind(t, u), in_line' = in_line PROVE Placed'
    <3>1. /\ unlinked' = [unlinked EXCEPT ![u] = @ \o unlinked[t], ![t] = <<>>]
          /\ accepted' = accepted /\ Head(unlinked[t]) < Head(unlinked[u])
          /\ unlinked[t] # <<>>
      BY <2>3 DEF Q!LinkBehind
    <3>2. t # u
      <4>1. unlinked[t] \in Seq(Numbers)
        BY <2>1, Lengths
      <4>2. Head(unlinked[t]) \in Numbers
        BY <3>1, <4>1, HeadTailProperties
      <4>3. \A n \in Numbers : ~(n < n)
        BY SizesAssumption DEF Numbers
      <4>4. QED
        BY <3>1, <4>2, <4>3
    <3>3. QED
      BY <2>1, <2>3, <3>1, <3>2, Lengths, BehindPlaced
  <2>4. QED
    BY <1>2, <2>2, <2>3 DEF EnqueueLink
<1>3. CASE ~ \E t \in Threads : Enqueue(t) \/ EnqueueLink(t)
  BY <1>3, OthersKeepLists
<1>4. QED
  BY <1>1, <1>2, <1>3

\* What the line has already given stays where it is when the line grows.
LEMMA GrowContinues ==
    ASSUME NEW s, NEW n \in Nat, Len(s) \in Nat, Len(in_line) \in Nat, Len(in_line') \in Nat,
           Len(in_line) <= Len(in_line'),
           \A i \in 1 .. Len(in_line) : in_line'[i] = in_line[i],
           Continues(s, n)
    PROVE  n + Len(s) <= Len(in_line') /\ \A i \in 1 .. Len(s) : s[i] = in_line'[n + i]
<1>1. n + Len(s) <= Len(in_line) /\ \A i \in 1 .. Len(s) : s[i] = in_line[n + i]
  BY DEF Continues
<1>2. ASSUME NEW i \in 1 .. Len(s) PROVE n + i \in 1 .. Len(in_line)
  BY <1>1
<1>3. QED
  BY <1>1, <1>2

\* Enqueue disturbs the pieces only by what comes into line.
LEMMA LinkPieces ==
    ASSUME TypeOK, TypeOK', Exclusive, Counting, Pieces, NEW t \in Threads, EnqueueLink(t)
    PROVE  Pieces'
<1> USE Lengths DEF Posts, Pcs, Goto, shared, lists, queue, io
<1>1. /\ UNCHANGED <<send_post_flag, buffered, send_buffer, port, pending, in_flight, sent>>
      /\ pc[t] = "link" /\ pc' = [pc EXCEPT ![t] = "count"] /\ t \in Senders
  BY DEF EnqueueLink, Counting
<1>2. CASE Q!LinkLast(t) /\ in_line' = in_line \o unlinked[t]
  <2> DEFINE c == unlinked[t]
  <2>1. c \in Seq(Numbers) /\ Len(c) \in Nat
    BY <1>1, LenProperties
  <2>2. send_q' = send_q \o c
    BY <1>2 DEF Q!LinkLast
  <2>3. /\ Len(in_line') = Len(in_line) + Len(c)
        /\ \A i \in 1 .. Len(in_line) + Len(c) :
               in_line'[i] = IF i <= Len(in_line) THEN in_line[i] ELSE c[i - Len(in_line)]
    BY <1>2, <2>1, ConcatProperties
  <2>4. /\ Len(send_q') = Len(send_q) + Len(c)
        /\ \A i \in 1 .. Len(send_q) + Len(c) :
               send_q'[i] = IF i <= Len(send_q) THEN send_q[i] ELSE c[i - Len(send_q)]
    BY <2>1, <2>2, ConcatProperties
  <2> HIDE DEF c
  <2>5. InOrder
    BY DEF Pieces
  <2>6. /\ Len(in_line') \in Nat /\ Len(in_line) <= Len(in_line')
        /\ \A i \in 1 .. Len(in_line) : in_line'[i] = in_line[i]
    BY <2>1, <2>3
  <2>7. Continues(sent, 0)'
    BY <1>1, <2>5, <2>6, GrowContinues DEF InOrder, Continues
  <2>8. Continues(send_buffer, Len(sent)) => Continues(send_buffer, Len(sent))'
    <3>1. Len(send_buffer) \in Nat /\ Len(sent) \in Nat /\ Len(in_line) \in Nat
      BY Lengths
    <3> HIDE Lengths
    <3>2. ASSUME Continues(send_buffer, Len(sent))
          PROVE  /\ Len(sent) + Len(send_buffer) <= Len(in_line')
                 /\ \A i \in 1 .. Len(send_buffer) : send_buffer[i] = in_line'[Len(sent) + i]
      BY <2>6, <3>1, <3>2, GrowContinues
    <3>3. QED
      BY <1>1, <3>2 DEF Continues
  <2>9. Len(send_q') <= Len(in_line') /\ Len(in_line') - Len(send_q') = Len(in_line) - Len(send_q)
    BY <2>1, <2>3, <2>4, <2>5 DEF InOrder
  <2>10. Continues(send_q, Len(in_line) - Len(send_q))'
    <3> DEFINE b == Len(in_line) - Len(send_q)
    <3>1. b \in Nat /\ b + Len(send_q) = Len(in_line)
      BY <2>5 DEF InOrder
    <3>2. \A i \in 1 .. Len(send_q) : send_q[i] = in_line[b + i]
      BY <2>5 DEF InOrder, Continues
    <3>3. ASSUME NEW i \in 1 .. Len(send_q') PROVE send_q'[i] = in_line'[b + i]
      <4>1. CASE i <= Len(send_q)
        <5>1. i \in 1 .. Len(send_q) /\ i \in 1 .. Len(send_q) + Len(c)
              /\ b + i \in 1 .. Len(in_line)
          BY <2>1, <2>4, <3>1, <4>1
        <5>2. send_q'[i] = send_q[i]
          BY <2>4, <4>1, <5>1
        <5>3. QED
          BY <2>6, <3>2, <5>1, <5>2
      <4>2. CASE ~(i <= Len(send_q))
        <5>1. b + i \in 1 .. Len(in_line) + Len(c) /\ ~(b + i <= Len(in_line))
              /\ (b + i) - Len(in_line) = i - Len(send_q)
          BY <2>1, <2>4, <3>1, <4>2
        <5>2. QED
          BY <2>3, <2>4, <4>2, <5>1
      <4>3. QED
        BY <4>1, <4>2
    <3>4. b + Len(send_q') <= Len(in_line') /\ b = Len(in_line') - Len(send_q')
      BY <2>1, <2>3, <2>4, <3>1
    <3>5. QED
      BY <3>3, <3>4 DEF Continues
  <2>11. InOrder'
    BY <2>7, <2>9, <2>10 DEF InOrder
  <2>12. /\ Clean => Clean'
         /\ Filling(0) => Filling(0)'
         /\ Filling(1) => Filling(1)'
         /\ Len(sent) + Len(send_q) = Len(in_line) => Len(sent') + Len(send_q') = Len(in_line')
    <3>1. Len(sent') = Len(sent) /\ Len(send_buffer') = Len(send_buffer)
      BY <1>1
    <3>2. /\ Len(sent) \in Nat /\ Len(send_buffer) \in Nat
          /\ Len(send_q) \in Nat /\ Len(in_line) \in Nat
      BY Lengths
    <3>3. ASSUME NEW k \in {0, 1}, Len(sent) + Len(send_buffer) + Len(send_q) = Len(in_line) + k
          PROVE  Len(sent') + Len(send_buffer') + Len(send_q') = Len(in_line') + k
      <4> HIDE Lengths
      <4>1. Len(sent) + Len(send_buffer) + (Len(send_q) + Len(c)) = (Len(in_line) + Len(c)) + k
        BY <2>1, <3>3, <3>2
      <4>2. QED
        BY <2>3, <2>4, <3>1, <4>1
    <3>4. ASSUME Len(sent) + Len(send_q) = Len(in_line)
          PROVE  Len(sent') + Len(send_q') = Len(in_line')
      <4> HIDE Lengths
      <4>1. Len(sent) + (Len(send_q) + Len(c)) = Len(in_line) + Len(c)
        BY <2>1, <3>4, <3>2
      <4>2. QED
        BY <2>3, <2>4, <3>1, <4>1
    <3>5. QED
      BY <1>1, <2>8, <3>3, <3>4 DEF Clean, Filling
  <2>13. \A o \in Threads : Meet(o)'
    BY <1>1, <2>12 DEF Pieces, Meet
  <2>14. QED
    BY <1>1, <2>11, <2>12, <2>13 DEF Pieces
<1>3. CASE (\E u \in Senders : Q!LinkBehind(t, u)) /\ in_line' = in_line
  <2>1. send_q' = send_q
    BY <1>3 DEF Q!LinkBehind
  <2>2. QED
    BY <1>1, <1>3, <2>1 DEF Pieces, InOrder, Continues, Meet, Clean, Filling
<1>4. QED
  BY <1>2, <1>3 DEF EnqueueLink

\* Every step keeps sent, send_buffer and send_q pieces of the line.
LEMMA StepPieces ==
    ASSUME TypeOK, TypeOK', Exclusive, Counting, Pieces, [Next]_vars PROVE Pieces'
<1> USE Lengths DEF Posts, Pcs, Goto, shared, lists, queue, io
<1>1. ASSUME NEW t \in Threads, Drain(t) PROVE Pieces'
  BY <1>1 DEF Drain, Pieces, InOrder, Continues, Meet, Clean, Filling
<1>2. ASSUME NEW t \in Threads, Enqueue(t) PROVE Pieces'
  <2>1. UNCHANGED <<send_post_flag, buffered, send_buffer, port, pending, in_flight, sent,
                    send_q, in_line>>
    BY <1>2 DEF Enqueue, Q!Take
  <2>2. pc' = [pc EXCEPT ![t] = "link"] \/ pc' = [pc EXCEPT ![t] = "idle"]
    BY <1>2 DEF Enqueue
  <2>3. QED
    BY <2>1, <2>2 DEF Pieces, InOrder, Continues, Meet, Clean, Filling
<1>3. ASSUME NEW t \in Threads, EnqueueLink(t) PROVE Pieces'
  BY <1>3, LinkPieces
<1>4. ASSUME NEW t \in Threads, EnqueueCount(t) PROVE Pieces'
  BY <1>4 DEF EnqueueCount, Pieces, InOrder, Continues, Meet, Clean, Filling
<1>5. ASSUME NEW t \in Threads, PendCheck(t) PROVE Pieces'
  BY <1>5 DEF PendCheck, Pieces, InOrder, Continues, Meet, Clean, Filling
<1>6. ASSUME NEW t \in Threads, PendExchange(t) PROVE Pieces'
  BY <1>6 DEF PendExchange, ExchangeTrue, Pieces, InOrder, Continues, Meet, Clean, Filling
<1>7. ASSUME NEW t \in Threads, TryClear(t) PROVE Pieces'
  BY <1>7 DEF TryClear, StoreFalse, Pieces, InOrder, Continues, Meet, Clean, Filling
<1>8. ASSUME NEW t \in Threads, TrySize(t) PROVE Pieces'
  BY <1>8 DEF TrySize, Pieces, InOrder, Continues, Meet, Clean, Filling
<1>9. ASSUME NEW t \in Threads, SendCheck(t) PROVE Pieces'
  BY <1>9 DEF SendCheck, Pieces, InOrder, Continues, Meet, Clean, Filling
<1>10. ASSUME NEW t \in Threads, SendExchange(t) PROVE Pieces'
  BY <1>10 DEF SendExchange, ExchangeTrue, Pieces, InOrder, Continues, Meet, Clean, Filling
<1>11. ASSUME NEW t \in Threads, SendNothing(t) PROVE Pieces'
  BY <1>11 DEF SendNothing, StoreFalse, Pieces, InOrder, Continues, Meet, Clean, Filling
<1>12. ASSUME NEW t \in Threads, SendSomething(t) PROVE Pieces'
  <2>1. Clean /\ Len(send_buffer) = 0
    BY <1>12 DEF SendSomething, Pieces, Meet, Clean
  <2>2. Filling(0)
    BY <2>1 DEF Clean, Filling, Continues
  <2>3. QED
    BY <1>12, <2>2 DEF SendSomething, Pieces, InOrder, Continues, Meet, Clean, Filling
<1>13. ASSUME NEW t \in Threads, SendFront(t) PROVE Pieces'
  <2>1. /\ \A o \in Threads \ {t} : ~Holds(o)
        /\ t \notin buffered /\ send_post_flag = 1 /\ port["SEND_PEND"] = 0 /\ pending = 0
    BY <1>13, Alone DEF SendFront, Owns
  <2>2. Filling(0) /\ InOrder
    BY <1>13 DEF SendFront, Pieces, Meet
  <2>3. UNCHANGED <<send_post_flag, buffered, send_q, in_line, port, pending, in_flight, sent>>
    BY <1>13 DEF SendFront
  <2>4. CASE send_q # <<>> /\ Len(send_buffer) < MaxBatch
    <3>1. /\ send_buffer' = Append(send_buffer, Head(send_q))
          /\ pc' = [pc EXCEPT ![t] = "sp_dequeue"]
      BY <1>13, <2>4 DEF SendFront
    <3>2. /\ Head(send_q) = in_line[Len(in_line) - Len(send_q) + 1]
          /\ Head(send_q) \in Numbers /\ Len(send_q) >= 1
      <4>1. Len(in_line) - Len(send_q) \in Nat
        BY <2>2 DEF InOrder
      <4>2. QED
        BY <2>2, <2>4, <4>1, TailContinues, HeadTailProperties DEF InOrder
    <3>3. /\ Len(in_line) - Len(send_q) + 1 = Len(sent) + Len(send_buffer) + 1
          /\ Len(sent) + Len(send_buffer) + 1 <= Len(in_line)
      <4>1. Len(sent) + Len(send_buffer) + Len(send_q) = Len(in_line)
        BY <2>2 DEF Filling
      <4>2. Len(sent) \in Nat /\ Len(send_buffer) \in Nat /\ Len(in_line) \in Nat
        BY Lengths
      <4>3. QED
        <5> HIDE Lengths
        <5>1. QED
          BY <3>2, <4>1, <4>2
    <3>4. /\ Continues(send_buffer', Len(sent))
          /\ Len(send_buffer') = Len(send_buffer) + 1
      <4>1. /\ Continues(send_buffer, Len(sent))
            /\ Head(send_q) = in_line[Len(sent) + Len(send_buffer) + 1]
        BY <2>2, <3>2, <3>3 DEF Filling
      <4>2. /\ Continues(Append(send_buffer, Head(send_q)), Len(sent))
            /\ Len(Append(send_buffer, Head(send_q))) = Len(send_buffer) + 1
        <5>1. send_buffer \in Seq(Numbers) /\ Len(sent) \in Nat /\ Len(in_line) \in Nat
          BY Lengths
        <5> HIDE Lengths
        <5>2. QED
          BY <3>2, <3>3, <4>1, <5>1, AppendContinues
      <4>3. QED
        BY <3>1, <4>2
    <3>5. Filling(1)'
      <4>1. Continues(send_buffer, Len(sent))'
        BY <2>3, <3>4 DEF Continues
      <4>2. Len(sent) + Len(send_buffer) + Len(send_q) = Len(in_line)
        BY <2>2 DEF Filling
      <4>3. Len(sent') + Len(send_buffer') + Len(send_q') = Len(in_line') + 1
        <5>1. Len(sent) \in Nat /\ Len(send_buffer) \in Nat /\ Len(in_line) \in Nat
          BY Lengths
        <5>2. QED
          <6> HIDE Lengths
          <6>1. QED
            BY <2>3, <3>4, <4>2, <5>1
      <4>4. QED
        BY <4>1, <4>3 DEF Filling
    <3>6. InOrder'
      BY <2>2, <2>3 DEF InOrder, Continues
    <3>7. QED
      BY <2>1, <2>3, <3>1, <3>5, <3>6 DEF Pieces, Meet, Holds, Owns
  <2>5. CASE ~(send_q # <<>> /\ Len(send_buffer) < MaxBatch)
    BY <1>13, <2>2, <2>3, <2>5 DEF SendFront, Pieces, InOrder, Continues, Meet, Clean, Filling
  <2>6. QED
    BY <2>4, <2>5
<1>14. ASSUME NEW t \in Threads, SendDequeue(t) PROVE Pieces'
  <2>1. /\ \A o \in Threads \ {t} : ~Holds(o)
        /\ t \notin buffered /\ send_post_flag = 1 /\ port["SEND_PEND"] = 0 /\ pending = 0
    BY <1>14, Alone DEF SendDequeue, Owns
  <2>2. Filling(1) /\ InOrder
    BY <1>14 DEF SendDequeue, Pieces, Meet
  <2>3. /\ UNCHANGED <<send_post_flag, buffered, send_buffer, in_line, port, pending,
                       in_flight, sent>>
        /\ send_q' = Tail(send_q) /\ send_q # <<>> /\ pc' = [pc EXCEPT ![t] = "sp_count"]
    BY <1>14 DEF SendDequeue, Q!Remove
  <2>4. /\ Len(send_q) >= 1 /\ Len(send_q') = Len(send_q) - 1
        /\ Continues(send_q', Len(in_line) - Len(send_q) + 1)
    <3>1. Len(in_line) - Len(send_q) \in Nat
      BY <2>2 DEF InOrder
    <3>2. QED
      BY <2>2, <2>3, <3>1, TailContinues DEF InOrder
  <2>5. Len(in_line') - Len(send_q') = Len(in_line) - Len(send_q) + 1
    BY <2>3, <2>4
  <2>6. InOrder'
    BY <2>2, <2>3, <2>4, <2>5 DEF InOrder, Continues
  <2>7. Filling(0)'
    <3>1. Continues(send_buffer, Len(sent))'
      BY <2>2, <2>3 DEF Filling, Continues
    <3>2. Len(sent) + Len(send_buffer) + (Len(send_q) - 1) = Len(in_line)
      BY <2>2 DEF Filling
    <3>3. QED
      BY <2>3, <2>4, <3>1, <3>2 DEF Filling
  <2>8. QED
    BY <2>1, <2>3, <2>6, <2>7 DEF Pieces, Meet, Holds, Owns
<1>15. ASSUME NEW t \in Threads, SendCount(t) PROVE Pieces'
  BY <1>15 DEF SendCount, Pieces, InOrder, Continues, Meet, Clean, Filling
<1>16. ASSUME NEW t \in Threads, SendPost(t) PROVE Pieces'
  <2>1. /\ \A o \in Threads \ {t} : ~Holds(o)
        /\ t \notin buffered /\ send_post_flag = 1 /\ port["SEND_PEND"] = 0 /\ pending = 0
    BY <1>16, Alone DEF SendPost, Owns
  <2>2. Filling(0) /\ InOrder
    BY <1>16 DEF SendPost, Pieces, Meet
  <2>3. /\ UNCHANGED <<send_post_flag, buffered, send_q, in_line, send_buffer, port>>
        /\ pc' = [pc EXCEPT ![t] = "idle"]
    BY <1>16 DEF SendPost
  <2>4. CASE sent' = sent \o send_buffer /\ pending' = 1 /\ in_flight' = Len(send_buffer)
    <3>1. Continues(sent', 0) /\ Len(sent') = Len(sent) + Len(send_buffer)
      BY <2>2, <2>4, ConcatContinues DEF Filling, InOrder
    <3>2. InOrder' /\ Len(sent') + Len(send_q') = Len(in_line')
      BY <2>2, <2>3, <3>1 DEF Filling, InOrder, Continues
    <3>3. QED
      BY <2>1, <2>3, <2>4, <3>2 DEF Pieces, Meet, Holds, Owns
  <2>5. CASE UNCHANGED <<sent, pending, in_flight>>
    BY <2>1, <2>2, <2>3, <2>5 DEF Pieces, InOrder, Continues, Meet, Holds, Owns
  <2>6. QED
    BY <1>16, <2>4, <2>5 DEF SendPost
<1>17. ASSUME NEW t \in Workers, GetSendPend(t) PROVE Pieces'
  BY <1>17 DEF GetSendPend, Threads, Pieces, InOrder, Continues, Meet, Clean, Filling
<1>18. ASSUME NEW t \in Workers, GetSendDone(t) PROVE Pieces'
  <2>1. pending = 1 /\ \A o \in Threads : ~Holds(o)
    BY <1>18 DEF GetSendDone, Exclusive, DoneInFlight, HolderAlone
  <2>2. port["SEND_PEND"] = 0 /\ send_post_flag = 1
    BY <2>1 DEF Exclusive, PendAlone, FlagCovers
  <2>3. /\ in_flight = Len(send_buffer) /\ Len(sent) + Len(send_q) = Len(in_line)
        /\ InOrder
    BY <2>1 DEF Pieces
  <2>4. /\ UNCHANGED <<send_post_flag, buffered, send_q, in_line, sent>>
        /\ pending' = 0 /\ port'["SEND_PEND"] = 0
    BY <1>18, <2>2 DEF GetSendDone
  <2>5. CASE disconnect = 0
    <3>1. send_buffer' = <<>>
      <4>1. send_buffer' = SubSeq(send_buffer, Len(send_buffer) + 1, Len(send_buffer))
        BY <1>18, <2>3, <2>5 DEF GetSendDone
      <4>2. Len(send_buffer') = 0
        BY <4>1, SubSeqProperties
      <4>3. QED
        BY <4>2, EmptySeq DEF TypeOK
    <3>2. Clean'
      BY <2>3, <2>4, <3>1 DEF Clean
    <3>3. pc' = [pc EXCEPT ![t] = "try_clear"]
      BY <1>18, <2>5 DEF GetSendDone
    <3>4. QED
      BY <2>1, <2>3, <2>4, <3>2, <3>3 DEF Pieces, InOrder, Continues, Meet, Holds, Owns
  <2>6. CASE disconnect # 0
    BY <1>18, <2>1, <2>2, <2>3, <2>4, <2>6
       DEF GetSendDone, Pieces, InOrder, Continues, Meet, Holds, Owns
  <2>7. QED
    BY <2>5, <2>6
<1>19. ASSUME NEW t \in Workers, GetSendFailed(t) PROVE Pieces'
  BY <1>19 DEF GetSendFailed, Pieces, InOrder, Continues, Meet, Clean, Filling
<1>20. ASSUME NEW t \in Senders, SendPacket(t) PROVE Pieces'
  BY <1>20 DEF SendPacket, Threads, Pieces, InOrder, Continues, Meet, Clean, Filling
<1>21. CASE SendComplete
  BY <1>21 DEF SendComplete, Pieces, InOrder, Continues, Meet, Clean, Filling
<1>22. CASE Disconnected
  BY <1>22 DEF Disconnected, Pieces, InOrder, Continues, Meet, Clean, Filling
<1>23. CASE UNCHANGED vars
  BY <1>23 DEF vars, Pieces, InOrder, Continues, Meet, Clean, Filling
<1>24. QED
  BY <1>1, <1>2, <1>3, <1>4, <1>5, <1>6, <1>7, <1>8, <1>9, <1>10, <1>11, <1>12, <1>13,
     <1>14, <1>15, <1>16, <1>17, <1>18, <1>19, <1>20, <1>21, <1>22, <1>23
     DEF Next, Run, Get

\* At the start everything is empty.
LEMMA InitPieces == Init => Pieces /\ Placed
<1> SUFFICES ASSUME Init PROVE Pieces /\ Placed
  OBVIOUS
<1>1. Len(<<>>) = 0
  BY EmptySeq
<1>2. Clean /\ InOrder
  BY <1>1 DEF Init, Clean, InOrder, Continues
<1>3. Pieces
  BY <1>2 DEF Init, Pieces, Meet, Posts
<1>4. Placed
  <2>1. Distinct(<<>>) /\ Elems(<<>>) = {}
    BY <1>1 DEF Distinct, Elems
  <2>2. in_line = <<>> /\ \A t \in Senders : unlinked[t] = <<>>
    BY DEF Init
  <2>3. QED
    BY <2>1, <2>2 DEF Placed, OncePlaced
<1>5. QED
  BY <1>3, <1>4

\* A sequence is a prefix of itself and of what continues it.
LEMMA PrefixOfConcat ==
    ASSUME NEW s \in Seq(Numbers), NEW r \in Seq(Numbers), r # <<>>
    PROVE  Channel!IsPrefix(s, s \o r) /\ s \o r # s
<1>1. Len(s) \in Nat /\ Len(r) \in Nat /\ Len(r) # 0
  BY LenProperties, EmptySeq
<1>2. /\ Len(s \o r) = Len(s) + Len(r)
      /\ \A i \in 1 .. Len(s) + Len(r) :
             (s \o r)[i] = IF i <= Len(s) THEN s[i] ELSE r[i - Len(s)]
  BY ConcatProperties
<1>3. QED
  BY <1>1, <1>2 DEF Channel!IsPrefix

\* Every step of the send path is one of the channel, or none.
LEMMA StepChannel ==
    ASSUME TypeOK, TypeOK', Counting, Pieces, Placed', [Next]_vars
    PROVE  [Channel!Next]_(Channel!vars)
<1> USE DEF Channel!vars, Channel!Next, shared, lists, queue, io
<1>1. ASSUME NEW t \in Threads, Enqueue(t) PROVE [Channel!Next]_(Channel!vars)
  BY <1>1 DEF Enqueue, Q!Take, Channel!Accept, Channel!Break
<1>2. ASSUME NEW t \in Threads, EnqueueLink(t) PROVE [Channel!Next]_(Channel!vars)
  <2>1. CASE Q!LinkLast(t) /\ in_line' = in_line \o unlinked[t]
    <3>1. t \in Senders
      BY <1>2 DEF EnqueueLink, Counting
    <3>2. unlinked[t] \in Seq(Numbers) /\ unlinked[t] # <<>> /\ accepted' = accepted
      BY <2>1, <3>1, Lengths DEF Q!LinkLast
    <3>3. in_line' # in_line /\ Channel!IsPrefix(in_line, in_line')
      BY <2>1, <3>2, Lengths, PrefixOfConcat
    <3>4. /\ \A i \in 1 .. Len(in_line') : in_line'[i] \in 1 .. accepted
          /\ \A i, j \in 1 .. Len(in_line') : in_line'[i] = in_line'[j] => i = j
      BY <3>2 DEF Placed, OncePlaced, Distinct, Elems
    <3>5. QED
      BY <1>2, <3>2, <3>3, <3>4 DEF EnqueueLink, Channel!Join
  <2>2. CASE (\E u \in Senders : Q!LinkBehind(t, u)) /\ in_line' = in_line
    BY <1>2, <2>2 DEF EnqueueLink, Q!LinkBehind
  <2>3. QED
    BY <1>2, <2>1, <2>2 DEF EnqueueLink
<1>3. ASSUME NEW t \in Threads, SendPost(t) PROVE [Channel!Next]_(Channel!vars)
  <2>1. CASE sent' = sent \o send_buffer /\ UNCHANGED disconnect
    <3>1. Filling(0) /\ InOrder /\ UNCHANGED <<accepted, in_line>>
      BY <1>3 DEF SendPost, Pieces, Meet
    <3>2. CASE send_buffer = <<>>
      BY <2>1, <3>1, <3>2, Lengths, ConcatEmptySeq
    <3>3. CASE send_buffer # <<>>
      <4>1. sent' # sent /\ Channel!IsPrefix(sent, sent')
        BY <2>1, <3>3, Lengths, PrefixOfConcat
      <4>2. Continues(sent', 0)
        BY <2>1, <3>1, Lengths, ConcatContinues DEF Filling, InOrder
      <4>3. Channel!IsPrefix(sent', in_line)
        <5>1. Len(sent') \in Nat
          BY LenProperties DEF TypeOK
        <5>2. QED
          BY <4>2, <5>1, Lengths DEF Continues, Channel!IsPrefix
      <4>4. QED
        BY <2>1, <3>1, <4>1, <4>3 DEF Channel!Deliver
    <3>4. QED
      BY <3>2, <3>3
  <2>2. CASE disconnect' = 1 /\ UNCHANGED sent
    BY <1>3, <2>2 DEF SendPost, Channel!Break
  <2>3. QED
    BY <1>3, <2>1, <2>2 DEF SendPost
<1>4. ASSUME NEW t \in Threads, Run(t), ~Enqueue(t), ~EnqueueLink(t), ~SendPost(t)
      PROVE  [Channel!Next]_(Channel!vars)
  BY <1>4
     DEF Run, Drain, EnqueueCount, PendCheck, PendExchange, TryClear, TrySize, SendCheck,
         SendExchange, SendNothing, SendSomething, SendFront, SendDequeue, Q!Remove, SendCount
<1>5. ASSUME NEW t \in Workers, Get(t) PROVE [Channel!Next]_(Channel!vars)
  BY <1>5 DEF Get, GetSendPend, GetSendDone, GetSendFailed, Channel!Break
<1>6. ASSUME NEW t \in Senders, SendPacket(t) PROVE [Channel!Next]_(Channel!vars)
  BY <1>6 DEF SendPacket
<1>7. CASE SendComplete \/ Disconnected \/ UNCHANGED vars
  BY <1>7 DEF SendComplete, Disconnected, Channel!Break, vars
<1>8. QED
  BY <1>1, <1>2, <1>3, <1>4, <1>5, <1>6, <1>7 DEF Next

\* The packets SendPacket accepted come into the line of send_q once each, however their
\* Enqueues get in each other's way, and reach WSASend once each in the order of that line,
\* whatever the threads, the memory and the times at which send_q or send_buffer is full
\* (CNetServer.cpp:660-735, 871-1001, LockFreeQueue.h:68-195).
THEOREM ChannelImplemented == Spec => ImplementsChannel
<1>1. Init => Channel!Init
  BY DEF Init, Channel!Init
<1>2. TypeOK /\ TypeOK' /\ Counting /\ Pieces /\ Placed' /\ [Next]_vars
        => [Channel!Next]_(Channel!vars)
  BY StepChannel
<1>3. TypeOK /\ TypeOK' /\ Exclusive /\ Counting /\ Pieces /\ [Next]_vars => Pieces'
  BY StepPieces
<1>4. TypeOK /\ Counting /\ Placed /\ [Next]_vars => Placed'
  BY StepPlaced
<1>5. QED
  BY <1>1, <1>2, <1>3, <1>4, InitPieces, SendingCorrect, PTL
     DEF Spec, ImplementsChannel, Channel!Spec

-----------------------------------------------------------------------------
(***************************************************************************)
(* With several senders the line is not the order of acceptance.  With one *)
(* it is: the chain of a lone sender is at most the packet it is linking.  *)
(***************************************************************************)

InAcceptanceOrder == \A i \in 1 .. Len(in_line) : in_line[i] = i

LoneChain(t) == /\ InAcceptanceOrder
                /\ \/ unlinked[t] = <<>> /\ Len(in_line) = accepted
                   \/ unlinked[t] = <<accepted>> /\ Len(in_line) + 1 = accepted

\* A lone sender's packets come into line as they were accepted.
LEMMA StepLoneChain ==
    ASSUME NEW s, Senders = {s}, TypeOK, Counting, LoneChain(s), [Next]_vars
    PROVE  LoneChain(s)'
<1> USE DEF LoneChain, InAcceptanceOrder
<1>1. /\ in_line \in Seq(Numbers) /\ Len(in_line) \in Nat /\ accepted \in Nat
      /\ unlinked \in [{s} -> Seq(Numbers)]
  BY Lengths
<1>2. ASSUME NEW t \in Threads, Enqueue(t) PROVE LoneChain(s)'
  <2>1. CASE free_nodes > 0
    <3>1. /\ t = s /\ unlinked[s] = <<>> /\ unlinked' = [unlinked EXCEPT ![s] = <<accepted + 1>>]
          /\ accepted' = accepted + 1 /\ in_line' = in_line
      BY <1>2, <2>1 DEF Enqueue, Q!Take, Counting
    <3>2. Len(in_line) = accepted
      BY <3>1
    <3>3. unlinked'[s] = <<accepted'>>
      BY <1>1, <3>1
    <3>4. QED
      BY <1>1, <3>1, <3>2, <3>3
  <2>2. CASE ~(free_nodes > 0)
    BY <1>2, <2>2 DEF Enqueue
  <2>3. QED
    BY <2>1, <2>2
<1>3. ASSUME NEW t \in Threads, EnqueueLink(t) PROVE LoneChain(s)'
  <2>1. t = s
    BY <1>3 DEF EnqueueLink, Counting
  <2>2. CASE Q!LinkLast(t) /\ in_line' = in_line \o unlinked[t]
    <3>1. /\ unlinked[s] # <<>> /\ unlinked' = [unlinked EXCEPT ![s] = <<>>]
          /\ accepted' = accepted
      BY <2>1, <2>2 DEF Q!LinkLast
    <3>2. unlinked[s] = <<accepted>> /\ Len(in_line) + 1 = accepted /\ unlinked[s] \in Seq(Numbers)
      BY <1>1, <3>1
    <3>3. /\ Len(in_line') = Len(in_line) + 1
          /\ \A i \in 1 .. Len(in_line) + 1 :
                 in_line'[i] = IF i <= Len(in_line) THEN in_line[i]
                               ELSE <<accepted>>[i - Len(in_line)]
      BY <1>1, <2>1, <2>2, <3>2, ConcatProperties
    <3>4. ASSUME NEW i \in 1 .. Len(in_line') PROVE in_line'[i] = i
      <4>1. CASE i <= Len(in_line)
        BY <1>1, <3>3, <4>1
      <4>2. CASE ~(i <= Len(in_line))
        <5>1. i = accepted /\ i - Len(in_line) = 1
          BY <1>1, <3>2, <3>3, <4>2
        <5>2. QED
          BY <3>3, <4>2, <5>1
      <4>3. QED
        BY <4>1, <4>2
    <3>5. unlinked'[s] = <<>>
      BY <1>1, <3>1
    <3>6. QED
      BY <3>1, <3>2, <3>3, <3>4, <3>5
  <2>3. ASSUME Q!LinkBehind(s, s) PROVE FALSE
    <3>1. unlinked[s] \in Seq(Numbers) /\ unlinked[s] # <<>>
      BY <1>1, <2>3 DEF Q!LinkBehind
    <3>2. Head(unlinked[s]) \in Numbers
      BY <3>1, HeadTailProperties
    <3>3. \A n \in Numbers : ~(n < n)
      BY SizesAssumption DEF Numbers
    <3>4. QED
      BY <2>3, <3>2, <3>3 DEF Q!LinkBehind
  <2>4. QED
    BY <1>3, <2>1, <2>2, <2>3 DEF EnqueueLink
<1>4. CASE ~ \E t \in Threads : Enqueue(t) \/ EnqueueLink(t)
  BY <1>4, OthersKeepLists
<1>5. QED
  BY <1>2, <1>3, <1>4

\* When one thread calls SendPacket for a session, packet n is the n-th of the line, so that
\* with ChannelImplemented the packets reach the socket in the order of their acceptance.
THEOREM OneSenderKeepsOrder ==
    ASSUME NEW s, Senders = {s} PROVE Spec => []InAcceptanceOrder
<1>1. Init => LoneChain(s)
  <2>1. Len(<<>>) = 0
    BY EmptySeq
  <2>2. QED
    BY <2>1 DEF Init, LoneChain, InAcceptanceOrder
<1>2. TypeOK /\ Counting /\ LoneChain(s) /\ [Next]_vars => LoneChain(s)'
  BY StepLoneChain
<1>3. LoneChain(s) => InAcceptanceOrder
  BY DEF LoneChain
<1>4. QED
  BY <1>1, <1>2, <1>3, SendingCorrect, PTL DEF Spec
=============================================================================
