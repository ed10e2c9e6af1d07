--------------------------- MODULE NetServerProof ---------------------------
(***************************************************************************)
(* Types, the reference count, the slots and the sessions of the life      *)
(* cycle, for any number of slots, workers and sessions.  What a step may  *)
(* do depends on where its thread is, so TypeOK is not inductive: Control  *)
(* says which function contexts each location may be reached in, that a    *)
(* thread away from its loop works on a Session, and that a thread in the  *)
(* public API has a call to answer.                                        *)
(***************************************************************************)
EXTENDS NetServer, FiniteSetTheorems, TLAPS

\* Locations inside SendPacket and DisconnectSession, and in runAcceptThread.
ApiLocations == {"api_inc", "api_flag", "api_id", "enqueue"}
AccLocations == {"accept", "acc_inc", "acc_init", "acc_open", "acc_count", "acc_join"}

\* What t is doing at its location.
ControlOf(t) ==
    /\ pc[t] = Home(t) => own[t] = NoSlot /\ ctx[t] = "io"
    /\ pc[t] # Home(t) => own[t] \in Slots
    /\ ctx[t] \in {"frame", "decode"} => pc[t] \in {"disc_xchg", "disc_cancel"}
    /\ ctx[t] = "postfail" => pc[t] \in {"dec", "rp_cas", "rp_post", "crash"}
    /\ ctx[t] = "api" =>
        /\ call[t] \in Calls
        /\ pc[t] \in ApiLocations \cup {"pend_check", "pend_xchg", "disc_xchg",
                        "disc_cancel", "dec", "rp_cas", "rp_post", "crash"}
    /\ pc[t] \in ApiLocations => ctx[t] = "api"
    /\ pc[t] \in AccLocations => t = Acceptor

\* The accept thread passes its session bound once per session.
Control == /\ \A t \in Threads : ControlOf(t)
           /\ pc[Acceptor] \in {"acc_inc", "acc_init"} => m_sessID <= MaxId

\* Each thread has the loop it was started in.
LEMMA HomeOf == /\ \A t \in Workers : Home(t) = "gqcs"
                /\ Home(Acceptor) = "accept" /\ Home(Timer) = "tick"
                /\ \A t \in Threads : Home(t) \in {"accept", "gqcs", "tick"}
                /\ \A t \in Threads : Home(t) = "accept" => t = Acceptor
  BY ThreadsAssumption DEF Home, Threads


\* A thread goes to l, in the same function context.
LEMMA GotoControl ==
  ASSUME TypeOK, Control, NEW t \in Threads, NEW l \in Locations, Goto(t, l),
         m_sessID' = m_sessID, pc[t] # Home(t), l \notin {"accept", "gqcs", "tick"},
         ctx[t] \in {"frame", "decode"} => l \in {"disc_xchg", "disc_cancel"},
         ctx[t] = "postfail" => l \in {"dec", "rp_cas", "rp_post", "crash"},
         ctx[t] = "api" => l \in ApiLocations \cup {"pend_check", "pend_xchg",
           "disc_xchg",
                        "disc_cancel", "dec", "rp_cas", "rp_post", "crash"},
         l \in ApiLocations => ctx[t] = "api",
         l \notin AccLocations
  PROVE  Control'
<1>1. \A u \in Threads : ControlOf(u)'
  <2> SUFFICES ASSUME NEW u \in Threads PROVE ControlOf(u)'
    OBVIOUS
  <2>1. CASE u = t
    BY <2>1, HomeOf DEF Control, ControlOf, Goto, Home, TypeOK
  <2>2. CASE u # t
    BY <2>2 DEF Control, ControlOf, Goto, Home, TypeOK
  <2>3. QED
    BY <2>1, <2>2
<1>2. QED
  BY <1>1, ThreadsAssumption DEF Control, Goto, AccLocations, TypeOK, Threads

\* A thread goes to l as the callee of c.
LEMMA EnterControl ==
  ASSUME TypeOK, Control, NEW t \in Threads, NEW l \in Locations, NEW c \in Contexts,
         Enter(t, l, c), m_sessID' = m_sessID, pc[t] # Home(t),
         l \notin {"accept", "gqcs", "tick"} \cup ApiLocations \cup AccLocations,
         c \in {"frame", "decode"} => l \in {"disc_xchg", "disc_cancel"},
         c = "postfail" => l \in {"dec", "rp_cas", "rp_post", "crash"},
         c = "api" => ctx[t] = "api" /\ l \in {"pend_check", "pend_xchg", "disc_xchg",
                        "disc_cancel", "dec", "rp_cas", "rp_post", "crash"}
  PROVE  Control'
<1>1. \A u \in Threads : ControlOf(u)'
  <2> SUFFICES ASSUME NEW u \in Threads PROVE ControlOf(u)'
    OBVIOUS
  <2>1. CASE u = t
    BY <2>1, HomeOf DEF Control, ControlOf, Enter, Home, TypeOK
  <2>2. CASE u # t
    BY <2>2 DEF Control, ControlOf, Enter, Home, TypeOK
  <2>3. QED
    BY <2>1, <2>2
<1>2. QED
  BY <1>1, ThreadsAssumption DEF Control, Enter, AccLocations, TypeOK, Threads

\* A thread that leaves updateIOCount.
LEMMA ReturnControl ==
  ASSUME TypeOK, Control, NEW t \in Threads, pc[t] \in {"dec", "rp_cas", "rp_post"},
         Return(t), UNCHANGED m_sessID
  PROVE  /\ pc' \in [Threads -> Locations]
         /\ own' \in [Threads -> Slots \cup {NoSlot}]
         /\ call' \in [Threads -> Calls \cup {NoCall}]
         /\ ctx' \in [Threads -> Contexts]
         /\ Control'
<1> USE DEF TypeOK, Control
<1>0. /\ pc[t] # Home(t) /\ own[t] \in Slots /\ Home(t) \in Locations
      /\ t = Acceptor => Home(t) = "accept"
  BY HomeOf DEF ControlOf, Locations
<1>1. CASE ctx[t] = "postfail"
  <2>1. /\ pc' = [pc EXCEPT ![t] = "disc_xchg"] /\ ctx' = [ctx EXCEPT ![t] = "io"]
        /\ own' = own /\ call' = call
    BY <1>1 DEF Return
  <2>2. \A u \in Threads : ControlOf(u)'
    BY <1>0, <2>1, HomeOf DEF ControlOf, Home, ApiLocations, AccLocations
  <2>3. QED
    BY <2>1, <2>2 DEF Locations, Contexts
<1>2. CASE ctx[t] = "api"
  <2>1. /\ \E l \in {"onrecv", "dec"} : pc' = [pc EXCEPT ![t] = l]
        /\ ctx' = [ctx EXCEPT ![t] = "io"]
        /\ own' = own /\ call' = [call EXCEPT ![t] = NoCall]
    BY <1>2 DEF Return
  <2>2. \A u \in Threads : ControlOf(u)'
    BY <1>0, <2>1, HomeOf DEF ControlOf, Home, ApiLocations, AccLocations
  <2>3. QED
    BY <2>1, <2>2 DEF Locations, Contexts
<1>3. CASE ctx[t] \notin {"postfail", "api"}
  <2>1. /\ pc' = [pc EXCEPT ![t] = Home(t)] /\ own' = [own EXCEPT ![t] = NoSlot]
        /\ ctx' = ctx /\ call' = call
    BY <1>3 DEF Return
  <2>2. ctx[t] = "io"
    BY <1>3 DEF Contexts, ControlOf
  <2>3. \A u \in Threads : ControlOf(u)'
    BY <1>0, <2>1, <2>2, HomeOf DEF ControlOf, Home, ApiLocations, AccLocations
  <2>4. QED
    BY <1>0, <2>1, <2>3 DEF Locations
<1>4. QED
  BY <1>1, <1>2, <1>3

\* Types and control are kept by every step.
LEMMA NextTyped == TypeOK /\ Control /\ [Next]_vars => TypeOK' /\ Control'
<1> SUFFICES ASSUME TypeOK, Control, [Next]_vars PROVE TypeOK' /\ Control'
  OBVIOUS
<1>1. CASE Accept
  <2>1. TypeOK'
    BY <1>1, HomeOf
    DEF Accept, Goto, session, server, kernel, app, Threads,
        TypeOK, Control, ControlOf, Locations, Contexts, ApiLocations, AccLocations
  <2>2. Control'
    BY <1>1, HomeOf
    DEF Accept, Goto, session, server, kernel, app, Threads,
        TypeOK, Control, ControlOf, Locations, Contexts, ApiLocations, AccLocations
  <2>3. QED
    BY <2>1, <2>2
<1>2. CASE AcceptInc
  <2>1. TypeOK'
    BY <1>2, HomeOf
    DEF AcceptInc, IncIo, Goto, session, server, kernel, app, Threads,
        TypeOK, Control, ControlOf, Locations, Contexts, ApiLocations, AccLocations
  <2>2. Control'
    BY <1>2, HomeOf
    DEF AcceptInc, IncIo, Goto, session, server, kernel, app, Threads,
        TypeOK, Control, ControlOf, Locations, Contexts, ApiLocations, AccLocations
  <2>3. QED
    BY <2>1, <2>2
<1>3. CASE AcceptInit
  <2>1. TypeOK'
    BY <1>3, HomeOf, BoundsAssumption
    DEF AcceptInit, Ids, Goto, session, server, kernel, app, Threads,
        TypeOK, Control, ControlOf, Locations, Contexts, ApiLocations, AccLocations
  <2>2. Control'
    BY <1>3, HomeOf, BoundsAssumption
    DEF AcceptInit, Ids, Goto, session, server, kernel, app, Threads,
        TypeOK, Control, ControlOf, Locations, Contexts, ApiLocations, AccLocations
  <2>3. QED
    BY <2>1, <2>2
<1>4. CASE AcceptOpen
  <2>1. TypeOK'
    BY <1>4, HomeOf
    DEF AcceptOpen, Goto, session, server, kernel, app, Threads,
        TypeOK, Control, ControlOf, Locations, Contexts, ApiLocations, AccLocations
  <2>2. Control'
    BY <1>4, HomeOf
    DEF AcceptOpen, Goto, session, server, kernel, app, Threads,
        TypeOK, Control, ControlOf, Locations, Contexts, ApiLocations, AccLocations
  <2>3. QED
    BY <2>1, <2>2
<1>5. CASE AcceptCount
  <2>1. TypeOK'
    BY <1>5, HomeOf
    DEF AcceptCount, Goto, session, server, kernel, app, Threads,
        TypeOK, Control, ControlOf, Locations, Contexts, ApiLocations, AccLocations
  <2>2. Control'
    BY <1>5, HomeOf
    DEF AcceptCount, Goto, session, server, kernel, app, Threads,
        TypeOK, Control, ControlOf, Locations, Contexts, ApiLocations, AccLocations
  <2>3. QED
    BY <2>1, <2>2
<1>6. CASE AcceptJoin
  <2>1. TypeOK'
    BY <1>6, HomeOf
    DEF AcceptJoin, ApiIds, Ids, Goto, session, server, kernel, app, Threads,
        TypeOK, Control, ControlOf, Locations, Contexts, ApiLocations, AccLocations
  <2>2. Control'
    BY <1>6, HomeOf
    DEF AcceptJoin, ApiIds, Ids, Goto, session, server, kernel, app, Threads,
        TypeOK, Control, ControlOf, Locations, Contexts, ApiLocations, AccLocations
  <2>3. QED
    BY <2>1, <2>2
<1>7. ASSUME NEW t \in Threads, RecvCheck(t) PROVE TypeOK' /\ Control'
  <2>1. TypeOK'
    BY <1>7, HomeOf
    DEF RecvCheck, Goto, session, server, kernel, app, Threads,
        TypeOK, Control, ControlOf, Locations, Contexts, ApiLocations, AccLocations
  <2>2. Control'
    BY <1>7, HomeOf
    DEF RecvCheck, Goto, session, server, kernel, app, Threads,
        TypeOK, Control, ControlOf, Locations, Contexts, ApiLocations, AccLocations
  <2>3. QED
    BY <2>1, <2>2
<1>8. ASSUME NEW t \in Threads, RecvPost(t) PROVE TypeOK' /\ Control'
  <2>1. TypeOK'
    BY <1>8, HomeOf
    DEF RecvPost, IncIo, IoOps, Goto, session, server, kernel, app, Threads,
        TypeOK, Control, ControlOf, Locations, Contexts, ApiLocations, AccLocations
  <2>2. Control'
    BY <1>8, HomeOf
    DEF RecvPost, IncIo, IoOps, Goto, session, server, kernel, app, Threads,
        TypeOK, Control, ControlOf, Locations, Contexts, ApiLocations, AccLocations
  <2>3. QED
    BY <2>1, <2>2
<1>9. ASSUME NEW t \in Threads, RecvPostFail(t) PROVE TypeOK' /\ Control'
  <2>1. TypeOK'
    BY <1>9, HomeOf
    DEF RecvPostFail, IncIo, Enter, Goto, session, server, kernel, app, Threads,
        TypeOK, Control, ControlOf, Locations, Contexts, ApiLocations, AccLocations
  <2>2. Control'
    BY <1>9, HomeOf
    DEF RecvPostFail, IncIo, Enter, Goto, session, server, kernel, app, Threads,
        TypeOK, Control, ControlOf, Locations, Contexts, ApiLocations, AccLocations
  <2>3. QED
    BY <2>1, <2>2
<1>10. ASSUME NEW t \in Threads, Disconnect(t) PROVE TypeOK' /\ Control'
  <2> USE DEF TypeOK, Control, ControlOf, Goto, server, kernel, app, ApiLocations,
    AccLocations
  <2>0. Obj(t) \in Slots /\ pc[t] = "disc_xchg" /\ m_sessID' = m_sessID
    BY <1>10, HomeOf DEF Disconnect, Calls, Obj
  <2>1. /\ AfterDisconnect(t) \in {"recv_check", "frame", "dec"}
        /\ ctx[t] = "api" => AfterDisconnect(t) = "dec"
        /\ AfterDisconnectCtx(t) \in {"api", "io"}
        /\ AfterDisconnectCtx(t) = "api" => ctx[t] = "api"
    BY DEF AfterDisconnect, AfterDisconnectCtx
  <2>2. \/ Goto(t, "disc_cancel")
        \/ Enter(t, AfterDisconnect(t), AfterDisconnectCtx(t))
    BY <1>10 DEF Disconnect
  <2>3. pc' \in [Threads -> Locations] /\ own' = own /\ call' = call /\ ctx' \in [Threads -> Contexts]
    <3>1. CASE Goto(t, "disc_cancel")
      BY <3>1 DEF Locations
    <3>2. CASE Enter(t, AfterDisconnect(t), AfterDisconnectCtx(t))
      <4>1. AfterDisconnect(t) \in Locations /\ AfterDisconnectCtx(t) \in Contexts
        BY <2>1 DEF Locations, Contexts
      <4>2. QED
        BY <3>2, <4>1 DEF Enter
    <3>3. QED
      BY <2>2, <3>1, <3>2
  <2>7. /\ disconnect' = [disconnect EXCEPT ![Obj(t)] = 1]
        /\ UNCHANGED <<io_count, release_flag, session_id, send_post_flag, send_q,
                       m_emptySessionStack, m_sessID, m_sessionCnt, overlapped, iocp,
                       issued, users>>
    BY <1>10 DEF Disconnect
  <2>8. disconnect' \in [Slots -> {0, 1}]
    BY <2>0, <2>7
  <2>4. TypeOK'
    BY <2>3, <2>7, <2>8
  <2>5. ctx[t] # "postfail"
    BY <2>0
  <2>6. Control'
    <3> HIDE DEF TypeOK, Control
    <3> QED BY <2>0, <2>1, <2>2, <2>5, HomeOf, GotoControl, EnterControl
      DEF Locations, Contexts
  <2> QED BY <2>4, <2>6
<1>11. ASSUME NEW t \in Threads, DisconnectCancel(t) PROVE TypeOK' /\ Control'
  <2> USE DEF TypeOK, Control, ControlOf, Goto, server, kernel, app, ApiLocations,
    AccLocations, Threads
  <2>0. Obj(t) \in Slots
    BY <1>11, HomeOf DEF DisconnectCancel, Calls, Obj
  <2>1. overlapped' \in [Slots -> [IoOps -> Nat]]
    BY <1>11, <2>0 DEF DisconnectCancel, IoOps, NoOverlapped
  <2>2. iocp' \in [Slots -> [Packets -> Nat]]
    <3>1. CancelledIo(Obj(t), iocp) \in [Slots -> [Packets -> Nat]]
      BY <2>0 DEF CancelledIo, IoOps
    <3>2. QED
      BY <1>11, <2>0, <3>1 DEF DisconnectCancel, Packets
  <2>3. /\ pc' = [pc EXCEPT ![t] = AfterDisconnect(t)] /\ own' = own /\ call' = call
        /\ ctx' = [ctx EXCEPT ![t] = AfterDisconnectCtx(t)]
    BY <1>11 DEF DisconnectCancel, Enter
  <2>4. TypeOK'
    BY <1>11, <2>0, <2>1, <2>2, <2>3
    DEF DisconnectCancel, IncIo, Locations, AfterDisconnect, AfterDisconnectCtx,
        Contexts
  <2>5. Control'
    BY <1>11, HomeOf DEF DisconnectCancel, Enter, AfterDisconnect, AfterDisconnectCtx
  <2> QED BY <2>5, <2>4
<1>12. ASSUME NEW t \in Threads, UpdateIOCount(t) PROVE TypeOK' /\ Control'
  <2>0. Obj(t) \in Slots
    BY <1>12, HomeOf DEF UpdateIOCount, Calls, Obj, TypeOK, Control, ControlOf,
      Locations
  <2>1. CASE io_count[Obj(t)] > 1
    <3>1. Return(t) /\ m_sessID' = m_sessID
      BY <1>12, <2>0, <2>1 DEF UpdateIOCount, TypeOK, server
    <3>2. QED
      BY <1>12, <2>0, <3>1, ReturnControl DEF UpdateIOCount, TypeOK, server, kernel, app
  <2>2. CASE ~(io_count[Obj(t)] > 1)
    <3>1. \E l \in {"rp_cas", "crash"} : Goto(t, l)
      BY <1>12, <2>0, <2>2 DEF UpdateIOCount, TypeOK
    <3>2. TypeOK'
      BY <1>12, <2>0, <3>1
      DEF UpdateIOCount, TypeOK, server, kernel, app, Goto, Locations
    <3>3. Control'
      <4>1. m_sessID' = m_sessID /\ pc[t] = "dec"
        BY <1>12 DEF UpdateIOCount, server
      <4>2. ctx[t] \notin {"frame", "decode"} 
        BY <4>1 DEF Control, ControlOf
      <4> QED BY <3>1, <4>1, <4>2, HomeOf, GotoControl
        DEF ApiLocations, AccLocations, Locations
    <3>4. QED
      BY <3>2, <3>3
  <2> QED BY <2>1, <2>2
<1>13. ASSUME NEW t \in Threads, ReleaseFlagCas(t) PROVE TypeOK' /\ Control'
  <2>0. Obj(t) \in Slots
    BY <1>13, HomeOf DEF ReleaseFlagCas, Calls, Obj, TypeOK, Control, ControlOf,
      Locations
  <2>1. CASE Return(t)
    BY <1>13, <2>0, <2>1, ReturnControl DEF ReleaseFlagCas, TypeOK, server, kernel, app
  <2>2. CASE Goto(t, "rp_post")
    <3>2. TypeOK'
      BY <1>13, <2>0, <2>2
      DEF ReleaseFlagCas, TypeOK, server, kernel, app, Goto, Locations
    <3>3. Control'
      <4>1. m_sessID' = m_sessID /\ pc[t] = "rp_cas"
        BY <1>13 DEF ReleaseFlagCas, server
      <4>2. ctx[t] \notin {"frame", "decode"} 
        BY <4>1 DEF Control, ControlOf
      <4> QED BY <2>2, <4>1, <4>2, HomeOf, GotoControl
        DEF ApiLocations, AccLocations, Locations
    <3>4. QED
      BY <3>2, <3>3
  <2> QED BY <1>13, <2>1, <2>2 DEF ReleaseFlagCas
<1>14. ASSUME NEW t \in Threads, ReleasePost(t) PROVE TypeOK' /\ Control'
  <2>0. Obj(t) \in Slots
    BY <1>14, HomeOf DEF ReleasePost, Calls, Obj, TypeOK, Control, ControlOf, Locations
  <2>1. io_count' \in [Slots -> Int] /\ iocp' \in [Slots -> [Packets -> Nat]]
    BY <1>14, <2>0 DEF ReleasePost, TypeOK, Post, IncIo, Packets
  <2> QED BY <1>14, <2>1, ReturnControl DEF ReleasePost, TypeOK, server, kernel, app
<1>15. ASSUME NEW t \in Threads, ApiInc(t) PROVE TypeOK' /\ Control'
  <2>1. TypeOK'
    BY <1>15, HomeOf
    DEF ApiInc, IncIo, Calls, Goto, session, server, kernel, app, Threads,
        TypeOK, Control, ControlOf, Locations, Contexts, ApiLocations, AccLocations
  <2>2. Control'
    BY <1>15, HomeOf
    DEF ApiInc, IncIo, Calls, Goto, session, server, kernel, app, Threads,
        TypeOK, Control, ControlOf, Locations, Contexts, ApiLocations, AccLocations
  <2>3. QED
    BY <2>1, <2>2
<1>16. ASSUME NEW t \in Threads, ApiFlag(t) PROVE TypeOK' /\ Control'
  <2>1. TypeOK'
    BY <1>16, HomeOf
    DEF ApiFlag, Goto, session, server, kernel, app, Threads,
        TypeOK, Control, ControlOf, Locations, Contexts, ApiLocations, AccLocations
  <2>2. Control'
    BY <1>16, HomeOf
    DEF ApiFlag, Goto, session, server, kernel, app, Threads,
        TypeOK, Control, ControlOf, Locations, Contexts, ApiLocations, AccLocations
  <2>3. QED
    BY <2>1, <2>2
<1>17. ASSUME NEW t \in Threads, ApiId(t) PROVE TypeOK' /\ Control'
  <2>1. TypeOK'
    BY <1>17, HomeOf
    DEF ApiId, Goto, session, server, kernel, app, Threads,
        TypeOK, Control, ControlOf, Locations, Contexts, ApiLocations, AccLocations
  <2>2. Control'
    BY <1>17, HomeOf
    DEF ApiId, Goto, session, server, kernel, app, Threads,
        TypeOK, Control, ControlOf, Locations, Contexts, ApiLocations, AccLocations
  <2>3. QED
    BY <2>1, <2>2
<1>18. ASSUME NEW t \in Workers, Cancel(t) PROVE TypeOK' /\ Control'
  <2>1. TypeOK'
    BY <1>18, HomeOf
    DEF Cancel, NoOverlapped, CancelledIo, IoOps, Packets, Goto, session, server,
        kernel, app, Threads,
        TypeOK, Control, ControlOf, Locations, Contexts, ApiLocations, AccLocations
  <2>2. Control'
    BY <1>18, HomeOf
    DEF Cancel, NoOverlapped, CancelledIo, IoOps, Packets, Goto, session, server,
        kernel, app, Threads,
        TypeOK, Control, ControlOf, Locations, Contexts, ApiLocations, AccLocations
  <2>3. QED
    BY <2>1, <2>2
<1>19. ASSUME NEW t \in Workers, FrameDone(t) PROVE TypeOK' /\ Control'
  <2>1. TypeOK'
    BY <1>19, HomeOf
    DEF FrameDone, Goto, session, server, kernel, app, Threads,
        TypeOK, Control, ControlOf, Locations, Contexts, ApiLocations, AccLocations
  <2>2. Control'
    BY <1>19, HomeOf
    DEF FrameDone, Goto, session, server, kernel, app, Threads,
        TypeOK, Control, ControlOf, Locations, Contexts, ApiLocations, AccLocations
  <2>3. QED
    BY <2>1, <2>2
<1>20. ASSUME NEW t \in Workers, FrameError(t) PROVE TypeOK' /\ Control'
  <2>1. TypeOK'
    BY <1>20, HomeOf
    DEF FrameError, Enter, Goto, session, server, kernel, app, Threads,
        TypeOK, Control, ControlOf, Locations, Contexts, ApiLocations, AccLocations
  <2>2. Control'
    BY <1>20, HomeOf
    DEF FrameError, Enter, Goto, session, server, kernel, app, Threads,
        TypeOK, Control, ControlOf, Locations, Contexts, ApiLocations, AccLocations
  <2>3. QED
    BY <2>1, <2>2
<1>21. ASSUME NEW t \in Workers, OnRecv(t) PROVE TypeOK' /\ Control'
  <2>1. TypeOK'
    BY <1>21, HomeOf
    DEF OnRecv, Goto, session, server, kernel, app, Threads,
        TypeOK, Control, ControlOf, Locations, Contexts, ApiLocations, AccLocations
  <2>2. Control'
    BY <1>21, HomeOf
    DEF OnRecv, Goto, session, server, kernel, app, Threads,
        TypeOK, Control, ControlOf, Locations, Contexts, ApiLocations, AccLocations
  <2>3. QED
    BY <2>1, <2>2
<1>22. ASSUME NEW t \in Workers, OnRecvCall(t) PROVE TypeOK' /\ Control'
  <2>1. TypeOK'
    BY <1>22, HomeOf, OpsAssumption
    DEF OnRecvCall, Invoke, ApiIds, Calls, Goto, session, server, kernel, app, Threads,
        TypeOK, Control, ControlOf, Locations, Contexts, ApiLocations, AccLocations
  <2>2. Control'
    BY <1>22, HomeOf, OpsAssumption
    DEF OnRecvCall, Invoke, ApiIds, Calls, Goto, session, server, kernel, app, Threads,
        TypeOK, Control, ControlOf, Locations, Contexts, ApiLocations, AccLocations
  <2>3. QED
    BY <2>1, <2>2
<1>23. ASSUME NEW t \in Workers, OnRecvReturn(t) PROVE TypeOK' /\ Control'
  <2>1. TypeOK'
    BY <1>23, HomeOf
    DEF OnRecvReturn, Goto, session, server, kernel, app, Threads,
        TypeOK, Control, ControlOf, Locations, Contexts, ApiLocations, AccLocations
  <2>2. Control'
    BY <1>23, HomeOf
    DEF OnRecvReturn, Goto, session, server, kernel, app, Threads,
        TypeOK, Control, ControlOf, Locations, Contexts, ApiLocations, AccLocations
  <2>3. QED
    BY <2>1, <2>2
<1>24. ASSUME NEW t \in Workers, TryClear(t) PROVE TypeOK' /\ Control'
  <2>1. TypeOK'
    BY <1>24, HomeOf
    DEF TryClear, Goto, session, server, kernel, app, Threads,
        TypeOK, Control, ControlOf, Locations, Contexts, ApiLocations, AccLocations
  <2>2. Control'
    BY <1>24, HomeOf
    DEF TryClear, Goto, session, server, kernel, app, Threads,
        TypeOK, Control, ControlOf, Locations, Contexts, ApiLocations, AccLocations
  <2>3. QED
    BY <2>1, <2>2
<1>25. ASSUME NEW t \in Workers, TrySize(t) PROVE TypeOK' /\ Control'
  <2>1. TypeOK'
    BY <1>25, HomeOf
    DEF TrySize, Goto, session, server, kernel, app, Threads,
        TypeOK, Control, ControlOf, Locations, Contexts, ApiLocations, AccLocations
  <2>2. Control'
    BY <1>25, HomeOf
    DEF TrySize, Goto, session, server, kernel, app, Threads,
        TypeOK, Control, ControlOf, Locations, Contexts, ApiLocations, AccLocations
  <2>3. QED
    BY <2>1, <2>2
<1>26. ASSUME NEW t \in Workers, SendCheck(t) PROVE TypeOK' /\ Control'
  <2>1. TypeOK'
    BY <1>26, HomeOf
    DEF SendCheck, Goto, session, server, kernel, app, Threads,
        TypeOK, Control, ControlOf, Locations, Contexts, ApiLocations, AccLocations
  <2>2. Control'
    BY <1>26, HomeOf
    DEF SendCheck, Goto, session, server, kernel, app, Threads,
        TypeOK, Control, ControlOf, Locations, Contexts, ApiLocations, AccLocations
  <2>3. QED
    BY <2>1, <2>2
<1>27. ASSUME NEW t \in Workers, SendExchange(t) PROVE TypeOK' /\ Control'
  <2>1. TypeOK'
    BY <1>27, HomeOf
    DEF SendExchange, Goto, session, server, kernel, app, Threads,
        TypeOK, Control, ControlOf, Locations, Contexts, ApiLocations, AccLocations
  <2>2. Control'
    BY <1>27, HomeOf
    DEF SendExchange, Goto, session, server, kernel, app, Threads,
        TypeOK, Control, ControlOf, Locations, Contexts, ApiLocations, AccLocations
  <2>3. QED
    BY <2>1, <2>2
<1>28. ASSUME NEW t \in Workers, SendNothing(t) PROVE TypeOK' /\ Control'
  <2>1. TypeOK'
    BY <1>28, HomeOf
    DEF SendNothing, Goto, session, server, kernel, app, Threads,
        TypeOK, Control, ControlOf, Locations, Contexts, ApiLocations, AccLocations
  <2>2. Control'
    BY <1>28, HomeOf
    DEF SendNothing, Goto, session, server, kernel, app, Threads,
        TypeOK, Control, ControlOf, Locations, Contexts, ApiLocations, AccLocations
  <2>3. QED
    BY <2>1, <2>2
<1>29. ASSUME NEW t \in Workers, SendClear(t) PROVE TypeOK' /\ Control'
  <2>1. TypeOK'
    BY <1>29, HomeOf
    DEF SendClear, Goto, session, server, kernel, app, Threads,
        TypeOK, Control, ControlOf, Locations, Contexts, ApiLocations, AccLocations
  <2>2. Control'
    BY <1>29, HomeOf
    DEF SendClear, Goto, session, server, kernel, app, Threads,
        TypeOK, Control, ControlOf, Locations, Contexts, ApiLocations, AccLocations
  <2>3. QED
    BY <2>1, <2>2
<1>30. ASSUME NEW t \in Workers, SendPost(t) PROVE TypeOK' /\ Control'
  <2> USE DEF TypeOK, Control, ControlOf, Goto, server, kernel, app, ApiLocations,
    AccLocations, Threads
  <2>0. own[t] \in Slots
    BY <1>30, HomeOf DEF SendPost
  <2>1. send_q' \in [Slots -> 0 .. MaxSendQ] /\ io_count' \in [Slots -> Int]
    BY <1>30, <2>0, BoundsAssumption DEF SendPost, IncIo
  <2>2. overlapped' \in [Slots -> [IoOps -> Nat]]
    <3>1. \/ overlapped' = [overlapped EXCEPT ![own[t]]["send"] = @ + 1]
          \/ overlapped' = overlapped
      BY <1>30 DEF SendPost
    <3>2. overlapped \in [Slots -> [IoOps -> Nat]] /\ "send" \in IoOps
      BY DEF IoOps
    <3>3. CASE overlapped' = overlapped
      BY <3>2, <3>3
    <3>4. CASE overlapped' = [overlapped EXCEPT ![own[t]]["send"] = @ + 1]
      BY <2>0, <3>2, <3>4
    <3>5. QED
      BY <3>1, <3>3, <3>4
  <2>5. \/ Goto(t, "dec")
        \/ Enter(t, "dec", "postfail")
    BY <1>30 DEF SendPost
  <2>6. pc' \in [Threads -> Locations] /\ own' = own /\ call' = call /\ ctx' \in [Threads -> Contexts]
    BY <2>5 DEF Locations, Enter, Contexts
  <2>3. TypeOK'
    BY <1>30, <2>1, <2>2, <2>6 DEF SendPost
  <2>7. m_sessID' = m_sessID /\ pc[t] = "sp_size" /\ ctx[t] = "io"
    BY <1>30 DEF SendPost, Contexts
  <2>4. Control'
    <3> HIDE DEF TypeOK, Control
    <3> QED BY <2>5, <2>7, HomeOf, GotoControl, EnterControl DEF Locations, Contexts
  <2> QED BY <2>3, <2>4
<1>31. ASSUME NEW t \in Workers, Enqueue(t) PROVE TypeOK' /\ Control'
  <2> USE DEF TypeOK, Control, ControlOf, Goto, server, kernel, app, ApiLocations,
    AccLocations, Threads
  <2>0. ctx[t] = "api" /\ call[t].slot \in Slots
    BY <1>31 DEF Enqueue, Calls
  <2>1. send_q' \in [Slots -> 0 .. MaxSendQ]
    <3>1. CASE send_q[call[t].slot] < MaxSendQ
      <4>1. send_q' = [send_q EXCEPT ![call[t].slot] = @ + 1]
        BY <1>31, <3>1 DEF Enqueue
      <4>2. send_q[call[t].slot] + 1 \in 0 .. MaxSendQ
        BY <2>0, <3>1, BoundsAssumption
      <4>3. QED BY <4>1, <4>2
    <3>2. CASE ~(send_q[call[t].slot] < MaxSendQ)
      BY <1>31, <3>2 DEF Enqueue
    <3>3. QED BY <3>1, <3>2
  <2>4. \E l \in {"pend_check", "disc_xchg"} : Goto(t, l)
    BY <1>31 DEF Enqueue
  <2>5. pc' \in [Threads -> Locations] /\ UNCHANGED <<own, call, ctx>>
    BY <2>4 DEF Locations
  <2>2. TypeOK'
    BY <1>31, <2>1, <2>5 DEF Enqueue
  <2>3. Control'
    <3>1. m_sessID' = m_sessID /\ pc[t] = "enqueue"
      BY <1>31 DEF Enqueue
    <3> HIDE DEF TypeOK, Control
    <3> QED BY <2>0, <2>4, <3>1, HomeOf, GotoControl DEF Locations
  <2> QED BY <2>2, <2>3
<1>32. ASSUME NEW t \in Workers, PendCheck(t) PROVE TypeOK' /\ Control'
  <2>1. TypeOK'
    BY <1>32, HomeOf
    DEF PendCheck, Obj, Goto, session, server, kernel, app, Threads,
        TypeOK, Control, ControlOf, Locations, Contexts, ApiLocations, AccLocations
  <2>2. Control'
    BY <1>32, HomeOf
    DEF PendCheck, Obj, Goto, session, server, kernel, app, Threads,
        TypeOK, Control, ControlOf, Locations, Contexts, ApiLocations, AccLocations
  <2>3. QED
    BY <2>1, <2>2
<1>33. ASSUME NEW t \in Workers, PendExchange(t) PROVE TypeOK' /\ Control'
  <2> USE DEF TypeOK, Control, ControlOf, Goto, server, kernel, app, ApiLocations,
    AccLocations, Threads
  <2>0. Obj(t) \in Slots
    BY <1>33, HomeOf DEF PendExchange, Calls, Obj
  <2>3. io_count' \in [Slots -> Int] /\ iocp' \in [Slots -> [Packets -> Nat]]
    <3>1. CASE send_post_flag[Obj(t)] = 1
      BY <1>33, <3>1 DEF PendExchange
    <3>2. CASE send_post_flag[Obj(t)] # 1
      <4>1. /\ io_count' = [io_count EXCEPT ![Obj(t)] = @ + 1]
            /\ iocp' = [iocp EXCEPT ![Obj(t)]["SEND_PEND"] = @ + 1]
        BY <1>33, <3>2 DEF PendExchange, Post, IncIo
      <4>2. QED
        BY <2>0, <4>1 DEF Packets
    <3>3. QED
      BY <3>1, <3>2
  <2>4. send_post_flag' \in [Slots -> {0, 1}]
    BY <1>33, <2>0 DEF PendExchange
  <2>5. Goto(t, "dec") /\ m_sessID' = m_sessID /\ pc[t] = "pend_xchg"
    BY <1>33 DEF PendExchange
  <2>1. TypeOK'
    BY <1>33, <2>3, <2>4, <2>5 DEF PendExchange, Locations
  <2>2. Control'
    <3>1. ctx[t] \notin {"frame", "decode"}
      BY <2>5
    <3> HIDE DEF TypeOK, Control
    <3> QED BY <2>5, <3>1, HomeOf, GotoControl DEF Locations
  <2> QED BY <2>2, <2>1
<1>34. ASSUME NEW t \in Workers, ReleaseLeave(t) PROVE TypeOK' /\ Control'
  <2> USE DEF TypeOK, Control, ControlOf, Goto, session, server, kernel, app,
    ApiLocations, AccLocations, Threads
  <2>4. TypeOK'
    BY <1>34 DEF ReleaseLeave, Locations
  <2>1. \E l \in {"crash", "rel_clear"} : Goto(t, l)
    BY <1>34 DEF ReleaseLeave
  <2>2. m_sessID' = m_sessID /\ pc[t] = "rel_leave" /\ ctx[t] = "io"
    BY <1>34 DEF ReleaseLeave, Contexts
  <2>5. Control'
    <3> HIDE DEF TypeOK, Control
    <3> QED BY <2>1, <2>2, HomeOf, GotoControl DEF Locations
  <2> QED BY <2>5, <2>4
<1>35. ASSUME NEW t \in Workers, ReleaseClear(t) PROVE TypeOK' /\ Control'
  <2>1. TypeOK'
    BY <1>35, HomeOf, BoundsAssumption
    DEF ReleaseClear, Ids, Goto, session, server, kernel, app, Threads,
        TypeOK, Control, ControlOf, Locations, Contexts, ApiLocations, AccLocations
  <2>2. Control'
    BY <1>35, HomeOf, BoundsAssumption
    DEF ReleaseClear, Ids, Goto, session, server, kernel, app, Threads,
        TypeOK, Control, ControlOf, Locations, Contexts, ApiLocations, AccLocations
  <2>3. QED
    BY <2>1, <2>2
<1>36. ASSUME NEW t \in Workers, ReleasePush(t) PROVE TypeOK' /\ Control'
  <2>1. TypeOK'
    BY <1>36, HomeOf
    DEF ReleasePush, Goto, session, server, kernel, app, Threads,
        TypeOK, Control, ControlOf, Locations, Contexts, ApiLocations, AccLocations
  <2>2. Control'
    BY <1>36, HomeOf
    DEF ReleasePush, Goto, session, server, kernel, app, Threads,
        TypeOK, Control, ControlOf, Locations, Contexts, ApiLocations, AccLocations
  <2>3. QED
    BY <2>1, <2>2
<1>37. ASSUME NEW t \in Workers, ReleaseCount(t) PROVE TypeOK' /\ Control'
  <2>1. TypeOK'
    BY <1>37, HomeOf
    DEF ReleaseCount, Goto, session, server, kernel, app, Threads,
        TypeOK, Control, ControlOf, Locations, Contexts, ApiLocations, AccLocations
  <2>2. Control'
    BY <1>37, HomeOf
    DEF ReleaseCount, Goto, session, server, kernel, app, Threads,
        TypeOK, Control, ControlOf, Locations, Contexts, ApiLocations, AccLocations
  <2>3. QED
    BY <2>1, <2>2
<1>38. CASE Tick
  <2>1. TypeOK'
    BY <1>38, HomeOf
    DEF Tick, IncIo, Goto, session, server, kernel, app, Threads,
        TypeOK, Control, ControlOf, Locations, Contexts, ApiLocations, AccLocations
  <2>2. Control'
    BY <1>38, HomeOf
    DEF Tick, IncIo, Goto, session, server, kernel, app, Threads,
        TypeOK, Control, ControlOf, Locations, Contexts, ApiLocations, AccLocations
  <2>3. QED
    BY <2>1, <2>2
<1>39. CASE TimedOut
  <2>1. TypeOK'
    BY <1>39, HomeOf
    DEF TimedOut, Invoke, Calls, Goto, session, server, kernel, app, Threads,
        TypeOK, Control, ControlOf, Locations, Contexts, ApiLocations, AccLocations
  <2>2. Control'
    BY <1>39, HomeOf
    DEF TimedOut, Invoke, Calls, Goto, session, server, kernel, app, Threads,
        TypeOK, Control, ControlOf, Locations, Contexts, ApiLocations, AccLocations
  <2>3. QED
    BY <2>1, <2>2
<1>40. CASE NotTimedOut
  <2>1. TypeOK'
    BY <1>40, HomeOf
    DEF NotTimedOut, Goto, session, server, kernel, app, Threads,
        TypeOK, Control, ControlOf, Locations, Contexts, ApiLocations, AccLocations
  <2>2. Control'
    BY <1>40, HomeOf
    DEF NotTimedOut, Goto, session, server, kernel, app, Threads,
        TypeOK, Control, ControlOf, Locations, Contexts, ApiLocations, AccLocations
  <2>3. QED
    BY <2>1, <2>2
<1>41. ASSUME NEW t \in Workers, NEW s \in Slots, NEW p \in Packets, GetPacket(t, s, p)
      PROVE  TypeOK' /\ Control'
  <2>0. t \in Threads /\ Home(t) = "gqcs"
    BY HomeOf DEF Threads
  <2>1. iocp' \in [Slots -> [Packets -> Nat]]
    BY <1>41 DEF GetPacket, TypeOK
  <2>2. Dispatch(s, p) \in {"try_clear", "rel_leave", "cancel", "frame", "disc_xchg"}
    BY DEF Dispatch
  <2>3. TypeOK'
    BY <1>41, <2>0, <2>1, <2>2 DEF GetPacket, TypeOK, session, server, app, Locations
  <2>4. Control'
    BY <1>41, <2>0, <2>2, HomeOf
    DEF GetPacket, Control, ControlOf, server, TypeOK, ApiLocations, AccLocations
  <2> QED BY <2>3, <2>4
<1>42. ASSUME NEW s \in Slots, NEW op \in IoOps, IoComplete(s, op)
      PROVE  TypeOK' /\ Control'
  <2>1. overlapped' \in [Slots -> [IoOps -> Nat]] /\ iocp' \in [Slots -> [Packets -> Nat]]
    BY <1>42 DEF IoComplete, TypeOK, IoOps, Packets, Done, Failed
  <2>2. TypeOK'
    BY <1>42, <2>1 DEF IoComplete, TypeOK, session, server, app, thread
  <2>3. Control'
    BY <1>42 DEF IoComplete, Control, ControlOf, server, thread, Home
  <2> QED BY <2>2, <2>3
<1>43. CASE UNCHANGED vars
  BY <1>43 DEF vars, session, server, kernel, app, thread, TypeOK, Control,
    ControlOf, Home
<1>44. QED
  BY <1>1, <1>2, <1>3, <1>4, <1>5, <1>6, <1>7, <1>8, <1>9, <1>10, <1>11,
     <1>12, <1>13, <1>14, <1>15, <1>16, <1>17, <1>18, <1>19, <1>20, <1>21,
     <1>22, <1>23, <1>24, <1>25, <1>26, <1>27, <1>28, <1>29, <1>30, <1>31,
     <1>32, <1>33, <1>34, <1>35, <1>36, <1>37, <1>38, <1>39, <1>40, <1>41,
     <1>42, <1>43
  DEF Next, AcceptorStep, CommonStep, WorkerStep, TimerStep, KernelStep

\* Every thread starts in its loop.
LEMMA InitTyped == Init => TypeOK /\ Control
<1> SUFFICES ASSUME Init PROVE TypeOK /\ Control
  OBVIOUS
<1>1. TypeOK
  BY HomeOf, BoundsAssumption DEF Init, TypeOK, Locations, Contexts, Ids, IoOps, Packets
<1>5. Control
  <2>1. \A t \in Threads : pc[t] = Home(t) /\ own[t] = NoSlot /\ ctx[t] = "io"
    BY DEF Init
  <2>2. Acceptor \in Threads
    BY DEF Threads
  <2>3. \A t \in Threads : ControlOf(t)
    BY <2>1, HomeOf DEF ControlOf, ApiLocations, AccLocations
  <2> QED BY <2>1, <2>2, <2>3, HomeOf DEF Control
<1> QED BY <1>5, <1>1

\* Every variable of the server keeps its type; in particular send_q stays within
\* MAX_SENDQ, and no location is reached with the wrong thread or context.
THEOREM TypeCorrect == Spec => []TypeOK
<1>1. Spec => [](TypeOK /\ Control)
  BY InitTyped, NextTyped, PTL DEF Spec
<1>2. QED
  BY <1>1, PTL

-----------------------------------------------------------------------------
(***************************************************************************)
(* io_count is exactly the number of references, for any number of slots,  *)
(* workers and sessions.  A step moves one thread and touches one Session, *)
(* so CountIsReferences is kept as soon as that Session's io_count changes *)
(* by what the moving thread holds (Held) and the kernel holds (InKernel): *)
(* lemma Balance.  Each action is then a small balance of its own.  The    *)
(* types and Control of NetServerProof close the induction.                *)
(***************************************************************************)

\* 1 when b holds.
IfOne(b) == IF b THEN 1 ELSE 0

\* The references thread t holds on s.
Held(t, s) == IfOne(OwnRef(t, s)) + IfOne(ApiRef(t, s)) + IfOne(PostRef(t, s))

\* Operations the kernel has, and packets in the completion port.
InKernel(s) == Outstanding(s, "recv") + Outstanding(s, "send")
             + iocp[s]["SEND_PEND"] + iocp[s]["RELEASE_PEND"] + iocp[s]["CANCEL_IO"]

\* Every thread but t stays where it is.
OnlyMoves(t) == \A u \in Threads \ {t} :
    pc'[u] = pc[u] /\ own'[u] = own[u] /\ call'[u] = call[u] /\ ctx'[u] = ctx[u]

\* Two finite sets that differ at most at t.
LEMMA SetStep ==
  ASSUME NEW A, NEW B, IsFiniteSet(A), NEW t, \A u : u # t => (u \in A <=> u \in B)
  PROVE  /\ Cardinality(A) \in Nat /\ Cardinality(B) \in Nat
         /\ Cardinality(B) + IfOne(t \in A) = Cardinality(A) + IfOne(t \in B)
<1>0. Cardinality(A) \in Nat
  BY FS_CardinalityType
<1>1. CASE t \in A /\ t \notin B
  <2>1. B = A \ {t}
    BY <1>1
  <2>2. IsFiniteSet(B) /\ Cardinality(B) = Cardinality(A) - 1
    BY <1>1, <2>1, FS_RemoveElement
  <2>3. Cardinality(B) \in Nat
    BY <2>2, FS_CardinalityType
  <2>4. QED
    BY <1>0, <1>1, <2>2, <2>3 DEF IfOne
<1>2. CASE t \notin A /\ t \in B
  <2>1. B = A \cup {t}
    BY <1>2
  <2>2. QED
    BY <1>0, <1>2, <2>1, FS_AddElement, FS_CardinalityType DEF IfOne
<1>3. CASE t \in A <=> t \in B
  <2>1. A = B
    BY <1>3
  <2>2. QED
    BY <1>0, <1>3, <2>1 DEF IfOne
<1>4. QED
  BY <1>1, <1>2, <1>3

\* There are finitely many threads.
LEMMA ThreadsFinite == IsFiniteSet(Threads)
<1>1. IsFiniteSet({Acceptor, Timer})
  <2>1. IsFiniteSet({Acceptor})
    BY FS_Singleton
  <2>2. QED
    BY <2>1, FS_AddElement, {Acceptor, Timer} = {Acceptor} \cup {Timer}
<1>2. QED
  BY <1>1, FS_Union, ThreadsAssumption DEF Threads

\* The kernel holds a number of references.
LEMMA KernelType == TypeOK => \A s \in Slots : InKernel(s) \in Nat
<1> SUFFICES ASSUME TypeOK, NEW s \in Slots PROVE InKernel(s) \in Nat
  OBVIOUS
<1>1. \A p \in Packets : iocp[s][p] \in Nat
  BY DEF TypeOK
<1>2. \A op \in IoOps : overlapped[s][op] \in Nat
  BY DEF TypeOK
<1>3. QED
  BY <1>1, <1>2 DEF InKernel, Outstanding, Done, Failed, Packets, IoOps

\* A step of one thread keeps the balance when it changes io_count as it changes
\* what it and the kernel hold.
LEMMA Balance ==
  ASSUME TypeOK, TypeOK', CountIsReferences, NEW t \in Threads, OnlyMoves(t),
         \A s \in Slots : io_count'[s] + Held(t, s) + InKernel(s)
                          = io_count[s] + Held(t, s)' + InKernel(s)'
  PROVE  CountIsReferences'
<1> SUFFICES ASSUME NEW s \in Slots
             PROVE  io_count'[s] = Cardinality(Owners(s)') + Cardinality(Callers(s)')
                                 + Cardinality(Refused(s)')
                                 + Outstanding(s, "recv")' + Outstanding(s, "send")'
                                 + iocp'[s]["SEND_PEND"] + iocp'[s]["RELEASE_PEND"]
                                 + iocp'[s]["CANCEL_IO"]
  BY DEF CountIsReferences
<1>1. /\ \A op \in IoOps : Outstanding(s, op) \in Int /\ Outstanding(s, op)' \in Int
      /\ \A p \in Packets : iocp[s][p] \in Int /\ iocp'[s][p] \in Int
      /\ io_count[s] \in Int /\ io_count'[s] \in Int
  <2>1. /\ \A p \in Packets : iocp[s][p] \in Int /\ iocp'[s][p] \in Int
        /\ \A op \in IoOps : overlapped[s][op] \in Int /\ overlapped'[s][op] \in Int
        /\ io_count[s] \in Int /\ io_count'[s] \in Int
    BY DEF TypeOK
  <2>2. QED
    BY <2>1 DEF Outstanding, Done, Failed, Packets, IoOps
<1>2. /\ InKernel(s)' \in Int /\ InKernel(s) \in Int
      /\ io_count[s] = Cardinality(Owners(s)) + Cardinality(Callers(s))
                       + Cardinality(Refused(s)) + InKernel(s)
  <2> DEFINE c == Cardinality(Owners(s)) + Cardinality(Callers(s)) + Cardinality(Refused(s))
  <2>1. c \in Int
    BY ThreadsFinite, FS_Subset, FS_CardinalityType DEF Owners, Callers, Refused
  <2>2. io_count[s] = c + Outstanding(s, "recv") + Outstanding(s, "send")
                + iocp[s]["SEND_PEND"] + iocp[s]["RELEASE_PEND"] + iocp[s]["CANCEL_IO"]
    BY DEF CountIsReferences
  <2> HIDE DEF c
  <2>3. io_count[s] = c + InKernel(s) /\ InKernel(s)' \in Int /\ InKernel(s) \in Int
    BY <1>1, <2>1, <2>2 DEF InKernel, IoOps, Packets
  <2>4. QED
    BY <2>3 DEF c
<1>3. /\ Cardinality(Owners(s)) \in Nat /\ Cardinality(Owners(s)') \in Nat
      /\ Cardinality(Owners(s)') + IfOne(OwnRef(t, s))
         = Cardinality(Owners(s)) + IfOne(OwnRef(t, s)')
  <2>1. IsFiniteSet(Owners(s))
    BY ThreadsFinite, FS_Subset DEF Owners
  <2>2. \A u : u # t => (u \in Owners(s) <=> u \in Owners(s)')
    BY DEF OnlyMoves, Owners, OwnRef
  <2>3. t \in Owners(s) <=> OwnRef(t, s)
    BY DEF Owners
  <2>4. t \in Owners(s)' <=> OwnRef(t, s)'
    BY DEF Owners
  <2>5. QED
    BY <2>1, <2>2, <2>3, <2>4, SetStep DEF IfOne
<1>4. /\ Cardinality(Callers(s)) \in Nat /\ Cardinality(Callers(s)') \in Nat
      /\ Cardinality(Callers(s)') + IfOne(ApiRef(t, s))
         = Cardinality(Callers(s)) + IfOne(ApiRef(t, s)')
  <2>1. IsFiniteSet(Callers(s))
    BY ThreadsFinite, FS_Subset DEF Callers
  <2>2. \A u : u # t => (u \in Callers(s) <=> u \in Callers(s)')
    BY DEF OnlyMoves, Callers, ApiRef
  <2>3. t \in Callers(s) <=> ApiRef(t, s)
    BY DEF Callers
  <2>4. t \in Callers(s)' <=> ApiRef(t, s)'
    BY DEF Callers
  <2>5. QED
    BY <2>1, <2>2, <2>3, <2>4, SetStep DEF IfOne
<1>5. /\ Cardinality(Refused(s)) \in Nat /\ Cardinality(Refused(s)') \in Nat
      /\ Cardinality(Refused(s)') + IfOne(PostRef(t, s))
         = Cardinality(Refused(s)) + IfOne(PostRef(t, s)')
  <2>1. IsFiniteSet(Refused(s))
    BY ThreadsFinite, FS_Subset DEF Refused
  <2>2. \A u : u # t => (u \in Refused(s) <=> u \in Refused(s)')
    BY DEF OnlyMoves, Refused, PostRef
  <2>3. t \in Refused(s) <=> PostRef(t, s)
    BY DEF Refused
  <2>4. t \in Refused(s)' <=> PostRef(t, s)'
    BY DEF Refused
  <2>5. QED
    BY <2>1, <2>2, <2>3, <2>4, SetStep DEF IfOne
<1>6. /\ IfOne(OwnRef(t, s)) \in Int /\ IfOne(OwnRef(t, s)') \in Int
      /\ IfOne(ApiRef(t, s)) \in Int /\ IfOne(ApiRef(t, s)') \in Int
      /\ IfOne(PostRef(t, s)) \in Int /\ IfOne(PostRef(t, s)') \in Int
  BY DEF IfOne
<1>7. io_count'[s] + (IfOne(OwnRef(t, s)) + IfOne(ApiRef(t, s)) + IfOne(PostRef(t,
  s))) + InKernel(s)
      = io_count[s] + (IfOne(OwnRef(t, s)') + IfOne(ApiRef(t, s)') + IfOne(PostRef(t,
        s)')) + InKernel(s)'
  BY DEF Held, IfOne
<1>8. io_count'[s] = Cardinality(Owners(s)') + Cardinality(Callers(s)')
                   + Cardinality(Refused(s)') + InKernel(s)'
  BY <1>1, <1>2, <1>3, <1>4, <1>5, <1>6, <1>7
<1>9. QED
  BY <1>1, <1>3, <1>4, <1>5, <1>8 DEF InKernel, IoOps, Packets

\* A thread that holds a reference sees it in io_count.
LEMMA HeldIsCounted ==
  ASSUME TypeOK, CountIsReferences, NEW t \in Threads, NEW s \in Slots,
         OwnRef(t, s) \/ ApiRef(t, s) \/ PostRef(t, s)
  PROVE  io_count[s] >= 1
<1>1. /\ IsFiniteSet(Owners(s)) /\ IsFiniteSet(Callers(s)) /\ IsFiniteSet(Refused(s))
      /\ Owners(s) # {} \/ Callers(s) # {} \/ Refused(s) # {}
  BY ThreadsFinite, FS_Subset DEF Owners, Callers, Refused
<1>2. /\ Cardinality(Owners(s)) \in Nat /\ Cardinality(Callers(s)) \in Nat
      /\ Cardinality(Refused(s)) \in Nat
      /\ \/ Cardinality(Owners(s)) # 0 \/ Cardinality(Callers(s)) # 0
         \/ Cardinality(Refused(s)) # 0
  BY <1>1, FS_CardinalityType, FS_EmptySet
<1>3. /\ \A op \in IoOps : Outstanding(s, op) \in Nat
      /\ \A p \in Packets : iocp[s][p] \in Nat
  <2>1. /\ \A p \in Packets : iocp[s][p] \in Nat
        /\ \A op \in IoOps : overlapped[s][op] \in Nat
    BY DEF TypeOK
  <2>2. QED
    BY <2>1 DEF Outstanding, Done, Failed, Packets, IoOps
<1>4. /\ Outstanding(s, "recv") \in Nat /\ Outstanding(s, "send") \in Nat
      /\ iocp[s]["SEND_PEND"] \in Nat /\ iocp[s]["RELEASE_PEND"] \in Nat
      /\ iocp[s]["CANCEL_IO"] \in Nat
  BY <1>3 DEF IoOps, Packets
<1>5. io_count[s] = Cardinality(Owners(s)) + Cardinality(Callers(s))
                + Cardinality(Refused(s))
                + Outstanding(s, "recv") + Outstanding(s, "send")
                + iocp[s]["SEND_PEND"] + iocp[s]["RELEASE_PEND"]
                + iocp[s]["CANCEL_IO"]
  BY DEF CountIsReferences
<1>6. \A a, b, c, d, e, f, g, h \in Nat :
        a # 0 \/ b # 0 \/ c # 0 => a + b + c + d + e + f + g + h >= 1
  OBVIOUS
<1>7. QED
  BY <1>2, <1>4, <1>5, <1>6

-----------------------------------------------------------------------------
\* The kernel holds what it held when it is not called.
LEMMA KernelSame ==
  ASSUME UNCHANGED kernel, NEW r \in Slots
  PROVE  InKernel(r)' = InKernel(r)
  BY DEF kernel, InKernel, Outstanding

\* A posted operation is one more reference of the kernel's.
LEMMA OverlappedMore ==
  ASSUME TypeOK, NEW s \in Slots, NEW op \in IoOps, iocp' = iocp,
         overlapped' = [overlapped EXCEPT ![s][op] = @ + 1], NEW r \in Slots
  PROVE  InKernel(r)' = InKernel(r) + IfOne(r = s)
<1>1. /\ \A p \in Packets : iocp[r][p] \in Nat
      /\ \A o \in IoOps : overlapped[r][o] \in Nat
      /\ \A o \in IoOps : overlapped'[r][o] = overlapped[r][o] + IfOne(r = s /\ o = op)
  BY DEF TypeOK, IfOne
<1>2. QED
  BY <1>1 DEF InKernel, Outstanding, Done, Failed, Packets, IoOps, IfOne

\* A posted packet is one more reference of the kernel's.
LEMMA PacketMore ==
  ASSUME TypeOK, NEW s \in Slots, NEW p \in Packets, overlapped' = overlapped,
         iocp' = [iocp EXCEPT ![s][p] = @ + 1], NEW r \in Slots
  PROVE  InKernel(r)' = InKernel(r) + IfOne(r = s)
<1>1. /\ \A q \in Packets : iocp[r][q] \in Nat
      /\ \A o \in IoOps : overlapped[r][o] \in Nat
      /\ \A q \in Packets : iocp'[r][q] = iocp[r][q] + IfOne(r = s /\ q = p)
  BY DEF TypeOK, IfOne
<1>2. QED
  BY <1>1 DEF InKernel, Outstanding, Done, Failed, Packets, IoOps, IfOne

\* A dequeued packet is one less.
LEMMA PacketLess ==
  ASSUME TypeOK, NEW s \in Slots, NEW p \in Packets, overlapped' = overlapped,
         iocp' = [iocp EXCEPT ![s][p] = @ - 1], NEW r \in Slots
  PROVE  InKernel(r)' = InKernel(r) - IfOne(r = s)
<1>1. /\ \A q \in Packets : iocp[r][q] \in Int /\ iocp'[r][q] \in Int
      /\ \A o \in IoOps : overlapped[r][o] \in Int
      /\ \A q \in Packets : iocp[r][q] = iocp'[r][q] + IfOne(r = s /\ q = p)
  <2>1. /\ \A q \in Packets : iocp[r][q] \in Int
        /\ \A o \in IoOps : overlapped[r][o] \in Int
    BY DEF TypeOK
  <2>2. \A q \in Packets : iocp'[r][q] = IF r = s /\ q = p THEN iocp[r][q] - 1 ELSE iocp[r][q]
    BY DEF TypeOK
  <2>3. QED
    BY <2>1, <2>2 DEF IfOne
<1>2. InKernel(r) = InKernel(r)' + IfOne(r = s) /\ InKernel(r)' \in Int
  BY <1>1 DEF InKernel, Outstanding, Done, Failed, Packets, IoOps, IfOne
<1>3. QED
  BY <1>2 DEF IfOne

\* CancelIoEx turns outstanding operations into packets.
LEMMA CancelKeeps ==
  ASSUME TypeOK, NEW s \in Slots, overlapped' = NoOverlapped(s),
         NEW n \in {0, 1}, NEW r \in Slots,
         \/ n = 0 /\ iocp' = CancelledIo(s, iocp)
         \/ n = 1 /\ iocp' = [CancelledIo(s, iocp) EXCEPT ![s]["CANCEL_IO"] = @ + 1]
  PROVE  InKernel(r)' = InKernel(r) + (IF r = s THEN n ELSE 0)
<1>1. /\ \A q \in Packets : iocp[r][q] \in Nat
      /\ \A o \in IoOps : overlapped[r][o] \in Nat
  BY DEF TypeOK
<1>2. \A o \in IoOps : overlapped'[r][o] = IF r = s THEN 0 ELSE overlapped[r][o]
  BY DEF TypeOK, NoOverlapped
<1>3. CASE r = s
  <2>1. \A q \in Packets : iocp'[r][q] =
            iocp[r][q] + (IF q = "RECV0" THEN overlapped[r]["recv"] ELSE 0)
                       + (IF q = "SEND0" THEN overlapped[r]["send"] ELSE 0)
                       + (IF q = "CANCEL_IO" THEN n ELSE 0)
    BY <1>1, <1>3 DEF TypeOK, CancelledIo, IoOps
  <2>2. /\ iocp'[r]["RECV"] = iocp[r]["RECV"] /\ iocp'[r]["SEND"] = iocp[r]["SEND"]
        /\ iocp'[r]["RECV0"] = iocp[r]["RECV0"] + overlapped[r]["recv"]
        /\ iocp'[r]["SEND0"] = iocp[r]["SEND0"] + overlapped[r]["send"]
        /\ iocp'[r]["SEND_PEND"] = iocp[r]["SEND_PEND"]
        /\ iocp'[r]["RELEASE_PEND"] = iocp[r]["RELEASE_PEND"]
        /\ iocp'[r]["CANCEL_IO"] = iocp[r]["CANCEL_IO"] + n
        /\ overlapped'[r]["recv"] = 0 /\ overlapped'[r]["send"] = 0
    BY <1>1, <1>2, <1>3, <2>1 DEF Packets, IoOps
  <2>3. /\ \A q \in {"RECV", "RECV0", "SEND", "SEND0", "SEND_PEND", "RELEASE_PEND",
                      "CANCEL_IO"} : iocp[r][q] \in Nat
        /\ overlapped[r]["recv"] \in Nat /\ overlapped[r]["send"] \in Nat
    BY <1>1 DEF Packets, IoOps
  <2>4. QED
    BY <1>3, <2>2, <2>3 DEF InKernel, Outstanding, Done, Failed, IoOps
<1>4. CASE r # s
  <2>1. iocp'[r] = iocp[r]
    BY <1>4 DEF TypeOK, CancelledIo
  <2>2. QED
    BY <1>1, <1>2, <1>4, <2>1 DEF InKernel, Outstanding, Done, Failed, Packets, IoOps
<1>5. QED
  BY <1>3, <1>4

-----------------------------------------------------------------------------
\* A step that touches neither io_count nor the kernel, of a thread whose
\* references stay as they are.
LEMMA HeldStays ==
  ASSUME TypeOK, TypeOK', CountIsReferences, NEW t \in Threads, OnlyMoves(t),
         UNCHANGED <<io_count, kernel>>, \A s \in Slots : Held(t, s)' = Held(t, s)
  PROVE  CountIsReferences'
<1>1. \A s \in Slots : InKernel(s)' = InKernel(s) /\ InKernel(s) \in Int
  BY KernelSame, KernelType
<1>2. \A s \in Slots : io_count[s] \in Int /\ Held(t, s) \in Int
  BY DEF TypeOK, Held, IfOne
<1>3. \A s \in Slots : io_count'[s] + Held(t, s) + InKernel(s)
                       = io_count[s] + Held(t, s)' + InKernel(s)'
  BY <1>1
<1>4. QED
  BY <1>3, Balance

\* Locations at which a thread does not yet, or no longer, hold a reference.
Before == {"acc_inc", "api_inc", "rp_cas", "rp_post"}

\* A step inside a function gives back and takes nothing.
LEMMA GotoHeld ==
  ASSUME TypeOK, NEW t \in Threads, NEW l \in Locations, Goto(t, l),
         pc[t] \notin Before, l \notin Before, ctx[t] # "postfail"
  PROVE  OnlyMoves(t) /\ \A s \in Slots : Held(t, s)' = Held(t, s)
  BY DEF TypeOK, Goto, OnlyMoves, Held, OwnRef, ApiRef, PostRef, Before

\* Nor does the call of disconnect or the return from it.
LEMMA EnterHeld ==
  ASSUME TypeOK, NEW t \in Threads, NEW l \in Locations, NEW c \in Contexts,
         Enter(t, l, c), pc[t] \notin Before, l \notin Before,
         ctx[t] # "postfail", c # "postfail", c = "api" <=> ctx[t] = "api"
  PROVE  OnlyMoves(t) /\ \A s \in Slots : Held(t, s)' = Held(t, s)
  BY DEF TypeOK, Enter, OnlyMoves, Held, OwnRef, ApiRef, PostRef, Before

\* A refused WSARecv or WSASend leaves a count to give back.
LEMMA RefusedHeld ==
  ASSUME TypeOK, NEW t \in Threads, Enter(t, "dec", "postfail"),
         pc[t] \notin Before, ctx[t] \notin {"postfail", "api"}, own[t] \in Slots
  PROVE  OnlyMoves(t) /\ \A s \in Slots : Held(t, s)' = Held(t, s) + IfOne(s = own[t])
  BY DEF TypeOK, Enter, OnlyMoves, Held, OwnRef, ApiRef, PostRef, Before, IfOne

\* updateIOCount gives back the reference, and releasePend holds none.
LEMMA ReturnHeld ==
  ASSUME TypeOK, Control, NEW t \in Threads, Return(t),
         pc[t] \in {"dec", "rp_cas", "rp_post"}
  PROVE  /\ OnlyMoves(t) /\ Obj(t) \in Slots
         /\ pc[t] = "dec" => \A s \in Slots : Held(t, s)' = Held(t,
           s) - IfOne(s = Obj(t))
         /\ pc[t] # "dec" => \A s \in Slots : Held(t, s)' = Held(t, s)
<1>1. /\ OnlyMoves(t) /\ Obj(t) \in Slots /\ own[t] \in Slots
      /\ ctx[t] \in {"io", "postfail", "api"}
  <2>1. OnlyMoves(t)
    BY DEF Return, OnlyMoves, TypeOK
  <2>2. ControlOf(t) /\ pc[t] # Home(t)
    BY HomeOf DEF Control
  <2>3. own[t] \in Slots /\ (ctx[t] = "api" => call[t].slot \in Slots)
    BY <2>2 DEF ControlOf, Calls
  <2>4. ctx[t] \in {"io", "postfail", "api"}
    BY <2>2 DEF ControlOf, TypeOK, Contexts
  <2>5. QED
    BY <2>1, <2>3, <2>4 DEF Obj
<1>2. CASE ctx[t] = "postfail"
  BY <1>1, <1>2, SlotsAssumption
  DEF Return, TypeOK, Obj, Held, OwnRef, ApiRef, PostRef, IfOne
<1>3. CASE ctx[t] = "api"
  BY <1>1, <1>3 DEF Return, TypeOK, Obj, Held, OwnRef, ApiRef, PostRef, IfOne
<1>4. CASE ctx[t] = "io"
  BY <1>1, <1>4, SlotsAssumption
  DEF Return, TypeOK, Obj, Held, OwnRef, ApiRef, PostRef, IfOne
<1>5. QED
  BY <1>1, <1>2, <1>3, <1>4


\* An operation that completes becomes a packet.
LEMMA CompletionKeeps ==
  ASSUME TypeOK, NEW s \in Slots, NEW op \in IoOps, NEW p \in {Done[op], Failed[op]},
         overlapped' = [overlapped EXCEPT ![s][op] = @ - 1],
         iocp' = [iocp EXCEPT ![s][p] = @ + 1], NEW r \in Slots
  PROVE  InKernel(r)' = InKernel(r)
<1>1. /\ \A q \in Packets : iocp[r][q] \in Nat
      /\ \A o \in IoOps : overlapped[r][o] \in Nat
  BY DEF TypeOK
<1>2. CASE r # s
  <2>1. iocp'[r] = iocp[r] /\ overlapped'[r] = overlapped[r]
    BY <1>2 DEF TypeOK
  <2>2. QED
    BY <2>1 DEF InKernel, Outstanding
<1>3. CASE r = s
  <2>1. /\ \A q \in Packets : iocp'[r][q] = IF q = p THEN iocp[r][q] + 1 ELSE iocp[r][q]
        /\ \A o \in IoOps :
             overlapped'[r][o] = IF o = op THEN overlapped[r][o] - 1 ELSE overlapped[r][o]
    BY <1>3 DEF TypeOK
  <2>2. CASE op = "recv"
    BY <1>1, <2>1, <2>2 DEF InKernel, Outstanding, Done, Failed, Packets, IoOps
  <2>3. CASE op = "send"
    BY <1>1, <2>1, <2>3 DEF InKernel, Outstanding, Done, Failed, Packets, IoOps
  <2>4. QED
    BY <2>2, <2>3 DEF IoOps
<1>4. QED
  BY <1>2, <1>3

\* Everything the balance adds up is an integer.
LEMMA Counted ==
  TypeOK => \A t, s : /\ Held(t, s) \in Int
                      /\ s \in Slots => io_count[s] \in Int /\ InKernel(s) \in Int
<1>1. \A t, s : Held(t, s) \in Int
  BY DEF Held, IfOne
<1>2. QED
  BY <1>1, KernelType DEF TypeOK

\* Every step changes io_count by what it changes of the references.
LEMMA NextCounted ==
  TypeOK /\ Control /\ CountIsReferences /\ TypeOK' /\ [Next]_vars => CountIsReferences'
<1> SUFFICES ASSUME TypeOK, Control, CountIsReferences, TypeOK', [Next]_vars
             PROVE  CountIsReferences'
  OBVIOUS
<1>1. CASE Accept
  <2>1. OnlyMoves(Acceptor) /\ UNCHANGED <<io_count, kernel>> /\ Acceptor \in Threads
    BY <1>1 DEF Accept, OnlyMoves, Threads, TypeOK, session
  <2>2. ctx[Acceptor] = "io" /\ own[Acceptor] = NoSlot
    BY <1>1, <2>1, HomeOf DEF Accept, Control, ControlOf
  <2>3. \A s \in Slots : Held(Acceptor, s)' = Held(Acceptor, s)
    BY <1>1, <2>1, <2>2, SlotsAssumption
    DEF Accept, TypeOK, Held, OwnRef, ApiRef, PostRef
  <2>4. QED
    BY <2>1, <2>3, HeldStays
<1>2. CASE AcceptInc
  <2>1. /\ OnlyMoves(Acceptor) /\ Acceptor \in Threads /\ UNCHANGED kernel
        /\ own[Acceptor] \in Slots /\ ctx[Acceptor] \in {"io", "frame", "decode"}
    BY <1>2, HomeOf DEF AcceptInc, Goto, OnlyMoves, Threads, TypeOK, Control, ControlOf,
       Contexts, ApiLocations
  <2>2. \A s \in Slots : Held(Acceptor, s)' = Held(Acceptor,
    s) + IfOne(s = own[Acceptor])
    BY <1>2, <2>1 DEF AcceptInc, Goto, TypeOK, Held, OwnRef, ApiRef, PostRef, IfOne
  <2>3. \A s \in Slots : io_count'[s] = io_count[s] + IfOne(s = own[Acceptor])
    BY <1>2 DEF AcceptInc, IncIo, TypeOK, IfOne
  <2>4. QED
    BY <2>1, <2>2, <2>3, Counted, KernelSame, Balance DEF IfOne
<1>3. CASE AcceptInit
  <2>1. \E l \in Locations \ Before : Goto(Acceptor, l)
    BY <1>3 DEF AcceptInit, Locations, Before
  <2>2. /\ pc[Acceptor] \notin Before /\ ctx[Acceptor] # "postfail" /\ Acceptor \in Threads
        /\ UNCHANGED <<io_count, kernel>>
    BY <1>3 DEF AcceptInit, Before, Control, ControlOf, Threads, session, server, kernel
  <2>3. QED
    BY <2>1, <2>2, GotoHeld, HeldStays
<1>4. CASE AcceptOpen
  <2>1. \E l \in Locations \ Before : Goto(Acceptor, l)
    BY <1>4 DEF AcceptOpen, Locations, Before
  <2>2. /\ pc[Acceptor] \notin Before /\ ctx[Acceptor] # "postfail" /\ Acceptor \in Threads
        /\ UNCHANGED <<io_count, kernel>>
    BY <1>4 DEF AcceptOpen, Before, Control, ControlOf, Threads, session, server, kernel
  <2>3. QED
    BY <2>1, <2>2, GotoHeld, HeldStays
<1>5. CASE AcceptCount
  <2>1. \E l \in Locations \ Before : Goto(Acceptor, l)
    BY <1>5 DEF AcceptCount, Locations, Before
  <2>2. /\ pc[Acceptor] \notin Before /\ ctx[Acceptor] # "postfail" /\ Acceptor \in Threads
        /\ UNCHANGED <<io_count, kernel>>
    BY <1>5 DEF AcceptCount, Before, Control, ControlOf, Threads, session, server,
      kernel
  <2>3. QED
    BY <2>1, <2>2, GotoHeld, HeldStays
<1>6. CASE AcceptJoin
  <2>1. \E l \in Locations \ Before : Goto(Acceptor, l)
    BY <1>6 DEF AcceptJoin, Locations, Before
  <2>2. /\ pc[Acceptor] \notin Before /\ ctx[Acceptor] # "postfail" /\ Acceptor \in Threads
        /\ UNCHANGED <<io_count, kernel>>
    BY <1>6 DEF AcceptJoin, Before, Control, ControlOf, Threads, session, server, kernel
  <2>3. QED
    BY <2>1, <2>2, GotoHeld, HeldStays
<1>7. ASSUME NEW t \in Threads, RecvCheck(t) PROVE CountIsReferences'
  <2>1. \E l \in Locations \ Before : Goto(t, l)
    BY <1>7 DEF RecvCheck, Locations, Before
  <2>2. /\ pc[t] \notin Before /\ ctx[t] # "postfail" /\ t \in Threads
        /\ UNCHANGED <<io_count, kernel>>
    BY <1>7 DEF RecvCheck, Before, Control, ControlOf, Threads, session, server, kernel
  <2>3. QED
    BY <2>1, <2>2, GotoHeld, HeldStays
<1>8. ASSUME NEW t \in Threads, RecvPost(t) PROVE CountIsReferences'
  <2>1. /\ Goto(t, "dec") /\ pc[t] = "recv_post" /\ iocp' = iocp
        /\ overlapped' = [overlapped EXCEPT ![own[t]]["recv"] = @ + 1]
        /\ io_count' = [io_count EXCEPT ![own[t]] = @ + 1]
    BY <1>8 DEF RecvPost, IncIo
  <2>2. own[t] \in Slots /\ ctx[t] # "postfail"
    BY <2>1, HomeOf DEF Control, ControlOf
  <2>3. OnlyMoves(t) /\ \A s \in Slots : Held(t, s)' = Held(t, s)
    BY <2>1, <2>2, GotoHeld DEF Locations, Before
  <2>4. \A s \in Slots : InKernel(s)' = InKernel(s) + IfOne(s = own[t])
    BY <2>1, <2>2, OverlappedMore DEF IoOps
  <2>5. \A s \in Slots : io_count'[s] = io_count[s] + IfOne(s = own[t])
    BY <2>1, <2>2 DEF TypeOK, IfOne
  <2>6. QED
    BY <2>3, <2>4, <2>5, Counted, Balance DEF IfOne
<1>9. ASSUME NEW t \in Threads, RecvPostFail(t) PROVE CountIsReferences'
  <2>1. /\ Enter(t, "dec", "postfail") /\ pc[t] = "recv_post" /\ UNCHANGED kernel
        /\ io_count' = [io_count EXCEPT ![own[t]] = @ + 1]
    BY <1>9 DEF RecvPostFail, IncIo
  <2>2. own[t] \in Slots /\ ctx[t] \notin {"postfail", "api"}
    BY <2>1, HomeOf DEF Control, ControlOf, ApiLocations
  <2>3. OnlyMoves(t) /\ \A s \in Slots : Held(t, s)' = Held(t, s) + IfOne(s = own[t])
    BY <2>1, <2>2, RefusedHeld DEF Before
  <2>4. \A s \in Slots : io_count'[s] = io_count[s] + IfOne(s = own[t])
    BY <2>1, <2>2 DEF TypeOK, IfOne
  <2>5. QED
    BY <2>1, <2>3, <2>4, Counted, KernelSame, Balance DEF IfOne
<1>10. ASSUME NEW t \in Threads, Disconnect(t) PROVE CountIsReferences'
  <2>1. /\ pc[t] = "disc_xchg" /\ UNCHANGED <<io_count, kernel>>
        /\ \/ Goto(t, "disc_cancel")
           \/ Enter(t, AfterDisconnect(t), AfterDisconnectCtx(t))
    BY <1>10 DEF Disconnect
  <2>2. ctx[t] # "postfail"
    BY <2>1 DEF Control, ControlOf
  <2>3. /\ AfterDisconnect(t) \in Locations \ Before
        /\ AfterDisconnectCtx(t) \in Contexts \ {"postfail"}
        /\ AfterDisconnectCtx(t) = "api" <=> ctx[t] = "api"
    BY DEF AfterDisconnect, AfterDisconnectCtx, Locations, Before, Contexts
  <2>4. OnlyMoves(t) /\ \A s \in Slots : Held(t, s)' = Held(t, s)
    <3>1. CASE Goto(t, "disc_cancel")
      BY <2>1, <2>2, <3>1, GotoHeld DEF Locations, Before
    <3>2. CASE Enter(t, AfterDisconnect(t), AfterDisconnectCtx(t))
      BY <2>1, <2>2, <2>3, <3>2, EnterHeld DEF Before
    <3>3. QED
      BY <2>1, <3>1, <3>2
  <2>5. QED
    BY <2>1, <2>4, HeldStays
<1>11. ASSUME NEW t \in Threads, DisconnectCancel(t) PROVE CountIsReferences'
  <2>1. /\ pc[t] = "disc_cancel" /\ Enter(t, AfterDisconnect(t), AfterDisconnectCtx(t))
        /\ overlapped' = NoOverlapped(Obj(t))
        /\ iocp' = [CancelledIo(Obj(t), iocp) EXCEPT ![Obj(t)]["CANCEL_IO"] = @ + 1]
        /\ io_count' = [io_count EXCEPT ![Obj(t)] = @ + 1]
    BY <1>11 DEF DisconnectCancel, IncIo
  <2>2. ctx[t] # "postfail" /\ Obj(t) \in Slots
    BY <2>1, HomeOf DEF Control, ControlOf, Obj, Calls
  <2>3. /\ AfterDisconnect(t) \in Locations \ Before
        /\ AfterDisconnectCtx(t) \in Contexts \ {"postfail"}
        /\ AfterDisconnectCtx(t) = "api" <=> ctx[t] = "api"
    BY DEF AfterDisconnect, AfterDisconnectCtx, Locations, Before, Contexts
  <2>4. OnlyMoves(t) /\ \A s \in Slots : Held(t, s)' = Held(t, s)
    BY <2>1, <2>2, <2>3, EnterHeld DEF Before
  <2>5. \A s \in Slots : InKernel(s)' = InKernel(s) + IfOne(s = Obj(t))
    BY <2>1, <2>2, CancelKeeps, 1 \in {0, 1} DEF IfOne
  <2>6. \A s \in Slots : io_count'[s] = io_count[s] + IfOne(s = Obj(t))
    BY <2>1, <2>2 DEF TypeOK, IfOne
  <2>7. QED
    BY <2>4, <2>5, <2>6, Counted, Balance DEF IfOne
<1>12. ASSUME NEW t \in Threads, UpdateIOCount(t) PROVE CountIsReferences'
  <2>1. /\ pc[t] = "dec" /\ UNCHANGED kernel
        /\ io_count' = [io_count EXCEPT ![Obj(t)] = @ - 1]
        /\ \/ io_count[Obj(t)] = 1 /\ Goto(t, "rp_cas")
           \/ io_count[Obj(t)] < 1
           \/ Return(t)
    BY <1>12 DEF UpdateIOCount
  <2>2. /\ Obj(t) \in Slots /\ own[t] \in Slots /\ ctx[t] \in {"io", "postfail", "api"}
    BY <2>1, HomeOf DEF Control, ControlOf, Obj, Calls, TypeOK, Contexts
  <2>3. OwnRef(t, Obj(t)) \/ ApiRef(t, Obj(t)) \/ PostRef(t, Obj(t))
    BY <2>1, <2>2 DEF OwnRef, ApiRef, PostRef, Obj
  <2>4. io_count[Obj(t)] >= 1 /\ io_count[Obj(t)] \in Int
    BY <2>2, <2>3, HeldIsCounted DEF TypeOK
  <2>5. OnlyMoves(t) /\ \A s \in Slots : Held(t, s)' = Held(t, s) - IfOne(s = Obj(t))
    <3>1. CASE Goto(t, "rp_cas")
      BY <2>1, <2>2, <3>1
      DEF Goto, OnlyMoves, TypeOK, Held, OwnRef, ApiRef, PostRef, Obj, IfOne
    <3>2. CASE Return(t)
      BY <2>1, <3>2, ReturnHeld
    <3>3. QED
      BY <2>1, <2>4, <3>1, <3>2
  <2>6. \A s \in Slots : io_count'[s] = io_count[s] - IfOne(s = Obj(t))
    BY <2>1, <2>2 DEF TypeOK, IfOne
  <2>7. QED
    BY <2>1, <2>5, <2>6, Counted, KernelSame, Balance DEF IfOne
<1>13. ASSUME NEW t \in Threads, ReleaseFlagCas(t) PROVE CountIsReferences'
  <2>1. /\ pc[t] = "rp_cas" /\ UNCHANGED <<io_count, kernel>>
        /\ Goto(t, "rp_post") \/ Return(t)
    BY <1>13 DEF ReleaseFlagCas
  <2>2. OnlyMoves(t) /\ \A s \in Slots : Held(t, s)' = Held(t, s)
    <3>1. CASE Goto(t, "rp_post")
      BY <2>1, <3>1 DEF Goto, OnlyMoves, TypeOK, Held, OwnRef, ApiRef, PostRef
    <3>2. CASE Return(t)
      BY <2>1, <3>2, ReturnHeld
    <3>3. QED
      BY <2>1, <3>1, <3>2
  <2>3. QED
    BY <2>1, <2>2, HeldStays
<1>14. ASSUME NEW t \in Threads, ReleasePost(t) PROVE CountIsReferences'
  <2>1. /\ pc[t] = "rp_post" /\ Return(t) /\ overlapped' = overlapped
        /\ iocp' = [iocp EXCEPT ![Obj(t)]["RELEASE_PEND"] = @ + 1]
        /\ io_count' = [io_count EXCEPT ![Obj(t)] = @ + 1]
    BY <1>14 DEF ReleasePost, Post, IncIo
  <2>2. /\ OnlyMoves(t) /\ Obj(t) \in Slots
        /\ \A s \in Slots : Held(t, s)' = Held(t, s)
    BY <2>1, ReturnHeld
  <2>3. \A s \in Slots : InKernel(s)' = InKernel(s) + IfOne(s = Obj(t))
    BY <2>1, <2>2, PacketMore DEF Packets
  <2>4. \A s \in Slots : io_count'[s] = io_count[s] + IfOne(s = Obj(t))
    BY <2>1, <2>2 DEF TypeOK, IfOne
  <2>5. QED
    BY <2>2, <2>3, <2>4, Counted, Balance DEF IfOne
<1>15. ASSUME NEW t \in Threads, ApiInc(t) PROVE CountIsReferences'
  <2>1. /\ pc[t] = "api_inc" /\ Goto(t, "api_flag") /\ UNCHANGED kernel
        /\ io_count' = [io_count EXCEPT ![call[t].slot] = @ + 1]
    BY <1>15 DEF ApiInc, IncIo
  <2>2. ctx[t] = "api" /\ call[t].slot \in Slots
    BY <2>1 DEF Control, ControlOf, ApiLocations, Calls
  <2>3. OnlyMoves(t) /\ \A s \in Slots : Held(t, s)' = Held(t,
    s) + IfOne(s = call[t].slot)
    BY <2>1, <2>2 DEF Goto, OnlyMoves, TypeOK, Held, OwnRef, ApiRef, PostRef, IfOne
  <2>4. \A s \in Slots : io_count'[s] = io_count[s] + IfOne(s = call[t].slot)
    BY <2>1, <2>2 DEF TypeOK, IfOne
  <2>5. QED
    BY <2>1, <2>3, <2>4, Counted, KernelSame, Balance DEF IfOne
<1>16. ASSUME NEW t \in Threads, ApiFlag(t) PROVE CountIsReferences'
  <2>1. \E l \in Locations \ Before : Goto(t, l)
    BY <1>16 DEF ApiFlag, Locations, Before
  <2>2. /\ pc[t] \notin Before /\ ctx[t] # "postfail" /\ t \in Threads
        /\ UNCHANGED <<io_count, kernel>>
    BY <1>16 DEF ApiFlag, Before, Control, ControlOf, Threads, session, server, kernel
  <2>3. QED
    BY <2>1, <2>2, GotoHeld, HeldStays
<1>17. ASSUME NEW t \in Threads, ApiId(t) PROVE CountIsReferences'
  <2>1. \E l \in Locations \ Before : Goto(t, l)
    BY <1>17 DEF ApiId, Locations, Before
  <2>2. /\ pc[t] \notin Before /\ ctx[t] # "postfail" /\ t \in Threads
        /\ UNCHANGED <<io_count, kernel>>
    BY <1>17 DEF ApiId, Before, Control, ControlOf, Threads, session, server, kernel
  <2>3. QED
    BY <2>1, <2>2, GotoHeld, HeldStays
<1>18. ASSUME NEW t \in Workers, Cancel(t) PROVE CountIsReferences'
  <2> t \in Threads
    BY DEF Threads
  <2>1. /\ pc[t] = "cancel" /\ Goto(t, "dec") /\ io_count' = io_count
        /\ overlapped' = NoOverlapped(own[t]) /\ iocp' = CancelledIo(own[t], iocp)
    BY <1>18 DEF Cancel, session
  <2>2. own[t] \in Slots /\ ctx[t] # "postfail"
    BY <2>1, HomeOf DEF Control, ControlOf
  <2>3. OnlyMoves(t) /\ \A s \in Slots : Held(t, s)' = Held(t, s)
    BY <2>1, <2>2, GotoHeld DEF Locations, Before
  <2>4. \A s \in Slots : InKernel(s)' = InKernel(s) + (IF s = own[t] THEN 0 ELSE 0)
    BY <2>1, <2>2, CancelKeeps, 0 \in {0, 1}
  <2>5. QED
    BY <2>1, <2>3, <2>4, Counted, Balance
<1>19. ASSUME NEW t \in Workers, FrameDone(t) PROVE CountIsReferences'
  <2>1. \E l \in Locations \ Before : Goto(t, l)
    BY <1>19 DEF FrameDone, Locations, Before
  <2>2. /\ pc[t] \notin Before /\ ctx[t] # "postfail" /\ t \in Threads
        /\ UNCHANGED <<io_count, kernel>>
    BY <1>19 DEF FrameDone, Before, Control, ControlOf, Threads, session, server, kernel
  <2>3. QED
    BY <2>1, <2>2, GotoHeld, HeldStays
<1>20. ASSUME NEW t \in Workers, FrameError(t) PROVE CountIsReferences'
  <2> t \in Threads
    BY DEF Threads
  <2>1. /\ pc[t] = "frame" /\ UNCHANGED <<io_count, kernel>>
        /\ \E c \in {"frame", "decode"} : Enter(t, "disc_xchg", c)
    BY <1>20 DEF FrameError, session
  <2>2. ctx[t] \notin {"postfail", "api"}
    BY <2>1 DEF Control, ControlOf, ApiLocations
  <2>3. OnlyMoves(t) /\ \A s \in Slots : Held(t, s)' = Held(t, s)
    BY <2>1, <2>2, EnterHeld DEF Locations, Contexts, Before
  <2>4. QED
    BY <2>1, <2>3, HeldStays
<1>21. ASSUME NEW t \in Workers, OnRecv(t) PROVE CountIsReferences'
  <2>1. \E l \in Locations \ Before : Goto(t, l)
    BY <1>21 DEF OnRecv, Locations, Before
  <2>2. /\ pc[t] \notin Before /\ ctx[t] # "postfail" /\ t \in Threads
        /\ UNCHANGED <<io_count, kernel>>
    BY <1>21 DEF OnRecv, Before, Control, ControlOf, Threads, session, server, kernel
  <2>3. QED
    BY <2>1, <2>2, GotoHeld, HeldStays
<1>22. ASSUME NEW t \in Workers, OnRecvCall(t) PROVE CountIsReferences'
  <2> t \in Threads
    BY DEF Threads
  <2>1. /\ pc[t] = "onrecv" /\ UNCHANGED <<io_count, kernel>> /\ t \in Threads
        /\ \E c : Invoke(t, c)
    BY <1>22 DEF OnRecvCall, session, Threads
  <2>2. ctx[t] \notin {"postfail", "api"}
    BY <2>1 DEF Control, ControlOf, ApiLocations
  <2>3. OnlyMoves(t) /\ \A s \in Slots : Held(t, s)' = Held(t, s)
    BY <2>1, <2>2 DEF Invoke, OnlyMoves, TypeOK, Held, OwnRef, ApiRef, PostRef
  <2>4. QED
    BY <2>1, <2>3, HeldStays
<1>23. ASSUME NEW t \in Workers, OnRecvReturn(t) PROVE CountIsReferences'
  <2>1. \E l \in Locations \ Before : Goto(t, l)
    BY <1>23 DEF OnRecvReturn, Locations, Before
  <2>2. /\ pc[t] \notin Before /\ ctx[t] # "postfail" /\ t \in Threads
        /\ UNCHANGED <<io_count, kernel>>
    BY <1>23 DEF OnRecvReturn, Before, Control, ControlOf, Threads, session, server,
      kernel
  <2>3. QED
    BY <2>1, <2>2, GotoHeld, HeldStays
<1>24. ASSUME NEW t \in Workers, TryClear(t) PROVE CountIsReferences'
  <2>1. \E l \in Locations \ Before : Goto(t, l)
    BY <1>24 DEF TryClear, Locations, Before
  <2>2. /\ pc[t] \notin Before /\ ctx[t] # "postfail" /\ t \in Threads
        /\ UNCHANGED <<io_count, kernel>>
    BY <1>24 DEF TryClear, Before, Control, ControlOf, Threads, session, server, kernel
  <2>3. QED
    BY <2>1, <2>2, GotoHeld, HeldStays
<1>25. ASSUME NEW t \in Workers, TrySize(t) PROVE CountIsReferences'
  <2>1. \E l \in Locations \ Before : Goto(t, l)
    BY <1>25 DEF TrySize, Locations, Before
  <2>2. /\ pc[t] \notin Before /\ ctx[t] # "postfail" /\ t \in Threads
        /\ UNCHANGED <<io_count, kernel>>
    BY <1>25 DEF TrySize, Before, Control, ControlOf, Threads, session, server, kernel
  <2>3. QED
    BY <2>1, <2>2, GotoHeld, HeldStays
<1>26. ASSUME NEW t \in Workers, SendCheck(t) PROVE CountIsReferences'
  <2>1. \E l \in Locations \ Before : Goto(t, l)
    BY <1>26 DEF SendCheck, Locations, Before
  <2>2. /\ pc[t] \notin Before /\ ctx[t] # "postfail" /\ t \in Threads
        /\ UNCHANGED <<io_count, kernel>>
    BY <1>26 DEF SendCheck, Before, Control, ControlOf, Threads, session, server, kernel
  <2>3. QED
    BY <2>1, <2>2, GotoHeld, HeldStays
<1>27. ASSUME NEW t \in Workers, SendExchange(t) PROVE CountIsReferences'
  <2>1. \E l \in Locations \ Before : Goto(t, l)
    BY <1>27 DEF SendExchange, Locations, Before
  <2>2. /\ pc[t] \notin Before /\ ctx[t] # "postfail" /\ t \in Threads
        /\ UNCHANGED <<io_count, kernel>>
    BY <1>27 DEF SendExchange, Before, Control, ControlOf, Threads, session, server,
      kernel
  <2>3. QED
    BY <2>1, <2>2, GotoHeld, HeldStays
<1>28. ASSUME NEW t \in Workers, SendNothing(t) PROVE CountIsReferences'
  <2>1. \E l \in Locations \ Before : Goto(t, l)
    BY <1>28 DEF SendNothing, Locations, Before
  <2>2. /\ pc[t] \notin Before /\ ctx[t] # "postfail" /\ t \in Threads
        /\ UNCHANGED <<io_count, kernel>>
    BY <1>28 DEF SendNothing, Before, Control, ControlOf, Threads, session, server,
      kernel
  <2>3. QED
    BY <2>1, <2>2, GotoHeld, HeldStays
<1>29. ASSUME NEW t \in Workers, SendClear(t) PROVE CountIsReferences'
  <2>1. \E l \in Locations \ Before : Goto(t, l)
    BY <1>29 DEF SendClear, Locations, Before
  <2>2. /\ pc[t] \notin Before /\ ctx[t] # "postfail" /\ t \in Threads
        /\ UNCHANGED <<io_count, kernel>>
    BY <1>29 DEF SendClear, Before, Control, ControlOf, Threads, session, server, kernel
  <2>3. QED
    BY <2>1, <2>2, GotoHeld, HeldStays
<1>30. ASSUME NEW t \in Workers, SendPost(t) PROVE CountIsReferences'
  <2> t \in Threads
    BY DEF Threads
  <2>1. /\ pc[t] = "sp_size" /\ iocp' = iocp
        /\ io_count' = [io_count EXCEPT ![own[t]] = @ + 1]
        /\ \/ /\ overlapped' = [overlapped EXCEPT ![own[t]]["send"] = @ + 1]
              /\ Goto(t, "dec")
           \/ Enter(t, "dec", "postfail") /\ overlapped' = overlapped
    BY <1>30 DEF SendPost, IncIo
  <2>2. own[t] \in Slots /\ ctx[t] \notin {"postfail", "api"}
    BY <2>1, HomeOf DEF Control, ControlOf, ApiLocations
  <2>3. \A s \in Slots : io_count'[s] = io_count[s] + IfOne(s = own[t])
    BY <2>1, <2>2 DEF TypeOK, IfOne
  <2>4. CASE /\ overlapped' = [overlapped EXCEPT ![own[t]]["send"] = @ + 1]
             /\ Goto(t, "dec")
    <3>1. OnlyMoves(t) /\ \A s \in Slots : Held(t, s)' = Held(t, s)
      BY <2>1, <2>2, <2>4, GotoHeld DEF Locations, Before
    <3>2. \A s \in Slots : InKernel(s)' = InKernel(s) + IfOne(s = own[t])
      BY <2>1, <2>2, <2>4, OverlappedMore DEF IoOps
    <3>3. QED
      BY <2>3, <3>1, <3>2, Counted, Balance DEF IfOne
  <2>5. CASE Enter(t, "dec", "postfail") /\ overlapped' = overlapped
    <3>1. OnlyMoves(t) /\ \A s \in Slots : Held(t, s)' = Held(t, s) + IfOne(s = own[t])
      BY <2>1, <2>2, <2>5, RefusedHeld DEF Before
    <3>2. \A s \in Slots : InKernel(s)' = InKernel(s)
      BY <2>1, <2>5, KernelSame DEF kernel
    <3>3. QED
      BY <2>3, <3>1, <3>2, Counted, Balance DEF IfOne
  <2>6. QED
    BY <2>1, <2>4, <2>5
<1>31. ASSUME NEW t \in Workers, Enqueue(t) PROVE CountIsReferences'
  <2>1. \E l \in Locations \ Before : Goto(t, l)
    BY <1>31 DEF Enqueue, Locations, Before
  <2>2. /\ pc[t] \notin Before /\ ctx[t] # "postfail" /\ t \in Threads
        /\ UNCHANGED <<io_count, kernel>>
    BY <1>31 DEF Enqueue, Before, Control, ControlOf, Threads, session, server, kernel
  <2>3. QED
    BY <2>1, <2>2, GotoHeld, HeldStays
<1>32. ASSUME NEW t \in Workers, PendCheck(t) PROVE CountIsReferences'
  <2>1. \E l \in Locations \ Before : Goto(t, l)
    BY <1>32 DEF PendCheck, Locations, Before
  <2>2. /\ pc[t] \notin Before /\ ctx[t] # "postfail" /\ t \in Threads
        /\ UNCHANGED <<io_count, kernel>>
    BY <1>32 DEF PendCheck, Before, Control, ControlOf, Threads, session, server, kernel
  <2>3. QED
    BY <2>1, <2>2, GotoHeld, HeldStays
<1>33. ASSUME NEW t \in Workers, PendExchange(t) PROVE CountIsReferences'
  <2> t \in Threads
    BY DEF Threads
  <2>1. /\ pc[t] = "pend_xchg" /\ Goto(t, "dec") /\ overlapped' = overlapped
        /\ \/ UNCHANGED <<io_count, iocp>>
           \/ /\ iocp' = [iocp EXCEPT ![Obj(t)]["SEND_PEND"] = @ + 1]
              /\ io_count' = [io_count EXCEPT ![Obj(t)] = @ + 1]
    BY <1>33 DEF PendExchange, Post, IncIo
  <2>2. Obj(t) \in Slots /\ ctx[t] # "postfail"
    BY <2>1, HomeOf DEF Control, ControlOf, Obj, Calls
  <2>3. OnlyMoves(t) /\ \A s \in Slots : Held(t, s)' = Held(t, s)
    BY <2>1, <2>2, GotoHeld DEF Locations, Before
  <2>4. CASE UNCHANGED <<io_count, iocp>>
    BY <2>1, <2>3, <2>4, HeldStays DEF kernel
  <2>5. CASE /\ iocp' = [iocp EXCEPT ![Obj(t)]["SEND_PEND"] = @ + 1]
             /\ io_count' = [io_count EXCEPT ![Obj(t)] = @ + 1]
    <3>1. \A s \in Slots : InKernel(s)' = InKernel(s) + IfOne(s = Obj(t))
      BY <2>1, <2>2, <2>5, PacketMore DEF Packets
    <3>2. \A s \in Slots : io_count'[s] = io_count[s] + IfOne(s = Obj(t))
      BY <2>2, <2>5 DEF TypeOK, IfOne
    <3>3. QED
      BY <2>3, <3>1, <3>2, Counted, Balance DEF IfOne
  <2>6. QED
    BY <2>1, <2>4, <2>5
<1>34. ASSUME NEW t \in Workers, ReleaseLeave(t) PROVE CountIsReferences'
  <2>1. \E l \in Locations \ Before : Goto(t, l)
    BY <1>34 DEF ReleaseLeave, Locations, Before
  <2>2. /\ pc[t] \notin Before /\ ctx[t] # "postfail" /\ t \in Threads
        /\ UNCHANGED <<io_count, kernel>>
    BY <1>34 DEF ReleaseLeave, Before, Control, ControlOf, Threads, session, server,
      kernel
  <2>3. QED
    BY <2>1, <2>2, GotoHeld, HeldStays
<1>35. ASSUME NEW t \in Workers, ReleaseClear(t) PROVE CountIsReferences'
  <2>1. \E l \in Locations \ Before : Goto(t, l)
    BY <1>35 DEF ReleaseClear, Locations, Before
  <2>2. /\ pc[t] \notin Before /\ ctx[t] # "postfail" /\ t \in Threads
        /\ UNCHANGED <<io_count, kernel>>
    BY <1>35 DEF ReleaseClear, Before, Control, ControlOf, Threads, session, server,
      kernel
  <2>3. QED
    BY <2>1, <2>2, GotoHeld, HeldStays
<1>36. ASSUME NEW t \in Workers, ReleasePush(t) PROVE CountIsReferences'
  <2>1. \E l \in Locations \ Before : Goto(t, l)
    BY <1>36 DEF ReleasePush, Locations, Before
  <2>2. /\ pc[t] \notin Before /\ ctx[t] # "postfail" /\ t \in Threads
        /\ UNCHANGED <<io_count, kernel>>
    BY <1>36 DEF ReleasePush, Before, Control, ControlOf, Threads, session, server,
      kernel
  <2>3. QED
    BY <2>1, <2>2, GotoHeld, HeldStays
<1>37. ASSUME NEW t \in Workers, ReleaseCount(t) PROVE CountIsReferences'
  <2>1. \E l \in Locations \ Before : Goto(t, l)
    BY <1>37 DEF ReleaseCount, Locations, Before
  <2>2. /\ pc[t] \notin Before /\ ctx[t] # "postfail" /\ t \in Threads
        /\ UNCHANGED <<io_count, kernel>>
    BY <1>37 DEF ReleaseCount, Before, Control, ControlOf, Threads, session, server,
      kernel
  <2>3. QED
    BY <2>1, <2>2, GotoHeld, HeldStays
<1>38. CASE Tick
  <2>1. /\ OnlyMoves(Timer) /\ Timer \in Threads /\ UNCHANGED kernel
        /\ own[Timer] = NoSlot /\ ctx[Timer] = "io"
    BY <1>38, HomeOf DEF Tick, OnlyMoves, Threads, TypeOK, Control, ControlOf
  <2>2. PICK r \in Slots : /\ io_count' = [io_count EXCEPT ![r] = @ + 1]
                           /\ own' = [own EXCEPT ![Timer] = r]
    BY <1>38 DEF Tick, IncIo
  <2>3. \A s \in Slots : Held(Timer, s)' = Held(Timer, s) + IfOne(s = r)
    BY <1>38, <2>1, <2>2, SlotsAssumption
    DEF Tick, TypeOK, Held, OwnRef, ApiRef, PostRef, IfOne
  <2>4. \A s \in Slots : io_count'[s] = io_count[s] + IfOne(s = r)
    BY <2>2 DEF TypeOK, IfOne
  <2>5. QED
    BY <2>1, <2>3, <2>4, Counted, KernelSame, Balance DEF IfOne
<1>39. CASE TimedOut
  <2>1. /\ pc[Timer] = "tm_check" /\ UNCHANGED <<io_count, kernel>> /\ Timer \in Threads
        /\ \E c : Invoke(Timer, c)
    BY <1>39 DEF TimedOut, session, Threads
  <2>2. ctx[Timer] \notin {"postfail", "api"}
    BY <2>1 DEF Control, ControlOf, ApiLocations
  <2>3. OnlyMoves(Timer) /\ \A s \in Slots : Held(Timer, s)' = Held(Timer, s)
    BY <2>1, <2>2 DEF Invoke, OnlyMoves, TypeOK, Held, OwnRef, ApiRef, PostRef
  <2>4. QED
    BY <2>1, <2>3, HeldStays
<1>40. CASE NotTimedOut
  <2>1. \E l \in Locations \ Before : Goto(Timer, l)
    BY <1>40 DEF NotTimedOut, Locations, Before
  <2>2. /\ pc[Timer] \notin Before /\ ctx[Timer] # "postfail" /\ Timer \in Threads
        /\ UNCHANGED <<io_count, kernel>>
    BY <1>40 DEF NotTimedOut, Before, Control, ControlOf, Threads, session, server,
      kernel
  <2>3. QED
    BY <2>1, <2>2, GotoHeld, HeldStays
<1>41. ASSUME NEW t \in Workers, NEW s \in Slots, NEW p \in Packets, GetPacket(t, s, p)
      PROVE  CountIsReferences'
  <2>1. /\ pc[t] = "gqcs" /\ io_count' = io_count /\ overlapped' = overlapped
        /\ iocp' = [iocp EXCEPT ![s][p] = @ - 1] /\ t \in Threads
        /\ own' = [own EXCEPT ![t] = s] /\ pc' = [pc EXCEPT ![t] = Dispatch(s, p)]
        /\ UNCHANGED <<call, ctx>>
    BY <1>41 DEF GetPacket, session, Threads
  <2>2. OnlyMoves(t) /\ own[t] = NoSlot /\ ctx[t] = "io" /\ Dispatch(s, p) \notin Before
    BY <2>1, HomeOf DEF OnlyMoves, TypeOK, Control, ControlOf, Dispatch, Before
  <2>3. \A r \in Slots : Held(t, r)' = Held(t, r) + IfOne(r = s)
    BY <2>1, <2>2, SlotsAssumption
    DEF TypeOK, Before, Held, OwnRef, ApiRef, PostRef, IfOne
  <2>4. \A r \in Slots : InKernel(r)' = InKernel(r) - IfOne(r = s)
    BY <2>1, PacketLess
  <2>5. QED
    BY <2>1, <2>2, <2>3, <2>4, Counted, Balance DEF IfOne
<1>42. ASSUME NEW s \in Slots, NEW op \in IoOps, IoComplete(s, op)
      PROVE  CountIsReferences'
  <2>1. PICK p \in {Done[op], Failed[op]} : iocp' = [iocp EXCEPT ![s][p] = @ + 1]
    BY <1>42 DEF IoComplete
  <2>2. /\ overlapped' = [overlapped EXCEPT ![s][op] = @ - 1] /\ io_count' = io_count
        /\ UNCHANGED thread /\ Acceptor \in Threads
    BY <1>42 DEF IoComplete, session, Threads
  <2>3. OnlyMoves(Acceptor) /\ \A r \in Slots : Held(Acceptor, r)' = Held(Acceptor, r)
    BY <2>2 DEF OnlyMoves, thread, Held, OwnRef, ApiRef, PostRef
  <2>4. \A r \in Slots : InKernel(r)' = InKernel(r)
    BY <2>1, <2>2, CompletionKeeps
  <2>5. QED
    BY <2>2, <2>3, <2>4, Counted, Balance
<1>43. CASE UNCHANGED vars
  BY <1>43 DEF vars, session, server, kernel, app, thread, CountIsReferences, Owners,
     Callers, Refused, OwnRef, ApiRef, PostRef, Outstanding
<1>44. QED
  BY <1>1, <1>2, <1>3, <1>4, <1>5, <1>6, <1>7, <1>8, <1>9, <1>10, <1>11,
     <1>12, <1>13, <1>14, <1>15, <1>16, <1>17, <1>18, <1>19, <1>20, <1>21,
     <1>22, <1>23, <1>24, <1>25, <1>26, <1>27, <1>28, <1>29, <1>30, <1>31,
     <1>32, <1>33, <1>34, <1>35, <1>36, <1>37, <1>38, <1>39, <1>40, <1>41,
     <1>42, <1>43
  DEF Next, AcceptorStep, CommonStep, WorkerStep, TimerStep, KernelStep

\* Nobody holds a reference at the start.
LEMMA InitCounted == Init => CountIsReferences
<1> SUFFICES ASSUME Init PROVE CountIsReferences
  OBVIOUS
<1>1. \A s \in Slots : Owners(s) = {} /\ Callers(s) = {} /\ Refused(s) = {}
  BY SlotsAssumption DEF Init, Owners, Callers, Refused, OwnRef, ApiRef, PostRef
<1>2. \A s \in Slots : /\ io_count[s] = 0
                        /\ \A p \in Packets : iocp[s][p] = 0
                        /\ \A op \in IoOps : overlapped[s][op] = 0
  BY DEF Init
<1>3. \A s \in Slots : /\ Outstanding(s, "recv") = 0 /\ Outstanding(s, "send") = 0
                        /\ iocp[s]["SEND_PEND"] = 0 /\ iocp[s]["RELEASE_PEND"] = 0
                        /\ iocp[s]["CANCEL_IO"] = 0
  BY <1>2 DEF Outstanding, Done, Failed, Packets, IoOps
<1>4. Cardinality({}) = 0
  BY FS_EmptySet
<1>5. QED
  BY <1>1, <1>2, <1>3, <1>4 DEF CountIsReferences

\* io_count equals the references that exist, at every moment: no path through
\* accept, receive, send, disconnect, release, timeout or the public API leaks a
\* count or gives one back twice.
THEOREM CountCorrect == Spec => []CountIsReferences
<1>1. Spec => [](TypeOK /\ Control /\ CountIsReferences)
  BY InitTyped, NextTyped, InitCounted, NextCounted, PTL DEF Spec
<1>2. QED
  BY <1>1, PTL

-----------------------------------------------------------------------------
(***************************************************************************)
(* A free slot is clean and an API call works on its own session.          *)
(*                                                                         *)
(* The argument.  A slot is in one phase at a time: on the stack of empty  *)
(* slots, in the hands of the accept thread, open, or being released by    *)
(* one thread or one RELEASE_PEND packet (OnePhase).  A slot closes only   *)
(* when io_count is 0, and everybody who uses an open slot is counted      *)
(* (CountIsReferences), so nobody uses a closed one and the kernel has     *)
(* nothing of it (OpenWhileUsed).  What release() cleaned therefore stays  *)
(* clean until AcceptInit (Emptied), and a session id that was checked     *)
(* stays what it is (IdChecked).  The case analysis is shared: StepKinds   *)
(* says what a step does to its thread, to the Sessions and to what the    *)
(* kernel has of them, and the later proofs go through these kinds.        *)
(***************************************************************************)
-----------------------------------------------------------------------------
(* What the kernel has of a session, by OVERLAPPED and by posted request *)

Classes == IoOps \cup Requests

Load(s, k) == IF k \in IoOps THEN Outstanding(s, k) ELSE iocp[s][k]

\* The class a packet of the completion port counts in.
ClassOf(p) == CASE p \in {"RECV", "RECV0"} -> "recv"
                [] p \in {"SEND", "SEND0"} -> "send"
                [] OTHER                   -> p

LoadsSame == \A r \in Slots, c \in Classes : Load(r, c)' = Load(r, c)

\* One more, or one less, in class k of session s.
LoadsMore(s, k) == \A r \in Slots, c \in Classes :
    Load(r, c)' = IF r = s /\ c = k THEN Load(r, c) + 1 ELSE Load(r, c)
LoadsLess(s, k) == \A r \in Slots, c \in Classes :
    Load(r, c)' = IF r = s /\ c = k THEN Load(r, c) - 1 ELSE Load(r, c)

\* Loads are numbers.
LEMMA LoadType ==
  ASSUME TypeOK, NEW s \in Slots
  PROVE  /\ \A k \in Classes : Load(s, k) \in Nat
         /\ \A p \in Packets : iocp[s][p] \in Nat
         /\ \A op \in IoOps : overlapped[s][op] \in Nat
<1>1. /\ \A p \in Packets : iocp[s][p] \in Nat
      /\ \A op \in IoOps : overlapped[s][op] \in Nat
  BY DEF TypeOK
<1>2. QED
  BY <1>1 DEF Load, Classes, Outstanding, Done, Failed, Packets, IoOps, Requests

\* The classes, and the loads, one by one.
LEMMA LoadOf ==
  ASSUME NEW s \in Slots
  PROVE  /\ Load(s, "recv") = overlapped[s]["recv"] + iocp[s]["RECV"] + iocp[s]["RECV0"]
         /\ Load(s, "send") = overlapped[s]["send"] + iocp[s]["SEND"] + iocp[s]["SEND0"]
         /\ \A k \in Requests : Load(s, k) = iocp[s][k]
BY DEF Load, Outstanding, Done, Failed, IoOps, Requests

\* A step that leaves the kernel alone changes no load.
LEMMA LoadKept ==
  ASSUME UNCHANGED kernel PROVE LoadsSame
BY DEF kernel, LoadsSame, Load, Outstanding

\* WSARecv or WSASend is posted.
LEMMA LoadPosted ==
  ASSUME TypeOK, NEW s \in Slots, NEW op \in IoOps, iocp' = iocp,
         overlapped' = [overlapped EXCEPT ![s][op] = @ + 1]
  PROVE  LoadsMore(s, op)
<1> SUFFICES ASSUME NEW r \in Slots, NEW c \in Classes
             PROVE  Load(r, c)' = IF r = s /\ c = op THEN Load(r, c) + 1 ELSE Load(r, c)
  BY DEF LoadsMore
<1>1. CASE c \in IoOps
  <2>1. overlapped'[r][c] = IF r = s /\ c = op THEN overlapped[r][c] + 1
                                             ELSE overlapped[r][c]
    BY <1>1 DEF TypeOK
  <2>2. /\ overlapped[r][c] \in Nat /\ iocp[r][Done[c]] \in Nat /\ iocp[r][Failed[c]] \in Nat
    BY <1>1, LoadType DEF Done, Failed, Packets, IoOps
  <2>3. QED
    BY <1>1, <2>1, <2>2 DEF Load, Outstanding
<1>2. CASE c \notin IoOps
  BY <1>2 DEF Load
<1>3. QED
  BY <1>1, <1>2

\* A request is posted.
LEMMA LoadRequested ==
  ASSUME TypeOK, NEW s \in Slots, NEW p \in Requests, overlapped' = overlapped,
         iocp' = [iocp EXCEPT ![s][p] = @ + 1]
  PROVE  LoadsMore(s, p)
<1> SUFFICES ASSUME NEW r \in Slots, NEW c \in Classes
             PROVE  Load(r, c)' = IF r = s /\ c = p THEN Load(r, c) + 1 ELSE Load(r, c)
  BY DEF LoadsMore
<1>1. \A q \in Packets : iocp'[r][q] = IF r = s /\ q = p THEN iocp[r][q] + 1 ELSE iocp[r][q]
  BY DEF TypeOK
<1>2. /\ iocp'[r]["RECV"] = iocp[r]["RECV"] /\ iocp'[r]["SEND"] = iocp[r]["SEND"]
      /\ iocp'[r]["RECV0"] = iocp[r]["RECV0"] /\ iocp'[r]["SEND0"] = iocp[r]["SEND0"]
  BY <1>1 DEF Packets, Requests
<1>3. CASE c \in IoOps
  BY <1>2, <1>3 DEF Load, Outstanding, Done, Failed, IoOps, Requests
<1>4. CASE c \notin IoOps
  BY <1>1, <1>4 DEF Load, Classes, Requests, Packets
<1>5. QED
  BY <1>3, <1>4

\* A packet is dequeued.
LEMMA LoadTaken ==
  ASSUME TypeOK, NEW s \in Slots, NEW p \in Packets, overlapped' = overlapped,
         iocp' = [iocp EXCEPT ![s][p] = @ - 1]
  PROVE  LoadsLess(s, ClassOf(p))
<1> SUFFICES ASSUME NEW r \in Slots, NEW c \in Classes
             PROVE  Load(r, c)' = IF r = s /\ c = ClassOf(p) THEN Load(r, c) - 1
                                                             ELSE Load(r, c)
  BY DEF LoadsLess
<1>1. \A q \in Packets : iocp'[r][q] = IF r = s /\ q = p THEN iocp[r][q] - 1 ELSE iocp[r][q]
  BY DEF TypeOK
<1>2. /\ \A q \in {"RECV", "RECV0", "SEND", "SEND0"} : q \in Packets /\ iocp[r][q] \in Nat
      /\ overlapped[r]["recv"] \in Nat /\ overlapped[r]["send"] \in Nat
  BY LoadType DEF Packets, IoOps
<1>3. CASE c = "recv"
  BY <1>1, <1>2, <1>3 DEF Load, Outstanding, Done, Failed, IoOps, ClassOf, Packets
<1>4. CASE c = "send"
  BY <1>1, <1>2, <1>4 DEF Load, Outstanding, Done, Failed, IoOps, ClassOf, Packets
<1>5. CASE c \in Requests
  BY <1>1, <1>5 DEF Load, IoOps, Requests, Packets, ClassOf
<1>6. QED
  BY <1>3, <1>4, <1>5 DEF Classes, IoOps

\* CancelIoEx moves no operation to another class.
LEMMA LoadCancelled ==
  ASSUME TypeOK, NEW s \in Slots, overlapped' = NoOverlapped(s)
  PROVE  /\ iocp' = CancelledIo(s, iocp) => LoadsSame
         /\ iocp' = [CancelledIo(s, iocp) EXCEPT ![s]["CANCEL_IO"] = @ + 1]
              => LoadsMore(s, "CANCEL_IO")
<1>1. \A r \in Slots : /\ overlapped'[r]["recv"] = IF r = s THEN 0 ELSE overlapped[r]["recv"]
                       /\ overlapped'[r]["send"] = IF r = s THEN 0 ELSE overlapped[r]["send"]
  BY DEF TypeOK, NoOverlapped, IoOps
<1>2. \A r \in Slots, p \in Packets : CancelledIo(s, iocp)[r][p] =
        IF r = s /\ p = "RECV0" THEN iocp[r][p] + overlapped[r]["recv"]
        ELSE IF r = s /\ p = "SEND0" THEN iocp[r][p] + overlapped[r]["send"]
        ELSE iocp[r][p]
  <2> SUFFICES ASSUME NEW r \in Slots, NEW p \in Packets
               PROVE  CancelledIo(s, iocp)[r][p] =
                        IF r = s /\ p = "RECV0" THEN iocp[r][p] + overlapped[r]["recv"]
                        ELSE IF r = s /\ p = "SEND0" THEN iocp[r][p] + overlapped[r]["send"]
                        ELSE iocp[r][p]
    OBVIOUS
  <2>1. iocp[r][p] \in Nat /\ overlapped[r]["recv"] \in Nat /\ overlapped[r]["send"] \in Nat
    BY LoadType DEF IoOps
  <2>2. CASE r = s
    BY <2>1, <2>2 DEF TypeOK, CancelledIo
  <2>3. CASE r # s
    BY <2>3 DEF TypeOK, CancelledIo
  <2>4. QED
    BY <2>2, <2>3
<1>3. \A r \in Slots, p \in Packets : iocp[r][p] \in Nat
  BY LoadType
<1>4. \A r \in Slots : overlapped[r]["recv"] \in Nat /\ overlapped[r]["send"] \in Nat
  BY LoadType DEF IoOps
<1>5. ASSUME iocp' = CancelledIo(s, iocp), NEW r \in Slots, NEW c \in Classes
      PROVE  Load(r, c)' = Load(r, c)
  <2>1. CASE c = "recv"
    BY <1>1, <1>2, <1>3, <1>4, <1>5, <2>1 DEF Load, Outstanding, Done, Failed, IoOps, Packets
  <2>2. CASE c = "send"
    BY <1>1, <1>2, <1>3, <1>4, <1>5, <2>2 DEF Load, Outstanding, Done, Failed, IoOps, Packets
  <2>3. CASE c \in Requests
    BY <1>2, <1>5, <2>3 DEF Load, IoOps, Packets, Requests
  <2>4. QED
    BY <2>1, <2>2, <2>3 DEF Classes, IoOps
<1>6. ASSUME iocp' = [CancelledIo(s, iocp) EXCEPT ![s]["CANCEL_IO"] = @ + 1],
             NEW r \in Slots, NEW c \in Classes
      PROVE  Load(r, c)' = IF r = s /\ c = "CANCEL_IO" THEN Load(r, c) + 1 ELSE Load(r, c)
  <2>0. \A q \in Packets : iocp'[r][q] = IF r = s /\ q = "CANCEL_IO" THEN iocp[r][q] + 1
                                          ELSE CancelledIo(s, iocp)[r][q]
    <3>1. CancelledIo(s, iocp) \in [Slots -> [Packets -> Int]]
      BY <1>3, <1>4 DEF CancelledIo, TypeOK, IoOps
    <3>2. QED
      BY <1>2, <1>6, <3>1 DEF Packets
  <2>1. CASE c = "recv"
    BY <1>1, <1>2, <1>3, <1>4, <2>0, <2>1 DEF Load, Outstanding, Done, Failed, IoOps, Packets
  <2>2. CASE c = "send"
    BY <1>1, <1>2, <1>3, <1>4, <2>0, <2>2 DEF Load, Outstanding, Done, Failed, IoOps, Packets
  <2>3. CASE c \in Requests
    BY <1>2, <2>0, <2>3 DEF Load, IoOps, Packets, Requests
  <2>4. QED
    BY <2>1, <2>2, <2>3 DEF Classes, IoOps
<1>7. QED
  BY <1>5, <1>6 DEF LoadsSame, LoadsMore

\* A completion moves an operation within its class.
LEMMA LoadCompleted ==
  ASSUME TypeOK, NEW s \in Slots, NEW op \in IoOps, IoComplete(s, op)
  PROVE  LoadsSame
<1> SUFFICES ASSUME NEW r \in Slots, NEW c \in Classes PROVE Load(r, c)' = Load(r, c)
  BY DEF LoadsSame
<1>1. PICK p \in {Done[op], Failed[op]} : iocp' = [iocp EXCEPT ![s][p] = @ + 1]
  BY DEF IoComplete
<1>2. p \in Packets /\ p \in {"RECV", "RECV0", "SEND", "SEND0"}
      /\ (op = "recv" <=> p \in {"RECV", "RECV0"})
  BY DEF Done, Failed, Packets, IoOps
<1>3. \A q \in Packets : iocp'[r][q] = IF r = s /\ q = p THEN iocp[r][q] + 1 ELSE iocp[r][q]
  BY <1>1, <1>2 DEF TypeOK
<1>4. \A o \in IoOps : overlapped'[r][o] = IF r = s /\ o = op THEN overlapped[r][o] - 1
                                                         ELSE overlapped[r][o]
  BY DEF IoComplete, TypeOK
<1>5. /\ \A q \in {"RECV", "RECV0", "SEND", "SEND0"} : q \in Packets /\ iocp[r][q] \in Nat
      /\ overlapped[r]["recv"] \in Nat /\ overlapped[r]["send"] \in Nat
  BY LoadType DEF Packets, IoOps
<1>6. CASE c = "recv"
  BY <1>2, <1>3, <1>4, <1>5, <1>6 DEF Load, Outstanding, Done, Failed, IoOps
<1>7. CASE c = "send"
  BY <1>2, <1>3, <1>4, <1>5, <1>7 DEF Load, Outstanding, Done, Failed, IoOps
<1>8. CASE c \in Requests
  BY <1>2, <1>3, <1>8 DEF Load, IoOps, Requests, Packets
<1>9. QED
  BY <1>6, <1>7, <1>8 DEF Classes, IoOps

-----------------------------------------------------------------------------
(* What a step that changes no Session does to its thread *)

\* A refused operation is given back at once: io_count stays positive, the thread
\* has another reference.
Refusals == \A t \in Threads : ctx[t] = "postfail" => pc[t] = "dec"

\* A thread with two references sees both in io_count.
LEMMA TwiceCounted ==
  ASSUME TypeOK, CountIsReferences, NEW t \in Threads, NEW s \in Slots,
         OwnRef(t, s), PostRef(t, s)
  PROVE  io_count[s] >= 2
<1>1. /\ IsFiniteSet(Owners(s)) /\ IsFiniteSet(Callers(s)) /\ IsFiniteSet(Refused(s))
      /\ Owners(s) # {} /\ Refused(s) # {}
  BY ThreadsFinite, FS_Subset DEF Owners, Callers, Refused
<1>2. /\ Cardinality(Owners(s)) \in Nat /\ Cardinality(Callers(s)) \in Nat
      /\ Cardinality(Refused(s)) \in Nat
      /\ Cardinality(Owners(s)) # 0 /\ Cardinality(Refused(s)) # 0
  BY <1>1, FS_CardinalityType, FS_EmptySet
<1>3. /\ Outstanding(s, "recv") \in Nat /\ Outstanding(s, "send") \in Nat
      /\ iocp[s]["SEND_PEND"] \in Nat /\ iocp[s]["RELEASE_PEND"] \in Nat
      /\ iocp[s]["CANCEL_IO"] \in Nat
  BY LoadType DEF Load, Classes, IoOps, Requests, Packets
<1>4. io_count[s] = Cardinality(Owners(s)) + Cardinality(Callers(s))
                + Cardinality(Refused(s))
                + Outstanding(s, "recv") + Outstanding(s, "send")
                + iocp[s]["SEND_PEND"] + iocp[s]["RELEASE_PEND"]
                + iocp[s]["CANCEL_IO"]
  BY DEF CountIsReferences
<1>5. \A a, b, c, d, e, f, g, h \in Nat :
        a # 0 /\ c # 0 => a + b + c + d + e + f + g + h >= 2
  OBVIOUS
<1>6. QED
  BY <1>2, <1>3, <1>4, <1>5

\* What the kernel has of a Session is in io_count too.
LEMMA LoadIsCounted ==
  ASSUME TypeOK, CountIsReferences, NEW s \in Slots, NEW k \in Classes, Load(s, k) > 0
  PROVE  io_count[s] >= 1
<1>1. /\ Cardinality(Owners(s)) \in Nat /\ Cardinality(Callers(s)) \in Nat
      /\ Cardinality(Refused(s)) \in Nat
  BY ThreadsFinite, FS_Subset, FS_CardinalityType DEF Owners, Callers, Refused
<1>2. \A c \in Classes : Load(s, c) \in Nat
  BY LoadType
<1>3. io_count[s] = Cardinality(Owners(s)) + Cardinality(Callers(s))
                + Cardinality(Refused(s)) + Load(s, "recv") + Load(s, "send")
                + Load(s, "SEND_PEND") + Load(s, "RELEASE_PEND") + Load(s, "CANCEL_IO")
  BY DEF CountIsReferences, Load, IoOps
<1>4. k \in {"recv", "send", "SEND_PEND", "RELEASE_PEND", "CANCEL_IO"}
  BY DEF Classes, IoOps, Requests
<1>5. \A a, b, c, d, e, f, g, h \in Nat :
        d > 0 \/ e > 0 \/ f > 0 \/ g > 0 \/ h > 0 => a + b + c + d + e + f + g + h >= 1
  OBVIOUS
<1>6. Load(s, "recv") > 0 \/ Load(s, "send") > 0 \/ Load(s, "SEND_PEND") > 0
        \/ Load(s, "RELEASE_PEND") > 0 \/ Load(s, "CANCEL_IO") > 0
  BY <1>4
<1>7. /\ Load(s, "recv") \in Nat /\ Load(s, "send") \in Nat /\ Load(s, "SEND_PEND") \in Nat
      /\ Load(s, "RELEASE_PEND") \in Nat /\ Load(s, "CANCEL_IO") \in Nat
  BY <1>2 DEF Classes, IoOps, Requests
<1>8. QED
  BY <1>1, <1>3, <1>5, <1>6, <1>7

\* The variables a step of a thread may leave as they are; io_count, m_sessionCnt
\* and how an operation proceeds inside its class matter to none of the arguments.
fields == <<release_flag, disconnect, session_id, send_post_flag, send_q,
            m_emptySessionStack, m_sessID, issued, users>>

Quiet(t) == OnlyMoves(t) /\ UNCHANGED fields /\ LoadsSame

Stays(t) == own'[t] = own[t] /\ call'[t] = call[t] /\ ctx'[t] = ctx[t]

\* The thread goes on inside the same call of the same function.
Walk(t) ==
    /\ Stays(t)
    /\ \/ pc'[t] = pc[t]
       \/ pc[t] = "acc_inc" /\ pc'[t] = "acc_init"
       \/ pc[t] = "acc_count" /\ pc'[t] = "acc_join"
       \/ pc[t] = "recv_check" /\ pc'[t] = "recv_post"
       \/ pc[t] = "recv_check" /\ pc'[t] = "dec" /\ disconnect[own[t]] # 0
       \/ pc[t] = "dec" /\ pc'[t] = "rp_cas" /\ ctx[t] # "postfail"
       \/ pc[t] = "api_inc" /\ pc'[t] = "api_flag"
       \/ pc[t] = "api_flag" /\ pc'[t] = "dec"
       \/ pc[t] = "api_flag" /\ pc'[t] = "api_id" /\ release_flag[call[t].slot] = 0
       \/ pc[t] = "api_id" /\ pc'[t] = "dec"
       \/ pc[t] = "api_id" /\ pc'[t] \in {"enqueue", "disc_xchg"}
            /\ session_id[call[t].slot] = call[t].id
       \/ pc[t] = "try_size" /\ pc'[t] = "sp_check"
       \/ pc[t] = "try_size" /\ pc'[t] = "dec" /\ ~(send_q[own[t]] > 0)
       \/ pc[t] = "sp_check" /\ pc'[t] = "sp_xchg"
       \/ pc[t] = "sp_check" /\ pc'[t] = "dec" /\ disconnect[own[t]] # 0
       \/ pc[t] = "sp_size" /\ pc'[t] = "sp_clear"
       \/ pc[t] = "pend_check" /\ pc'[t] = "pend_xchg"
       \/ pc[t] = "pend_check" /\ pc'[t] = "dec" /\ disconnect[Obj(t)] # 0
       \/ pc[t] = "cancel" /\ pc'[t] = "dec"
       \/ pc[t] = "frame" /\ pc'[t] = "recv_check"
       \/ pc[t] = "frame" /\ pc'[t] = "onrecv"
            /\ [slot |-> own[t], id |-> session_id[own[t]]] \in users
       \/ pc[t] = "frame" /\ pc'[t] = "crash"
            /\ [slot |-> own[t], id |-> session_id[own[t]]] \notin users
       \/ pc[t] = "onrecv" /\ pc'[t] = "frame"
       \/ pc[t] = "rel_count" /\ pc'[t] = "dec"
       \/ pc[t] = "tm_check" /\ pc'[t] = "dec"

\* An error: disconnect is called by the receive loop, or WSARecv was refused.
Fault(t) ==
    /\ own'[t] = own[t] /\ call'[t] = call[t] /\ ctx[t] = "io"
    /\ \/ pc[t] = "frame" /\ pc'[t] = "disc_xchg" /\ ctx'[t] \in {"frame", "decode"}
       \/ pc[t] = "recv_post" /\ pc'[t] = "dec" /\ ctx'[t] = "postfail"

\* To whom updateIOCount returns, and when it does without a RELEASE_PEND.
Returns(t) ==
    \/ /\ ctx[t] = "postfail" /\ pc[t] = "dec"
       /\ pc'[t] = "disc_xchg" /\ ctx'[t] = "io"
       /\ own'[t] = own[t] /\ call'[t] = call[t]
    \/ /\ ctx[t] = "api"
       /\ pc'[t] = (IF t \in Workers THEN "onrecv" ELSE "dec") /\ ctx'[t] = "io"
       /\ own'[t] = own[t]
    \/ /\ ctx[t] = "io"
       /\ pc'[t] = Home(t) /\ ctx'[t] = "io" /\ own'[t] = NoSlot
Answer(t) == pc[t] \in {"dec", "rp_cas"} /\ Returns(t)

\* A call of the public API.
Request(t) ==
    /\ pc'[t] = "api_inc" /\ ctx'[t] = "api" /\ own'[t] = own[t]
    /\ \/ pc[t] = "onrecv" /\ t \in Workers
       \/ pc[t] = "tm_check" /\ t = Timer /\ release_flag[own[t]] = 0

\* The timeout thread looks at the next Session.
Look(t) == /\ t = Timer /\ pc[t] = "tick" /\ pc'[t] = "tm_check"
           /\ own'[t] \in Slots /\ ctx'[t] = ctx[t] /\ call'[t] = call[t]

\* A thread that goes to l stays otherwise where it is.
LEMMA GotoMoves ==
  ASSUME TypeOK, NEW t \in Threads, NEW l, Goto(t, l)
  PROVE  OnlyMoves(t) /\ Stays(t) /\ pc'[t] = l
BY DEF TypeOK, Goto, OnlyMoves, Stays

\* A thread that enters a function of context c keeps its Session and its call.
LEMMA EnterMoves ==
  ASSUME TypeOK, NEW t \in Threads, NEW l, NEW c, Enter(t, l, c)
  PROVE  /\ OnlyMoves(t) /\ pc'[t] = l /\ ctx'[t] = c
         /\ own'[t] = own[t] /\ call'[t] = call[t]
BY DEF TypeOK, Enter, OnlyMoves

\* The accept thread and the timeout thread are threads, and no workers.
LEMMA Roles == Acceptor \in Threads /\ Timer \in Threads /\ Workers \subseteq Threads
               /\ Timer \notin Workers /\ Acceptor \notin Workers /\ Timer # Acceptor
BY ThreadsAssumption DEF Threads

\* A thread away from its loop works on a Session.
LEMMA Working ==
  ASSUME TypeOK, Control, NEW t \in Threads, pc[t] \notin {"accept", "gqcs", "tick"}
  PROVE  /\ own[t] \in Slots /\ Obj(t) \in Slots
         /\ ctx[t] \in Contexts
         /\ ctx[t] = "api" => call[t] \in Calls /\ call[t].slot \in Slots
<1>1. ControlOf(t) /\ pc[t] # Home(t)
  BY HomeOf DEF Control
<1>2. ctx[t] \in Contexts
  BY DEF TypeOK
<1>3. QED
  BY <1>1, <1>2 DEF ControlOf, Obj, Calls

-----------------------------------------------------------------------------
(* The steps that change a Session, with what they do to the thread *)

\* The thread goes to l.
Step(t, l) == OnlyMoves(t) /\ Stays(t) /\ pc'[t] = l /\ LoadsSame

Popped(s) ==
    /\ pc[Acceptor] = "accept" /\ m_emptySessionStack[s] > 0
    /\ OnlyMoves(Acceptor) /\ pc'[Acceptor] = "acc_inc" /\ own'[Acceptor] = s
    /\ call'[Acceptor] = call[Acceptor] /\ ctx'[Acceptor] = "io"
    /\ m_emptySessionStack' = [m_emptySessionStack EXCEPT ![s] = @ - 1]
    /\ UNCHANGED <<release_flag, disconnect, session_id, send_post_flag, send_q,
                   m_sessID, issued, users>>
    /\ LoadsSame

RecvPosted(t) ==
    /\ pc[t] = "recv_post" /\ pc'[t] = "dec" /\ Stays(t)
    /\ OnlyMoves(t) /\ UNCHANGED fields /\ LoadsMore(own[t], "recv")

SendPosted(t) ==
    /\ pc[t] = "sp_size" /\ pc'[t] = "dec" /\ ctx[t] = "io"
    /\ own'[t] = own[t] /\ call'[t] = call[t] /\ OnlyMoves(t)
    /\ \E n \in 1 .. send_q[own[t]] : send_q' = [send_q EXCEPT ![own[t]] = @ - n]
    /\ UNCHANGED <<release_flag, disconnect, session_id, send_post_flag,
                   m_emptySessionStack, m_sessID, issued, users>>
    /\ \/ ctx'[t] = "io" /\ LoadsMore(own[t], "send")
       \/ ctx'[t] = "postfail" /\ LoadsSame

Pended(t) ==
    /\ pc[t] = "pend_xchg" /\ pc'[t] = "dec" /\ Stays(t) /\ OnlyMoves(t)
    /\ send_post_flag' = [send_post_flag EXCEPT ![Obj(t)] = 1]
    /\ \/ send_post_flag[Obj(t)] = 1 /\ LoadsSame
       \/ send_post_flag[Obj(t)] # 1 /\ LoadsMore(Obj(t), "SEND_PEND")
    /\ UNCHANGED <<release_flag, disconnect, session_id, send_q,
                   m_emptySessionStack, m_sessID, issued, users>>

\* disconnect returns to the receive loop, or to an updateIOCount.
Leaves(t) ==
    /\ own'[t] = own[t] /\ call'[t] = call[t]
    /\ \/ ctx[t] = "frame" /\ pc'[t] = "recv_check" /\ ctx'[t] = "io"
       \/ ctx[t] = "decode" /\ pc'[t] = "frame" /\ ctx'[t] = "io"
       \/ ctx[t] = "api" /\ pc'[t] = "dec" /\ ctx'[t] = "api"
       \/ ctx[t] = "io" /\ pc'[t] = "dec" /\ ctx'[t] = "io"

Disconnected(t) ==
    /\ pc[t] = "disc_xchg" /\ OnlyMoves(t)
    /\ \/ disconnect[Obj(t)] = 0 /\ pc'[t] = "disc_cancel" /\ Stays(t)
       \/ disconnect[Obj(t)] # 0 /\ Leaves(t)
    /\ disconnect' = [disconnect EXCEPT ![Obj(t)] = 1]
    /\ UNCHANGED <<release_flag, session_id, send_post_flag, send_q,
                   m_emptySessionStack, m_sessID, issued, users>>
    /\ LoadsSame

Cancelled(t) ==
    /\ pc[t] = "disc_cancel" /\ OnlyMoves(t) /\ Leaves(t)
    /\ UNCHANGED fields /\ LoadsMore(Obj(t), "CANCEL_IO")

\* The compare-exchange that closes the Session, and its RELEASE_PEND.
Closed(t) ==
    /\ pc[t] = "rp_cas" /\ Step(t, "rp_post")
    /\ io_count[Obj(t)] = 0 /\ release_flag[Obj(t)] = 0
    /\ release_flag' = [release_flag EXCEPT ![Obj(t)] = 1]
    /\ UNCHANGED <<disconnect, session_id, send_post_flag, send_q,
                   m_emptySessionStack, m_sessID, issued, users>>

Announced(t) ==
    /\ pc[t] = "rp_post" /\ OnlyMoves(t) /\ Returns(t)
    /\ UNCHANGED fields /\ LoadsMore(Obj(t), "RELEASE_PEND")

Taken(t, s, p) ==
    /\ pc[t] = "gqcs" /\ OnlyMoves(t) /\ pc'[t] = Dispatch(s, p) /\ own'[t] = s
    /\ call'[t] = call[t] /\ ctx[t] = "io" /\ ctx'[t] = "io"
    /\ Load(s, ClassOf(p)) > 0 /\ LoadsLess(s, ClassOf(p)) /\ UNCHANGED fields

Loud(t) ==
    \/ \E s \in Slots : t = Acceptor /\ Popped(s)
    \/ t = Acceptor /\ AcceptInit /\ Step(t, "acc_open")
    \/ t = Acceptor /\ AcceptOpen /\ Step(t, "acc_count")
    \/ t = Acceptor /\ AcceptJoin /\ \E l \in {"crash", "recv_check"} : Step(t, l)
    \/ RecvPosted(t) \/ SendPosted(t) \/ Pended(t) \/ Disconnected(t) \/ Cancelled(t)
    \/ Closed(t) \/ Announced(t)
    \/ \E s \in Slots, p \in Packets : t \in Workers /\ Taken(t, s, p)
    \/ TryClear(t) /\ Step(t, "try_size")
    \/ SendExchange(t) /\ \E l \in {"dec", "sp_size"} : Step(t, l)
    \/ SendClear(t) /\ Step(t, "pend_check")
    \/ Enqueue(t) /\ \E l \in {"pend_check", "disc_xchg"} : Step(t, l)
    \/ ReleaseLeave(t) /\ \E l \in {"crash", "rel_clear"} : Step(t, l)
    \/ ReleaseClear(t) /\ Step(t, "rel_push")
    \/ ReleasePush(t) /\ Step(t, "rel_count")

Kinds == \E t \in Threads :
    \/ Quiet(t) /\ (Walk(t) \/ Fault(t) \/ Answer(t) \/ Request(t) \/ Look(t))
    \/ Loud(t)

\* updateIOCount or releasePend returns.
LEMMA ReturnMoves ==
  ASSUME TypeOK, Control, Refusals, NEW t \in Threads, Return(t),
         pc[t] \in {"dec", "rp_cas", "rp_post"}
  PROVE  OnlyMoves(t) /\ Returns(t)
<1>1. ctx[t] \in {"io", "postfail", "api"} /\ (ctx[t] = "postfail" => pc[t] = "dec")
  BY DEF Refusals, Control, ControlOf, TypeOK, Contexts
<1>2. CASE ctx[t] = "postfail"
  BY <1>1, <1>2 DEF Return, OnlyMoves, Returns, TypeOK
<1>3. CASE ctx[t] = "api"
  BY <1>1, <1>3 DEF Return, OnlyMoves, Returns, TypeOK
<1>4. CASE ctx[t] = "io"
  BY <1>1, <1>4 DEF Return, OnlyMoves, Returns, TypeOK
<1>5. QED
  BY <1>1, <1>2, <1>3, <1>4

\* Where disconnect returns to.
LEMMA LeaveMoves ==
  ASSUME TypeOK, Control, NEW t \in Threads, pc[t] \in {"disc_xchg", "disc_cancel"},
         Enter(t, AfterDisconnect(t), AfterDisconnectCtx(t))
  PROVE  OnlyMoves(t) /\ Leaves(t)
<1>1. ctx[t] \in {"io", "api", "frame", "decode"}
  BY DEF Control, ControlOf, TypeOK, Contexts
<1>2. QED
  BY <1>1, EnterMoves DEF AfterDisconnect, AfterDisconnectCtx, Leaves

\* Every step is of one of these kinds.
LEMMA StepKinds ==
  ASSUME TypeOK, Control, CountIsReferences, Refusals, [Next]_vars
  PROVE  Kinds
<1> USE Roles
<1>1. CASE AcceptInc
  <2>1. PICK l \in {"acc_init"} : Goto(Acceptor, l)
    BY <1>1 DEF AcceptInc
  <2>2. LoadsSame
    BY <1>1, LoadKept DEF AcceptInc, kernel
  <2>3. OnlyMoves(Acceptor) /\ Stays(Acceptor) /\ pc'[Acceptor] = l
    BY <2>1, GotoMoves
  <2>4. UNCHANGED fields
    BY <1>1 DEF AcceptInc, fields, session, server, app
  <2>5. Walk(Acceptor)
    BY <1>1, <2>1, <2>3 DEF AcceptInc, Walk, Goto
  <2>6. QED
    BY <2>2, <2>3, <2>4, <2>5 DEF Kinds, Quiet
<1>2. CASE AcceptCount
  <2>1. PICK l \in {"acc_join"} : Goto(Acceptor, l)
    BY <1>2 DEF AcceptCount
  <2>2. LoadsSame
    BY <1>2, LoadKept DEF AcceptCount, kernel
  <2>3. OnlyMoves(Acceptor) /\ Stays(Acceptor) /\ pc'[Acceptor] = l
    BY <2>1, GotoMoves
  <2>4. UNCHANGED fields
    BY <1>2 DEF AcceptCount, fields, session, server, app
  <2>5. Walk(Acceptor)
    BY <1>2, <2>1, <2>3 DEF AcceptCount, Walk, Goto
  <2>6. QED
    BY <2>2, <2>3, <2>4, <2>5 DEF Kinds, Quiet
<1>3. ASSUME NEW t \in Threads, RecvCheck(t) PROVE Kinds
  <2>1. PICK l \in {"recv_post", "dec"} : Goto(t, l)
    BY <1>3 DEF RecvCheck
  <2>2. LoadsSame
    BY <1>3, LoadKept DEF RecvCheck, kernel
  <2>3. OnlyMoves(t) /\ Stays(t) /\ pc'[t] = l
    BY <2>1, GotoMoves
  <2>4. UNCHANGED fields
    BY <1>3 DEF RecvCheck, fields, session, server, app
  <2>5. Walk(t)
    BY <1>3, <2>1, <2>3 DEF RecvCheck, Walk, Goto
  <2>6. QED
    BY <2>2, <2>3, <2>4, <2>5 DEF Kinds, Quiet
<1>4. ASSUME NEW t \in Threads, ApiInc(t) PROVE Kinds
  <2>1. PICK l \in {"api_flag"} : Goto(t, l)
    BY <1>4 DEF ApiInc
  <2>2. LoadsSame
    BY <1>4, LoadKept DEF ApiInc, kernel
  <2>3. OnlyMoves(t) /\ Stays(t) /\ pc'[t] = l
    BY <2>1, GotoMoves
  <2>4. UNCHANGED fields
    BY <1>4 DEF ApiInc, fields, session, server, app
  <2>5. Walk(t)
    BY <1>4, <2>1, <2>3 DEF ApiInc, Walk, Goto
  <2>6. QED
    BY <2>2, <2>3, <2>4, <2>5 DEF Kinds, Quiet
<1>5. ASSUME NEW t \in Threads, ApiFlag(t) PROVE Kinds
  <2>1. PICK l \in {"api_id", "dec"} : Goto(t, l)
    BY <1>5 DEF ApiFlag
  <2>2. LoadsSame
    BY <1>5, LoadKept DEF ApiFlag, kernel
  <2>3. OnlyMoves(t) /\ Stays(t) /\ pc'[t] = l
    BY <2>1, GotoMoves
  <2>4. UNCHANGED fields
    BY <1>5 DEF ApiFlag, fields, session, server, app
  <2>5. Walk(t)
    BY <1>5, <2>1, <2>3 DEF ApiFlag, Walk, Goto
  <2>6. QED
    BY <2>2, <2>3, <2>4, <2>5 DEF Kinds, Quiet
<1>6. ASSUME NEW t \in Threads, ApiId(t) PROVE Kinds
  <2>1. PICK l \in {"dec", "enqueue", "disc_xchg"} : Goto(t, l)
    BY <1>6 DEF ApiId
  <2>2. LoadsSame
    BY <1>6, LoadKept DEF ApiId, kernel
  <2>3. OnlyMoves(t) /\ Stays(t) /\ pc'[t] = l
    BY <2>1, GotoMoves
  <2>4. UNCHANGED fields
    BY <1>6 DEF ApiId, fields, session, server, app
  <2>5. Walk(t)
    <3>1. CASE session_id[call[t].slot] # call[t].id
      <4>1. pc[t] = "api_id" /\ l = "dec"
        BY <1>6, <2>3, <3>1 DEF ApiId, Goto, TypeOK
      <4>2. QED
        BY <2>3, <4>1 DEF Walk
    <3>2. CASE session_id[call[t].slot] = call[t].id
      <4>1. pc[t] = "api_id" /\ l \in {"enqueue", "disc_xchg"}
        BY <1>6, <2>3, <3>2 DEF ApiId, Goto, TypeOK
      <4>2. QED
        BY <2>3, <3>2, <4>1 DEF Walk
    <3>3. QED
      BY <3>1, <3>2
  <2>6. QED
    BY <2>2, <2>3, <2>4, <2>5 DEF Kinds, Quiet
<1>7. ASSUME NEW t \in Workers, TrySize(t) PROVE Kinds
  <2>1. PICK l \in {"sp_check", "dec"} : Goto(t, l)
    BY <1>7 DEF TrySize
  <2>2. LoadsSame
    BY <1>7, LoadKept DEF TrySize, kernel
  <2>3. OnlyMoves(t) /\ Stays(t) /\ pc'[t] = l
    BY <2>1, GotoMoves
  <2>4. UNCHANGED fields
    BY <1>7 DEF TrySize, fields, session, server, app
  <2>5. Walk(t)
    BY <1>7, <2>1, <2>3 DEF TrySize, Walk, Goto
  <2>6. QED
    BY <2>2, <2>3, <2>4, <2>5 DEF Kinds, Quiet
<1>8. ASSUME NEW t \in Workers, SendCheck(t) PROVE Kinds
  <2>1. PICK l \in {"sp_xchg", "dec"} : Goto(t, l)
    BY <1>8 DEF SendCheck
  <2>2. LoadsSame
    BY <1>8, LoadKept DEF SendCheck, kernel
  <2>3. OnlyMoves(t) /\ Stays(t) /\ pc'[t] = l
    BY <2>1, GotoMoves
  <2>4. UNCHANGED fields
    BY <1>8 DEF SendCheck, fields, session, server, app
  <2>5. Walk(t)
    BY <1>8, <2>1, <2>3 DEF SendCheck, Walk, Goto
  <2>6. QED
    BY <2>2, <2>3, <2>4, <2>5 DEF Kinds, Quiet
<1>9. ASSUME NEW t \in Workers, SendNothing(t) PROVE Kinds
  <2>1. PICK l \in {"sp_clear"} : Goto(t, l)
    BY <1>9 DEF SendNothing
  <2>2. LoadsSame
    BY <1>9, LoadKept DEF SendNothing, kernel
  <2>3. OnlyMoves(t) /\ Stays(t) /\ pc'[t] = l
    BY <2>1, GotoMoves
  <2>4. UNCHANGED fields
    BY <1>9 DEF SendNothing, fields, session, server, app
  <2>5. Walk(t)
    BY <1>9, <2>1, <2>3 DEF SendNothing, Walk, Goto
  <2>6. QED
    BY <2>2, <2>3, <2>4, <2>5 DEF Kinds, Quiet
<1>10. ASSUME NEW t \in Workers, PendCheck(t) PROVE Kinds
  <2>1. PICK l \in {"pend_xchg", "dec"} : Goto(t, l)
    BY <1>10 DEF PendCheck
  <2>2. LoadsSame
    BY <1>10, LoadKept DEF PendCheck, kernel
  <2>3. OnlyMoves(t) /\ Stays(t) /\ pc'[t] = l
    BY <2>1, GotoMoves
  <2>4. UNCHANGED fields
    BY <1>10 DEF PendCheck, fields, session, server, app
  <2>5. Walk(t)
    BY <1>10, <2>1, <2>3 DEF PendCheck, Walk, Goto
  <2>6. QED
    BY <2>2, <2>3, <2>4, <2>5 DEF Kinds, Quiet
<1>11. ASSUME NEW t \in Workers, Cancel(t) PROVE Kinds
  <2>1. PICK l \in {"dec"} : Goto(t, l)
    BY <1>11 DEF Cancel
  <2>2. LoadsSame
    BY <1>11, Working, LoadCancelled DEF Cancel
  <2>3. OnlyMoves(t) /\ Stays(t) /\ pc'[t] = l
    BY <2>1, GotoMoves
  <2>4. UNCHANGED fields
    BY <1>11 DEF Cancel, fields, session, server, app
  <2>5. Walk(t)
    BY <1>11, <2>1, <2>3 DEF Cancel, Walk, Goto
  <2>6. QED
    BY <2>2, <2>3, <2>4, <2>5 DEF Kinds, Quiet
<1>12. ASSUME NEW t \in Workers, FrameDone(t) PROVE Kinds
  <2>1. PICK l \in {"recv_check"} : Goto(t, l)
    BY <1>12 DEF FrameDone
  <2>2. LoadsSame
    BY <1>12, LoadKept DEF FrameDone, kernel
  <2>3. OnlyMoves(t) /\ Stays(t) /\ pc'[t] = l
    BY <2>1, GotoMoves
  <2>4. UNCHANGED fields
    BY <1>12 DEF FrameDone, fields, session, server, app
  <2>5. Walk(t)
    BY <1>12, <2>1, <2>3 DEF FrameDone, Walk, Goto
  <2>6. QED
    BY <2>2, <2>3, <2>4, <2>5 DEF Kinds, Quiet
<1>13. ASSUME NEW t \in Workers, OnRecv(t) PROVE Kinds
  <2>1. PICK l \in {"onrecv", "crash"} : Goto(t, l)
    BY <1>13 DEF OnRecv
  <2>2. LoadsSame
    BY <1>13, LoadKept DEF OnRecv, kernel
  <2>3. OnlyMoves(t) /\ Stays(t) /\ pc'[t] = l
    BY <2>1, GotoMoves
  <2>4. UNCHANGED fields
    BY <1>13 DEF OnRecv, fields, session, server, app
  <2>5. Walk(t)
    BY <1>13, <2>1, <2>3 DEF OnRecv, Walk, Goto
  <2>6. QED
    BY <2>2, <2>3, <2>4, <2>5 DEF Kinds, Quiet
<1>14. ASSUME NEW t \in Workers, OnRecvReturn(t) PROVE Kinds
  <2>1. PICK l \in {"frame"} : Goto(t, l)
    BY <1>14 DEF OnRecvReturn
  <2>2. LoadsSame
    BY <1>14, LoadKept DEF OnRecvReturn, kernel
  <2>3. OnlyMoves(t) /\ Stays(t) /\ pc'[t] = l
    BY <2>1, GotoMoves
  <2>4. UNCHANGED fields
    BY <1>14 DEF OnRecvReturn, fields, session, server, app
  <2>5. Walk(t)
    BY <1>14, <2>1, <2>3 DEF OnRecvReturn, Walk, Goto
  <2>6. QED
    BY <2>2, <2>3, <2>4, <2>5 DEF Kinds, Quiet
<1>15. ASSUME NEW t \in Workers, ReleaseCount(t) PROVE Kinds
  <2>1. PICK l \in {"dec"} : Goto(t, l)
    BY <1>15 DEF ReleaseCount
  <2>2. LoadsSame
    BY <1>15, LoadKept DEF ReleaseCount, kernel
  <2>3. OnlyMoves(t) /\ Stays(t) /\ pc'[t] = l
    BY <2>1, GotoMoves
  <2>4. UNCHANGED fields
    BY <1>15 DEF ReleaseCount, fields, session, server, app
  <2>5. Walk(t)
    BY <1>15, <2>1, <2>3 DEF ReleaseCount, Walk, Goto
  <2>6. QED
    BY <2>2, <2>3, <2>4, <2>5 DEF Kinds, Quiet
<1>16. CASE NotTimedOut
  <2>1. PICK l \in {"dec"} : Goto(Timer, l)
    BY <1>16 DEF NotTimedOut
  <2>2. LoadsSame
    BY <1>16, LoadKept DEF NotTimedOut, kernel
  <2>3. OnlyMoves(Timer) /\ Stays(Timer) /\ pc'[Timer] = l
    BY <2>1, GotoMoves
  <2>4. UNCHANGED fields
    BY <1>16 DEF NotTimedOut, fields, session, server, app
  <2>5. Walk(Timer)
    BY <1>16, <2>1, <2>3 DEF NotTimedOut, Walk, Goto
  <2>6. QED
    BY <2>2, <2>3, <2>4, <2>5 DEF Kinds, Quiet
<1>17. ASSUME NEW t \in Threads, RecvPostFail(t) PROVE Kinds
  <2>1. /\ pc[t] = "recv_post" /\ Enter(t, "dec", "postfail")
        /\ UNCHANGED fields /\ UNCHANGED kernel
    BY <1>17 DEF RecvPostFail, fields, server, app
  <2>2. /\ OnlyMoves(t) /\ pc'[t] = "dec" /\ ctx'[t] = "postfail"
        /\ own'[t] = own[t] /\ call'[t] = call[t]
    BY <2>1, EnterMoves
  <2>3. ctx[t] = "io"
    BY <2>1 DEF Control, ControlOf, TypeOK, Contexts, ApiLocations
  <2>4. Quiet(t) /\ Fault(t)
    BY <2>1, <2>2, <2>3, LoadKept DEF Quiet, Fault
  <2>5. QED
    BY <2>4 DEF Kinds
<1>18. ASSUME NEW t \in Workers, FrameError(t) PROVE Kinds
  <2>1. PICK c \in {"frame", "decode"} : Enter(t, "disc_xchg", c)
    BY <1>18 DEF FrameError
  <2>2. pc[t] = "frame" /\ UNCHANGED fields /\ UNCHANGED kernel
    BY <1>18 DEF FrameError, fields, session, server, app
  <2>3. /\ OnlyMoves(t) /\ pc'[t] = "disc_xchg" /\ ctx'[t] = c
        /\ own'[t] = own[t] /\ call'[t] = call[t]
    BY <2>1, EnterMoves
  <2>4. ctx[t] = "io"
    BY <2>2 DEF Control, ControlOf, TypeOK, Contexts, ApiLocations
  <2>5. Quiet(t) /\ Fault(t)
    BY <2>2, <2>3, <2>4, LoadKept DEF Quiet, Fault
  <2>6. QED
    BY <2>5 DEF Kinds
<1>19. ASSUME NEW t \in Threads, UpdateIOCount(t) PROVE Kinds
  <2>1. /\ pc[t] = "dec" /\ UNCHANGED fields /\ UNCHANGED kernel
        /\ \/ io_count[Obj(t)] = 1 /\ Goto(t, "rp_cas")
           \/ io_count[Obj(t)] < 1
           \/ Return(t)
    BY <1>19 DEF UpdateIOCount, fields, server, app
  <2>2. Obj(t) \in Slots /\ (OwnRef(t, Obj(t)) \/ ApiRef(t, Obj(t)) \/ PostRef(t, Obj(t)))
    BY <2>1, Working DEF OwnRef, ApiRef, PostRef, Obj
  <2>3. io_count[Obj(t)] >= 1 /\ io_count[Obj(t)] \in Int
    BY <2>2, HeldIsCounted DEF TypeOK
  <2>4. CASE io_count[Obj(t)] = 1 /\ Goto(t, "rp_cas")
    <3>1. ctx[t] # "postfail"
      <4>1. SUFFICES ASSUME ctx[t] = "postfail" PROVE FALSE
        OBVIOUS
      <4>2. OwnRef(t, Obj(t)) /\ PostRef(t, Obj(t))
        BY <2>1, <4>1 DEF OwnRef, PostRef, Obj
      <4>3. QED
        BY <2>2, <2>3, <2>4, <4>2, TwiceCounted
    <3>2. Quiet(t) /\ Walk(t)
      BY <2>1, <2>4, <3>1, GotoMoves, LoadKept DEF Quiet, Walk
    <3>3. QED
      BY <3>2 DEF Kinds
  <2>5. CASE Return(t)
    <3>1. Quiet(t) /\ Answer(t)
      BY <2>1, <2>5, ReturnMoves, LoadKept DEF Quiet, Answer
    <3>2. QED
      BY <3>1 DEF Kinds
  <2>6. QED
    BY <2>1, <2>3, <2>4, <2>5
<1>20. ASSUME NEW t \in Threads, ReleaseFlagCas(t) PROVE Kinds
  <2>1. pc[t] = "rp_cas" /\ UNCHANGED kernel
    BY <1>20 DEF ReleaseFlagCas
  <2>2. /\ UNCHANGED <<disconnect, session_id, send_post_flag, send_q,
                      m_emptySessionStack, m_sessID, issued, users>>
    BY <1>20 DEF ReleaseFlagCas, server, app
  <2>3. CASE io_count[Obj(t)] = 0 /\ release_flag[Obj(t)] = 0
    <3>1. Goto(t, "rp_post") /\ release_flag' = [release_flag EXCEPT ![Obj(t)] = 1]
      BY <1>20, <2>3 DEF ReleaseFlagCas
    <3>2. Closed(t)
      BY <2>1, <2>2, <2>3, <3>1, GotoMoves, LoadKept DEF Closed, Step
    <3>3. QED
      BY <3>2 DEF Kinds, Loud
  <2>4. CASE ~(io_count[Obj(t)] = 0 /\ release_flag[Obj(t)] = 0)
    <3>1. Return(t) /\ release_flag' = release_flag
      BY <1>20, <2>4 DEF ReleaseFlagCas
    <3>2. Quiet(t) /\ Answer(t)
      BY <2>1, <2>2, <3>1, ReturnMoves, LoadKept DEF Quiet, fields, Answer
    <3>3. QED
      BY <3>2 DEF Kinds
  <2>5. QED
    BY <2>3, <2>4
<1>21. ASSUME NEW t \in Threads, ReleasePost(t) PROVE Kinds
  <2>1. /\ pc[t] = "rp_post" /\ Return(t) /\ UNCHANGED fields /\ overlapped' = overlapped
        /\ iocp' = [iocp EXCEPT ![Obj(t)]["RELEASE_PEND"] = @ + 1]
    BY <1>21 DEF ReleasePost, Post, fields, server, app
  <2>2. LoadsMore(Obj(t), "RELEASE_PEND")
    BY <2>1, Working, LoadRequested DEF Requests
  <2>3. Announced(t)
    BY <2>1, <2>2, ReturnMoves DEF Announced
  <2>4. QED
    BY <2>3 DEF Kinds, Loud
<1>22. ASSUME NEW t \in Workers, OnRecvCall(t) PROVE Kinds
  <2>1. /\ OnlyMoves(t) /\ pc'[t] = "api_inc" /\ ctx'[t] = "api" /\ own'[t] = own[t]
    BY <1>22 DEF OnRecvCall, Invoke, OnlyMoves, TypeOK
  <2>2. /\ UNCHANGED fields /\ UNCHANGED kernel
        /\ pc[t] = "onrecv"
    BY <1>22 DEF OnRecvCall, fields, session, server, app
  <2>3. Quiet(t) /\ Request(t)
    BY <2>1, <2>2, LoadKept DEF Quiet, Request
  <2>4. QED
    BY <2>3 DEF Kinds
<1>23. CASE TimedOut
  <2>1. /\ OnlyMoves(Timer) /\ pc'[Timer] = "api_inc" /\ ctx'[Timer] = "api" /\ own'[Timer] = own[Timer]
    BY <1>23 DEF TimedOut, Invoke, OnlyMoves, TypeOK
  <2>2. /\ UNCHANGED fields /\ UNCHANGED kernel
        /\ pc[Timer] = "tm_check" /\ release_flag[own[Timer]] = 0
    BY <1>23 DEF TimedOut, fields, session, server, app
  <2>3. Quiet(Timer) /\ Request(Timer)
    BY <2>1, <2>2, LoadKept DEF Quiet, Request
  <2>4. QED
    BY <2>3 DEF Kinds
<1>24. CASE Tick
  <2>1. /\ OnlyMoves(Timer) /\ pc[Timer] = "tick" /\ pc'[Timer] = "tm_check"
        /\ own'[Timer] \in Slots /\ ctx'[Timer] = ctx[Timer] /\ call'[Timer] = call[Timer]
    BY <1>24 DEF Tick, OnlyMoves, TypeOK
  <2>2. UNCHANGED fields /\ UNCHANGED kernel
    BY <1>24 DEF Tick, fields, server, app
  <2>3. Quiet(Timer) /\ Look(Timer)
    BY <2>1, <2>2, LoadKept DEF Quiet, Look
  <2>4. QED
    BY <2>3 DEF Kinds
<1>25. ASSUME NEW s \in Slots, NEW op \in IoOps, IoComplete(s, op) PROVE Kinds
  <2>1. LoadsSame
    BY <1>25, LoadCompleted
  <2>2. UNCHANGED fields /\ UNCHANGED thread
    BY <1>25 DEF IoComplete, fields, session, server, app
  <2>3. Quiet(Acceptor) /\ Walk(Acceptor)
    BY <2>1, <2>2 DEF Quiet, Walk, Stays, OnlyMoves, thread
  <2>4. QED
    BY <2>3 DEF Kinds
<1>26. CASE UNCHANGED vars
  <2>1. UNCHANGED fields /\ UNCHANGED thread /\ UNCHANGED kernel
    BY <1>26 DEF vars, fields, session, server, app
  <2>2. Quiet(Acceptor) /\ Walk(Acceptor)
    BY <2>1, LoadKept DEF Quiet, Walk, Stays, OnlyMoves, thread
  <2>3. QED
    BY <2>2 DEF Kinds
<1>27. CASE Accept
  <2>1. PICK s \in Slots : /\ m_emptySessionStack[s] > 0
                           /\ m_emptySessionStack' = [m_emptySessionStack EXCEPT ![s] = @ - 1]
                           /\ own' = [own EXCEPT ![Acceptor] = s]
    BY <1>27 DEF Accept
  <2>2. /\ pc[Acceptor] = "accept" /\ pc' = [pc EXCEPT ![Acceptor] = "acc_inc"]
        /\ call' = call /\ ctx' = ctx /\ UNCHANGED kernel
        /\ UNCHANGED <<release_flag, disconnect, session_id, send_post_flag, send_q,
                       m_sessID, issued, users>>
    BY <1>27 DEF Accept, session, app
  <2>3. ctx[Acceptor] = "io"
    BY <2>2, HomeOf DEF Control, ControlOf
  <2>4. /\ OnlyMoves(Acceptor) /\ pc'[Acceptor] = "acc_inc" /\ own'[Acceptor] = s
        /\ call'[Acceptor] = call[Acceptor] /\ ctx'[Acceptor] = "io"
    BY <2>1, <2>2, <2>3 DEF OnlyMoves, TypeOK
  <2>5. Popped(s)
    BY <2>1, <2>2, <2>4, LoadKept DEF Popped
  <2>6. QED
    BY <2>5 DEF Kinds, Loud
<1>28. CASE AcceptInit
  <2>1. PICK l \in {"acc_open"} : Goto(Acceptor, l)
    BY <1>28 DEF AcceptInit
  <2>2. Step(Acceptor, l)
    <3>1. UNCHANGED kernel
      BY <1>28 DEF AcceptInit, kernel
    <3>2. QED
      BY <2>1, <3>1, GotoMoves, LoadKept DEF Step
  <2>3. QED
    BY <1>28, <2>2 DEF Kinds, Loud
<1>29. CASE AcceptOpen
  <2>1. PICK l \in {"acc_count"} : Goto(Acceptor, l)
    BY <1>29 DEF AcceptOpen
  <2>2. Step(Acceptor, l)
    <3>1. UNCHANGED kernel
      BY <1>29 DEF AcceptOpen, kernel
    <3>2. QED
      BY <2>1, <3>1, GotoMoves, LoadKept DEF Step
  <2>3. QED
    BY <1>29, <2>2 DEF Kinds, Loud
<1>30. CASE AcceptJoin
  <2>1. PICK l \in {"crash", "recv_check"} : Goto(Acceptor, l)
    BY <1>30 DEF AcceptJoin
  <2>2. Step(Acceptor, l)
    <3>1. UNCHANGED kernel
      BY <1>30 DEF AcceptJoin, kernel
    <3>2. QED
      BY <2>1, <3>1, GotoMoves, LoadKept DEF Step
  <2>3. QED
    BY <1>30, <2>2 DEF Kinds, Loud
<1>31. ASSUME NEW t \in Threads, RecvPost(t) PROVE Kinds
  <2>1. /\ pc[t] = "recv_post" /\ Goto(t, "dec") /\ iocp' = iocp /\ UNCHANGED fields
        /\ overlapped' = [overlapped EXCEPT ![own[t]]["recv"] = @ + 1]
    BY <1>31 DEF RecvPost, fields, server, app
  <2>2. LoadsMore(own[t], "recv")
    BY <2>1, Working, LoadPosted DEF IoOps
  <2>3. RecvPosted(t)
    BY <2>1, <2>2, GotoMoves DEF RecvPosted
  <2>4. QED
    BY <2>3 DEF Kinds, Loud
<1>32. ASSUME NEW t \in Threads, Disconnect(t) PROVE Kinds
  <2>1. /\ pc[t] = "disc_xchg" /\ UNCHANGED kernel
        /\ disconnect' = [disconnect EXCEPT ![Obj(t)] = 1]
        /\ UNCHANGED <<release_flag, session_id, send_post_flag, send_q,
                       m_emptySessionStack, m_sessID, issued, users>>
        /\ \/ disconnect[Obj(t)] = 0 /\ Goto(t, "disc_cancel")
           \/ disconnect[Obj(t)] # 0 /\ Enter(t, AfterDisconnect(t), AfterDisconnectCtx(t))
    BY <1>32 DEF Disconnect, server, app
  <2>2. /\ OnlyMoves(t)
        /\ \/ disconnect[Obj(t)] = 0 /\ pc'[t] = "disc_cancel" /\ Stays(t)
           \/ disconnect[Obj(t)] # 0 /\ Leaves(t)
    BY <2>1, GotoMoves, LeaveMoves
  <2>3. Disconnected(t)
    BY <2>1, <2>2, LoadKept DEF Disconnected
  <2>4. QED
    BY <2>3 DEF Kinds, Loud
<1>33. ASSUME NEW t \in Threads, DisconnectCancel(t) PROVE Kinds
  <2>1. /\ pc[t] = "disc_cancel" /\ UNCHANGED fields
        /\ Enter(t, AfterDisconnect(t), AfterDisconnectCtx(t))
        /\ overlapped' = NoOverlapped(Obj(t))
        /\ iocp' = [CancelledIo(Obj(t), iocp) EXCEPT ![Obj(t)]["CANCEL_IO"] = @ + 1]
    BY <1>33 DEF DisconnectCancel, fields, server, app
  <2>2. LoadsMore(Obj(t), "CANCEL_IO")
    BY <2>1, Working, LoadCancelled
  <2>3. Cancelled(t)
    BY <2>1, <2>2, LeaveMoves DEF Cancelled
  <2>4. QED
    BY <2>3 DEF Kinds, Loud
<1>34. ASSUME NEW t \in Workers, SendPost(t) PROVE Kinds
  <2>1. /\ pc[t] = "sp_size" /\ iocp' = iocp
        /\ \E n \in 1 .. send_q[own[t]] : send_q' = [send_q EXCEPT ![own[t]] = @ - n]
        /\ UNCHANGED <<release_flag, disconnect, session_id, send_post_flag,
                       m_emptySessionStack, m_sessID, issued, users>>
        /\ \/ /\ overlapped' = [overlapped EXCEPT ![own[t]]["send"] = @ + 1]
              /\ Goto(t, "dec")
           \/ Enter(t, "dec", "postfail") /\ UNCHANGED overlapped
    BY <1>34 DEF SendPost, server, app
  <2>2. ctx[t] = "io"
    BY <2>1 DEF Control, ControlOf, TypeOK, Contexts, ApiLocations
  <2>3. /\ OnlyMoves(t) /\ pc'[t] = "dec" /\ own'[t] = own[t] /\ call'[t] = call[t]
        /\ \/ /\ overlapped' = [overlapped EXCEPT ![own[t]]["send"] = @ + 1]
              /\ ctx'[t] = "io"
           \/ ctx'[t] = "postfail" /\ UNCHANGED overlapped
    BY <2>1, <2>2, GotoMoves, EnterMoves DEF Stays
  <2>4. \/ ctx'[t] = "io" /\ LoadsMore(own[t], "send")
        \/ ctx'[t] = "postfail" /\ LoadsSame
    BY <2>1, <2>3, Working, LoadPosted, LoadKept DEF IoOps, kernel
  <2>5. SendPosted(t)
    BY <2>1, <2>2, <2>3, <2>4 DEF SendPosted
  <2>6. QED
    BY <2>5 DEF Kinds, Loud
<1>35. ASSUME NEW t \in Workers, PendExchange(t) PROVE Kinds
  <2>1. /\ pc[t] = "pend_xchg" /\ Goto(t, "dec") /\ overlapped' = overlapped
        /\ send_post_flag' = [send_post_flag EXCEPT ![Obj(t)] = 1]
        /\ UNCHANGED <<release_flag, disconnect, session_id, send_q,
                       m_emptySessionStack, m_sessID, issued, users>>
        /\ \/ send_post_flag[Obj(t)] = 1 /\ iocp' = iocp
           \/ /\ send_post_flag[Obj(t)] # 1
              /\ iocp' = [iocp EXCEPT ![Obj(t)]["SEND_PEND"] = @ + 1]
    BY <1>35 DEF PendExchange, Post, server, app
  <2>2. \/ send_post_flag[Obj(t)] = 1 /\ LoadsSame
        \/ send_post_flag[Obj(t)] # 1 /\ LoadsMore(Obj(t), "SEND_PEND")
    BY <2>1, Working, LoadKept, LoadRequested DEF kernel, Requests
  <2>3. Pended(t)
    BY <2>1, <2>2, GotoMoves DEF Pended
  <2>4. QED
    BY <2>3 DEF Kinds, Loud
<1>36. ASSUME NEW t \in Workers, TryClear(t) PROVE Kinds
  <2>1. PICK l \in {"try_size"} : Goto(t, l)
    BY <1>36 DEF TryClear
  <2>2. Step(t, l)
    <3>1. UNCHANGED kernel
      BY <1>36 DEF TryClear, kernel
    <3>2. QED
      BY <2>1, <3>1, GotoMoves, LoadKept DEF Step
  <2>3. QED
    BY <1>36, <2>2 DEF Kinds, Loud
<1>37. ASSUME NEW t \in Workers, SendExchange(t) PROVE Kinds
  <2>1. PICK l \in {"dec", "sp_size"} : Goto(t, l)
    BY <1>37 DEF SendExchange
  <2>2. Step(t, l)
    <3>1. UNCHANGED kernel
      BY <1>37 DEF SendExchange, kernel
    <3>2. QED
      BY <2>1, <3>1, GotoMoves, LoadKept DEF Step
  <2>3. QED
    BY <1>37, <2>2 DEF Kinds, Loud
<1>38. ASSUME NEW t \in Workers, SendClear(t) PROVE Kinds
  <2>1. PICK l \in {"pend_check"} : Goto(t, l)
    BY <1>38 DEF SendClear
  <2>2. Step(t, l)
    <3>1. UNCHANGED kernel
      BY <1>38 DEF SendClear, kernel
    <3>2. QED
      BY <2>1, <3>1, GotoMoves, LoadKept DEF Step
  <2>3. QED
    BY <1>38, <2>2 DEF Kinds, Loud
<1>39. ASSUME NEW t \in Workers, Enqueue(t) PROVE Kinds
  <2>1. PICK l \in {"pend_check", "disc_xchg"} : Goto(t, l)
    BY <1>39 DEF Enqueue
  <2>2. Step(t, l)
    <3>1. UNCHANGED kernel
      BY <1>39 DEF Enqueue, kernel
    <3>2. QED
      BY <2>1, <3>1, GotoMoves, LoadKept DEF Step
  <2>3. QED
    BY <1>39, <2>2 DEF Kinds, Loud
<1>40. ASSUME NEW t \in Workers, ReleaseLeave(t) PROVE Kinds
  <2>1. PICK l \in {"crash", "rel_clear"} : Goto(t, l)
    BY <1>40 DEF ReleaseLeave
  <2>2. Step(t, l)
    <3>1. UNCHANGED kernel
      BY <1>40 DEF ReleaseLeave, kernel
    <3>2. QED
      BY <2>1, <3>1, GotoMoves, LoadKept DEF Step
  <2>3. QED
    BY <1>40, <2>2 DEF Kinds, Loud
<1>41. ASSUME NEW t \in Workers, ReleaseClear(t) PROVE Kinds
  <2>1. PICK l \in {"rel_push"} : Goto(t, l)
    BY <1>41 DEF ReleaseClear
  <2>2. Step(t, l)
    <3>1. UNCHANGED kernel
      BY <1>41 DEF ReleaseClear, kernel
    <3>2. QED
      BY <2>1, <3>1, GotoMoves, LoadKept DEF Step
  <2>3. QED
    BY <1>41, <2>2 DEF Kinds, Loud
<1>42. ASSUME NEW t \in Workers, ReleasePush(t) PROVE Kinds
  <2>1. PICK l \in {"rel_count"} : Goto(t, l)
    BY <1>42 DEF ReleasePush
  <2>2. Step(t, l)
    <3>1. UNCHANGED kernel
      BY <1>42 DEF ReleasePush, kernel
    <3>2. QED
      BY <2>1, <3>1, GotoMoves, LoadKept DEF Step
  <2>3. QED
    BY <1>42, <2>2 DEF Kinds, Loud
<1>43. ASSUME NEW t \in Workers, NEW s \in Slots, NEW p \in Packets, GetPacket(t, s, p)
      PROVE  Kinds
  <2>1. /\ pc[t] = "gqcs" /\ overlapped' = overlapped /\ iocp[s][p] > 0
        /\ iocp' = [iocp EXCEPT ![s][p] = @ - 1] /\ UNCHANGED fields
    BY <1>43 DEF GetPacket, fields, session, server, app
  <2>2. ctx[t] = "io"
    BY <2>1, HomeOf DEF Control, ControlOf
  <2>3. /\ OnlyMoves(t) /\ pc'[t] = Dispatch(s, p) /\ own'[t] = s
        /\ call'[t] = call[t] /\ ctx'[t] = "io"
    BY <1>43, <2>2 DEF GetPacket, OnlyMoves, TypeOK
  <2>4. LoadsLess(s, ClassOf(p))
    BY <2>1, LoadTaken
  <2>5. Load(s, ClassOf(p)) > 0
    <3>1. /\ \A q \in {"RECV", "RECV0", "SEND", "SEND0"} : q \in Packets /\ iocp[s][q] \in Nat
          /\ overlapped[s]["recv"] \in Nat /\ overlapped[s]["send"] \in Nat
          /\ iocp[s][p] \in Nat
      BY LoadType DEF Packets, IoOps
    <3>2. CASE p \in {"RECV", "RECV0", "SEND", "SEND0"}
      BY <2>1, <3>1, <3>2, LoadOf DEF ClassOf
    <3>3. CASE p \notin {"RECV", "RECV0", "SEND", "SEND0"}
      BY <2>1, <3>3, LoadOf DEF ClassOf, Packets, Requests
    <3>4. QED
      BY <3>2, <3>3
  <2>6. Taken(t, s, p)
    BY <2>1, <2>2, <2>3, <2>4, <2>5 DEF Taken
  <2>7. QED
    BY <2>6 DEF Kinds, Loud
<1>44. QED
  BY <1>1, <1>2, <1>3, <1>4, <1>5, <1>6, <1>7, <1>8, <1>9, <1>10, <1>11, <1>12,
     <1>13, <1>14, <1>15, <1>16, <1>17, <1>18, <1>19, <1>20, <1>21, <1>22, <1>23, <1>24,
     <1>25, <1>26, <1>27, <1>28, <1>29, <1>30, <1>31, <1>32, <1>33, <1>34, <1>35, <1>36,
     <1>37, <1>38, <1>39, <1>40, <1>41, <1>42, <1>43
  DEF Next, AcceptorStep, CommonStep, WorkerStep, TimerStep, KernelStep
-----------------------------------------------------------------------------
(* The invariants *)

\* One holder at most: the threads H and the n packets of one class.
OneToken(H, n) == /\ n <= 1
                  /\ \A t, u \in H : t = u
                  /\ H # {} => n = 0

Pushed(s)    == m_emptySessionStack[s] > 0
Accepting(s) == pc[Acceptor] \in {"acc_inc", "acc_init", "acc_open"} /\ own[Acceptor] = s

\* t closed s, or runs release() on it and has not pushed it yet.
Releaser(t, s) == \/ pc[t] = "rp_post" /\ Obj(t) = s
                  \/ pc[t] \in {"rel_leave", "rel_clear", "rel_push"} /\ own[t] = s
Releasers(s)   == {t \in Threads : Releaser(t, s)}
Releasing(s)   == Load(s, "RELEASE_PEND") > 0 \/ Releasers(s) # {}

\* A slot is on the stack once, or being accepted, or being released once, or open.
PhaseOf(s) ==
    /\ m_emptySessionStack[s] <= 1
    /\ OneToken(Releasers(s), Load(s, "RELEASE_PEND"))
    /\ Releasing(s) => release_flag[s] = 1 /\ ~Pushed(s) /\ ~Accepting(s)
    /\ Accepting(s) => release_flag[s] = 1 /\ ~Pushed(s)
    /\ Pushed(s) => release_flag[s] = 1
OnePhase == \A s \in Slots : PhaseOf(s)

\* Where a thread works on a session that is open.
LiveLocations == {"acc_count", "acc_join", "frame", "onrecv", "recv_check", "recv_post",
                  "cancel", "try_clear", "try_size", "sp_check", "sp_xchg", "sp_size",
                  "sp_clear", "pend_check", "pend_xchg", "disc_xchg", "disc_cancel"}
CallLocations == {"api_id", "enqueue", "pend_check", "pend_xchg", "disc_xchg",
                  "disc_cancel"}
UsesOwn(t)  == pc[t] \in LiveLocations \/ ctx[t] # "io"
UsesCall(t) == ctx[t] = "api" /\ pc[t] \in CallLocations

OpenWhileUsed ==
    /\ \A t \in Threads : UsesOwn(t) => release_flag[own[t]] = 0
    /\ \A t \in Threads : UsesCall(t) => release_flag[call[t].slot] = 0
    /\ \A s \in Slots : \A k \in Classes \ {"RELEASE_PEND"} :
            Load(s, k) > 0 => release_flag[s] = 0

\* What release() cleaned stays clean until the slot is used again.
Emptied == \A s \in Slots :
    /\ Pushed(s) => session_id[s] = 0 /\ send_q[s] = 0
    /\ Accepting(s) => send_q[s] = 0
    /\ \A t \in Threads :
          pc[t] = "rel_push" /\ own[t] = s => session_id[s] = 0 /\ send_q[s] = 0

IdChecked == \A t \in Threads :
    UsesCall(t) /\ pc[t] # "api_id" => session_id[call[t].slot] = call[t].id

\* What a step of t does not touch: the other threads.
LEMMA OthersStay ==
  ASSUME NEW t \in Threads, OnlyMoves(t), NEW u \in Threads, u # t
  PROVE  /\ pc'[u] = pc[u] /\ own'[u] = own[u] /\ call'[u] = call[u] /\ ctx'[u] = ctx[u]
         /\ Obj(u)' = Obj(u)
         /\ \A s \in Slots : Releaser(u, s)' <=> Releaser(u, s)
         /\ UsesOwn(u)' <=> UsesOwn(u)
         /\ UsesCall(u)' <=> UsesCall(u)
BY DEF OnlyMoves, Obj, Releaser, UsesOwn, UsesCall

\* Refused operations are given back at once.
LEMMA NextRefusals ==
  ASSUME TypeOK, Control, CountIsReferences, Refusals, [Next]_vars
  PROVE  Refusals'
<1>1. PICK t \in Threads : \/ Quiet(t) /\ (Walk(t) \/ Fault(t) \/ Answer(t) \/ Request(t)
                                           \/ Look(t))
                           \/ Loud(t)
  BY StepKinds DEF Kinds
<1>2. OnlyMoves(t) /\ (ctx'[t] = "postfail" => pc'[t] = "dec")
  <2>1. CASE Quiet(t) /\ Walk(t)
    BY <2>1 DEF Quiet, Walk, Stays, Refusals
  <2>2. CASE Quiet(t) /\ (Fault(t) \/ Answer(t) \/ Request(t) \/ Look(t))
    BY <2>2 DEF Quiet, Fault, Answer, Returns, Request, Look, Refusals
  <2>3. CASE Loud(t)
    BY <2>3 DEF Loud, Popped, Step, Stays, RecvPosted, SendPosted, Pended, Disconnected,
                Cancelled, Leaves, Closed, Announced, Answer, Returns, Taken, Refusals,
                TryClear, SendExchange, SendClear, Enqueue, AcceptInit, AcceptOpen,
                AcceptJoin, ReleaseLeave, ReleaseClear, ReleasePush
  <2>4. QED
    BY <1>1, <2>1, <2>2, <2>3
<1>3. QED
  BY <1>2, OthersStay DEF Refusals
-----------------------------------------------------------------------------
(* A slot is in one phase *)

\* A step that makes nobody a releaser, accepts nothing and posts no RELEASE_PEND.
LEMMA PhaseKept ==
  ASSUME TypeOK, TypeOK', OnePhase, NEW t \in Threads, OnlyMoves(t),
         m_emptySessionStack' = m_emptySessionStack, release_flag' = release_flag,
         \A s \in Slots : Load(s, "RELEASE_PEND")' = Load(s, "RELEASE_PEND"),
         \A s \in Slots : /\ Releaser(t, s)' => Releaser(t, s)
                          /\ Accepting(s)' => Accepting(s)
  PROVE  OnePhase'
<1> SUFFICES ASSUME NEW s \in Slots PROVE PhaseOf(s)'
  BY DEF OnePhase
<1>1. PhaseOf(s)
  BY DEF OnePhase
<1>2. Releasers(s)' \subseteq Releasers(s)
  BY OthersStay DEF Releasers
<1>3. OneToken(Releasers(s), Load(s, "RELEASE_PEND"))'
  BY <1>1, <1>2 DEF PhaseOf, OneToken
<1>4. Releasing(s)' => Releasing(s)
  BY <1>2 DEF Releasing
<1>5. Pushed(s)' <=> Pushed(s)
  BY DEF Pushed
<1>6. QED
  BY <1>1, <1>3, <1>4, <1>5 DEF PhaseOf

\* The load of RELEASE_PEND changes only when one is posted or taken.
LEMMA ReleaseLoad ==
  ASSUME LoadsSame \/ \E s \in Slots, k \in Classes \ {"RELEASE_PEND"} : LoadsMore(s, k) \/ LoadsLess(s, k)
  PROVE  \A s \in Slots : Load(s, "RELEASE_PEND")' = Load(s, "RELEASE_PEND")
BY DEF LoadsSame, LoadsMore, LoadsLess, Classes, Requests

\* Slots stay in one phase.
LEMMA NextPhase ==
  ASSUME TypeOK, TypeOK', Control, Control', CountIsReferences, Refusals, OnePhase, [Next]_vars
  PROVE  OnePhase'
<1> USE Roles
<1>1. PICK t \in Threads : \/ Quiet(t) /\ (Walk(t) \/ Fault(t) \/ Answer(t) \/ Request(t)
                                           \/ Look(t))
                           \/ Loud(t)
  BY StepKinds DEF Kinds
<1>2. CASE Quiet(t) /\ Walk(t)
  <2>1. \A s \in Slots : /\ Releaser(t, s)' => Releaser(t, s)
                         /\ Accepting(s)' => Accepting(s)
    BY <1>2 DEF Quiet, OnlyMoves, Walk, Stays, Releaser, Accepting, Obj
  <2>2. QED
    BY <1>2, <2>1, PhaseKept, ReleaseLoad DEF Quiet, fields
<1>3. CASE Quiet(t) /\ (Fault(t) \/ Answer(t) \/ Request(t) \/ Look(t))
  <2>1. /\ OnlyMoves(t)
        /\ pc'[t] \in {"disc_xchg", "dec", "onrecv", "api_inc", "tm_check", "gqcs", "accept", "tick"}
    BY <1>3, HomeOf DEF Quiet, Fault, Answer, Returns, Request, Look
  <2>2. \A s \in Slots : /\ Releaser(t, s)' => Releaser(t, s)
                         /\ Accepting(s)' => Accepting(s)
    BY <2>1 DEF OnlyMoves, Releaser, Accepting
  <2>3. QED
    BY <1>3, <2>2, PhaseKept, ReleaseLoad DEF Quiet, fields
<1>4. CASE RecvPosted(t) \/ SendPosted(t) \/ Pended(t) \/ Disconnected(t) \/ Cancelled(t)
  <2>1. /\ OnlyMoves(t) /\ m_emptySessionStack' = m_emptySessionStack
        /\ release_flag' = release_flag
        /\ pc[t] \in {"recv_post", "sp_size", "pend_xchg", "disc_xchg", "disc_cancel"}
        /\ pc'[t] \in {"dec", "disc_cancel", "recv_check", "frame"}
    BY <1>4 DEF RecvPosted, SendPosted, Pended, Disconnected, Cancelled, Leaves, fields
  <2>2. Obj(t) \in Slots /\ own[t] \in Slots
    BY <2>1, Working
  <2>3. LoadsSame \/ \E s \in Slots, k \in Classes \ {"RELEASE_PEND"} : LoadsMore(s, k)
    BY <1>4, <2>2 DEF RecvPosted, SendPosted, Pended, Disconnected, Cancelled, Classes,
                      IoOps, Requests
  <2>4. \A s \in Slots : /\ Releaser(t, s)' => Releaser(t, s)
                         /\ Accepting(s)' => Accepting(s)
    BY <2>1 DEF OnlyMoves, Releaser, Accepting
  <2>5. QED
    BY <2>1, <2>3, <2>4, PhaseKept, ReleaseLoad
<1>5. CASE \/ t = Acceptor /\ AcceptJoin /\ \E l \in {"crash", "recv_check"} : Step(t, l)
           \/ TryClear(t) /\ Step(t, "try_size")
           \/ SendExchange(t) /\ \E l \in {"dec", "sp_size"} : Step(t, l)
           \/ SendClear(t) /\ Step(t, "pend_check")
           \/ Enqueue(t) /\ \E l \in {"pend_check", "disc_xchg"} : Step(t, l)
  <2>1. /\ OnlyMoves(t) /\ m_emptySessionStack' = m_emptySessionStack
        /\ release_flag' = release_flag /\ LoadsSame
        /\ pc'[t] \in {"crash", "recv_check", "try_size", "dec", "sp_size", "pend_check",
                       "disc_xchg"}
    BY <1>5 DEF Step, AcceptJoin, TryClear, SendExchange, SendClear, Enqueue, session, server
  <2>2. \A s \in Slots : /\ Releaser(t, s)' => Releaser(t, s)
                         /\ Accepting(s)' => Accepting(s)
    BY <2>1 DEF OnlyMoves, Releaser, Accepting
  <2>3. QED
    BY <2>1, <2>2, PhaseKept, ReleaseLoad
<1>6. CASE \/ ReleaseLeave(t) /\ \E l \in {"crash", "rel_clear"} : Step(t, l)
           \/ ReleaseClear(t) /\ Step(t, "rel_push")
           \/ t = Acceptor /\ AcceptInit /\ Step(t, "acc_open")
  <2>1. /\ OnlyMoves(t) /\ m_emptySessionStack' = m_emptySessionStack
        /\ release_flag' = release_flag /\ LoadsSame /\ Stays(t)
        /\ \/ pc[t] = "rel_leave" /\ pc'[t] \in {"crash", "rel_clear"}
           \/ pc[t] = "rel_clear" /\ pc'[t] = "rel_push"
           \/ t = Acceptor /\ pc[t] = "acc_init" /\ pc'[t] = "acc_open"
    BY <1>6 DEF Step, ReleaseLeave, ReleaseClear, AcceptInit, session, server
  <2>2. \A s \in Slots : /\ Releaser(t, s)' => Releaser(t, s)
                         /\ Accepting(s)' => Accepting(s)
    BY <2>1 DEF OnlyMoves, Releaser, Accepting, Stays
  <2>3. QED
    BY <2>1, <2>2, PhaseKept, ReleaseLoad
<1>7. ASSUME NEW p \in Slots, t = Acceptor, Popped(p) PROVE OnePhase'
  <2> SUFFICES ASSUME NEW s \in Slots PROVE PhaseOf(s)'
    BY DEF OnePhase
  <2>1. /\ PhaseOf(s) /\ PhaseOf(p) /\ OnlyMoves(t) /\ m_emptySessionStack[s] \in Nat
        /\ m_emptySessionStack[p] \in Nat
    BY <1>7 DEF OnePhase, Popped, TypeOK
  <2>2. Releasers(s)' \subseteq Releasers(s)
    BY <1>7, OthersStay DEF Releasers, Popped, Releaser
  <2>3. Load(s, "RELEASE_PEND")' = Load(s, "RELEASE_PEND") /\ release_flag' = release_flag
    BY <1>7, ReleaseLoad DEF Popped
  <2>4. /\ OneToken(Releasers(s), Load(s, "RELEASE_PEND"))'
        /\ Releasing(s)' => Releasing(s)
    BY <2>1, <2>2, <2>3 DEF PhaseOf, OneToken, Releasing
  <2>5. Accepting(s)' => s = p
    BY <1>7 DEF Accepting, Popped
  <2>6. m_emptySessionStack'[s] = IF s = p THEN m_emptySessionStack[s] - 1
                                           ELSE m_emptySessionStack[s]
    BY <1>7 DEF Popped, TypeOK
  <2>7. m_emptySessionStack[p] = 1 /\ Pushed(p)
    BY <1>7, <2>1 DEF PhaseOf, Popped, Pushed
  <2>8. Pushed(s)' => s # p /\ Pushed(s)
    BY <2>6, <2>7 DEF Pushed
  <2>9. m_emptySessionStack'[s] <= 1
    BY <2>1, <2>6 DEF PhaseOf
  <2>10. QED
    BY <2>1, <2>3, <2>4, <2>5, <2>7, <2>8, <2>9 DEF PhaseOf
<1>8. CASE t = Acceptor /\ AcceptOpen /\ Step(t, "acc_count")
  <2> SUFFICES ASSUME NEW s \in Slots PROVE PhaseOf(s)'
    BY DEF OnePhase
  <2>1. /\ PhaseOf(s) /\ OnlyMoves(t) /\ pc[t] = "acc_open" /\ pc'[t] = "acc_count"
        /\ release_flag' = [release_flag EXCEPT ![own[Acceptor]] = 0]
        /\ m_emptySessionStack' = m_emptySessionStack /\ LoadsSame /\ Stays(t)
    BY <1>8 DEF OnePhase, AcceptOpen, Step, server
  <2>2. Releasers(s)' \subseteq Releasers(s)
    BY <2>1, OthersStay DEF Releasers, Releaser
  <2>3. Load(s, "RELEASE_PEND")' = Load(s, "RELEASE_PEND")
    BY <2>1, ReleaseLoad
  <2>4. /\ OneToken(Releasers(s), Load(s, "RELEASE_PEND"))'
        /\ Releasing(s)' => Releasing(s)
    BY <2>1, <2>2, <2>3 DEF PhaseOf, OneToken, Releasing
  <2>5. ~Accepting(s)'
    BY <1>8, <2>1 DEF Accepting
  <2>6. /\ Pushed(s)' <=> Pushed(s)
        /\ ~Accepting(s) => release_flag'[s] = release_flag[s]
    BY <1>8, <2>1 DEF Pushed, Accepting, TypeOK
  <2>7. QED
    BY <2>1, <2>4, <2>5, <2>6 DEF PhaseOf
<1>9. CASE Closed(t)
  <2> SUFFICES ASSUME NEW s \in Slots PROVE PhaseOf(s)'
    BY DEF OnePhase
  <2>1. /\ PhaseOf(s) /\ OnlyMoves(t) /\ pc[t] = "rp_cas" /\ pc'[t] = "rp_post"
        /\ release_flag[Obj(t)] = 0
        /\ release_flag' = [release_flag EXCEPT ![Obj(t)] = 1]
        /\ m_emptySessionStack' = m_emptySessionStack /\ LoadsSame /\ Stays(t)
    BY <1>9 DEF OnePhase, Closed, Step
  <2>2. Obj(t)' = Obj(t) /\ Obj(t) \in Slots
    BY <2>1, Working DEF Obj, Stays
  <2>3. \A u \in Threads : Releaser(u, s)' => Releaser(u, s) \/ (u = t /\ s = Obj(t))
    BY <2>1, <2>2, OthersStay DEF Releaser
  <2>4. Load(s, "RELEASE_PEND")' = Load(s, "RELEASE_PEND")
    BY <2>1, ReleaseLoad
  <2>5. /\ Pushed(s)' <=> Pushed(s)
        /\ Accepting(s)' => Accepting(s)
        /\ release_flag'[s] = IF s = Obj(t) THEN 1 ELSE release_flag[s]
    BY <2>1 DEF Pushed, Accepting, TypeOK, OnlyMoves
  <2>6. CASE s # Obj(t)
    <3>1. Releasers(s)' \subseteq Releasers(s)
      BY <2>3, <2>6 DEF Releasers
    <3>2. /\ OneToken(Releasers(s), Load(s, "RELEASE_PEND"))'
          /\ Releasing(s)' => Releasing(s)
      BY <2>1, <3>1, <2>4 DEF PhaseOf, OneToken, Releasing
    <3>3. QED
      BY <2>1, <2>5, <2>6, <3>2 DEF PhaseOf
  <2>7. CASE s = Obj(t)
    <3>1. ~Releasing(s) /\ ~Pushed(s) /\ ~Accepting(s)
      BY <2>1, <2>7 DEF PhaseOf
    <3>2. Releasers(s)' \subseteq {t}
      BY <2>3, <3>1 DEF Releasers, Releasing
    <3>3. Load(s, "RELEASE_PEND") = 0
      BY <3>1, LoadType DEF Releasing, Classes, Requests
    <3>4. OneToken(Releasers(s), Load(s, "RELEASE_PEND"))'
      BY <2>4, <3>2, <3>3 DEF OneToken
    <3>5. QED
      BY <2>1, <2>5, <2>7, <3>1, <3>4 DEF PhaseOf
  <2>8. QED
    BY <2>6, <2>7
<1>10. CASE Announced(t)
  <2> SUFFICES ASSUME NEW s \in Slots PROVE PhaseOf(s)'
    BY DEF OnePhase
  <2>1. /\ PhaseOf(s) /\ OnlyMoves(t) /\ pc[t] = "rp_post"
        /\ pc'[t] \in {"dec", "onrecv", "gqcs", "accept", "tick"}
        /\ release_flag' = release_flag
        /\ m_emptySessionStack' = m_emptySessionStack /\ LoadsMore(Obj(t), "RELEASE_PEND")
    BY <1>10, HomeOf DEF OnePhase, Announced, Answer, Returns, fields
  <2>2. Obj(t) \in Slots /\ "RELEASE_PEND" \in Classes
    BY <2>1, Working DEF Classes, Requests
  <2>3. Releasers(s)' \subseteq Releasers(s) \ {t}
    BY <2>1, OthersStay DEF Releasers, Releaser
  <2>4. /\ Pushed(s)' <=> Pushed(s)
        /\ Accepting(s)' => Accepting(s)
    BY <2>1 DEF Pushed, Accepting, OnlyMoves
  <2>5. CASE s # Obj(t)
    <3>1. Load(s, "RELEASE_PEND")' = Load(s, "RELEASE_PEND")
      BY <2>1, <2>2, <2>5 DEF LoadsMore
    <3>2. /\ OneToken(Releasers(s), Load(s, "RELEASE_PEND"))'
          /\ Releasing(s)' => Releasing(s)
      BY <2>1, <2>3, <3>1 DEF PhaseOf, OneToken, Releasing
    <3>3. QED
      BY <2>1, <2>4, <3>2 DEF PhaseOf
  <2>6. CASE s = Obj(t)
    <3>1. t \in Releasers(s)
      BY <2>1, <2>6 DEF Releasers, Releaser
    <3>2. Load(s, "RELEASE_PEND") = 0 /\ Releasers(s)' = {}
      BY <2>1, <2>3, <3>1 DEF PhaseOf, OneToken
    <3>3. Load(s, "RELEASE_PEND")' = 1
      BY <2>1, <2>2, <2>6, <3>2 DEF LoadsMore
    <3>4. OneToken(Releasers(s), Load(s, "RELEASE_PEND"))'
      BY <3>2, <3>3 DEF OneToken
    <3>5. QED
      BY <2>1, <2>4, <3>1, <3>4 DEF PhaseOf, Releasing
  <2>7. QED
    BY <2>5, <2>6
<1>11. ASSUME NEW q \in Slots, NEW p \in Packets, t \in Workers, Taken(t, q, p) PROVE OnePhase'
  <2>1. /\ OnlyMoves(t) /\ release_flag' = release_flag /\ own'[t] = q
        /\ m_emptySessionStack' = m_emptySessionStack /\ LoadsLess(q, ClassOf(p))
        /\ Load(q, ClassOf(p)) > 0 /\ ctx'[t] = "io" /\ pc[t] = "gqcs"
    BY <1>11 DEF Taken, fields
  <2>2. CASE p # "RELEASE_PEND"
    <3>1. ClassOf(p) \in Classes \ {"RELEASE_PEND"}
      BY <2>2 DEF ClassOf, Classes, IoOps, Requests, Packets
    <3>2. pc'[t] \in {"try_clear", "cancel", "frame", "disc_xchg"}
      BY <1>11, <2>2 DEF Taken, Dispatch
    <3>3. \A s \in Slots : /\ Releaser(t, s)' => Releaser(t, s)
                           /\ Accepting(s)' => Accepting(s)
      BY <2>1, <3>2 DEF OnlyMoves, Releaser, Accepting
    <3>4. QED
      BY <2>1, <3>1, <3>3, PhaseKept, ReleaseLoad
  <2>3. CASE p = "RELEASE_PEND"
    <3> SUFFICES ASSUME NEW s \in Slots PROVE PhaseOf(s)'
      BY DEF OnePhase
    <3>1. pc'[t] = "rel_leave" /\ ClassOf(p) = "RELEASE_PEND"
      BY <1>11, <2>3 DEF Taken, Dispatch, ClassOf
    <3>2. "RELEASE_PEND" \in Classes
      BY DEF Classes, Requests
    <3>3. PhaseOf(s) /\ Load(s, "RELEASE_PEND") \in Nat
      BY <3>2, LoadType DEF OnePhase
    <3>4. \A u \in Threads : Releaser(u, s)' => Releaser(u, s) \/ (u = t /\ s = q)
      BY <2>1, <3>1, OthersStay DEF Releaser
    <3>5. /\ Pushed(s)' <=> Pushed(s)
          /\ Accepting(s)' => Accepting(s)
      BY <2>1, <3>1 DEF Pushed, Accepting, OnlyMoves
    <3>6. CASE s # q
      <4>1. Load(s, "RELEASE_PEND")' = Load(s, "RELEASE_PEND")
        BY <2>1, <3>1, <3>2, <3>6 DEF LoadsLess
      <4>2. Releasers(s)' \subseteq Releasers(s)
        BY <3>4, <3>6 DEF Releasers
      <4>3. /\ OneToken(Releasers(s), Load(s, "RELEASE_PEND"))'
            /\ Releasing(s)' => Releasing(s)
        BY <3>3, <4>1, <4>2 DEF PhaseOf, OneToken, Releasing
      <4>4. QED
        BY <2>1, <3>3, <3>5, <4>3 DEF PhaseOf
    <3>7. CASE s = q
      <4>1. Load(s, "RELEASE_PEND")' = 0 /\ Releasers(s) = {}
        BY <2>1, <3>1, <3>2, <3>3, <3>7 DEF LoadsLess, PhaseOf, OneToken
      <4>2. Releasers(s)' \subseteq {t}
        BY <3>4, <4>1 DEF Releasers
      <4>3. OneToken(Releasers(s), Load(s, "RELEASE_PEND"))'
        BY <4>1, <4>2 DEF OneToken
      <4>4. Releasing(s)
        BY <2>1, <3>1, <3>7 DEF Releasing
      <4>5. QED
        BY <2>1, <3>3, <3>5, <4>3, <4>4 DEF PhaseOf
    <3>8. QED
      BY <3>6, <3>7
  <2>4. QED
    BY <2>2, <2>3
<1>12. CASE ReleasePush(t) /\ Step(t, "rel_count")
  <2> SUFFICES ASSUME NEW s \in Slots PROVE PhaseOf(s)'
    BY DEF OnePhase
  <2>1. /\ PhaseOf(s) /\ OnlyMoves(t) /\ pc[t] = "rel_push" /\ pc'[t] = "rel_count"
        /\ m_emptySessionStack' = [m_emptySessionStack EXCEPT ![own[t]] = @ + 1]
        /\ release_flag' = release_flag /\ LoadsSame
    BY <1>12 DEF OnePhase, ReleasePush, Step, session
  <2>2. Releasers(s)' \subseteq Releasers(s) \ {t}
    BY <2>1, OthersStay DEF Releasers, Releaser
  <2>3. Load(s, "RELEASE_PEND")' = Load(s, "RELEASE_PEND")
    BY <2>1, ReleaseLoad
  <2>4. /\ OneToken(Releasers(s), Load(s, "RELEASE_PEND"))'
        /\ Releasing(s)' => Releasing(s)
    BY <2>1, <2>2, <2>3 DEF PhaseOf, OneToken, Releasing
  <2>5. /\ Accepting(s)' => Accepting(s)
        /\ m_emptySessionStack'[s] = IF s = own[t] THEN m_emptySessionStack[s] + 1
                                                   ELSE m_emptySessionStack[s]
        /\ m_emptySessionStack[s] \in Nat
    BY <2>1 DEF Accepting, OnlyMoves, TypeOK
  <2>6. CASE s # own[t]
    BY <2>1, <2>4, <2>5, <2>6 DEF PhaseOf, Pushed
  <2>7. CASE s = own[t]
    <3>1. t \in Releasers(s)
      BY <2>1, <2>7 DEF Releasers, Releaser
    <3>2. /\ release_flag[s] = 1 /\ ~Pushed(s) /\ ~Accepting(s)
          /\ Load(s, "RELEASE_PEND") = 0 /\ Releasers(s)' = {}
      BY <2>1, <2>2, <3>1 DEF PhaseOf, Releasing, OneToken
    <3>3. ~Releasing(s)' /\ m_emptySessionStack'[s] <= 1
      BY <2>3, <2>5, <3>2 DEF Releasing, Pushed
    <3>4. QED
      BY <2>1, <2>4, <2>5, <3>2, <3>3 DEF PhaseOf
  <2>8. QED
    BY <2>6, <2>7
<1>13. QED
  BY <1>1, <1>2, <1>3, <1>4, <1>5, <1>6, <1>7, <1>8, <1>9, <1>10, <1>11, <1>12 DEF Loud
-----------------------------------------------------------------------------
(* A session somebody uses is open *)

\* A step that opens or closes nothing, and after which t and the kernel use what
\* is open.
LEMMA OpenKept ==
  ASSUME OpenWhileUsed, NEW t \in Threads, OnlyMoves(t), release_flag' = release_flag,
         UsesOwn(t)' => release_flag[own'[t]] = 0,
         UsesCall(t)' => release_flag[call'[t].slot] = 0,
         \A s \in Slots : \A k \in Classes \ {"RELEASE_PEND"} :
            Load(s, k)' > 0 => Load(s, k) > 0 \/ release_flag[s] = 0
  PROVE  OpenWhileUsed'
<1>1. \A u \in Threads : UsesOwn(u)' => release_flag'[own'[u]] = 0
  BY OthersStay DEF OpenWhileUsed
<1>2. \A u \in Threads : UsesCall(u)' => release_flag'[call'[u].slot] = 0
  BY OthersStay DEF OpenWhileUsed
<1>3. \A s \in Slots : \A k \in Classes \ {"RELEASE_PEND"} :
            Load(s, k)' > 0 => release_flag'[s] = 0
  BY DEF OpenWhileUsed
<1>4. QED
  BY <1>1, <1>2, <1>3 DEF OpenWhileUsed

\* Who uses a session holds a reference to it.
LEMMA UserHolds ==
  ASSUME TypeOK, Control, NEW u \in Threads
  PROVE  /\ UsesOwn(u) => own[u] \in Slots /\ OwnRef(u, own[u])
         /\ UsesCall(u) => call[u].slot \in Slots /\ ApiRef(u, call[u].slot)
<1>1. ControlOf(u) /\ ctx[u] \in Contexts
  BY DEF Control, TypeOK
<1>2. ASSUME UsesOwn(u) PROVE own[u] \in Slots /\ OwnRef(u, own[u])
  <2>1. ctx[u] # "io" => pc[u] \in {"disc_xchg", "disc_cancel", "dec", "rp_cas", "rp_post",
                            "crash", "pend_check", "pend_xchg"} \cup ApiLocations
    BY <1>1 DEF ControlOf, Contexts
  <2>2. pc[u] \notin {"accept", "gqcs", "tick", "acc_inc"}
    BY <1>2, <2>1 DEF UsesOwn, LiveLocations, ApiLocations
  <2>3. ~(ctx[u] = "io" /\ pc[u] \in {"rp_cas", "rp_post"})
    BY <1>2 DEF UsesOwn, LiveLocations
  <2>4. QED
    BY <2>2, <2>3, Working DEF OwnRef
<1>3. ASSUME UsesCall(u) PROVE call[u].slot \in Slots /\ ApiRef(u, call[u].slot)
  BY <1>3, Working DEF UsesCall, CallLocations, ApiRef
<1>4. QED
  BY <1>2, <1>3

\* A slot nobody counts on is used by nobody.
LEMMA UsersCounted ==
  ASSUME TypeOK, Control, CountIsReferences, NEW s \in Slots, io_count[s] = 0
  PROVE  /\ \A u \in Threads : UsesOwn(u) => own[u] # s
         /\ \A u \in Threads : UsesCall(u) => call[u].slot # s
         /\ \A k \in Classes : ~(Load(s, k) > 0)
<1>1. ASSUME NEW u \in Threads, UsesOwn(u), own[u] = s PROVE FALSE
  BY <1>1, UserHolds, HeldIsCounted
<1>2. ASSUME NEW u \in Threads, UsesCall(u), call[u].slot = s PROVE FALSE
  BY <1>2, UserHolds, HeldIsCounted
<1>3. QED
  BY <1>1, <1>2, LoadIsCounted

\* What is used stays open.
LEMMA NextOpen ==
  ASSUME TypeOK, TypeOK', Control, Control', CountIsReferences, Refusals, OnePhase,
         OpenWhileUsed, [Next]_vars
  PROVE  OpenWhileUsed'
<1> USE Roles
<1>1. PICK t \in Threads : \/ Quiet(t) /\ (Walk(t) \/ Fault(t) \/ Answer(t) \/ Request(t)
                                           \/ Look(t))
                           \/ Loud(t)
  BY StepKinds DEF Kinds
<1>2. /\ UsesOwn(t) => release_flag[own[t]] = 0
      /\ UsesCall(t) => release_flag[call[t].slot] = 0
      /\ \A s \in Slots : \A k \in Classes \ {"RELEASE_PEND"} :
            Load(s, k) > 0 => release_flag[s] = 0
  BY DEF OpenWhileUsed
<1>3. CASE Quiet(t) /\ Walk(t)
  <2>1. UsesOwn(t)' => UsesOwn(t)
    <3>1. pc[t] = "api_id" => ctx[t] = "api"
      BY DEF Control, ControlOf, ApiLocations
    <3>2. QED
      BY <1>3, <3>1 DEF Walk, Stays, UsesOwn, LiveLocations
  <2>2. UsesCall(t)' => UsesCall(t) \/ release_flag[call[t].slot] = 0
    BY <1>3 DEF Quiet, Walk, Stays, UsesCall, CallLocations
  <2>3. QED
    BY <1>2, <1>3, <2>1, <2>2, OpenKept DEF Quiet, fields, LoadsSame, Walk, Stays
<1>4. CASE Quiet(t) /\ (Fault(t) \/ Answer(t) \/ Request(t) \/ Look(t))
  <2>1. UsesOwn(t)' => release_flag[own'[t]] = 0
    <3>1. CASE Fault(t)
      BY <1>2, <3>1 DEF Fault, UsesOwn, LiveLocations
    <3>2. CASE Answer(t)
      BY <1>2, <3>2, HomeOf DEF Answer, Returns, UsesOwn, LiveLocations
    <3>3. CASE Request(t)
      BY <1>2, <3>3 DEF Request, UsesOwn, LiveLocations
    <3>4. CASE Look(t)
      BY <3>4, HomeOf DEF Look, UsesOwn, LiveLocations, Control, ControlOf
    <3>5. QED
      BY <1>4, <3>1, <3>2, <3>3, <3>4
  <2>2. ~UsesCall(t)'
    BY <1>4, HomeOf DEF Fault, Answer, Returns, Request, Look, UsesCall, CallLocations, Control, ControlOf
  <2>3. QED
    BY <1>2, <1>4, <2>1, <2>2, OpenKept DEF Quiet, fields, LoadsSame
<1>5. CASE RecvPosted(t) \/ SendPosted(t) \/ Pended(t) \/ Disconnected(t) \/ Cancelled(t)
  <2>1. /\ OnlyMoves(t) /\ release_flag' = release_flag
        /\ own'[t] = own[t] /\ call'[t] = call[t]
        /\ pc[t] \in {"recv_post", "sp_size", "pend_xchg", "disc_xchg", "disc_cancel"}
    BY <1>5 DEF RecvPosted, SendPosted, Pended, Disconnected, Cancelled, Leaves, Stays, fields
  <2>2. Obj(t) \in Slots /\ own[t] \in Slots
    BY <2>1, Working
  <2>3. UsesOwn(t) /\ release_flag[own[t]] = 0
    BY <1>2, <2>1 DEF UsesOwn, LiveLocations
  <2>4. pc[t] \in {"pend_xchg", "disc_xchg", "disc_cancel"} => release_flag[Obj(t)] = 0
    BY <1>2, <2>3 DEF Obj, UsesCall, CallLocations
  <2>5. \/ LoadsSame
        \/ \E s \in Slots, k \in Classes : LoadsMore(s, k) /\ release_flag[s] = 0
    BY <1>5, <2>2, <2>3, <2>4 DEF RecvPosted, SendPosted, Pended, Disconnected, Cancelled,
                             Classes, IoOps, Requests
  <2>6. \A s \in Slots : \A k \in Classes \ {"RELEASE_PEND"} :
            Load(s, k)' > 0 => Load(s, k) > 0 \/ release_flag[s] = 0
    BY <2>5 DEF LoadsSame, LoadsMore
  <2>7. UsesCall(t)' => UsesCall(t)
    BY <1>5 DEF RecvPosted, SendPosted, Pended, Disconnected, Cancelled, Leaves, Stays,
                UsesCall, CallLocations
  <2>8. QED
    BY <1>2, <2>1, <2>3, <2>6, <2>7, OpenKept
<1>6. CASE \/ t = Acceptor /\ AcceptJoin /\ \E l \in {"crash", "recv_check"} : Step(t, l)
           \/ TryClear(t) /\ Step(t, "try_size")
           \/ SendExchange(t) /\ \E l \in {"dec", "sp_size"} : Step(t, l)
           \/ SendClear(t) /\ Step(t, "pend_check")
           \/ Enqueue(t) /\ \E l \in {"pend_check", "disc_xchg"} : Step(t, l)
  <2>1. /\ OnlyMoves(t) /\ Stays(t) /\ release_flag' = release_flag /\ LoadsSame
        /\ pc[t] \in {"acc_join", "try_clear", "sp_xchg", "sp_clear", "enqueue"}
        /\ pc'[t] \in {"crash", "recv_check", "try_size", "dec", "sp_size", "pend_check",
                       "disc_xchg"}
        /\ pc[t] \in {"sp_xchg", "try_clear", "sp_clear", "acc_join"} => ctx[t] = "io"
    BY <1>6 DEF Step, AcceptJoin, TryClear, SendExchange, SendClear, Enqueue, session,
                server, Control, ControlOf, ApiLocations, TypeOK, Contexts
  <2>2. UsesOwn(t)' => UsesOwn(t)
    BY <2>1 DEF UsesOwn, LiveLocations, Stays, Control, ControlOf, ApiLocations
  <2>3. UsesCall(t)' => UsesCall(t)
    BY <2>1 DEF UsesCall, CallLocations, Stays
  <2>4. QED
    BY <1>2, <2>1, <2>2, <2>3, OpenKept DEF LoadsSame, Stays
<1>7. CASE \/ ReleaseLeave(t) /\ \E l \in {"crash", "rel_clear"} : Step(t, l)
           \/ ReleaseClear(t) /\ Step(t, "rel_push")
           \/ ReleasePush(t) /\ Step(t, "rel_count")
           \/ t = Acceptor /\ AcceptInit /\ Step(t, "acc_open")
  <2>1. /\ OnlyMoves(t) /\ Stays(t) /\ release_flag' = release_flag /\ LoadsSame
        /\ pc[t] \in {"rel_leave", "rel_clear", "rel_push", "acc_init"}
        /\ pc'[t] \in {"crash", "rel_clear", "rel_push", "rel_count", "acc_open"}
    BY <1>7 DEF Step, ReleaseLeave, ReleaseClear, ReleasePush, AcceptInit, session
  <2>2. ~UsesOwn(t)' /\ ~UsesCall(t)'
    BY <2>1 DEF UsesOwn, UsesCall, LiveLocations, CallLocations, Stays, Control, ControlOf,
                TypeOK, Contexts, ApiLocations
  <2>3. QED
    BY <1>2, <2>1, <2>2, OpenKept DEF LoadsSame
<1>8. ASSUME NEW p \in Slots, t = Acceptor, Popped(p) PROVE OpenWhileUsed'
  <2>1. ~UsesOwn(t)' /\ ~UsesCall(t)' /\ OnlyMoves(t) /\ release_flag' = release_flag
        /\ LoadsSame
    BY <1>8 DEF Popped, UsesOwn, UsesCall, LiveLocations
  <2>2. QED
    BY <1>2, <2>1, OpenKept DEF LoadsSame
<1>9. CASE t = Acceptor /\ AcceptOpen /\ Step(t, "acc_count")
  <2>1. /\ OnlyMoves(t) /\ Stays(t) /\ LoadsSame /\ pc'[t] = "acc_count"
        /\ pc[t] = "acc_open"
        /\ release_flag' = [release_flag EXCEPT ![own[t]] = 0]
    BY <1>9 DEF AcceptOpen, Step
  <2>2. own[t] \in Slots
    BY <2>1, Working
  <2>3. /\ release_flag'[own[t]] = 0
        /\ \A s : s \in Slots /\ release_flag[s] = 0 => release_flag'[s] = 0
    BY <2>1, <2>2 DEF TypeOK
  <2>4. \A u \in Threads : /\ UsesOwn(u) => own[u] \in Slots
                           /\ UsesCall(u) => call[u].slot \in Slots
    BY UserHolds
  <2>5. \A u \in Threads : UsesOwn(u)' => release_flag'[own'[u]] = 0
    <3> SUFFICES ASSUME NEW u \in Threads, UsesOwn(u)' PROVE release_flag'[own'[u]] = 0
      OBVIOUS
    <3>1. CASE u = t
      BY <2>1, <2>3, <3>1 DEF Stays
    <3>2. CASE u # t
      BY <2>1, <2>3, <2>4, <3>2, OthersStay DEF OpenWhileUsed
    <3>3. QED
      BY <3>1, <3>2
  <2>6. \A u \in Threads : UsesCall(u)' => release_flag'[call'[u].slot] = 0
    <3> SUFFICES ASSUME NEW u \in Threads, UsesCall(u)' PROVE release_flag'[call'[u].slot] = 0
      OBVIOUS
    <3>1. u # t
      BY <2>1 DEF UsesCall, CallLocations
    <3>2. QED
      BY <2>1, <2>3, <2>4, <3>1, OthersStay DEF OpenWhileUsed
  <2>7. QED
    BY <1>2, <2>1, <2>3, <2>5, <2>6 DEF OpenWhileUsed, LoadsSame
<1>10. CASE Closed(t)
  <2>1. /\ OnlyMoves(t) /\ pc[t] = "rp_cas" /\ pc'[t] = "rp_post" /\ io_count[Obj(t)] = 0
        /\ release_flag' = [release_flag EXCEPT ![Obj(t)] = 1] /\ LoadsSame /\ Stays(t)
    BY <1>10 DEF Closed, Step
  <2>2. Obj(t) \in Slots
    BY <2>1, Working
  <2>3. \A s : s # Obj(t) => release_flag'[s] = release_flag[s]
    BY <2>1 DEF TypeOK
  <2>4. \A u \in Threads : /\ UsesOwn(u)' => UsesOwn(u) /\ own'[u] = own[u]
                           /\ UsesCall(u)' => UsesCall(u) /\ call'[u] = call[u]
    <3>1. /\ UsesOwn(t)' => UsesOwn(t) /\ own'[t] = own[t]
          /\ UsesCall(t)' => UsesCall(t) /\ call'[t] = call[t]
      BY <2>1 DEF UsesOwn, UsesCall, Stays, LiveLocations, CallLocations
    <3>2. QED
      BY <2>1, <3>1, OthersStay
  <2>5. \A u \in Threads : UsesOwn(u)' => release_flag'[own'[u]] = 0
    BY <2>1, <2>2, <2>3, <2>4, UsersCounted DEF OpenWhileUsed
  <2>6. \A u \in Threads : UsesCall(u)' => release_flag'[call'[u].slot] = 0
    BY <2>1, <2>2, <2>3, <2>4, UsersCounted DEF OpenWhileUsed
  <2>7. \A s \in Slots : \A k \in Classes \ {"RELEASE_PEND"} :
            Load(s, k)' > 0 => release_flag'[s] = 0
    BY <1>2, <2>1, <2>2, <2>3, UsersCounted DEF LoadsSame
  <2>8. QED
    BY <2>5, <2>6, <2>7 DEF OpenWhileUsed
<1>11. CASE Announced(t)
  <2>1. /\ OnlyMoves(t) /\ release_flag' = release_flag /\ Returns(t)
        /\ LoadsMore(Obj(t), "RELEASE_PEND")
    BY <1>11 DEF Announced, fields
  <2>2. UsesOwn(t)' => release_flag[own'[t]] = 0
    BY <1>2, <2>1, HomeOf DEF Answer, Returns, UsesOwn, LiveLocations
  <2>3. ~UsesCall(t)'
    BY <2>1 DEF Answer, Returns, UsesCall
  <2>4. QED
    BY <1>2, <2>1, <2>2, <2>3, OpenKept DEF LoadsMore
<1>12. ASSUME NEW q \in Slots, NEW p \in Packets, t \in Workers, Taken(t, q, p)
       PROVE  OpenWhileUsed'
  <2>1. /\ OnlyMoves(t) /\ release_flag' = release_flag /\ own'[t] = q
        /\ LoadsLess(q, ClassOf(p)) /\ Load(q, ClassOf(p)) > 0 /\ ctx'[t] = "io"
    BY <1>12 DEF Taken, fields
  <2>2. \A s \in Slots : \A k \in Classes \ {"RELEASE_PEND"} :
            Load(s, k)' > 0 => Load(s, k) > 0
    <3>1. \A s \in Slots : \A k \in Classes : Load(s, k) \in Nat
      BY LoadType
    <3>2. QED
      BY <2>1, <3>1 DEF LoadsLess
  <2>3. UsesOwn(t)' => release_flag[own'[t]] = 0
    <3>1. CASE p = "RELEASE_PEND"
      BY <1>12, <2>1, <3>1 DEF Taken, Dispatch, UsesOwn, LiveLocations
    <3>2. CASE p # "RELEASE_PEND"
      <4>1. ClassOf(p) \in Classes \ {"RELEASE_PEND"}
        BY <3>2 DEF ClassOf, Classes, IoOps, Requests, Packets
      <4>2. QED
        BY <1>2, <2>1, <4>1
    <3>3. QED
      BY <3>1, <3>2
  <2>4. ~UsesCall(t)'
    BY <2>1 DEF UsesCall
  <2>5. QED
    BY <2>1, <2>2, <2>3, <2>4, OpenKept
<1>13. QED
  BY <1>1, <1>3, <1>4, <1>5, <1>6, <1>7, <1>8, <1>9, <1>10, <1>11, <1>12 DEF Loud
-----------------------------------------------------------------------------
(* A free slot stays empty, a checked id stays checked *)

\* t is about to push s on the stack of empty slots.
Pusher(t, s) == pc[t] = "rel_push" /\ own[t] = s

\* A slot on its way out of use or back into it is closed.
LEMMA FreeIsClosed ==
  ASSUME OnePhase, NEW s \in Slots
  PROVE  /\ Pushed(s) \/ Accepting(s) => release_flag[s] = 1
         /\ \A t \in Threads : Releaser(t, s) => release_flag[s] = 1 /\ ~Pushed(s) /\ ~Accepting(s)
         /\ \A t \in Threads : Pusher(t, s) => Releaser(t, s)
         /\ Accepting(s) => ~Pushed(s)
BY DEF OnePhase, PhaseOf, Releasing, Releasers, Releaser, Pusher

\* A step that changes nothing of a closed slot.
LEMMA EmptiedKept ==
  ASSUME Emptied, OnePhase, NEW t \in Threads, OnlyMoves(t),
         m_emptySessionStack' = m_emptySessionStack,
         \A s \in Slots : release_flag[s] = 1 =>
            session_id'[s] = session_id[s] /\ send_q'[s] = send_q[s],
         \A s \in Slots : /\ Accepting(s)' => Accepting(s)
                          /\ Pusher(t, s)' => Pusher(t, s)
  PROVE  Emptied'
<1> SUFFICES ASSUME NEW s \in Slots
             PROVE  /\ Pushed(s)' => session_id'[s] = 0 /\ send_q'[s] = 0
                    /\ Accepting(s)' => send_q'[s] = 0
                    /\ \A u \in Threads : Pusher(u, s)' => session_id'[s] = 0 /\ send_q'[s] = 0
  BY DEF Emptied, Pusher
<1>1. /\ Pushed(s) => session_id[s] = 0 /\ send_q[s] = 0
      /\ Accepting(s) => send_q[s] = 0
      /\ \A u \in Threads : Pusher(u, s) => session_id[s] = 0 /\ send_q[s] = 0
  BY DEF Emptied, Pusher
<1>2. Pushed(s)' <=> Pushed(s)
  BY DEF Pushed
<1>3. \A u \in Threads : Pusher(u, s)' => Pusher(u, s)
  BY OthersStay DEF Pusher
<1>4. QED
  BY <1>1, <1>2, <1>3, FreeIsClosed

\* Ids that were checked belong to open sessions, whose ids do not change.
LEMMA CheckedKept ==
  ASSUME TypeOK, Control, IdChecked, OpenWhileUsed, NEW t \in Threads, OnlyMoves(t),
         \A s \in Slots : release_flag[s] = 0 => session_id'[s] = session_id[s],
         UsesCall(t)' /\ pc'[t] # "api_id" =>
            /\ call'[t] = call[t] /\ call[t].slot \in Slots /\ release_flag[call[t].slot] = 0
            /\ session_id[call[t].slot] = call[t].id
  PROVE  IdChecked'
<1> SUFFICES ASSUME NEW u \in Threads, UsesCall(u)', pc'[u] # "api_id"
             PROVE  session_id'[call'[u].slot] = call'[u].id
  BY DEF IdChecked
<1>1. CASE u = t
  BY <1>1
<1>2. CASE u # t
  <2>1. UsesCall(u) /\ pc[u] # "api_id" /\ call'[u] = call[u]
    BY <1>2, OthersStay
  <2>2. call[u].slot \in Slots
    BY <2>1, UserHolds
  <2>3. QED
    BY <2>1, <2>2 DEF IdChecked, OpenWhileUsed
<1>3. QED
  BY <1>1, <1>2

\* What release() cleaned stays clean until AcceptInit.
LEMMA NextEmptied ==
  ASSUME TypeOK, TypeOK', Control, Control', CountIsReferences, Refusals, OnePhase,
         OpenWhileUsed, Emptied, [Next]_vars
  PROVE  Emptied'
<1> USE Roles
<1>1. PICK t \in Threads : \/ Quiet(t) /\ (Walk(t) \/ Fault(t) \/ Answer(t) \/ Request(t)
                                           \/ Look(t))
                           \/ Loud(t)
  BY StepKinds DEF Kinds
<1>2. CASE Quiet(t) /\ (Walk(t) \/ Fault(t) \/ Answer(t) \/ Request(t) \/ Look(t))
  <2>1. OnlyMoves(t) /\ UNCHANGED fields
    BY <1>2 DEF Quiet
  <2>2. \A s \in Slots : /\ Accepting(s)' => Accepting(s)
                         /\ Pusher(t, s)' => Pusher(t, s)
    <3>1. CASE Walk(t)
      BY <2>1, <3>1 DEF OnlyMoves, Walk, Stays, Accepting, Pusher
    <3>2. CASE Fault(t) \/ Answer(t) \/ Request(t) \/ Look(t)
      BY <2>1, <3>2, HomeOf DEF OnlyMoves, Fault, Answer, Returns, Request, Look, Accepting, Pusher
    <3>3. QED
      BY <1>2, <3>1, <3>2
  <2>3. QED
    BY <2>1, <2>2, EmptiedKept DEF fields
<1>3. CASE \/ RecvPosted(t) \/ Pended(t) \/ Disconnected(t) \/ Cancelled(t) \/ Closed(t)
           \/ Announced(t) \/ \E s \in Slots, p \in Packets : t \in Workers /\ Taken(t, s, p)
           \/ t = Acceptor /\ AcceptOpen /\ Step(t, "acc_count")
           \/ t = Acceptor /\ AcceptJoin /\ \E l \in {"crash", "recv_check"} : Step(t, l)
           \/ TryClear(t) /\ Step(t, "try_size")
           \/ SendExchange(t) /\ \E l \in {"dec", "sp_size"} : Step(t, l)
           \/ SendClear(t) /\ Step(t, "pend_check")
           \/ ReleaseLeave(t) /\ \E l \in {"crash", "rel_clear"} : Step(t, l)
  <2>1. /\ OnlyMoves(t) /\ session_id' = session_id /\ send_q' = send_q
        /\ m_emptySessionStack' = m_emptySessionStack
    BY <1>3 DEF RecvPosted, Pended, Disconnected, Cancelled, Closed, Announced, Taken, Step,
                AcceptOpen, AcceptJoin, TryClear, SendExchange, SendClear, ReleaseLeave,
                fields, session, server
  <2>2. pc'[t] \notin {"acc_inc", "acc_init", "acc_open", "rel_push"}
    BY <1>3, HomeOf DEF RecvPosted, Pended, Disconnected, Cancelled, Leaves, Closed,
                Announced, Answer, Returns, Taken, Step, Dispatch
  <2>3. \A s \in Slots : /\ Accepting(s)' => Accepting(s)
                         /\ Pusher(t, s)' => Pusher(t, s)
    BY <2>1, <2>2 DEF OnlyMoves, Accepting, Pusher
  <2>4. QED
    BY <2>1, <2>3, EmptiedKept
<1>4. CASE SendPosted(t)
  <2>1. /\ OnlyMoves(t) /\ pc[t] = "sp_size" /\ pc'[t] = "dec" /\ session_id' = session_id
        /\ m_emptySessionStack' = m_emptySessionStack
        /\ \A s \in Slots : s # own[t] => send_q'[s] = send_q[s]
    BY <1>4 DEF SendPosted, TypeOK
  <2>2. own[t] \in Slots /\ release_flag[own[t]] = 0
    BY <2>1, Working DEF OpenWhileUsed, UsesOwn, LiveLocations
  <2>3. \A s \in Slots : /\ Accepting(s)' => Accepting(s)
                         /\ Pusher(t, s)' => Pusher(t, s)
    BY <2>1 DEF OnlyMoves, Accepting, Pusher
  <2>4. QED
    BY <2>1, <2>2, <2>3, EmptiedKept
<1>5. CASE Enqueue(t) /\ \E l \in {"pend_check", "disc_xchg"} : Step(t, l)
  <2>1. /\ OnlyMoves(t) /\ pc[t] = "enqueue" /\ pc'[t] \in {"pend_check", "disc_xchg"}
        /\ session_id' = session_id /\ m_emptySessionStack' = m_emptySessionStack
        /\ \A s \in Slots : s # call[t].slot => send_q'[s] = send_q[s]
    BY <1>5 DEF Enqueue, Step, server, TypeOK
  <2>2. ctx[t] = "api"
    BY <2>1 DEF Control, ControlOf, ApiLocations
  <2>3. call[t].slot \in Slots /\ release_flag[call[t].slot] = 0
    BY <2>1, <2>2, Working DEF OpenWhileUsed, UsesCall, CallLocations
  <2>4. \A s \in Slots : /\ Accepting(s)' => Accepting(s)
                         /\ Pusher(t, s)' => Pusher(t, s)
    BY <2>1 DEF OnlyMoves, Accepting, Pusher
  <2>5. QED
    BY <2>1, <2>3, <2>4, EmptiedKept
<1>6. ASSUME NEW p \in Slots, t = Acceptor, Popped(p) PROVE Emptied'
  <2> SUFFICES ASSUME NEW s \in Slots
               PROVE  /\ Pushed(s)' => session_id'[s] = 0 /\ send_q'[s] = 0
                      /\ Accepting(s)' => send_q'[s] = 0
                      /\ \A u \in Threads : Pusher(u, s)' =>
                            session_id'[s] = 0 /\ send_q'[s] = 0
    BY DEF Emptied, Pusher
  <2>1. /\ OnlyMoves(t) /\ session_id' = session_id /\ send_q' = send_q
        /\ pc'[t] = "acc_inc" /\ own'[t] = p /\ Pushed(p)
    BY <1>6 DEF Popped, Pushed
  <2>2. Pushed(s)' => Pushed(s)
    BY <1>6 DEF Popped, Pushed, TypeOK
  <2>3. Accepting(s)' => Pushed(s)
    BY <1>6, <2>1 DEF Accepting
  <2>4. \A u \in Threads : Pusher(u, s)' => Pusher(u, s)
    BY <2>1, OthersStay DEF Pusher
  <2>5. QED
    BY <2>1, <2>2, <2>3, <2>4 DEF Emptied, Pusher
<1>7. CASE t = Acceptor /\ AcceptInit /\ Step(t, "acc_open")
  <2>1. /\ OnlyMoves(t) /\ Stays(t) /\ pc[t] = "acc_init" /\ pc'[t] = "acc_open"
        /\ send_q' = send_q /\ m_emptySessionStack' = m_emptySessionStack
        /\ \A s \in Slots : s # own[t] => session_id'[s] = session_id[s]
    BY <1>7 DEF AcceptInit, Step, server, TypeOK
  <2>2. Accepting(own[t]) /\ own[t] \in Slots
    BY <1>7, <2>1, Working DEF Accepting
  <2> SUFFICES ASSUME NEW s \in Slots
               PROVE  /\ Pushed(s)' => session_id'[s] = 0 /\ send_q'[s] = 0
                      /\ Accepting(s)' => send_q'[s] = 0
                      /\ \A u \in Threads : Pusher(u, s)' =>
                            session_id'[s] = 0 /\ send_q'[s] = 0
    BY DEF Emptied, Pusher
  <2>3. /\ Pushed(s)' <=> Pushed(s)
        /\ Accepting(s)' => Accepting(s)
        /\ \A u \in Threads : Pusher(u, s)' => Pusher(u, s)
    BY <1>7, <2>1, OthersStay DEF Pushed, Accepting, Pusher, Stays
  <2>4. /\ Pushed(s) => s # own[t]
        /\ \A u \in Threads : Pusher(u, s) => s # own[t]
    BY <2>2, FreeIsClosed
  <2>5. QED
    BY <2>1, <2>3, <2>4 DEF Emptied, Pusher
<1>8. CASE ReleaseClear(t) /\ Step(t, "rel_push")
  <2>1. /\ OnlyMoves(t) /\ Stays(t) /\ pc[t] = "rel_clear" /\ pc'[t] = "rel_push"
        /\ m_emptySessionStack' = m_emptySessionStack
    BY <1>8 DEF ReleaseClear, Step, server
  <2>2. own[t] \in Slots
    BY <2>1, Working
  <2>3. \A s \in Slots : /\ session_id'[s] = IF s = own[t] THEN 0 ELSE session_id[s]
                         /\ send_q'[s] = IF s = own[t] THEN 0 ELSE send_q[s]
    BY <1>8 DEF ReleaseClear, TypeOK
  <2> SUFFICES ASSUME NEW s \in Slots
               PROVE  /\ Pushed(s)' => session_id'[s] = 0 /\ send_q'[s] = 0
                      /\ Accepting(s)' => send_q'[s] = 0
                      /\ \A u \in Threads : Pusher(u, s)' =>
                            session_id'[s] = 0 /\ send_q'[s] = 0
    BY DEF Emptied, Pusher
  <2>4. /\ Pushed(s)' <=> Pushed(s)
        /\ Accepting(s)' => Accepting(s)
        /\ \A u \in Threads : Pusher(u, s)' => Pusher(u, s) \/ s = own[t]
    BY <2>1, OthersStay DEF Pushed, Accepting, Pusher, Stays, OnlyMoves
  <2>5. QED
    BY <2>3, <2>4 DEF Emptied, Pusher
<1>9. CASE ReleasePush(t) /\ Step(t, "rel_count")
  <2>1. /\ OnlyMoves(t) /\ pc[t] = "rel_push" /\ pc'[t] = "rel_count"
        /\ session_id' = session_id /\ send_q' = send_q
    BY <1>9 DEF ReleasePush, Step, session
  <2> SUFFICES ASSUME NEW s \in Slots
               PROVE  /\ Pushed(s)' => session_id'[s] = 0 /\ send_q'[s] = 0
                      /\ Accepting(s)' => send_q'[s] = 0
                      /\ \A u \in Threads : Pusher(u, s)' =>
                            session_id'[s] = 0 /\ send_q'[s] = 0
    BY DEF Emptied, Pusher
  <2>2. /\ Pushed(s)' => Pushed(s) \/ Pusher(t, s)
        /\ Accepting(s)' => Accepting(s)
        /\ \A u \in Threads : Pusher(u, s)' => Pusher(u, s)
    BY <1>9, <2>1, OthersStay DEF Pushed, Accepting, Pusher, OnlyMoves, ReleasePush, TypeOK
  <2>3. QED
    BY <2>1, <2>2 DEF Emptied, Pusher
<1>10. QED
  BY <1>1, <1>2, <1>3, <1>4, <1>5, <1>6, <1>7, <1>8, <1>9 DEF Loud

\* An id that was checked stays the id of its slot.
LEMMA NextChecked ==
  ASSUME TypeOK, TypeOK', Control, Control', CountIsReferences, Refusals, OnePhase,
         OpenWhileUsed, IdChecked, [Next]_vars
  PROVE  IdChecked'
<1> USE Roles
<1>1. PICK t \in Threads : \/ Quiet(t) /\ (Walk(t) \/ Fault(t) \/ Answer(t) \/ Request(t)
                                           \/ Look(t))
                           \/ Loud(t)
  BY StepKinds DEF Kinds
<1>2. UsesCall(t) => /\ call[t].slot \in Slots /\ release_flag[call[t].slot] = 0
                     /\ pc[t] # "api_id" => session_id[call[t].slot] = call[t].id
  BY UserHolds DEF OpenWhileUsed, IdChecked
<1>3. CASE Quiet(t) /\ (Walk(t) \/ Fault(t) \/ Answer(t) \/ Request(t) \/ Look(t))
  <2>1. OnlyMoves(t) /\ UNCHANGED fields
    BY <1>3 DEF Quiet
  <2>2. UsesCall(t)' /\ pc'[t] # "api_id" =>
            /\ call'[t] = call[t] /\ UsesCall(t)
            /\ session_id[call[t].slot] = call[t].id
    <3>1. CASE Walk(t)
      BY <1>2, <3>1 DEF Walk, Stays, UsesCall, CallLocations
    <3>2. CASE Fault(t) \/ Answer(t) \/ Request(t) \/ Look(t)
      BY <3>2, HomeOf DEF Fault, Answer, Returns, Request, Look, UsesCall, CallLocations
    <3>3. QED
      BY <1>3, <3>1, <3>2
  <2>3. QED
    BY <1>2, <2>1, <2>2, CheckedKept DEF fields
<1>4. CASE \/ RecvPosted(t) \/ SendPosted(t) \/ Pended(t) \/ Disconnected(t) \/ Cancelled(t)
           \/ Closed(t) \/ Announced(t)
           \/ \E s \in Slots, p \in Packets : t \in Workers /\ Taken(t, s, p)
           \/ \E p \in Slots : t = Acceptor /\ Popped(p)
           \/ t = Acceptor /\ AcceptOpen /\ Step(t, "acc_count")
           \/ t = Acceptor /\ AcceptJoin /\ \E l \in {"crash", "recv_check"} : Step(t, l)
           \/ TryClear(t) /\ Step(t, "try_size")
           \/ SendExchange(t) /\ \E l \in {"dec", "sp_size"} : Step(t, l)
           \/ SendClear(t) /\ Step(t, "pend_check")
           \/ Enqueue(t) /\ \E l \in {"pend_check", "disc_xchg"} : Step(t, l)
           \/ ReleaseLeave(t) /\ \E l \in {"crash", "rel_clear"} : Step(t, l)
           \/ ReleasePush(t) /\ Step(t, "rel_count")
  <2>1. OnlyMoves(t) /\ session_id' = session_id
    BY <1>4 DEF RecvPosted, SendPosted, Pended, Disconnected, Cancelled, Closed, Announced,
                Taken, Popped, Step, AcceptOpen, AcceptJoin, TryClear, SendExchange,
                SendClear, Enqueue, ReleaseLeave, ReleasePush, fields, session
  <2>2. UsesCall(t)' => call'[t] = call[t] /\ UsesCall(t) /\ pc[t] # "api_id"
    <3>1. ASSUME ctx'[t] = "api", pc'[t] \in CallLocations
          PROVE  /\ pc[t] \in {"pend_xchg", "disc_xchg", "disc_cancel", "sp_clear", "enqueue"}
                 /\ ctx[t] = "api" /\ call'[t] = call[t]
      BY <1>4, <3>1
      DEF RecvPosted, SendPosted, Pended, Disconnected, Cancelled, Leaves, Closed,
          Announced, Answer, Returns, Taken, Popped, Step, Stays, AcceptOpen, AcceptJoin,
          TryClear, SendExchange, SendClear, Enqueue, ReleaseLeave, ReleasePush, CallLocations
    <3>2. pc[t] = "sp_clear" => ctx[t] # "api"
      BY DEF Control, ControlOf, ApiLocations
    <3>3. QED
      BY <3>1, <3>2 DEF UsesCall, CallLocations
  <2>3. QED
    BY <1>2, <2>1, <2>2, CheckedKept
<1>5. CASE \/ t = Acceptor /\ AcceptInit /\ Step(t, "acc_open")
           \/ ReleaseClear(t) /\ Step(t, "rel_push")
  <2>1. /\ OnlyMoves(t) /\ pc'[t] \in {"acc_open", "rel_push"}
        /\ \A s \in Slots : s # own[t] => session_id'[s] = session_id[s]
        /\ \/ pc[t] = "acc_init" /\ t = Acceptor
           \/ pc[t] = "rel_clear"
    BY <1>5 DEF AcceptInit, ReleaseClear, Step, TypeOK
  <2>2. own[t] \in Slots /\ release_flag[own[t]] = 1
    BY <2>1, Working, FreeIsClosed DEF Accepting, Releaser
  <2>3. ~UsesCall(t)'
    BY <2>1 DEF UsesCall, CallLocations
  <2>4. QED
    BY <2>1, <2>2, <2>3, CheckedKept
<1>6. QED
  BY <1>1, <1>3, <1>4, <1>5 DEF Loud

-----------------------------------------------------------------------------
\* The inductive invariant of the slots.
SlotInv == /\ TypeOK /\ Control /\ CountIsReferences /\ Refusals
           /\ OnePhase /\ OpenWhileUsed /\ Emptied /\ IdChecked

\* At the start every slot is free and clean.
LEMMA InitSlots == Init => SlotInv
<1> SUFFICES ASSUME Init PROVE SlotInv
  OBVIOUS
<1>1. TypeOK /\ Control /\ CountIsReferences
  BY InitTyped, InitCounted
<1>2. \A t \in Threads : pc[t] \in {"accept", "gqcs", "tick"} /\ ctx[t] = "io"
  BY HomeOf DEF Init
<1>3. \A s \in Slots : Load(s, "RELEASE_PEND") = 0
  BY DEF Init, Load, IoOps, Packets
<1>4. \A s \in Slots : \A k \in Classes : Load(s, k) = 0
  BY LoadOf DEF Init, Classes, IoOps, Requests, Packets
<1>5. \A s \in Slots : Releasers(s) = {} /\ ~Accepting(s)
  BY <1>2, Roles DEF Releasers, Releaser, Accepting
<1>6. OnePhase
  BY <1>3, <1>5 DEF OnePhase, PhaseOf, OneToken, Releasing, Pushed, Init
<1>7. OpenWhileUsed
  BY <1>2, <1>4 DEF OpenWhileUsed, UsesOwn, UsesCall, LiveLocations
<1>8. Emptied
  BY <1>2, <1>5 DEF Emptied, Init
<1>9. Refusals /\ IdChecked
  BY <1>2 DEF Refusals, IdChecked, UsesCall
<1>10. QED
  BY <1>1, <1>6, <1>7, <1>8, <1>9 DEF SlotInv

\* Every step keeps the slots apart and clean.
LEMMA NextSlots == SlotInv /\ [Next]_vars => SlotInv'
<1> SUFFICES ASSUME SlotInv, [Next]_vars PROVE SlotInv'
  OBVIOUS
<1>1. TypeOK' /\ Control' /\ CountIsReferences'
  BY NextTyped, NextCounted DEF SlotInv
<1>2. Refusals' /\ OnePhase' /\ OpenWhileUsed' /\ Emptied' /\ IdChecked'
  BY <1>1, NextRefusals, NextPhase, NextOpen, NextEmptied, NextChecked DEF SlotInv
<1>3. QED
  BY <1>1, <1>2 DEF SlotInv

\* In every behaviour the slots are apart and clean.
LEMMA SlotsAlways == Spec => []SlotInv
BY InitSlots, NextSlots, PTL DEF Spec

\* Natural numbers that add up to 0 are 0.
LEMMA SumZero ==
  ASSUME NEW a \in Nat, NEW b \in Nat, NEW c \in Nat, a + b + c = 0
  PROVE  a = 0 /\ b = 0 /\ c = 0
OBVIOUS

\* A slot the accept thread may pop was pushed once, and nothing of its last
\* session is outstanding, queued or valid.
THEOREM FreeSlotsAreClean == Spec => []FreeSlotIsClean
<1>1. SlotInv => FreeSlotIsClean
  <2> SUFFICES ASSUME SlotInv, NEW s \in Slots, Pushed(s)
               PROVE  /\ m_emptySessionStack[s] = 1 /\ release_flag[s] = 1
                      /\ session_id[s] = 0 /\ send_q[s] = 0
                      /\ \A op \in IoOps : overlapped[s][op] = 0
                      /\ \A p \in Packets : iocp[s][p] = 0
    BY DEF FreeSlotIsClean, Pushed
  <2> USE DEF SlotInv
  <2>1. release_flag[s] = 1 /\ m_emptySessionStack[s] = 1
    BY DEF OnePhase, PhaseOf, Pushed, TypeOK
  <2>2. \A k \in Classes : Load(s, k) = 0
    <3>1. \A k \in Classes : ~(Load(s, k) > 0)
      BY <2>1 DEF OpenWhileUsed, OnePhase, PhaseOf, Releasing
    <3>2. QED
      BY <3>1, LoadType
  <2>3. /\ overlapped[s]["recv"] + iocp[s]["RECV"] + iocp[s]["RECV0"] = 0
        /\ overlapped[s]["send"] + iocp[s]["SEND"] + iocp[s]["SEND0"] = 0
        /\ \A k \in Requests : iocp[s][k] = 0
    BY <2>2, LoadOf DEF Classes, IoOps
  <2>4. /\ \A p \in Packets : iocp[s][p] \in Nat
        /\ \A op \in IoOps : overlapped[s][op] \in Nat
    BY LoadType
  <2>5. /\ overlapped[s]["recv"] = 0 /\ iocp[s]["RECV"] = 0 /\ iocp[s]["RECV0"] = 0
        /\ overlapped[s]["send"] = 0 /\ iocp[s]["SEND"] = 0 /\ iocp[s]["SEND0"] = 0
    <3>1. overlapped[s]["recv"] \in Nat /\ iocp[s]["RECV"] \in Nat /\ iocp[s]["RECV0"] \in Nat
      BY <2>4 DEF IoOps, Packets
    <3>2. overlapped[s]["send"] \in Nat /\ iocp[s]["SEND"] \in Nat /\ iocp[s]["SEND0"] \in Nat
      BY <2>4 DEF IoOps, Packets
    <3>3. overlapped[s]["recv"] = 0 /\ iocp[s]["RECV"] = 0 /\ iocp[s]["RECV0"] = 0
      <4>1. overlapped[s]["recv"] + iocp[s]["RECV"] + iocp[s]["RECV0"] = 0
        BY <2>3
      <4>2. QED
        BY <3>1, <4>1, SumZero
    <3>4. overlapped[s]["send"] = 0 /\ iocp[s]["SEND"] = 0 /\ iocp[s]["SEND0"] = 0
      <4>1. overlapped[s]["send"] + iocp[s]["SEND"] + iocp[s]["SEND0"] = 0
        BY <2>3
      <4>2. QED
        BY <3>2, <4>1, SumZero
    <3>5. QED
      BY <3>3, <3>4
  <2>6. QED
    BY <2>1, <2>3, <2>5 DEF Emptied, IoOps, Packets, Requests
<1>2. QED
  BY <1>1, SlotsAlways, PTL

\* Past its id check, SendPacket or DisconnectSession works on the session it was
\* called for, which cannot be released under it.
THEOREM ApiOnItsSession == Spec => []ApiTargetsItsSession
<1>1. SlotInv => ApiTargetsItsSession
  BY DEF SlotInv, ApiTargetsItsSession, OpenWhileUsed, IdChecked, UsesCall, CallLocations
<1>2. QED
  BY <1>1, SlotsAlways, PTL
-----------------------------------------------------------------------------
(***************************************************************************)
(* Each session has one receiver, one sender and one canceller, nobody     *)
(* crashes the server, and the application is told of its sessions as      *)
(* SessionService promises, for any number of slots, workers and sessions. *)
(*                                                                         *)
(* The argument.  The right to receive is a token: an outstanding receive, *)
(* its packet in the completion port, or the thread that handles it        *)
(* (OneReceive); so are the right to send, which send_post_flag guards,    *)
(* and the right to cancel, which disconnect guards.  A token of a closed  *)
(* slot does not exist (ClosedIdle), so AcceptInit makes the only new      *)
(* ones. What the application knows follows the slots: its users are the   *)
(* sessions that are open and joined, or closed and not left               *)
(* (UsersArePresent), and only disconnected sessions close, because as     *)
(* long as one is connected somebody receives from it and is counted       *)
(* (AllWatched).  Ids are issued in the order of m_sessID, hence new.      *)
(***************************************************************************)
-----------------------------------------------------------------------------
(* One receive, one send, one cancellation at a time *)

RecvTurns(l) == l \in {"acc_inc", "acc_init", "acc_open", "acc_count", "acc_join",
                       "recv_check", "recv_post", "frame", "onrecv"}

\* t is in the receive turn of s: it accepts s, or handles what was received.
RecvTurn(t, s) ==
    /\ own[t] = s
    /\ \/ RecvTurns(pc[t])
       \/ ctx[t] \in {"frame", "decode"}
       \/ ctx[t] = "api" /\ t \in Workers
Receivers(s) == {t \in Threads : RecvTurn(t, s)}
OneReceive   == \A s \in Slots : OneToken(Receivers(s), Load(s, "recv"))

\* t has the send turn of s: it was given send_post_flag, and has not posted yet.
SendTurn(t, s) == own[t] = s /\ pc[t] \in {"try_clear", "sp_size", "sp_clear"}
Senders(s)     == {t \in Threads : SendTurn(t, s)}
SendLoad(s)    == Load(s, "send") + Load(s, "SEND_PEND")
OneSend == \A s \in Slots :
    /\ OneToken(Senders(s), SendLoad(s))
    /\ SendLoad(s) > 0 \/ Senders(s) # {} => send_post_flag[s] = 1

\* t changed disconnect from 0 and has not posted CANCEL_IO yet.
CancelTurn(t, s) == pc[t] = "disc_cancel" /\ Obj(t) = s
Cancellers(s)    == {t \in Threads : CancelTurn(t, s)}
OneCancel == \A s \in Slots :
    /\ OneToken(Cancellers(s), Load(s, "CANCEL_IO"))
    /\ Load(s, "CANCEL_IO") > 0 \/ Cancellers(s) # {} => disconnect[s] = 1

\* The turns of the other threads do not change.
LEMMA OthersTurns ==
  ASSUME NEW t \in Threads, OnlyMoves(t), NEW u \in Threads, u # t
  PROVE  \A s \in Slots : /\ RecvTurn(u, s)' <=> RecvTurn(u, s)
                          /\ SendTurn(u, s)' <=> SendTurn(u, s)
                          /\ CancelTurn(u, s)' <=> CancelTurn(u, s)
BY OthersStay DEF RecvTurns, RecvTurn, SendTurn, CancelTurn

\* A closed slot is nobody's turn but the accept thread's.
LEMMA ClosedIdle ==
  ASSUME TypeOK, Control, OpenWhileUsed, NEW s \in Slots, release_flag[s] = 1
  PROVE  /\ Receivers(s) \subseteq {Acceptor}
         /\ ~Accepting(s) => Receivers(s) = {}
         /\ Senders(s) = {} /\ Cancellers(s) = {}
         /\ Load(s, "recv") = 0 /\ SendLoad(s) = 0 /\ Load(s, "CANCEL_IO") = 0
<1>1. \A t \in Threads : UsesOwn(t) => own[t] # s
  BY DEF OpenWhileUsed
<1>2. \A t \in Threads : UsesCall(t) => call[t].slot # s
  BY DEF OpenWhileUsed
<1>3. \A t \in Threads : RecvTurn(t, s) => t = Acceptor /\ Accepting(s)
  <2> SUFFICES ASSUME NEW t \in Threads, RecvTurn(t, s) PROVE t = Acceptor /\ Accepting(s)
    OBVIOUS
  <2>1. own[t] = s /\ pc[t] \in {"acc_inc", "acc_init", "acc_open"}
    BY <1>1 DEF RecvTurns, RecvTurn, UsesOwn, LiveLocations
  <2>2. t = Acceptor
    BY <2>1 DEF Control, ControlOf, AccLocations
  <2>3. QED
    BY <2>1, <2>2 DEF Accepting
<1>4. \A t \in Threads : ~SendTurn(t, s)
  BY <1>1 DEF SendTurn, UsesOwn, LiveLocations
<1>5. \A t \in Threads : ~CancelTurn(t, s)
  BY <1>1, <1>2 DEF CancelTurn, Obj, UsesOwn, UsesCall, LiveLocations, CallLocations
<1>6. \A k \in {"recv", "send", "SEND_PEND", "CANCEL_IO"} : Load(s, k) = 0
  <2>1. \A k \in {"recv", "send", "SEND_PEND", "CANCEL_IO"} :
            Load(s, k) \in Nat /\ ~(Load(s, k) > 0)
    BY LoadType DEF OpenWhileUsed, Classes, IoOps, Requests
  <2>2. QED
    BY <2>1
<1>7. QED
  BY <1>3, <1>4, <1>5, <1>6 DEF Receivers, Senders, Cancellers, SendLoad

\* Fewer holders of a token that is not posted or taken.
LEMMA TokenKept ==
  ASSUME NEW H, NEW G, NEW n, OneToken(H, n), G \subseteq H
  PROVE  OneToken(G, n)
BY DEF OneToken

\* The holder hands its token to the kernel.
LEMMA TokenPosted ==
  ASSUME NEW H, NEW G, NEW n \in Nat, NEW t \in H, OneToken(H, n), G \subseteq H \ {t}
  PROVE  OneToken(G, n + 1)
BY DEF OneToken

\* t takes a token from the kernel.
LEMMA TokenTaken ==
  ASSUME NEW H, NEW G, NEW n \in Nat, NEW t, OneToken(H, n), n > 0, G \subseteq H \cup {t}
  PROVE  OneToken(G, n - 1)
BY DEF OneToken

\* One receive at a time.
LEMMA NextReceive ==
  ASSUME SlotInv, SlotInv', OneReceive, [Next]_vars
  PROVE  OneReceive'
<1> USE Roles
<1>0. TypeOK /\ Control /\ CountIsReferences /\ Refusals /\ OnePhase /\ OpenWhileUsed
  BY DEF SlotInv
<1>1. PICK t \in Threads : \/ Quiet(t) /\ (Walk(t) \/ Fault(t) \/ Answer(t) \/ Request(t)
                                           \/ Look(t))
                           \/ Loud(t)
  BY <1>0, StepKinds DEF Kinds
<1>2. "recv" \in Classes /\ \A s \in Slots : Load(s, "recv") \in Nat
  BY <1>0, LoadType DEF Classes, IoOps
<1>3. ASSUME OnlyMoves(t), \A s \in Slots : RecvTurn(t, s)' => RecvTurn(t, s),
             \A s \in Slots : Load(s, "recv")' = Load(s, "recv")
      PROVE  OneReceive'
  <2>1. \A s \in Slots : Receivers(s)' \subseteq Receivers(s)
    BY <1>3, OthersTurns DEF Receivers
  <2>2. QED
    BY <1>3, <2>1, TokenKept DEF OneReceive
<1>4. CASE Quiet(t) /\ (Walk(t) \/ Fault(t) \/ Answer(t) \/ Request(t) \/ Look(t))
  <2>1. \A s \in Slots : RecvTurn(t, s)' => RecvTurn(t, s)
    <3>1. CASE Walk(t)
      <4>1. Stays(t) /\ (RecvTurns(pc'[t]) => RecvTurns(pc[t]))
        BY <3>1 DEF Walk, RecvTurns
      <4>2. QED
        BY <4>1 DEF Stays, RecvTurns, RecvTurn
    <3>2. CASE Fault(t)
      BY <3>2 DEF Fault, RecvTurns, RecvTurn
    <3>3. CASE Answer(t)
      <4>1. ~RecvTurns(Home(t))
        BY HomeOf DEF RecvTurns
      <4>2. \/ own'[t] = own[t] /\ ctx[t] = "api" /\ t \in Workers
            \/ ctx'[t] = "io" /\ ~RecvTurns(pc'[t])
        BY <3>3, <4>1 DEF Answer, Returns, RecvTurns
      <4>3. QED
        BY <4>2 DEF RecvTurn
    <3>4. CASE Request(t)
      <4>1. CASE t \in Workers
        BY <3>4, <4>1 DEF Request, RecvTurns, RecvTurn
      <4>2. CASE t \notin Workers
        BY <3>4, <4>2 DEF Request, RecvTurns, RecvTurn
      <4>3. QED
        BY <4>1, <4>2
    <3>5. CASE Look(t)
      <4>1. ctx[t] = "io"
        BY <1>0, <3>5, HomeOf DEF Look, Control, ControlOf
      <4>2. QED
        BY <3>5, <4>1 DEF Look, RecvTurns, RecvTurn
    <3>6. QED
      BY <1>4, <3>1, <3>2, <3>3, <3>4, <3>5
  <2>2. QED
    BY <1>2, <1>3, <1>4, <2>1 DEF Quiet, LoadsSame
<1>5. CASE RecvPosted(t)
  <2>1. /\ OnlyMoves(t) /\ own[t] \in Slots /\ LoadsMore(own[t], "recv")
        /\ pc[t] = "recv_post" /\ pc'[t] = "dec" /\ Stays(t) /\ ctx[t] = "io"
    BY <1>0, <1>5, Working DEF RecvPosted, Control, ControlOf, TypeOK, Contexts, ApiLocations
  <2> SUFFICES ASSUME NEW s \in Slots PROVE OneToken(Receivers(s)', Load(s, "recv")')
    BY DEF OneReceive
  <2>2. Receivers(s)' \subseteq Receivers(s) \ {t}
    BY <2>1, OthersTurns DEF Receivers, RecvTurns, RecvTurn, Stays
  <2>3. s = own[t] => t \in Receivers(s)
    BY <2>1 DEF Receivers, RecvTurns, RecvTurn
  <2>4. OneToken(Receivers(s), Load(s, "recv"))
    BY DEF OneReceive
  <2>5. CASE s = own[t]
    BY <1>2, <2>1, <2>2, <2>3, <2>4, <2>5, TokenPosted DEF LoadsMore
  <2>6. CASE s # own[t]
    BY <1>2, <2>1, <2>2, <2>4, <2>6, TokenKept DEF LoadsMore
  <2>7. QED
    BY <2>5, <2>6
<1>6. ASSUME NEW p \in Slots, t = Acceptor, Popped(p) PROVE OneReceive'
  <2>1. OnlyMoves(t) /\ own'[t] = p /\ Pushed(p) /\ LoadsSame
    BY <1>6 DEF Popped, Pushed
  <2>2. Receivers(p) = {} /\ Load(p, "recv") = 0
    BY <1>0, <2>1, ClosedIdle, FreeIsClosed
  <2> SUFFICES ASSUME NEW s \in Slots PROVE OneToken(Receivers(s)', Load(s, "recv")')
    BY DEF OneReceive
  <2>3. Receivers(s)' \subseteq Receivers(s) \cup (IF s = p THEN {t} ELSE {})
    BY <2>1, OthersTurns DEF Receivers, RecvTurns, RecvTurn
  <2>4. OneToken(Receivers(s), Load(s, "recv")) /\ Load(s, "recv")' = Load(s, "recv")
    BY <1>2, <2>1 DEF OneReceive, LoadsSame
  <2>5. QED
    BY <2>2, <2>3, <2>4 DEF OneToken
<1>7. ASSUME NEW q \in Slots, NEW p \in Packets, t \in Workers, Taken(t, q, p) PROVE OneReceive'
  <2>1. /\ OnlyMoves(t) /\ own'[t] = q /\ LoadsLess(q, ClassOf(p)) /\ ctx'[t] = "io"
        /\ Load(q, ClassOf(p)) > 0 /\ pc'[t] = Dispatch(q, p)
    BY <1>7 DEF Taken
  <2>2. CASE p \in {"RECV", "RECV0"}
    <3>1. ClassOf(p) = "recv"
      BY <2>2 DEF ClassOf
    <3> SUFFICES ASSUME NEW s \in Slots PROVE OneToken(Receivers(s)', Load(s, "recv")')
      BY DEF OneReceive
    <3>2. Receivers(s)' \subseteq Receivers(s) \cup (IF s = q THEN {t} ELSE {})
      BY <2>1, OthersTurns DEF Receivers, RecvTurns, RecvTurn
    <3>3. OneToken(Receivers(s), Load(s, "recv"))
      BY DEF OneReceive
    <3>4. CASE s = q
      BY <1>2, <2>1, <3>1, <3>2, <3>3, <3>4, TokenTaken DEF LoadsLess
    <3>5. CASE s # q
      BY <1>2, <2>1, <3>1, <3>2, <3>3, <3>5, TokenKept DEF LoadsLess
    <3>6. QED
      BY <3>4, <3>5
  <2>3. CASE p \notin {"RECV", "RECV0"}
    <3>1. ClassOf(p) # "recv"
      BY <2>3 DEF ClassOf, Packets
    <3>2. pc'[t] \in {"try_clear", "rel_leave", "cancel", "disc_xchg"}
      BY <2>1, <2>3 DEF Dispatch
    <3>3. \A s \in Slots : ~RecvTurn(t, s)'
      BY <2>1, <3>2 DEF RecvTurns, RecvTurn
    <3>4. QED
      BY <1>2, <1>3, <2>1, <3>1, <3>3 DEF LoadsLess
  <2>4. QED
    BY <2>2, <2>3
<1>8. CASE \/ SendPosted(t) \/ Pended(t) \/ Disconnected(t) \/ Cancelled(t) \/ Closed(t)
           \/ Announced(t)
  <2>1. OnlyMoves(t) /\ own[t] \in Slots /\ Obj(t) \in Slots
    BY <1>0, <1>8, Working DEF SendPosted, Pended, Disconnected, Cancelled, Closed, Step, Announced
  <2>2. \A s \in Slots : RecvTurn(t, s)' => RecvTurn(t, s)
    <3>1. CASE SendPosted(t) \/ Pended(t) \/ Closed(t)
      BY <3>1 DEF SendPosted, Pended, Closed, Step, Stays, RecvTurns, RecvTurn
    <3>2. CASE Disconnected(t) \/ Cancelled(t)
      BY <3>2 DEF Disconnected, Cancelled, Leaves, Stays, RecvTurns, RecvTurn
    <3>3. CASE Announced(t)
      BY <3>3, HomeOf DEF Announced, Answer, Returns, RecvTurns, RecvTurn
    <3>4. QED
      BY <1>8, <3>1, <3>2, <3>3
  <2>3. \A s \in Slots : Load(s, "recv")' = Load(s, "recv")
    BY <1>2, <1>8, <2>1 DEF SendPosted, Pended, Disconnected, Cancelled, Closed, Step, Announced,
                       LoadsSame, LoadsMore
  <2>4. QED
    BY <1>3, <2>1, <2>2, <2>3
<1>9. CASE \/ t = Acceptor /\ AcceptInit /\ Step(t, "acc_open")
           \/ t = Acceptor /\ AcceptOpen /\ Step(t, "acc_count")
           \/ t = Acceptor /\ AcceptJoin /\ \E l \in {"crash", "recv_check"} : Step(t, l)
           \/ TryClear(t) /\ Step(t, "try_size")
           \/ SendExchange(t) /\ \E l \in {"dec", "sp_size"} : Step(t, l)
           \/ SendClear(t) /\ Step(t, "pend_check")
           \/ Enqueue(t) /\ \E l \in {"pend_check", "disc_xchg"} : Step(t, l)
           \/ ReleaseLeave(t) /\ \E l \in {"crash", "rel_clear"} : Step(t, l)
           \/ ReleaseClear(t) /\ Step(t, "rel_push")
           \/ ReleasePush(t) /\ Step(t, "rel_count")
  <2>1. OnlyMoves(t) /\ Stays(t) /\ LoadsSame
    BY <1>9 DEF Step
  <2>2. \/ pc[t] \in {"acc_init", "acc_open", "acc_join"}
        \/ ~RecvTurns(pc'[t])
    BY <1>9 DEF RecvTurns, Step, AcceptInit, AcceptOpen, AcceptJoin
  <2>3. \A s \in Slots : RecvTurn(t, s)' => RecvTurn(t, s)
    BY <2>1, <2>2 DEF RecvTurns, RecvTurn, Stays
  <2>4. QED
    BY <1>2, <1>3, <2>1, <2>3 DEF LoadsSame
<1>10. QED
  BY <1>1, <1>4, <1>5, <1>6, <1>7, <1>8, <1>9 DEF Loud

\* The load of the send turn changes only when a send or a SEND_PEND is posted or taken.
LEMMA SendLoadKept ==
  ASSUME \/ LoadsSame
         \/ \E q \in Slots, k \in Classes \ {"send", "SEND_PEND"} : LoadsMore(q, k) \/ LoadsLess(q, k)
  PROVE  \A s \in Slots : SendLoad(s)' = SendLoad(s)
BY DEF LoadsSame, LoadsMore, LoadsLess, SendLoad, Classes, IoOps, Requests

\* A send or a SEND_PEND that is posted or taken changes the send load by one.
LEMMA SendLoadMoves ==
  ASSUME TypeOK, NEW q \in Slots, NEW k \in {"send", "SEND_PEND"}
  PROVE  /\ LoadsMore(q, k) => \A s \in Slots :
              SendLoad(s)' = IF s = q THEN SendLoad(s) + 1 ELSE SendLoad(s)
         /\ LoadsLess(q, k) => \A s \in Slots :
              SendLoad(s)' = IF s = q THEN SendLoad(s) - 1 ELSE SendLoad(s)
         /\ \A s \in Slots : SendLoad(s) \in Nat
         /\ Load(q, k) > 0 => SendLoad(q) > 0
<1>1. "send" \in Classes /\ "SEND_PEND" \in Classes
  BY DEF Classes, IoOps, Requests
<1>2. \A s \in Slots : Load(s, "send") \in Nat /\ Load(s, "SEND_PEND") \in Nat
  BY <1>1, LoadType
<1>3. ASSUME LoadsMore(q, k), NEW s \in Slots
      PROVE  SendLoad(s)' = IF s = q THEN SendLoad(s) + 1 ELSE SendLoad(s)
  BY <1>1, <1>2, <1>3 DEF LoadsMore, SendLoad
<1>4. ASSUME LoadsLess(q, k), NEW s \in Slots
      PROVE  SendLoad(s)' = IF s = q THEN SendLoad(s) - 1 ELSE SendLoad(s)
  BY <1>1, <1>2, <1>4 DEF LoadsLess, SendLoad
<1>5. QED
  BY <1>2, <1>3, <1>4 DEF SendLoad

\* What OneSend says of one slot.
SendOf(s) == /\ OneToken(Senders(s), SendLoad(s))
             /\ SendLoad(s) > 0 \/ Senders(s) # {} => send_post_flag[s] = 1

\* One send, or one request for one, at a time.
LEMMA NextSend ==
  ASSUME SlotInv, SlotInv', OneSend, [Next]_vars
  PROVE  OneSend'
<1> USE Roles
<1>0. TypeOK /\ Control /\ CountIsReferences /\ Refusals /\ OnePhase /\ OpenWhileUsed
  BY DEF SlotInv
<1>1. PICK t \in Threads : \/ Quiet(t) /\ (Walk(t) \/ Fault(t) \/ Answer(t) \/ Request(t)
                                           \/ Look(t))
                           \/ Loud(t)
  BY <1>0, StepKinds DEF Kinds
<1>2. \A s \in Slots : SendLoad(s) \in Nat /\ SendOf(s)
  BY <1>0, SendLoadMoves DEF OneSend, SendOf
<1>3. ASSUME OnlyMoves(t), NEW s \in Slots, SendTurn(t, s)' => SendTurn(t, s),
             SendLoad(s)' = SendLoad(s), send_post_flag'[s] = send_post_flag[s]
      PROVE  SendOf(s)'
  <2>1. Senders(s)' \subseteq Senders(s)
    BY <1>3, OthersTurns DEF Senders
  <2>2. QED
    BY <1>2, <1>3, <2>1, TokenKept DEF SendOf
<1>4. CASE Quiet(t) /\ (Walk(t) \/ Fault(t) \/ Answer(t) \/ Request(t) \/ Look(t))
  <2>1. \A s \in Slots : SendTurn(t, s)' => SendTurn(t, s)
    <3>1. CASE Walk(t)
      BY <3>1 DEF Walk, Stays, SendTurn
    <3>2. CASE Fault(t) \/ Answer(t) \/ Request(t) \/ Look(t)
      BY <3>2, HomeOf DEF Fault, Answer, Returns, Request, Look, SendTurn
    <3>3. QED
      BY <1>4, <3>1, <3>2
  <2>2. \A s \in Slots : SendLoad(s)' = SendLoad(s)
    BY <1>4, SendLoadKept DEF Quiet
  <2>3. QED
    BY <1>3, <1>4, <2>1, <2>2 DEF Quiet, fields, OneSend, SendOf
<1>5. CASE SendPosted(t)
  <2>1. /\ OnlyMoves(t) /\ own[t] \in Slots /\ pc[t] = "sp_size" /\ pc'[t] = "dec"
        /\ send_post_flag' = send_post_flag
    BY <1>0, <1>5, Working DEF SendPosted
  <2>2. LoadsSame \/ LoadsMore(own[t], "send")
    BY <1>5 DEF SendPosted
  <2> SUFFICES ASSUME NEW s \in Slots PROVE SendOf(s)'
    BY DEF OneSend, SendOf
  <2>3. ~SendTurn(t, s)'
    BY <2>1 DEF SendTurn
  <2>4. CASE LoadsSame \/ s # own[t]
    BY <1>0, <1>3, <2>1, <2>2, <2>3, <2>4, SendLoadKept, SendLoadMoves
  <2>5. CASE LoadsMore(own[t], "send") /\ s = own[t]
    <3>1. SendLoad(s)' = SendLoad(s) + 1
      BY <1>0, <2>5, SendLoadMoves
    <3>2. t \in Senders(s) /\ Senders(s)' \subseteq Senders(s) \ {t}
      BY <2>1, <2>3, <2>5, OthersTurns DEF Senders, SendTurn
    <3>3. OneToken(Senders(s)', SendLoad(s)') /\ send_post_flag'[s] = 1
      BY <1>2, <2>1, <3>1, <3>2, TokenPosted DEF SendOf
    <3>4. QED
      BY <3>3 DEF SendOf
  <2>6. QED
    BY <2>2, <2>4, <2>5
<1>6. CASE Pended(t)
  <2>1. /\ OnlyMoves(t) /\ Obj(t) \in Slots /\ pc'[t] = "dec"
        /\ \/ send_post_flag[Obj(t)] = 1 /\ LoadsSame
           \/ send_post_flag[Obj(t)] # 1 /\ LoadsMore(Obj(t), "SEND_PEND")
        /\ \A s \in Slots : send_post_flag'[s] = IF s = Obj(t) THEN 1 ELSE send_post_flag[s]
    BY <1>0, <1>6, Working DEF Pended, TypeOK
  <2> SUFFICES ASSUME NEW s \in Slots PROVE SendOf(s)'
    BY DEF OneSend, SendOf
  <2>2. ~SendTurn(t, s)' /\ Senders(s)' \subseteq Senders(s)
    BY <2>1, OthersTurns DEF SendTurn, Senders
  <2>3. CASE send_post_flag[Obj(t)] = 1 /\ LoadsSame
    BY <1>3, <2>1, <2>2, <2>3, SendLoadKept
  <2>4. CASE send_post_flag[Obj(t)] # 1 /\ LoadsMore(Obj(t), "SEND_PEND")
    <3>1. SendLoad(s)' = IF s = Obj(t) THEN SendLoad(s) + 1 ELSE SendLoad(s)
      BY <1>0, <2>1, <2>4, SendLoadMoves
    <3>2. CASE s # Obj(t)
      BY <1>3, <2>1, <2>2, <3>1, <3>2
    <3>3. CASE s = Obj(t)
      <4>1. Senders(s) = {} /\ SendLoad(s) = 0
        BY <1>2, <2>4, <3>3 DEF SendOf
      <4>2. QED
        BY <2>1, <2>2, <3>1, <3>3, <4>1 DEF SendOf, OneToken
    <3>4. QED
      BY <3>2, <3>3
  <2>5. QED
    BY <2>1, <2>3, <2>4
<1>7. ASSUME NEW q \in Slots, NEW p \in Packets, t \in Workers, Taken(t, q, p) PROVE OneSend'
  <2>1. /\ OnlyMoves(t) /\ own'[t] = q /\ LoadsLess(q, ClassOf(p))
        /\ Load(q, ClassOf(p)) > 0 /\ pc'[t] = Dispatch(q, p)
        /\ send_post_flag' = send_post_flag
    BY <1>7 DEF Taken, fields
  <2> SUFFICES ASSUME NEW s \in Slots PROVE SendOf(s)'
    BY DEF OneSend, SendOf
  <2>2. CASE p \in {"SEND", "SEND0", "SEND_PEND"}
    <3>1. ClassOf(p) \in {"send", "SEND_PEND"}
      BY <2>2 DEF ClassOf
    <3>2. Senders(s)' \subseteq Senders(s) \cup (IF s = q THEN {t} ELSE {})
      BY <2>1, OthersTurns DEF Senders, SendTurn
    <3>3. SendLoad(q) > 0 /\ SendLoad(s)' = IF s = q THEN SendLoad(s) - 1 ELSE SendLoad(s)
      BY <1>0, <2>1, <3>1, SendLoadMoves
    <3>4. CASE s = q
      <4>1. OneToken(Senders(s)', SendLoad(s)')
        BY <1>2, <3>2, <3>3, <3>4, TokenTaken DEF SendOf
      <4>2. QED
        BY <1>2, <2>1, <3>3, <3>4, <4>1 DEF SendOf
    <3>5. CASE s # q
      BY <1>3, <2>1, <3>3, <3>5 DEF SendTurn
    <3>6. QED
      BY <3>4, <3>5
  <2>3. CASE p \notin {"SEND", "SEND0", "SEND_PEND"}
    <3>1. ClassOf(p) \in Classes \ {"send", "SEND_PEND"}
      BY <2>3 DEF ClassOf, Packets, Classes, IoOps, Requests
    <3>2. pc'[t] \in {"frame", "rel_leave", "cancel", "disc_xchg"}
      BY <2>1, <2>3 DEF Dispatch
    <3>3. ~SendTurn(t, s)' /\ SendLoad(s)' = SendLoad(s)
      BY <2>1, <3>1, <3>2, SendLoadKept DEF SendTurn
    <3>4. QED
      BY <1>3, <2>1, <3>3
  <2>4. QED
    BY <2>2, <2>3
<1>8. CASE \/ RecvPosted(t) \/ Disconnected(t) \/ Cancelled(t) \/ Closed(t) \/ Announced(t)
           \/ \E p \in Slots : t = Acceptor /\ Popped(p)
  <2>1. OnlyMoves(t) /\ send_post_flag' = send_post_flag
    BY <1>8 DEF RecvPosted, Disconnected, Cancelled, Closed, Step, Announced, Popped, fields
  <2>2. \A s \in Slots : ~SendTurn(t, s)'
    BY <1>8, HomeOf DEF RecvPosted, Disconnected, Cancelled, Leaves, Closed, Step, Announced,
                        Answer, Returns, Popped, SendTurn
  <2>3. (t = Acceptor /\ \E p \in Slots : Popped(p)) \/ (own[t] \in Slots /\ Obj(t) \in Slots)
    BY <1>0, <1>8, Working DEF RecvPosted, Disconnected, Cancelled, Closed, Step, Announced
  <2>4. \A s \in Slots : SendLoad(s)' = SendLoad(s)
    <3>1. \/ LoadsSame
          \/ \E q \in Slots, k \in Classes \ {"send", "SEND_PEND"} : LoadsMore(q, k)
      BY <1>8, <2>3 DEF RecvPosted, Disconnected, Cancelled, Closed, Step, Announced, Popped,
                        Classes, IoOps, Requests
    <3>2. QED
      BY <3>1, SendLoadKept
  <2>5. QED
    BY <1>3, <2>1, <2>2, <2>4 DEF OneSend, SendOf
<1>9. CASE \/ t = Acceptor /\ AcceptOpen /\ Step(t, "acc_count")
           \/ t = Acceptor /\ AcceptJoin /\ \E l \in {"crash", "recv_check"} : Step(t, l)
           \/ Enqueue(t) /\ \E l \in {"pend_check", "disc_xchg"} : Step(t, l)
           \/ ReleaseLeave(t) /\ \E l \in {"crash", "rel_clear"} : Step(t, l)
           \/ ReleaseClear(t) /\ Step(t, "rel_push")
           \/ ReleasePush(t) /\ Step(t, "rel_count")
  <2>1. OnlyMoves(t) /\ send_post_flag' = send_post_flag /\ LoadsSame
        /\ pc'[t] \notin {"try_clear", "sp_size", "sp_clear"}
    BY <1>9 DEF Step, AcceptOpen, AcceptJoin, Enqueue, ReleaseLeave, ReleaseClear,
                ReleasePush, session
  <2>2. \A s \in Slots : ~SendTurn(t, s)' /\ SendLoad(s)' = SendLoad(s)
    BY <2>1, SendLoadKept DEF SendTurn
  <2>3. QED
    BY <1>3, <2>1, <2>2 DEF OneSend, SendOf
<1>10. CASE t = Acceptor /\ AcceptInit /\ Step(t, "acc_open")
  <2>1. /\ OnlyMoves(t) /\ LoadsSame /\ pc[t] = "acc_init" /\ pc'[t] = "acc_open"
        /\ \A s \in Slots : s # own[t] => send_post_flag'[s] = send_post_flag[s]
    BY <1>0, <1>10 DEF AcceptInit, Step, TypeOK
  <2>2. own[t] \in Slots /\ Accepting(own[t])
    BY <1>0, <1>10, <2>1, Working DEF Accepting
  <2> SUFFICES ASSUME NEW s \in Slots PROVE SendOf(s)'
    BY DEF OneSend, SendOf
  <2>3. ~SendTurn(t, s)' /\ SendLoad(s)' = SendLoad(s) /\ Senders(s)' \subseteq Senders(s)
    BY <2>1, SendLoadKept, OthersTurns DEF SendTurn, Senders
  <2>4. CASE s = own[t]
    <3>1. Senders(s) = {} /\ SendLoad(s) = 0
      BY <1>0, <2>2, <2>4, ClosedIdle, FreeIsClosed
    <3>2. QED
      BY <2>3, <3>1 DEF SendOf, OneToken
  <2>5. CASE s # own[t]
    BY <1>3, <2>1, <2>3, <2>5
  <2>6. QED
    BY <2>4, <2>5
<1>11. CASE \/ TryClear(t) /\ Step(t, "try_size")
            \/ SendClear(t) /\ Step(t, "pend_check")
  <2>1. /\ OnlyMoves(t) /\ LoadsSame /\ pc[t] \in {"try_clear", "sp_clear"}
        /\ pc'[t] \in {"try_size", "pend_check"} /\ own[t] \in Slots
        /\ \A s \in Slots : s # own[t] => send_post_flag'[s] = send_post_flag[s]
    BY <1>0, <1>11, Working DEF TryClear, SendClear, Step, TypeOK
  <2> SUFFICES ASSUME NEW s \in Slots PROVE SendOf(s)'
    BY DEF OneSend, SendOf
  <2>2. ~SendTurn(t, s)' /\ SendLoad(s)' = SendLoad(s) /\ Senders(s)' \subseteq Senders(s) \ {t}
    BY <2>1, SendLoadKept, OthersTurns DEF SendTurn, Senders
  <2>3. CASE s = own[t]
    <3>1. t \in Senders(s)
      BY <2>1, <2>3 DEF Senders, SendTurn
    <3>2. Senders(s)' = {} /\ SendLoad(s) = 0
      BY <1>2, <2>2, <3>1 DEF SendOf, OneToken
    <3>3. QED
      BY <2>2, <3>2 DEF SendOf, OneToken
  <2>4. CASE s # own[t]
    BY <1>3, <2>1, <2>2, <2>4
  <2>5. QED
    BY <2>3, <2>4
<1>12. CASE SendExchange(t) /\ \E l \in {"dec", "sp_size"} : Step(t, l)
  <2>1. /\ OnlyMoves(t) /\ LoadsSame /\ own[t] \in Slots /\ own'[t] = own[t]
        /\ \A s \in Slots : send_post_flag'[s] = IF s = own[t] THEN 1 ELSE send_post_flag[s]
    BY <1>0, <1>12, Working DEF SendExchange, Step, Stays, TypeOK
  <2>2. send_post_flag[own[t]] = 1 => pc'[t] = "dec"
    BY <1>0, <1>12 DEF SendExchange, Goto, TypeOK
  <2> SUFFICES ASSUME NEW s \in Slots PROVE SendOf(s)'
    BY DEF OneSend, SendOf
  <2>3. SendLoad(s)' = SendLoad(s) /\ Senders(s)' \subseteq Senders(s) \cup {t}
    BY <2>1, SendLoadKept, OthersTurns DEF Senders
  <2>4. CASE s # own[t]
    BY <1>3, <2>1, <2>3, <2>4 DEF SendTurn
  <2>5. CASE s = own[t] /\ send_post_flag[s] = 1
    <3>1. ~SendTurn(t, s)' /\ send_post_flag'[s] = send_post_flag[s]
      BY <2>1, <2>2, <2>5 DEF SendTurn
    <3>2. QED
      BY <1>3, <2>1, <2>3, <3>1
  <2>6. CASE s = own[t] /\ send_post_flag[s] # 1
    <3>1. Senders(s) = {} /\ SendLoad(s) = 0
      BY <1>2, <2>6 DEF SendOf
    <3>2. QED
      BY <2>1, <2>3, <2>6, <3>1 DEF SendOf, OneToken
  <2>7. QED
    BY <2>4, <2>5, <2>6
<1>13. CASE Loud(t)
  <2>1. CASE \/ \E s \in Slots : t = Acceptor /\ Popped(s)
             \/ t = Acceptor /\ AcceptInit /\ Step(t, "acc_open")
             \/ t = Acceptor /\ AcceptOpen /\ Step(t, "acc_count")
             \/ t = Acceptor /\ AcceptJoin /\ \E l \in {"crash", "recv_check"} : Step(t, l)
    BY <1>8, <1>9, <1>10, <2>1
  <2>2. CASE \/ RecvPosted(t) \/ SendPosted(t) \/ Pended(t) \/ Disconnected(t) \/ Cancelled(t)
             \/ Closed(t) \/ Announced(t)
             \/ \E s \in Slots, p \in Packets : t \in Workers /\ Taken(t, s, p)
    BY <1>5, <1>6, <1>7, <1>8, <2>2
  <2>3. CASE \/ TryClear(t) /\ Step(t, "try_size")
             \/ SendExchange(t) /\ \E l \in {"dec", "sp_size"} : Step(t, l)
             \/ SendClear(t) /\ Step(t, "pend_check")
             \/ Enqueue(t) /\ \E l \in {"pend_check", "disc_xchg"} : Step(t, l)
             \/ ReleaseLeave(t) /\ \E l \in {"crash", "rel_clear"} : Step(t, l)
             \/ ReleaseClear(t) /\ Step(t, "rel_push")
             \/ ReleasePush(t) /\ Step(t, "rel_count")
    BY <1>9, <1>11, <1>12, <2>3
  <2>4. QED
    BY <1>13, <2>1, <2>2, <2>3 DEF Loud
<1>14. QED
  BY <1>1, <1>4, <1>13

\* What OneCancel says of one slot.
CancelOf(s) == /\ OneToken(Cancellers(s), Load(s, "CANCEL_IO"))
               /\ Load(s, "CANCEL_IO") > 0 \/ Cancellers(s) # {} => disconnect[s] = 1

\* One cancellation at a time, of a disconnected session.
LEMMA NextCancel ==
  ASSUME SlotInv, SlotInv', OneCancel, [Next]_vars
  PROVE  OneCancel'
<1> USE Roles
<1>0. TypeOK /\ Control /\ CountIsReferences /\ Refusals /\ OnePhase /\ OpenWhileUsed
  BY DEF SlotInv
<1>1. PICK t \in Threads : \/ Quiet(t) /\ (Walk(t) \/ Fault(t) \/ Answer(t) \/ Request(t)
                                           \/ Look(t))
                           \/ Loud(t)
  BY <1>0, StepKinds DEF Kinds
<1>2. /\ "CANCEL_IO" \in Classes
      /\ \A s \in Slots : Load(s, "CANCEL_IO") \in Nat /\ CancelOf(s)
  BY <1>0, LoadType DEF OneCancel, CancelOf, Classes, Requests
<1>3. ASSUME OnlyMoves(t), NEW s \in Slots, CancelTurn(t, s)' => CancelTurn(t, s),
             Load(s, "CANCEL_IO")' = Load(s, "CANCEL_IO"), disconnect'[s] = disconnect[s]
      PROVE  CancelOf(s)'
  <2>1. Cancellers(s)' \subseteq Cancellers(s)
    BY <1>3, OthersTurns DEF Cancellers
  <2>2. QED
    BY <1>2, <1>3, <2>1, TokenKept DEF CancelOf
<1>4. CASE Quiet(t) /\ (Walk(t) \/ Fault(t) \/ Answer(t) \/ Request(t) \/ Look(t))
  <2>1. \A s \in Slots : CancelTurn(t, s)' => CancelTurn(t, s)
    <3>1. CASE Walk(t)
      BY <3>1 DEF Walk, Stays, CancelTurn, Obj
    <3>2. CASE Fault(t) \/ Answer(t) \/ Request(t) \/ Look(t)
      BY <3>2, HomeOf DEF Fault, Answer, Returns, Request, Look, CancelTurn
    <3>3. QED
      BY <1>4, <3>1, <3>2
  <2>2. QED
    BY <1>2, <1>3, <1>4, <2>1 DEF Quiet, LoadsSame, fields, OneCancel, CancelOf
<1>5. CASE Cancelled(t)
  <2>1. /\ OnlyMoves(t) /\ Obj(t) \in Slots /\ pc[t] = "disc_cancel" /\ pc'[t] # "disc_cancel"
        /\ disconnect' = disconnect /\ LoadsMore(Obj(t), "CANCEL_IO")
    BY <1>0, <1>5, Working DEF Cancelled, Leaves, fields
  <2> SUFFICES ASSUME NEW s \in Slots PROVE CancelOf(s)'
    BY DEF OneCancel, CancelOf
  <2>2. ~CancelTurn(t, s)'
    BY <2>1 DEF CancelTurn
  <2>3. CASE s # Obj(t)
    BY <1>2, <1>3, <2>1, <2>2, <2>3 DEF LoadsMore
  <2>4. CASE s = Obj(t)
    <3>1. t \in Cancellers(s) /\ Cancellers(s)' \subseteq Cancellers(s) \ {t}
      BY <2>1, <2>2, <2>4, OthersTurns DEF Cancellers, CancelTurn
    <3>2. OneToken(Cancellers(s)', Load(s, "CANCEL_IO")')
      BY <1>2, <2>1, <2>4, <3>1, TokenPosted DEF CancelOf, LoadsMore
    <3>3. QED
      BY <1>2, <2>1, <3>1, <3>2 DEF CancelOf
  <2>5. QED
    BY <2>3, <2>4
<1>6. CASE Disconnected(t)
  <2>1. /\ OnlyMoves(t) /\ Obj(t) \in Slots /\ LoadsSame /\ pc[t] = "disc_xchg"
        /\ \A s \in Slots : disconnect'[s] = IF s = Obj(t) THEN 1 ELSE disconnect[s]
        /\ \/ disconnect[Obj(t)] = 0 /\ Obj(t)' = Obj(t)
           \/ disconnect[Obj(t)] # 0 /\ pc'[t] # "disc_cancel"
    BY <1>0, <1>6, Working DEF Disconnected, Leaves, Stays, Obj, TypeOK
  <2> SUFFICES ASSUME NEW s \in Slots PROVE CancelOf(s)'
    BY DEF OneCancel, CancelOf
  <2>2. Load(s, "CANCEL_IO")' = Load(s, "CANCEL_IO")
    BY <1>2, <2>1 DEF LoadsSame
  <2>3. CASE s # Obj(t)
    <3>1. ~CancelTurn(t, s)'
      BY <2>1, <2>3 DEF CancelTurn
    <3>2. QED
      BY <1>3, <2>1, <2>2, <2>3, <3>1
  <2>4. CASE s = Obj(t) /\ disconnect[s] = 0
    <3>1. Cancellers(s) = {} /\ Load(s, "CANCEL_IO") = 0
      BY <1>2, <2>4 DEF CancelOf
    <3>2. Cancellers(s)' \subseteq {t}
      BY <2>1, <3>1, OthersTurns DEF Cancellers
    <3>3. QED
      BY <2>1, <2>2, <2>4, <3>1, <3>2 DEF CancelOf, OneToken
  <2>5. CASE s = Obj(t) /\ disconnect[s] # 0
    <3>1. ~CancelTurn(t, s)' /\ disconnect'[s] = disconnect[s]
      BY <1>0, <2>1, <2>5 DEF CancelTurn, TypeOK
    <3>2. QED
      BY <1>3, <2>1, <2>2, <3>1
  <2>6. QED
    BY <2>3, <2>4, <2>5
<1>7. ASSUME NEW q \in Slots, NEW p \in Packets, t \in Workers, Taken(t, q, p) PROVE OneCancel'
  <2>1. /\ OnlyMoves(t) /\ LoadsLess(q, ClassOf(p)) /\ Load(q, ClassOf(p)) > 0
        /\ disconnect' = disconnect
        /\ pc'[t] \in {"try_clear", "rel_leave", "cancel", "frame", "disc_xchg"}
    BY <1>7 DEF Taken, fields, Dispatch
  <2> SUFFICES ASSUME NEW s \in Slots PROVE CancelOf(s)'
    BY DEF OneCancel, CancelOf
  <2>2. ~CancelTurn(t, s)'
    BY <2>1 DEF CancelTurn
  <2>3. CASE s = q /\ ClassOf(p) = "CANCEL_IO"
    <3>1. Load(s, "CANCEL_IO")' = Load(s, "CANCEL_IO") - 1 /\ Load(s, "CANCEL_IO") > 0
      BY <1>2, <2>1, <2>3 DEF LoadsLess
    <3>2. Cancellers(s)' \subseteq Cancellers(s)
      BY <2>1, <2>2, OthersTurns DEF Cancellers
    <3>3. QED
      BY <1>2, <2>1, <3>1, <3>2, TokenTaken DEF CancelOf
  <2>4. CASE ~(s = q /\ ClassOf(p) = "CANCEL_IO")
    BY <1>2, <1>3, <2>1, <2>2, <2>4 DEF LoadsLess
  <2>5. QED
    BY <2>3, <2>4
<1>8. CASE t = Acceptor /\ AcceptInit /\ Step(t, "acc_open")
  <2>1. /\ OnlyMoves(t) /\ LoadsSame /\ pc[t] = "acc_init" /\ pc'[t] = "acc_open"
        /\ \A s \in Slots : s # own[t] => disconnect'[s] = disconnect[s]
    BY <1>0, <1>8 DEF AcceptInit, Step, TypeOK
  <2>2. own[t] \in Slots /\ Accepting(own[t])
    BY <1>0, <1>8, <2>1, Working DEF Accepting
  <2> SUFFICES ASSUME NEW s \in Slots PROVE CancelOf(s)'
    BY DEF OneCancel, CancelOf
  <2>3. /\ ~CancelTurn(t, s)' /\ Load(s, "CANCEL_IO")' = Load(s, "CANCEL_IO")
        /\ Cancellers(s)' \subseteq Cancellers(s)
    BY <1>2, <2>1, OthersTurns DEF CancelTurn, Cancellers, LoadsSame
  <2>4. CASE s = own[t]
    <3>1. Cancellers(s) = {} /\ Load(s, "CANCEL_IO") = 0
      BY <1>0, <2>2, <2>4, ClosedIdle, FreeIsClosed
    <3>2. QED
      BY <2>3, <3>1 DEF CancelOf, OneToken
  <2>5. CASE s # own[t]
    BY <1>3, <2>1, <2>3, <2>5
  <2>6. QED
    BY <2>4, <2>5
<1>9. CASE \/ RecvPosted(t) \/ SendPosted(t) \/ Pended(t) \/ Closed(t) \/ Announced(t)
           \/ \E p \in Slots : t = Acceptor /\ Popped(p)
  <2>1. OnlyMoves(t) /\ disconnect' = disconnect
    BY <1>9 DEF RecvPosted, SendPosted, Pended, Closed, Step, Announced, Popped, fields
  <2>2. \A s \in Slots : ~CancelTurn(t, s)'
    BY <1>9, HomeOf DEF RecvPosted, SendPosted, Pended, Closed, Step, Announced, Answer, Returns,
                        Popped, CancelTurn
  <2>3. \A s \in Slots : Load(s, "CANCEL_IO")' = Load(s, "CANCEL_IO")
    <3>1. LoadsSame \/ \E q, k : k # "CANCEL_IO" /\ LoadsMore(q, k)
      BY <1>9 DEF RecvPosted, SendPosted, Pended, Closed, Step, Announced, Popped
    <3>2. QED
      BY <1>2, <3>1 DEF LoadsSame, LoadsMore
  <2>4. QED
    BY <1>3, <2>1, <2>2, <2>3 DEF OneCancel, CancelOf
<1>10. CASE \/ t = Acceptor /\ AcceptOpen /\ Step(t, "acc_count")
            \/ t = Acceptor /\ AcceptJoin /\ \E l \in {"crash", "recv_check"} : Step(t, l)
            \/ TryClear(t) /\ Step(t, "try_size")
            \/ SendExchange(t) /\ \E l \in {"dec", "sp_size"} : Step(t, l)
            \/ SendClear(t) /\ Step(t, "pend_check")
            \/ Enqueue(t) /\ \E l \in {"pend_check", "disc_xchg"} : Step(t, l)
            \/ ReleaseLeave(t) /\ \E l \in {"crash", "rel_clear"} : Step(t, l)
            \/ ReleaseClear(t) /\ Step(t, "rel_push")
            \/ ReleasePush(t) /\ Step(t, "rel_count")
  <2>1. OnlyMoves(t) /\ disconnect' = disconnect /\ LoadsSame /\ pc'[t] # "disc_cancel"
    BY <1>10 DEF Step, AcceptOpen, AcceptJoin, TryClear, SendExchange, SendClear, Enqueue,
                 ReleaseLeave, ReleaseClear, ReleasePush, session
  <2>2. QED
    BY <1>2, <1>3, <2>1 DEF LoadsSame, CancelTurn, OneCancel, CancelOf
<1>11. QED
  BY <1>1, <1>4, <1>5, <1>6, <1>7, <1>8, <1>9, <1>10 DEF Loud

\* The slots, and one holder of each turn.
TurnInv == SlotInv /\ OneReceive /\ OneSend /\ OneCancel

\* Nobody has a turn at the start.
LEMMA InitTurns == Init => TurnInv
<1> SUFFICES ASSUME Init PROVE TurnInv
  OBVIOUS
<1>1. SlotInv
  BY InitSlots
<1>2. \A s \in Slots : release_flag[s] = 1 /\ ~Accepting(s)
  BY Roles, HomeOf DEF Init, Accepting
<1>3. \A s \in Slots : /\ Receivers(s) = {} /\ Senders(s) = {} /\ Cancellers(s) = {}
                       /\ Load(s, "recv") = 0 /\ SendLoad(s) = 0 /\ Load(s, "CANCEL_IO") = 0
  BY <1>1, <1>2, ClosedIdle DEF SlotInv
<1>4. QED
  BY <1>1, <1>3 DEF TurnInv, OneReceive, OneSend, OneCancel, OneToken

\* Every step keeps the turns.
LEMMA NextTurns == TurnInv /\ [Next]_vars => TurnInv'
BY NextSlots, NextReceive, NextSend, NextCancel DEF TurnInv

\* In every behaviour a session has one receiver, one sender and one canceller.
LEMMA TurnsAlways == Spec => []TurnInv
BY InitTurns, NextTurns, PTL DEF Spec

\* Each OVERLAPPED and each kind of request of a Session is in use once at most:
\* received bytes are handled in order and by one worker at a time.
THEOREM OneIoAtATime == Spec => []OneIoOutstanding
<1>1. TurnInv => OneIoOutstanding
  <2> SUFFICES ASSUME TurnInv, NEW s \in Slots
               PROVE  /\ Outstanding(s, "recv")
                           + Cardinality({t \in Threads : InRecv(t, s)}) <= 1
                      /\ Outstanding(s, "send") <= 1
                      /\ \A p \in Requests : iocp[s][p] <= 1
    BY DEF OneIoOutstanding
  <2>1. SlotInv /\ TypeOK
    BY DEF TurnInv, SlotInv
  <2>2. \A k \in Classes : Load(s, k) \in Nat
    BY <2>1, LoadType
  <2>3. /\ Load(s, "recv") = Outstanding(s, "recv") /\ Load(s, "send") = Outstanding(s, "send")
        /\ \A p \in Requests : Load(s, p) = iocp[s][p]
    BY DEF Load, IoOps, Requests
  <2>4. OneToken(Receivers(s), Load(s, "recv"))
    BY DEF TurnInv, OneReceive
  <2>5. {t \in Threads : InRecv(t, s)} \subseteq Receivers(s)
    BY DEF Receivers, RecvTurn, RecvTurns, InRecv
  <2>6. Outstanding(s, "recv") + Cardinality({t \in Threads : InRecv(t, s)}) <= 1
    <3>1. CASE {t \in Threads : InRecv(t, s)} = {}
      <4>1. Cardinality({t \in Threads : InRecv(t, s)}) = 0
        BY <3>1, FS_EmptySet
      <4>2. QED
        BY <2>2, <2>3, <2>4, <4>1 DEF OneToken, Classes, IoOps
    <3>2. CASE {t \in Threads : InRecv(t, s)} # {}
      <4>1. PICK t \in Threads : {u \in Threads : InRecv(u, s)} = {t}
        BY <2>4, <2>5, <3>2 DEF OneToken
      <4>2. Cardinality({u \in Threads : InRecv(u, s)}) = 1
        BY <4>1, FS_Singleton
      <4>3. Load(s, "recv") = 0
        BY <2>4, <2>5, <3>2 DEF OneToken
      <4>4. QED
        BY <2>3, <4>2, <4>3
    <3>3. QED
      BY <3>1, <3>2
  <2>7. Outstanding(s, "send") <= 1 /\ iocp[s]["SEND_PEND"] <= 1
    <3>1. SendLoad(s) <= 1
      BY DEF TurnInv, OneSend, OneToken
    <3>2. QED
      BY <2>2, <2>3, <3>1 DEF SendLoad, Classes, IoOps, Requests
  <2>8. iocp[s]["CANCEL_IO"] <= 1
    BY <2>3 DEF TurnInv, OneCancel, OneToken, Requests
  <2>9. iocp[s]["RELEASE_PEND"] <= 1
    BY <2>1, <2>3 DEF SlotInv, OnePhase, PhaseOf, OneToken, Requests
  <2>10. QED
    BY <2>6, <2>7, <2>8, <2>9 DEF Requests
<1>2. QED
  BY <1>1, TurnsAlways, PTL

-----------------------------------------------------------------------------
(* The sessions the application knows *)

\* The session in slot s, as the application names it.
Current(s) == [slot |-> s, id |-> session_id[s]]

\* Between AcceptOpen and OnClientJoin s is open and the application knows nothing
\* of it; between the compare-exchange and OnClientLeave s is closed and it does.
Joining(s)   == pc[Acceptor] \in {"acc_count", "acc_join"} /\ own[Acceptor] = s
Leaver(t, s) == \/ pc[t] = "rp_post" /\ Obj(t) = s
                \/ pc[t] = "rel_leave" /\ own[t] = s
Leaving(s)   == Load(s, "RELEASE_PEND") > 0 \/ \E t \in Threads : Leaver(t, s)
Present(s)   == (release_flag[s] = 0 /\ ~Joining(s)) \/ Leaving(s)

\* The application has exactly the sessions that are present.
UsersArePresent ==
    /\ \A s \in Slots : Current(s) \in users <=> Present(s)
    /\ \A id \in users : id = Current(id.slot)

\* A session being released is closed, and no other thread releases it.
LEMMA LeavingIsClosed ==
  ASSUME SlotInv, NEW s \in Slots
  PROVE  /\ Leaving(s) => release_flag[s] = 1 /\ ~Pushed(s) /\ ~Accepting(s)
         /\ \A t \in Threads : Releaser(t, s) =>
              /\ ~(Load(s, "RELEASE_PEND") > 0)
              /\ \A u \in Threads : Leaver(u, s) => u = t
         /\ Joining(s) => release_flag[s] = 0 /\ ~Present(s)
         /\ Accepting(s) => ~Present(s)
<1>1. PhaseOf(s) /\ OpenWhileUsed
  BY DEF SlotInv, OnePhase
<1>2. \A t \in Threads : Leaver(t, s) => Releaser(t, s)
  BY DEF Leaver, Releaser
<1>3. Leaving(s) => release_flag[s] = 1 /\ ~Pushed(s) /\ ~Accepting(s)
  BY <1>1, <1>2 DEF Leaving, PhaseOf, Releasing, Releasers
<1>4. ASSUME NEW t \in Threads, Releaser(t, s)
      PROVE  /\ ~(Load(s, "RELEASE_PEND") > 0)
             /\ \A u \in Threads : Leaver(u, s) => u = t
  BY <1>1, <1>2, <1>4 DEF PhaseOf, OneToken, Releasers
<1>5. Joining(s) => release_flag[s] = 0
  BY <1>1, Roles DEF Joining, OpenWhileUsed, UsesOwn, LiveLocations
<1>6. Accepting(s) => release_flag[s] = 1 /\ ~Joining(s)
  BY <1>1 DEF PhaseOf, Accepting, Joining
<1>7. QED
  BY <1>3, <1>4, <1>5, <1>6 DEF Present

\* A step that calls neither OnClientJoin nor OnClientLeave.
LEMMA UsersKept ==
  ASSUME UsersArePresent, users' = users, \A s \in Slots : Present(s)' <=> Present(s),
         \A s \in Slots : Present(s) => session_id'[s] = session_id[s], TypeOK
  PROVE  UsersArePresent'
<1>1. \A id \in users : id.slot \in Slots
  BY DEF TypeOK, ApiIds
<1>2. \A id \in users : id = Current(id.slot)'
  BY <1>1 DEF UsersArePresent, Current
<1>3. ASSUME NEW s \in Slots PROVE Current(s)' \in users <=> Present(s)
  <2>1. CASE Present(s)
    BY <2>1 DEF UsersArePresent, Current
  <2>2. ASSUME Current(s)' \in users PROVE Present(s)
    <3>1. Current(s)' = Current(Current(s)'.slot) /\ Current(s)'.slot = s
      BY <2>2 DEF UsersArePresent, Current
    <3>2. QED
      BY <2>2, <3>1 DEF UsersArePresent
  <2>3. QED
    BY <2>1, <2>2
<1>4. QED
  BY <1>2, <1>3 DEF UsersArePresent

\* A step of a thread that is not joining or leaving anything.
LEMMA PresentKept ==
  ASSUME NEW t \in Threads, OnlyMoves(t), release_flag' = release_flag,
         \A s \in Slots : Load(s, "RELEASE_PEND")' = Load(s, "RELEASE_PEND"),
         \A s \in Slots : Leaver(t, s)' <=> Leaver(t, s),
         \A s \in Slots : Joining(s)' <=> Joining(s)
  PROVE  \A s \in Slots : Present(s)' <=> Present(s)
<1> SUFFICES ASSUME NEW s \in Slots PROVE Present(s)' <=> Present(s)
  OBVIOUS
<1>1. \A u \in Threads : Leaver(u, s)' <=> Leaver(u, s)
  BY OthersStay DEF Leaver
<1>2. Leaving(s)' <=> Leaving(s)
  BY <1>1 DEF Leaving
<1>3. QED
  BY <1>2 DEF Present

\* Nobody crashes: the application is told of each session once, of its end once,
\* and of what it received in between.
LEMMA NextSound ==
  ASSUME TurnInv, NoCrash, UsersArePresent,
         \A s \in Slots : Leaving(s) => disconnect[s] = 1, [Next]_vars
  PROVE  NoCrash'
<1> USE Roles
<1>0. /\ TypeOK /\ Control /\ CountIsReferences /\ Refusals /\ OpenWhileUsed
      /\ SlotInv /\ OneReceive
  BY DEF SlotInv, TurnInv
<1>1. PICK t \in Threads : \/ Quiet(t) /\ (Walk(t) \/ Fault(t) \/ Answer(t) \/ Request(t)
                                           \/ Look(t))
                           \/ Loud(t)
  BY <1>0, StepKinds DEF Kinds
<1>2. OnlyMoves(t) /\ pc'[t] # "crash"
  <2>1. CASE Quiet(t) /\ Walk(t)
    <3> SUFFICES ASSUME pc'[t] = "crash" PROVE FALSE
      BY <2>1 DEF Quiet
    <3>1. pc[t] = "frame" /\ Current(own[t]) \notin users
      BY <2>1 DEF Walk, Current, NoCrash
    <3>2. own[t] \in Slots /\ release_flag[own[t]] = 0
      BY <1>0, <3>1, Working DEF OpenWhileUsed, UsesOwn, LiveLocations
    <3>3. ~Joining(own[t])
      <4>1. RecvTurn(t, own[t])
        BY <3>1 DEF RecvTurn, RecvTurns
      <4>2. Joining(own[t]) => RecvTurn(Acceptor, own[t])
        BY DEF Joining, RecvTurn, RecvTurns
      <4>3. QED
        BY <1>0, <3>1, <3>2, <4>1, <4>2 DEF OneReceive, OneToken, Receivers, Joining
    <3>4. QED
      BY <3>1, <3>2, <3>3 DEF UsersArePresent, Present
  <2>2. CASE Quiet(t) /\ (Fault(t) \/ Answer(t) \/ Request(t) \/ Look(t))
    BY <2>2, HomeOf DEF Quiet, Fault, Answer, Returns, Request, Look
  <2>3. CASE t = Acceptor /\ AcceptJoin /\ \E l \in {"crash", "recv_check"} : Step(t, l)
    <3>1. OnlyMoves(t) /\ pc[t] = "acc_join"
      BY <2>3 DEF AcceptJoin, Step
    <3>2. own[t] \in Slots /\ Joining(own[t])
      BY <1>0, <2>3, <3>1, Working DEF Joining
    <3>3. Current(own[t]) \notin users
      BY <1>0, <3>2, LeavingIsClosed DEF UsersArePresent
    <3>4. QED
      BY <1>0, <2>3, <3>1, <3>3 DEF AcceptJoin, Goto, Current, TypeOK
  <2>4. CASE ReleaseLeave(t) /\ \E l \in {"crash", "rel_clear"} : Step(t, l)
    <3>1. OnlyMoves(t) /\ pc[t] = "rel_leave"
      BY <2>4 DEF ReleaseLeave, Step
    <3>2. own[t] \in Slots /\ Leaving(own[t])
      BY <1>0, <3>1, Working DEF Leaving, Leaver
    <3>3. Current(own[t]) \in users /\ disconnect[own[t]] = 1
      BY <3>2 DEF UsersArePresent, Present
    <3>4. QED
      BY <1>0, <2>4, <3>1, <3>3 DEF ReleaseLeave, Goto, Current, TypeOK
  <2>5. CASE Loud(t) /\ pc[t] \notin {"acc_join", "rel_leave"}
    BY <2>5, HomeOf DEF Loud, Popped, Step, RecvPosted, SendPosted, Pended, Disconnected,
                Cancelled, Leaves, Closed, Announced, Answer, Returns, Taken, Dispatch, AcceptJoin,
                ReleaseLeave
  <2>6. QED
    BY <1>1, <2>1, <2>2, <2>3, <2>4, <2>5 DEF Loud, Popped, Step, RecvPosted, SendPosted, Pended,
                Disconnected, Cancelled, Closed, Announced, Taken
<1>3. QED
  BY <1>0, <1>2, OthersStay DEF NoCrash

\* The users stay the sessions that are present.
LEMMA NextUsers ==
  ASSUME TurnInv, TurnInv', NoCrash, NoCrash', UsersArePresent, [Next]_vars
  PROVE  UsersArePresent'
<1> USE Roles
<1>0. /\ TypeOK /\ Control /\ CountIsReferences /\ Refusals /\ OpenWhileUsed /\ OnePhase
      /\ SlotInv
  BY DEF SlotInv, TurnInv
<1>1. PICK t \in Threads : \/ Quiet(t) /\ (Walk(t) \/ Fault(t) \/ Answer(t) \/ Request(t)
                                           \/ Look(t))
                           \/ Loud(t)
  BY <1>0, StepKinds DEF Kinds
<1>2. /\ "RELEASE_PEND" \in Classes
      /\ \A s \in Slots : Load(s, "RELEASE_PEND") \in Nat
  BY <1>0, LoadType DEF Classes, Requests
<1>3. ASSUME OnlyMoves(t), release_flag' = release_flag, session_id' = session_id,
             users' = users,
             \A s \in Slots : Load(s, "RELEASE_PEND")' = Load(s, "RELEASE_PEND"),
             \A s \in Slots : Leaver(t, s)' <=> Leaver(t, s),
             \A s \in Slots : Joining(s)' <=> Joining(s)
      PROVE  UsersArePresent'
  BY <1>0, <1>3, PresentKept, UsersKept
<1>4. CASE Quiet(t) /\ Walk(t)
  <2>1. \A s \in Slots : Leaver(t, s)' <=> Leaver(t, s)
    <3>1. Obj(t)' = Obj(t)
      BY <1>4 DEF Walk, Stays, Obj
    <3>2. (pc'[t] = "rp_post" <=> pc[t] = "rp_post") /\ (pc'[t] = "rel_leave" <=> pc[t] = "rel_leave")
      BY <1>4 DEF Walk
    <3>3. QED
      BY <1>4, <3>1, <3>2 DEF Walk, Stays, Leaver
  <2>2. \A s \in Slots : Joining(s)' <=> Joining(s)
    <3>1. own'[t] = own[t] /\ (pc'[t] \in {"acc_count", "acc_join"} <=> pc[t] \in {"acc_count", "acc_join"})
      BY <1>4 DEF Walk, Stays
    <3>2. QED
      BY <1>4, <3>1, OthersStay DEF Quiet, Joining
  <2>3. QED
    BY <1>2, <1>3, <1>4, <2>1, <2>2 DEF Quiet, fields, LoadsSame
<1>5. ASSUME OnlyMoves(t), release_flag' = release_flag, session_id' = session_id,
             users' = users,
             \A s \in Slots : Load(s, "RELEASE_PEND")' = Load(s, "RELEASE_PEND"),
             pc[t] \notin {"rp_post", "rel_leave", "acc_count", "acc_join"},
             pc'[t] \notin {"rp_post", "rel_leave", "acc_count", "acc_join"}
      PROVE  UsersArePresent'
  <2>1. \A s \in Slots : Leaver(t, s)' <=> Leaver(t, s)
    BY <1>5 DEF Leaver
  <2>2. \A s \in Slots : Joining(s)' <=> Joining(s)
    BY <1>5, OthersStay DEF Joining
  <2>3. QED
    BY <1>3, <1>5, <2>1, <2>2
<1>6. CASE Quiet(t) /\ (Fault(t) \/ Request(t) \/ Look(t) \/ Answer(t))
  <2>1. /\ pc[t] \notin {"rp_post", "rel_leave", "acc_count", "acc_join"}
        /\ pc'[t] \notin {"rp_post", "rel_leave", "acc_count", "acc_join"}
    BY <1>6, HomeOf DEF Fault, Request, Look, Answer, Returns
  <2>2. QED
    BY <1>2, <1>5, <1>6, <2>1 DEF Quiet, fields, LoadsSame
<1>7. CASE \/ RecvPosted(t) \/ SendPosted(t) \/ Pended(t) \/ Disconnected(t) \/ Cancelled(t)
           \/ \E s \in Slots : t = Acceptor /\ Popped(s)
           \/ TryClear(t) /\ Step(t, "try_size")
           \/ SendExchange(t) /\ \E l \in {"dec", "sp_size"} : Step(t, l)
           \/ SendClear(t) /\ Step(t, "pend_check")
           \/ Enqueue(t) /\ \E l \in {"pend_check", "disc_xchg"} : Step(t, l)
           \/ ReleasePush(t) /\ Step(t, "rel_count")
  <2>1. /\ OnlyMoves(t) /\ release_flag' = release_flag /\ session_id' = session_id
        /\ users' = users
    BY <1>7 DEF RecvPosted, SendPosted, Pended, Disconnected, Cancelled, Popped, Step,
                TryClear, SendExchange, SendClear, Enqueue, ReleasePush, fields, session, app
  <2>2. /\ pc[t] \notin {"rp_post", "rel_leave", "acc_count", "acc_join"}
        /\ pc'[t] \notin {"rp_post", "rel_leave", "acc_count", "acc_join"}
    BY <1>7 DEF RecvPosted, SendPosted, Pended, Disconnected, Cancelled, Leaves, Popped, Step,
                TryClear, SendExchange, SendClear, Enqueue, ReleasePush
  <2>3. \A s \in Slots : Load(s, "RELEASE_PEND")' = Load(s, "RELEASE_PEND")
    <3>1. LoadsSame \/ \E q, k : k # "RELEASE_PEND" /\ LoadsMore(q, k)
      BY <1>7 DEF RecvPosted, SendPosted, Pended, Disconnected, Cancelled, Popped, Step
    <3>2. QED
      BY <1>2, <3>1 DEF LoadsSame, LoadsMore
  <2>4. QED
    BY <1>5, <2>1, <2>2, <2>3
<1>8. CASE t = Acceptor /\ AcceptInit /\ Step(t, "acc_open")
  <2>1. /\ OnlyMoves(t) /\ release_flag' = release_flag /\ users' = users /\ LoadsSame
        /\ pc[t] = "acc_init" /\ pc'[t] = "acc_open"
        /\ \A s \in Slots : s # own[t] => session_id'[s] = session_id[s]
    BY <1>0, <1>8 DEF AcceptInit, Step, app, TypeOK
  <2>2. \A s \in Slots : Present(s)' <=> Present(s)
    <3>1. \A s \in Slots : (Leaver(t, s)' <=> Leaver(t, s)) /\ (Joining(s)' <=> Joining(s))
      BY <1>8, <2>1 DEF Leaver, Joining
    <3>2. QED
      BY <1>2, <2>1, <3>1, PresentKept DEF LoadsSame
  <2>3. \A s \in Slots : Present(s) => s # own[t]
    BY <1>0, <1>8, <2>1, LeavingIsClosed DEF Accepting
  <2>4. QED
    BY <1>0, <2>1, <2>2, <2>3, UsersKept
<1>9. CASE ReleaseClear(t) /\ Step(t, "rel_push")
  <2>1. /\ OnlyMoves(t) /\ release_flag' = release_flag /\ users' = users /\ LoadsSame
        /\ pc[t] = "rel_clear" /\ pc'[t] = "rel_push"
        /\ \A s \in Slots : s # own[t] => session_id'[s] = session_id[s]
    BY <1>0, <1>9 DEF ReleaseClear, Step, app, TypeOK
  <2>2. \A s \in Slots : Present(s)' <=> Present(s)
    <3>1. \A s \in Slots : (Leaver(t, s)' <=> Leaver(t, s)) /\ (Joining(s)' <=> Joining(s))
      BY <2>1, OthersStay DEF Leaver, Joining
    <3>2. QED
      BY <1>2, <2>1, <3>1, PresentKept DEF LoadsSame
  <2>3. own[t] \in Slots /\ Releaser(t, own[t])
    BY <1>0, <2>1, Working DEF Releaser
  <2>4. ~Present(own[t])
    <3>1. ~Leaver(t, own[t])
      BY <2>1 DEF Leaver
    <3>2. ~Leaving(own[t])
      BY <1>0, <2>3, <3>1, LeavingIsClosed DEF Leaving
    <3>3. release_flag[own[t]] = 1
      BY <1>0, <2>3, FreeIsClosed
    <3>4. QED
      BY <3>2, <3>3 DEF Present
  <2>5. QED
    BY <1>0, <2>1, <2>2, <2>4, UsersKept
<1>10. CASE t = Acceptor /\ AcceptOpen /\ Step(t, "acc_count")
  <2>1. /\ OnlyMoves(t) /\ session_id' = session_id /\ users' = users /\ LoadsSame
        /\ pc[t] = "acc_open" /\ pc'[t] = "acc_count" /\ own'[t] = own[t]
        /\ \A s \in Slots : release_flag'[s] = IF s = own[t] THEN 0 ELSE release_flag[s]
    BY <1>0, <1>10 DEF AcceptOpen, Step, Stays, app, TypeOK
  <2>2. own[t] \in Slots /\ Accepting(own[t])
    BY <1>0, <1>10, <2>1, Working DEF Accepting
  <2>3. ASSUME NEW s \in Slots PROVE Present(s)' <=> Present(s)
    <3>1. Leaving(s)' <=> Leaving(s)
      <4>1. \A u \in Threads : Leaver(u, s)' <=> Leaver(u, s)
        BY <2>1, OthersStay DEF Leaver
      <4>2. QED
        BY <1>2, <2>1, <4>1 DEF Leaving, LoadsSame
    <3>2. Joining(s)' <=> s = own[t]
      BY <1>10, <2>1 DEF Joining
    <3>3. ~Joining(s)
      BY <1>10, <2>1 DEF Joining
    <3>4. s = own[t] => ~Present(s)
      BY <1>0, <2>2, LeavingIsClosed
    <3>5. QED
      BY <2>1, <3>1, <3>2, <3>3, <3>4 DEF Present
  <2>4. QED
    BY <1>0, <2>1, <2>3, UsersKept
<1>11. CASE t = Acceptor /\ AcceptJoin /\ \E l \in {"crash", "recv_check"} : Step(t, l)
  <2>1. /\ OnlyMoves(t) /\ session_id' = session_id /\ release_flag' = release_flag
        /\ LoadsSame /\ pc[t] = "acc_join" /\ pc'[t] \in {"crash", "recv_check"}
        /\ own'[t] = own[t] /\ users' = users \cup {Current(own[t])}
    BY <1>11 DEF AcceptJoin, Step, Stays, session, Current
  <2>2. own[t] \in Slots /\ Joining(own[t])
    BY <1>0, <1>11, <2>1, Working DEF Joining
  <2>3. ASSUME NEW s \in Slots PROVE Present(s)' <=> Present(s) \/ s = own[t]
    <3>1. Leaving(s)' <=> Leaving(s)
      <4>1. \A u \in Threads : Leaver(u, s)' <=> Leaver(u, s)
        BY <2>1, OthersStay DEF Leaver
      <4>2. QED
        BY <1>2, <2>1, <4>1 DEF Leaving, LoadsSame
    <3>2. ~Joining(s)' /\ (Joining(s) <=> s = own[t])
      BY <1>11, <2>1 DEF Joining
    <3>3. release_flag[own[t]] = 0
      BY <1>0, <2>2, LeavingIsClosed
    <3>4. QED
      BY <2>1, <3>1, <3>2, <3>3 DEF Present
  <2>4. ASSUME NEW s \in Slots PROVE Current(s)' \in users' <=> Present(s)'
    BY <2>1, <2>3 DEF UsersArePresent, Current
  <2>5. \A id \in users' : id = Current(id.slot)'
    BY <2>1 DEF UsersArePresent, Current
  <2>6. QED
    BY <2>4, <2>5 DEF UsersArePresent
<1>12. CASE Closed(t)
  <2>1. /\ OnlyMoves(t) /\ session_id' = session_id /\ users' = users /\ LoadsSame
        /\ pc[t] = "rp_cas" /\ pc'[t] = "rp_post" /\ Stays(t)
        /\ io_count[Obj(t)] = 0 /\ release_flag[Obj(t)] = 0 /\ Obj(t) \in Slots
        /\ \A s \in Slots : release_flag'[s] = IF s = Obj(t) THEN 1 ELSE release_flag[s]
    BY <1>0, <1>12, Working DEF Closed, Step, TypeOK
  <2>2. ASSUME NEW s \in Slots PROVE Present(s)' <=> Present(s)
    <3>1. Joining(s)' <=> Joining(s)
      BY <2>1, OthersStay DEF Joining
    <3>2. Leaving(s)' <=> Leaving(s) \/ s = Obj(t)
      <4>1. \A u \in Threads \ {t} : Leaver(u, s)' <=> Leaver(u, s)
        BY <2>1, OthersStay DEF Leaver
      <4>2. (Leaver(t, s)' <=> s = Obj(t)) /\ ~Leaver(t, s)
        BY <2>1 DEF Leaver, Obj, Stays
      <4>3. QED
        BY <1>2, <2>1, <4>1, <4>2 DEF Leaving, LoadsSame
    <3>3. s = Obj(t) => ~Joining(s)
      BY <1>0, <2>1, UsersCounted DEF Joining, UsesOwn, LiveLocations
    <3>4. QED
      BY <2>1, <3>1, <3>2, <3>3 DEF Present
  <2>3. QED
    BY <1>0, <2>1, <2>2, UsersKept
<1>13. CASE Announced(t)
  <2>1. /\ OnlyMoves(t) /\ session_id' = session_id /\ users' = users
        /\ release_flag' = release_flag /\ LoadsMore(Obj(t), "RELEASE_PEND")
        /\ pc[t] = "rp_post" /\ pc'[t] \notin {"rp_post", "rel_leave", "acc_count", "acc_join"}
        /\ Obj(t) \in Slots
    BY <1>0, <1>13, Working, HomeOf DEF Announced, Returns, fields
  <2>2. ASSUME NEW s \in Slots PROVE Present(s)' <=> Present(s)
    <3>1. Joining(s)' <=> Joining(s)
      BY <2>1, OthersStay DEF Joining
    <3>2. Leaving(s)' <=> Leaving(s)
      <4>1. \A u \in Threads \ {t} : Leaver(u, s)' <=> Leaver(u, s)
        BY <2>1, OthersStay DEF Leaver
      <4>2. ~Leaver(t, s)' /\ (Leaver(t, s) <=> s = Obj(t))
        BY <2>1 DEF Leaver
      <4>3. Load(s, "RELEASE_PEND")' = IF s = Obj(t) THEN Load(s, "RELEASE_PEND") + 1
                                                     ELSE Load(s, "RELEASE_PEND")
        BY <1>2, <2>1 DEF LoadsMore
      <4>4. QED
        BY <1>2, <4>1, <4>2, <4>3 DEF Leaving
    <3>3. QED
      BY <2>1, <3>1, <3>2 DEF Present
  <2>3. QED
    BY <1>0, <2>1, <2>2, UsersKept
<1>14. ASSUME NEW q \in Slots, NEW p \in Packets, t \in Workers, Taken(t, q, p)
       PROVE  UsersArePresent'
  <2>1. /\ OnlyMoves(t) /\ session_id' = session_id /\ users' = users
        /\ release_flag' = release_flag /\ LoadsLess(q, ClassOf(p)) /\ Load(q, ClassOf(p)) > 0
        /\ pc[t] = "gqcs" /\ pc'[t] = Dispatch(q, p) /\ own'[t] = q
    BY <1>14 DEF Taken, fields
  <2>2. CASE p = "RELEASE_PEND"
    <3>1. ClassOf(p) = "RELEASE_PEND" /\ Dispatch(q, p) = "rel_leave"
      BY <2>2 DEF ClassOf, Dispatch
    <3>2. ASSUME NEW s \in Slots PROVE Present(s)' <=> Present(s)
      <4>1. Joining(s)' <=> Joining(s)
        BY <2>1, <3>1, OthersStay DEF Joining
      <4>2. Leaving(s)' <=> Leaving(s)
        <5>1. \A u \in Threads \ {t} : Leaver(u, s)' <=> Leaver(u, s)
          BY <2>1, OthersStay DEF Leaver
        <5>2. ~Leaver(t, s) /\ (Leaver(t, s)' <=> s = q)
          BY <2>1, <3>1 DEF Leaver
        <5>3. Load(s, "RELEASE_PEND")' = IF s = q THEN Load(s, "RELEASE_PEND") - 1
                                                  ELSE Load(s, "RELEASE_PEND")
          BY <1>2, <2>1, <3>1 DEF LoadsLess
        <5>4. s = q => Load(s, "RELEASE_PEND") > 0
          BY <2>1, <3>1
        <5>5. CASE s = q
          BY <5>2, <5>4, <5>5 DEF Leaving
        <5>6. CASE s # q
          BY <5>1, <5>2, <5>3, <5>6 DEF Leaving
        <5>7. QED
          BY <5>5, <5>6
      <4>3. QED
        BY <2>1, <4>1, <4>2 DEF Present
    <3>3. QED
      BY <1>0, <2>1, <3>2, UsersKept
  <2>3. CASE p # "RELEASE_PEND"
    <3>1. /\ ClassOf(p) # "RELEASE_PEND"
          /\ pc'[t] \notin {"rp_post", "rel_leave", "acc_count", "acc_join"}
      BY <2>1, <2>3 DEF ClassOf, Dispatch
    <3>2. QED
      BY <1>2, <1>5, <2>1, <3>1 DEF LoadsLess
  <2>4. QED
    BY <2>2, <2>3
<1>15. CASE ReleaseLeave(t) /\ \E l \in {"crash", "rel_clear"} : Step(t, l)
  <2>1. /\ OnlyMoves(t) /\ session_id' = session_id /\ release_flag' = release_flag
        /\ LoadsSame /\ pc[t] = "rel_leave" /\ pc'[t] = "rel_clear"
        /\ users' = users \ {Current(own[t])}
    BY <1>0, <1>15 DEF ReleaseLeave, Step, Goto, session, Current, NoCrash, TypeOK
  <2>2. own[t] \in Slots /\ Releaser(t, own[t])
    BY <1>0, <2>1, Working DEF Releaser
  <2>3. ASSUME NEW s \in Slots PROVE Present(s)' <=> Present(s) /\ s # own[t]
    <3>1. Joining(s)' <=> Joining(s)
      BY <2>1, OthersStay DEF Joining
    <3>2. CASE s = own[t]
      <4>1. /\ ~(Load(s, "RELEASE_PEND")' > 0) /\ \A u \in Threads \ {t} : ~Leaver(u, s)'
        BY <1>0, <1>2, <2>1, <2>2, <3>2, LeavingIsClosed, OthersStay DEF LoadsSame, Leaver
      <4>2. ~Leaver(t, s)' /\ release_flag'[s] = 1
        BY <1>0, <2>1, <2>2, <3>2, FreeIsClosed DEF Leaver
      <4>3. QED
        BY <3>2, <4>1, <4>2 DEF Present, Leaving
    <3>3. CASE s # own[t]
      <4>1. \A u \in Threads : Leaver(u, s)' <=> Leaver(u, s)
        BY <2>1, <3>3, OthersStay DEF Leaver, OnlyMoves
      <4>2. QED
        BY <1>2, <2>1, <3>1, <3>3, <4>1 DEF Present, Leaving, LoadsSame
    <3>4. QED
      BY <3>2, <3>3
  <2>4. ASSUME NEW s \in Slots PROVE Current(s)' \in users' <=> Present(s)'
    BY <2>1, <2>3 DEF UsersArePresent, Current
  <2>5. \A id \in users' : id = Current(id.slot)'
    BY <2>1 DEF UsersArePresent, Current
  <2>6. QED
    BY <2>4, <2>5 DEF UsersArePresent
<1>16. QED
  BY <1>1, <1>4, <1>6, <1>7, <1>8, <1>9, <1>10, <1>11, <1>12, <1>13, <1>14, <1>15 DEF Loud

-----------------------------------------------------------------------------
(* A session is received from until it is disconnected *)

\* t is about to disconnect s.
Disconnecting(t, s) == /\ Obj(t) = s
                       /\ pc[t] = "disc_xchg" \/ PostRef(t, s)

\* t handles what came from s, or is about to disconnect it.
Minds(t, s) == RecvTurn(t, s) \/ Disconnecting(t, s)
Watched(s)  == release_flag[s] = 0 /\ disconnect[s] = 0 =>
                    Load(s, "recv") > 0 \/ \E t \in Threads : Minds(t, s)
AllWatched  == \A s \in Slots : Watched(s)

\* Only disconnected sessions are released.
LeavingIsDisconnected == \A s \in Slots : Leaving(s) => disconnect[s] = 1

\* What t has to see to when it stops minding s.
LEMMA WatchedKept ==
  ASSUME NEW s \in Slots, Watched(s), NEW t \in Threads, OnlyMoves(t),
         release_flag'[s] = 0 /\ disconnect'[s] = 0 =>
            /\ release_flag[s] = 0 /\ disconnect[s] = 0
            /\ Minds(t, s) => Minds(t, s)' \/ Load(s, "recv")' > 0
            /\ Load(s, "recv") > 0 => Minds(t, s)' \/ Load(s, "recv")' > 0
  PROVE  Watched(s)'
<1>1. \A u \in Threads \ {t} : Minds(u, s) => Minds(u, s)'
  BY OthersTurns, OthersStay DEF Minds, Disconnecting, PostRef
<1>2. QED
  BY <1>1 DEF Watched

\* Somebody keeps watching over every connected session.
LEMMA NextWatched ==
  ASSUME TurnInv, TurnInv', NoCrash, NoCrash', AllWatched, [Next]_vars
  PROVE  AllWatched'
<1> USE Roles
<1>0. /\ TypeOK /\ Control /\ CountIsReferences /\ Refusals /\ OpenWhileUsed /\ OnePhase
      /\ SlotInv
  BY DEF SlotInv, TurnInv
<1>1. PICK t \in Threads : \/ Quiet(t) /\ (Walk(t) \/ Fault(t) \/ Answer(t) \/ Request(t)
                                           \/ Look(t))
                           \/ Loud(t)
  BY <1>0, StepKinds DEF Kinds
<1>2. /\ "recv" \in Classes
      /\ \A s \in Slots : Load(s, "recv") \in Nat
  BY <1>0, LoadType DEF Classes, IoOps
<1>3. ASSUME OnlyMoves(t), release_flag' = release_flag,
             \A s \in Slots : disconnect'[s] = 0 => disconnect[s] = 0,
             \A s \in Slots : Load(s, "recv")' = Load(s, "recv"),
             \A s \in Slots : disconnect'[s] = 0 /\ Minds(t, s) => Minds(t, s)'
      PROVE  AllWatched'
  BY <1>3, WatchedKept DEF AllWatched
<1>4. CASE Quiet(t) /\ Walk(t)
  <2>1. ASSUME NEW s \in Slots, disconnect[s] = 0, Minds(t, s) PROVE Minds(t, s)'
    <3>1. Stays(t) /\ Obj(t)' = Obj(t) /\ pc'[t] # "crash"
      BY <1>4 DEF Walk, Stays, Obj, NoCrash
    <3>2. RecvTurns(pc[t]) /\ own[t] = s => RecvTurns(pc'[t])
      BY <1>4, <2>1, <3>1 DEF Walk, RecvTurns
    <3>3. pc[t] = "disc_xchg" => pc'[t] = "disc_xchg"
      BY <1>4 DEF Walk
    <3>4. PostRef(t, s) => PostRef(t, s)'
      BY <1>4, <3>1 DEF Walk, Stays, PostRef
    <3>5. QED
      BY <2>1, <3>1, <3>2, <3>3, <3>4 DEF Minds, RecvTurn, Disconnecting, Stays
  <2>2. QED
    BY <1>2, <1>3, <1>4, <2>1 DEF Quiet, fields, LoadsSame
<1>5. CASE Quiet(t) /\ (Fault(t) \/ Request(t) \/ Look(t) \/ Answer(t))
  <2>1. ASSUME NEW s \in Slots, Minds(t, s) PROVE Minds(t, s)'
    <3>1. CASE Fault(t)
      BY <2>1, <3>1 DEF Fault, Minds, RecvTurn, RecvTurns, Disconnecting, Obj, PostRef
    <3>2. CASE Request(t)
      BY <1>0, <2>1, <3>2 DEF Request, Minds, RecvTurn, RecvTurns, Disconnecting, PostRef,
                        Control, ControlOf
    <3>3. CASE Look(t)
      <4>1. ctx[t] = "io"
        BY <1>0, <3>3, HomeOf DEF Look, Control, ControlOf
      <4>2. QED
        BY <2>1, <3>3, <4>1 DEF Look, Minds, RecvTurn, RecvTurns, Disconnecting, PostRef
    <3>4. CASE Answer(t)
      BY <2>1, <3>4 DEF Answer, Returns, Minds, RecvTurn, RecvTurns, Disconnecting, PostRef, Obj
    <3>5. QED
      BY <1>5, <3>1, <3>2, <3>3, <3>4
  <2>2. QED
    BY <1>2, <1>3, <1>5, <2>1 DEF Quiet, fields, LoadsSame
<1>6. CASE RecvPosted(t)
  <2>1. /\ OnlyMoves(t) /\ own[t] \in Slots /\ LoadsMore(own[t], "recv")
        /\ pc[t] = "recv_post" /\ UNCHANGED fields /\ ctx[t] = "io"
    BY <1>0, <1>6, Working DEF RecvPosted, Control, ControlOf, TypeOK, Contexts, ApiLocations
  <2>2. \A s \in Slots : Minds(t, s) => s = own[t]
    BY <2>1 DEF Minds, RecvTurn, Disconnecting, Obj
  <2>3. \A s \in Slots : Load(s, "recv")' = IF s = own[t] THEN Load(s, "recv") + 1
                                            ELSE Load(s, "recv")
    BY <1>2, <2>1 DEF LoadsMore
  <2>4. QED
    BY <1>2, <2>1, <2>2, <2>3, WatchedKept DEF AllWatched, fields
<1>7. CASE SendPosted(t) \/ Pended(t) \/ Announced(t)
  <2>1. /\ OnlyMoves(t) /\ release_flag' = release_flag /\ disconnect' = disconnect
        /\ pc[t] \in {"sp_size", "pend_xchg", "rp_post"}
    BY <1>7 DEF SendPosted, Pended, Announced, fields
  <2>2. \A s \in Slots : Load(s, "recv")' = Load(s, "recv")
    <3>1. LoadsSame \/ \E q, k : k # "recv" /\ LoadsMore(q, k)
      <4>1. Obj(t) \in Slots /\ own[t] \in Slots
        BY <1>0, <2>1, Working
      <4>2. QED
        BY <1>7, <4>1 DEF SendPosted, Pended, Announced
    <3>2. QED
      BY <1>2, <3>1 DEF LoadsSame, LoadsMore
  <2>3. ASSUME NEW s \in Slots, Minds(t, s) PROVE Minds(t, s)'
    <3>1. RecvTurn(t, s) /\ ~RecvTurns(pc[t])
      BY <2>1, <2>3 DEF Minds, Disconnecting, PostRef, RecvTurns
    <3>2. CASE SendPosted(t) \/ Pended(t)
      BY <3>1, <3>2 DEF SendPosted, Pended, Stays, Minds, RecvTurn
    <3>3. CASE Announced(t)
      BY <1>0, <3>1, <3>3 DEF Announced, Returns, Minds, RecvTurn, RecvTurns, Control, ControlOf
    <3>4. QED
      BY <1>7, <3>2, <3>3
  <2>4. QED
    BY <1>3, <2>1, <2>2, <2>3
<1>8. CASE Disconnected(t)
  <2>1. /\ OnlyMoves(t) /\ release_flag' = release_flag /\ LoadsSame /\ Obj(t) \in Slots
        /\ \A s \in Slots : disconnect'[s] = IF s = Obj(t) THEN 1 ELSE disconnect[s]
        /\ own'[t] = own[t] /\ (Stays(t) \/ Leaves(t)) /\ pc[t] = "disc_xchg"
    BY <1>0, <1>8, Working DEF Disconnected, Leaves, Stays, TypeOK
  <2>2. ASSUME NEW s \in Slots, s # Obj(t), Minds(t, s) PROVE Minds(t, s)'
    <3>1. RecvTurn(t, s) /\ ctx[t] = "api"
      BY <2>1, <2>2 DEF Minds, Disconnecting, RecvTurn, Obj
    <3>2. t \in Workers
      BY <2>1, <3>1 DEF RecvTurn, RecvTurns
    <3>3. ctx'[t] = "api" /\ own'[t] = s
      BY <2>1, <3>1 DEF Stays, Leaves, RecvTurn
    <3>4. QED
      BY <3>2, <3>3 DEF Minds, RecvTurn
  <2>3. QED
    BY <1>2, <1>3, <2>1, <2>2 DEF LoadsSame
<1>9. CASE Cancelled(t)
  <2>1. /\ OnlyMoves(t) /\ UNCHANGED fields /\ LoadsMore(Obj(t), "CANCEL_IO")
        /\ pc[t] = "disc_cancel" /\ Leaves(t)
    BY <1>9 DEF Cancelled
  <2>2. ASSUME NEW s \in Slots, Minds(t, s) PROVE Minds(t, s)'
    BY <2>1, <2>2 DEF Minds, Disconnecting, PostRef, RecvTurn, RecvTurns, Leaves
  <2>3. QED
    BY <1>2, <1>3, <2>1, <2>2 DEF LoadsMore, fields
<1>10. CASE Closed(t)
  <2>1. /\ OnlyMoves(t) /\ disconnect' = disconnect /\ LoadsSame /\ pc[t] = "rp_cas"
        /\ Stays(t) /\ release_flag' = [release_flag EXCEPT ![Obj(t)] = 1]
    BY <1>10 DEF Closed, Step
  <2>2. \A s \in Slots : release_flag'[s] = 0 => release_flag[s] = 0
    BY <1>0, <2>1 DEF TypeOK
  <2>3. \A s \in Slots : Minds(t, s) => Minds(t, s)'
    BY <2>1 DEF Minds, Disconnecting, PostRef, RecvTurn, RecvTurns, Stays
  <2>4. QED
    BY <1>2, <2>1, <2>2, <2>3, WatchedKept DEF AllWatched, LoadsSame
<1>11. ASSUME NEW q \in Slots, NEW p \in Packets, t \in Workers, Taken(t, q, p)
       PROVE  AllWatched'
  <2>1. /\ OnlyMoves(t) /\ UNCHANGED fields /\ LoadsLess(q, ClassOf(p)) /\ pc[t] = "gqcs"
        /\ pc'[t] = Dispatch(q, p) /\ own'[t] = q /\ ctx[t] = "io" /\ ctx'[t] = "io"
    BY <1>11 DEF Taken
  <2>2. \A s \in Slots : ~Minds(t, s)
    BY <2>1 DEF Minds, RecvTurn, RecvTurns, Disconnecting, PostRef
  <2>3. CASE p \in {"RECV", "RECV0"}
    <3>1. ClassOf(p) = "recv"
      BY <2>3 DEF ClassOf
    <3>2. Minds(t, q)'
      BY <2>1, <2>3 DEF Dispatch, Minds, RecvTurn, RecvTurns, Disconnecting, Obj
    <3>3. \A s \in Slots : s # q => Load(s, "recv")' = Load(s, "recv")
      BY <1>2, <2>1 DEF LoadsLess
    <3>4. QED
      BY <2>1, <2>2, <3>2, <3>3, WatchedKept DEF AllWatched, fields
  <2>4. CASE p \notin {"RECV", "RECV0"}
    <3>1. ClassOf(p) # "recv"
      BY <2>4 DEF ClassOf, Packets
    <3>2. QED
      BY <1>2, <1>3, <2>1, <2>2, <3>1 DEF LoadsLess, fields
  <2>5. QED
    BY <2>3, <2>4
<1>12. CASE \E s \in Slots : t = Acceptor /\ Popped(s)
  <2>1. /\ OnlyMoves(t) /\ release_flag' = release_flag /\ disconnect' = disconnect
        /\ LoadsSame /\ pc[t] = "accept"
    BY <1>12 DEF Popped
  <2>2. ctx[t] = "io"
    BY <1>0, <1>12, <2>1, HomeOf DEF Control, ControlOf
  <2>3. \A s \in Slots : ~Minds(t, s)
    BY <2>1, <2>2 DEF Minds, RecvTurn, RecvTurns, Disconnecting, PostRef
  <2>4. QED
    BY <1>2, <1>3, <2>1, <2>3 DEF LoadsSame
<1>13. CASE t = Acceptor /\ AcceptInit /\ Step(t, "acc_open")
  <2>1. /\ OnlyMoves(t) /\ release_flag' = release_flag /\ LoadsSame
        /\ pc[t] = "acc_init" /\ pc'[t] = "acc_open" /\ Stays(t)
        /\ \A s \in Slots : s # own[t] => disconnect'[s] = disconnect[s]
    BY <1>0, <1>13 DEF AcceptInit, Step, TypeOK
  <2>2. own[t] \in Slots /\ release_flag[own[t]] = 1
    BY <1>0, <1>13, <2>1, Working, FreeIsClosed DEF Accepting
  <2>3. \A s \in Slots : Minds(t, s) => Minds(t, s)'
    BY <2>1 DEF Minds, RecvTurn, RecvTurns, Disconnecting, PostRef, Stays
  <2>4. QED
    BY <1>2, <2>1, <2>2, <2>3, WatchedKept DEF AllWatched, LoadsSame
<1>14. CASE t = Acceptor /\ AcceptOpen /\ Step(t, "acc_count")
  <2>1. /\ OnlyMoves(t) /\ disconnect' = disconnect /\ LoadsSame
        /\ pc[t] = "acc_open" /\ pc'[t] = "acc_count" /\ Stays(t)
        /\ \A s \in Slots : s # own[t] => release_flag'[s] = release_flag[s]
    BY <1>0, <1>14 DEF AcceptOpen, Step, TypeOK
  <2>2. Watched(own[t])'
    BY <2>1 DEF Watched, Minds, RecvTurn, RecvTurns, Stays
  <2>3. \A s \in Slots : Minds(t, s) => Minds(t, s)'
    BY <2>1 DEF Minds, RecvTurn, RecvTurns, Disconnecting, PostRef, Stays
  <2>4. ASSUME NEW s \in Slots, s # own[t] PROVE Watched(s)'
    BY <1>2, <2>1, <2>3, <2>4, WatchedKept DEF AllWatched, LoadsSame
  <2>5. ASSUME NEW s \in Slots, s = own[t] PROVE Watched(s)'
    BY <2>1, <2>5 DEF Watched, Minds, RecvTurn, RecvTurns, Stays
  <2>6. QED
    BY <2>4, <2>5 DEF AllWatched
<1>15. CASE \/ t = Acceptor /\ AcceptJoin /\ \E l \in {"crash", "recv_check"} : Step(t, l)
            \/ TryClear(t) /\ Step(t, "try_size")
            \/ SendExchange(t) /\ \E l \in {"dec", "sp_size"} : Step(t, l)
            \/ SendClear(t) /\ Step(t, "pend_check")
            \/ Enqueue(t) /\ \E l \in {"pend_check", "disc_xchg"} : Step(t, l)
            \/ ReleaseLeave(t) /\ \E l \in {"crash", "rel_clear"} : Step(t, l)
            \/ ReleaseClear(t) /\ Step(t, "rel_push")
            \/ ReleasePush(t) /\ Step(t, "rel_count")
  <2>1. /\ OnlyMoves(t) /\ LoadsSame /\ release_flag' = release_flag
        /\ disconnect' = disconnect /\ Stays(t)
    BY <1>15 DEF AcceptJoin, TryClear, SendExchange, SendClear, Enqueue, ReleaseLeave,
                 ReleaseClear, ReleasePush, Step, session
  <2>2. \/ pc[t] = "acc_join" /\ pc'[t] = "recv_check"
        \/ pc[t] \notin {"disc_xchg", "dec"} /\ ~RecvTurns(pc[t])
    BY <1>15 DEF AcceptJoin, TryClear, SendExchange, SendClear, Enqueue, ReleaseLeave,
                 ReleaseClear, ReleasePush, Step, NoCrash, RecvTurns
  <2>3. \A s \in Slots : Minds(t, s) => Minds(t, s)'
    BY <2>1, <2>2 DEF Minds, RecvTurn, RecvTurns, Disconnecting, PostRef, Stays
  <2>4. QED
    BY <1>2, <1>3, <2>1, <2>3 DEF LoadsSame
<1>16. QED
  BY <1>1, <1>4, <1>5, <1>6, <1>7, <1>8, <1>9, <1>10, <1>11, <1>12, <1>13, <1>14, <1>15 DEF Loud

\* The session whose io_count is 0 was disconnected: as long as it is not, somebody
\* receives from it, or is about to disconnect it, and is counted.
LEMMA ClosesDisconnected ==
  ASSUME SlotInv, AllWatched, NEW s \in Slots, io_count[s] = 0, release_flag[s] = 0
  PROVE  disconnect[s] = 1
<1>1. TypeOK /\ Control /\ CountIsReferences /\ OnePhase
  BY DEF SlotInv
<1>2. ASSUME NEW u \in Threads, Minds(u, s) PROVE FALSE
  <2>1. /\ UsesOwn(u) => own[u] # s
        /\ UsesCall(u) => call[u].slot # s
    BY <1>1, UsersCounted
  <2>2. ~Accepting(s)
    BY <1>1, FreeIsClosed
  <2>3. ~RecvTurn(u, s)
    <3>1. pc[u] \in {"acc_inc", "acc_init", "acc_open"} => u = Acceptor
      BY <1>1 DEF Control, ControlOf, AccLocations
    <3>2. QED
      BY <2>1, <2>2, <3>1 DEF RecvTurn, RecvTurns, UsesOwn, LiveLocations, Accepting
  <2>4. ~Disconnecting(u, s)
    BY <2>1 DEF Disconnecting, PostRef, Obj, UsesOwn, UsesCall, LiveLocations, CallLocations
  <2>5. QED
    BY <1>2, <2>3, <2>4 DEF Minds
<1>3. ~(Load(s, "recv") > 0)
  BY <1>1, UsersCounted DEF Classes, IoOps
<1>4. disconnect[s] \in {0, 1}
  BY <1>1 DEF TypeOK
<1>5. QED
  BY <1>2, <1>3, <1>4 DEF AllWatched, Watched

\* A step that starts no release.
LEMMA LeavingKept ==
  ASSUME LeavingIsDisconnected, NEW t \in Threads, OnlyMoves(t),
         \A s \in Slots : Leaving(s) => disconnect'[s] = disconnect[s] \/ disconnect'[s] = 1,
         \A s \in Slots : Leaver(t, s)' => Leaving(s),
         \A s \in Slots : Load(s, "RELEASE_PEND")' > 0 => Leaving(s)
  PROVE  LeavingIsDisconnected'
<1> SUFFICES ASSUME NEW s \in Slots, Leaving(s)' PROVE disconnect'[s] = 1
  BY DEF LeavingIsDisconnected
<1>1. \A u \in Threads \ {t} : Leaver(u, s)' => Leaver(u, s)
  BY OthersStay DEF Leaver
<1>2. Leaving(s)
  BY <1>1 DEF Leaving
<1>3. QED
  BY <1>2 DEF LeavingIsDisconnected

\* No connected session starts being released.
LEMMA NextLeaving ==
  ASSUME TurnInv, AllWatched, LeavingIsDisconnected, [Next]_vars
  PROVE  LeavingIsDisconnected'
<1> USE Roles
<1>0. /\ TypeOK /\ Control /\ CountIsReferences /\ Refusals /\ OpenWhileUsed /\ OnePhase
      /\ SlotInv
  BY DEF SlotInv, TurnInv
<1>1. PICK t \in Threads : \/ Quiet(t) /\ (Walk(t) \/ Fault(t) \/ Answer(t) \/ Request(t)
                                           \/ Look(t))
                           \/ Loud(t)
  BY <1>0, StepKinds DEF Kinds
<1>2. /\ "RELEASE_PEND" \in Classes
      /\ \A s \in Slots : Load(s, "RELEASE_PEND") \in Nat
  BY <1>0, LoadType DEF Classes, Requests
<1>3. CASE Quiet(t) /\ (Walk(t) \/ Fault(t) \/ Answer(t) \/ Request(t) \/ Look(t))
  <2>1. \A s \in Slots : Leaver(t, s)' => Leaver(t, s)
    <3>1. CASE Walk(t)
      BY <3>1 DEF Walk, Stays, Leaver, Obj
    <3>2. CASE Fault(t) \/ Answer(t) \/ Request(t) \/ Look(t)
      BY <3>2, HomeOf DEF Fault, Answer, Returns, Request, Look, Leaver
    <3>3. QED
      BY <1>3, <3>1, <3>2
  <2>2. QED
    BY <1>2, <1>3, <2>1, LeavingKept DEF Quiet, fields, LoadsSame, Leaving
<1>4. CASE \/ RecvPosted(t) \/ SendPosted(t) \/ Pended(t) \/ Cancelled(t)
           \/ \E s \in Slots : t = Acceptor /\ Popped(s)
           \/ t = Acceptor /\ AcceptOpen /\ Step(t, "acc_count")
           \/ t = Acceptor /\ AcceptJoin /\ \E l \in {"crash", "recv_check"} : Step(t, l)
           \/ TryClear(t) /\ Step(t, "try_size")
           \/ SendExchange(t) /\ \E l \in {"dec", "sp_size"} : Step(t, l)
           \/ SendClear(t) /\ Step(t, "pend_check")
           \/ Enqueue(t) /\ \E l \in {"pend_check", "disc_xchg"} : Step(t, l)
           \/ ReleaseLeave(t) /\ \E l \in {"crash", "rel_clear"} : Step(t, l)
           \/ ReleaseClear(t) /\ Step(t, "rel_push")
           \/ ReleasePush(t) /\ Step(t, "rel_count")
  <2>1. OnlyMoves(t) /\ disconnect' = disconnect
    BY <1>4 DEF RecvPosted, SendPosted, Pended, Cancelled, Popped, Step, AcceptOpen,
                AcceptJoin, TryClear, SendExchange, SendClear, Enqueue, ReleaseLeave,
                ReleaseClear, ReleasePush, fields, session
  <2>2. pc'[t] \notin {"rp_post", "rel_leave"}
    BY <1>4 DEF RecvPosted, SendPosted, Pended, Cancelled, Leaves, Popped, Step
  <2>3. \A s \in Slots : Load(s, "RELEASE_PEND")' = Load(s, "RELEASE_PEND")
    <3>1. LoadsSame \/ \E q, k : k # "RELEASE_PEND" /\ LoadsMore(q, k)
      BY <1>4 DEF RecvPosted, SendPosted, Pended, Cancelled, Popped, Step
    <3>2. QED
      BY <1>2, <3>1 DEF LoadsSame, LoadsMore
  <2>4. QED
    BY <2>1, <2>2, <2>3, LeavingKept DEF Leaver, Leaving
<1>5. CASE Disconnected(t)
  <2>1. /\ OnlyMoves(t) /\ LoadsSame /\ pc'[t] \notin {"rp_post", "rel_leave"}
        /\ \A s \in Slots : disconnect'[s] = IF s = Obj(t) THEN 1 ELSE disconnect[s]
    BY <1>0, <1>5 DEF Disconnected, Leaves, TypeOK
  <2>2. QED
    BY <1>2, <2>1, LeavingKept DEF Leaver, Leaving, LoadsSame
<1>6. CASE t = Acceptor /\ AcceptInit /\ Step(t, "acc_open")
  <2>1. /\ OnlyMoves(t) /\ LoadsSame /\ pc[t] = "acc_init" /\ pc'[t] = "acc_open"
        /\ \A s \in Slots : s # own[t] => disconnect'[s] = disconnect[s]
    BY <1>0, <1>6 DEF AcceptInit, Step, TypeOK
  <2>2. \A s \in Slots : Leaving(s) => s # own[t]
    BY <1>0, <1>6, <2>1, LeavingIsClosed DEF Accepting
  <2>3. QED
    BY <1>2, <2>1, <2>2, LeavingKept DEF Leaver, Leaving, LoadsSame
<1>7. CASE Closed(t)
  <2>1. /\ OnlyMoves(t) /\ disconnect' = disconnect /\ LoadsSame /\ Stays(t)
        /\ pc[t] = "rp_cas" /\ pc'[t] = "rp_post" /\ Obj(t)' = Obj(t) /\ Obj(t) \in Slots
        /\ io_count[Obj(t)] = 0 /\ release_flag[Obj(t)] = 0
    BY <1>0, <1>7, Working DEF Closed, Step, Stays, Obj
  <2>2. disconnect[Obj(t)] = 1
    BY <1>0, <2>1, ClosesDisconnected
  <2> SUFFICES ASSUME NEW s \in Slots, Leaving(s)' PROVE disconnect'[s] = 1
    BY DEF LeavingIsDisconnected
  <2>3. \A u \in Threads \ {t} : Leaver(u, s)' => Leaver(u, s)
    BY <2>1, OthersStay DEF Leaver
  <2>4. Leaver(t, s)' => s = Obj(t)
    BY <2>1 DEF Leaver
  <2>5. Leaving(s) \/ s = Obj(t)
    BY <1>2, <2>1, <2>3, <2>4 DEF Leaving, LoadsSame
  <2>6. QED
    BY <2>1, <2>2, <2>5 DEF LeavingIsDisconnected
<1>8. CASE Announced(t)
  <2>1. /\ OnlyMoves(t) /\ disconnect' = disconnect /\ LoadsMore(Obj(t), "RELEASE_PEND")
        /\ pc[t] = "rp_post" /\ pc'[t] \notin {"rp_post", "rel_leave"}
    BY <1>8, HomeOf DEF Announced, Returns, fields
  <2>2. \A s \in Slots : Load(s, "RELEASE_PEND")' > 0 => Leaving(s)
    BY <1>2, <2>1 DEF LoadsMore, Leaving, Leaver
  <2>3. QED
    BY <2>1, <2>2, LeavingKept DEF Leaver
<1>9. ASSUME NEW q \in Slots, NEW p \in Packets, t \in Workers, Taken(t, q, p)
      PROVE  LeavingIsDisconnected'
  <2>1. /\ OnlyMoves(t) /\ disconnect' = disconnect /\ LoadsLess(q, ClassOf(p))
        /\ Load(q, ClassOf(p)) > 0 /\ pc'[t] = Dispatch(q, p) /\ own'[t] = q
    BY <1>9 DEF Taken, fields
  <2>2. \A s \in Slots : Load(s, "RELEASE_PEND")' > 0 => Leaving(s)
    BY <1>2, <2>1 DEF LoadsLess, Leaving
  <2>3. \A s \in Slots : Leaver(t, s)' => Leaving(s)
    <3>1. CASE p = "RELEASE_PEND"
      BY <2>1, <3>1 DEF ClassOf, Dispatch, Leaver, Leaving
    <3>2. CASE p # "RELEASE_PEND"
      BY <2>1, <3>2 DEF Dispatch, Leaver
    <3>3. QED
      BY <3>1, <3>2
  <2>4. QED
    BY <2>1, <2>2, <2>3, LeavingKept
<1>10. QED
  BY <1>1, <1>3, <1>4, <1>5, <1>6, <1>7, <1>8, <1>9 DEF Loud

-----------------------------------------------------------------------------
\* The turns, and what the application knows.
SessionInv == /\ TurnInv /\ NoCrash /\ UsersArePresent
              /\ AllWatched /\ LeavingIsDisconnected

\* At the start the application knows nobody.
LEMMA InitSession == Init => SessionInv
<1> SUFFICES ASSUME Init PROVE SessionInv
  OBVIOUS
<1>1. TurnInv /\ SlotInv
  BY InitTurns DEF TurnInv
<1>2. \A t \in Threads : pc[t] \in {"accept", "gqcs", "tick"} /\ ctx[t] = "io"
  BY HomeOf DEF Init
<1>3. \A s \in Slots : release_flag[s] = 1
  BY DEF Init
<1>4. \A s \in Slots : ~(Load(s, "RELEASE_PEND") > 0)
  BY <1>1, <1>2 DEF Init, Load, IoOps, Packets
<1>5. \A s \in Slots : ~Leaving(s) /\ ~Present(s)
  BY <1>2, <1>3, <1>4 DEF Present, Leaving, Leaver
<1>6. NoCrash /\ AllWatched /\ LeavingIsDisconnected
  BY <1>2, <1>3, <1>5 DEF NoCrash, AllWatched, Watched, LeavingIsDisconnected
<1>7. UsersArePresent
  BY <1>5 DEF UsersArePresent, Init
<1>8. QED
  BY <1>1, <1>6, <1>7 DEF SessionInv

\* Every step keeps SessionInv.
LEMMA NextSession == SessionInv /\ [Next]_vars => SessionInv'
<1> SUFFICES ASSUME SessionInv, [Next]_vars PROVE SessionInv'
  OBVIOUS
<1>1. TurnInv'
  BY NextTurns DEF SessionInv
<1>2. NoCrash' /\ LeavingIsDisconnected'
  BY NextSound, NextLeaving DEF SessionInv, LeavingIsDisconnected
<1>3. UsersArePresent' /\ AllWatched'
  BY <1>1, <1>2, NextUsers, NextWatched DEF SessionInv
<1>4. QED
  BY <1>1, <1>2, <1>3 DEF SessionInv

\* SessionInv holds in every behaviour.
LEMMA SessionAlways == Spec => []SessionInv
BY InitSession, NextSession, PTL DEF Spec

\* The server reaches none of its CrashDump::Crash(): io_count never goes below
\* zero, only disconnected sessions are released, and the application is told of
\* every session before anything it sent and of its end after that, once each.
THEOREM ServerNeverCrashes == Spec => []NoCrash
<1>1. SessionInv => NoCrash
  BY DEF SessionInv
<1>2. QED
  BY <1>1, SessionAlways, PTL

-----------------------------------------------------------------------------
(* The ids the application was ever told of *)

\* The accept thread has given its session an id and not called OnClientJoin yet.
Named == pc[Acceptor] \in {"acc_open", "acc_count", "acc_join"}

\* Ids are issued in the order of m_sessID, so the one OnClientJoin is called with
\* is new.
IssuedInOrder ==
    /\ users \subseteq issued
    /\ \A id \in issued : id.id < m_sessID
    /\ Named => /\ session_id[own[Acceptor]] = m_sessID - 1
                /\ \A id \in issued : id.id < m_sessID - 1

\* A step that issues no id and names no session.
LEMMA IssuedKept ==
  ASSUME IssuedInOrder, issued' = issued, users' \subseteq users, m_sessID' = m_sessID,
         Named' => /\ Named /\ own'[Acceptor] = own[Acceptor]
                   /\ session_id'[own[Acceptor]] = session_id[own[Acceptor]]
  PROVE  IssuedInOrder'
BY DEF IssuedInOrder

\* Every step keeps the ids in order.
LEMMA NextIssued ==
  ASSUME SessionInv, NoCrash', IssuedInOrder, [Next]_vars
  PROVE  IssuedInOrder'
<1> USE Roles
<1>0. /\ TypeOK /\ Control /\ CountIsReferences /\ Refusals /\ OpenWhileUsed /\ OnePhase
      /\ SlotInv
  BY DEF SlotInv, TurnInv, SessionInv
<1>1. PICK t \in Threads : \/ Quiet(t) /\ (Walk(t) \/ Fault(t) \/ Answer(t) \/ Request(t)
                                           \/ Look(t))
                           \/ Loud(t)
  BY <1>0, StepKinds DEF Kinds
<1>2. ASSUME OnlyMoves(t), issued' = issued, users' \subseteq users, m_sessID' = m_sessID,
             session_id' = session_id,
             pc'[t] \in {"acc_open", "acc_count", "acc_join"} =>
                /\ pc[t] \in {"acc_open", "acc_count", "acc_join"} /\ own'[t] = own[t]
      PROVE  IssuedInOrder'
  <2>1. Named' => Named /\ own'[Acceptor] = own[Acceptor]
    BY <1>2, OthersStay DEF Named
  <2>2. QED
    BY <1>2, <2>1, IssuedKept
<1>3. CASE Quiet(t) /\ (Walk(t) \/ Fault(t) \/ Answer(t) \/ Request(t) \/ Look(t))
  <2>1. pc'[t] \in {"acc_open", "acc_count", "acc_join"} =>
          pc[t] \in {"acc_open", "acc_count", "acc_join"} /\ own'[t] = own[t]
    BY <1>3, HomeOf DEF Walk, Stays, Fault, Answer, Returns, Request, Look
  <2>2. QED
    BY <1>2, <1>3, <2>1 DEF Quiet, fields
<1>4. CASE \/ RecvPosted(t) \/ SendPosted(t) \/ Pended(t) \/ Disconnected(t) \/ Cancelled(t)
           \/ Closed(t) \/ Announced(t)
           \/ \E s \in Slots : t = Acceptor /\ Popped(s)
           \/ \E s \in Slots, p \in Packets : t \in Workers /\ Taken(t, s, p)
           \/ t = Acceptor /\ AcceptOpen /\ Step(t, "acc_count")
           \/ TryClear(t) /\ Step(t, "try_size")
           \/ SendExchange(t) /\ \E l \in {"dec", "sp_size"} : Step(t, l)
           \/ SendClear(t) /\ Step(t, "pend_check")
           \/ Enqueue(t) /\ \E l \in {"pend_check", "disc_xchg"} : Step(t, l)
           \/ ReleasePush(t) /\ Step(t, "rel_count")
           \/ ReleaseLeave(t) /\ \E l \in {"crash", "rel_clear"} : Step(t, l)
  <2>1. OnlyMoves(t)
    BY <1>4 DEF RecvPosted, SendPosted, Pended, Disconnected, Cancelled, Popped, Step, Closed,
                Announced, Taken
  <2>2. issued' = issued /\ m_sessID' = m_sessID /\ session_id' = session_id
    BY <1>4 DEF RecvPosted, SendPosted, Pended, Disconnected, Cancelled, Popped, Step, Closed,
                Announced, Taken, AcceptOpen, TryClear, SendExchange, SendClear, Enqueue,
                ReleasePush, ReleaseLeave, fields, session, server, app
  <2>3. users' \subseteq users
    BY <1>4 DEF RecvPosted, SendPosted, Pended, Disconnected, Cancelled, Popped, Step, Closed,
                Announced, Taken, AcceptOpen, TryClear, SendExchange, SendClear, Enqueue,
                ReleasePush, ReleaseLeave, fields, session, server, app
  <2>4. pc'[t] \in {"acc_open", "acc_count", "acc_join"} =>
          pc[t] \in {"acc_open", "acc_count", "acc_join"} /\ own'[t] = own[t]
    BY <1>4, HomeOf DEF RecvPosted, SendPosted, Pended, Disconnected, Cancelled, Popped, Step,
                Stays, Leaves, Closed, Announced, Returns, Taken, Dispatch, AcceptOpen
  <2>5. QED
    BY <1>2, <2>1, <2>2, <2>3, <2>4
<1>5. CASE t = Acceptor /\ AcceptInit /\ Step(t, "acc_open")
  <2>1. own[t] \in Slots
    BY <1>0, <1>5, Working DEF AcceptInit
  <2>2. /\ m_sessID \in Nat /\ m_sessID' = m_sessID + 1 /\ session_id'[own[t]] = m_sessID
        /\ issued' = issued /\ users' = users /\ own'[t] = own[t]
        /\ \A id \in issued : id.id \in Nat
    BY <1>0, <1>5, <2>1 DEF AcceptInit, Step, Stays, app, TypeOK, ApiIds, Ids
  <2>3. /\ users' \subseteq issued'
        /\ \A id \in issued' : id.id < m_sessID
    BY <2>2 DEF IssuedInOrder
  <2>4. QED
    BY <1>5, <2>2, <2>3 DEF IssuedInOrder
<1>6. CASE t = Acceptor /\ AcceptJoin /\ \E l \in {"crash", "recv_check"} : Step(t, l)
  <2>1. /\ pc[t] = "acc_join" /\ pc'[t] \in {"crash", "recv_check"}
        /\ issued' = issued \cup {Current(own[t])} /\ users' = users \cup {Current(own[t])}
        /\ m_sessID' = m_sessID
    BY <1>6 DEF AcceptJoin, Step, server, Current
  <2>2. /\ Named /\ ~Named'
    BY <1>6, <2>1 DEF Named
  <2>3. m_sessID \in Nat /\ Current(own[t]).id = m_sessID - 1
    BY <1>0, <1>6, <2>2 DEF IssuedInOrder, Current, TypeOK
  <2>4. QED
    BY <2>1, <2>2, <2>3 DEF IssuedInOrder
<1>7. CASE ReleaseClear(t) /\ Step(t, "rel_push")
  <2>1. /\ OnlyMoves(t) /\ issued' = issued /\ users' = users /\ m_sessID' = m_sessID
        /\ pc[t] = "rel_clear" /\ pc'[t] = "rel_push"
        /\ \A s \in Slots : s # own[t] => session_id'[s] = session_id[s]
    BY <1>0, <1>7 DEF ReleaseClear, Step, app, server, TypeOK
  <2>2. own[t] \in Slots /\ Releaser(t, own[t])
    BY <1>0, <2>1, Working DEF Releaser
  <2>3. ASSUME Named'
        PROVE  /\ Named /\ own'[Acceptor] = own[Acceptor]
               /\ session_id'[own[Acceptor]] = session_id[own[Acceptor]]
    <3>1. t # Acceptor
      BY <2>1, <2>3 DEF Named
    <3>2. Named /\ own'[Acceptor] = own[Acceptor]
      BY <2>1, <2>3, <3>1, OthersStay DEF Named
    <3>3. own[Acceptor] \in Slots
      BY <1>0, <3>2, Working DEF Named
    <3>4. ~Accepting(own[t]) /\ ~Joining(own[t])
      BY <1>0, <2>2, FreeIsClosed, LeavingIsClosed
    <3>5. own[Acceptor] # own[t]
      BY <3>2, <3>4 DEF Named, Accepting, Joining
    <3>6. QED
      BY <2>1, <3>2, <3>3, <3>5
  <2>4. QED
    BY <2>1, <2>3, IssuedKept
<1>8. QED
  BY <1>1, <1>3, <1>4, <1>5, <1>6, <1>7 DEF Loud

-----------------------------------------------------------------------------
(* The contract of SessionService *)

\* t is in an OnRecv of the application, or in an API call that OnRecv makes.
InOnRecv(t) == pc[t] = "onrecv" \/ ctx[t] = "api"

\* The worker whose OnRecv runs holds the receive turn of an open session.
LEMMA RunningHolds ==
  ASSUME SessionInv, NEW t \in Workers, InOnRecv(t)
  PROVE  /\ own[t] \in Slots /\ release_flag[own[t]] = 0 /\ RecvTurn(t, own[t])
         /\ Running(t) = Current(own[t]) /\ Running(t) \in ApiIds
<1>1. /\ TypeOK /\ Control /\ OpenWhileUsed /\ t \in Threads
  BY Roles DEF SessionInv, TurnInv, SlotInv
<1>2. own[t] \in Slots
  BY <1>1, HomeOf DEF InOnRecv, Control, ControlOf
<1>3. release_flag[own[t]] = 0
  BY <1>1 DEF InOnRecv, OpenWhileUsed, UsesOwn, LiveLocations
<1>4. RecvTurn(t, own[t])
  BY <1>1 DEF InOnRecv, RecvTurn, RecvTurns
<1>5. Running(t) = Current(own[t]) /\ Running(t) \in ApiIds
  BY <1>1, <1>2 DEF InOnRecv, Running, Current, ApiIds, TypeOK
<1>6. QED
  BY <1>2, <1>3, <1>4, <1>5

\* A step of t that leaves the ids of open sessions alone changes no other worker's
\* OnRecv, and that of t only where t enters or leaves it.
LEMMA RunningKept ==
  ASSUME SessionInv, NEW t \in Threads, OnlyMoves(t),
         \A s \in Slots : release_flag[s] = 0 => session_id'[s] = session_id[s]
  PROVE  /\ \A u \in Workers \ {t} : Running(u)' = Running(u)
         /\ (t \in Workers => InOnRecv(t)' = InOnRecv(t) /\ (InOnRecv(t) => own'[t] = own[t]))
              => \A u \in Workers : Running(u)' = Running(u)
<1>1. ASSUME NEW u \in Workers, InOnRecv(u)' = InOnRecv(u), InOnRecv(u) => own'[u] = own[u]
      PROVE  Running(u)' = Running(u)
  <2>1. CASE InOnRecv(u)
    <3>1. session_id'[own[u]] = session_id[own[u]]
      BY <2>1, RunningHolds
    <3>2. QED
      BY <1>1, <2>1, <3>1 DEF InOnRecv, Running
  <2>2. CASE ~InOnRecv(u)
    BY <1>1, <2>2 DEF InOnRecv, Running
  <2>3. QED
    BY <2>1, <2>2
<1>2. ASSUME NEW u \in Workers \ {t} PROVE Running(u)' = Running(u)
  <2>1. InOnRecv(u)' = InOnRecv(u) /\ own'[u] = own[u]
    BY OthersStay, Roles DEF InOnRecv
  <2>2. QED
    BY <1>1, <2>1
<1>3. QED
  BY <1>1, <1>2

\* No other OnRecv runs for the session a worker has the receive turn of, and none
\* for a session that is closed.
LEMMA NobodyRuns ==
  ASSUME SessionInv, NEW s \in Slots,
         \/ release_flag[s] = 1
         \/ \E t \in Threads : RecvTurn(t, s) /\ ~(t \in Workers /\ InOnRecv(t))
  PROVE  \A u \in Workers : Running(u) # Current(s)
<1> SUFFICES ASSUME NEW u \in Workers, Running(u) = Current(s) PROVE FALSE
  OBVIOUS
<1>1. InOnRecv(u)
  <2>1. Current(s) \in ApiIds
    BY DEF SessionInv, TurnInv, SlotInv, TypeOK, Current, ApiIds
  <2>2. QED
    BY <2>1, NoCallAssumption DEF Running, InOnRecv
<1>2. own[u] = s /\ release_flag[s] = 0 /\ RecvTurn(u, s) /\ u \in Threads
  <2>1. Running(u) = Current(own[u])
    BY <1>1, RunningHolds
  <2>2. own[u] = s
    BY <2>1 DEF Current
  <2>3. QED
    BY <1>1, <2>2, RunningHolds, Roles
<1>3. PICK t \in Threads : RecvTurn(t, s) /\ ~(t \in Workers /\ InOnRecv(t))
  BY <1>2
<1>4. u = t
  BY <1>2, <1>3 DEF SessionInv, TurnInv, OneReceive, OneToken, Receivers
<1>5. QED
  BY <1>1, <1>3, <1>4

\* At the start the application knows nobody and no OnRecv runs.
LEMMA InitContract == Init => Service!Init
<1> SUFFICES ASSUME Init PROVE Service!Init
  OBVIOUS
<1>1. \A t \in Workers : Running(t) = NoCall
  BY Roles, HomeOf DEF Init, Running
<1>2. QED
  BY <1>1 DEF Init, Service!Init

\* Every step of the server is a step of the contract, or none.
LEMMA StepContract ==
  ASSUME SessionInv, NoCrash', IssuedInOrder, [Next]_vars
  PROVE  [Service!Next]_(Service!vars)
<1> USE Roles
<1> DEFINE running == [u \in Workers |-> Running(u)]
<1>0. /\ TypeOK /\ Control /\ CountIsReferences /\ Refusals /\ OpenWhileUsed /\ OnePhase
      /\ SlotInv /\ UsersArePresent /\ users \subseteq ApiIds
  BY DEF SlotInv, TurnInv, SessionInv, TypeOK
<1>1. PICK t \in Threads : \/ Quiet(t) /\ (Walk(t) \/ Fault(t) \/ Answer(t) \/ Request(t)
                                           \/ Look(t))
                           \/ Loud(t)
  BY <1>0, StepKinds DEF Kinds
<1>2. ASSUME OnlyMoves(t), issued' = issued, users' = users,
             \A s \in Slots : release_flag[s] = 0 => session_id'[s] = session_id[s],
             t \in Workers => InOnRecv(t)' = InOnRecv(t) /\ (InOnRecv(t) => own'[t] = own[t])
      PROVE  UNCHANGED Service!vars
  <2>1. running' = running
    BY <1>2, RunningKept
  <2>2. QED
    BY <1>2, <2>1 DEF Service!vars
<1>3. CASE Quiet(t) /\ Walk(t) /\ ~(t \in Workers /\ pc[t] = "frame" /\ pc'[t] = "onrecv")
                    /\ ~(t \in Workers /\ pc[t] = "onrecv" /\ pc'[t] = "frame")
  <2>1. t \in Workers => InOnRecv(t)' = InOnRecv(t) /\ own'[t] = own[t]
    BY <1>3 DEF Walk, Stays, InOnRecv
  <2>2. QED
    BY <1>2, <1>3, <2>1 DEF Quiet, fields
<1>4. CASE Quiet(t) /\ Walk(t) /\ pc[t] = "frame" /\ pc'[t] = "onrecv" /\ t \in Workers
  <2> DEFINE id == Current(own[t])
  <2>1. /\ OnlyMoves(t) /\ issued' = issued /\ users' = users /\ session_id' = session_id
        /\ own'[t] = own[t] /\ ctx'[t] = ctx[t] /\ id \in users
    BY <1>4 DEF Quiet, fields, Walk, Stays, Current
  <2>2. own[t] \in Slots /\ ctx[t] # "api" /\ ~InOnRecv(t)
    BY <1>0, <1>4, Working DEF Control, ControlOf, ApiLocations, InOnRecv
  <2>3. running[t] = NoCall /\ Running(t)' = id
    BY <1>4, <2>1, <2>2 DEF Running, InOnRecv, Current
  <2>4. \A u \in Workers : running[u] # id
    <3>1. RecvTurn(t, own[t])
      BY <1>4 DEF RecvTurn, RecvTurns
    <3>2. QED
      BY <2>2, <3>1, NobodyRuns
  <2>5. running' = [running EXCEPT ![t] = id]
    <3>1. \A u \in Workers \ {t} : Running(u)' = Running(u)
      BY <2>1, RunningKept
    <3>2. QED
      BY <2>3, <3>1
  <2>6. Service!RecvBegin(t, id)
    BY <2>1, <2>3, <2>4, <2>5 DEF Service!RecvBegin
  <2>7. QED
    BY <1>0, <1>4, <2>1, <2>6 DEF Service!Next
<1>5. CASE Quiet(t) /\ Walk(t) /\ pc[t] = "onrecv" /\ pc'[t] = "frame" /\ t \in Workers
  <2>1. /\ OnlyMoves(t) /\ issued' = issued /\ users' = users /\ session_id' = session_id
        /\ own'[t] = own[t] /\ ctx'[t] = ctx[t]
    BY <1>5 DEF Quiet, fields, Walk, Stays
  <2>2. Running(t) # NoCall
    BY <1>5, RunningHolds, NoCallAssumption DEF InOnRecv
  <2>3. Running(t)' = NoCall
    <3>1. ctx[t] # "api"
      BY <1>0, <1>5 DEF Control, ControlOf, ApiLocations
    <3>2. QED
      BY <1>5, <2>1, <3>1 DEF Running
  <2>4. running' = [running EXCEPT ![t] = NoCall]
    <3>1. \A u \in Workers \ {t} : Running(u)' = Running(u)
      BY <2>1, RunningKept
    <3>2. QED
      BY <2>3, <3>1
  <2>5. Service!RecvEnd(t)
    BY <1>5, <2>1, <2>2, <2>4 DEF Service!RecvEnd
  <2>6. QED
    BY <1>5, <2>5 DEF Service!Next
<1>6. CASE Quiet(t) /\ (Fault(t) \/ Answer(t) \/ Request(t) \/ Look(t))
  <2>1. t \in Workers => InOnRecv(t)' = InOnRecv(t) /\ (InOnRecv(t) => own'[t] = own[t])
    BY <1>6, HomeOf DEF Fault, Answer, Returns, Request, Look, InOnRecv
  <2>2. QED
    BY <1>2, <1>6, <2>1 DEF Quiet, fields
<1>7. CASE \/ RecvPosted(t) \/ SendPosted(t) \/ Pended(t) \/ Disconnected(t) \/ Cancelled(t)
           \/ Closed(t) \/ Announced(t)
           \/ \E s \in Slots : t = Acceptor /\ Popped(s)
           \/ \E s \in Slots, p \in Packets : t \in Workers /\ Taken(t, s, p)
           \/ t = Acceptor /\ AcceptOpen /\ Step(t, "acc_count")
           \/ TryClear(t) /\ Step(t, "try_size")
           \/ SendExchange(t) /\ \E l \in {"dec", "sp_size"} : Step(t, l)
           \/ SendClear(t) /\ Step(t, "pend_check")
           \/ Enqueue(t) /\ \E l \in {"pend_check", "disc_xchg"} : Step(t, l)
           \/ ReleasePush(t) /\ Step(t, "rel_count")
  <2>1. OnlyMoves(t)
    BY <1>7 DEF RecvPosted, SendPosted, Pended, Disconnected, Cancelled, Popped, Step, Closed,
                Announced, Taken
  <2>2. issued' = issued /\ users' = users /\ session_id' = session_id
    BY <1>7 DEF RecvPosted, SendPosted, Pended, Disconnected, Cancelled, Popped, Step, Closed,
                Announced, Taken, AcceptOpen, TryClear, SendExchange, SendClear, Enqueue,
                ReleasePush, fields, session, server, app
  <2>3. t \in Workers => InOnRecv(t)' = InOnRecv(t) /\ (InOnRecv(t) => own'[t] = own[t])
    BY <1>7, HomeOf DEF RecvPosted, SendPosted, Pended, Disconnected, Cancelled, Popped, Step,
                Stays, Leaves, Closed, Announced, Returns, Taken, Dispatch, TryClear,
                SendExchange, SendClear, Enqueue, ReleasePush, InOnRecv
  <2>4. QED
    BY <1>2, <2>1, <2>2, <2>3
<1>8. CASE \/ t = Acceptor /\ AcceptInit /\ Step(t, "acc_open")
           \/ ReleaseClear(t) /\ Step(t, "rel_push")
  <2>1. /\ OnlyMoves(t) /\ Stays(t) /\ issued' = issued /\ users' = users
        /\ \A s \in Slots : s # own[t] => session_id'[s] = session_id[s]
        /\ pc[t] \in {"acc_init", "rel_clear"} /\ pc'[t] \in {"acc_open", "rel_push"}
    BY <1>0, <1>8 DEF AcceptInit, ReleaseClear, Step, app, TypeOK
  <2>2. own[t] \in Slots /\ (Releaser(t, own[t]) \/ Accepting(own[t]))
    BY <1>0, <1>8, <2>1, Working DEF AcceptInit, ReleaseClear, Accepting, Releaser
  <2>3. release_flag[own[t]] = 1
    BY <1>0, <2>2, FreeIsClosed
  <2>4. QED
    BY <1>2, <2>1, <2>3 DEF InOnRecv, Stays
<1>9. CASE t = Acceptor /\ AcceptJoin /\ \E l \in {"crash", "recv_check"} : Step(t, l)
  <2> DEFINE id == Current(own[t])
  <2>1. /\ OnlyMoves(t) /\ session_id' = session_id /\ pc[t] = "acc_join"
        /\ issued' = issued \cup {id} /\ users' = users \cup {id}
    BY <1>9 DEF AcceptJoin, Step, session, Current
  <2>2. own[t] \in Slots /\ Joining(own[t]) /\ Named
    BY <1>0, <1>9, <2>1, Working DEF Joining, Named
  <2>3. id \in ApiIds /\ id \notin issued
    <3>1. id.id = m_sessID - 1 /\ \A i \in issued : i.id < m_sessID - 1
      BY <1>9, <2>2 DEF IssuedInOrder, Current
    <3>2. m_sessID \in Nat
      BY <1>0 DEF TypeOK
    <3>3. QED
      BY <1>0, <2>2, <3>1, <3>2 DEF Current, ApiIds, TypeOK
  <2>4. \A other \in users : other.slot # id.slot
    <3> SUFFICES ASSUME NEW other \in users, other.slot = id.slot PROVE FALSE
      OBVIOUS
    <3>1. other = Current(own[t])
      BY <1>0 DEF UsersArePresent, Current
    <3>2. Present(own[t])
      BY <1>0, <2>2, <3>1 DEF UsersArePresent
    <3>3. QED
      BY <1>0, <2>2, <3>2, LeavingIsClosed
  <2>5. running' = running
    BY <1>9, <2>1, RunningKept
  <2>6. Service!Join(id)
    BY <2>1, <2>3, <2>4, <2>5 DEF Service!Join
  <2>7. QED
    BY <2>3, <2>6 DEF Service!Next
<1>10. CASE ReleaseLeave(t) /\ \E l \in {"crash", "rel_clear"} : Step(t, l)
  <2> DEFINE id == Current(own[t])
  <2>1. /\ OnlyMoves(t) /\ Stays(t) /\ session_id' = session_id /\ issued' = issued
        /\ pc[t] = "rel_leave" /\ pc'[t] = "rel_clear"
        /\ id \in users /\ users' = users \ {id}
    BY <1>0, <1>10 DEF ReleaseLeave, Step, Goto, session, Current, NoCrash, TypeOK
  <2>2. own[t] \in Slots /\ release_flag[own[t]] = 1
    BY <1>0, <2>1, Working, FreeIsClosed DEF Releaser
  <2>3. running' = running
    BY <2>1, RunningKept DEF InOnRecv, Stays
  <2>4. \A u \in Workers : running[u] # id
    BY <2>2, NobodyRuns
  <2>5. Service!Leave(id)
    BY <2>1, <2>3, <2>4 DEF Service!Leave
  <2>6. QED
    BY <1>0, <2>1, <2>5 DEF Service!Next
<1>11. QED
  BY <1>1, <1>3, <1>4, <1>5, <1>6, <1>7, <1>8, <1>9, <1>10 DEF Loud

\* Every behaviour of the server is one the application was promised: OnClientJoin
\* once for an id nobody has seen, OnClientLeave once after it, OnRecv only between
\* the two and never twice at a time for one session.
THEOREM ServerKeepsContract == Spec => Contract
<1>1. Init => SessionInv /\ IssuedInOrder
  BY InitSession, HomeOf, Roles DEF Init, IssuedInOrder, Named
<1>2. SessionInv /\ IssuedInOrder /\ [Next]_vars => (SessionInv /\ IssuedInOrder)'
  BY NextSession, NextIssued DEF SessionInv
<1>3. SessionInv /\ IssuedInOrder /\ SessionInv' /\ [Next]_vars
        => [Service!Next]_(Service!vars)
  BY StepContract DEF SessionInv
<1>4. QED
  BY <1>1, <1>2, <1>3, InitContract, PTL DEF Spec, Contract, Service!Spec

-----------------------------------------------------------------------------
(***************************************************************************)
(* No packet is forgotten.  Behind a send_post_flag that is set there is a *)
(* send, a request for one, or a thread that will post one or disconnect   *)
(* the session (AllArmed).  Who puts a packet in send_q, or finds one      *)
(* left, either gets the flag or finds it set, and then the one behind the *)
(* flag looks at send_q after clearing it (AllServed).                     *)
(***************************************************************************)

\* t is to post or to request the send send_post_flag stands for, or is about to
\* disconnect s.
Arms(t, s) == SendTurn(t, s) \/ Disconnecting(t, s)
Armed(s)   == release_flag[s] = 0 /\ disconnect[s] = 0 /\ send_post_flag[s] = 1 =>
                SendLoad(s) > 0 \/ \E t \in Threads : Arms(t, s)
AllArmed   == \A s \in Slots : Armed(s)

\* A session opens with send_post_flag clear.
OpensClear == pc[Acceptor] = "acc_open" => send_post_flag[own[Acceptor]] = 0

\* t is going to look at send_q of s, or to disconnect s.
SendLocations == {"try_clear", "try_size", "sp_check", "sp_xchg", "sp_size", "sp_clear",
                  "pend_check", "pend_xchg", "disc_xchg"}
Serves(t, s) == Obj(t) = s /\ (pc[t] \in SendLocations \/ PostRef(t, s))
Served(s)    == release_flag[s] = 0 /\ disconnect[s] = 0 /\ send_q[s] > 0 =>
                  SendLoad(s) > 0 \/ \E t \in Threads : Serves(t, s)
AllServed    == \A s \in Slots : Served(s)

\* What t has to see to when it stops arming s.
LEMMA ArmedKept ==
  ASSUME NEW s \in Slots, Armed(s), NEW t \in Threads, OnlyMoves(t),
         release_flag'[s] = 0 /\ disconnect'[s] = 0 /\ send_post_flag'[s] = 1 =>
            /\ release_flag[s] = 0 /\ disconnect[s] = 0 /\ send_post_flag[s] = 1
            /\ Arms(t, s) => Arms(t, s)' \/ SendLoad(s)' > 0
            /\ SendLoad(s) > 0 => Arms(t, s)' \/ SendLoad(s)' > 0
  PROVE  Armed(s)'
<1>1. \A u \in Threads \ {t} : Arms(u, s) => Arms(u, s)'
  BY OthersTurns, OthersStay DEF Arms, Disconnecting, PostRef
<1>2. QED
  BY <1>1 DEF Armed

\* What t has to see to when it stops serving s.
LEMMA ServedKept ==
  ASSUME NEW s \in Slots, Served(s), NEW t \in Threads, OnlyMoves(t),
         release_flag'[s] = 0 /\ disconnect'[s] = 0 /\ send_q'[s] > 0 =>
            /\ release_flag[s] = 0 /\ disconnect[s] = 0 /\ send_q[s] > 0
            /\ Serves(t, s) => Serves(t, s)' \/ SendLoad(s)' > 0
            /\ SendLoad(s) > 0 => Serves(t, s)' \/ SendLoad(s)' > 0
  PROVE  Served(s)'
<1>1. \A u \in Threads \ {t} : Serves(u, s) => Serves(u, s)'
  BY OthersStay DEF Serves, PostRef
<1>2. QED
  BY <1>1 DEF Served

\* Who finds send_post_flag set leaves the packets to whom it is set for.
LEMMA ArmedIsServed ==
  ASSUME TypeOK, Control, NEW s \in Slots, NEW t \in Threads, Arms(t, s)
  PROVE  Serves(t, s)
<1>1. pc[t] \in {"try_clear", "sp_size", "sp_clear"} => Obj(t) = own[t]
  BY DEF Control, ControlOf, Obj, ApiLocations
<1>2. QED
  BY <1>1 DEF Arms, SendTurn, Disconnecting, Serves, SendLocations

\* The steps that change the load of the send turn.
LEMMA SendLoads ==
  ASSUME TypeOK, Control, NEW t \in Threads,
         \/ LoadsSame
         \/ RecvPosted(t) \/ Cancelled(t) \/ Announced(t)
  PROVE  \A s \in Slots : SendLoad(s)' = SendLoad(s)
<1>1. CASE LoadsSame
  BY <1>1, SendLoadKept
<1>2. CASE RecvPosted(t) \/ Cancelled(t) \/ Announced(t)
  <2>1. own[t] \in Slots /\ Obj(t) \in Slots
    BY <1>2, Working DEF RecvPosted, Cancelled, Announced
  <2>2. \E q \in Slots, k \in Classes \ {"send", "SEND_PEND"} : LoadsMore(q, k)
    BY <1>2, <2>1 DEF RecvPosted, Cancelled, Announced, Classes, IoOps, Requests
  <2>3. QED
    BY <2>2, SendLoadKept
<1>3. QED
  BY <1>1, <1>2

\* Nobody sets send_post_flag between AcceptInit and AcceptOpen.
LEMMA NextClear ==
  ASSUME TurnInv, OpensClear, [Next]_vars
  PROVE  OpensClear'
<1> USE Roles
<1>0. /\ TypeOK /\ Control /\ CountIsReferences /\ Refusals /\ OpenWhileUsed /\ OnePhase
      /\ SlotInv
  BY DEF SlotInv, TurnInv
<1>1. PICK t \in Threads : \/ Quiet(t) /\ (Walk(t) \/ Fault(t) \/ Answer(t) \/ Request(t)
                                           \/ Look(t))
                           \/ Loud(t)
  BY <1>0, StepKinds DEF Kinds
<1> SUFFICES ASSUME pc'[Acceptor] = "acc_open" PROVE send_post_flag'[own'[Acceptor]] = 0
  BY DEF OpensClear
<1>2. CASE t = Acceptor /\ AcceptInit
  <2>1. own[t] \in Slots /\ own' = own
    BY <1>0, <1>2, Working DEF AcceptInit, Goto
  <2>2. QED
    BY <1>0, <1>2, <2>1 DEF AcceptInit, TypeOK
<1>3. CASE ~(t = Acceptor /\ AcceptInit)
  <2>1. OnlyMoves(t)
    BY <1>1 DEF Quiet, Loud, Popped, Step, RecvPosted, SendPosted, Pended,
                Disconnected, Cancelled, Closed, Announced, Taken
  <2>2. pc[Acceptor] = "acc_open" /\ own'[Acceptor] = own[Acceptor]
    <3>1. CASE t # Acceptor
      BY <2>1, <3>1, OthersStay
    <3>2. CASE t = Acceptor
      <4>1. CASE Quiet(t) /\ (Walk(t) \/ Fault(t) \/ Answer(t) \/ Request(t) \/ Look(t))
        BY <3>2, <4>1, HomeOf DEF Walk, Stays, Fault, Answer, Returns, Request, Look
      <4>2. CASE Loud(t)
        BY <1>3, <3>2, <4>2, HomeOf DEF Loud, Returns,
             Popped, Step, RecvPosted, SendPosted, Pended, Disconnected, Cancelled, Leaves,
             Closed, Announced, Taken, Dispatch
      <4>3. QED
        BY <1>1, <4>1, <4>2
    <3>3. QED
      BY <3>1, <3>2
  <2>3. own[Acceptor] \in Slots /\ release_flag[own[Acceptor]] = 1
    BY <1>0, <2>2, Working, FreeIsClosed DEF Accepting
  <2>4. send_post_flag'[own[Acceptor]] \in {0, send_post_flag[own[Acceptor]]}
    <3>1. CASE Pended(t)
      <4>1. /\ Obj(t) \in Slots /\ UsesOwn(t)
            /\ \A s \in Slots : s # Obj(t) => send_post_flag'[s] = send_post_flag[s]
        BY <1>0, <3>1, Working DEF Pended, UsesOwn, LiveLocations, TypeOK
      <4>2. release_flag[Obj(t)] = 0
        BY <1>0, <3>1, <4>1 DEF Pended, OpenWhileUsed, Obj, UsesCall, CallLocations
      <4>3. QED
        BY <2>3, <4>1, <4>2
    <3>2. CASE SendExchange(t)
      <4>1. /\ release_flag[own[t]] = 0
            /\ \A s \in Slots : s # own[t] => send_post_flag'[s] = send_post_flag[s]
        BY <1>0, <3>2 DEF SendExchange, OpenWhileUsed, UsesOwn, LiveLocations, TypeOK
      <4>2. QED
        BY <2>3, <4>1
    <3>3. CASE TryClear(t) \/ SendClear(t)
      BY <1>0, <2>3, <3>3 DEF TryClear, SendClear, TypeOK
    <3>4. CASE ~(Pended(t) \/ SendExchange(t) \/ TryClear(t) \/ SendClear(t))
      <4>1. send_post_flag' = send_post_flag
        BY <1>1, <1>3, <3>4 DEF Quiet, Loud, fields, Popped, Step, RecvPosted, SendPosted,
             Disconnected, Cancelled, Closed, Announced, Taken, AcceptOpen, AcceptJoin, Enqueue,
             ReleaseLeave, ReleaseClear, ReleasePush, session
      <4>2. QED
        BY <4>1
    <3>5. QED
      BY <3>1, <3>2, <3>3, <3>4
  <2>5. QED
    BY <2>2, <2>4 DEF OpensClear
<1>4. QED
  BY <1>2, <1>3

\* Behind a send_post_flag that is set there stays a send or somebody to post it.
LEMMA NextArmed ==
  ASSUME TurnInv, TurnInv', OpensClear, AllArmed, [Next]_vars
  PROVE  AllArmed'
<1> USE Roles
<1>0. /\ TypeOK /\ Control /\ CountIsReferences /\ Refusals /\ OpenWhileUsed /\ OnePhase
      /\ SlotInv
  BY DEF SlotInv, TurnInv
<1>1. PICK t \in Threads : \/ Quiet(t) /\ (Walk(t) \/ Fault(t) \/ Answer(t) \/ Request(t)
                                           \/ Look(t))
                           \/ Loud(t)
  BY <1>0, StepKinds DEF Kinds
<1>2. \A s \in Slots : SendLoad(s) \in Nat
  BY <1>0, SendLoadMoves
<1>3. ASSUME OnlyMoves(t), release_flag' = release_flag,
             \A s \in Slots : disconnect'[s] = 0 => disconnect[s] = 0,
             \A s \in Slots : send_post_flag'[s] = 1 => send_post_flag[s] = 1,
             \A s \in Slots : SendLoad(s)' = SendLoad(s),
             \A s \in Slots : disconnect'[s] = 0 /\ send_post_flag'[s] = 1 /\ Arms(t, s)
                => Arms(t, s)'
      PROVE  AllArmed'
  BY <1>3, ArmedKept DEF AllArmed
<1>4. CASE Quiet(t) /\ (Walk(t) \/ Fault(t) \/ Answer(t) \/ Request(t) \/ Look(t))
  <2>1. ASSUME NEW s \in Slots, Arms(t, s) PROVE Arms(t, s)'
    <3>1. CASE Walk(t)
      BY <2>1, <3>1 DEF Walk, Stays, Arms, SendTurn, Disconnecting, PostRef, Obj
    <3>2. CASE Fault(t) \/ Request(t)
      BY <2>1, <3>2 DEF Fault, Request, Arms, SendTurn, Disconnecting, PostRef
    <3>3. CASE Look(t)
      BY <2>1, <3>3 DEF Look, Arms, SendTurn, Disconnecting, PostRef
    <3>4. CASE Answer(t)
      BY <2>1, <3>4 DEF Answer, Returns, Arms, SendTurn, Disconnecting, PostRef, Obj
    <3>5. QED
      BY <1>4, <3>1, <3>2, <3>3, <3>4
  <2>2. \A s \in Slots : SendLoad(s)' = SendLoad(s)
    BY <1>4, SendLoadKept DEF Quiet
  <2>3. QED
    BY <1>3, <1>4, <2>1, <2>2 DEF Quiet, fields
<1>5. CASE \/ RecvPosted(t) \/ Cancelled(t) \/ Announced(t)
           \/ \E s \in Slots : t = Acceptor /\ Popped(s)
           \/ t = Acceptor /\ AcceptJoin /\ \E l \in {"crash", "recv_check"} : Step(t, l)
           \/ Enqueue(t) /\ \E l \in {"pend_check", "disc_xchg"} : Step(t, l)
           \/ ReleaseLeave(t) /\ \E l \in {"crash", "rel_clear"} : Step(t, l)
           \/ ReleaseClear(t) /\ Step(t, "rel_push")
           \/ ReleasePush(t) /\ Step(t, "rel_count")
  <2>1. /\ OnlyMoves(t) /\ release_flag' = release_flag /\ disconnect' = disconnect
        /\ send_post_flag' = send_post_flag
        /\ LoadsSame \/ RecvPosted(t) \/ Cancelled(t) \/ Announced(t)
    BY <1>5 DEF RecvPosted, Cancelled, Announced, Popped, Step, AcceptJoin, Enqueue,
                ReleaseLeave, ReleaseClear, ReleasePush, fields, session
  <2>2. \A s \in Slots : ~Arms(t, s)
    BY <1>5 DEF RecvPosted, Cancelled, Announced, Popped, AcceptJoin, Enqueue, ReleaseLeave,
                ReleaseClear, ReleasePush, Arms, SendTurn, Disconnecting, PostRef
  <2>3. QED
    BY <1>0, <1>3, <2>1, <2>2, SendLoads
<1>6. CASE t = Acceptor /\ AcceptInit /\ Step(t, "acc_open")
  <2>1. /\ OnlyMoves(t) /\ release_flag' = release_flag /\ LoadsSame /\ pc[t] = "acc_init"
        /\ \A s \in Slots : send_post_flag'[s] = IF s = own[t] THEN 0 ELSE send_post_flag[s]
        /\ \A s \in Slots : s # own[t] => disconnect'[s] = disconnect[s]
    BY <1>0, <1>6 DEF AcceptInit, Step, TypeOK
  <2>2. \A s \in Slots : ~Arms(t, s)
    BY <2>1 DEF Arms, SendTurn, Disconnecting, PostRef
  <2>3. \A s \in Slots : SendLoad(s)' = SendLoad(s)
    BY <2>1, SendLoadKept
  <2>4. QED
    BY <2>1, <2>2, <2>3, ArmedKept DEF AllArmed
<1>7. CASE t = Acceptor /\ AcceptOpen /\ Step(t, "acc_count")
  <2>1. /\ OnlyMoves(t) /\ disconnect' = disconnect /\ LoadsSame /\ pc[t] = "acc_open"
        /\ send_post_flag' = send_post_flag
        /\ \A s \in Slots : s # own[t] => release_flag'[s] = release_flag[s]
    BY <1>0, <1>7 DEF AcceptOpen, Step, TypeOK
  <2>2. send_post_flag[own[t]] = 0
    BY <1>7, <2>1 DEF OpensClear
  <2>3. \A s \in Slots : ~Arms(t, s)
    BY <2>1 DEF Arms, SendTurn, Disconnecting, PostRef
  <2>4. \A s \in Slots : SendLoad(s)' = SendLoad(s)
    BY <2>1, SendLoadKept
  <2>5. QED
    BY <2>1, <2>2, <2>3, <2>4, ArmedKept DEF AllArmed
<1>8. CASE Closed(t)
  <2>1. /\ OnlyMoves(t) /\ disconnect' = disconnect /\ LoadsSame /\ pc[t] = "rp_cas"
        /\ send_post_flag' = send_post_flag
        /\ release_flag' = [release_flag EXCEPT ![Obj(t)] = 1]
    BY <1>8 DEF Closed, Step
  <2>2. \A s \in Slots : release_flag'[s] = 0 => release_flag[s] = 0
    BY <1>0, <2>1 DEF TypeOK
  <2>3. \A s \in Slots : ~Arms(t, s)
    BY <2>1 DEF Arms, SendTurn, Disconnecting, PostRef
  <2>4. \A s \in Slots : SendLoad(s)' = SendLoad(s)
    BY <2>1, SendLoadKept
  <2>5. QED
    BY <2>1, <2>2, <2>3, <2>4, ArmedKept DEF AllArmed
<1>9. CASE Disconnected(t)
  <2>1. /\ OnlyMoves(t) /\ release_flag' = release_flag /\ LoadsSame /\ pc[t] = "disc_xchg"
        /\ send_post_flag' = send_post_flag
        /\ \A s \in Slots : disconnect'[s] = IF s = Obj(t) THEN 1 ELSE disconnect[s]
    BY <1>0, <1>9 DEF Disconnected, TypeOK
  <2>2. \A s \in Slots : Arms(t, s) => s = Obj(t)
    BY <2>1 DEF Arms, SendTurn, Disconnecting
  <2>3. \A s \in Slots : SendLoad(s)' = SendLoad(s)
    BY <2>1, SendLoadKept
  <2>4. QED
    BY <1>3, <2>1, <2>2, <2>3
<1>10. CASE \/ TryClear(t) /\ Step(t, "try_size")
            \/ SendClear(t) /\ Step(t, "pend_check")
  <2>1. /\ OnlyMoves(t) /\ release_flag' = release_flag /\ disconnect' = disconnect
        /\ LoadsSame /\ pc[t] \in {"try_clear", "sp_clear"}
        /\ \A s \in Slots : send_post_flag'[s] = IF s = own[t] THEN 0 ELSE send_post_flag[s]
    BY <1>0, <1>10 DEF TryClear, SendClear, Step, TypeOK
  <2>2. \A s \in Slots : Arms(t, s) => s = own[t]
    BY <2>1 DEF Arms, SendTurn, Disconnecting, PostRef
  <2>3. \A s \in Slots : SendLoad(s)' = SendLoad(s)
    BY <2>1, SendLoadKept
  <2>4. QED
    BY <1>3, <2>1, <2>2, <2>3
<1>11. CASE SendExchange(t) /\ \E l \in {"dec", "sp_size"} : Step(t, l)
  <2>1. /\ OnlyMoves(t) /\ release_flag' = release_flag /\ disconnect' = disconnect
        /\ LoadsSame /\ pc[t] = "sp_xchg" /\ own'[t] = own[t]
        /\ send_post_flag[own[t]] # 1 => pc'[t] = "sp_size"
        /\ \A s \in Slots : send_post_flag'[s] = IF s = own[t] THEN 1 ELSE send_post_flag[s]
    BY <1>0, <1>11 DEF SendExchange, Step, Stays, Goto, TypeOK
  <2>2. \A s \in Slots : ~Arms(t, s)
    BY <2>1 DEF Arms, SendTurn, Disconnecting, PostRef
  <2>3. \A s \in Slots : SendLoad(s)' = SendLoad(s)
    BY <2>1, SendLoadKept
  <2> SUFFICES ASSUME NEW s \in Slots PROVE Armed(s)'
    BY DEF AllArmed
  <2>4. CASE s = own[t] /\ send_post_flag[s] # 1
    <3>1. Arms(t, s)'
      BY <2>1, <2>4 DEF Arms, SendTurn
    <3>2. QED
      BY <3>1 DEF Armed
  <2>5. CASE s # own[t] \/ send_post_flag[s] = 1
    BY <2>1, <2>2, <2>3, <2>5, ArmedKept DEF AllArmed
  <2>6. QED
    BY <2>4, <2>5
<1>12. CASE Pended(t)
  <2>1. /\ OnlyMoves(t) /\ Obj(t) \in Slots /\ pc[t] = "pend_xchg"
        /\ release_flag' = release_flag /\ disconnect' = disconnect
        /\ \/ send_post_flag[Obj(t)] = 1 /\ LoadsSame
           \/ send_post_flag[Obj(t)] # 1 /\ LoadsMore(Obj(t), "SEND_PEND")
        /\ \A s \in Slots : send_post_flag'[s] = IF s = Obj(t) THEN 1 ELSE send_post_flag[s]
    BY <1>0, <1>12, Working DEF Pended, TypeOK
  <2>2. \A s \in Slots : ~Arms(t, s)
    BY <2>1 DEF Arms, SendTurn, Disconnecting, PostRef
  <2> SUFFICES ASSUME NEW s \in Slots PROVE Armed(s)'
    BY DEF AllArmed
  <2>3. CASE send_post_flag[Obj(t)] = 1 /\ LoadsSame
    <3>1. SendLoad(s)' = SendLoad(s)
      BY <2>3, SendLoadKept
    <3>2. QED
      BY <2>1, <2>2, <2>3, <3>1, ArmedKept DEF AllArmed
  <2>4. CASE send_post_flag[Obj(t)] # 1 /\ LoadsMore(Obj(t), "SEND_PEND")
    <3>1. SendLoad(s)' = IF s = Obj(t) THEN SendLoad(s) + 1 ELSE SendLoad(s)
      BY <1>0, <2>1, <2>4, SendLoadMoves
    <3>2. CASE s = Obj(t)
      BY <1>2, <3>1, <3>2 DEF Armed
    <3>3. CASE s # Obj(t)
      BY <2>1, <2>2, <3>1, <3>3, ArmedKept DEF AllArmed
    <3>4. QED
      BY <3>2, <3>3
  <2>5. QED
    BY <2>1, <2>3, <2>4
<1>13. CASE SendPosted(t)
  <2>1. /\ OnlyMoves(t) /\ own[t] \in Slots /\ pc[t] = "sp_size" /\ pc'[t] = "dec"
        /\ own'[t] = own[t] /\ release_flag' = release_flag /\ disconnect' = disconnect
        /\ send_post_flag' = send_post_flag
        /\ \/ ctx'[t] = "io" /\ LoadsMore(own[t], "send")
           \/ ctx'[t] = "postfail" /\ LoadsSame
    BY <1>0, <1>13, Working DEF SendPosted
  <2>2. \A s \in Slots : Arms(t, s) => s = own[t]
    BY <2>1 DEF Arms, SendTurn, Disconnecting, PostRef
  <2> SUFFICES ASSUME NEW s \in Slots PROVE Armed(s)'
    BY DEF AllArmed
  <2>3. CASE ctx'[t] = "io" /\ LoadsMore(own[t], "send")
    <3>1. SendLoad(s)' = IF s = own[t] THEN SendLoad(s) + 1 ELSE SendLoad(s)
      BY <1>0, <2>1, <2>3, SendLoadMoves
    <3>2. CASE s = own[t]
      BY <1>2, <3>1, <3>2 DEF Armed
    <3>3. CASE s # own[t]
      BY <2>1, <2>2, <3>1, <3>3, ArmedKept DEF AllArmed
    <3>4. QED
      BY <3>2, <3>3
  <2>4. CASE ctx'[t] = "postfail" /\ LoadsSame
    <3>1. SendLoad(s)' = SendLoad(s)
      BY <2>4, SendLoadKept
    <3>2. s = own[t] => Arms(t, s)'
      BY <2>1, <2>4 DEF Arms, Disconnecting, PostRef, Obj
    <3>3. QED
      BY <2>1, <2>2, <3>1, <3>2, ArmedKept DEF AllArmed
  <2>5. QED
    BY <2>1, <2>3, <2>4
<1>14. ASSUME NEW q \in Slots, NEW p \in Packets, t \in Workers, Taken(t, q, p)
       PROVE  AllArmed'
  <2>1. /\ OnlyMoves(t) /\ UNCHANGED fields /\ LoadsLess(q, ClassOf(p)) /\ pc[t] = "gqcs"
        /\ pc'[t] = Dispatch(q, p) /\ own'[t] = q /\ ctx'[t] = "io"
    BY <1>14 DEF Taken
  <2>2. \A s \in Slots : ~Arms(t, s)
    BY <2>1 DEF Arms, SendTurn, Disconnecting, PostRef
  <2>3. CASE p \in {"SEND", "SEND0", "SEND_PEND"}
    <3>1. ClassOf(p) \in {"send", "SEND_PEND"}
      BY <2>3 DEF ClassOf
    <3>2. Arms(t, q)'
      BY <2>1, <2>3 DEF Dispatch, Arms, SendTurn, Disconnecting, Obj
    <3>3. \A s \in Slots : s # q => SendLoad(s)' = SendLoad(s)
      BY <1>0, <2>1, <3>1, SendLoadMoves
    <3>4. QED
      BY <2>1, <2>2, <3>2, <3>3, ArmedKept DEF AllArmed, fields
  <2>4. CASE p \notin {"SEND", "SEND0", "SEND_PEND"}
    <3>1. ClassOf(p) \in Classes \ {"send", "SEND_PEND"}
      BY <2>4 DEF ClassOf, Packets, Classes, IoOps, Requests
    <3>2. \A s \in Slots : SendLoad(s)' = SendLoad(s)
      BY <2>1, <3>1, SendLoadKept
    <3>3. QED
      BY <1>3, <2>1, <2>2, <3>2 DEF fields
  <2>5. QED
    BY <2>3, <2>4
<1>15. QED
  BY <1>1, <1>4, <1>5, <1>6, <1>7, <1>8, <1>9, <1>10, <1>11, <1>12, <1>13, <1>14 DEF Loud

\* While send_q is not empty somebody stays on the way to it.
LEMMA NextServed ==
  ASSUME TurnInv, TurnInv', AllArmed, AllServed, [Next]_vars
  PROVE  AllServed'
<1> USE Roles
<1>0. /\ TypeOK /\ Control /\ CountIsReferences /\ Refusals /\ OpenWhileUsed /\ OnePhase
      /\ SlotInv
  BY DEF SlotInv, TurnInv
<1>1. PICK t \in Threads : \/ Quiet(t) /\ (Walk(t) \/ Fault(t) \/ Answer(t) \/ Request(t)
                                           \/ Look(t))
                           \/ Loud(t)
  BY <1>0, StepKinds DEF Kinds
<1>2. \A s \in Slots : SendLoad(s) \in Nat
  BY <1>0, SendLoadMoves
<1>3. ASSUME OnlyMoves(t), release_flag' = release_flag,
             \A s \in Slots : disconnect'[s] = 0 => disconnect[s] = 0,
             \A s \in Slots : send_q'[s] > 0 => send_q[s] > 0,
             \A s \in Slots : SendLoad(s)' = SendLoad(s),
             \A s \in Slots : disconnect'[s] = 0 /\ send_q'[s] > 0 /\ Serves(t, s)
                => Serves(t, s)'
      PROVE  AllServed'
  BY <1>3, ServedKept DEF AllServed
<1>4. pc[t] \in {"try_clear", "try_size", "sp_check", "sp_xchg", "sp_size", "sp_clear"}
         => ctx[t] = "io" /\ Obj(t) = own[t]
  BY <1>0 DEF Control, ControlOf, Obj, ApiLocations, TypeOK, Contexts
<1>5. CASE Quiet(t) /\ Walk(t)
  <2>1. ASSUME NEW s \in Slots, disconnect[s] = 0, send_q[s] > 0, Serves(t, s)
        PROVE  Serves(t, s)'
    <3>1. Stays(t) /\ Obj(t)' = Obj(t)
      BY <1>5 DEF Walk, Stays, Obj
    <3>2. pc[t] \in SendLocations /\ Obj(t) = s => pc'[t] \in SendLocations
      BY <1>4, <1>5, <2>1 DEF Walk, SendLocations
    <3>3. PostRef(t, s) => PostRef(t, s)'
      BY <1>5, <3>1 DEF Walk, Stays, PostRef
    <3>4. QED
      BY <2>1, <3>1, <3>2, <3>3 DEF Serves
  <2>2. \A s \in Slots : SendLoad(s)' = SendLoad(s)
    BY <1>5, SendLoadKept DEF Quiet
  <2>3. QED
    BY <1>3, <1>5, <2>1, <2>2 DEF Quiet, fields
<1>6. CASE Quiet(t) /\ (Fault(t) \/ Request(t) \/ Look(t) \/ Answer(t))
  <2>1. ASSUME NEW s \in Slots, Serves(t, s) PROVE Serves(t, s)'
    <3>1. CASE Fault(t) \/ Request(t) \/ Look(t)
      BY <2>1, <3>1 DEF Fault, Request, Look, Serves, SendLocations, PostRef
    <3>2. CASE Answer(t)
      BY <2>1, <3>2 DEF Answer, Returns, Serves, SendLocations, PostRef, Obj
    <3>3. QED
      BY <1>6, <3>1, <3>2
  <2>2. \A s \in Slots : SendLoad(s)' = SendLoad(s)
    BY <1>6, SendLoadKept DEF Quiet
  <2>3. QED
    BY <1>3, <1>6, <2>1, <2>2 DEF Quiet, fields
<1>7. CASE \/ RecvPosted(t) \/ Cancelled(t) \/ Announced(t)
           \/ \E s \in Slots : t = Acceptor /\ Popped(s)
           \/ t = Acceptor /\ AcceptJoin /\ \E l \in {"crash", "recv_check"} : Step(t, l)
           \/ ReleaseLeave(t) /\ \E l \in {"crash", "rel_clear"} : Step(t, l)
           \/ ReleaseClear(t) /\ Step(t, "rel_push")
           \/ ReleasePush(t) /\ Step(t, "rel_count")
  <2>1. /\ OnlyMoves(t) /\ release_flag' = release_flag /\ disconnect' = disconnect
        /\ LoadsSame \/ RecvPosted(t) \/ Cancelled(t) \/ Announced(t)
    BY <1>7 DEF RecvPosted, Cancelled, Announced, Popped, Step, AcceptJoin,
                ReleaseLeave, ReleaseClear, ReleasePush, fields, session
  <2>2. \A s \in Slots : send_q'[s] > 0 => send_q[s] > 0
    <3>1. CASE ReleaseClear(t)
      BY <1>0, <3>1 DEF ReleaseClear, TypeOK
    <3>2. CASE ~ReleaseClear(t)
      BY <1>7, <3>2 DEF RecvPosted, Cancelled, Announced, Popped, AcceptJoin, ReleaseLeave,
                        ReleasePush, fields, session
    <3>3. QED
      BY <3>1, <3>2
  <2>3. \A s \in Slots : ~Serves(t, s)
    BY <1>7 DEF RecvPosted, Cancelled, Announced, Popped, AcceptJoin, ReleaseLeave,
                ReleaseClear, ReleasePush, Serves, SendLocations, PostRef
  <2>4. QED
    BY <1>0, <1>3, <2>1, <2>2, <2>3, SendLoads
<1>8. CASE t = Acceptor /\ AcceptInit /\ Step(t, "acc_open")
  <2>1. /\ OnlyMoves(t) /\ release_flag' = release_flag /\ LoadsSame /\ pc[t] = "acc_init"
        /\ send_q' = send_q
        /\ \A s \in Slots : s # own[t] => disconnect'[s] = disconnect[s]
    BY <1>0, <1>8 DEF AcceptInit, Step, TypeOK
  <2>2. own[t] \in Slots /\ release_flag[own[t]] = 1
    BY <1>0, <1>8, <2>1, Working, FreeIsClosed DEF Accepting
  <2>3. \A s \in Slots : ~Serves(t, s)
    BY <2>1 DEF Serves, SendLocations, PostRef
  <2>4. \A s \in Slots : SendLoad(s)' = SendLoad(s)
    BY <2>1, SendLoadKept
  <2>5. QED
    BY <2>1, <2>2, <2>3, <2>4, ServedKept DEF AllServed
<1>9. CASE t = Acceptor /\ AcceptOpen /\ Step(t, "acc_count")
  <2>1. /\ OnlyMoves(t) /\ disconnect' = disconnect /\ LoadsSame /\ pc[t] = "acc_open"
        /\ send_q' = send_q
        /\ \A s \in Slots : s # own[t] => release_flag'[s] = release_flag[s]
    BY <1>0, <1>9 DEF AcceptOpen, Step, TypeOK
  <2>2. own[t] \in Slots /\ send_q[own[t]] = 0
    BY <1>0, <1>9, <2>1, Working DEF Accepting, SlotInv, Emptied
  <2>3. \A s \in Slots : ~Serves(t, s)
    BY <2>1 DEF Serves, SendLocations, PostRef
  <2>4. \A s \in Slots : SendLoad(s)' = SendLoad(s)
    BY <2>1, SendLoadKept
  <2>5. QED
    BY <2>1, <2>2, <2>3, <2>4, ServedKept DEF AllServed
<1>10. CASE Closed(t)
  <2>1. /\ OnlyMoves(t) /\ disconnect' = disconnect /\ LoadsSame /\ pc[t] = "rp_cas"
        /\ send_q' = send_q
        /\ release_flag' = [release_flag EXCEPT ![Obj(t)] = 1]
    BY <1>10 DEF Closed, Step
  <2>2. \A s \in Slots : release_flag'[s] = 0 => release_flag[s] = 0
    BY <1>0, <2>1 DEF TypeOK
  <2>3. \A s \in Slots : ~Serves(t, s)
    BY <2>1 DEF Serves, SendLocations, PostRef
  <2>4. \A s \in Slots : SendLoad(s)' = SendLoad(s)
    BY <2>1, SendLoadKept
  <2>5. QED
    BY <2>1, <2>2, <2>3, <2>4, ServedKept DEF AllServed
<1>11. CASE Disconnected(t)
  <2>1. /\ OnlyMoves(t) /\ release_flag' = release_flag /\ LoadsSame /\ send_q' = send_q
        /\ \A s \in Slots : disconnect'[s] = IF s = Obj(t) THEN 1 ELSE disconnect[s]
    BY <1>0, <1>11 DEF Disconnected, TypeOK
  <2>2. \A s \in Slots : Serves(t, s) => s = Obj(t)
    BY DEF Serves
  <2>3. \A s \in Slots : SendLoad(s)' = SendLoad(s)
    BY <2>1, SendLoadKept
  <2>4. QED
    BY <1>3, <2>1, <2>2, <2>3
<1>12. CASE \/ TryClear(t) /\ Step(t, "try_size")
            \/ SendClear(t) /\ Step(t, "pend_check")
  <2>1. /\ OnlyMoves(t) /\ Stays(t) /\ release_flag' = release_flag
        /\ disconnect' = disconnect /\ send_q' = send_q /\ LoadsSame
        /\ pc'[t] \in {"try_size", "pend_check"}
    BY <1>12 DEF TryClear, SendClear, Step
  <2>2. \A s \in Slots : Serves(t, s) => Serves(t, s)'
    BY <2>1 DEF Serves, SendLocations, Stays, Obj
  <2>3. \A s \in Slots : SendLoad(s)' = SendLoad(s)
    BY <2>1, SendLoadKept
  <2>4. QED
    BY <1>3, <2>1, <2>2, <2>3
<1>13. CASE SendExchange(t) /\ \E l \in {"dec", "sp_size"} : Step(t, l)
  <2>1. /\ OnlyMoves(t) /\ release_flag' = release_flag /\ disconnect' = disconnect
        /\ LoadsSame /\ pc[t] = "sp_xchg" /\ Stays(t) /\ Obj(t)' = Obj(t)
        /\ send_q' = send_q /\ Obj(t) = own[t]
        /\ send_post_flag[own[t]] # 1 => pc'[t] = "sp_size"
    BY <1>0, <1>4, <1>13 DEF SendExchange, Step, Stays, Goto, TypeOK, Obj
  <2>2. \A s \in Slots : SendLoad(s)' = SendLoad(s)
    BY <2>1, SendLoadKept
  <2> SUFFICES ASSUME NEW s \in Slots PROVE Served(s)'
    BY DEF AllServed
  <2>3. CASE s # own[t] \/ send_post_flag[s] # 1
    <3>1. Serves(t, s) => Serves(t, s)'
      BY <2>1, <2>3 DEF Serves, SendLocations
    <3>2. QED
      BY <2>1, <2>2, <3>1, ServedKept DEF AllServed
  <2>4. CASE s = own[t] /\ send_post_flag[s] = 1
    <3>1. ~Arms(t, s)
      BY <2>1 DEF Arms, SendTurn, Disconnecting, PostRef
    <3>2. \A u \in Threads \ {t} : Arms(u, s) => Serves(u, s)'
      BY <1>0, <2>1, ArmedIsServed, OthersStay DEF Serves, PostRef
    <3>3. QED
      BY <2>1, <2>2, <2>4, <3>1, <3>2 DEF AllArmed, Armed, Served
  <2>5. QED
    BY <2>3, <2>4
<1>14. CASE Enqueue(t) /\ \E l \in {"pend_check", "disc_xchg"} : Step(t, l)
  <2>1. /\ OnlyMoves(t) /\ release_flag' = release_flag /\ disconnect' = disconnect
        /\ LoadsSame /\ pc[t] = "enqueue" /\ Stays(t) /\ Obj(t)' = Obj(t)
        /\ pc'[t] \in {"pend_check", "disc_xchg"}
    BY <1>14 DEF Enqueue, Step, Stays, Obj
  <2>2. Obj(t) = call[t].slot /\ \A s \in Slots : s # Obj(t) => send_q'[s] = send_q[s]
    BY <1>0, <1>14, <2>1 DEF Enqueue, Obj, Control, ControlOf, ApiLocations, TypeOK
  <2>3. \A s \in Slots : SendLoad(s)' = SendLoad(s)
    BY <2>1, SendLoadKept
  <2>4. \A s \in Slots : s = Obj(t) => Serves(t, s)'
    BY <2>1 DEF Serves, SendLocations
  <2>5. \A s \in Slots : Serves(t, s) => s = Obj(t)
    BY DEF Serves
  <2> SUFFICES ASSUME NEW s \in Slots PROVE Served(s)'
    BY DEF AllServed
  <2>6. CASE s = Obj(t)
    BY <2>4, <2>6 DEF Served
  <2>7. CASE s # Obj(t)
    BY <2>1, <2>2, <2>3, <2>5, <2>7, ServedKept DEF AllServed
  <2>8. QED
    BY <2>6, <2>7
<1>15. CASE Pended(t)
  <2>1. /\ OnlyMoves(t) /\ Obj(t) \in Slots /\ pc[t] = "pend_xchg"
        /\ release_flag' = release_flag /\ disconnect' = disconnect /\ send_q' = send_q
        /\ \/ send_post_flag[Obj(t)] = 1 /\ LoadsSame
           \/ send_post_flag[Obj(t)] # 1 /\ LoadsMore(Obj(t), "SEND_PEND")
    BY <1>0, <1>15, Working DEF Pended
  <2>2. \A s \in Slots : Serves(t, s) => s = Obj(t)
    BY DEF Serves
  <2> SUFFICES ASSUME NEW s \in Slots PROVE Served(s)'
    BY DEF AllServed
  <2>3. CASE send_post_flag[Obj(t)] = 1 /\ LoadsSame
    <3>1. SendLoad(s)' = SendLoad(s)
      BY <2>3, SendLoadKept
    <3>2. CASE s # Obj(t)
      BY <2>1, <2>2, <3>1, <3>2, ServedKept DEF AllServed
    <3>3. CASE s = Obj(t)
      <4>1. ~Arms(t, s)
        BY <2>1 DEF Arms, SendTurn, Disconnecting, PostRef
      <4>2. \A u \in Threads \ {t} : Arms(u, s) => Serves(u, s)'
        BY <1>0, <2>1, ArmedIsServed, OthersStay DEF Serves, PostRef
      <4>3. QED
        BY <2>1, <2>3, <3>1, <3>3, <4>1, <4>2 DEF AllArmed, Armed, Served
    <3>4. QED
      BY <3>2, <3>3
  <2>4. CASE send_post_flag[Obj(t)] # 1 /\ LoadsMore(Obj(t), "SEND_PEND")
    <3>1. SendLoad(s)' = IF s = Obj(t) THEN SendLoad(s) + 1 ELSE SendLoad(s)
      BY <1>0, <2>1, <2>4, SendLoadMoves
    <3>2. CASE s = Obj(t)
      BY <1>2, <3>1, <3>2 DEF Served
    <3>3. CASE s # Obj(t)
      BY <2>1, <2>2, <3>1, <3>3, ServedKept DEF AllServed
    <3>4. QED
      BY <3>2, <3>3
  <2>5. QED
    BY <2>1, <2>3, <2>4
<1>16. CASE SendPosted(t)
  <2>1. /\ OnlyMoves(t) /\ own[t] \in Slots /\ pc[t] = "sp_size" /\ pc'[t] = "dec"
        /\ own'[t] = own[t] /\ release_flag' = release_flag /\ disconnect' = disconnect
        /\ Obj(t) = own[t]
        /\ \A s \in Slots : s # own[t] => send_q'[s] = send_q[s]
        /\ \/ ctx'[t] = "io" /\ LoadsMore(own[t], "send")
           \/ ctx'[t] = "postfail" /\ LoadsSame
    BY <1>0, <1>4, <1>16, Working DEF SendPosted, TypeOK
  <2>2. \A s \in Slots : Serves(t, s) => s = own[t]
    BY <2>1 DEF Serves
  <2> SUFFICES ASSUME NEW s \in Slots PROVE Served(s)'
    BY DEF AllServed
  <2>3. CASE ctx'[t] = "io" /\ LoadsMore(own[t], "send")
    <3>1. SendLoad(s)' = IF s = own[t] THEN SendLoad(s) + 1 ELSE SendLoad(s)
      BY <1>0, <2>1, <2>3, SendLoadMoves
    <3>2. CASE s = own[t]
      BY <1>2, <3>1, <3>2 DEF Served
    <3>3. CASE s # own[t]
      BY <2>1, <2>2, <3>1, <3>3, ServedKept DEF AllServed
    <3>4. QED
      BY <3>2, <3>3
  <2>4. CASE ctx'[t] = "postfail" /\ LoadsSame
    <3>1. SendLoad(s)' = SendLoad(s)
      BY <2>4, SendLoadKept
    <3>2. CASE s = own[t]
      BY <2>1, <2>4, <3>2 DEF Serves, PostRef, Obj, Served
    <3>3. CASE s # own[t]
      BY <2>1, <2>2, <3>1, <3>3, ServedKept DEF AllServed
    <3>4. QED
      BY <3>2, <3>3
  <2>5. QED
    BY <2>1, <2>3, <2>4
<1>17. ASSUME NEW q \in Slots, NEW p \in Packets, t \in Workers, Taken(t, q, p)
       PROVE  AllServed'
  <2>1. /\ OnlyMoves(t) /\ UNCHANGED fields /\ LoadsLess(q, ClassOf(p)) /\ pc[t] = "gqcs"
        /\ pc'[t] = Dispatch(q, p) /\ own'[t] = q /\ ctx'[t] = "io"
    BY <1>17 DEF Taken
  <2>2. \A s \in Slots : ~Serves(t, s)
    BY <2>1 DEF Serves, SendLocations, PostRef
  <2>3. CASE p \in {"SEND", "SEND0", "SEND_PEND"}
    <3>1. ClassOf(p) \in {"send", "SEND_PEND"}
      BY <2>3 DEF ClassOf
    <3>2. Serves(t, q)'
      BY <2>1, <2>3 DEF Dispatch, Serves, SendLocations, Obj
    <3>3. \A s \in Slots : s # q => SendLoad(s)' = SendLoad(s)
      BY <1>0, <2>1, <3>1, SendLoadMoves
    <3>4. QED
      BY <2>1, <2>2, <3>2, <3>3, ServedKept DEF AllServed, fields
  <2>4. CASE p \notin {"SEND", "SEND0", "SEND_PEND"}
    <3>1. ClassOf(p) \in Classes \ {"send", "SEND_PEND"}
      BY <2>4 DEF ClassOf, Packets, Classes, IoOps, Requests
    <3>2. \A s \in Slots : SendLoad(s)' = SendLoad(s)
      BY <2>1, <3>1, SendLoadKept
    <3>3. QED
      BY <1>3, <2>1, <2>2, <3>2 DEF fields
  <2>5. QED
    BY <2>3, <2>4
<1>18. QED
  BY <1>1, <1>5, <1>6, <1>7, <1>8, <1>9, <1>10, <1>11, <1>12, <1>13, <1>14, <1>15, <1>16, <1>17
  DEF Loud

-----------------------------------------------------------------------------
\* The turns, and who sees to the packets in send_q.
WakeInv == TurnInv /\ OpensClear /\ AllArmed /\ AllServed

\* At the start no session is open.
LEMMA InitWake == Init => WakeInv
<1> SUFFICES ASSUME Init PROVE WakeInv
  OBVIOUS
<1>1. TurnInv
  BY InitTurns
<1>2. pc[Acceptor] = "accept" /\ \A s \in Slots : release_flag[s] = 1
  BY Roles, HomeOf DEF Init
<1>3. QED
  BY <1>1, <1>2 DEF WakeInv, OpensClear, AllArmed, Armed, AllServed, Served

\* Every step keeps WakeInv.
LEMMA NextWake == WakeInv /\ [Next]_vars => WakeInv'
BY NextTurns, NextClear, NextArmed, NextServed DEF WakeInv

\* WakeInv holds in every behaviour.
LEMMA WakeAlways == Spec => []WakeInv
BY InitWake, NextWake, PTL DEF Spec

\* While send_q of a connected session holds a packet, a thread or a completion is
\* on its way that will look at it again.
THEOREM NoForgottenPacket == Spec => []NoLostWakeup
<1>1. WakeInv => NoLostWakeup
  <2> SUFFICES ASSUME WakeInv, NEW s \in Slots, release_flag[s] = 0, disconnect[s] = 0,
                      send_q[s] > 0
               PROVE  Sending(s)
    BY DEF NoLostWakeup
  <2>1. SendLoad(s) > 0 \/ \E t \in Threads : Serves(t, s)
    BY DEF WakeInv, AllServed, Served
  <2>2. CASE \E t \in Threads : Serves(t, s)
    BY <2>2 DEF Serves, SendLocations, Sending
  <2>3. CASE SendLoad(s) > 0
    <3>1. /\ overlapped[s]["send"] \in Nat /\ iocp[s]["SEND"] \in Nat
          /\ iocp[s]["SEND0"] \in Nat /\ iocp[s]["SEND_PEND"] \in Nat
      BY LoadType DEF WakeInv, TurnInv, SlotInv, IoOps, Packets
    <3>2. SendLoad(s) = overlapped[s]["send"] + iocp[s]["SEND"] + iocp[s]["SEND0"]
                          + iocp[s]["SEND_PEND"]
      BY LoadOf DEF SendLoad, Requests
    <3>3. \/ overlapped[s]["send"] > 0
          \/ iocp[s]["SEND"] > 0 \/ iocp[s]["SEND0"] > 0 \/ iocp[s]["SEND_PEND"] > 0
      BY <2>3, <3>1, <3>2
    <3>4. QED
      BY <3>3 DEF Sending
  <2>4. QED
    BY <2>1, <2>2, <2>3
<1>2. QED
  BY <1>1, WakeAlways, PTL
=============================================================================
