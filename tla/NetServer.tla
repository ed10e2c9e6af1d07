----------------------------- MODULE NetServer -----------------------------
(***************************************************************************)
(* The session life cycle of CNetServer: one accept thread, a pool of I/O  *)
(* completion workers and one timeout thread sharing an array of Session   *)
(* objects without a lock.  A Session is kept alive by io_count; the       *)
(* thread that brings io_count to 0 swings the 64-bit word                 *)
(* (io_count, release_flag) from (0, 0) to (0, 1) and posts RELEASE_PEND,  *)
(* and the worker that dequeues that packet recycles the slot.             *)
(*                                                                         *)
(* A step of a thread is one atomic access to shared memory or to the      *)
(* kernel.  Two accesses are one step only when no other thread can tell:  *)
(* io_count++ followed by the post it accounts for (the thread holds       *)
(* another reference, so nobody can see 0 between them), CancelIoEx with   *)
(* the CANCEL_IO packet that repeats it, and a plain read that only        *)
(* short-cuts the interlocked operation right after it.                    *)
(***************************************************************************)
EXTENDS Integers, FiniteSets

CONSTANTS Slots,        \* indices of m_sessionArr
          Workers,      \* threads in runIoThread
          Acceptor,     \* the thread in runAcceptThread
          Timer,        \* the thread in runTimeoutThread
          NoSlot,       \* no Session
          NoCall,       \* no call of the public API in progress
          MaxId,        \* bound: sessions accepted in a run (2^32 in the code)
          MaxSendQ,     \* MAX_SENDQ: capacity of send_q
          Ops           \* what OnRecv may call: "send", "disconnect"

Threads == Workers \cup {Acceptor, Timer}

ASSUME SlotsAssumption   == IsFiniteSet(Slots) /\ NoSlot \notin Slots
ASSUME ThreadsAssumption == /\ IsFiniteSet(Workers)
                            /\ Acceptor \notin Workers
                            /\ Timer \notin Workers
                            /\ Acceptor # Timer
ASSUME BoundsAssumption  == MaxId \in Nat /\ MaxSendQ \in Nat \ {0}
ASSUME OpsAssumption     == Ops \subseteq {"send", "disconnect"}

VARIABLES
    \* fields of each Session
    io_count, release_flag, disconnect, session_id, send_post_flag, send_q,
    \* fields of CNetServer; the stack of empty slots counts its copies
    m_emptySessionStack, m_sessID, m_sessionCnt,
    \* the kernel: overlapped operations outstanding, packets in the port
    overlapped, iocp,
    \* the application: ids it was told of by OnClientJoin, ids it still has
    issued, users,
    \* the threads: location, Session worked on, API call, caller to return to
    pc, own, call, ctx

session == <<io_count, release_flag, disconnect, session_id,
             send_post_flag, send_q>>
server  == <<m_emptySessionStack, m_sessID, m_sessionCnt>>
kernel  == <<overlapped, iocp>>
app     == <<issued, users>>
thread  == <<pc, own, call, ctx>>
vars    == <<session, server, kernel, app, thread>>

Ids     == 0 .. MaxId                   \* 0: no session
ApiIds  == [slot : Slots, id : Ids]     \* what GetSessionID() returns
Calls   == [slot : Slots, id : Ids, op : {"send", "disconnect"}]

ASSUME NoCallAssumption == NoCall \notin ApiIds

\* Overlapped operations, and the packets of the completion port: those of a
\* finished operation ("0": failed, cancelled or no bytes transferred) and
\* those posted with PostQueuedCompletionStatus.
IoOps   == {"recv", "send"}
Done    == [op \in IoOps |-> IF op = "recv" THEN "RECV" ELSE "SEND"]
Failed  == [op \in IoOps |-> IF op = "recv" THEN "RECV0" ELSE "SEND0"]
Packets == {"RECV", "RECV0", "SEND", "SEND0",
            "SEND_PEND", "RELEASE_PEND", "CANCEL_IO"}

Locations ==
    {"accept", "acc_inc", "acc_init", "acc_open", "acc_count", "acc_join",
     "gqcs", "frame", "onrecv", "tick", "tm_check",
     "recv_check", "recv_post",
     "api_inc", "api_flag", "api_id", "enqueue", "pend_check", "pend_xchg",
     "try_clear", "try_size", "sp_check", "sp_xchg", "sp_size", "sp_clear",
     "disc_xchg", "disc_cancel", "cancel",
     "rel_leave", "rel_clear", "rel_push", "rel_count",
     "dec", "rp_cas", "rp_post", "crash"}

\* Who called disconnect() or updateIOCount(): the thread's own loop ("io"), the
\* failure branch of recvPost/sendPost ("postfail"), SendPacket or
\* DisconnectSession ("api"), the two error branches of the receive loop.
Contexts == {"io", "postfail", "api", "frame", "decode"}

Home(t) == CASE t \in Workers  -> "gqcs"
             [] t = Acceptor   -> "accept"
             [] OTHER          -> "tick"

\* The Session an internal function is running on.
Obj(t) == IF ctx[t] = "api" THEN call[t].slot ELSE own[t]
-----------------------------------------------------------------------------
Init ==
    /\ io_count = [s \in Slots |-> 0]
    /\ release_flag = [s \in Slots |-> 1]
    /\ disconnect = [s \in Slots |-> 1]
    /\ session_id = [s \in Slots |-> 0]
    /\ send_post_flag = [s \in Slots |-> 0]
    /\ send_q = [s \in Slots |-> 0]
    /\ m_emptySessionStack = [s \in Slots |-> 1]
    /\ m_sessID = 1
    /\ m_sessionCnt = 0
    /\ overlapped = [s \in Slots |-> [op \in IoOps |-> 0]]
    /\ iocp = [s \in Slots |-> [p \in Packets |-> 0]]
    /\ issued = {}
    /\ users = {}
    /\ pc = [t \in Threads |-> Home(t)]
    /\ own = [t \in Threads |-> NoSlot]
    /\ call = [t \in Threads |-> NoCall]
    /\ ctx = [t \in Threads |-> "io"]

Goto(t, l) == pc' = [pc EXCEPT ![t] = l] /\ UNCHANGED <<own, call, ctx>>

\* Move to l as the callee of c.
Enter(t, l, c) == /\ pc' = [pc EXCEPT ![t] = l]
                  /\ ctx' = [ctx EXCEPT ![t] = c]
                  /\ UNCHANGED <<own, call>>

IncIo(s) == io_count' = [io_count EXCEPT ![s] = @ + 1]

\* io_count++ and PostQueuedCompletionStatus(session, p).
Post(s, p) == /\ IncIo(s)
              /\ iocp' = [iocp EXCEPT ![s][p] = @ + 1]
-----------------------------------------------------------------------------
(* runAcceptThread *)

\* accept() returned a socket, OnConnectionRequest allowed it and Pop found a
\* slot.  A refused connection is closed and changes nothing here.
Accept ==
    /\ pc[Acceptor] = "accept"
    /\ m_sessID <= MaxId
    /\ \E s \in Slots :
        /\ m_emptySessionStack[s] > 0
        /\ m_emptySessionStack' = [m_emptySessionStack EXCEPT ![s] = @ - 1]
        /\ own' = [own EXCEPT ![Acceptor] = s]
    /\ pc' = [pc EXCEPT ![Acceptor] = "acc_inc"]
    /\ UNCHANGED <<session, m_sessID, m_sessionCnt, kernel, app, call, ctx>>

AcceptInc ==
    /\ pc[Acceptor] = "acc_inc"
    /\ IncIo(own[Acceptor])
    /\ Goto(Acceptor, "acc_init")
    /\ UNCHANGED <<release_flag, disconnect, session_id, send_post_flag, send_q,
                   server, kernel, app>>

\* Mutant: m_sessID is not advanced and the next session has the same id.
AcceptInit_SameId ==
    /\ pc[Acceptor] = "acc_init"
    /\ LET s == own[Acceptor] IN
        /\ session_id' = [session_id EXCEPT ![s] = m_sessID]
        /\ send_post_flag' = [send_post_flag EXCEPT ![s] = 0]
        /\ disconnect' = [disconnect EXCEPT ![s] = 0]
    /\ Goto(Acceptor, "acc_open")
    /\ UNCHANGED <<io_count, release_flag, send_q, server, kernel, app>>

\* The stores between io_count++ and release_flag = 0.  send_q is not touched:
\* release() emptied it.
AcceptInit ==
    /\ pc[Acceptor] = "acc_init"
    /\ LET s == own[Acceptor] IN
        /\ session_id' = [session_id EXCEPT ![s] = m_sessID]
        /\ send_post_flag' = [send_post_flag EXCEPT ![s] = 0]
        /\ disconnect' = [disconnect EXCEPT ![s] = 0]
    /\ m_sessID' = m_sessID + 1
    /\ Goto(Acceptor, "acc_open")
    /\ UNCHANGED <<io_count, release_flag, send_q, m_emptySessionStack,
                   m_sessionCnt, kernel, app>>

AcceptOpen ==
    /\ pc[Acceptor] = "acc_open"
    /\ release_flag' = [release_flag EXCEPT ![own[Acceptor]] = 0]
    /\ Goto(Acceptor, "acc_count")
    /\ UNCHANGED <<io_count, disconnect, session_id, send_post_flag, send_q,
                   server, kernel, app>>

\* The socket joins the completion port and the session is counted.
AcceptCount ==
    /\ pc[Acceptor] = "acc_count"
    /\ m_sessionCnt' = m_sessionCnt + 1
    /\ Goto(Acceptor, "acc_join")
    /\ UNCHANGED <<session, m_emptySessionStack, m_sessID, kernel, app>>

\* OnClientJoin: the application adds a user; CreateUser crashes on a known id.
AcceptJoin ==
    /\ pc[Acceptor] = "acc_join"
    /\ LET s == own[Acceptor]
           id == [slot |-> s, id |-> session_id[s]] IN
        /\ issued' = issued \cup {id}
        /\ users' = users \cup {id}
        /\ Goto(Acceptor, IF id \in users THEN "crash" ELSE "recv_check")
    /\ UNCHANGED <<session, server, kernel>>
-----------------------------------------------------------------------------
(* recvPost *)

RecvCheck(t) ==
    /\ pc[t] = "recv_check"
    /\ Goto(t, IF disconnect[own[t]] = 0 THEN "recv_post" ELSE "dec")
    /\ UNCHANGED <<session, server, kernel, app>>

\* Mutant: the receive is posted without a count of its own.
RecvPost_NoCount(t) ==
    /\ pc[t] = "recv_post"
    /\ overlapped' = [overlapped EXCEPT ![own[t]]["recv"] = @ + 1]
    /\ Goto(t, "dec")
    /\ UNCHANGED <<session, server, iocp, app>>

\* WSARecv accepted: completed at once or pending, a packet will follow.
RecvPost(t) ==
    /\ pc[t] = "recv_post"
    /\ IncIo(own[t])
    /\ overlapped' = [overlapped EXCEPT ![own[t]]["recv"] = @ + 1]
    /\ Goto(t, "dec")
    /\ UNCHANGED <<release_flag, disconnect, session_id, send_post_flag, send_q,
                   server, iocp, app>>

\* WSARecv refused: updateIOCount() gives back the count, then disconnect().
RecvPostFail(t) ==
    /\ pc[t] = "recv_post"
    /\ IncIo(own[t])
    /\ Enter(t, "dec", "postfail")
    /\ UNCHANGED <<release_flag, disconnect, session_id, send_post_flag, send_q,
                   server, kernel, app>>
-----------------------------------------------------------------------------
(* disconnect *)

\* The read of disconnect and InterlockedExchange(&disconnect, 1).
AfterDisconnect(t) == CASE ctx[t] = "frame"  -> "recv_check"
                        [] ctx[t] = "decode" -> "frame"
                        [] OTHER             -> "dec"

AfterDisconnectCtx(t) == IF ctx[t] = "api" THEN "api" ELSE "io"

Disconnect(t) ==
    /\ pc[t] = "disc_xchg"
    /\ disconnect' = [disconnect EXCEPT ![Obj(t)] = 1]
    /\ IF disconnect[Obj(t)] = 0
         THEN Goto(t, "disc_cancel")
         ELSE Enter(t, AfterDisconnect(t), AfterDisconnectCtx(t))
    /\ UNCHANGED <<io_count, release_flag, session_id, send_post_flag, send_q,
                   server, kernel, app>>

\* CancelIoEx(sock, NULL): the outstanding operations complete with failure.
CancelledIo(s, q) ==
    [q EXCEPT ![s] = [p \in Packets |->
        q[s][p] + (IF p = "RECV0" THEN overlapped[s]["recv"] ELSE 0)
                + (IF p = "SEND0" THEN overlapped[s]["send"] ELSE 0)]]

NoOverlapped(s) == [overlapped EXCEPT ![s] = [op \in IoOps |-> 0]]

\* Mutant: the count of the CANCEL_IO packet is taken and the packet not posted.
DisconnectCancel_NoPost(t) ==
    /\ pc[t] = "disc_cancel"
    /\ LET s == Obj(t) IN
        /\ IncIo(s)
        /\ overlapped' = NoOverlapped(s)
        /\ iocp' = CancelledIo(s, iocp)
    /\ Enter(t, AfterDisconnect(t), AfterDisconnectCtx(t))
    /\ UNCHANGED <<release_flag, disconnect, session_id, send_post_flag, send_q,
                   server, app>>

\* CancelIoEx, then io_count++ and the CANCEL_IO packet that cancels again.
DisconnectCancel(t) ==
    /\ pc[t] = "disc_cancel"
    /\ LET s == Obj(t) IN
        /\ IncIo(s)
        /\ overlapped' = NoOverlapped(s)
        /\ iocp' = [CancelledIo(s, iocp) EXCEPT ![s]["CANCEL_IO"] = @ + 1]
    /\ Enter(t, AfterDisconnect(t), AfterDisconnectCtx(t))
    /\ UNCHANGED <<release_flag, disconnect, session_id, send_post_flag, send_q,
                   server, app>>
-----------------------------------------------------------------------------
(* updateIOCount and releasePend *)

\* Where updateIOCount() returns to.
Return(t) ==
    CASE ctx[t] = "postfail" ->
            /\ pc' = [pc EXCEPT ![t] = "disc_xchg"]
            /\ ctx' = [ctx EXCEPT ![t] = "io"]
            /\ UNCHANGED <<own, call>>
      [] ctx[t] = "api" ->
            /\ pc' = [pc EXCEPT ![t] = IF t \in Workers THEN "onrecv" ELSE "dec"]
            /\ ctx' = [ctx EXCEPT ![t] = "io"]
            /\ call' = [call EXCEPT ![t] = NoCall]
            /\ UNCHANGED own
      [] OTHER ->
            /\ pc' = [pc EXCEPT ![t] = Home(t)]
            /\ own' = [own EXCEPT ![t] = NoSlot]
            /\ UNCHANGED <<call, ctx>>

UpdateIOCount(t) ==
    /\ pc[t] = "dec"
    /\ io_count' = [io_count EXCEPT ![Obj(t)] = @ - 1]
    /\ CASE io_count[Obj(t)] = 1 -> Goto(t, "rp_cas")
         [] io_count[Obj(t)] < 1 -> Goto(t, "crash")
         [] OTHER                -> Return(t)
    /\ UNCHANGED <<release_flag, disconnect, session_id, send_post_flag, send_q,
                   server, kernel, app>>

\* Mutant: the exchange compares release_flag alone, not the 64-bit word.
ReleaseFlagCas_FlagOnly(t) ==
    /\ pc[t] = "rp_cas"
    /\ LET s == Obj(t) IN
        IF release_flag[s] = 0
          THEN /\ release_flag' = [release_flag EXCEPT ![s] = 1]
               /\ Goto(t, "rp_post")
          ELSE /\ UNCHANGED release_flag
               /\ Return(t)
    /\ UNCHANGED <<io_count, disconnect, session_id, send_post_flag, send_q,
                   server, kernel, app>>

\* The 64-bit compare-exchange of (io_count, release_flag) from (0, 0) to (0, 1).
ReleaseFlagCas(t) ==
    /\ pc[t] = "rp_cas"
    /\ LET s == Obj(t) IN
        IF io_count[s] = 0 /\ release_flag[s] = 0
          THEN /\ release_flag' = [release_flag EXCEPT ![s] = 1]
               /\ Goto(t, "rp_post")
          ELSE /\ UNCHANGED release_flag
               /\ Return(t)
    /\ UNCHANGED <<io_count, disconnect, session_id, send_post_flag, send_q,
                   server, kernel, app>>

ReleasePost(t) ==
    /\ pc[t] = "rp_post"
    /\ Post(Obj(t), "RELEASE_PEND")
    /\ Return(t)
    /\ UNCHANGED <<release_flag, disconnect, session_id, send_post_flag, send_q,
                   server, overlapped, app>>
-----------------------------------------------------------------------------
(* trySend, sendPost and sendPend *)

\* Mutant: the flag is cleared and send_q is not looked at again.
TryClear_NoRecheck(t) ==
    /\ pc[t] = "try_clear"
    /\ send_post_flag' = [send_post_flag EXCEPT ![own[t]] = 0]
    /\ Goto(t, "dec")
    /\ UNCHANGED <<io_count, release_flag, disconnect, session_id, send_q,
                   server, kernel, app>>

TryClear(t) ==
    /\ pc[t] = "try_clear"
    /\ send_post_flag' = [send_post_flag EXCEPT ![own[t]] = 0]
    /\ Goto(t, "try_size")
    /\ UNCHANGED <<io_count, release_flag, disconnect, session_id, send_q,
                   server, kernel, app>>

TrySize(t) ==
    /\ pc[t] = "try_size"
    /\ Goto(t, IF send_q[own[t]] > 0 THEN "sp_check" ELSE "dec")
    /\ UNCHANGED <<session, server, kernel, app>>

SendCheck(t) ==
    /\ pc[t] = "sp_check"
    /\ Goto(t, IF disconnect[own[t]] = 0 THEN "sp_xchg" ELSE "dec")
    /\ UNCHANGED <<session, server, kernel, app>>

\* Mutant: the old value of send_post_flag is not tested.
SendExchange_Untested(t) ==
    /\ pc[t] = "sp_xchg"
    /\ send_post_flag' = [send_post_flag EXCEPT ![own[t]] = 1]
    /\ Goto(t, "sp_size")
    /\ UNCHANGED <<io_count, release_flag, disconnect, session_id, send_q,
                   server, kernel, app>>

SendExchange(t) ==
    /\ pc[t] = "sp_xchg"
    /\ send_post_flag' = [send_post_flag EXCEPT ![own[t]] = 1]
    /\ Goto(t, IF send_post_flag[own[t]] = 1 THEN "dec" ELSE "sp_size")
    /\ UNCHANGED <<io_count, release_flag, disconnect, session_id, send_q,
                   server, kernel, app>>

\* Somebody else sent everything meanwhile.
SendNothing(t) ==
    /\ pc[t] = "sp_size"
    /\ send_q[own[t]] <= 0
    /\ Goto(t, "sp_clear")
    /\ UNCHANGED <<session, server, kernel, app>>

SendClear(t) ==
    /\ pc[t] = "sp_clear"
    /\ send_post_flag' = [send_post_flag EXCEPT ![own[t]] = 0]
    /\ Goto(t, "pend_check")
    /\ UNCHANGED <<io_count, release_flag, disconnect, session_id, send_q,
                   server, kernel, app>>

\* n packets move to send_buffer (as many as fit), then WSASend.
SendPost(t) ==
    /\ pc[t] = "sp_size"
    /\ LET s == own[t] IN
        /\ \E n \in 1 .. send_q[s] : send_q' = [send_q EXCEPT ![s] = @ - n]
        /\ IncIo(s)
        /\ \/ /\ overlapped' = [overlapped EXCEPT ![s]["send"] = @ + 1]
              /\ Goto(t, "dec")
           \/ /\ Enter(t, "dec", "postfail")      \* WSASend refused
              /\ UNCHANGED overlapped
    /\ UNCHANGED <<release_flag, disconnect, session_id, send_post_flag,
                   server, iocp, app>>

\* sendPend, called by SendPacket (any thread) and by sendPost.
PendCheck(t) ==
    /\ pc[t] = "pend_check"
    /\ Goto(t, IF disconnect[Obj(t)] = 0 THEN "pend_xchg" ELSE "dec")
    /\ UNCHANGED <<session, server, kernel, app>>

PendExchange(t) ==
    /\ pc[t] = "pend_xchg"
    /\ LET s == Obj(t) IN
        /\ send_post_flag' = [send_post_flag EXCEPT ![s] = 1]
        /\ IF send_post_flag[s] = 1 THEN UNCHANGED <<io_count, iocp>>
                                ELSE Post(s, "SEND_PEND")
    /\ Goto(t, "dec")
    /\ UNCHANGED <<release_flag, disconnect, session_id, send_q,
                   server, overlapped, app>>
-----------------------------------------------------------------------------
(* SendPacket and DisconnectSession, on any id the application ever had *)

Invoke(t, c) == /\ pc' = [pc EXCEPT ![t] = "api_inc"]
                /\ call' = [call EXCEPT ![t] = c]
                /\ ctx' = [ctx EXCEPT ![t] = "api"]
                /\ UNCHANGED own

ApiInc(t) ==
    /\ pc[t] = "api_inc"
    /\ IncIo(call[t].slot)
    /\ Goto(t, "api_flag")
    /\ UNCHANGED <<release_flag, disconnect, session_id, send_post_flag, send_q,
                   server, kernel, app>>

\* release_flag == 0, and for SendPacket also !disconnect.
ApiFlag(t) ==
    /\ pc[t] = "api_flag"
    /\ LET s == call[t].slot IN
        Goto(t, IF /\ release_flag[s] = 0
                   /\ call[t].op = "send" => disconnect[s] = 0
                THEN "api_id" ELSE "dec")
    /\ UNCHANGED <<session, server, kernel, app>>

ApiId(t) ==
    /\ pc[t] = "api_id"
    /\ Goto(t, IF session_id[call[t].slot] # call[t].id THEN "dec"
               ELSE IF call[t].op = "send" THEN "enqueue" ELSE "disc_xchg")
    /\ UNCHANGED <<session, server, kernel, app>>

\* Mutant: send_q has no capacity.
Enqueue_Unbounded(t) ==
    /\ pc[t] = "enqueue"
    /\ send_q' = [send_q EXCEPT ![call[t].slot] = @ + 1]
    /\ Goto(t, "pend_check")
    /\ UNCHANGED <<io_count, release_flag, disconnect, session_id, send_post_flag,
                   server, kernel, app>>

\* A full send_q disconnects the session.
Enqueue(t) ==
    /\ pc[t] = "enqueue"
    /\ LET s == call[t].slot IN
        IF send_q[s] < MaxSendQ
          THEN /\ send_q' = [send_q EXCEPT ![s] = @ + 1]
               /\ Goto(t, "pend_check")
          ELSE /\ UNCHANGED send_q
               /\ Goto(t, "disc_xchg")
    /\ UNCHANGED <<io_count, release_flag, disconnect, session_id, send_post_flag,
                   server, kernel, app>>
-----------------------------------------------------------------------------
(* runIoThread *)

\* Mutant: a failed operation is only counted down, without disconnect().
Dispatch_FailureIgnored(s, p) ==
    CASE p = "SEND_PEND"                     -> "try_clear"
      [] p = "RELEASE_PEND"                  -> "rel_leave"
      [] p = "CANCEL_IO"                     -> "cancel"
      [] p = "RECV" /\ disconnect[s] = 0     -> "frame"
      [] p = "SEND" /\ disconnect[s] = 0     -> "try_clear"
      [] OTHER                               -> "dec"

\* Where a worker goes with packet p of session s: bytes received or sent are
\* handled unless the session is disconnected, a posted request is dispatched,
\* everything else disconnects.
Dispatch(s, p) ==
    CASE p = "SEND_PEND"                     -> "try_clear"
      [] p = "RELEASE_PEND"                  -> "rel_leave"
      [] p = "CANCEL_IO"                     -> "cancel"
      [] p = "RECV" /\ disconnect[s] = 0     -> "frame"
      [] p = "SEND" /\ disconnect[s] = 0     -> "try_clear"
      [] OTHER                               -> "disc_xchg"

GetPacket(t, s, p) ==
    /\ pc[t] = "gqcs"
    /\ iocp[s][p] > 0
    /\ iocp' = [iocp EXCEPT ![s][p] = @ - 1]
    /\ own' = [own EXCEPT ![t] = s]
    /\ pc' = [pc EXCEPT ![t] = Dispatch(s, p)]
    /\ UNCHANGED <<session, server, overlapped, app, call, ctx>>

Cancel(t) ==
    /\ pc[t] = "cancel"
    /\ overlapped' = NoOverlapped(own[t])
    /\ iocp' = CancelledIo(own[t], iocp)
    /\ Goto(t, "dec")
    /\ UNCHANGED <<session, server, app>>

\* The receive loop: no complete packet left, post the next receive.
FrameDone(t) ==
    /\ pc[t] = "frame"
    /\ Goto(t, "recv_check")
    /\ UNCHANGED <<session, server, kernel, app>>

\* A header with an impossible length disconnects and leaves the loop; a packet
\* that does not decode disconnects and the loop goes on.
FrameError(t) ==
    /\ pc[t] = "frame"
    /\ \E c \in {"frame", "decode"} : Enter(t, "disc_xchg", c)
    /\ UNCHANGED <<session, server, kernel, app>>

\* OnRecv: AcquireUser crashes when the id has no user.
OnRecv(t) ==
    /\ pc[t] = "frame"
    /\ LET id == [slot |-> own[t], id |-> session_id[own[t]]] IN
        Goto(t, IF id \in users THEN "onrecv" ELSE "crash")
    /\ UNCHANGED <<session, server, kernel, app>>

OnRecvCall(t) ==
    /\ pc[t] = "onrecv"
    /\ \E id \in issued, op \in Ops :
        Invoke(t, [slot |-> id.slot, id |-> id.id, op |-> op])
    /\ UNCHANGED <<session, server, kernel, app>>

OnRecvReturn(t) ==
    /\ pc[t] = "onrecv"
    /\ Goto(t, "frame")
    /\ UNCHANGED <<session, server, kernel, app>>
-----------------------------------------------------------------------------
(* release, by the worker that got RELEASE_PEND *)

\* OnClientLeave: DeleteUser crashes when the id has no user.
ReleaseLeave(t) ==
    /\ pc[t] = "rel_leave"
    /\ LET s == own[t]
           id == [slot |-> s, id |-> session_id[s]] IN
        IF disconnect[s] # 1 \/ id \notin users
          THEN /\ Goto(t, "crash")
               /\ UNCHANGED users
          ELSE /\ users' = users \ {id}
               /\ Goto(t, "rel_clear")
    /\ UNCHANGED <<session, server, kernel, issued>>

\* Mutant: the packets of the old session stay in send_q.
ReleaseClear_KeepQueue(t) ==
    /\ pc[t] = "rel_clear"
    /\ session_id' = [session_id EXCEPT ![own[t]] = 0]
    /\ Goto(t, "rel_push")
    /\ UNCHANGED <<io_count, release_flag, disconnect, send_post_flag, send_q,
                   server, kernel, app>>

\* session_id = 0 and the packets left in send_q are dropped.
ReleaseClear(t) ==
    /\ pc[t] = "rel_clear"
    /\ session_id' = [session_id EXCEPT ![own[t]] = 0]
    /\ send_q' = [send_q EXCEPT ![own[t]] = 0]
    /\ Goto(t, "rel_push")
    /\ UNCHANGED <<io_count, release_flag, disconnect, send_post_flag,
                   server, kernel, app>>

\* closesocket, then the slot goes back to the accept thread although this
\* worker still holds a count on it.
ReleasePush(t) ==
    /\ pc[t] = "rel_push"
    /\ m_emptySessionStack' = [m_emptySessionStack EXCEPT ![own[t]] = @ + 1]
    /\ Goto(t, "rel_count")
    /\ UNCHANGED <<session, m_sessID, m_sessionCnt, kernel, app>>

ReleaseCount(t) ==
    /\ pc[t] = "rel_count"
    /\ m_sessionCnt' = m_sessionCnt - 1
    /\ Goto(t, "dec")
    /\ UNCHANGED <<session, m_emptySessionStack, m_sessID, kernel, app>>
-----------------------------------------------------------------------------
(* runTimeoutThread *)

Tick ==
    /\ pc[Timer] = "tick"
    /\ \E s \in Slots :
        /\ IncIo(s)
        /\ own' = [own EXCEPT ![Timer] = s]
    /\ pc' = [pc EXCEPT ![Timer] = "tm_check"]
    /\ UNCHANGED <<release_flag, disconnect, session_id, send_post_flag, send_q,
                   server, kernel, app, call, ctx>>

\* OnClientTimeout calls DisconnectSession when nothing came for 40 seconds.
TimedOut ==
    /\ pc[Timer] = "tm_check"
    /\ release_flag[own[Timer]] = 0
    /\ disconnect[own[Timer]] = 0
    /\ Invoke(Timer, [slot |-> own[Timer], id |-> session_id[own[Timer]],
                      op |-> "disconnect"])
    /\ UNCHANGED <<session, server, kernel, app>>

NotTimedOut ==
    /\ pc[Timer] = "tm_check"
    /\ Goto(Timer, "dec")
    /\ UNCHANGED <<session, server, kernel, app>>
-----------------------------------------------------------------------------
(* The kernel: an outstanding operation completes, with bytes or without *)

IoComplete(s, op) ==
    /\ overlapped[s][op] > 0
    /\ overlapped' = [overlapped EXCEPT ![s][op] = @ - 1]
    /\ \E p \in {Done[op], Failed[op]} : iocp' = [iocp EXCEPT ![s][p] = @ + 1]
    /\ UNCHANGED <<session, server, app, thread>>
-----------------------------------------------------------------------------
AcceptorStep == Accept \/ AcceptInc \/ AcceptInit \/ AcceptOpen
                       \/ AcceptCount \/ AcceptJoin

\* The steps of the functions every thread may be in.
CommonStep(t) ==
    \/ RecvCheck(t) \/ RecvPost(t) \/ RecvPostFail(t)
    \/ Disconnect(t) \/ DisconnectCancel(t)
    \/ UpdateIOCount(t) \/ ReleaseFlagCas(t) \/ ReleasePost(t)
    \/ ApiInc(t) \/ ApiFlag(t) \/ ApiId(t)

WorkerStep(t) ==
    \/ \E s \in Slots, p \in Packets : GetPacket(t, s, p)
    \/ Cancel(t)
    \/ FrameDone(t) \/ FrameError(t)
    \/ OnRecv(t) \/ OnRecvCall(t) \/ OnRecvReturn(t)
    \/ TryClear(t) \/ TrySize(t) \/ SendCheck(t) \/ SendExchange(t)
    \/ SendNothing(t) \/ SendClear(t) \/ SendPost(t)
    \/ Enqueue(t) \/ PendCheck(t) \/ PendExchange(t)
    \/ ReleaseLeave(t) \/ ReleaseClear(t) \/ ReleasePush(t) \/ ReleaseCount(t)

TimerStep == Tick \/ TimedOut \/ NotTimedOut

KernelStep == \E s \in Slots, op \in IoOps : IoComplete(s, op)

Next == \/ AcceptorStep
        \/ \E t \in Threads : CommonStep(t)
        \/ \E t \in Workers : WorkerStep(t)
        \/ TimerStep
        \/ KernelStep

Spec == Init /\ [][Next]_vars

(***************************************************************************)
(* Fairness.  Every thread that can run runs (WF).  A packet in the        *)
(* completion port is dequeued although the workers are busy now and then, *)
(* for the port is FIFO (SF); a receive buffer holds finitely many packets *)
(* and OnRecv returns (SF).  Clients need not connect and the timeout      *)
(* thread need not find anybody idle.  What the kernel owes is separate:   *)
(* an operation CancelIoEx did not hit completes only when the peer or the *)
(* network makes it complete (KernelFairness).                             *)
(***************************************************************************)
ThreadFairness ==
    /\ WF_vars(AcceptInc \/ AcceptInit \/ AcceptOpen \/ AcceptCount
                         \/ AcceptJoin \/ CommonStep(Acceptor))
    /\ WF_vars(TimerStep \/ CommonStep(Timer))
    /\ \A t \in Workers : /\ WF_vars(WorkerStep(t) \/ CommonStep(t))
                          /\ SF_vars(FrameDone(t))
                          /\ SF_vars(OnRecvReturn(t))
    /\ \A s \in Slots, p \in Packets :
            SF_vars(\E t \in Workers : GetPacket(t, s, p))

KernelFairness == \A s \in Slots, op \in IoOps : WF_vars(IoComplete(s, op))

ThreadFairSpec == Spec /\ ThreadFairness
FairSpec       == Spec /\ ThreadFairness /\ KernelFairness
-----------------------------------------------------------------------------
(* Properties *)

\* Every variable has its type; send_q never exceeds MAX_SENDQ.
TypeOK ==
    /\ io_count \in [Slots -> Int]
    /\ release_flag \in [Slots -> {0, 1}]
    /\ disconnect \in [Slots -> {0, 1}]
    /\ session_id \in [Slots -> Ids]
    /\ send_post_flag \in [Slots -> {0, 1}]
    /\ send_q \in [Slots -> 0 .. MaxSendQ]
    /\ m_emptySessionStack \in [Slots -> Nat]
    /\ m_sessID \in 1 .. MaxId + 1
    /\ m_sessionCnt \in Int
    /\ overlapped \in [Slots -> [IoOps -> Nat]]
    /\ iocp \in [Slots -> [Packets -> Nat]]
    /\ issued \subseteq ApiIds
    /\ users \subseteq ApiIds
    /\ pc \in [Threads -> Locations]
    /\ own \in [Threads -> Slots \cup {NoSlot}]
    /\ call \in [Threads -> Calls \cup {NoCall}]
    /\ ctx \in [Threads -> Contexts]

\* No thread reaches a CrashDump::Crash(): io_count never goes below zero, a
\* session is released only after it was disconnected, OnClientJoin never sees
\* a known id, and OnRecv and OnClientLeave never an unknown one.
NoCrash == \A t \in Threads : pc[t] # "crash"

\* A reference to s: a thread working on s since it dequeued a packet of s,
\* accepted into s or ticked on s; a call of the API on s; a refused
\* WSARecv/WSASend not given back yet.
OwnRef(t, s)  == /\ own[t] = s
                 /\ pc[t] # "acc_inc"
                 /\ ~(ctx[t] = "io" /\ pc[t] \in {"rp_cas", "rp_post"})
ApiRef(t, s)  == /\ ctx[t] = "api"
                 /\ call[t].slot = s
                 /\ pc[t] \notin {"api_inc", "rp_cas", "rp_post"}
PostRef(t, s) == ctx[t] = "postfail" /\ own[t] = s /\ pc[t] = "dec"

\* Uses of the OVERLAPPED of op: posted, or completed and not dequeued yet.
Outstanding(s, op) == overlapped[s][op] + iocp[s][Done[op]] + iocp[s][Failed[op]]

Requests == {"SEND_PEND", "RELEASE_PEND", "CANCEL_IO"}

Owners(s)  == {t \in Threads : OwnRef(t, s)}
Callers(s) == {t \in Threads : ApiRef(t, s)}
Refused(s) == {t \in Threads : PostRef(t, s)}

\* io_count is exactly the number of references to the Session, whoever holds
\* them: no path through the server leaks a count or gives one back twice.
CountIsReferences == \A s \in Slots :
    io_count[s] = Cardinality(Owners(s)) + Cardinality(Callers(s))
                + Cardinality(Refused(s))
                + Outstanding(s, "recv") + Outstanding(s, "send")
                + iocp[s]["SEND_PEND"] + iocp[s]["RELEASE_PEND"]
                + iocp[s]["CANCEL_IO"]

InRecv(t, s) == /\ own[t] = s
                /\ t \in Workers
                /\ \/ pc[t] \in {"frame", "onrecv", "recv_check", "recv_post"}
                   \/ ctx[t] \in {"api", "frame", "decode"}

\* Each OVERLAPPED of a Session is in use once at most: one receive is posted,
\* completed or being handled, one send is posted or completed.  Received bytes
\* are therefore handled in order and by one worker at a time.
OneIoOutstanding == \A s \in Slots :
    /\ Outstanding(s, "recv") + Cardinality({t \in Threads : InRecv(t, s)}) <= 1
    /\ Outstanding(s, "send") <= 1
    /\ \A p \in Requests : iocp[s][p] <= 1

\* A slot the accept thread may pop is clean: it was pushed once, nothing of
\* its last session is outstanding or queued, and its id matches no call.
FreeSlotIsClean == \A s \in Slots : m_emptySessionStack[s] > 0 =>
    /\ m_emptySessionStack[s] = 1
    /\ release_flag[s] = 1
    /\ session_id[s] = 0
    /\ send_q[s] = 0
    /\ \A op \in IoOps : overlapped[s][op] = 0
    /\ \A p \in Packets : iocp[s][p] = 0

\* From its id check on, SendPacket and DisconnectSession work on the very
\* session they were called for: it cannot be released and its slot reused
\* under them, so a stale id never touches the slot's next session.
ApiTargetsItsSession == \A t \in Threads :
    ctx[t] = "api" /\ pc[t] \in {"enqueue", "pend_check", "pend_xchg",
                                 "disc_xchg", "disc_cancel"} =>
        /\ release_flag[call[t].slot] = 0
        /\ session_id[call[t].slot] = call[t].id

\* Somebody is going to look at send_q of s again, or to disconnect s.
Sending(s) ==
    \/ overlapped[s]["send"] > 0
    \/ \E p \in {"SEND", "SEND0", "SEND_PEND"} : iocp[s][p] > 0
    \/ \E t \in Threads :
        /\ Obj(t) = s
        /\ \/ pc[t] \in {"try_clear", "try_size", "sp_check", "sp_xchg", "sp_size",
                         "sp_clear", "pend_check", "pend_xchg", "disc_xchg"}
           \/ PostRef(t, s)

\* With sequentially consistent memory no packet is forgotten: while send_q of
\* a connected session is not empty, a sender is on its way.
NoLostWakeup == \A s \in Slots :
    release_flag[s] = 0 /\ disconnect[s] = 0 /\ send_q[s] > 0 => Sending(s)

\* What the application sees is the contract of SessionService.
Running(t) ==
    IF t \in Workers /\ (pc[t] = "onrecv" \/ ctx[t] = "api")
      THEN [slot |-> own[t], id |-> session_id[own[t]]]
      ELSE NoCall

Service == INSTANCE SessionService WITH
              SessionIds <- ApiIds,
              NoSession  <- NoCall,
              known      <- issued,
              present    <- users,
              running    <- [t \in Workers |-> Running(t)]

\* Every behaviour of the server is one the contract of SessionService allows:
\* an id is joined once and left once, in that order, OnRecv runs for it only
\* between the two and never twice at a time.
Contract == Service!Spec

\* DisconnectSession: "pending Recv or Send are finished and the session is
\* cleaned up" (CNetServer.h:72).  A disconnected session is released.
DisconnectedIsReleased == \A s \in Slots :
    (disconnect[s] = 1 /\ release_flag[s] = 0) ~> (release_flag[s] = 1)
=============================================================================
