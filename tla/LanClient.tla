------------------------------ MODULE LanClient ------------------------------
(***************************************************************************)
(* CLanClient: one connection to another server, with the protocol of      *)
(* CNetServer's sessions, worker threads of its own, and a Connect and a   *)
(* Disconnect that the application thread calls (ChatServer::ConnectMonitor *)
(* and Stop).  MonitorClient derives from it: OnEnterServerJoin sends the  *)
(* login packet, OnRecv and OnLeaveServer do nothing.                      *)
(*                                                                         *)
(* The completion port is first in, first out, and that matters here:      *)
(* Disconnect posts the packets that end the workers behind CANCEL_IO.     *)
(* A thread's program is a stack of the functions it still has to run; an  *)
(* action runs the top one up to its next access to shared memory.  Merged *)
(* are m_ioCount++ with the post it pays for, CancelIoEx with the post of  *)
(* CANCEL_IO, a read with the interlocked operation it short-cuts, and the *)
(* plain stores of connectSession, which no worker runs beside.            *)
(***************************************************************************)
EXTENDS Integers, Sequences, FiniteSets, SequencesExt

CONSTANTS Workers,
          Main,         \* the application thread
          MaxConnects,  \* bound: successful calls of connect()
          MaxPackets,   \* bound: packets accepted
          MaxSendQ,     \* MAX_SENDQ
          MaxWsaBuf     \* MAX_WSABUF: packets of one WSASend

Threads == Workers \cup {Main}

ASSUME LanThreads == IsFiniteSet(Workers) /\ Main \notin Workers
ASSUME LanBounds  == /\ MaxConnects \in Nat /\ MaxPackets \in Nat
                     /\ MaxSendQ \in Nat \ {0} /\ MaxWsaBuf \in Nat \ {0}

VARIABLES
    m_isConnected, m_isInit,
    m_disconnect, m_ioCount, m_releaseFlag, m_sendFlag,
    m_sendQ,            \* packets accepted, by their number
    m_sentPacket,       \* its first m_sentPacketCnt entries
    m_sessionId, id_generator,
    m_serverSock,       \* 0: INVALID_SOCKET, else the number of the connection
    posted,             \* overlapped operations the kernel holds: <<op, socket>>
    m_hcp,              \* the packets in the completion port, oldest first
    running,            \* workers that were started and have not ended
    pc,                 \* the functions each thread still has to run
    id,                 \* SendPacket's local copy of m_sessionId
    accepted,           \* packets SendPacket took so far
    freed,              \* how often each packet was given back with SubRef
    dropped,            \* packets m_sentPacketCnt = 0 forgot in a reconnect
    joined, left        \* sockets OnEnterServerJoin, OnLeaveServer were called for

switches == <<m_isConnected, m_isInit, running>>
counts   == <<m_ioCount, m_releaseFlag>>
sending  == <<m_sendFlag, m_sendQ, m_sentPacket>>
ids      == <<m_sessionId, id_generator, m_serverSock>>
kernel   == <<posted, m_hcp>>
packets  == <<accepted, freed, dropped>>
events   == <<joined, left>>
vars     == <<switches, m_disconnect, counts, sending, ids, kernel, pc, id, packets, events>>

Sockets == 1 .. MaxConnects
Numbers == 1 .. MaxPackets
\* The functions of the program, a long one in the parts that an action runs.
Functions ==
    {"connect", "connected", "disconnect", "dc_cancel", "exits", "wait",
     "send_id", "send_inc", "send_test", "enqueue", "pend",
     "try_send", "try_size", "sp_check", "sp_xchg", "sp_size",
     "recv_check", "recv_post", "parse", "sent", "cancel",
     "update", "rel_cas", "rel_post", "release", "clean", "crash"}
\* EXIT is PostQueuedCompletionStatus(m_hcp, 0, 0, 0).
Posts   == {"RECV", "RECV0", "SEND", "SEND0", "SEND_PEND", "RELEASE_PEND", "CANCEL_IO", "EXIT"}
Done    == [op \in {"recv", "send"} |-> IF op = "recv" THEN "RECV" ELSE "SEND"]
Failed  == [op \in {"recv", "send"} |-> IF op = "recv" THEN "RECV0" ELSE "SEND0"]

Init ==
    /\ m_isConnected = FALSE /\ m_isInit = FALSE /\ running = {}
    /\ m_disconnect = 1 /\ m_ioCount = 0 /\ m_releaseFlag = 0
    /\ m_sendFlag = 0 /\ m_sendQ = <<>> /\ m_sentPacket = <<>>
    /\ m_sessionId = 0 /\ id_generator = 0 /\ m_serverSock = 0
    /\ posted = {} /\ m_hcp = <<>>
    /\ pc = [t \in Threads |-> <<>>]
    /\ id = 0
    /\ accepted = 0 /\ freed = [p \in Numbers |-> 0] /\ dropped = {}
    /\ joined = {} /\ left = {}

At(t, f)     == pc[t] # <<>> /\ Head(pc[t]) = f
\* The function on top returns, after it has called those in fs.
Run(t, fs)   == pc' = [pc EXCEPT ![t] = fs \o Tail(@)]
Return(t)    == Run(t, <<>>)
Start(t, fs) == pc[t] = <<>> /\ pc' = [pc EXCEPT ![t] = fs]
Count(f, s) == Cardinality({i \in DOMAIN s : s[i] = f})
PostsOf(p)  == Count(p, m_hcp)
SubRef(s)    == [p \in Numbers |-> freed[p] + Count(p, s)]
Post(p)      == m_ioCount' = m_ioCount + 1 /\ m_hcp' = Append(m_hcp, p)
-----------------------------------------------------------------------------
(* Connect and Disconnect *)

\* The first call creates the port and the workers, no later one does.  A call on
\* a client that is connected returns false.
Connect ==
    /\ ~m_isConnected
    /\ Start(Main, <<"connect">>)
    /\ m_isInit' = TRUE
    /\ running' = IF m_isInit THEN running ELSE Workers
    /\ UNCHANGED <<m_isConnected, m_disconnect, counts, sending, ids, kernel, id, packets,
                   events>>

\* socket() or connect() fails, and Connect ends the workers.  Bound: once the
\* workers have ended, one failure (each leaves its exit packets in the port).
ConnectFailed ==
    /\ At(Main, "connect")
    /\ PostsOf("EXIT") = 0
    /\ m_isConnected' \in BOOLEAN
    /\ m_serverSock' = 0
    /\ Run(Main, <<"exits", "wait">>)
    /\ UNCHANGED <<m_isInit, running, m_disconnect, counts, sending, m_sessionId, id_generator,
                   kernel, id, packets, events>>

\* MonitorClient sends its login packet.
OnEnterServerJoin == <<"send_id">>

\* connectSession on a connected socket, up to OnEnterServerJoin.  m_sendQ is as
\* release() or an earlier connection left it.
ConnectSession ==
    /\ At(Main, "connect")
    /\ id_generator < MaxConnects
    /\ m_ioCount' = m_ioCount + 1
    /\ m_sessionId' = id_generator
    /\ id_generator' = id_generator + 1
    /\ m_serverSock' = id_generator + 1
    /\ m_sendFlag' = 0 /\ m_sentPacket' = <<>>
    /\ dropped' = dropped \cup {p \in ToSet(m_sentPacket) : freed[p] = 0}
    /\ m_disconnect' = 0
    /\ m_releaseFlag' = 0
    /\ joined' = joined \cup {id_generator + 1}
    /\ Run(Main, OnEnterServerJoin \o <<"recv_check", "update", "connected">>)
    /\ UNCHANGED <<switches, m_sendQ, kernel, id, accepted, freed, left>>

Connected ==
    /\ At(Main, "connected")
    /\ m_isConnected' = TRUE
    /\ Return(Main)
    /\ UNCHANGED <<m_isInit, running, m_disconnect, counts, sending, ids, kernel, id, packets,
                   events>>

\* On a client that is not connected the call returns at once.
Disconnect ==
    /\ m_isConnected
    /\ Start(Main, <<"disconnect", "exits", "wait">>)
    /\ UNCHANGED <<switches, m_disconnect, counts, sending, ids, kernel, id, packets, events>>

\* Mutant: one exit packet too few.
PostExits_TooFew ==
    /\ At(Main, "exits")
    /\ m_hcp' = m_hcp \o [i \in 1 .. Cardinality(Workers) - 1 |-> "EXIT"]
    /\ Return(Main)
    /\ UNCHANGED <<switches, m_disconnect, counts, sending, ids, posted, id, packets, events>>

\* releaseClient: one exit packet for each worker, dead or alive.
PostExits ==
    /\ At(Main, "exits")
    /\ m_hcp' = m_hcp \o [i \in 1 .. Cardinality(Workers) |-> "EXIT"]
    /\ Return(Main)
    /\ UNCHANGED <<switches, m_disconnect, counts, sending, ids, posted, id, packets, events>>

\* WaitForMultipleObjects returns when every worker has ended.
WaitWorkers ==
    /\ At(Main, "wait")
    /\ running = {}
    /\ m_isConnected' = FALSE
    /\ Return(Main)
    /\ UNCHANGED <<m_isInit, running, m_disconnect, counts, sending, ids, kernel, id, packets,
                   events>>
-----------------------------------------------------------------------------
(* SendPacket and sendPend *)

\* ChatServer::SendMonitor calls it with one packet after the other; main asks
\* IsConnectedMonitor first.
SendMonitorData ==
    /\ m_isConnected
    /\ accepted < MaxPackets
    /\ Start(Main, <<"send_id">>)
    /\ UNCHANGED <<switches, m_disconnect, counts, sending, ids, kernel, id, packets, events>>

SendId ==
    /\ At(Main, "send_id")
    /\ id' = m_sessionId
    /\ Run(Main, <<"send_inc">>)
    /\ UNCHANGED <<switches, m_disconnect, counts, sending, ids, kernel, packets, events>>

SendInc ==
    /\ At(Main, "send_inc")
    /\ m_ioCount' = m_ioCount + 1
    /\ Run(Main, <<"send_test", "update">>)
    /\ UNCHANGED <<switches, m_disconnect, m_releaseFlag, sending, ids, kernel, id, packets,
                   events>>

\* release_flag, disconnect and the id; none of them goes back while Main is here.
SendTest ==
    /\ At(Main, "send_test")
    /\ Run(Main, IF m_releaseFlag = 0 /\ m_disconnect = 0 /\ m_sessionId = id
                   THEN <<"enqueue">> ELSE <<>>)
    /\ UNCHANGED <<switches, m_disconnect, counts, sending, ids, kernel, id, packets, events>>

\* A full queue costs the packet and not the connection.
Enqueue ==
    /\ At(Main, "enqueue")
    /\ IF Len(m_sendQ) < MaxSendQ /\ accepted < MaxPackets
         THEN /\ accepted' = accepted + 1
              /\ m_sendQ' = Append(m_sendQ, accepted + 1)
              /\ Run(Main, <<"pend">>)
         ELSE Return(Main) /\ UNCHANGED <<accepted, m_sendQ>>
    /\ UNCHANGED <<switches, m_disconnect, counts, m_sendFlag, m_sentPacket, ids, kernel, id,
                   freed, dropped, events>>

SendPend(t) ==
    /\ At(t, "pend")
    /\ m_sendFlag' = 1
    /\ IF m_sendFlag = 0 THEN Post("SEND_PEND") ELSE UNCHANGED <<m_ioCount, m_hcp>>
    /\ Return(t)
    /\ UNCHANGED <<switches, m_disconnect, m_releaseFlag, m_sendQ, m_sentPacket, ids, posted, id,
                   packets, events>>
-----------------------------------------------------------------------------
(* disconnectSession, recvPost *)

DisconnectSession(t) ==
    /\ At(t, "disconnect")
    /\ m_disconnect' = 1
    /\ Run(t, IF m_disconnect = 0 THEN <<"dc_cancel">> ELSE <<>>)
    /\ UNCHANGED <<switches, counts, sending, ids, kernel, id, packets, events>>

\* CancelIoEx completes what the kernel holds of this socket, in any order.
Cancelled(mine) == {[i \in DOMAIN ops |-> Failed[ops[i][1]]] : ops \in SetToSeqs(mine)}

\* Mutant: the packet is posted and not counted.
DisconnectCancel_Uncounted(t) ==
    /\ At(t, "dc_cancel")
    /\ \E c \in Cancelled({x \in posted : x[2] = m_serverSock}) :
        m_hcp' = m_hcp \o c \o <<"CANCEL_IO">>
    /\ posted' = {x \in posted : x[2] # m_serverSock}
    /\ Return(t)
    /\ UNCHANGED <<switches, m_disconnect, counts, sending, ids, id, packets, events>>

DisconnectCancel(t) ==
    /\ At(t, "dc_cancel")
    /\ m_ioCount' = m_ioCount + 1
    /\ \E c \in Cancelled({x \in posted : x[2] = m_serverSock}) :
        m_hcp' = m_hcp \o c \o <<"CANCEL_IO">>
    /\ posted' = {x \in posted : x[2] # m_serverSock}
    /\ Return(t)
    /\ UNCHANGED <<switches, m_disconnect, m_releaseFlag, sending, ids, id, packets, events>>

RecvCheck(t) ==
    /\ At(t, "recv_check")
    /\ Run(t, IF m_disconnect = 0 THEN <<"recv_post">> ELSE <<>>)
    /\ UNCHANGED <<switches, m_disconnect, counts, sending, ids, kernel, id, packets, events>>

\* Mutant: a refused WSARecv keeps the count it took.
RecvPost_KeepsCount(t) ==
    /\ At(t, "recv_post")
    /\ m_ioCount' = m_ioCount + 1
    /\ \/ posted' = posted \cup {<<"recv", m_serverSock>>} /\ Return(t)
       \/ UNCHANGED posted /\ Run(t, <<"disconnect">>)
    /\ UNCHANGED <<switches, m_disconnect, m_releaseFlag, sending, ids, m_hcp, id, packets, events>>

\* WSARecv takes the operation or refuses it.
RecvPost(t) ==
    /\ At(t, "recv_post")
    /\ m_ioCount' = m_ioCount + 1
    /\ \/ posted' = posted \cup {<<"recv", m_serverSock>>} /\ Return(t)
       \/ UNCHANGED posted /\ Run(t, <<"disconnect", "update">>)
    /\ UNCHANGED <<switches, m_disconnect, m_releaseFlag, sending, ids, m_hcp, id, packets, events>>
-----------------------------------------------------------------------------
(* trySend, sendPost *)

TrySend(t) ==
    /\ At(t, "try_send")
    /\ m_sendFlag' = 0
    /\ Run(t, <<"try_size">>)
    /\ UNCHANGED <<switches, m_disconnect, counts, m_sendQ, m_sentPacket, ids, kernel, id, packets,
                   events>>

TrySize(t) ==
    /\ At(t, "try_size")
    /\ Run(t, IF m_sendQ # <<>> THEN <<"sp_check", "pend">> ELSE <<>>)
    /\ UNCHANGED <<switches, m_disconnect, counts, sending, ids, kernel, id, packets, events>>

SendCheck(t) ==
    /\ At(t, "sp_check")
    /\ Run(t, IF m_disconnect = 0 THEN <<"sp_xchg">> ELSE <<>>)
    /\ UNCHANGED <<switches, m_disconnect, counts, sending, ids, kernel, id, packets, events>>

\* Mutant: the flag is set whoever had it.
SendExchange_Untested(t) ==
    /\ At(t, "sp_xchg")
    /\ m_sendFlag' = 1
    /\ Run(t, <<"sp_size">>)
    /\ UNCHANGED <<switches, m_disconnect, counts, m_sendQ, m_sentPacket, ids, kernel, id, packets,
                   events>>

SendExchange(t) ==
    /\ At(t, "sp_xchg")
    /\ m_sendFlag' = 1
    /\ Run(t, IF m_sendFlag = 0 THEN <<"sp_size">> ELSE <<>>)
    /\ UNCHANGED <<switches, m_disconnect, counts, m_sendQ, m_sentPacket, ids, kernel, id, packets,
                   events>>

SendNothing(t) ==
    /\ At(t, "sp_size")
    /\ m_sendQ = <<>>
    /\ m_sendFlag' = 0
    /\ Return(t)
    /\ UNCHANGED <<switches, m_disconnect, counts, m_sendQ, m_sentPacket, ids, kernel, id, packets,
                   events>>

Lower(m, n) == IF m < n THEN m ELSE n

\* At most MAX_WSABUF packets move to m_sentPacket; WSASend takes them or fails.
SendPost(t) ==
    /\ At(t, "sp_size")
    /\ m_sendQ # <<>>
    /\ LET n == Lower(Len(m_sendQ), MaxWsaBuf) IN
        /\ m_sentPacket' = SubSeq(m_sendQ, 1, n)
        /\ m_sendQ' = SubSeq(m_sendQ, n + 1, Len(m_sendQ))
    /\ m_ioCount' = m_ioCount + 1
    /\ \/ posted' = posted \cup {<<"send", m_serverSock>>} /\ Return(t)
       \/ UNCHANGED posted /\ Run(t, <<"disconnect", "update">>)
    /\ UNCHANGED <<switches, m_disconnect, m_releaseFlag, m_sendFlag, ids, m_hcp, id, packets,
                   events>>
-----------------------------------------------------------------------------
(* updateIOCount, releasePend, release *)

UpdateIOCount(t) ==
    /\ At(t, "update")
    /\ m_ioCount' = m_ioCount - 1
    /\ Run(t, IF m_ioCount = 1 THEN <<"rel_cas">>
              ELSE IF m_ioCount < 1 THEN <<"crash">> ELSE <<>>)
    /\ UNCHANGED <<switches, m_disconnect, m_releaseFlag, sending, ids, kernel, id, packets,
                   events>>

\* The 64-bit compare-exchange of count and flag.
ReleaseCas(t) ==
    /\ At(t, "rel_cas")
    /\ IF m_ioCount = 0 /\ m_releaseFlag = 0
         THEN m_releaseFlag' = 1 /\ Run(t, <<"rel_post">>)
         ELSE UNCHANGED m_releaseFlag /\ Return(t)
    /\ UNCHANGED <<switches, m_disconnect, m_ioCount, sending, ids, kernel, id, packets, events>>

ReleasePost(t) ==
    /\ At(t, "rel_post")
    /\ Post("RELEASE_PEND")
    /\ Return(t)
    /\ UNCHANGED <<switches, m_disconnect, m_releaseFlag, sending, ids, posted, id, packets, events>>

ReleaseLeave(t) ==
    /\ At(t, "release")
    /\ left' = IF m_disconnect = 1 THEN left \cup {m_serverSock} ELSE left
    /\ Run(t, IF m_disconnect = 1 THEN <<"clean">> ELSE <<"crash">>)
    /\ UNCHANGED <<switches, m_disconnect, counts, sending, ids, kernel, id, packets, joined>>

\* Mutant: release forgets the packets of a WSASend that failed.
ReleaseClean_QueueOnly(t) ==
    /\ At(t, "clean")
    /\ m_sessionId' = 0 /\ m_serverSock' = 0
    /\ m_sendQ' = <<>>
    /\ freed' = SubRef(m_sendQ)
    /\ Return(t)
    /\ UNCHANGED <<switches, m_disconnect, counts, m_sendFlag, m_sentPacket, id_generator, kernel,
                   id, accepted, dropped, events>>

\* m_sentPacketCnt keeps its value; closesocket ends what the kernel still holds.
ReleaseClean(t) ==
    /\ At(t, "clean")
    /\ m_sessionId' = 0 /\ m_serverSock' = 0
    /\ m_sendQ' = <<>>
    /\ freed' = SubRef(m_sendQ \o m_sentPacket)
    /\ Return(t)
    /\ UNCHANGED <<switches, m_disconnect, counts, m_sendFlag, m_sentPacket, id_generator, kernel,
                   id, accepted, dropped, events>>
-----------------------------------------------------------------------------
(* runIoThread *)

\* What the worker does with packet p before updateIOCount.  A completion with 0
\* bytes, or any completion once m_disconnect is set, ends the connection.
Dispatch(p) ==
    CASE p = "SEND_PEND"                        -> <<"try_send">>
      [] p = "RELEASE_PEND"                     -> <<"release">>
      [] p = "CANCEL_IO"                        -> <<"cancel">>
      [] p = "RECV" /\ m_disconnect = 0         -> <<"parse", "recv_check">>
      [] p = "SEND" /\ m_disconnect = 0         -> <<"sent", "try_send">>
      [] OTHER                                  -> <<"disconnect">>

GetPacket(t) ==
    /\ t \in running
    /\ m_hcp # <<>>
    /\ m_hcp' = Tail(m_hcp)
    /\ IF Head(m_hcp) = "EXIT"
         THEN pc[t] = <<>> /\ running' = running \ {t} /\ UNCHANGED pc
         ELSE Start(t, Dispatch(Head(m_hcp)) \o <<"update">>) /\ UNCHANGED running
    /\ UNCHANGED <<m_isConnected, m_isInit, m_disconnect, counts, sending, ids, posted, id,
                   packets, events>>

Cancel(t) ==
    /\ At(t, "cancel")
    /\ \E c \in Cancelled({x \in posted : x[2] = m_serverSock}) : m_hcp' = m_hcp \o c
    /\ posted' = {x \in posted : x[2] # m_serverSock}
    /\ Return(t)
    /\ UNCHANGED <<switches, m_disconnect, counts, sending, ids, id, packets, events>>

\* The loop over the received bytes: OnRecv for each packet, disconnectSession
\* before the OnRecv of a packet that is longer than the space left.
Parse(t) ==
    /\ At(t, "parse")
    /\ \/ Return(t)
       \/ m_disconnect = 0 /\ Run(t, <<"disconnect", "parse">>)
    /\ UNCHANGED <<switches, m_disconnect, counts, sending, ids, kernel, id, packets, events>>

Sent(t) ==
    /\ At(t, "sent")
    /\ freed' = SubRef(m_sentPacket)
    /\ m_sentPacket' = <<>>
    /\ Run(t, IF m_sentPacket = <<>> THEN <<"crash">> ELSE <<>>)
    /\ UNCHANGED <<switches, m_disconnect, counts, m_sendFlag, m_sendQ, ids, kernel, id, accepted,
                   dropped, events>>

\* The kernel finishes an operation; the peer may be gone.
IoComplete ==
    /\ \E x \in posted :
        /\ posted' = posted \ {x}
        /\ \E p \in {Done[x[1]], Failed[x[1]]} : m_hcp' = Append(m_hcp, p)
    /\ UNCHANGED <<switches, m_disconnect, counts, sending, ids, pc, id, packets, events>>
-----------------------------------------------------------------------------
Step(t) ==
    \/ SendPend(t) \/ DisconnectSession(t) \/ DisconnectCancel(t)
    \/ RecvCheck(t) \/ RecvPost(t)
    \/ TrySend(t) \/ TrySize(t) \/ SendCheck(t) \/ SendExchange(t)
    \/ SendNothing(t) \/ SendPost(t)
    \/ UpdateIOCount(t) \/ ReleaseCas(t) \/ ReleasePost(t)
    \/ ReleaseLeave(t) \/ ReleaseClean(t)
    \/ Cancel(t) \/ Parse(t) \/ Sent(t)

MainStep == \/ ConnectFailed \/ ConnectSession \/ Connected
            \/ PostExits \/ WaitWorkers
            \/ SendId \/ SendInc \/ SendTest \/ Enqueue

Application == Connect \/ Disconnect \/ SendMonitorData

Next == \/ \E t \in Threads : Step(t)
        \/ \E t \in Workers : GetPacket(t)
        \/ MainStep \/ Application \/ IoComplete

Spec == Init /\ [][Next]_vars

\* Threads run, the port is served while a worker is left, and what the kernel
\* holds completes some day (a receive posted after the last CancelIoEx when the
\* peer closes).  Nothing makes the application call.
Fairness == /\ \A t \in Threads : WF_vars(Step(t))
            /\ WF_vars(MainStep)
            /\ \A t \in Workers : SF_vars(GetPacket(t))
            /\ WF_vars(IoComplete)

FairSpec == Spec /\ Fairness
-----------------------------------------------------------------------------
(* Properties *)

\* Every variable has its type.
TypeOK ==
    /\ m_isConnected \in BOOLEAN /\ m_isInit \in BOOLEAN /\ running \subseteq Workers
    /\ m_disconnect \in {0, 1} /\ m_ioCount \in Nat
    /\ m_releaseFlag \in {0, 1} /\ m_sendFlag \in {0, 1}
    /\ m_sendQ \in Seq(Numbers) /\ Len(m_sendQ) <= MaxSendQ
    /\ m_sentPacket \in Seq(Numbers) /\ Len(m_sentPacket) <= MaxWsaBuf
    /\ m_sessionId \in 0 .. MaxConnects /\ id_generator \in 0 .. MaxConnects
    /\ m_serverSock \in 0 .. MaxConnects
    /\ posted \subseteq {"recv", "send"} \X Sockets
    /\ m_hcp \in Seq(Posts)
    /\ \A t \in Threads : pc[t] \in Seq(Functions)
    /\ id \in 0 .. MaxConnects
    /\ accepted \in 0 .. MaxPackets /\ freed \in [Numbers -> Nat] /\ dropped \subseteq Numbers
    /\ joined \subseteq Sockets /\ left \subseteq Sockets

\* m_ioCount never goes below 0, a completed WSASend has packets to give back, and
\* release() finds the connection disconnected: the three calls of
\* CrashDump::Crash() are out of reach (CLanClient.cpp:334, 635, 667).
NoCrash == \A t \in Threads : ~At(t, "crash")

\* The calls of updateIOCount that are ahead of the threads: <<thread, place>>.
Updates == UNION {{t} \X {i \in DOMAIN pc[t] : pc[t][i] = "update"} : t \in Threads}

\* m_ioCount is what everybody together will give back: each thread the calls of
\* updateIOCount ahead of it, the port its packets, the kernel its operations.
\* A count too many and the connection is never released, one too few and it is
\* released under a thread's feet (CLanClient.cpp:625).
CountIsReferences ==
    m_ioCount = Cardinality(Updates) + Len(m_hcp) - PostsOf("EXIT") + Cardinality(posted)

\* m_sendOverlapped, m_sentPacket and the head of m_sendQ have one user at a time: a
\* SEND_PEND packet, a WSASend or its completion, or one thread; likewise
\* m_recvOverlapped and m_recvQ.  While workers run there is one connection.
OneIoOutstanding ==
    LET Busy(fs)  == Cardinality({t \in Threads : \E f \in fs : At(t, f)})
        Kernel(o) == Cardinality({x \in posted : x[1] = o}) IN
    running # {} =>
        /\ Busy({"sp_size", "sent", "try_send"})
             + PostsOf("SEND_PEND") + PostsOf("SEND") + Kernel("send") <= 1
        /\ Busy({"parse", "recv_check", "recv_post"})
             + PostsOf("RECV") + Kernel("recv") <= 1

\* A packet SendPacket took is queued, on its way, or was given back, once.  The
\* only ones that never are given back are those a Connect finds in m_sentPacket
\* because release() of the connection before never ran.
PacketsAccountedFor ==
    LET queued == ToSet(m_sendQ)
        back   == {p \in Numbers : freed[p] = 1}
        going  == ToSet(m_sentPacket) \ back IN
    /\ \A p \in Numbers : freed[p] <= 1
    /\ queued \cup going \cup back \cup dropped = 1 .. accepted
    /\ queued \cap (going \cup back \cup dropped) = {}
    /\ dropped \cap (going \cup back) = {}
    /\ left = joined /\ m_serverSock = 0 => back = 1 .. accepted

\* Disconnect waits for the workers with INFINITE (CLanClient.cpp:188): it returns,
\* whatever is in the port before the exit packets.
DisconnectReturns == At(Main, "exits") ~> pc[Main] = <<>>

\* A connection that broke is released, and its socket closed, without a call of
\* Disconnect, unless packets are left in m_sendQ: then every SEND_PEND posts the
\* next (CLanClient.cpp:621) and the count never reaches 0.
BrokenIsReleased ==
    (m_disconnect = 1 /\ joined # left)
        ~> (joined = left \/ m_sendQ # <<>> \/ m_disconnect = 0 \/ running = {})

=============================================================================
