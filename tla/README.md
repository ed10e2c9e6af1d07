# ChatServerMT in TLA+

ChatServerMT is a chat server on Windows I/O completion ports. `CNetServer` owns
the sessions: one accept thread, a pool of completion workers and a timeout thread
share an array of `Session` objects without locks. `ChatServer` derives from it
and keeps users, logins and sectors. This directory models the server in TLA+,
checks the models with TLC and proves theorems about them with TLAPS.

Run a check with `tlc -config NetLifecycle.cfg MCNetServer` and a proof with
`tlapm NetServerProof.tla`. PROJECT.json lists every run with its properties, every
definition with the lines of code it stands for, and the hazards of the code.

## The system

| component | state | operations | met by |
|---|---|---|---|
| CNetServer | `Session`: io_count, release_flag, disconnect, session_id, send_post_flag, send_q, buffers; stack of empty slots; m_sessID, m_sessionCnt | accept loop, completion loop, timeout scan, SendPacket, DisconnectSession, Start, Stop | kernel (completion port, WSARecv, WSASend, CancelIoEx), application callbacks |
| receive framing, codec | recv_buffer, packet header, checksum, key | Peek, length checks, Decode, Encode | completion loop, SendPacket |
| LockFreeQueue, LockFreeStack, LockFreePool | tagged head, tail and top, recycled nodes | Enqueue, Dequeue, Front; Push, Pop; Alloc, Free | send_q, log queue, slot stack, memory pools |
| MemoryPoolTls, ObjectPool | per-thread lists, shared chunk pool | Alloc, Free | packets, users, logs |
| CPacket | reference count, read and write positions | AddRef, SubRef, Encode | SendPacket, sendPost, release |
| RingBuffer, BufferAllocator | front, rear; 64 KB regions | Enqueue, Dequeue, Peek, MoveFront, MoveRear | kernel writes and reads them directly |
| ChatServer, PacketProcessor | m_userMap, m_accountMap, counters | OnClientJoin, OnClientLeave, OnRecv, login, sector move, chat | CNetServer callbacks, SendPacket, DisconnectSession |
| User, Sector | user fields and lock; lists and locks of 50 x 50 sectors | MoveSector, Sector_AddUser, LockAround | PacketProcessor |
| CLanClient, MonitorClient | the same session protocol for one connection to a monitor server | Connect, Disconnect, SendPacket | ChatServer's monitor loop |
| CLog, Profiler, Tracer, TextParser, CPDH, CCpuUsage, main | diagnostics, configuration, counters | | |

Interaction. Threads meet in the fields of a Session (interlocked operations and
plain stores), in the completion port (packets of finished WSARecv and WSASend,
and packets posted with PostQueuedCompletionStatus: SEND_PEND, RELEASE_PEND,
CANCEL_IO) and in the lock-free containers. The application is called from the
accept thread (OnClientJoin), a worker (OnRecv, OnClientLeave) or the timeout
thread (OnClientTimeout), and calls back with an id that may be stale.

What is hard: who may release a session and when; a slot that is reused while
old threads still hold its index; one sender and one receiver per session without
a lock; operations that fail at once, later, or by cancellation; a disconnect that
races a receive being posted; store buffers. The full list, with lines, is under
"hazards" in PROJECT.json.

What makes each part correct:

* sessions: io_count counts the references; a session is released once, after it
  was disconnected and when nobody refers to it; a free slot is clean; a stale id
  touches nothing; a disconnected session is released in the end;
* callbacks: OnClientJoin, OnRecv and OnClientLeave come in order, once per id,
  and OnRecv is not called twice at a time;
* send path: packets leave once each and in the order in which send_q gives them out, by
  one sender at a time, and none is forgotten;
* containers: linearisable, no node in two places, nothing lost by a stalled thread;
* framing: every byte string is cut into the packets that were sent, or the session
  is disconnected;
* chat: m_accountMap, the counters, the sectors and the users agree; locks are
  taken in one order;
* monitor client: the same release protocol across Disconnect and reconnect.

## Modules

| module | models | extends or uses |
|---|---|---|
| `NetServer` | life cycle of sessions in CNetServer, every thread, one step per access to shared memory | `SessionService` (refinement) |
| `SessionService` | abstract: what CNetServer promises ChatServer | |
| `SendPath` | send path of one session, packet by packet, with and without store buffers | `PacketQueue` (steps of send_q), `PacketChannel` (refinement) |
| `PacketChannel` | abstract: what SendPacket promises; packets come into line once, and leave in the order of the line | |
| `PacketQueue` | abstract: what LockFreeQueue promises its callers, which is less than a FIFO queue | |
| `LockFreeQueue` | the queue under send_q and the log, with its recycled nodes and its two callers | `PacketQueue` (refinement) |
| `ChatServer` | users, logins, sectors, counters and locks of the application | |
| `LanClient` | CLanClient: connect, disconnect, connect again, packets, workers and release of its one session | |
| `CPacket` | a packet: construction, reading, Encode and Decode | |
| `RingBuffer` | the byte ring and the areas it gives to WSARecv and WSASend | `ByteQueue` (refinement) |
| `ByteQueue` | abstract: bounded queue of bytes | |
| `Framing` | packets through send_buffer, TCP, recv_buffer and both receive loops | `CPacket`, two instances of `RingBuffer` |
| `LockFreeStack` | stack and node pool, access by access, tagged pointers | `AtomicStack` (refinement, in `Memory`) |
| `AtomicStack` | abstract: Push and Pop at one instant | |
| `MemoryPool` | MemoryPoolTls: lists of a thread, chunks on the shared stack | `LockFreeStack` |
| `BufferAllocator` | pages and regions under the ring buffers | |
| `Memory` | the three uses of recycled memory: chunks, session slots, pages | `MemoryPool`, `BufferAllocator` |
| `NetServerProof` | types, control, io_count, slots and API calls; one receiver and one sender; the contract; no crash; no forgotten packet, proved | `NetServer` |
| `SendPathProof` | one sender at a time, the channel, and the order of a lone sender, proved | `SendPath` |
| `LockFreeQueueProof` | nodes, values and tail of the queue, and that it implements PacketQueue, proved | `LockFreeQueue` |
| `RingBufferProof` | the ring for every size, proved | `RingBuffer` |
| `FramingProof` | the stream and both receive loops for every size, key and cut, proved | `Framing`, two instances of `RingBufferProof` |
| `ChatServerProof` | ownership, sectors, lock order, accounts, counters, proved | `ChatServer` |
| `LanClientProof` | count, exclusive use, packets of the monitor client, proved | `LanClient` |
| `MemoryProof` | the stack, and what is kept on it; the pages of the allocator, proved | `Memory` |
| `MCNetServer`, `MCSendPath`, `MCLockFreeQueue`, `MCChatServer`, `MCLanClient`, `MCFraming`, `MCMemory` | model values, messages and symmetry for TLC | |

How they compose. NetServer is the protocol that all threads share; it takes
send_q, the packet queue, as an atomic counter, the stack of slots as an atomic
stack and bytes as "some" or "none". Each of these abstractions has a module that opens it up:
SendPath (packets, memory model), LockFreeQueue, Memory (slots), Framing
(bytes). ChatServer is written against SessionService, the contract NetServer
is shown to keep.

### NetServer

A variable has the name of the field it stands for and is a function of the slot:
`io_count`, `release_flag`, `disconnect`, `session_id`, `send_post_flag`, and
`send_q` (its length). `m_emptySessionStack[s]` counts the copies of s in the
stack, so that a slot pushed twice would show. `overlapped[s][op]` and `iocp[s][p]`
are the kernel: operations it holds, packets in the port. `issued` are the ids the
application ever got, `users` those it has. A thread has a location `pc`, the
session its loop works on (`own`), a call of the public API (`call`) and the caller
an internal function returns to (`ctx`).

One action is one access to shared memory or one call of the kernel:

| code | actions |
|---|---|
| runAcceptThread | Accept, AcceptInc, AcceptInit, AcceptOpen, AcceptCount, AcceptJoin, then recvPost and updateIOCount |
| runIoThread | GetPacket (with Dispatch), Cancel, FrameDone, FrameError, OnRecv, OnRecvCall, OnRecvReturn |
| recvPost | RecvCheck, RecvPost, RecvPostFail |
| trySend, sendPost, sendPend | TryClear, TrySize; SendCheck, SendExchange, SendNothing, SendClear, SendPost; PendCheck, PendExchange |
| SendPacket, DisconnectSession | Invoke, ApiInc, ApiFlag, ApiId, Enqueue, Disconnect, DisconnectCancel |
| updateIOCount, releasePend, release | UpdateIOCount, ReleaseFlagCas, ReleasePost, ReleaseLeave, ReleaseClear, ReleasePush, ReleaseCount |
| runTimeoutThread | Tick, TimedOut, NotTimedOut |
| kernel | IoComplete, with bytes or without; cancellation is part of DisconnectCancel and Cancel |

Merged accesses are named in the module's head: io_count++ with the post it pays
for, CancelIoEx with the post of CANCEL_IO, a plain read with the interlocked
operation it short-cuts. Memory is sequentially consistent here; SendPath treats
the one plain store that matters. Abstracted: bytes (a completion has some or
none; the receive loop finds a packet, an error or nothing), packets (send_q is a
number; SendPost takes any number of them, because send_buffer may be full),
time (any session may be found idle). OnRecv may call SendPacket and
DisconnectSession any number of times with any id it was ever told.

### SendPath

One connected session, packets numbered in the order in which SendPacket gets a node of
send_q for them. send_q is a PacketQueue: Enqueue takes a node (Enqueue), links it
(EnqueueLink) and counts it (EnqueueCount), Dequeue takes the first packet
(SendDequeue) and then counts it out and frees its node (SendCount), so that `send_size`, what
Front sees and the free nodes are three different things, as they are in the code. A packet may be linked
behind one whose sender has not linked it yet (`unlinked`), and `in_line` records in which
order packets came into the list. ImplementsChannel is about that order; it is not the order of
acceptance when two threads send to one session.

Senders call SendPacket, workers dequeue SEND_PEND and completions, anybody may
disconnect. `memory` is the memory model of the behaviour, chosen at the start. With "TSO" a
store of false to `send_post_flag` waits in the buffer of its thread (`buffered`)
until Drain; an interlocked operation of that thread waits for the buffer, a plain
load does not. With "SC" a store is seen at once. The other plain accesses of this
path are reads. References are the subject of NetServer and left out. The system
call that dequeues the next packet drains the buffer, too.

### LockFreeQueue

Nodes are numbers, `_head` and `_tail` a node with a count, `next` and `data` the
fields of a node, `pool` the queue's stack of free nodes: the node freed last is used
next, at once. `caller` says what the queue is used for. As log queue every Enqueue
posts LOG_PEND, and a worker that gets one repeats Dequeue until it has a log
(writeLog). As send_q one worker at a time asks GetSize, takes what Front shows and
calls WSASend (sendPost).

| code | actions |
|---|---|
| Enqueue | EnqAlloc, EnqTail, EnqNext, EnqLink, EnqHelp, EnqSwing, EnqCount |
| Dequeue | DeqSize, DeqHead, DeqNext, DeqTail, DeqData, DeqCas, DeqCount, DeqFree |
| Log, writeLog | PostLog, WriteLog |
| sendPost, Front | SendPost, Front, BufferFull, WsaSend |

A test and the compare-exchange it short-cuts are one step. Enqueue on an empty pool
fails and changes nothing. What wakes sendPost up is the subject of SendPath;
here it may run whenever GetSize is positive.

The queue is not a FIFO queue when two threads enqueue at a time. A thread that
stalled may link its node behind a recycled node that is not in the list yet:
the value is counted and enqueued for its caller, and cannot be dequeued before the
other enqueuer has finished. NothingLost and EventuallyTaken say that this is all
that happens to the value, as the comment in Dequeue claims; queue_empty_send shows
what it does to sendPost. A second effect is on the order: what the stalled
thread enqueues next may be dequeued first.

What the callers can rely on is `PacketQueue`. Values are numbered in the order in which their
enqueuers took a node. A value comes into the line of those a Dequeue can reach by one of two
steps: LinkLast puts it, with what was linked behind it meanwhile, behind the line; LinkBehind puts it
behind a value with a greater number that is not linked itself, and so out of reach until that one
is. Remove takes the first of the line. `ImplementsPacketQueue` maps `line` to the nodes behind `_head`
and `chain` to those behind a node not linked. SendPath uses these steps; NetServer, where send_q
is a number, has no order to lose.

### ChatServer

The application, under the contract that NetServer is shown to keep
(SessionService): per session OnClientJoin first, OnClientLeave last, one callback at
a time. `m_userMap`, `m_accountMap`, `m_connectCnt`, `m_loginCnt` and
`g_SectorList` are the variables of the code; `user` holds the fields of the User
objects the handlers decide by; `pool` is the free list of m_userPool, so that an
object comes back with the fields InitUser does not reset. `exclusive` and `shared` say
who holds the lock of the user map, of a user, of a sector.

| code | actions |
|---|---|
| OnConnectionRequest, OnClientJoin, CreateUser | Join, CreateLock, CreateInsert, CreateCount |
| OnRecv, AcquireUser, ReleaseUser | Recv, AcquireMap, AcquireUser, ReleaseUser |
| ProcLogin | LoginAccount, LoginDec, LoginInc |
| ProcSectorMove, Sector_AddUser, Sector_RemoveUser | MoveLock, Move |
| ProcMessage, SendMessageAround, LockSectorAround | ChatLock, Chat |
| OnClientLeave, DeleteUser | Leave, DeleteMap, DeleteLock, DeleteSector, DeleteUnlock, DeleteAccount, DeleteCount, DeleteFree |

A step ends where a thread may wait. m_accountMapSRW is held only within one step,
except by a login that crashes (`AccountMapFree`). A thread that called CrashDump::Crash() stays where it is, and
the others go on until the process has ended. A client sends packets with its own account number, in any
order, with positions in the grid or out of it.

Why CreateUser may lock the user first and the map second although AcquireUser and
DeleteUser do it the other way round: the object just left the pool, where nobody
refers to it (PooledIsUnused), and it gets into the map only with the map locked. Its
lock is free, and nobody can wait for it (UserLockUncontended, which ChatServerProof
proves). The same property says that no reader of the map ever holds up the others
by waiting for a busy user. NoCircularWait says what remains: sectors are locked
in one order.

### LanClient

The client of the monitor server. It repeats the protocol of a session with one
Session, workers of its own and a `Connect`/`Disconnect` that the application thread
calls, and ends its workers with packets posted to the port. The names are those of the
fields. `pc[t]` is the stack of functions a thread still has to run: a completion
that is handled by recvPost and then updateIOCount is `<<"recv_check", "update">>`, so that
a reference is visible as an "update" ahead. The port is first in, first out: it
decides whether a worker sees RELEASE_PEND before its exit packet.

| code | actions |
|---|---|
| Connect, connectSession | Connect, ConnectFailed, ConnectSession, Connected |
| Disconnect, releaseClient | Disconnect, PostExits, WaitWorkers |
| SendPacket, sendPend | SendMonitorData, SendId, SendInc, SendTest, Enqueue, SendPend |
| disconnectSession | DisconnectSession, DisconnectCancel |
| recvPost | RecvCheck, RecvPost |
| trySend, sendPost | TrySend, TrySize; SendCheck, SendExchange, SendNothing, SendPost |
| updateIOCount, releasePend, release | UpdateIOCount, ReleaseCas, ReleasePost, ReleaseLeave, ReleaseClean |
| runIoThread | GetPacket with Dispatch, Cancel, Parse, Sent |
| kernel | IoComplete; cancellation is part of DisconnectCancel and Cancel |

`accepted`, `freed` and `dropped` account for packets: which SendPacket took,
which were given back with SubRef, which a later Connect overwrote. The workers
may leave before RELEASE_PEND; then OnLeaveServer is not called and the socket stays
open, and the next Connect starts from what is left. `joined` and `left` record it.

### CPacket, RingBuffer, Framing

A packet is a record of header and buffer; a value is the bytes it consists of. Alloc
clears the positions of a packet from the pool and nothing else, so bytes and
header of its last use are still there. Encode and Decode are the key, checksum
and xor chain of the code on bytes of `Bits` bits, written as recursive functions. The
xor is a constant, `BitXor`, of which only `XorCancels` is assumed: it stays among the
bytes, and doing it twice with the same byte undoes it. MCFraming gives it the xor of bits.
`MessageSizes` says what a message is: values of bytes, not empty, smaller than a packet
and, with its header, than recv_buffer; its length tells the sizes of its values, which stands for the
type in front of it.

RingBuffer has the operations of the class and the two that the kernel performs
on the areas it was given: Receive (WSARecv, then MoveRear) and Transmit (WSASend,
then MoveFront). `Contents` maps it to a ByteQueue.

| code | actions of Framing |
|---|---|
| PacketMaker, operator<<, Encode, SendPacket, the copy in sendPost | MakePacket |
| WSASend and its completion | SendPost, SendDone |
| a peer that is not ours | SendBadFrame |
| completion of WSARecv, MoveRear | RecvDone, RecvNothing |
| the receive loops | FrameRefused, FrameIncomplete, FrameNet (CNetServer), FrameLan (CLanClient) |
| recvPost | RecvPost |

`kind` says which loop receives. They differ: CNetServer has the header with code
and key, tests the length against the buffer size and decodes; CLanClient
has a header of the length alone, tests against the space left, and dispatches a packet that fails
the test. TCP delivers any prefix of `wire` that fits.

### LockFreeStack, MemoryPool, BufferAllocator, Memory

| code | actions |
|---|---|
| LockFreeStack::Push, Pop | PushCall, PushRead, PushSwap; PopCall, PopRead, PopNext, PopSwap |
| LockFreePool::Alloc, Free | PoolAllocRead, PoolAllocNew, PoolAllocNext, PoolAllocSwap; FreeRead, FreeSwap |
| MemoryPoolTls::Alloc | Attach; AllocFromChunk, AllocFromPool, AllocShared, AllocPopped, AllocGenerated |
| MemoryPoolTls::Free | FreeToPool, FreeToChunk, FreeShared, FreePushed |
| acceptThread and release on m_emptySessionStack | AcceptCall, AcceptSession, AcceptRefused; ReleaseCall, ReleaseDone |
| CNetServer::Start and Stop, BufferAllocator::Alloc and Free | Start, Alloc (AllocNext, AllocRegion); Stop (FreeShared, FreePage, FreeRegion) |

Stack and pool run through the same nodes, so a node popped by a slow thread may
meanwhile be freed, taken and pushed again; the tag is what notices. `use` says which
of the three memories a behaviour is about; they share no variable, and one run checks
all three. Slots are pushed and popped as CNetServer does it: only the accept thread
pops, only a worker that releases an open session pushes. BufferAllocator is driven
in the order its comment demands (BufferAllocator.h:7: everything allocated at start-up
and freed at the end); with a Free between two Allocs two buffers can get the
same page, and no caller does that.

## Runs

| run | bounds | shows |
|---|---|---|
| net_lifecycle | 1 slot, 3 workers, 2 sessions in turn, send_q of 1, both API calls; 1.3 million states | TypeOK, NoCrash, CountIsReferences, OneIoOutstanding, FreeSlotIsClean, ApiTargetsItsSession, NoLostWakeup, Contract (refinement of SessionService) |
| net_release | 1 slot, 2 workers, 1 session, with fairness | DisconnectedIsReleased |
| net_cancel_race (violation) | as net_release, without fairness of the network | a disconnected session that stays |
| send | 2 senders, 2 workers, 3 packets, send_q of 2, send_buffer of 2, both memory models; 0.2 million states | SingleSender, ImplementsChannel (refinement of PacketChannel), SentWithoutBuffers |
| send_lost_wakeup (violation) | 3 packets, store buffers | a packet that stays in send_q |
| queue | 2 producers with 4 values, 2 workers, 4 nodes, both callers; 0.9 million states | NodesApart, NothingLost, TakenOnce, TailAhead, ImplementsPacketQueue (refinement of PacketQueue), EventuallyTaken |
| queue_empty_send (violation) | as queue, send_q only | a WSASend of 0 bytes |
| chat_server | 3 sessions, 2 of them of one client; 3 User objects, 2 workers, 2 x 2 sectors; 1.5 million states | AccountsAgree, SectorsAgree, PooledIsUnused, CountersAgree, NoCircularWait, OnlyDuplicateLoginCrashes |
| chat_relogin (violation) | as chat_server | a user in a sector before its login |
| lan_client | 2 workers, 2 connections, 3 packets, m_sendQ of 2, one packet per WSASend; 0.2 million states | NoCrash, CountIsReferences, OneIoOutstanding, PacketsAccountedFor, DisconnectReturns, BrokenIsReleased |
| framing | both loops, three packets of 1, 3 and 5 bytes, rings of 11 and 10 cells, two random keys; 0.1 million states | InOrder, OnlyBadFramesDisconnect, RoomToReceive, RoomIsFree, NothingLeftBehind, ImplementsQueue |
| memory | 2 workers and the accept thread, 3 nodes, chunks of 2, 6 objects; 3 slots, 9 calls; regions of two pages, 1, 2 or 4 sessions, 3 starts; 1.0 million states | ObjectsInOnePlace, SlotsInOnePlace, BuffersInOnePlace, ImplementsStack |

Why the bounds are enough. The hazards of the life cycle need one slot, its
session, the session after it, and three parties: one that releases, one that holds
a stale id or a count, and one that accepts or completes. Three workers, the
accept thread and the timeout thread give five. send_q of 1 reaches the full and the
empty queue. On the send path a queue of 2 and a buffer of 2 with 3 packets reach the
full queue, the full buffer, the packet left over for the next completion, and a
sender that overtakes another one in Enqueue. A
queue of four nodes has the dummy, a node of each producer and one more, so that the
dummy is recycled while a producer stalls; with four values, shared between them in any way,
both producers come back to a recycled node. The counts of 17 bits wrap after 131072 operations
during one stall, which no run reaches. In the chat server a second login
needs two sessions of one client, a recycled User one session after another, the locks at most three threads at a time (two workers and the accept
thread), and 2 x 2 sectors have both parts of the lock order. MaxUser = 1 refuses a connection
while two users are logged in.

The client needs a second connection, so that what the first leaves behind matters,
and a WSASend that leaves a packet in the queue. In framing the rings are one cell apart
and neither is a multiple of a packet, so that fronts and rears meet the end of
the buffer at every place of a packet; a packet of the largest length still fits,
one more does not. In memory three nodes are the least with which a node popped by a stalled
thread is recycled behind another one; a chunk of 2 has a first and a last
object; four sessions fill a region of two pages and need a second.

MaxId, MaxPackets, MaxEnqueues, MaxConnects, MaxMade, MaxNode, MaxObj,
MaxOut, MaxChunkOps, MaxSlotOps, MaxRegion and MaxStarts are the bounds that do not
exist in the code in this form (2^32 ids; unbounded packets; memory of the machine).

Workers are interchangeable: symmetry over them is used in the runs without
liveness.

Fairness. NetServer's `ThreadFairness`: a thread that can run runs; a packet in the completion
port is dequeued some day although workers are busy now and then (the port is
FIFO); a receive buffer holds finitely many packets and OnRecv returns. Nothing
makes a client connect or the timeout thread find a session idle.
`KernelFairness`, on top: every operation the kernel holds completes. That is an
assumption about the peer and the network and not about this code, so the two
are separate: net_release needs both, net_cancel_race shows what happens with the
first alone. On the send path, threads run, the port is served and WSASend
completes; nobody has to call SendPacket again. In the queue, threads run. In the client, threads
run, each worker gets packets as long as there are some (the port serves waiting
threads), the functions of the application thread run to their end, and an
operation the kernel holds completes some day; nothing makes the application call
Connect, Disconnect or SendPacket. The other modules have safety properties only.

## Findings

1. recvPost tests `disconnect` and posts WSARecv later. If another thread
   disconnects and CANCEL_IO is processed in between, nothing cancels the receive; the
   session keeps its slot until its peer sends or goes away (net_cancel_race).
2. `send_post_flag = false` in trySend is a plain store followed by a plain load
   of the size of send_q. With the store buffers of x86 the load may come first, and
   a packet accepted in that window is sent only with the next SendPacket
   (send_lost_wakeup). With sequentially consistent memory it cannot happen
   (SentWithoutBuffers), and in both no packet leaves twice or before its turn in the list
   (ImplementsChannel). NoLostWakeup of NetServer is about sequentially consistent memory, too.
3. A node of the send queue that is allocated and not linked yet may get a successor. Then
   GetSize is positive and Front finds nothing, sendPost sends 0 bytes, and the completion
   with 0 bytes is taken for a failure: a session is disconnected because two threads sent
   to it at the same time (queue_empty_send).
4. InitUser does not reset the account number. A client that gets the User object of
   its last session passes the account test of the handlers without a login
   (chat_relogin).

Met while modelling, where no document of the repository says otherwise:

* A login with an account that another connection holds in m_accountMap ends the server
  (ProcPacket.cpp:88) in front of the lines that log it and disconnect that connection. An
  entry stays until OnClientLeave has erased it, so a client that reconnects before its last
  session was released gets there; in chat_server the sessions s1 and s3 do.
  OnlyDuplicateLoginCrashes says that this is the only crash of the application.
* Two threads that send to one session at the same time have no order, and neither has each of
  them for itself: LockFreeQueue may give out a packet before one that the same thread
  enqueued earlier (PacketQueue!LinkBehind). With one sender the order is kept (`OneSenderKeepsOrder`).
* CLanClient::releaseClient posts the exit packets right after disconnectSession
  (CLanClient.cpp:185). When the workers leave before RELEASE_PEND, OnLeaveServer is not
  called and the socket is not closed. A connection that broke with packets in
  m_sendQ posts SEND_PEND again and again (621) and is not released; BrokenIsReleased
  makes this exception.
* The receive loop of CLanClient disconnects on a packet whose length exceeds the space
  left in the buffer at that moment (310), though it was received already, and still
  dispatches it.
* CNetServer compares the length of a packet with the buffer size without the header
  (CNetServer.cpp:512). A packet of the last few lengths never completes: the buffer is
  full, WSARecv is posted with 0 bytes, and the session ends. RoomToReceive says that
  nothing else leads there.
* operator<< of CPacket ignores that PutData wrote nothing into a full packet.
* m_maxUser is set to 15000 in ChatServer::Start; MaxUser of Config.ini is read and
  not used.
* The default size of RingBuffer (RingBuffer.h:14) is more than BufferAllocator can
  allocate; every use names a size.

## Proofs

Forty-nine theorems, in eight modules. Each rests on the named assumptions of the
module it is about, and on no bound of a run.

`SendPathProof`, for at least one place in queue and buffer:

* `TypeCorrect`: `Spec => []TypeOK`, one case per action.
* `SendSideExclusive`: `Spec => []SingleSender`. SingleSender is not inductive: it
  does not say why an InterlockedExchange that finds the flag clear finds
  nobody sending. The inductive invariant `Exclusive` says that the send side is a
  token: at most one of a thread that owns it, a thread whose store of false is
  still buffered, a SEND_PEND packet and an outstanding WSASend exists, and while
  one does the flag reads 1 in memory. Only the exchange creates the token, and
  only the store reaching memory destroys it.
* `ChannelImplemented`: `Spec => ImplementsChannel`, for both memory models, any number of
  senders, and however they get in each other's way in Enqueue. A packet is in one place,
  in `in_line` or in the chain of one sender, and there once (`Placed`); linking moves
  packets between these places. `sent`, send_buffer and send_q are pieces of `in_line` (`Pieces`). Where they meet depends on who has the token: between two calls of
  sendPost the buffer is empty, while sendPost runs the buffer continues `sent` and at
  most the packet copied and not dequeued yet is in both, during WSASend all
  of the buffer is in flight. A session that was disconnected may keep a full buffer,
  and then nobody sends. From `Pieces`, each step appends to `sent` what PacketChannel allows.
  send_size and free_nodes do not fall below zero because a thread that will count down has seen
  a packet counted (`Counting`).
* `OneSenderKeepsOrder`: with one sender, `in_line` is 1, 2, 3 and so on, for its chain is at most the one packet it is
  linking (`LoneChain`). With ChannelImplemented: packets are sent in the order they were accepted.

`NetServerProof`, for finitely many slots and workers, distinct
threads, a queue of at least one place:

* `TypeCorrect`: `Spec => []TypeOK`. A location of a shared function such as
  updateIOCount is reached from several callers, and where it returns to, and
  which Session it works on, depends on `ctx`. The invariant `Control` says which
  contexts go with which locations, that a thread away from its loop has a Session,
  and that a thread in the public API has a call. One case per action.
* `CountCorrect`: `Spec => []CountIsReferences`. Given TypeOK and Control the
  property is inductive. Only one thread moves in a step, so three cardinalities change by
  at most one each (`SetStep`), and lemma `Balance` reduces the goal to a local
  equation: io_count changes by what the thread holds (`Held`) plus what the kernel
  holds (`InKernel`). Each action then proves its own equation. In UpdateIOCount the
  crash branch (a count below 1) is excluded by `HeldIsCounted`: the thread itself
  holds a reference, so the count it decrements is at least 1.

`NetServerProof`, second and third part, under the same assumptions:

* Every proof here goes through one case analysis, lemma `StepKinds`: what a step does to its
  thread, to the Sessions, and to what the kernel has of them (`Load`). Most steps are
  quiet and need one argument together; fifteen kinds need their own. Writing it down
  showed that ApiId had been modelled by a CASE whose guards overlapped, which
  TLA+ leaves open and TLC resolves in order; it is an IF now.
* `FreeSlotsAreClean` and `ApiOnItsSession`. Neither property says why nobody is left on a
  slot when it is pushed. The invariant `SlotInv` does: a slot is on the stack, in the hands of the accept
  thread, open, or released by one thread or one RELEASE_PEND (`OnePhase`); who uses a session
  uses an open one (`OpenWhileUsed`), because only the compare-exchange of (0, 0) closes it and
  CountIsReferences counts every user; what release() cleaned stays clean until
  AcceptInit (`Emptied`); an id that was checked stays the id of its slot (`IdChecked`).
* `OneIoAtATime`. The right to receive is a token, an outstanding WSARecv, its packet or the thread
  that handles it (`OneReceive`); so are the right to send, guarded by send_post_flag (`OneSend`), and the
  right to cancel, guarded by disconnect (`OneCancel`). A closed slot has none of them
  (`ClosedIdle`), so AcceptInit, which resets both guards, creates the only ones.
* `ServerNeverCrashes` and `ServerKeepsContract`. The application's users are exactly the sessions that
  are open and joined, or closed and not left (`UsersArePresent`). Only a disconnected
  session closes: as long as one is connected somebody receives from it or is about to disconnect it
  (`AllWatched`), and is counted. Ids are issued in the order of m_sessID, so the one
  OnClientJoin is called with is new (`IssuedInOrder`). A worker in OnRecv has the receive
  token of an open session (`RunningHolds`), so no second OnRecv runs for it and
  no OnClientLeave meets it. `ServerKeepsContract` maps AcceptJoin, OnRecv, OnRecvReturn and
  ReleaseLeave to Join, RecvBegin, RecvEnd and Leave, and every other step to a stutter. It assumes
  that NoCall is no session id.
* `NoForgottenPacket`. Behind a send_post_flag that is set there is a send, a SEND_PEND,
  or a thread that will post one or disconnect (`AllArmed`). Who leaves a packet in send_q gets the flag or
  finds it set; then the one behind the flag clears it before it looks at send_q (`AllServed`).

`RingBufferProof`, for a ring of at least two cells (`RingConstants`):

* `TypeCorrect`, `RoomCorrect`, `QueueCorrect`, and the operators of both kinds of
  calls: `PutAppends`, `TakeRemoves`, `ReadsFront`. The cells are a circle; front and fillSize
  determine the rear (`RearBehindFront`), and a cell holds a byte exactly when it is
  less than fillSize places behind the front. The copying operations wrap by a test, the
  Move operations by a remainder, and both are the same step on the circle
  (`RemainderIsWrap`).

`LockFreeQueueProof`, for any finite sets of producers and consumers, any number of nodes
and of calls:

* `TypeCorrect`, `NodesStayApart`, `NothingIsLost`, `ValuesTakenOnce`, `TailStaysAhead`,
  `PromiseKept`, from one invariant. It cannot say that the linked nodes are one list, because they are not: the
  compare-exchange of next has no count, so an enqueuer that stalled may link its node behind a
  recycled one that another enqueuer has not linked yet. The nodes form several chains, one from
  `_head` and one from each node not linked (`Chained`), which share no node with each other, the
  pool, or what is about to be freed (`Apart`). The chains are described by ch, and
  the invariant says that some ch fits.
* Linking puts one chain behind another, and would make a circle, all of it lost, if the chain were the
  enqueuer's own. That takes two enqueuers each linking behind the other's node. A
  producer can only meet a recycled node that was taken after its own (`Enqueues`), and
  the values are numbered in that order, so the circle, which with three producers could be longer, would
  be one of increasing numbers.
* `PromiseKept`: `Spec => ImplementsPacketQueue`. The chains of the invariant are what `Line` and `Waiting`
  read (`ValuesFromChain`). A compare-exchange of next that succeeds joins two of them, which is LinkLast or
  LinkBehind (`PromiseLinks`); that of `_head` takes the first value of the list, which is the value the
  dequeuer read (`PromiseRemoves`); taking a node begins a chain; every other step leaves
  the chains alone.
* Head and tail: their counts are positions (`TailOn`); a count that is unchanged means that nothing
  changed since it was read (`Dequeues`). The value read before the compare-exchange of `_head` may be of a
  recycled node; it is the right one whenever the compare-exchange succeeds.
* `Behind` is a recursive function. That it follows a chain (`BehindIs`) is shown without induction: of the
  places where two walks differ, one would be the first (`LeastNumber`, from the library's
  theorem that the subsets of a finite set are well-founded).

`ChatServerProof`, for finitely many sessions, users and workers and any grid:

* `TypeCorrect`, `PooledCorrect`, `LockUncontended`, `SectorsCorrect`. The invariant
  `Ownership` gives each User object one owner: the pool, the accept thread that creates
  it, m_userMap, or the worker that deletes it. A session is served by one thread, so
  no two threads work on one User. Lemma `Frame` says what a step of one thread
  leaves alone of the others; each action then proves its part for its own thread.
* `LocksCorrect`: `Spec => []NoCircularWait`. Who holds the map does not wait, because
  nobody waits for a User. Who holds a sector waits at most for a later one
  (`Holders`). Among threads that wait for sectors one waits for the last
  (`LastSector`, from the finiteness of the grid), and it is blocked by none of them.
* `AccountsCorrect`, `CountersCorrect`, and `CrashCorrect`: `Spec => OnlyDuplicateLoginCrashes`, whatever the
  clients do. An entry of m_accountMap has one User, which is logged in or about
  to be (`Entries`, `Pending`), and no other session's step erases it. A login that finds
  an entry finds that of another session of the account, connected and not yet deleted: its own
  has not logged in, and an entry does not outlive its session (`FoundIsDuplicate`). Every other lookup
  finds what it looks for (`CrashIsLogin`). The counters follow from a
  local change, as for io_count.

`LanClientProof`, for any finite set of workers beside the application thread, and any bounds on
connections, packets and queues:

* `TypeCorrect`, `NoCrashReached`, `ReferencesCounted`, `OneIoAtATime`, `PacketsSettled`, from one
  invariant, `IInv`, whose parts need each other. A thread is a stack of functions,
  so everything counted is a number of entries: of functions in the stacks
  (`Total`), of packets in the port (`In`), of operations in the kernel (`Ops`). An action
  changes one stack at its top; the lemmas `Runs...` turn that into a change of
  every count, and the lemmas `Keeps...`, one for each action, compare the sums.
* `Control` says which functions a stack may have below the one on top (26 pairs for a worker, 28
  for the application thread), and so that "crash" is never there. `CountIsReferences` is the part
  `Counted`: a stack has an "update" for each reference its thread holds.
* `OneReceive` and `OneSend`: the rights to receive and to send are tokens, as in NetServer. SEND_PEND, the
  thread in sendPost, the WSASend and its completion are the one right to send, and m_sendFlag is set while
  it exists. `SentEmpty` follows it: m_sentPacket is empty until WSASend has the packets, and again
  once the completion was handled, so a completed send finds what it frees.
* Why a released session is disconnected: while m_disconnect is 0 there is a receive, or its failure, or a
  thread about to disconnect that holds a reference (`Watched`), so the count is not 0. Why it is
  released once: `Stage` follows RELEASE_PEND to the end of release, and a closed session
  has no users (`ClosedIdle`), hence no late SendPacket gets past its test.
* `Phase` and `Stage` tell the first connection from later ones. Workers run only during the
  first; a later Connect starts none (CLanClient.cpp:72), so release never runs again, `left`
  stays a part of {1}, and what a later connection counts is never given back by anybody but the
  application thread. The proof had to say this: without it neither `OneIoOutstanding`, which is about the
  time workers run, nor the last line of `PacketsAccountedFor` can be shown.

`MemoryProof`, for any finite set of threads, any numbers of nodes, slots and objects, any size of
chunks, and pages, regions and sessions of any number that fits `BufferSizes`:

* `StackIsAtomic`: `Spec => ImplementsStack`. The pointers and links of the stack are a chain, those of
  its pool of nodes another, which share no node with each other or with what a thread
  has in its hands (`Chained`, `NodesApart`). A thread that stalled between its read of the
  top and its compare-exchange remembers the link of a node that others may have popped, freed and
  pushed again. What it remembers is true as long as the tag it read is the tag of the top
  (`Recalls`), and every exchange makes the tag larger; so a compare-exchange that succeeds
  installs a true link. `StackEffect` says what each step does to the chain: nothing, one
  value more, or the top one less, which is the step of AtomicStack it maps to.
* `SlotsAreInOnePlace` and `ObjectsAreInOnePlace` rest on it: a value that is pushed once is on the
  stack, or in one thread's hands, once (`ValuesApart`). Slots need no more (`SlotsInv`). The
  objects of MemoryPoolTls do: the lists a thread keeps inside a chunk have the length its
  counters say (`Lists`), a thread that pops from the shared stack has empty lists and one that pushes has a full
  chunk in its hands (`Calls`),
  and the places objects can be in are disjoint and hold all that were allocated
  (`Located`). A step moves objects between the places of its own thread and shared ones and
  leaves those of every other thread alone (`Relocates`), which is enough (`Reassembled`).
  ObjectsInOnePlace counts the places' sizes: sizes of disjoint parts add up (`SumOfParts`).
* `PagesInvariant` and `BuffersAreInOnePlace`. BuffersInOnePlace does not say why the address the allocator hands out
  next is free. The invariant `PagesInv` does: a pointer that goes on in a region is alone there,
  behind every buffer and page of it (`Frontier`), and the buffers of a region ascend in the order
  they were allocated (`Ascending`). Free keeps `Frontier` because fixDecommittedAddr moves a
  pointer out of the page it gives back to the next one. That would be wrong for the first page of a region
  with others left: a pointer that stopped at the end of the region before stands there, and would be moved
  into a region that is not its own. Stop frees the buffer allocated last first, so the
  first page of a region goes last, with the region (`FreePageKeeps`).

`FramingProof`, for rings, packets and bytes of every size (`RingSizes`, `PacketSize`), every key
(`PacketKeys`), every xor that cancels (`XorCancels`), every set of messages that fit
(`MessageSizes`), any number of them, and every cut of the stream by TCP:

* `StreamCorrect`: `Spec => []IInv`. The bytes in recv_buffer, on the wire and in send_buffer
  are one sequence, `Unread`. It is the frames of the messages made and not received
  yet, whole and in order, with at most one foreign frame behind them (`Stream`). A
  completion of WSASend or WSARecv moves bytes within it, MakePacket puts a frame behind it,
  and the receive loop takes the first one: the header of a frame tells its length, so what the loop
  dequeues is that frame, and the rest is again a `Stream`.
* `OrderKept` and `AllReceived`. What OnRecv reads out of the packet is what PacketMaker wrote into it:
  Decode undoes Encode (`DecodedCoded`: a coded byte was xored with the coded byte before it,
  which the receiver has), and operator>> undoes operator<< (`WriteFills`, `ReadTakes`).
  Neither depends on what the packet from the pool held before, as long as Clear resets its
  positions. A worker that posts the next WSARecv has no whole frame left in recv_buffer (`Waiting`).
* `OnlyBadOnesEnd`: CNetServer disconnects a session only if a foreign frame was sent, as a frame
  of ours passes every test of its loop (`Disconnects`). `SpaceWhenPosted`: recv_buffer is never full
  when a WSARecv is posted, because what is left in it is less than a frame that fits.
* `BothRingsFree` and `BothRingsQueue` hand the theorems of RingBufferProof to the two rings. Those are about
  RingBuffer's own specification, of which a step of Framing is not a step; its lemmas are therefore about one state
  and one operation (`QueueCorrect` is their first user), and FramingProof cites them twice, for each
  instance.
* What the recursive functions compute is proved without induction over them: one that
  satisfies the equation exists (`Iterates`), two that do are the same (`SameSteps`), and a statement
  about all places follows from the least one at which it fails (`UpTo`, as in LockFreeQueueProof).

Every safety property of a passing run is the property of a theorem. Model-checked only: liveness, which is
outside the prover. The runs that expect a violation refute what they check, so there is nothing to prove of it.

## Not modelled

* CNetServer::Start: sequential, before there is a client; the models begin behind it.
* CNetServer::Stop(): once per process, at its end. It is the next thing to model, in coarser
  steps than NetServer's: Stop() waits for m_sessionCnt (CNetServer.cpp:177), which the accept thread
  raises after it opened a session, and the connection that wakes the accept thread (158)
  may come after the wait.
* The wrap of m_sessID after 2^32 connections.
* The reference count of a packet that many sessions share: AddRef and SubRef are
  one interlocked operation each; LanClient accounts for the packets of one queue.
* ObjectPool and the destructors; the debug counters of MemoryPoolTls.
* The text of chat packets, names, receive times; the counters of the monitor.
* CLog's files, Profiler and Tracer, configuration, resource counters, crash dump,
  main: diagnostics and start-up. The vendored Redis client, of which ChatServer
  reads one key.

PROJECT.json gives the reason for each component, and lists the hazards no property covers.

## Plan

1. Stop() with the accept thread, the workers and the timeout thread.
2. NetServer with ids that wrap.
