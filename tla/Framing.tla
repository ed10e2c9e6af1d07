------------------------------ MODULE Framing ------------------------------
(***************************************************************************)
(* Packets through the byte stream of one connection, in one direction.    *)
(* The sender makes packets with operator<<, puts them in send_buffer and  *)
(* sends that, as PacketMaker and sendPost do; TCP hands the bytes over in *)
(* pieces of any size; the receiver is the loop over the received bytes in *)
(* CNetServer::runIoThread or the one in CLanClient::runIoThread, which    *)
(* has a shorter header, does not decode and tests the length differently. *)
(* A sender that is not ours may end with a frame that the loop refuses.   *)
(***************************************************************************)
EXTENDS CPacket, SequencesExt

CONSTANTS Kinds,        \* receive loops of the run: "net", "lan"
          sendSize,     \* bufSize of send_buffer
          recvSize,     \* bufSize of recv_buffer and m_recvQ
          Messages,     \* the packets that are made: sequences of values
          RandKeys,     \* results of rand() in Encode
          MaxMade       \* bound: packets made

VARIABLES kind,         \* which of the two loops receives; never changes
          made,         \* the packets made so far
          broken,       \* the sender ended with a frame of its own
          sbuf, sfront, srear, sfill,   \* send_buffer
          sending,      \* bytes of the outstanding WSASend, 0: none
          wire,         \* bytes TCP has to deliver
          rbuf, rfront, rrear, rfill,   \* recv_buffer or m_recvQ
          pc,           \* where the receiver's worker is
          disconnect,
          pooled,       \* the packet the worker gave back last, and takes next
          got           \* what OnRecv read out of its packets

send_buffer == <<sbuf, sfront, srear, sfill>>
recv_buffer == <<rbuf, rfront, rrear, rfill>>
received    == <<pooled, got>>
vars == <<kind, made, broken, send_buffer, sending, wire, recv_buffer, pc, disconnect,
          received>>

S == INSTANCE RingBuffer WITH bufSize <- sendSize, Byte <- Nat,
        buf <- sbuf, front <- sfront, rear <- srear, fillSize <- sfill
R == INSTANCE RingBuffer WITH bufSize <- recvSize, Byte <- Nat,
        buf <- rbuf, front <- rfront, rear <- rrear, fillSize <- rfill

ASSUME RingSizes == S!RingConstants /\ R!RingConstants /\ recvSize > NetHeaderSize

\* A message is a sequence of values of a few bytes; with its header it fits into the
\* packet and the receive buffer.  Its size tells its type.
Sizes(m) == [i \in DOMAIN m |-> Len(m[i])]

ASSUME MessageSizes ==
    /\ \A m \in Messages :
         /\ m \in Seq(Seq(Bytes))
         /\ Len(FlattenSeq(m)) > 0 /\ Len(FlattenSeq(m)) < eBUFFER_DEFAULT
         /\ Len(FlattenSeq(m)) + NetHeaderSize < recvSize
    /\ \A m, n \in Messages : Len(FlattenSeq(m)) = Len(FlattenSeq(n)) => Sizes(m) = Sizes(n)
    /\ RandKeys \subseteq Nat

HeaderSize == IF kind = "net" THEN NetHeaderSize ELSE LanHeaderSize

Init ==
    /\ kind \in Kinds
    /\ made = <<>> /\ broken = FALSE /\ sending = 0
    /\ S!Init /\ R!Init
    /\ wire = <<>>
    /\ pc = "posted" /\ disconnect = FALSE
    /\ pooled = Fresh /\ got = <<>>
-----------------------------------------------------------------------------
(* The sender *)

\* PacketMaker, and sendPost's copy of the packet to send_buffer.  A packet that
\* does not fit waits for the completion of the WSASend before it.
MakePacket ==
    /\ Len(made) < MaxMade /\ ~broken
    /\ sending = 0
    /\ \E values \in Messages, r_key \in RandKeys :
        LET packet == Write(Alloc(Fresh), values) IN
        /\ made' = Append(made, values)
        /\ S!Enqueue(IF kind = "net" THEN GetBufferPtrNet(Encode(packet, r_key))
                                     ELSE GetBufferPtrLan(packet))
    /\ UNCHANGED <<kind, broken, sending, wire, recv_buffer, pc, disconnect, received>>

\* WSASend of one or two areas.
SendPost ==
    /\ sending = 0 /\ sfill > 0
    /\ sending' = sfill
    /\ wire' = wire \o S!Outgoing(sfill)
    /\ UNCHANGED <<kind, made, broken, send_buffer, recv_buffer, pc, disconnect, received>>

SendDone ==
    /\ sending > 0
    /\ S!Transmit(sending)
    /\ sending' = 0
    /\ UNCHANGED <<kind, made, broken, wire, recv_buffer, pc, disconnect, received>>

\* Packets like ours but for a checksum that does not fit the bytes.
WrongSums ==
    LET packet == Encode(Write(Alloc(Fresh), <<<<0>>>>), 0) IN
    {wrong \in {[packet EXCEPT !.check_sum = sum] : sum \in Bytes} : ~Decode(wrong).ok}

\* Frames that are none of ours: no payload; longer than the buffer; with its
\* header longer than the buffer; a checksum that is wrong.
BadFrames ==
    {<<packet_code, 0, 0, 0>>,
     <<packet_code, recvSize, 0, 0>>,
     <<packet_code, recvSize - 1, 0, 0>> \o [i \in 1 .. recvSize - 1 |-> 0]}
    \cup {GetBufferPtrNet(packet) : packet \in WrongSums}

SendBadFrame ==
    /\ kind = "net" /\ ~broken
    /\ sending = 0 /\ sfill = 0
    /\ broken' = TRUE
    /\ \E frame \in BadFrames : wire' = wire \o frame
    /\ UNCHANGED <<kind, made, send_buffer, sending, recv_buffer, pc, disconnect, received>>
-----------------------------------------------------------------------------
(* The receiver *)

\* A completion with bytes: MoveRear, and the loop starts.
RecvDone ==
    /\ pc = "posted"
    /\ \E n \in 1 .. Len(wire) :
        /\ R!Receive(SubSeq(wire, 1, n))
        /\ wire' = SubSeq(wire, n + 1, Len(wire))
    /\ pc' = "loop"
    /\ UNCHANGED <<kind, made, broken, send_buffer, sending, disconnect, received>>

\* A receive into no space completes with 0 bytes, which is taken for a failure.
RecvNothing ==
    /\ pc = "posted"
    /\ R!GetEmptySize = 0
    /\ disconnect' = TRUE
    /\ pc' = "closed"
    /\ UNCHANGED <<kind, made, broken, send_buffer, sending, wire, recv_buffer, received>>

HasHeader == R!CanDequeue(HeaderSize)
HeaderLen == R!Peek(HeaderSize)[IF kind = "net" THEN 2 ELSE 1]

\* Only CNetServer looks at the length before it waits for the rest.
LenRefused == kind = "net" /\ (HeaderLen = 0 \/ HeaderLen > R!GetBufferSize)

\* Mutant: one byte more than the packet is waited for.
Complete_OffByOne == HeaderLen + HeaderSize < R!GetFillSize

Complete == HeaderLen + HeaderSize <= R!GetFillSize

FrameRefused ==
    /\ pc = "loop"
    /\ HasHeader /\ LenRefused
    /\ disconnect' = TRUE
    /\ pc' = "post"
    /\ UNCHANGED <<kind, made, broken, send_buffer, sending, wire, recv_buffer, received>>

\* The header or the rest of the packet has not arrived yet.
FrameIncomplete ==
    /\ pc = "loop"
    /\ HasHeader => ~LenRefused /\ ~Complete
    /\ pc' = "post"
    /\ UNCHANGED <<kind, made, broken, send_buffer, sending, wire, recv_buffer, disconnect, received>>

\* What is read out of a packet: the values of a message of its size.
Received(packet) ==
    LET fitting == {m \in Messages : Len(FlattenSeq(m)) = packet.data_size} IN
    Read(packet, IF fitting = {} THEN <<>> ELSE Sizes(CHOOSE m \in fitting : TRUE))

\* What OnRecv leaves unread is still in the packet when the pool hands it out again.
OnRecv(packet) ==
    /\ got' = Append(got, Received(packet).values)
    /\ pooled' = Received(packet).packet

\* The packet is taken out of recv_buffer, decoded and dispatched; one that does
\* not decode ends the session, and the loop goes on.
FrameNet ==
    /\ pc = "loop" /\ kind = "net"
    /\ HasHeader /\ ~LenRefused /\ Complete
    /\ LET size    == HeaderLen + HeaderSize
           packet  == MoveWritePos(FilledNet(Alloc(pooled), R!Peek(size)), HeaderLen)
           decoded == Decode(packet) IN
        /\ R!Dequeue(size)
        /\ IF decoded.ok THEN OnRecv(decoded.packet) /\ UNCHANGED disconnect
                         ELSE disconnect' = TRUE /\ pooled' = decoded.packet /\ UNCHANGED got
    /\ UNCHANGED <<kind, made, broken, send_buffer, sending, wire, pc>>

\* A packet longer than the space left ends the connection, and is dispatched.
FrameLan ==
    /\ pc = "loop" /\ kind = "lan"
    /\ HasHeader /\ Complete
    /\ LET size   == HeaderLen + HeaderSize
           packet == MoveWritePos(FilledLan(Alloc(pooled), R!Peek(size)), HeaderLen) IN
        /\ disconnect' = (disconnect \/ HeaderLen > R!GetEmptySize)
        /\ R!Dequeue(size)
        /\ OnRecv(packet)
    /\ UNCHANGED <<kind, made, broken, send_buffer, sending, wire, pc>>

\* recvPost offers all of the free space, and nothing once disconnected.
RecvPost ==
    /\ pc = "post"
    /\ pc' = IF disconnect THEN "closed" ELSE "posted"
    /\ UNCHANGED <<kind, made, broken, send_buffer, sending, wire, recv_buffer, disconnect, received>>
-----------------------------------------------------------------------------
Sender   == MakePacket \/ SendPost \/ SendDone \/ SendBadFrame
Receiver == \/ RecvDone \/ RecvNothing
            \/ FrameRefused \/ FrameIncomplete \/ FrameNet \/ FrameLan
            \/ RecvPost

Next == Sender \/ Receiver

Spec == Init /\ [][Next]_vars
-----------------------------------------------------------------------------
(* Properties *)

\* However TCP cuts the stream and wherever the rings wrap, OnRecv reads the
\* values that were written, packet by packet, in the order they were made.
InOrder ==
    /\ \A i \in DOMAIN got : i <= Len(made) => got[i] = made[i]
    /\ ~broken => Len(got) <= Len(made)

\* CNetServer disconnects only a peer that sent a frame none of ours would send
\* (CNetServer.cpp:512, 538), and then it dispatches nothing of that frame.
OnlyBadFramesDisconnect ==
    kind = "net" => /\ disconnect => broken
                    /\ Len(got) <= Len(made)

\* A receive is posted without space only for a packet that together with its
\* header is longer than the buffer: the test of the length (CNetServer.cpp:512)
\* leaves the header out, and the session waits for the rest until it is closed.
RoomToReceive ==
    pc = "posted" /\ R!GetEmptySize = 0 =>
        HasHeader /\ HeaderLen + HeaderSize > R!GetBufferSize

\* Both rings give the kernel areas of the buffer that hold no unread byte.
RoomIsFree == S!RoomIsFree /\ R!RoomIsFree

\* Both rings are queues of bytes.
ImplementsQueue == R!ImplementsQueue /\ S!ImplementsQueue

\* When every byte has arrived and the worker waits for more, OnRecv has read every
\* packet that was made: no packet waits for the bytes of the next.
NothingLeftBehind ==
    sending = 0 /\ sfill = 0 /\ wire = <<>> /\ pc = "posted" /\ ~broken => got = made
=============================================================================
