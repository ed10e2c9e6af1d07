----------------------------- MODULE RingBuffer -----------------------------
(***************************************************************************)
(* RingBuffer: the byte queue between WSARecv, WSASend and the packets.  A *)
(* buffer of bufSize bytes (one more than the constructor was asked for)   *)
(* with front, rear and a count.  Enqueue and Dequeue copy bytes and split *)
(* the copy at the end of the buffer; WSASend and WSARecv are given the    *)
(* used or the free part as one or two areas and MoveFront or MoveRear     *)
(* follows when they complete.  Receive and Transmit are the system call   *)
(* together with its completion: between the two nobody else touches the   *)
(* side they work on (OneIoOutstanding of NetServer).                      *)
(***************************************************************************)
EXTENDS Integers, Sequences

CONSTANTS bufSize,
          Byte

\* At least one byte fits in; what VirtualAlloc returns is zeroed.
RingConstants == bufSize \in Nat /\ bufSize > 1 /\ 0 \in Byte

VARIABLES buf, front, rear, fillSize

ring  == <<buf, front, rear, fillSize>>
Cells == 0 .. bufSize - 1

ClearedRing == front = 0 /\ rear = 0 /\ fillSize = 0

\* The pages are fresh from VirtualAlloc.
Init == buf = [c \in Cells |-> 0] /\ ClearedRing

GetFillSize   == fillSize
GetEmptySize  == bufSize - fillSize - 1
GetBufferSize == bufSize - 1

\* Mutant: the free part reaches to the end of the buffer also when front is 0.
DirectEnqueSize_ToEnd ==
    IF fillSize = bufSize - 1 THEN 0
    ELSE IF rear < front THEN front - rear - 1
    ELSE bufSize - rear

\* What can be received into one area that starts at rear.
DirectEnqueSize ==
    IF fillSize = bufSize - 1 THEN 0
    ELSE IF rear < front THEN front - rear - 1
    ELSE IF front = 0 THEN bufSize - rear - 1
    ELSE bufSize - rear

\* What can be sent from one area that starts at front.
DirectDequeSize ==
    IF fillSize = 0 THEN 0
    ELSE IF rear < front THEN bufSize - front
    ELSE rear - front

\* The bytes d copied to the area of size bytes at rear, the rest to the start.
Written(d, size) ==
    [c \in Cells |->
        IF rear <= c /\ c < rear + size /\ c - rear < Len(d) THEN d[c - rear + 1]
        ELSE IF c + size < Len(d) THEN d[c + size + 1]
        ELSE buf[c]]

\* n bytes from the area of size bytes at front, the rest from the start.
Reading(n, size) ==
    [i \in 1 .. n |-> IF i <= size THEN buf[front + i - 1] ELSE buf[i - size - 1]]

CanEnqueue(n) == n > 0 /\ n <= bufSize - fillSize - 1
CanDequeue(n) == n > 0 /\ n <= fillSize

\* A call that cannot take or give all of its bytes returns 0 and changes nothing.
Enqueue(d) ==
    /\ CanEnqueue(Len(d))
    /\ buf' = Written(d, bufSize - rear)
    /\ rear' = IF Len(d) > bufSize - rear THEN Len(d) - (bufSize - rear)
               ELSE IF rear + Len(d) = bufSize THEN 0 ELSE rear + Len(d)
    /\ fillSize' = fillSize + Len(d)
    /\ UNCHANGED front

Peek(n) == Reading(n, bufSize - front)

Dequeue(n) ==
    /\ CanDequeue(n)
    /\ front' = IF n > bufSize - front THEN n - (bufSize - front)
                ELSE IF front + n = bufSize THEN 0 ELSE front + n
    /\ fillSize' = fillSize - n
    /\ UNCHANGED <<buf, rear>>

\* Mutant: the rear is moved and not wrapped with the buffer's size.
MoveRear_Capacity(n) ==
    /\ rear' = (rear + n) % (bufSize - 1)
    /\ fillSize' = fillSize + n
    /\ UNCHANGED front

MoveRear(n) ==
    /\ rear' = (rear + n) % bufSize
    /\ fillSize' = fillSize + n
    /\ UNCHANGED front

MoveFront(n) ==
    /\ front' = (front + n) % bufSize
    /\ fillSize' = fillSize - n
    /\ UNCHANGED rear

\* WSARecv into DirectEnqueSize bytes at rear and the rest of the free bytes at
\* the start, and MoveRear with the number of bytes received.
Receive(d) ==
    /\ Len(d) > 0 /\ Len(d) <= GetEmptySize
    /\ buf' = Written(d, DirectEnqueSize)
    /\ MoveRear(Len(d))

\* WSASend of n bytes, from DirectDequeSize bytes at front and the rest from the
\* start, and MoveFront with the number of bytes sent.
Outgoing(n) == Reading(n, DirectDequeSize)

Transmit(n) ==
    /\ n > 0 /\ n <= GetFillSize
    /\ MoveFront(n)
    /\ UNCHANGED buf

ClearBuffer == front' = 0 /\ rear' = 0 /\ fillSize' = 0 /\ UNCHANGED buf

Next == \/ \E d \in Seq(Byte) : Enqueue(d) \/ Receive(d)
        \/ \E n \in 1 .. bufSize : Dequeue(n) \/ Transmit(n)
        \/ ClearBuffer

Spec == Init /\ [][Next]_ring
-----------------------------------------------------------------------------
(* Properties *)

TypeOK ==
    /\ buf \in [Cells -> Byte]
    /\ front \in Cells /\ rear \in Cells
    /\ fillSize \in 0 .. bufSize - 1

\* The cell i places behind the front, around the end of the buffer.
Wrap(k)     == IF k < bufSize THEN k ELSE k - bufSize
Behind(i)   == Wrap(front + i)
Contents    == [i \in 1 .. fillSize |-> buf[Behind(i - 1)]]

\* rear is fillSize places behind front.
RearBehindFront == rear = Behind(fillSize)

\* The areas handed to WSARecv are all of the free bytes but one, inside the
\* buffer, and hold no byte that was not read yet (RingBuffer.cpp:38,
\* CNetServer.cpp:811): an area too long and the kernel overwrites packets.
RoomIsFree ==
    LET size1 == DirectEnqueSize
        size2 == GetEmptySize - size1
        Area  == (rear .. rear + size1 - 1) \cup (0 .. size2 - 1) IN
    /\ size1 >= 0 /\ size2 >= 0
    /\ rear + size1 <= bufSize
    /\ \A i \in 0 .. fillSize - 1 : Behind(i) \notin Area
    /\ size2 > 0 => size2 <= rear

\* What the ring is for: a queue of bytes of bounded length.
Queue == INSTANCE ByteQueue WITH items <- Contents, Capacity <- bufSize - 1

ImplementsQueue == Queue!Spec
=============================================================================
