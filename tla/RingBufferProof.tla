-------------------------- MODULE RingBufferProof --------------------------
(***************************************************************************)
(* RingBuffer for every size of the buffer and every pattern of calls: its *)
(* positions stay consistent, the room given to WSARecv holds no unread    *)
(* byte, and it is a bounded queue of bytes.                               *)
(*                                                                         *)
(* The argument.  The cells are a circle.  With the front and the number   *)
(* of bytes the rear is known (RearBehindFront), and a cell holds a byte   *)
(* exactly when it is less than fillSize places behind the front.  Both    *)
(* ways to compute the new position, a test at the end of the buffer in    *)
(* Enqueue and Dequeue and a remainder in MoveRear and MoveFront, take a   *)
(* step of the same length on the circle.                                  *)
(***************************************************************************)
EXTENDS RingBuffer, SequenceTheorems, TLAPS

\* What every step preserves.
Consistent == TypeOK /\ RearBehindFront

\* A position after at most one round is wrapped by one subtraction.
LEMMA RemainderIsWrap ==
    ASSUME RingConstants, NEW a \in Nat, a < bufSize + bufSize
    PROVE  a % bufSize = Wrap(a) /\ Wrap(a) \in Cells
<1> USE DEF RingConstants
<1>1. /\ a = (bufSize * (a \div bufSize)) + (a % bufSize)
      /\ (a % bufSize) \in 0 .. bufSize - 1
      /\ (a \div bufSize) \in Nat
  OBVIOUS
<1>2. CASE a < bufSize
  BY <1>2 DEF Wrap, Cells
<1>3. CASE a >= bufSize
  <2>1. (a \div bufSize) < 2
    BY <1>1
  <2>2. (a \div bufSize) > 0
    BY <1>1, <1>3
  <2>3. (a \div bufSize) = 1
    BY <1>1, <2>1, <2>2
  <2>4. (a % bufSize) = a - bufSize
    BY <1>1, <2>3
  <2>5. QED
    BY <1>3, <2>4 DEF Wrap, Cells
<1>4. QED
  BY <1>2, <1>3

\* Where the bytes d go: the i-th to the cell i - 1 places behind the rear, both
\* when the caller splits at the end of the buffer (Enqueue) and when it splits
\* where DirectEnqueSize says (Receive); no cell with an unread byte changes.
LEMMA WrittenBehindRear ==
    ASSUME RingConstants, Consistent, NEW d \in Seq(Byte), Len(d) <= GetEmptySize, Len(d) > 0,
           NEW size, size = bufSize - rear \/ size = DirectEnqueSize
    PROVE  /\ Written(d, size) \in [Cells -> Byte]
           /\ \A i \in 0 .. fillSize - 1 : Written(d, size)[Behind(i)] = buf[Behind(i)]
           /\ \A i \in 1 .. Len(d) : Written(d, size)[Behind(fillSize + i - 1)] = d[i]
<1> USE DEF RingConstants, Consistent, TypeOK, RearBehindFront, Behind, Wrap, Cells,
        GetEmptySize, DirectEnqueSize
<1>1. Len(d) \in Nat /\ \A i \in 1 .. Len(d) : d[i] \in Byte
  BY LenProperties, ElementOfSeq
<1>2. size \in Int
  OBVIOUS
<1>3. Written(d, size) \in [Cells -> Byte]
  BY <1>1, <1>2 DEF Written
<1>4. \A c \in Cells : Written(d, size)[c] =
          IF rear <= c /\ c < rear + size /\ c - rear < Len(d) THEN d[c - rear + 1]
          ELSE IF c + size < Len(d) THEN d[c + size + 1]
          ELSE buf[c]
  BY DEF Written
<1>5. ASSUME NEW i \in 0 .. fillSize - 1
      PROVE  Written(d, size)[Behind(i)] = buf[Behind(i)]
  BY <1>1, <1>2, <1>4, <1>5
<1>6. ASSUME NEW i \in 1 .. Len(d)
      PROVE  Written(d, size)[Behind(fillSize + i - 1)] = d[i]
  <2>1. PICK c \in Cells : c = Wrap(rear + i - 1) /\ c = Behind(fillSize + i - 1)
    <3>1. i \in Int /\ i >= 1 /\ i <= bufSize - fillSize - 1
      BY <1>1, <1>6
    <3>2. Wrap(rear + i - 1) = Behind(fillSize + i - 1)
      BY ONLY <3>1, RingConstants, Consistent DEF RingConstants, Consistent, TypeOK,
              RearBehindFront, Behind, Wrap, Cells
    <3>3. Wrap(rear + i - 1) \in Cells
      BY ONLY <3>1, RingConstants, Consistent DEF RingConstants, Consistent, TypeOK,
              Wrap, Cells
    <3>4. QED
      BY ONLY <3>2, <3>3
  <2>2. CASE rear + i - 1 < bufSize
    <3>1. c = rear + i - 1 /\ i \in Int /\ c - rear + 1 = i
      BY <1>6, <2>1, <2>2
    <3>2. size >= Len(d) \/ size = bufSize - rear
      BY <1>1, <1>2
    <3>3. c < rear + size
      BY <1>1, <1>2, <1>6, <2>1, <2>2, <3>1, <3>2
    <3>4. rear <= c /\ c - rear < Len(d)
      BY <1>1, <1>6, <2>1, <3>1
    <3>5. Written(d, size)[c] = d[c - rear + 1]
      BY <1>4, <2>1, <3>3, <3>4
    <3>6. QED
      BY <2>1, <3>1, <3>5
  <2>3. CASE rear + i - 1 >= bufSize
    <3>1. c = rear + i - 1 - bufSize /\ c < rear /\ size = bufSize - rear
      BY <1>1, <1>2, <1>6, <2>1, <2>3
    <3>2. c + size + 1 = i /\ c + size < Len(d)
      BY <1>1, <1>6, <2>1, <3>1
    <3>3. Written(d, size)[c] = d[c + size + 1]
      BY <1>4, <2>1, <3>1, <3>2
    <3>4. QED
      BY <2>1, <3>2, <3>3
  <2>4. QED
    BY <1>1, <1>6, <2>2, <2>3
<1>7. QED
  BY <1>3, <1>5, <1>6

\* Enqueue and a completed WSARecv put the bytes behind those that are there.
LEMMA PutStep ==
    ASSUME RingConstants, Consistent, NEW d \in Seq(Byte), Enqueue(d) \/ Receive(d)
    PROVE  /\ Consistent'
           /\ front' = front /\ fillSize' = fillSize + Len(d) /\ Len(d) > 0
           /\ \A i \in 0 .. fillSize - 1 : buf'[Behind(i)] = buf[Behind(i)]
           /\ \A i \in 1 .. Len(d) : buf'[Behind(fillSize + i - 1)] = d[i]
<1> USE DEF RingConstants
<1>1. Len(d) \in Nat
  BY LenProperties
<1>2. Len(d) > 0 /\ Len(d) <= GetEmptySize
  BY <1>1 DEF Enqueue, Receive, CanEnqueue, GetEmptySize, Consistent, TypeOK
<1>3. PICK size : /\ size = bufSize - rear \/ size = DirectEnqueSize
                  /\ buf' = Written(d, size)
  BY DEF Enqueue, Receive
<1>4. /\ buf' \in [Cells -> Byte]
      /\ \A i \in 0 .. fillSize - 1 : buf'[Behind(i)] = buf[Behind(i)]
      /\ \A i \in 1 .. Len(d) : buf'[Behind(fillSize + i - 1)] = d[i]
  BY <1>2, <1>3, WrittenBehindRear
<1>5. front' = front /\ fillSize' = fillSize + Len(d)
  BY DEF Enqueue, Receive, MoveRear
<1>6. rear' = Wrap(rear + Len(d)) /\ rear' \in Cells
  <2>1. CASE Enqueue(d)
    BY <1>1, <1>2, <2>1 DEF Enqueue, Wrap, Cells, Consistent, TypeOK, GetEmptySize
  <2>2. CASE Receive(d)
    <3>1. rear + Len(d) \in Nat /\ rear + Len(d) < bufSize + bufSize
      BY <1>1, <1>2 DEF Consistent, TypeOK, Cells, GetEmptySize
    <3>2. rear' = (rear + Len(d)) % bufSize
      BY <2>2 DEF Receive, MoveRear
    <3>3. QED
      BY <3>1, <3>2, RemainderIsWrap
  <2>3. QED
    BY <2>1, <2>2
<1>7. TypeOK'
  BY <1>1, <1>2, <1>4, <1>5, <1>6 DEF Consistent, TypeOK, Cells, GetEmptySize
<1>8. RearBehindFront'
  BY <1>1, <1>2, <1>5, <1>6
     DEF Consistent, TypeOK, RearBehindFront, Behind, Wrap, Cells, GetEmptySize
<1>9. QED
  BY <1>2, <1>4, <1>5, <1>7, <1>8 DEF Consistent

\* Dequeue and a completed WSASend take bytes from the front.
LEMMA TakeStep ==
    ASSUME RingConstants, Consistent, NEW n \in 1 .. bufSize, Dequeue(n) \/ Transmit(n)
    PROVE  /\ Consistent'
           /\ n <= fillSize /\ fillSize' = fillSize - n
           /\ front' = Behind(n) /\ buf' = buf
<1> USE DEF RingConstants, Consistent, TypeOK, Cells
<1>1. n > 0 /\ n <= fillSize /\ fillSize' = fillSize - n /\ rear' = rear /\ buf' = buf
  BY DEF Dequeue, Transmit, MoveFront, CanDequeue, GetFillSize
<1>2. front' = Behind(n) /\ front' \in Cells
  <2>1. CASE Dequeue(n)
    BY <1>1, <2>1 DEF Dequeue, Behind, Wrap
  <2>2. CASE Transmit(n)
    <3>1. front + n \in Nat /\ front + n < bufSize + bufSize
      BY <1>1
    <3>2. front' = (front + n) % bufSize
      BY <2>2 DEF Transmit, MoveFront
    <3>3. QED
      BY <3>1, <3>2, RemainderIsWrap DEF Behind
  <2>3. QED
    BY <2>1, <2>2
<1>3. RearBehindFront'
  BY <1>1, <1>2 DEF RearBehindFront, Behind, Wrap
<1>4. QED
  BY <1>1, <1>2, <1>3
-----------------------------------------------------------------------------
\* The indices and the count agree at first.
LEMMA ConsistentInit == ASSUME RingConstants, Init PROVE Consistent
  BY DEF Init, ClearedRing, Consistent, TypeOK, RearBehindFront, Behind, Wrap, Cells,
         RingConstants

\* Every call keeps them so.
LEMMA ConsistentStep == ASSUME RingConstants, Consistent, [Next]_ring PROVE Consistent'
<1>1. ASSUME NEW d \in Seq(Byte), Enqueue(d) \/ Receive(d) PROVE Consistent'
  BY <1>1, PutStep
<1>2. ASSUME NEW n \in 1 .. bufSize, Dequeue(n) \/ Transmit(n) PROVE Consistent'
  BY <1>2, TakeStep
<1>3. CASE ClearBuffer
  BY <1>3 DEF ClearBuffer, Consistent, TypeOK, RearBehindFront, Behind, Wrap, Cells,
              RingConstants
<1>4. CASE UNCHANGED ring
  BY <1>4 DEF ring, Consistent, TypeOK, RearBehindFront, Behind, Cells
<1>5. QED
  BY <1>1, <1>2, <1>3, <1>4 DEF Next

\* The indices and the count of the ring agree in every behaviour.
LEMMA ConsistentInvariant == ASSUME RingConstants PROVE Spec => []Consistent
<1>1. Init => Consistent
  BY ConsistentInit
<1>2. Consistent /\ [Next]_ring => Consistent'
  BY ConsistentStep
<1>3. QED
  BY <1>1, <1>2, PTL DEF Spec

\* Every operation of RingBuffer keeps front, rear and the number of bytes within
\* the buffer (RingBuffer.cpp:61-165).
THEOREM TypeCorrect == ASSUME RingConstants PROVE Spec => []TypeOK
<1>1. Consistent => TypeOK
  BY DEF Consistent
<1>2. QED
  BY <1>1, ConsistentInvariant, PTL

\* The free areas follow from the indices.
LEMMA RoomFollows == ASSUME RingConstants, Consistent PROVE RoomIsFree
<1> DEFINE size1 == DirectEnqueSize
           size2 == GetEmptySize - size1
<1> USE DEF RingConstants, Consistent, TypeOK, RearBehindFront, Behind, Wrap, Cells,
        DirectEnqueSize, GetEmptySize
<1>1. /\ size1 >= 0 /\ size2 >= 0 /\ rear + size1 <= bufSize
      /\ size2 > 0 => size2 <= rear
  OBVIOUS
<1>2. ASSUME NEW i \in 0 .. fillSize - 1
      PROVE  Behind(i) \notin (rear .. rear + size1 - 1) \cup (0 .. size2 - 1)
  <2>1. /\ Behind(i) < rear \/ Behind(i) >= rear + size1
        /\ Behind(i) >= size2
        /\ Behind(i) \in Int
    OBVIOUS
  <2>2. QED
    BY <2>1
<1>3. QED
  BY <1>1, <1>2 DEF RoomIsFree

\* The two areas recvPost hands to WSARecv (CNetServer.cpp:811, RingBuffer.cpp:38)
\* lie inside the buffer and hold no byte that was received and not read yet.
THEOREM RoomCorrect == ASSUME RingConstants PROVE Spec => []RoomIsFree
<1>1. Consistent => RoomIsFree
  BY RoomFollows
<1>2. QED
  BY <1>1, ConsistentInvariant, PTL
-----------------------------------------------------------------------------
\* A function on 1 .. n is a sequence of length n.
LEMMA FunctionIsSeq ==
    ASSUME NEW n \in Nat, NEW s \in [1 .. n -> Byte]
    PROVE  s \in Seq(Byte) /\ Len(s) = n
<1>1. s \in Seq(Byte)
  BY SeqDef
<1>2. Len(s) \in Nat /\ 1 .. Len(s) = 1 .. n
  BY <1>1, LenProperties
<1>3. ~(Len(s) < n)
  <2>1. Len(s) < n => n \in 1 .. n /\ n \notin 1 .. Len(s)
    BY <1>2
  <2>2. QED
    BY <1>2, <2>1
<1>4. ~(n < Len(s))
  <2>1. n < Len(s) => Len(s) \in 1 .. Len(s) /\ Len(s) \notin 1 .. n
    BY <1>2
  <2>2. QED
    BY <1>2, <2>1
<1>5. QED
  BY <1>1, <1>2, <1>3, <1>4

\* What Contents is, before and after a step.
LEMMA ContentsIsSeq ==
    ASSUME RingConstants
    PROVE  /\ Consistent => /\ Contents \in Seq(Byte) /\ Len(Contents) = fillSize
                            /\ \A i \in 1 .. fillSize : Contents[i] = buf[Behind(i - 1)]
           /\ Consistent' => /\ Contents' \in Seq(Byte) /\ Len(Contents') = fillSize'
                             /\ \A i \in 1 .. fillSize' :
                                    Contents'[i] = buf'[Wrap(front' + (i - 1))]
<1> USE DEF RingConstants, Consistent, TypeOK
<1>1. ASSUME NEW b \in [Cells -> Byte], NEW f \in Cells, NEW n \in 0 .. bufSize - 1
      PROVE  [i \in 1 .. n |-> b[Wrap(f + (i - 1))]] \in [1 .. n -> Byte]
  <2>1. \A i \in 1 .. n : b[Wrap(f + (i - 1))] \in Byte
    BY DEF Wrap, Cells
  <2>2. QED
    BY <2>1
<1>2. ASSUME Consistent
      PROVE  Contents \in [1 .. fillSize -> Byte]
  BY <1>1, <1>2 DEF Contents, Behind
<1>3. ASSUME Consistent'
      PROVE  Contents' \in [1 .. fillSize' -> Byte]
  BY <1>1, <1>3 DEF Contents, Behind
<1>4. ASSUME Consistent
      PROVE  /\ Contents \in Seq(Byte) /\ Len(Contents) = fillSize
             /\ \A i \in 1 .. fillSize : Contents[i] = buf[Behind(i - 1)]
  <2>1. fillSize \in Nat
    BY <1>4
  <2>2. Contents \in Seq(Byte) /\ Len(Contents) = fillSize
    BY ONLY <1>2, <1>4, <2>1, FunctionIsSeq
  <2>3. QED
    BY <2>2 DEF Contents
<1>5. ASSUME Consistent'
      PROVE  /\ Contents' \in Seq(Byte) /\ Len(Contents') = fillSize'
             /\ \A i \in 1 .. fillSize' : Contents'[i] = buf'[Wrap(front' + (i - 1))]
  <2>1. fillSize' \in Nat
    BY <1>5
  <2>2. Contents' \in Seq(Byte) /\ Len(Contents') = fillSize'
    BY ONLY <1>3, <1>5, <2>1, FunctionIsSeq
  <2>3. QED
    BY <2>2 DEF Contents, Behind
<1>6. QED
  BY <1>4, <1>5

\* Enqueue and a completed WSARecv append exactly their bytes, wherever they are
\* split (RingBuffer.cpp:61-92, 147-155).
THEOREM PutAppends ==
    ASSUME RingConstants, Consistent, NEW d \in Seq(Byte), Enqueue(d) \/ Receive(d)
    PROVE  Contents' = Contents \o d
<1>1. /\ Consistent' /\ front' = front /\ fillSize' = fillSize + Len(d)
      /\ \A i \in 0 .. fillSize - 1 : buf'[Behind(i)] = buf[Behind(i)]
      /\ \A i \in 1 .. Len(d) : buf'[Behind(fillSize + i - 1)] = d[i]
  BY PutStep
<1>2. /\ Contents \in Seq(Byte) /\ Len(Contents) = fillSize
      /\ \A i \in 1 .. fillSize : Contents[i] = buf[Behind(i - 1)]
  BY ContentsIsSeq
<1>3. /\ Contents' \in Seq(Byte) /\ Len(Contents') = fillSize'
      /\ \A i \in 1 .. fillSize' : Contents'[i] = buf'[Behind(i - 1)]
  BY <1>1, ContentsIsSeq DEF Behind
<1>4. /\ Contents \o d \in Seq(Byte) /\ Len(Contents \o d) = fillSize + Len(d)
      /\ \A i \in 1 .. fillSize + Len(d) :
             (Contents \o d)[i] = IF i <= fillSize THEN Contents[i] ELSE d[i - fillSize]
  BY <1>2, ConcatProperties
<1>5. ASSUME NEW i \in 1 .. fillSize + Len(d)
      PROVE  Contents'[i] = (Contents \o d)[i]
  <2>1. Len(d) \in Nat /\ fillSize \in Nat
    BY LenProperties DEF Consistent, TypeOK
  <2>2. CASE i <= fillSize
    <3>1. i \in 1 .. fillSize /\ i - 1 \in 0 .. fillSize - 1
      BY <2>1, <2>2
    <3>2. QED
      BY <1>1, <1>2, <1>3, <1>4, <2>2, <3>1
  <2>3. CASE i > fillSize
    <3>1. i - fillSize \in 1 .. Len(d) /\ fillSize + (i - fillSize) - 1 = i - 1
      BY <2>1, <2>3
    <3>2. buf'[Behind(i - 1)] = d[i - fillSize]
      BY <1>1, <3>1
    <3>3. QED
      BY <1>1, <1>3, <1>4, <2>1, <2>3, <3>2
  <2>4. i <= fillSize \/ i > fillSize
    BY <2>1
  <2>5. QED
    BY <2>2, <2>3, <2>4
<1>6. QED
  BY <1>1, <1>3, <1>4, <1>5, SeqEqual

\* Dequeue and a completed WSASend remove exactly the first n bytes
\* (RingBuffer.cpp:94-123, 157-165).
THEOREM TakeRemoves ==
    ASSUME RingConstants, Consistent, NEW n \in 1 .. bufSize, Dequeue(n) \/ Transmit(n)
    PROVE  /\ n \in 1 .. Len(Contents)
           /\ Contents' = SubSeq(Contents, n + 1, Len(Contents))
<1> USE DEF RingConstants
<1>1. /\ Consistent' /\ n <= fillSize /\ fillSize' = fillSize - n
      /\ front' = Behind(n) /\ buf' = buf
  BY TakeStep
<1>2. /\ Contents \in Seq(Byte) /\ Len(Contents) = fillSize
      /\ \A i \in 1 .. fillSize : Contents[i] = buf[Behind(i - 1)]
  BY ContentsIsSeq
<1>3. /\ Contents' \in Seq(Byte) /\ Len(Contents') = fillSize'
      /\ \A i \in 1 .. fillSize' : Contents'[i] = buf[Wrap(Behind(n) + (i - 1))]
  BY <1>1, ContentsIsSeq
<1>4. fillSize \in Nat
  BY DEF Consistent, TypeOK
<1>5. \A i \in n + 1 .. fillSize : Contents[i] \in Byte
  BY <1>2, <1>4, ElementOfSeq
<1>6. /\ SubSeq(Contents, n + 1, fillSize) \in Seq(Byte)
      /\ Len(SubSeq(Contents, n + 1, fillSize)) = fillSize - n
      /\ \A i \in 1 .. fillSize - n :
             SubSeq(Contents, n + 1, fillSize)[i] = Contents[n + i]
  <2>1. n + 1 \in Int /\ fillSize \in Int /\ fillSize - (n + 1) + 1 = fillSize - n
    BY <1>4
  <2>2. /\ SubSeq(Contents, n + 1, fillSize) \in Seq(Byte)
        /\ Len(SubSeq(Contents, n + 1, fillSize))
             = IF n + 1 <= fillSize THEN fillSize - (n + 1) + 1 ELSE 0
        /\ \A i \in 1 .. fillSize - (n + 1) + 1 :
               SubSeq(Contents, n + 1, fillSize)[i] = Contents[(n + 1) + i - 1]
    BY <1>5, <2>1, SubSeqProperties
  <2>3. \A i \in 1 .. fillSize - n : (n + 1) + i - 1 = n + i
    BY <1>4
  <2>4. QED
    BY <1>1, <1>4, <2>1, <2>2, <2>3
<1>7. ASSUME NEW i \in 1 .. fillSize - n
      PROVE  Contents'[i] = SubSeq(Contents, n + 1, fillSize)[i]
  <2>1. Wrap(Behind(n) + (i - 1)) = Behind((n + i) - 1)
    BY <1>1, <1>4, <1>7 DEF Consistent, TypeOK, Behind, Wrap, Cells
  <2>2. n + i \in 1 .. fillSize /\ i \in 1 .. fillSize'
    BY <1>1, <1>4
  <2>3. QED
    BY <1>2, <1>3, <1>6, <2>1, <2>2
<1>8. Contents' = SubSeq(Contents, n + 1, fillSize)
  BY <1>1, <1>3, <1>6, <1>7, SeqEqual
<1>9. QED
  BY <1>1, <1>2, <1>4, <1>8

\* Peek, and what WSASend reads from its two areas, are the first n bytes, and the
\* areas end where the bytes end (RingBuffer.cpp:50-59, 125-145).
THEOREM ReadsFront ==
    ASSUME RingConstants, Consistent, NEW n \in 1 .. fillSize
    PROVE  /\ Peek(n) = SubSeq(Contents, 1, n)
           /\ Outgoing(n) = SubSeq(Contents, 1, n)
<1> USE DEF RingConstants
<1>1. /\ Contents \in Seq(Byte) /\ Len(Contents) = fillSize
      /\ \A i \in 1 .. fillSize : Contents[i] = buf[Behind(i - 1)]
  BY ContentsIsSeq
<1>2. fillSize \in Nat /\ front \in Nat /\ front < bufSize /\ fillSize < bufSize
  BY DEF Consistent, TypeOK, Cells
<1>3. SubSeq(Contents, 1, n) = [i \in 1 .. n |-> Contents[i]]
  BY <1>1, <1>2
<1>4. ASSUME NEW size, size = bufSize - front \/ size = DirectDequeSize,
             NEW i \in 1 .. n
      PROVE  (IF i <= size THEN buf[front + i - 1] ELSE buf[i - size - 1]) = Contents[i]
  <2>1. Contents[i] = buf[Behind(i - 1)]
    BY <1>1, <1>2
  <2>2. (IF i <= size THEN front + i - 1 ELSE i - size - 1) = Behind(i - 1)
    BY <1>2, <1>4 DEF DirectDequeSize, Consistent, TypeOK, RearBehindFront, Behind, Wrap,
                      Cells
  <2>3. QED
    BY <2>1, <2>2
<1>5. Reading(n, bufSize - front) = [i \in 1 .. n |-> Contents[i]]
  BY <1>4 DEF Reading
<1>6. Reading(n, DirectDequeSize) = [i \in 1 .. n |-> Contents[i]]
  BY <1>4 DEF Reading
<1>7. QED
  BY <1>3, <1>5, <1>6 DEF Peek, Outgoing

\* Nothing is in the queue at first.
LEMMA QueueInit == ASSUME RingConstants, Init PROVE Contents = <<>>
<1>1. fillSize = 0
  BY DEF Init, ClearedRing
<1>2. QED
  BY <1>1 DEF Contents

\* A call of the ring is a step of the queue.
LEMMA QueueStep ==
    ASSUME RingConstants, Consistent, [Next]_ring
    PROVE  [Queue!Next]_Contents
<1> USE DEF RingConstants
<1>0. /\ Contents \in Seq(Byte) /\ Len(Contents) = fillSize
      /\ fillSize \in Nat
  BY ContentsIsSeq DEF Consistent, TypeOK
<1>1. ASSUME NEW d \in Seq(Byte), Enqueue(d) \/ Receive(d) PROVE Queue!Put
  <2>1. Contents' = Contents \o d /\ Len(d) > 0
    BY <1>1, PutAppends, PutStep
  <2>2. fillSize' = fillSize + Len(d) /\ fillSize' <= bufSize - 1
    BY <1>1, PutStep DEF Consistent, TypeOK
  <2>3. /\ Contents' \in Seq(Byte) /\ Len(Contents') = fillSize + Len(d)
        /\ Len(d) \in Nat
    BY <1>0, <2>1, ConcatProperties, LenProperties
  <2>4. Len(Contents') \in Len(Contents) + 1 .. bufSize - 1
    BY <1>0, <2>1, <2>2, <2>3
  <2>5. SubSeq(Contents', 1, Len(Contents)) = Contents
    BY <1>0, <2>1, <2>3
  <2>6. QED
    BY <2>3, <2>4, <2>5 DEF Queue!Put
<1>2. ASSUME NEW n \in 1 .. bufSize, Dequeue(n) \/ Transmit(n) PROVE Queue!Take
  BY <1>2, TakeRemoves DEF Queue!Take
<1>3. CASE ClearBuffer
  <2>1. fillSize' = 0
    BY <1>3 DEF ClearBuffer
  <2>2. Contents' = <<>>
    BY <2>1 DEF Contents
  <2>3. QED
    BY <2>2 DEF Queue!Next, Queue!Clear
<1>4. CASE UNCHANGED ring
  BY <1>4 DEF ring, Contents, Behind
<1>5. QED
  BY <1>1, <1>2, <1>3, <1>4 DEF Next, Queue!Next

\* RingBuffer is a queue of at most bufSize - 1 bytes (RingBuffer.h:38).
THEOREM QueueCorrect == ASSUME RingConstants PROVE Spec => ImplementsQueue
<1>1. Init => Queue!Init
  BY QueueInit DEF Queue!Init
<1>2. Consistent /\ [Next]_ring => [Queue!Next]_Contents
  BY QueueStep
<1>3. QED
  BY <1>1, <1>2, ConsistentInvariant, PTL DEF Spec, ImplementsQueue, Queue!Spec
=============================================================================
