--------------------------- MODULE FramingProof ----------------------------
(***************************************************************************)
(* A connection, proved for every size of the rings and of a byte, every   *)
(* key, every set of messages and every cut of the stream: OnRecv reads    *)
(* the messages in the order they were made and misses none, CNetServer    *)
(* ends a session only for a frame that is none of ours, and both rings    *)
(* stay the queues of bytes that RingBufferProof shows them to be.         *)
(*                                                                         *)
(* The argument.  The bytes in recv_buffer, with TCP and in send_buffer    *)
(* are one sequence (Unread), and it is at all times the frames of the     *)
(* messages made and not yet received, whole and in order, with at most    *)
(* one foreign frame behind them (Stream).  A completion moves bytes       *)
(* within it, MakePacket puts a frame behind it, and the receive loop      *)
(* takes the first one: its header says its length, so the bytes the loop  *)
(* dequeues are that frame and the rest is again a Stream.  That the       *)
(* packet made of the frame gives the message back is Decode undoing       *)
(* Encode (DecodedCoded: each coded byte is xored with the coded byte      *)
(* before it, which the receiver has) and operator>> undoing operator<<    *)
(* (WriteFills, ReadTakes); neither depends on what the packet of the pool *)
(* held before.  The recursive functions of CPacket and FlattenSeq are     *)
(* described by what one step does (Iterates, SameSteps), and a statement  *)
(* about all of their steps follows from the least number it fails at      *)
(* (UpTo).                                                                 *)
(***************************************************************************)
EXTENDS Framing, SequenceTheorems, FiniteSetTheorems, TLAPS

SP == INSTANCE RingBufferProof WITH bufSize <- sendSize, Byte <- Nat,
        buf <- sbuf, front <- sfront, rear <- srear, fillSize <- sfill
RP == INSTANCE RingBufferProof WITH bufSize <- recvSize, Byte <- Nat,
        buf <- rbuf, front <- rfront, rear <- rrear, fillSize <- rfill
-----------------------------------------------------------------------------
(* Counting up *)

\* The subsets of a finite set include a minimal one.
LEMMA MinimalSet ==
    ASSUME NEW U, IsFiniteSet(U), NEW F \in SUBSET (SUBSET U), F # {}
    PROVE  \E A \in F : \A B \in F : B \subseteq A => B = A
<1>1. IsWellFoundedOn(StrictSubsetOrdering(U), SUBSET U)
  BY FS_StrictSubsetOrderingWellFounded, FS_FiniteSubsetsOfFinite
<1>2. PICK A \in F : \A B \in F : ~(<<B, A>> \in StrictSubsetOrdering(U))
  BY <1>1, WFMin
<1>3. QED
  BY <1>2 DEF StrictSubsetOrdering

\* What holds of 0 and of the number after each one it holds of, holds up to n.
LEMMA UpTo ==
    ASSUME NEW n \in Nat, NEW T, 0 \in T, \A k \in 0 .. n - 1 : k \in T => k + 1 \in T
    PROVE  \A k \in 0 .. n : k \in T
<1> DEFINE F == {0 .. k : k \in {j \in 0 .. n : j \notin T}}
           U == 0 .. n
<1>1. SUFFICES ASSUME F # {} PROVE FALSE
  OBVIOUS
<1>2. IsFiniteSet(U)
  BY FS_Interval
<1>3. F \in SUBSET (SUBSET U)
  <2>1. ASSUME NEW k \in 0 .. n PROVE 0 .. k \subseteq 0 .. n
    OBVIOUS
  <2>2. QED
    BY <2>1
<1>4. \E A \in F : \A B \in F : B \subseteq A => B = A
  <2> HIDE DEF F, U
  <2>1. QED
    BY <1>1, <1>2, <1>3, MinimalSet
<1>5. PICK k \in 0 .. n : k \notin T /\ \A B \in F : B \subseteq 0 .. k => B = 0 .. k
  BY <1>4
<1>6. k - 1 \in 0 .. n - 1 /\ (k - 1) + 1 = k
  BY <1>5
<1>7. k - 1 \notin T
  BY <1>5, <1>6
<1>8. 0 .. k - 1 \in F /\ 0 .. k - 1 \subseteq 0 .. k
  BY <1>6, <1>7
<1>9. k \in 0 .. k /\ k \notin 0 .. k - 1
  OBVIOUS
<1>10. QED
  BY <1>5, <1>8, <1>9

\* What a recursive function from b on, by the steps g, computes exists.
Iterated(n, b, g, f) == f = [i \in 0 .. n |-> IF i = 0 THEN b ELSE g[i][f[i - 1]]]

\* The function is there, whatever the steps do to the values.
LEMMA Iterates ==
    ASSUME NEW n \in Nat, NEW V, NEW b \in V, NEW g \in [1 .. n -> [V -> V]]
    PROVE  \E f \in [0 .. n -> V] : Iterated(n, b, g, f)
<1> DEFINE T == {k \in 0 .. n : \E f \in [0 .. k -> V] : Iterated(k, b, g, f)}
<1>1. 0 \in T
  <2>1. [i \in 0 .. 0 |-> b] \in [0 .. 0 -> V] /\ Iterated(0, b, g, [i \in 0 .. 0 |-> b])
    BY DEF Iterated
  <2>2. QED
    BY <2>1
<1>2. ASSUME NEW k \in 0 .. n - 1, k \in T PROVE k + 1 \in T
  <2>1. PICK f \in [0 .. k -> V] : Iterated(k, b, g, f)
    BY <1>2
  <2> DEFINE h == [i \in 0 .. k + 1 |-> IF i = k + 1 THEN g[k + 1][f[k]] ELSE f[i]]
  <2>2. k \in 0 .. k /\ k + 1 \in 1 .. n /\ k + 1 \in 0 .. n
    OBVIOUS
  <2>3. g[k + 1][f[k]] \in V
    BY <2>2
  <2>4. h \in [0 .. k + 1 -> V]
    BY <2>3
  <2>5. ASSUME NEW i \in 0 .. k + 1 PROVE h[i] = IF i = 0 THEN b ELSE g[i][h[i - 1]]
    <3>1. CASE i = k + 1
      <4>1. i - 1 = k /\ i # 0 /\ k \in 0 .. k + 1 /\ k # k + 1
        BY <3>1
      <4>2. QED
        BY <3>1, <4>1
    <3>2. CASE i = 0
      BY <2>1, <3>2 DEF Iterated
    <3>3. CASE i # 0 /\ i # k + 1
      <4>1. i \in 0 .. k /\ i - 1 \in 0 .. k /\ i - 1 \in 0 .. k + 1 /\ i - 1 # k + 1
        BY <3>3
      <4>2. f[i] = g[i][f[i - 1]]
        BY <2>1, <3>3, <4>1 DEF Iterated
      <4>3. QED
        BY <3>3, <4>1, <4>2
    <3>4. QED
      BY <3>1, <3>2, <3>3
  <2>6. h = [i \in 0 .. k + 1 |-> h[i]]
    OBVIOUS
  <2> HIDE DEF h
  <2>7. Iterated(k + 1, b, g, h)
    BY <2>5, <2>6 DEF Iterated
  <2>8. QED
    BY <2>2, <2>4, <2>7
<1>3. \A k \in 0 .. n : k \in T
  <2> HIDE DEF T
  <2>1. QED
    BY <1>1, <1>2, UpTo
<1>4. n \in T
  BY <1>3
<1>5. QED
  BY <1>4

\* Two functions that begin alike and go on alike are the same.
Alike(n, f, h) ==
  /\ f = [i \in 0 .. n |-> f[i]] /\ h = [i \in 0 .. n |-> h[i]]
  /\ f[0] = h[0]
  /\ \A i \in 1 .. n : f[i - 1] = h[i - 1] => f[i] = h[i]

\* They are the same function.
LEMMA SameSteps ==
    ASSUME NEW n \in Nat, NEW f, NEW h, Alike(n, f, h)
    PROVE  f = h
<1> USE DEF Alike
<1> DEFINE T == {k \in 0 .. n : f[k] = h[k]}
<1>1. 0 \in T
  OBVIOUS
<1>2. ASSUME NEW k \in 0 .. n - 1, k \in T PROVE k + 1 \in T
  <2>1. k + 1 \in 1 .. n /\ (k + 1) - 1 = k /\ k + 1 \in 0 .. n
    OBVIOUS
  <2>2. f[k + 1] = h[k + 1]
    BY <1>2, <2>1
  <2>3. QED
    BY <2>1, <2>2
<1>3. \A k \in 0 .. n : k \in T
  <2> HIDE DEF T
  <2>1. QED
    BY <1>1, <1>2, UpTo
<1>4. \A k \in 0 .. n : f[k] = h[k]
  BY <1>3
<1>5. QED
  BY <1>4

-----------------------------------------------------------------------------
(* Sequences cut into pieces *)

\* The sequence u is the pieces fs, one after the other, the k-th up to pos[k].
IsCut(u, fs, pos) ==
  /\ pos \in [0 .. Len(fs) -> Nat]
  /\ pos[0] = 0 /\ pos[Len(fs)] = Len(u)
  /\ \A k \in 1 .. Len(fs) :
       /\ pos[k] = pos[k - 1] + Len(fs[k])
       /\ \A j \in 1 .. Len(fs[k]) : u[pos[k - 1] + j] = fs[k][j]
Cut(u, fs) == \E pos : IsCut(u, fs, pos)

\* No piece ends behind a later one.
LEMMA CutAscends ==
    ASSUME NEW V, NEW fs \in Seq(Seq(V)), NEW u, NEW pos, IsCut(u, fs, pos)
    PROVE  \A j, k \in 0 .. Len(fs) : j <= k => pos[j] <= pos[k]
<1> DEFINE n == Len(fs)
<1>1. n \in Nat /\ pos \in [0 .. n -> Nat]
  BY LenProperties DEF IsCut
<1>2. SUFFICES ASSUME NEW j \in 0 .. n, NEW k \in 0 .. n, j <= k PROVE pos[j] <= pos[k]
  OBVIOUS
<1> DEFINE T == {i \in 0 .. n : j <= i => pos[j] <= pos[i]}
<1>3. 0 \in T
  BY <1>1
<1>4. ASSUME NEW i \in 0 .. n - 1, i \in T PROVE i + 1 \in T
  <2>1. i + 1 \in 1 .. n /\ i + 1 \in 0 .. n /\ i \in 0 .. n /\ (i + 1) - 1 = i
    BY <1>1
  <2>2. pos[i + 1] = pos[i] + Len(fs[i + 1])
    BY <2>1 DEF IsCut
  <2>3. Len(fs[i + 1]) \in Nat
    BY <2>1, ElementOfSeq, LenProperties
  <2>4. pos[i] \in Nat /\ pos[i + 1] \in Nat /\ pos[j] \in Nat
    BY <1>1, <2>1
  <2>5. pos[i] <= pos[i + 1]
    BY <2>2, <2>3, <2>4
  <2>6. CASE j = i + 1
    BY <2>1, <2>4, <2>6
  <2>7. CASE j # i + 1
    <3>1. j <= i + 1 => j <= i
      BY <1>1, <2>7
    <3>2. QED
      BY <1>4, <2>1, <2>4, <2>5, <3>1
  <2>8. QED
    BY <2>6, <2>7
<1>5. \A i \in 0 .. n : i \in T
  <2> HIDE DEF T
  <2>1. QED
    BY <1>1, <1>3, <1>4, UpTo
<1>6. QED
  BY <1>2, <1>5

\* No pieces are nothing.
LEMMA CutNothing ==
    ASSUME NEW u
    PROVE  /\ Cut(<<>>, <<>>)
           /\ Cut(u, <<>>) => Len(u) = 0
<1>1. Len(<<>>) = 0
  OBVIOUS
<1>2. IsCut(<<>>, <<>>, [k \in 0 .. 0 |-> 0])
  BY <1>1 DEF IsCut
<1>3. Cut(<<>>, <<>>)
  BY <1>2 DEF Cut
<1>4. ASSUME Cut(u, <<>>) PROVE Len(u) = 0
  <2>1. PICK pos : IsCut(u, <<>>, pos)
    BY <1>4 DEF Cut
  <2>2. pos[0] = 0 /\ pos[Len(<<>>)] = Len(u)
    BY <2>1 DEF IsCut
  <2>3. QED
    BY <1>1, <2>2
<1>5. QED
  BY <1>3, <1>4

\* A piece put behind the others.
LEMMA CutAppend ==
    ASSUME NEW V, NEW u \in Seq(V), NEW fs \in Seq(Seq(V)), NEW f \in Seq(V), Cut(u, fs)
    PROVE  Cut(u \o f, Append(fs, f))
<1>1. PICK pos : IsCut(u, fs, pos)
  BY DEF Cut
<1>2. PICK n \in Nat : n = Len(fs)
  BY LenProperties
<1>3. /\ pos \in [0 .. n -> Nat] /\ pos[0] = 0 /\ pos[n] = Len(u)
      /\ \A k \in 1 .. n : /\ pos[k] = pos[k - 1] + Len(fs[k])
                           /\ \A j \in 1 .. Len(fs[k]) : u[pos[k - 1] + j] = fs[k][j]
  BY <1>1, <1>2 DEF IsCut
<1>4. Len(u) \in Nat /\ Len(f) \in Nat
  BY LenProperties
<1>5. /\ Len(u \o f) = Len(u) + Len(f)
      /\ \A i \in 1 .. Len(u) + Len(f) :
           (u \o f)[i] = IF i <= Len(u) THEN u[i] ELSE f[i - Len(u)]
  BY ConcatProperties
<1> DEFINE gs == Append(fs, f)
           q  == [k \in 0 .. n + 1 |-> IF k = n + 1 THEN Len(u) + Len(f) ELSE pos[k]]
<1>6. Len(gs) = n + 1 /\ gs[n + 1] = f /\ \A k \in 1 .. n : gs[k] = fs[k]
  BY <1>2, AppendProperties
<1>7. q \in [0 .. n + 1 -> Nat] /\ q[0] = 0 /\ q[n + 1] = Len(u \o f) /\ q[n] = Len(u)
  BY <1>3, <1>4, <1>5
<1>8. \A k \in 0 .. n : q[k] = pos[k] /\ pos[k] <= Len(u)
  <2>1. \A k \in 0 .. n : pos[k] <= pos[n]
    BY <1>1, <1>2, CutAscends
  <2>2. QED
    BY <1>3, <2>1
<1> HIDE DEF gs, q
<1>9. ASSUME NEW k \in 1 .. n + 1
      PROVE  /\ q[k] = q[k - 1] + Len(gs[k])
             /\ \A j \in 1 .. Len(gs[k]) : (u \o f)[q[k - 1] + j] = gs[k][j]
  <2>1. CASE k = n + 1
    <3>1. k - 1 = n
      BY <2>1
    <3>2. ASSUME NEW j \in 1 .. Len(f) PROVE (u \o f)[Len(u) + j] = f[j]
      <4>1. /\ Len(u) + j \in 1 .. Len(u) + Len(f) /\ ~(Len(u) + j <= Len(u))
            /\ (Len(u) + j) - Len(u) = j
        BY <1>4
      <4>2. QED
        BY <1>5, <4>1
    <3>3. QED
      BY <1>5, <1>6, <1>7, <2>1, <3>1, <3>2
  <2>2. CASE k # n + 1
    <3>1. k \in 1 .. n /\ k - 1 \in 0 .. n /\ k \in 0 .. n
      BY <2>2
    <3>2. Len(fs[k]) \in Nat /\ pos[k - 1] \in Nat
      BY <1>2, <1>3, <3>1, ElementOfSeq, LenProperties
    <3>3. ASSUME NEW j \in 1 .. Len(fs[k]) PROVE (u \o f)[pos[k - 1] + j] = fs[k][j]
      <4>1. pos[k] = pos[k - 1] + Len(fs[k]) /\ pos[k] <= Len(u)
        BY <1>3, <1>8, <3>1
      <4>2. pos[k - 1] + j \in 1 .. Len(u) + Len(f) /\ pos[k - 1] + j <= Len(u)
        BY <1>4, <3>2, <4>1
      <4>3. (u \o f)[pos[k - 1] + j] = u[pos[k - 1] + j]
        BY <1>5, <4>2
      <4>4. QED
        BY <1>3, <3>1, <4>3
    <3>4. QED
      BY <1>3, <1>6, <1>8, <3>1, <3>3
  <2>3. QED
    BY <2>1, <2>2
<1>10. IsCut(u \o f, gs, q)
  BY <1>6, <1>7, <1>9 DEF IsCut
<1>11. QED
  BY <1>10 DEF Cut, gs

\* What is behind the first l places.
LEMMA RestOfSeq ==
    ASSUME NEW V, NEW u \in Seq(V), NEW l \in 0 .. Len(u)
    PROVE  /\ SubSeq(u, l + 1, Len(u)) \in Seq(V)
           /\ Len(SubSeq(u, l + 1, Len(u))) = Len(u) - l
           /\ \A i \in 1 .. Len(u) - l : SubSeq(u, l + 1, Len(u))[i] = u[l + i]
<1>1. Len(u) \in Nat /\ l + 1 \in Int /\ Len(u) \in Int
  BY LenProperties
<1>2. \A i \in l + 1 .. Len(u) : u[i] \in V
  BY <1>1, ElementOfSeq
<1>3. /\ SubSeq(u, l + 1, Len(u)) \in Seq(V)
      /\ Len(SubSeq(u, l + 1, Len(u))) = IF l + 1 <= Len(u) THEN Len(u) - (l + 1) + 1 ELSE 0
      /\ \A i \in 1 .. Len(u) - (l + 1) + 1 : SubSeq(u, l + 1, Len(u))[i] = u[(l + 1) + i - 1]
  BY <1>1, <1>2, SubSeqProperties
<1> DEFINE v == SubSeq(u, l + 1, Len(u))
<1> HIDE DEF v
<1>4. Len(v) = IF l + 1 <= Len(u) THEN Len(u) - (l + 1) + 1 ELSE 0
  BY <1>3 DEF v
<1>5. Len(v) = Len(u) - l
  BY <1>1, <1>4
<1>6. \A i \in 1 .. Len(u) - l : i \in 1 .. Len(u) - (l + 1) + 1 /\ (l + 1) + i - 1 = l + i
  BY <1>1
<1>7. QED
  BY <1>3, <1>5, <1>6 DEF v

\* The first piece taken away.
LEMMA CutFirst ==
    ASSUME NEW V, NEW u \in Seq(V), NEW fs \in Seq(Seq(V)), Cut(u, fs), Len(fs) # 0
    PROVE  /\ Len(fs[1]) \in 0 .. Len(u) /\ \A j \in 1 .. Len(fs[1]) : u[j] = fs[1][j]
           /\ Cut(SubSeq(u, Len(fs[1]) + 1, Len(u)), Tail(fs))
<1>0. PICK l : l = Len(fs[1])
  OBVIOUS
<1>1. PICK pos : IsCut(u, fs, pos)
  BY DEF Cut
<1>2. PICK n \in Nat \ {0} : n = Len(fs)
  BY LenProperties
<1>3. /\ pos \in [0 .. n -> Nat] /\ pos[0] = 0 /\ pos[n] = Len(u)
      /\ \A k \in 1 .. n : /\ pos[k] = pos[k - 1] + Len(fs[k])
                           /\ \A j \in 1 .. Len(fs[k]) : u[pos[k - 1] + j] = fs[k][j]
  BY <1>1, <1>2 DEF IsCut
<1>4. Len(u) \in Nat /\ l \in Nat
  BY <1>0, <1>2, ElementOfSeq, LenProperties
<1>5. 1 \in 1 .. n /\ 1 \in 0 .. n /\ 0 \in 0 .. n /\ 1 - 1 = 0
  OBVIOUS
<1>6. pos[1] = l /\ \A j \in 1 .. l : u[j] = fs[1][j]
  <2>1. pos[1] = pos[0] + l /\ \A j \in 1 .. l : u[pos[0] + j] = fs[1][j]
    BY <1>0, <1>3, <1>5
  <2>2. \A j \in 1 .. l : 0 + j = j
    BY <1>4
  <2>3. QED
    BY <1>3, <1>4, <2>1, <2>2
<1>7. \A k \in 1 .. n : l <= pos[k] /\ pos[k] <= Len(u)
  <2>1. \A j, k \in 0 .. n : j <= k => pos[j] <= pos[k]
    BY <1>1, <1>2, CutAscends
  <2>2. ASSUME NEW k \in 1 .. n PROVE pos[1] <= pos[k] /\ pos[k] <= pos[n]
    <3>1. k \in 0 .. n /\ 1 <= k /\ k <= n /\ n \in 0 .. n
      OBVIOUS
    <3>2. QED
      BY <1>5, <2>1, <3>1
  <2>3. QED
    BY <1>3, <1>6, <2>2
<1> DEFINE v == SubSeq(u, l + 1, Len(u))
           gs == Tail(fs)
           q  == [k \in 0 .. n - 1 |-> pos[k + 1] - l]
<1>8. /\ l <= Len(u) /\ Len(v) = Len(u) - l
      /\ \A i \in 1 .. Len(u) - l : v[i] = u[l + i]
  <2>1. l <= Len(u)
    BY <1>5, <1>7, <1>6
  <2>2. l \in 0 .. Len(u)
    BY <1>4, <2>1
  <2>3. QED
    BY <2>1, <2>2, RestOfSeq
<1>9. Len(gs) = n - 1 /\ \A k \in 1 .. n - 1 : gs[k] = fs[k + 1]
  <2>1. fs # <<>>
    BY <1>2
  <2>2. QED
    BY <1>2, <2>1, HeadTailProperties
<1>10. /\ q \in [0 .. n - 1 -> Nat] /\ q[0] = 0 /\ q[n - 1] = Len(v)
       /\ \A k \in 0 .. n - 1 : q[k] = pos[k + 1] - l
  <2>1. ASSUME NEW k \in 0 .. n - 1 PROVE pos[k + 1] - l \in Nat
    <3>1. k + 1 \in 1 .. n /\ k + 1 \in 0 .. n
      OBVIOUS
    <3>2. pos[k + 1] \in Nat /\ l <= pos[k + 1]
      BY <1>3, <1>7, <3>1
    <3>3. QED
      BY <1>4, <3>2
  <2>2. q[0] = pos[1] - l
    OBVIOUS
  <2>3. q[n - 1] = pos[n] - l
    <3>1. n - 1 \in 0 .. n - 1 /\ (n - 1) + 1 = n
      OBVIOUS
    <3>2. QED
      BY <3>1
  <2>4. q \in [0 .. n - 1 -> Nat]
    BY <2>1
  <2>5. pos[1] - l = 0
    BY <1>4, <1>6
  <2> HIDE DEF v
  <2>6. QED
    BY <1>3, <1>8, <2>2, <2>3, <2>4, <2>5
<1> HIDE DEF v, gs, q
<1>11. ASSUME NEW k \in 1 .. n - 1
       PROVE  /\ q[k] = q[k - 1] + Len(gs[k])
              /\ \A j \in 1 .. Len(gs[k]) : v[q[k - 1] + j] = gs[k][j]
  <2>1. /\ k + 1 \in 1 .. n /\ (k + 1) - 1 = k /\ k \in 1 .. n
        /\ k - 1 \in 0 .. n - 1 /\ k \in 0 .. n - 1 /\ (k - 1) + 1 = k
    OBVIOUS
  <2>2. gs[k] = fs[k + 1] /\ q[k] = pos[k + 1] - l /\ q[k - 1] = pos[k] - l
    BY <1>9, <1>10, <2>1
  <2>3. /\ pos[k + 1] = pos[k] + Len(fs[k + 1])
        /\ \A j \in 1 .. Len(fs[k + 1]) : u[pos[k] + j] = fs[k + 1][j]
    BY <1>3, <2>1
  <2>4. /\ pos[k] \in Nat /\ pos[k + 1] \in Nat /\ Len(fs[k + 1]) \in Nat
        /\ l <= pos[k] /\ pos[k + 1] <= Len(u)
    BY <1>2, <1>3, <1>7, <2>1, ElementOfSeq, LenProperties
  <2>5. q[k] = q[k - 1] + Len(gs[k])
    <3>1. (pos[k] + Len(fs[k + 1])) - l = (pos[k] - l) + Len(fs[k + 1])
      BY <1>4, <2>4
    <3>2. QED
      BY <2>2, <2>3, <3>1
  <2>6. ASSUME NEW j \in 1 .. Len(gs[k]) PROVE v[q[k - 1] + j] = gs[k][j]
    <3>1. /\ q[k - 1] + j \in 1 .. Len(u) - l /\ l + (q[k - 1] + j) = pos[k] + j
          /\ j \in 1 .. Len(fs[k + 1])
      <4>1. j \in 1 .. Len(fs[k + 1])
        BY <2>2
      <4>2. pos[k] + Len(fs[k + 1]) <= Len(u)
        BY <2>3, <2>4
      <4>3. /\ (pos[k] - l) + j \in 1 .. Len(u) - l
            /\ l + ((pos[k] - l) + j) = pos[k] + j
        <5>1. j \in Nat
          BY <2>4, <4>1
        <5>2. PICK a \in Nat, b \in Nat, c \in Nat :
                a = pos[k] /\ b = Len(fs[k + 1]) /\ c = Len(u)
          BY <1>4, <2>4
        <5>3. l <= a /\ a + b <= c /\ j \in 1 .. b
          BY <2>4, <4>1, <4>2, <5>2
        <5>4. (a - l) + j \in 1 .. c - l
          BY <1>4, <5>3
        <5>5. l + ((a - l) + j) = a + j
          BY <1>4, <5>1
        <5>6. QED
          BY <5>2, <5>4, <5>5
      <4>4. QED
        BY <2>2, <4>1, <4>3
    <3>2. QED
      BY <1>8, <2>2, <2>3, <3>1
  <2>7. QED
    BY <2>5, <2>6
<1>12. IsCut(v, gs, q)
  BY <1>9, <1>10, <1>11 DEF IsCut
<1>13. l \in 0 .. Len(u)
  BY <1>4, <1>8
<1>14. QED
  BY <1>0, <1>6, <1>12, <1>13 DEF Cut, v, gs

\* FlattenSeq puts the pieces together.
LEMMA FlattenIsCut ==
    ASSUME NEW V, NEW fs \in Seq(Seq(V))
    PROVE  FlattenSeq(fs) \in Seq(V) /\ Cut(FlattenSeq(fs), fs)
<1>1. PICK n \in Nat : n = Len(fs)
  BY LenProperties
<1>2. CASE n = 0
  <2>1. fs = <<>>
    BY <1>1, <1>2, EmptySeq
  <2>2. FlattenSeq(fs) = <<>>
    BY <1>1, <1>2, <2>1 DEF FlattenSeq
  <2>3. QED
    BY <2>1, <2>2, EmptySeq, CutNothing
<1>3. CASE n # 0
  <2>1. \A k \in 1 .. n : fs[k] \in Seq(V)
    BY <1>1, ElementOfSeq
  <2> DEFINE g == [i \in 1 .. n |-> [x \in Seq(V) |-> x \o fs[i]]]
  <2>2. g \in [1 .. n -> [Seq(V) -> Seq(V)]] /\ <<>> \in Seq(V)
    <3>1. ASSUME NEW i \in 1 .. n, NEW x \in Seq(V) PROVE x \o fs[i] \in Seq(V)
      BY <2>1, ConcatProperties
    <3>2. QED
      BY <3>1, EmptySeq
  <2>3. PICK f \in [0 .. n -> Seq(V)] : Iterated(n, <<>>, g, f)
    <3> HIDE DEF g
    <3>1. QED
      BY <2>2, Iterates
  <2>4. f[0] = <<>>
    BY <2>3 DEF Iterated
  <2>5. ASSUME NEW k \in 1 .. n PROVE f[k] = f[k - 1] \o fs[k]
    <3>1. k \in 0 .. n /\ k # 0 /\ k - 1 \in 0 .. n
      OBVIOUS
    <3>2. f[k] = g[k][f[k - 1]]
      BY <2>3, <3>1 DEF Iterated
    <3>3. QED
      BY <3>1, <3>2
  <2> HIDE DEF g
  <2> DEFINE Step(i, h) == IF i = 1 THEN fs[i] ELSE h[i - 1] \o fs[i]
             w  == [i \in 1 .. n |-> f[i]]
             at == CHOOSE h : h = [i \in 1 .. n |-> Step(i, h)]
  <2>6. \A i \in 1 .. n : f[i] = Step(i, w)
    <3>1. ASSUME NEW i \in 1 .. n PROVE f[i] = Step(i, w)
      <4>1. CASE i = 1
        <5>1. f[1] = <<>> \o fs[1]
          <6>1. 1 \in 1 .. n /\ 1 - 1 = 0
            BY <1>3
          <6>2. QED
            BY <2>4, <2>5, <6>1
        <5>2. QED
          BY <2>1, <4>1, <5>1, ConcatEmptySeq
      <4>2. CASE i # 1
        <5>1. i - 1 \in 1 .. n
          BY <4>2
        <5>2. QED
          BY <2>5, <4>2, <5>1
      <4>3. QED
        BY <4>1, <4>2
    <3>2. QED
      BY <3>1
  <2>7. w = [i \in 1 .. n |-> Step(i, w)]
    BY <2>6
  <2>8. at = [i \in 1 .. n |-> Step(i, at)]
    <3> HIDE DEF w
    <3>1. QED
      BY <2>7
  <2>9. FlattenSeq(fs) = at[n]
    BY <1>1, <1>3 DEF FlattenSeq
  <2> HIDE DEF at
  <2>10. \A i \in 1 .. n : at[i] = Step(i, at)
    BY <2>8
  <2> DEFINE T == {k \in 0 .. n : k = 0 \/ at[k] = f[k]}
  <2>11. 0 \in T
    OBVIOUS
  <2>12. ASSUME NEW k \in 0 .. n - 1, k \in T PROVE k + 1 \in T
    <3>1. k + 1 \in 1 .. n /\ k + 1 \in 0 .. n /\ (k + 1) - 1 = k
      OBVIOUS
    <3>2. at[k + 1] = Step(k + 1, at) /\ f[k + 1] = Step(k + 1, w)
      BY <2>6, <2>10, <3>1
    <3>3. CASE k = 0
      BY <3>1, <3>2, <3>3
    <3>4. CASE k # 0
      <4>1. at[k] = f[k] /\ k \in 1 .. n
        BY <2>12, <3>4
      <4>2. w[k] = f[k]
        BY <4>1
      <4>3. at[k + 1] = f[k + 1]
        BY <3>1, <3>2, <3>4, <4>1, <4>2
      <4>4. QED
        BY <3>1, <4>3
    <3>5. QED
      BY <3>3, <3>4
  <2>13. FlattenSeq(fs) = f[n]
    <3>1. n \in T
      <4> HIDE DEF T
      <4>1. \A k \in 0 .. n : k \in T
        BY <2>11, <2>12, UpTo
      <4>2. QED
        BY <4>1
    <3>2. QED
      BY <1>3, <2>9, <3>1
  <2> DEFINE C == {k \in 0 .. n : Cut(f[k], SubSeq(fs, 1, k))}
  <2>14. 0 \in C
    <3>1. SubSeq(fs, 1, 0) = <<>>
      BY SubSeqEmpty
    <3>2. Cut(<<>>, <<>>)
      BY CutNothing
    <3>3. Cut(f[0], SubSeq(fs, 1, 0))
      BY <2>4, <3>1, <3>2, Zenon
    <3>4. 0 \in 0 .. n
      OBVIOUS
    <3>5. QED
      BY <3>3, <3>4
  <2>15. ASSUME NEW k \in 0 .. n - 1, k \in C PROVE k + 1 \in C
    <3>1. k + 1 \in 1 .. n /\ k + 1 \in 0 .. n /\ (k + 1) - 1 = k /\ k \in 0 .. n
      OBVIOUS
    <3>2. SubSeq(fs, 1, k) \in Seq(Seq(V)) /\ SubSeq(fs, 1, k + 1) = Append(SubSeq(fs, 1, k), fs[k + 1])
      <4>1. \A i \in 1 .. k : fs[i] \in Seq(V)
        BY <2>1, <3>1
      <4>2. SubSeq(fs, 1, k) \in Seq(Seq(V))
        BY <4>1, SubSeqProperties
      <4>3. SubSeq(fs, 1, k + 1) = SubSeq(fs, 1, k) \o <<fs[k + 1]>>
        <5>1. 1 \in 1 .. n /\ k + 1 \in 1 .. n
          BY <3>1
        <5>2. SubSeq(fs, 1, k + 1) = SubSeq(fs, 1, (k + 1) - 1) \o <<fs[k + 1]>>
          BY <1>1, <5>1, SubSeqRecursiveSecond
        <5>3. QED
          BY <3>1, <5>2
      <4>4. fs[k + 1] \in Seq(V)
        BY <2>1, <3>1
      <4>5. QED
        BY <4>2, <4>3, <4>4, AppendIsConcat
    <3>3. f[k + 1] = f[k] \o fs[k + 1] /\ f[k] \in Seq(V) /\ fs[k + 1] \in Seq(V)
      BY <2>1, <2>5, <3>1
    <3>4. Cut(f[k], SubSeq(fs, 1, k))
      BY <2>15
    <3>5. Cut(f[k] \o fs[k + 1], Append(SubSeq(fs, 1, k), fs[k + 1]))
      BY <3>2, <3>3, <3>4, CutAppend
    <3>6. QED
      BY <3>1, <3>2, <3>3, <3>5
  <2>16. Cut(f[n], SubSeq(fs, 1, n))
    <3>1. n \in C
      <4> HIDE DEF C
      <4>1. \A k \in 0 .. n : k \in C
        BY <2>14, <2>15, UpTo
      <4>2. QED
        BY <4>1
    <3>2. QED
      BY <3>1
  <2>17. SubSeq(fs, 1, n) = fs
    BY <1>1, SubSeqFull
  <2>18. f[n] \in Seq(V)
    OBVIOUS
  <2>19. QED
    BY <2>13, <2>16, <2>17, <2>18
<1>4. QED
  BY <1>2, <1>3

\* A function on 1 .. n is a sequence of length n.
LEMMA LenOfFunction ==
    ASSUME NEW n \in Nat, NEW V, NEW s \in [1 .. n -> V]
    PROVE  s \in Seq(V) /\ Len(s) = n
<1>1. s \in Seq(V)
  BY SeqDef
<1>2. Len(s) \in Nat /\ 1 .. Len(s) = 1 .. n
  BY <1>1, LenProperties
<1>3. ~(Len(s) < n)
  <2>1. Len(s) < n => n \in 1 .. n /\ n \notin 1 .. Len(s)
    BY <1>2
  <2>2. QED
    BY <1>2, <2>1
<1>4. ~(n < Len(s))
  <2>1. n < Len(s) => Len(s) \in 1 .. Len(s) /\ Len(s) \notin 1 .. n
    BY <1>2
  <2>2. QED
    BY <1>2, <2>1
<1>5. QED
  BY <1>1, <1>2, <1>3, <1>4

-----------------------------------------------------------------------------
(* Packets *)

\* Every packet the pool or the network makes.
Packet == [code : Nat, len : Nat, rand_key : Nat, check_sum : Nat,
           buffer : [1 .. eBUFFER_DEFAULT -> Nat],
           data_size : Nat, write_pos : Nat, read_pos : Nat]

\* The packet p with the first k bytes of u written to it.
Filled(p, u, k) ==
  [p EXCEPT !.buffer = [i \in 1 .. eBUFFER_DEFAULT |-> IF i <= k THEN u[i] ELSE p.buffer[i]],
            !.write_pos = k, !.data_size = k]

\* The bytes and values of Nat are among them.
LEMMA BytesAreNat ==
    Modulus \in Nat \ {0} /\ Bytes \subseteq Nat /\ 0 \in Bytes
    /\ \A a \in Nat, b \in Nat : Plus(a, b) \in Bytes
<1>1. Modulus \in Nat
  BY PacketKeys DEF Modulus
<1>2. Modulus # 0
  BY <1>1, PacketKeys DEF Modulus
<1>3. ASSUME NEW a \in Nat, NEW b \in Nat PROVE Plus(a, b) \in Bytes
  <2>1. a + b \in Nat
    OBVIOUS
  <2>2. \A c \in Nat : c % Modulus \in 0 .. Modulus - 1
    BY <1>1, <1>2
  <2>3. QED
    BY <2>1, <2>2 DEF Plus, Bytes
<1>4. QED
  BY <1>1, <1>2, <1>3 DEF Bytes

\* operator<< of one more value.
LEMMA PutMore ==
    ASSUME NEW p \in Packet, NEW u, NEW a \in Nat, NEW V, NEW src \in Seq(V),
           \A j \in 1 .. Len(src) : u[a + j] = src[j],
           a + Len(src) < eBUFFER_DEFAULT
    PROVE  PutData(Filled(p, u, a), src) = Filled(p, u, a + Len(src))
<1> DEFINE x == Filled(p, u, a)
           y == Filled(p, u, a + Len(src))
           E == 1 .. eBUFFER_DEFAULT
           r == [p EXCEPT !.buffer = 0, !.write_pos = 0, !.data_size = 0]
<1>1. Len(src) \in Nat /\ eBUFFER_DEFAULT \in Nat
  BY LenProperties, PacketSize
<1>2. /\ x.write_pos = a /\ x.data_size = a
      /\ x.buffer = [i \in E |-> IF i <= a THEN u[i] ELSE p.buffer[i]]
  BY DEF Filled, Packet
<1>3. Overlaid(x.buffer, a, src) = y.buffer
  <2>1. y.buffer = [i \in E |-> IF i <= a + Len(src) THEN u[i] ELSE p.buffer[i]]
    BY DEF Filled, Packet
  <2>2. Overlaid(x.buffer, a, src) =
          [i \in E |-> IF a < i /\ i <= a + Len(src) THEN src[i - a] ELSE x.buffer[i]]
    BY <1>2 DEF Overlaid
  <2>3. ASSUME NEW i \in E
        PROVE  (IF a < i /\ i <= a + Len(src) THEN src[i - a] ELSE x.buffer[i])
               = (IF i <= a + Len(src) THEN u[i] ELSE p.buffer[i])
    <3>1. CASE a < i /\ i <= a + Len(src)
      <4>1. i - a \in 1 .. Len(src) /\ a + (i - a) = i
        BY <1>1, <3>1
      <4>2. src[i - a] = u[i]
        BY <4>1
      <4>3. QED
        BY <3>1, <4>2
    <3>2. CASE ~(a < i /\ i <= a + Len(src))
      <4>1. x.buffer[i] = IF i <= a THEN u[i] ELSE p.buffer[i]
        BY <1>2
      <4>2. i <= a => i <= a + Len(src)
        BY <1>1
      <4>3. ~(i <= a) => ~(i <= a + Len(src))
        BY <1>1, <3>2
      <4>4. QED
        BY <3>2, <4>1, <4>2, <4>3
    <3>3. QED
      BY <3>1, <3>2
  <2>4. QED
    BY <2>1, <2>2, <2>3
<1>4. PutData(x, src) = [x EXCEPT !.buffer = Overlaid(@, a, src), !.write_pos = a + Len(src),
                                  !.data_size = a + Len(src)]
  BY <1>1, <1>2 DEF PutData
<1>5. PutData(x, src) = [x EXCEPT !.buffer = y.buffer, !.write_pos = a + Len(src),
                                  !.data_size = a + Len(src)]
  BY <1>3, <1>4
<1>6. y.buffer = [i \in E |-> IF i <= a + Len(src) THEN u[i] ELSE p.buffer[i]]
  BY DEF Filled, Packet
<1>7. QED
  BY <1>5, <1>6 DEF Filled, Packet

\* operator<< of the values of a message, to an empty packet.
LEMMA WriteFills ==
    ASSUME NEW p \in Packet, p.write_pos = 0, p.data_size = 0, NEW V, NEW m \in Seq(Seq(V)),
           Len(FlattenSeq(m)) < eBUFFER_DEFAULT
    PROVE  Write(p, m) = Filled(p, FlattenSeq(m), Len(FlattenSeq(m)))
<1> DEFINE u == FlattenSeq(m)
<1>1. u \in Seq(V) /\ Cut(u, m)
  BY FlattenIsCut
<1> HIDE DEF u
<1>2. PICK pos : IsCut(u, m, pos)
  BY <1>1 DEF Cut
<1>3. PICK n \in Nat : n = Len(m)
  BY LenProperties
<1>4. /\ pos \in [0 .. n -> Nat] /\ pos[0] = 0 /\ pos[n] = Len(u)
      /\ \A k \in 1 .. n : /\ pos[k] = pos[k - 1] + Len(m[k])
                           /\ \A j \in 1 .. Len(m[k]) : u[pos[k - 1] + j] = m[k][j]
  BY <1>2, <1>3 DEF IsCut
<1>5. \A k \in 1 .. n : m[k] \in Seq(V)
  BY <1>3, ElementOfSeq
<1>6. \A k \in 0 .. n : pos[k] < eBUFFER_DEFAULT
  <2>1. \A k \in 0 .. n : pos[k] <= pos[n]
    BY <1>2, <1>3, CutAscends
  <2>2. Len(u) < eBUFFER_DEFAULT /\ Len(u) \in Nat /\ eBUFFER_DEFAULT \in Nat
    BY <1>1, LenProperties, PacketSize DEF u
  <2>3. QED
    BY <1>4, <2>1, <2>2
<1> DEFINE f == [k \in 0 .. n |-> Filled(p, u, pos[k])]
           w == CHOOSE h : h = [k \in 0 .. n |-> IF k = 0 THEN p ELSE PutData(h[k - 1], m[k])]
<1>7. Filled(p, u, 0) = p
  <2>1. [i \in 1 .. eBUFFER_DEFAULT |-> IF i <= 0 THEN u[i] ELSE p.buffer[i]] = p.buffer
    BY PacketSize DEF Packet
  <2>2. QED
    BY <2>1 DEF Filled, Packet
<1>8. \A k \in 1 .. n : f[k] = PutData(f[k - 1], m[k])
  <2>1. ASSUME NEW k \in 1 .. n PROVE f[k] = PutData(f[k - 1], m[k])
    <3>1. k - 1 \in 0 .. n /\ k \in 0 .. n
      OBVIOUS
    <3>2. pos[k - 1] \in Nat /\ pos[k] = pos[k - 1] + Len(m[k]) /\ pos[k] < eBUFFER_DEFAULT
          /\ \A j \in 1 .. Len(m[k]) : u[pos[k - 1] + j] = m[k][j]
      BY <1>4, <1>6, <3>1
    <3>3. PutData(Filled(p, u, pos[k - 1]), m[k]) = Filled(p, u, pos[k - 1] + Len(m[k]))
      <4>1. PICK a \in Nat, src \in Seq(V) : a = pos[k - 1] /\ src = m[k]
        BY <1>5, <3>2
      <4>2. (\A j \in 1 .. Len(src) : u[a + j] = src[j]) /\ a + Len(src) < eBUFFER_DEFAULT
        BY <3>2, <4>1
      <4>3. PutData(Filled(p, u, a), src) = Filled(p, u, a + Len(src))
        BY <4>2, PutMore
      <4>4. QED
        BY <4>1, <4>3
    <3>4. QED
      BY <3>1, <3>2, <3>3
  <2>2. QED
    BY <2>1
<1>9. f = [k \in 0 .. n |-> IF k = 0 THEN p ELSE PutData(f[k - 1], m[k])]
  <2>1. f[0] = p
    BY <1>4, <1>7
  <2>2. f = [k \in 0 .. n |-> f[k]]
    OBVIOUS
  <2> HIDE DEF f
  <2>3. \A k \in 0 .. n : f[k] = IF k = 0 THEN p ELSE PutData(f[k - 1], m[k])
    BY <1>8, <2>1
  <2>4. QED
    BY <2>2, <2>3
<1>10. w = [k \in 0 .. n |-> IF k = 0 THEN p ELSE PutData(w[k - 1], m[k])]
  <2> HIDE DEF f
  <2>1. QED
    BY <1>9
<1>11. Write(p, m) = w[n]
  BY <1>3 DEF Write
<1> HIDE DEF w
<1>12. w = f
  <2>1. w = [k \in 0 .. n |-> w[k]] /\ f = [k \in 0 .. n |-> f[k]]
    BY <1>10
  <2> HIDE DEF f
  <2>2. w[0] = f[0]
    BY <1>9, <1>10
  <2>3. \A k \in 1 .. n : w[k] = PutData(w[k - 1], m[k])
    BY <1>10
  <2>4. \A k \in 1 .. n : w[k - 1] = f[k - 1] => w[k] = f[k]
    BY <1>8, <2>3
  <2>5. Alike(n, w, f)
    BY <2>1, <2>2, <2>4 DEF Alike
  <2>6. QED
    BY <2>5, SameSteps
<1>13. Write(p, m) = Filled(p, u, Len(u))
  <2>1. n \in 0 .. n
    OBVIOUS
  <2>2. f[n] = Filled(p, u, Len(u))
    BY <1>4, <2>1
  <2>3. QED
    BY <1>11, <1>12, <2>2
<1>14. QED
  BY <1>13 DEF u

\* A piece of s that is the sequence f.
LEMMA PieceOf ==
    ASSUME NEW V, NEW f \in Seq(V), NEW s, NEW a \in Nat,
           \A j \in 1 .. Len(f) : s[a + j] = f[j]
    PROVE  SubSeq(s, a + 1, a + Len(f)) = f
<1>1. PICK n \in Nat : n = Len(f)
  BY LenProperties
<1>2. a + 1 \in Int /\ a + n \in Int
  OBVIOUS
<1>3. ASSUME NEW i \in a + 1 .. a + n PROVE s[i] \in V
  <2>1. i - a \in 1 .. n /\ a + (i - a) = i
    OBVIOUS
  <2>2. s[i] = f[i - a]
    BY <1>1, <2>1
  <2>3. QED
    BY <1>1, <2>1, <2>2, ElementOfSeq
<1> DEFINE t == SubSeq(s, a + 1, a + n)
<1>4. /\ t \in Seq(V) /\ Len(t) = IF a + 1 <= a + n THEN (a + n) - (a + 1) + 1 ELSE 0
      /\ \A i \in 1 .. (a + n) - (a + 1) + 1 : t[i] = s[(a + 1) + i - 1]
  <2>1. PICK b \in Int, e \in Int : b = a + 1 /\ e = a + n
    BY <1>2
  <2>2. \A i \in b .. e : s[i] \in V
    BY <1>3, <2>1
  <2>3. /\ SubSeq(s, b, e) \in Seq(V)
        /\ Len(SubSeq(s, b, e)) = IF b <= e THEN e - b + 1 ELSE 0
        /\ \A i \in 1 .. e - b + 1 : SubSeq(s, b, e)[i] = s[b + i - 1]
    BY <2>2, SubSeqProperties, SMTT(30)
  <2>4. QED
    BY <2>1, <2>3
<1> HIDE DEF t
<1>5. Len(t) = n
  BY <1>4
<1>6. ASSUME NEW i \in 1 .. n PROVE t[i] = f[i]
  <2>1. i \in 1 .. (a + n) - (a + 1) + 1 /\ (a + 1) + i - 1 = a + i
    OBVIOUS
  <2>2. t[i] = s[a + i]
    BY <1>4, <2>1
  <2>3. QED
    BY <1>1, <2>2
<1>7. t = f
  BY <1>1, <1>4, <1>5, <1>6, SeqEqual
<1>8. QED
  BY <1>1, <1>7 DEF t

\* One more value than the first k - 1.
LEMMA PrefixGrows ==
    ASSUME NEW V, NEW m \in Seq(V), NEW k \in 1 .. Len(m)
    PROVE  SubSeq(m, 1, k) = Append(SubSeq(m, 1, k - 1), m[k])
<1>1. Len(m) \in Nat /\ 1 \in 1 .. Len(m) /\ k \in 1 .. Len(m) /\ m[k] \in V
  BY LenProperties, ElementOfSeq
<1>2. \A i \in 1 .. k - 1 : m[i] \in V
  <2>1. \A i \in 1 .. k - 1 : i \in 1 .. Len(m)
    BY <1>1
  <2>2. QED
    BY <2>1, ElementOfSeq
<1>3. SubSeq(m, 1, k - 1) \in Seq(V)
  <2>1. k - 1 \in Int /\ 1 \in Int
    BY <1>1
  <2>2. QED
    BY <1>2, <2>1, SubSeqProperties
<1>4. SubSeq(m, 1, k) = SubSeq(m, 1, k - 1) \o <<m[k]>>
  BY <1>1, SubSeqRecursiveSecond
<1>5. QED
  BY <1>1, <1>3, <1>4, AppendIsConcat

\* The packet p with k bytes read.
AfterRead(p, k) == [p EXCEPT !.read_pos = k, !.data_size = p.data_size - k]

\* A place within the next s bytes, when a + s bytes are within l.
LEMMA WithinSum ==
    ASSUME NEW a \in Nat, NEW s \in Nat, NEW l \in Nat, NEW j \in 1 .. s, a + s <= l
    PROVE  a + j \in 1 .. l
OBVIOUS

\* operator>> into the values of a message gives the message.
LEMMA ReadTakes ==
    ASSUME NEW p \in Packet, p.read_pos = 0, NEW V, NEW m \in Seq(Seq(V)),
           p.data_size = Len(FlattenSeq(m)),
           \A i \in 1 .. p.data_size : p.buffer[i] = FlattenSeq(m)[i]
    PROVE  /\ Read(p, Sizes(m)).values = m
           /\ Read(p, Sizes(m)).packet \in Packet
<1> DEFINE u == FlattenSeq(m)
           l == p.data_size
<1>1. u \in Seq(V) /\ Cut(u, m)
  BY FlattenIsCut
<1>2. l = Len(u) /\ \A i \in 1 .. l : p.buffer[i] = u[i]
  OBVIOUS
<1>3. l \in Nat
  BY DEF Packet
<1> HIDE DEF u, l
<1>4. PICK pos : IsCut(u, m, pos)
  BY <1>1 DEF Cut
<1>5. PICK n \in Nat : n = Len(m)
  BY LenProperties
<1>6. /\ pos \in [0 .. n -> Nat] /\ pos[0] = 0 /\ pos[n] = l
      /\ \A k \in 1 .. n : /\ pos[k] = pos[k - 1] + Len(m[k])
                           /\ \A j \in 1 .. Len(m[k]) : u[pos[k - 1] + j] = m[k][j]
  BY <1>2, <1>4, <1>5 DEF IsCut
<1>7. \A k \in 1 .. n : m[k] \in Seq(V) /\ Len(m[k]) \in Nat
  BY <1>5, ElementOfSeq, LenProperties
<1>8. \A k \in 0 .. n : pos[k] \in Nat /\ pos[k] <= l
  <2>1. \A k \in 0 .. n : pos[k] <= pos[n]
    BY <1>4, <1>5, CutAscends
  <2>2. QED
    BY <1>6, <2>1
<1>9. Sizes(m) = [k \in 1 .. n |-> Len(m[k])] /\ Len(Sizes(m)) = n
  <2>1. DOMAIN m = 1 .. n
    BY <1>5, LenProperties
  <2>2. Sizes(m) = [k \in 1 .. n |-> Len(m[k])]
    BY <2>1 DEF Sizes
  <2>3. [k \in 1 .. n |-> Len(m[k])] \in [1 .. n -> Nat]
    BY <1>7
  <2>4. QED
    BY <2>2, <2>3, LenOfFunction
<1> DEFINE F(k) == [packet |-> AfterRead(p, pos[k]), values |-> SubSeq(m, 1, k)]
           f == [k \in 0 .. n |-> F(k)]
           b == [packet |-> p, values |-> <<>>]
           r == CHOOSE h : h = [k \in 0 .. n |-> IF k = 0 THEN b
                                                 ELSE ReadValue(h[k - 1], Sizes(m)[k])]
<1>10. F(0) = b
  <2>1. AfterRead(p, pos[0]) = p
    <3>1. pos[0] = 0 /\ p.data_size - 0 = p.data_size
      BY <1>3, <1>6 DEF l
    <3>2. AfterRead(p, 0) = [p EXCEPT !.read_pos = p.read_pos, !.data_size = p.data_size]
      BY <3>1 DEF AfterRead
    <3>3. AfterRead(p, 0) = p
      BY <3>2 DEF Packet
    <3>4. QED
      BY <3>1, <3>3
  <2>2. SubSeq(m, 1, 0) = <<>>
    BY SubSeqEmpty
  <2>3. QED
    BY <2>1, <2>2
<1>11. ASSUME NEW k \in 1 .. n PROVE F(k) = ReadValue(F(k - 1), Sizes(m)[k])
  <2>1. k - 1 \in 0 .. n /\ k \in 0 .. n
    OBVIOUS
  <2>2. Sizes(m)[k] = Len(m[k]) /\ Len(m[k]) \in Nat /\ m[k] \in Seq(V)
    BY <1>7, <1>9
  <2>3. PICK a \in Nat, s \in Nat : a = pos[k - 1] /\ s = Len(m[k]) /\ pos[k] = a + s /\ a + s <= l
    BY <1>6, <1>8, <2>1, <2>2
  <2> DEFINE x == AfterRead(p, a)
  <2>4. x.read_pos = a /\ x.data_size = l - a /\ x.buffer = p.buffer
    BY DEF AfterRead, Packet, l
  <2>5. CanGet(x, s)
    BY <1>3, <2>3, <2>4 DEF CanGet
  <2>6. GetData(x, s) = AfterRead(p, pos[k])
    <3>1. GetData(x, s) = [x EXCEPT !.read_pos = a + s, !.data_size = (l - a) - s]
      BY <2>4, <2>5 DEF GetData
    <3>2. (l - a) - s = l - (a + s)
      BY <1>3
    <3>3. [x EXCEPT !.read_pos = a + s, !.data_size = l - (a + s)] = AfterRead(p, a + s)
      BY DEF AfterRead, Packet, l
    <3>4. QED
      BY <2>3, <3>1, <3>2, <3>3
  <2>7. Got(x, s) = m[k]
    <3>1. \A j \in 1 .. Len(m[k]) : p.buffer[a + j] = m[k][j]
      <4>1. ASSUME NEW j \in 1 .. Len(m[k]) PROVE p.buffer[a + j] = m[k][j]
        <5>1. a + j \in 1 .. l
          <6>1. s \in Nat /\ a + s <= l /\ j \in 1 .. s
            BY <2>3, Zenon
          <6>2. QED
            BY <1>3, <6>1, WithinSum
        <5>2. u[a + j] = m[k][j]
          BY <1>6, <2>3
        <5>3. QED
          BY <1>2, <5>1, <5>2
      <4>2. QED
        BY <4>1
    <3>2. SubSeq(p.buffer, a + 1, a + Len(m[k])) = m[k]
      BY <2>2, <3>1, PieceOf
    <3>3. QED
      BY <2>3, <2>4, <3>2 DEF Got
  <2>8. SubSeq(m, 1, k) = Append(SubSeq(m, 1, k - 1), m[k])
    BY <1>5, PrefixGrows
  <2>9. F(k - 1).packet = x /\ F(k - 1).values = SubSeq(m, 1, k - 1)
    BY <2>3
  <2> HIDE DEF x
  <2>10. ReadValue(F(k - 1), s) = [packet |-> GetData(x, s),
                                   values |-> Append(SubSeq(m, 1, k - 1), Got(x, s))]
    BY <2>5, <2>9 DEF ReadValue
  <2>11. QED
    BY <2>2, <2>3, <2>6, <2>7, <2>8, <2>10
<1>12. \A k \in 0 .. n : f[k] = F(k)
  OBVIOUS
<1> HIDE DEF F
<1>13. f = [k \in 0 .. n |-> IF k = 0 THEN b ELSE ReadValue(f[k - 1], Sizes(m)[k])]
  <2>1. ASSUME NEW k \in 0 .. n
        PROVE  F(k) = IF k = 0 THEN b ELSE ReadValue(f[k - 1], Sizes(m)[k])
    <3>1. CASE k = 0
      BY <1>10, <3>1
    <3>2. CASE k # 0
      <4>1. k \in 1 .. n /\ k - 1 \in 0 .. n
        BY <3>2
      <4>2. f[k - 1] = F(k - 1)
        BY <4>1
      <4>3. QED
        BY <1>11, <3>2, <4>1, <4>2
    <3>3. QED
      BY <3>1, <3>2
  <2>2. QED
    BY <2>1
<1>14. r = [k \in 0 .. n |-> IF k = 0 THEN b ELSE ReadValue(r[k - 1], Sizes(m)[k])]
  <2> HIDE DEF f
  <2>1. QED
    BY <1>13
<1>15. Read(p, Sizes(m)) = r[n]
  BY <1>9 DEF Read
<1> HIDE DEF r, b
<1>16. r = f
  <2>1. r = [k \in 0 .. n |-> r[k]] /\ f = [k \in 0 .. n |-> f[k]]
    BY <1>14
  <2> HIDE DEF f
  <2>2. r[0] = b /\ f[0] = b
    BY <1>13, <1>14
  <2>3. \A k \in 1 .. n : r[k] = ReadValue(r[k - 1], Sizes(m)[k])
    BY <1>14
  <2>4. \A k \in 1 .. n : f[k] = ReadValue(f[k - 1], Sizes(m)[k])
    BY <1>13
  <2>5. Alike(n, r, f)
    BY <2>1, <2>2, <2>3, <2>4, ZenonT(60) DEF Alike
  <2>6. QED
    BY <2>5, SameSteps, ZenonT(60)
<1>17. Read(p, Sizes(m)) = F(n)
  BY <1>12, <1>15, <1>16
<1>18. SubSeq(m, 1, n) = m
  BY <1>5, SubSeqFull
<1>19. AfterRead(p, pos[n]) \in Packet
  <2>1. pos[n] = l /\ p.data_size - l = 0
    BY <1>3, <1>6 DEF l
  <2>2. AfterRead(p, l) = [p EXCEPT !.read_pos = l, !.data_size = 0]
    BY <2>1 DEF AfterRead
  <2>3. AfterRead(p, l) \in Packet
    BY <1>3, <2>2 DEF Packet
  <2>4. QED
    BY <2>1, <2>3
<1>20. QED
  BY <1>17, <1>18, <1>19 DEF F

-----------------------------------------------------------------------------
(* The codec *)

\* The checksum is a byte.
LEMMA SumIsByte ==
    ASSUME NEW u \in Seq(Nat)
    PROVE  CheckSum(u) \in Bytes
<1>1. PICK n \in Nat : n = Len(u)
  BY LenProperties
<1>2. \A i \in 1 .. n : u[i] \in Nat
  BY <1>1, ElementOfSeq
<1> DEFINE g == [i \in 1 .. n |-> [x \in Bytes |-> Plus(x, u[i])]]
<1>3. g \in [1 .. n -> [Bytes -> Bytes]] /\ 0 \in Bytes
  <2>1. ASSUME NEW i \in 1 .. n, NEW x \in Bytes PROVE Plus(x, u[i]) \in Bytes
    BY <1>2, BytesAreNat
  <2>2. QED
    BY <2>1, BytesAreNat
<1>4. PICK f \in [0 .. n -> Bytes] : Iterated(n, 0, g, f)
  <2> HIDE DEF g
  <2>1. QED
    BY <1>3, Iterates
<1> DEFINE s == CHOOSE h : h = [i \in 0 .. n |-> IF i = 0 THEN 0 ELSE Plus(h[i - 1], u[i])]
<1>5. ASSUME NEW k \in 1 .. n PROVE f[k] = Plus(f[k - 1], u[k])
  <2>1. k \in 0 .. n /\ k # 0 /\ k - 1 \in 0 .. n
    OBVIOUS
  <2>2. f[k] = g[k][f[k - 1]]
    BY <1>4, <2>1 DEF Iterated
  <2>3. QED
    BY <2>1, <2>2
<1>6. f[0] = 0
  BY <1>4 DEF Iterated
<1> HIDE DEF g
<1>7. f = [i \in 0 .. n |-> IF i = 0 THEN 0 ELSE Plus(f[i - 1], u[i])]
  <2>1. \A i \in 0 .. n : f[i] = IF i = 0 THEN 0 ELSE Plus(f[i - 1], u[i])
    BY <1>5, <1>6
  <2>2. QED
    BY <2>1
<1>8. s = [i \in 0 .. n |-> IF i = 0 THEN 0 ELSE Plus(s[i - 1], u[i])]
  BY <1>7
<1>9. CheckSum(u) = s[n]
  BY <1>1 DEF CheckSum
<1> HIDE DEF s
<1>10. s[n] \in Bytes
  <2>1. CASE n = 0
    BY <1>3, <1>8, <2>1
  <2>2. CASE n # 0
    <3>1. s = f
      <4>1. s = [k \in 0 .. n |-> s[k]] /\ f = [k \in 0 .. n |-> f[k]]
        BY <1>8
      <4>2. s[0] = f[0] /\ \A k \in 1 .. n : s[k] = Plus(s[k - 1], u[k])
        BY <1>6, <1>8
      <4>3. Alike(n, s, f)
        BY <1>5, <4>1, <4>2 DEF Alike
      <4>4. QED
        BY <4>3, SameSteps
    <3>2. QED
      BY <3>1
  <2>3. QED
    BY <2>1, <2>2
<1>11. QED
  BY <1>9, <1>10

\* What the byte before and the key make of one byte.
Mask(e, key, i) == Plus(IF i = 1 THEN 0 ELSE e[i - 1], key + i)

\* The coded bytes: each is the plain one masked with the one coded before it.
LEMMA CodedIs ==
    ASSUME NEW d \in Seq(Bytes), NEW key \in Nat
    PROVE  /\ Coded(d, key) \in Seq(Bytes)
           /\ Len(Coded(d, key)) = Len(d)
           /\ \A i \in 1 .. Len(d) :
                Coded(d, key)[i] = BitXor(d[i], Mask(Coded(d, key), key, i))
<1>1. PICK n \in Nat : n = Len(d)
  BY LenProperties
<1>2. \A i \in 1 .. n : d[i] \in Bytes
  BY <1>1, ElementOfSeq
<1> DEFINE Step(x, i) == BitXor(d[i], Plus(x, key + i))
           g == [i \in 1 .. n |-> [x \in Bytes |-> Step(x, i)]]
<1>3. \A i \in 1 .. n, x \in Bytes : Step(x, i) \in Bytes
  <2>1. ASSUME NEW i \in 1 .. n, NEW x \in Bytes PROVE Step(x, i) \in Bytes
    <3>1. key + i \in Nat /\ x \in Nat
      BY BytesAreNat
    <3>2. Plus(x, key + i) \in Bytes
      BY <3>1, BytesAreNat
    <3>3. QED
      BY <1>2, <3>2, XorCancels
  <2>2. QED
    BY <2>1
<1> HIDE DEF Step
<1>4. g \in [1 .. n -> [Bytes -> Bytes]] /\ 0 \in Bytes
  BY <1>3, BytesAreNat
<1>5. PICK f \in [0 .. n -> Bytes] : Iterated(n, 0, g, f)
  <2> HIDE DEF g
  <2>1. QED
    BY <1>4, Iterates
<1>6. ASSUME NEW k \in 1 .. n PROVE f[k] = Step(f[k - 1], k)
  <2>1. k \in 0 .. n /\ k # 0 /\ k - 1 \in 0 .. n
    OBVIOUS
  <2>2. f[k] = g[k][f[k - 1]]
    BY <1>5, <2>1 DEF Iterated
  <2>3. QED
    BY <2>1, <2>2
<1>7. f[0] = 0
  BY <1>5 DEF Iterated
<1> HIDE DEF g
<1> DEFINE c == CHOOSE h : h = [i \in 0 .. n |-> IF i = 0 THEN 0
                                                ELSE BitXor(d[i], Plus(h[i - 1], key + i))]
<1>8. f = [i \in 0 .. n |-> IF i = 0 THEN 0 ELSE BitXor(d[i], Plus(f[i - 1], key + i))]
  <2>1. \A i \in 0 .. n : f[i] = IF i = 0 THEN 0 ELSE BitXor(d[i], Plus(f[i - 1], key + i))
    BY <1>6, <1>7 DEF Step
  <2>2. QED
    BY <2>1
<1>9. c = [i \in 0 .. n |-> IF i = 0 THEN 0 ELSE BitXor(d[i], Plus(c[i - 1], key + i))]
  BY <1>8
<1>10. Coded(d, key) = [i \in 1 .. n |-> c[i]]
  BY <1>1 DEF Coded
<1> HIDE DEF c
<1>11. c = f
  <2>1. c = [k \in 0 .. n |-> c[k]] /\ f = [k \in 0 .. n |-> f[k]]
    BY <1>9
  <2>2. c[0] = f[0] /\ \A k \in 1 .. n : c[k] = Step(c[k - 1], k)
    BY <1>7, <1>9 DEF Step
  <2>3. Alike(n, c, f)
    BY <1>6, <2>1, <2>2 DEF Alike
  <2>4. QED
    BY <2>3, SameSteps
<1>12. Coded(d, key) \in [1 .. n -> Bytes]
  BY <1>10, <1>11
<1>13. Coded(d, key) \in Seq(Bytes) /\ Len(Coded(d, key)) = n
  BY <1>12, LenOfFunction
<1>14. ASSUME NEW i \in 1 .. n
       PROVE  Coded(d, key)[i] = BitXor(d[i], Mask(Coded(d, key), key, i))
  <2>1. i - 1 \in 0 .. n /\ (i # 1 => i - 1 \in 1 .. n)
    OBVIOUS
  <2>2. (IF i = 1 THEN 0 ELSE Coded(d, key)[i - 1]) = f[i - 1]
    BY <1>7, <1>10, <1>11, <2>1
  <2>3. Coded(d, key)[i] = f[i]
    BY <1>10, <1>11
  <2>4. QED
    BY <1>6, <2>2, <2>3 DEF Mask, Step
<1>15. QED
  BY <1>1, <1>13, <1>14

\* Decoding masks each byte with the same byte, which undoes it.
LEMMA DecodedCoded ==
    ASSUME NEW d \in Seq(Bytes), NEW key \in Nat
    PROVE  Decoded(Coded(d, key), key) = d
<1>1. PICK n \in Nat : n = Len(d)
  BY LenProperties
<1>2. PICK c \in Seq(Bytes) : c = Coded(d, key)
  BY CodedIs
<1>3. Len(c) = n /\ \A i \in 1 .. n : c[i] = BitXor(d[i], Mask(c, key, i))
  BY <1>1, <1>2, CodedIs
<1>4. ASSUME NEW i \in 1 .. n PROVE BitXor(c[i], Mask(c, key, i)) = d[i]
  <2>1. d[i] \in Bytes
    BY <1>1, ElementOfSeq
  <2>2. (IF i = 1 THEN 0 ELSE c[i - 1]) \in Nat
    <3>1. CASE i = 1
      BY <3>1
    <3>2. CASE i # 1
      <4>1. i - 1 \in 1 .. Len(c)
        BY <1>3, <3>2
      <4>2. c[i - 1] \in Bytes
        BY <4>1, ElementOfSeq
      <4>3. QED
        BY <3>2, <4>2, BytesAreNat
    <3>3. QED
      BY <3>1, <3>2
  <2>3. key + i \in Nat
    OBVIOUS
  <2>4. Mask(c, key, i) \in Bytes
    BY <2>2, <2>3, BytesAreNat DEF Mask
  <2>5. QED
    BY <1>3, <2>1, <2>4, XorCancels
<1>5. Decoded(c, key) = [i \in 1 .. n |-> d[i]]
  <2>1. Decoded(c, key) = [i \in 1 .. n |-> BitXor(c[i], Mask(c, key, i))]
    BY <1>3 DEF Decoded, Mask
  <2>2. QED
    BY <1>4, <2>1
<1>6. [i \in 1 .. n |-> d[i]] \in [1 .. n -> Bytes]
  BY <1>1, ElementOfSeq
<1>7. [i \in 1 .. n |-> d[i]] \in Seq(Bytes) /\ Len([i \in 1 .. n |-> d[i]]) = n
  BY <1>6, LenOfFunction
<1>8. \A i \in 1 .. n : [j \in 1 .. n |-> d[j]][i] = d[i]
  OBVIOUS
<1>9. [i \in 1 .. n |-> d[i]] = d
  BY <1>1, <1>7, <1>8, SeqEqual
<1>10. QED
  BY <1>2, <1>5, <1>9

-----------------------------------------------------------------------------
(* Messages in packets *)

\* A packet of the pool, as it is handed out.
LEMMA AllocIsPacket ==
    /\ Fresh \in Packet
    /\ \A p \in Packet : /\ Alloc(p) \in Packet
                         /\ Alloc(p).read_pos = 0 /\ Alloc(p).write_pos = 0
                         /\ Alloc(p).data_size = 0
<1>1. Fresh \in Packet
  BY DEF Fresh, Packet
<1>2. ASSUME NEW p \in Packet
      PROVE  /\ Alloc(p) \in Packet
             /\ Alloc(p).read_pos = 0 /\ Alloc(p).write_pos = 0 /\ Alloc(p).data_size = 0
  BY DEF Alloc, Clear, Packet
<1>3. QED
  BY <1>1, <1>2

\* Bytes are numbers.
LEMMA BytesSeqIsNat ==
    ASSUME NEW u \in Seq(Bytes)
    PROVE  u \in Seq(Nat)
<1>1. u \in [1 .. Len(u) -> Bytes] /\ Len(u) \in Nat
  BY LenProperties
<1>2. u \in [1 .. Len(u) -> Nat]
  BY <1>1, BytesAreNat
<1>3. QED
  BY <1>1, <1>2, SeqDef

\* A sequence of one more than n is its first and its tail.
LEMMA FirstAndTail ==
    ASSUME NEW V, NEW e \in Seq(V), NEW n \in Nat, Len(e) = n + 1
    PROVE  /\ e[1] \in V /\ Tail(e) \in Seq(V) /\ Len(Tail(e)) = n
           /\ \A i \in 1 .. n : Tail(e)[i] = e[i + 1]
           /\ <<e[1]>> \o Tail(e) = e
<1>1. e # <<>> /\ 1 \in 1 .. Len(e)
  BY EmptySeq
<1>2. e[1] \in V
  BY <1>1, ElementOfSeq
<1>3. PICK t \in Seq(V) : t = Tail(e) /\ Len(t) = Len(e) - 1 /\ \A i \in 1 .. Len(t) : t[i] = e[i + 1]
  BY <1>1, HeadTailProperties
<1>4. Len(t) = n
  BY <1>3
<1>5. PICK h \in Seq(V) : h = <<e[1]>> /\ Len(h) = 1 /\ h[1] = e[1]
  <2>1. <<e[1]>> \in Seq(V) /\ Len(<<e[1]>>) = 1 /\ <<e[1]>>[1] = e[1]
    BY <1>2
  <2>2. QED
    BY <2>1
<1>6. /\ h \o t \in Seq(V) /\ Len(h \o t) = 1 + n
      /\ \A i \in 1 .. 1 + n : (h \o t)[i] = IF i <= 1 THEN h[i] ELSE t[i - 1]
  BY <1>4, <1>5, ConcatProperties
<1>7. ASSUME NEW i \in 1 .. 1 + n PROVE (h \o t)[i] = e[i]
  <2>1. CASE i = 1
    BY <1>5, <1>6, <2>1
  <2>2. CASE i # 1
    <3>1. ~(i <= 1) /\ i - 1 \in 1 .. n /\ (i - 1) + 1 = i
      BY <2>2
    <3>2. QED
      BY <1>3, <1>4, <1>6, <3>1
  <2>3. QED
    BY <2>1, <2>2
<1>8. h \o t = e
  <2>1. Len(h \o t) = Len(e)
    BY <1>6
  <2>2. QED
    BY <1>6, <1>7, <2>1, SeqEqual
<1>9. QED
  BY <1>2, <1>3, <1>4, <1>5, <1>8

\* Bytes copied to the start of the buffer.
LEMMA OverlaidStart ==
    ASSUME NEW b \in [1 .. eBUFFER_DEFAULT -> Nat], NEW src \in Seq(Nat),
           Len(src) <= eBUFFER_DEFAULT
    PROVE  /\ Overlaid(b, 0, src) \in [1 .. eBUFFER_DEFAULT -> Nat]
           /\ \A i \in 1 .. Len(src) : Overlaid(b, 0, src)[i] = src[i]
<1>1. PICK n \in Nat : n = Len(src)
  BY LenProperties
<1>2. eBUFFER_DEFAULT \in Nat /\ \A i \in 1 .. n : src[i] \in Nat
  BY <1>1, ElementOfSeq, PacketSize
<1>3. Overlaid(b, 0, src) = [i \in 1 .. eBUFFER_DEFAULT |-> IF i <= n THEN src[i] ELSE b[i]]
  <2>1. \A i \in 1 .. eBUFFER_DEFAULT : (0 < i /\ i <= 0 + n <=> i <= n) /\ i - 0 = i
    BY <1>2
  <2>2. DOMAIN b = 1 .. eBUFFER_DEFAULT
    OBVIOUS
  <2>3. QED
    BY <1>1, <2>1, <2>2 DEF Overlaid
<1>4. \A i \in 1 .. eBUFFER_DEFAULT : (IF i <= n THEN src[i] ELSE b[i]) \in Nat
  BY <1>2
<1>5. \A i \in 1 .. n : i \in 1 .. eBUFFER_DEFAULT /\ i <= n
  BY <1>1, <1>2
<1>6. QED
  BY <1>1, <1>3, <1>4, <1>5

\* The payload is what the first data_size places hold.
LEMMA PayloadIs ==
    ASSUME NEW p, NEW V, NEW u \in Seq(V), p.data_size = Len(u),
           \A i \in 1 .. Len(u) : p.buffer[i] = u[i]
    PROVE  Payload(p) = u
<1>1. Len(u) \in Nat
  BY LenProperties
<1>2. \A i \in 1 .. Len(u) : 0 + i = i
  BY <1>1
<1>3. SubSeq(p.buffer, 0 + 1, 0 + Len(u)) = u
  BY <1>2, PieceOf
<1>4. 0 + 1 = 1 /\ 0 + Len(u) = Len(u)
  BY <1>1
<1>5. QED
  BY <1>3, <1>4 DEF Payload

\* A message as operator<< leaves it in a packet.
LEMMA MadePacket ==
    ASSUME NEW m \in Seq(Seq(Bytes)), Len(FlattenSeq(m)) < eBUFFER_DEFAULT, NEW p,
           p = Write(Alloc(Fresh), m)
    PROVE  /\ p \in Packet
           /\ p.data_size = Len(FlattenSeq(m))
           /\ Payload(p) = FlattenSeq(m)
<1>1. Alloc(Fresh) \in Packet /\ Alloc(Fresh).write_pos = 0 /\ Alloc(Fresh).data_size = 0
  BY AllocIsPacket
<1>2. PICK u \in Seq(Bytes) : u = FlattenSeq(m)
  BY FlattenIsCut
<1>3. PICK n \in Nat : n = Len(u) /\ n < eBUFFER_DEFAULT
  BY <1>2, LenProperties
<1>4. p = Filled(Alloc(Fresh), u, n)
  BY <1>1, <1>2, <1>3, WriteFills
<1>5. \A i \in 1 .. n : u[i] \in Nat
  BY <1>3, ElementOfSeq, BytesAreNat
<1>6. PICK a \in Packet : a = Alloc(Fresh)
  BY <1>1
<1>7. /\ p \in Packet /\ p.data_size = n
      /\ p.buffer = [i \in 1 .. eBUFFER_DEFAULT |-> IF i <= n THEN u[i] ELSE a.buffer[i]]
  <2>1. [i \in 1 .. eBUFFER_DEFAULT |-> IF i <= n THEN u[i] ELSE a.buffer[i]]
          \in [1 .. eBUFFER_DEFAULT -> Nat]
    <3>1. a.buffer \in [1 .. eBUFFER_DEFAULT -> Nat]
      BY DEF Packet
    <3>2. ASSUME NEW i \in 1 .. eBUFFER_DEFAULT
          PROVE  (IF i <= n THEN u[i] ELSE a.buffer[i]) \in Nat
      <4>1. i <= n => i \in 1 .. n
        BY PacketSize
      <4>2. a.buffer[i] \in Nat
        BY <3>1
      <4>3. QED
        BY <1>5, <4>1, <4>2
    <3>3. QED
      BY <3>2
  <2>2. QED
    BY <1>4, <1>6, <2>1, ZenonT(60) DEF Filled, Packet
<1>8. \A i \in 1 .. n : p.buffer[i] = u[i]
  <2>1. \A i \in 1 .. n : i \in 1 .. eBUFFER_DEFAULT /\ i <= n
    BY <1>3, PacketSize
  <2>2. QED
    BY <1>7, <2>1
<1>9. Payload(p) = u
  BY <1>3, <1>7, <1>8, PayloadIs
<1>10. QED
  BY <1>2, <1>3, <1>7, <1>9

\* What Encode codes: the checksum and the payload.
Plain(u)      == <<CheckSum(u)>> \o u
Encoded(u, r)  == Coded(Coded(Plain(u), r), packet_key)

\* It is bytes, and decoded it is what it was.
LEMMA EncodedIs ==
    ASSUME NEW u \in Seq(Bytes), NEW r \in Nat
    PROVE  /\ Plain(u) \in Seq(Bytes) /\ Plain(u)[1] = CheckSum(u) /\ Tail(Plain(u)) = u
           /\ CheckSum(u) \in Bytes
           /\ Encoded(u, r) \in Seq(Bytes) /\ Len(Encoded(u, r)) = Len(u) + 1
           /\ Decoded(Decoded(Encoded(u, r), packet_key), r) = Plain(u)
<1>1. PICK s \in Bytes : s = CheckSum(u)
  <2>1. u \in Seq(Nat)
    BY BytesSeqIsNat
  <2>2. QED
    BY <2>1, SumIsByte
<1>2. <<s>> \in Seq(Bytes) /\ Len(<<s>>) = 1 /\ <<s>>[1] = s
  OBVIOUS
<1>3. PICK n \in Nat : n = Len(u)
  BY LenProperties
<1>4. PICK d \in Seq(Bytes) : d = <<s>> \o u
  BY <1>2, ConcatProperties
<1>5. Len(d) = 1 + n /\ \A i \in 1 .. 1 + n : d[i] = IF i <= 1 THEN <<s>>[i] ELSE u[i - 1]
  BY <1>2, <1>3, <1>4, ConcatProperties
<1>6. d[1] = s
  BY <1>2, <1>5
<1>7. Tail(d) = u
  <2>1. /\ Tail(d) \in Seq(Bytes) /\ Len(Tail(d)) = n
        /\ \A i \in 1 .. n : Tail(d)[i] = d[i + 1]
    <3>1. Len(d) = n + 1
      BY <1>5
    <3>2. QED
      BY <3>1, FirstAndTail
  <2>2. ASSUME NEW i \in 1 .. n PROVE Tail(d)[i] = u[i]
    <3>1. i + 1 \in 1 .. 1 + n /\ ~(i + 1 <= 1) /\ (i + 1) - 1 = i
      OBVIOUS
    <3>2. QED
      BY <1>5, <2>1, <3>1
  <2>3. QED
    BY <1>3, <2>1, <2>2, SeqEqual
<1>8. packet_key \in Nat
  <2>1. \A k \in 0 .. 2^Bits - 1 : k \in Nat
    OBVIOUS
  <2>2. QED
    BY <2>1, PacketKeys
<1>9. PICK c \in Seq(Bytes) : c = Coded(d, r) /\ Len(c) = 1 + n /\ Decoded(c, r) = d
  BY <1>5, CodedIs, DecodedCoded
<1>10. PICK e \in Seq(Bytes) : /\ e = Coded(c, packet_key) /\ Len(e) = 1 + n
                               /\ Decoded(e, packet_key) = c
  BY <1>8, <1>9, CodedIs, DecodedCoded
<1>11. Plain(u) = d
  BY <1>1, <1>4 DEF Plain
<1>12. Encoded(u, r) = e
  BY <1>9, <1>10, <1>11 DEF Encoded
<1>13. QED
  BY <1>1, <1>3, <1>6, <1>7, <1>9, <1>10, <1>11, <1>12

\* A packet in the state Encode leaves it, as far as Decode looks at it.
Carries(p, u, r) ==
  /\ p.rand_key = r /\ p.data_size = Len(u)
  /\ p.check_sum = Encoded(u, r)[1] /\ Payload(p) = Tail(Encoded(u, r))

\* Encode leaves the packet so.
LEMMA EncodeCodes ==
    ASSUME NEW u \in Seq(Bytes), NEW p \in Packet, p.data_size = Len(u), Payload(p) = u,
           Len(u) < eBUFFER_DEFAULT, NEW r \in Nat
    PROVE  /\ Encode(p, r) \in Packet
           /\ Carries(Encode(p, r), u, r) /\ Encode(p, r).code = packet_code
<1>1. PICK e \in Seq(Bytes) : e = Encoded(u, r)
  BY EncodedIs
<1>2. PICK n \in Nat : n = Len(u)
  BY LenProperties
<1>3. Len(e) = n + 1
  BY <1>1, <1>2, EncodedIs
<1>4. /\ Tail(e) \in Seq(Bytes) /\ Len(Tail(e)) = n /\ e[1] \in Bytes
  BY <1>3, FirstAndTail
<1>5. PICK t \in Seq(Nat) : t = Tail(e) /\ Len(t) = n
  BY <1>4, BytesSeqIsNat
<1> DEFINE b == Overlaid(p.buffer, 0, t)
           q == Encode(p, r)
<1>6. /\ b \in [1 .. eBUFFER_DEFAULT -> Nat]
      /\ \A i \in 1 .. n : b[i] = t[i]
  <2>1. p.buffer \in [1 .. eBUFFER_DEFAULT -> Nat] /\ Len(t) <= eBUFFER_DEFAULT
    BY <1>2, <1>5, PacketSize DEF Packet
  <2>2. QED
    BY <1>5, <2>1, OverlaidStart
<1> HIDE DEF b
<1>7. q = [p EXCEPT !.code = packet_code, !.len = p.data_size, !.rand_key = r,
                    !.check_sum = e[1], !.buffer = b]
  <2>1. Coded(Coded(<<CheckSum(Payload(p))>> \o Payload(p), r), packet_key) = e
    BY <1>1 DEF Encoded, Plain
  <2>2. QED
    BY <1>5, <2>1 DEF Encode, b
<1> HIDE DEF q
<1>8. /\ q.code = packet_code /\ q.rand_key = r /\ q.check_sum = e[1] /\ q.buffer = b
      /\ q.data_size = n /\ q \in Packet
  <2>1. e[1] \in Nat /\ packet_code \in Nat
    BY <1>4, BytesAreNat, PacketKeys
  <2>2. QED
    BY <1>2, <1>6, <1>7, <2>1 DEF Packet
<1>9. Payload(q) = t
  BY <1>5, <1>6, <1>8, PayloadIs
<1>10. QED
  BY <1>1, <1>2, <1>5, <1>8, <1>9 DEF Carries, q

\* Decode undoes Encode, in whatever packet the frame has come.
LEMMA DecodeDecodes ==
    ASSUME NEW u \in Seq(Bytes), NEW p \in Packet, NEW r \in Nat, Carries(p, u, r),
           Len(u) < eBUFFER_DEFAULT
    PROVE  /\ Decode(p).ok /\ Decode(p).packet \in Packet
           /\ Decode(p).packet.data_size = Len(u)
           /\ Decode(p).packet.read_pos = p.read_pos
           /\ \A i \in 1 .. Len(u) : Decode(p).packet.buffer[i] = u[i]
<1>1. PICK e \in Seq(Bytes) : e = Encoded(u, r)
  BY EncodedIs
<1>2. PICK n \in Nat : n = Len(u)
  BY LenProperties
<1>3. Len(e) = n + 1
  BY <1>1, <1>2, EncodedIs
<1>4. <<e[1]>> \o Tail(e) = e
  BY <1>3, FirstAndTail
<1>5. Decoded(Decoded(<<p.check_sum>> \o Payload(p), packet_key), p.rand_key) = Plain(u)
  BY <1>1, <1>4, EncodedIs DEF Carries
<1>6. Plain(u)[1] = CheckSum(u) /\ Tail(Plain(u)) = u /\ CheckSum(u) \in Nat
  BY EncodedIs, BytesAreNat
<1> DEFINE b == Overlaid(p.buffer, 0, u)
<1>7. /\ b \in [1 .. eBUFFER_DEFAULT -> Nat]
      /\ \A i \in 1 .. n : b[i] = u[i]
  <2>1. p.buffer \in [1 .. eBUFFER_DEFAULT -> Nat] /\ Len(u) <= eBUFFER_DEFAULT
    BY <1>2, PacketSize DEF Packet
  <2>2. u \in Seq(Nat)
    BY BytesSeqIsNat
  <2>3. QED
    BY <1>2, <2>1, <2>2, OverlaidStart
<1> HIDE DEF b
<1>8. /\ Decode(p).ok = (CheckSum(u) = CheckSum(u))
      /\ Decode(p).packet = [p EXCEPT !.check_sum = CheckSum(u), !.buffer = b]
  BY <1>5, <1>6 DEF Decode, b
<1>9. QED
  BY <1>2, <1>6, <1>7, <1>8 DEF Packet, Carries

-----------------------------------------------------------------------------
(* Frames *)

\* A header of four cells in front of a payload, and one of one cell.
LEMMA NetHeaderIs ==
    ASSUME NEW a \in Nat, NEW b \in Nat, NEW c \in Nat, NEW d \in Nat, NEW t \in Seq(Nat), NEW f,
           f = <<a, b, c, d>> \o t
    PROVE  /\ f \in Seq(Nat) /\ Len(f) = 4 + Len(t)
           /\ f[1] = a /\ f[2] = b /\ f[3] = c /\ f[4] = d
           /\ \A i \in 1 .. Len(t) : f[4 + i] = t[i]
<1>1. PICK h \in Seq(Nat) : /\ h = <<a, b, c, d>> /\ Len(h) = 4
                            /\ h[1] = a /\ h[2] = b /\ h[3] = c /\ h[4] = d
  <2>1. <<a, b, c, d>> \in Seq(Nat) /\ Len(<<a, b, c, d>>) = 4
    OBVIOUS
  <2>2. /\ <<a, b, c, d>>[1] = a /\ <<a, b, c, d>>[2] = b
        /\ <<a, b, c, d>>[3] = c /\ <<a, b, c, d>>[4] = d
    OBVIOUS
  <2>3. QED
    BY <2>1, <2>2
<1>2. PICK n \in Nat : n = Len(t)
  BY LenProperties
<1>3. /\ f \in Seq(Nat) /\ Len(f) = 4 + n
      /\ \A i \in 1 .. 4 + n : f[i] = IF i <= 4 THEN h[i] ELSE t[i - 4]
  BY <1>1, <1>2, ConcatProperties
<1>4. ASSUME NEW i \in 1 .. n PROVE f[4 + i] = t[i]
  <2>1. 4 + i \in 1 .. 4 + n /\ ~(4 + i <= 4) /\ (4 + i) - 4 = i
    OBVIOUS
  <2>2. QED
    BY <1>3, <2>1
<1>5. f[1] = a /\ f[2] = b /\ f[3] = c /\ f[4] = d
  BY <1>1, <1>3
<1>6. QED
  BY <1>2, <1>3, <1>4, <1>5

\* The same of one cell.
LEMMA LanHeaderIs ==
    ASSUME NEW a \in Nat, NEW t \in Seq(Nat), NEW f, f = <<a>> \o t
    PROVE  /\ f \in Seq(Nat) /\ Len(f) = 1 + Len(t) /\ f[1] = a
           /\ \A i \in 1 .. Len(t) : f[1 + i] = t[i]
<1>1. PICK h \in Seq(Nat) : h = <<a>> /\ Len(h) = 1 /\ h[1] = a
  <2>1. <<a>> \in Seq(Nat) /\ Len(<<a>>) = 1 /\ <<a>>[1] = a
    OBVIOUS
  <2>2. QED
    BY <2>1
<1>2. PICK n \in Nat : n = Len(t)
  BY LenProperties
<1>3. /\ f \in Seq(Nat) /\ Len(f) = 1 + n
      /\ \A i \in 1 .. 1 + n : f[i] = IF i <= 1 THEN h[i] ELSE t[i - 1]
  BY <1>1, <1>2, ConcatProperties
<1>4. ASSUME NEW i \in 1 .. n PROVE f[1 + i] = t[i]
  <2>1. 1 + i \in 1 .. 1 + n /\ ~(1 + i <= 1) /\ (1 + i) - 1 = i
    OBVIOUS
  <2>2. QED
    BY <1>3, <2>1
<1>5. f[1] = a
  BY <1>1, <1>3
<1>6. QED
  BY <1>2, <1>3, <1>4, <1>5

\* MoveWritePos after a frame was put into an empty packet.
LEMMA MovedWrite ==
    ASSUME NEW p \in Packet, p.write_pos = 0, p.data_size = 0, NEW n \in Nat \ {0},
           n < eBUFFER_DEFAULT
    PROVE  MoveWritePos(p, n) = [p EXCEPT !.write_pos = n, !.data_size = n]
<1>1. eBUFFER_DEFAULT \in Nat
  BY PacketSize
<1>2. ~(n <= 0) /\ ~(0 + n >= eBUFFER_DEFAULT) /\ 0 + n = n
  BY <1>1
<1>3. QED
  BY <1>2 DEF MoveWritePos, Packet

\* A frame in the packet the worker took from the pool.
NetPacket(p, f) == MoveWritePos(FilledNet(Alloc(p), f), f[2])
LanPacket(p, f) == MoveWritePos(FilledLan(Alloc(p), f), f[1])

\* The header and the payload of a frame of CNetServer are where Decode reads them.
LEMMA NetPacketIs ==
    ASSUME NEW p \in Packet, NEW f \in Seq(Nat), NEW n \in Nat \ {0}, n < eBUFFER_DEFAULT,
           Len(f) = 4 + n, f[2] = n
    PROVE  /\ NetPacket(p, f) \in Packet
           /\ NetPacket(p, f).rand_key = f[3] /\ NetPacket(p, f).check_sum = f[4]
           /\ NetPacket(p, f).data_size = n /\ NetPacket(p, f).read_pos = 0
           /\ \A i \in 1 .. n : NetPacket(p, f).buffer[i] = f[4 + i]
<1>1. PICK a \in Packet : a = Alloc(p) /\ a.read_pos = 0 /\ a.write_pos = 0 /\ a.data_size = 0
  BY AllocIsPacket
<1>2. 4 \in 0 .. Len(f) /\ 4 + 1 = 5 /\ Len(f) - 4 = n
  OBVIOUS
<1>3. PICK t \in Seq(Nat) : /\ t = SubSeq(f, 5, Len(f)) /\ Len(t) = n
                            /\ \A i \in 1 .. n : t[i] = f[4 + i]
  <2>1. /\ SubSeq(f, 4 + 1, Len(f)) \in Seq(Nat)
        /\ Len(SubSeq(f, 4 + 1, Len(f))) = Len(f) - 4
        /\ \A i \in 1 .. Len(f) - 4 : SubSeq(f, 4 + 1, Len(f))[i] = f[4 + i]
    BY <1>2, RestOfSeq
  <2>2. /\ SubSeq(f, 5, Len(f)) \in Seq(Nat)
        /\ Len(SubSeq(f, 5, Len(f))) = n
        /\ \A i \in 1 .. n : SubSeq(f, 5, Len(f))[i] = f[4 + i]
    BY <1>2, <2>1
  <2>3. QED
    BY <2>2
<1>4. PICK b \in [1 .. eBUFFER_DEFAULT -> Nat] :
        b = Overlaid(a.buffer, 0, t) /\ \A i \in 1 .. n : b[i] = t[i]
  <2>1. a.buffer \in [1 .. eBUFFER_DEFAULT -> Nat]
    BY DEF Packet
  <2>2. Len(t) <= eBUFFER_DEFAULT
    BY <1>3, PacketSize
  <2>3. /\ Overlaid(a.buffer, 0, t) \in [1 .. eBUFFER_DEFAULT -> Nat]
        /\ \A i \in 1 .. Len(t) : Overlaid(a.buffer, 0, t)[i] = t[i]
    BY <2>1, <2>2, OverlaidStart
  <2>4. QED
    BY <1>3, <2>3
<1>5. f[1] \in Nat /\ f[2] \in Nat /\ f[3] \in Nat /\ f[4] \in Nat
  <2>1. 1 \in 1 .. Len(f) /\ 2 \in 1 .. Len(f) /\ 3 \in 1 .. Len(f) /\ 4 \in 1 .. Len(f)
    OBVIOUS
  <2>2. QED
    BY <2>1, ElementOfSeq
<1>6. PICK q \in Packet :
        /\ q = FilledNet(a, f)
        /\ q.rand_key = f[3] /\ q.check_sum = f[4] /\ q.buffer = b
        /\ q.read_pos = 0 /\ q.write_pos = 0 /\ q.data_size = 0
  <2>1. FilledNet(a, f) = [a EXCEPT !.code = f[1], !.len = f[2], !.rand_key = f[3],
                                    !.check_sum = f[4], !.buffer = b]
    BY <1>3, <1>4 DEF FilledNet
  <2>2. QED
    BY <1>1, <1>5, <2>1, ZenonT(60) DEF Packet
<1>7. NetPacket(p, f) = [q EXCEPT !.write_pos = n, !.data_size = n]
  BY <1>1, <1>6, MovedWrite DEF NetPacket
<1>8. PICK x \in Packet :
        /\ x = NetPacket(p, f) /\ x.rand_key = f[3] /\ x.check_sum = f[4] /\ x.buffer = b
        /\ x.read_pos = 0 /\ x.data_size = n
  <2>1. [q EXCEPT !.write_pos = n, !.data_size = n] \in Packet
    BY DEF Packet
  <2>2. QED
    BY <1>6, <1>7, <2>1 DEF Packet
<1>9. ASSUME NEW i \in 1 .. n PROVE x.buffer[i] = f[4 + i]
  <2>1. t[i] = f[4 + i] /\ b[i] = t[i]
    BY <1>3, <1>4
  <2>2. QED
    BY <1>8, <2>1
<1>10. QED
  BY <1>8, <1>9

\* The payload of a frame of CLanClient is where OnRecv reads it.
LEMMA LanPacketIs ==
    ASSUME NEW p \in Packet, NEW f \in Seq(Nat), NEW n \in Nat \ {0}, n < eBUFFER_DEFAULT,
           Len(f) = 1 + n, f[1] = n
    PROVE  /\ LanPacket(p, f) \in Packet
           /\ LanPacket(p, f).data_size = n /\ LanPacket(p, f).read_pos = 0
           /\ \A i \in 1 .. n : LanPacket(p, f).buffer[i] = f[1 + i]
<1>1. PICK a \in Packet : a = Alloc(p) /\ a.read_pos = 0 /\ a.write_pos = 0 /\ a.data_size = 0
  BY AllocIsPacket
<1>2. PICK t \in Seq(Nat) : t = Tail(f) /\ Len(t) = n /\ \A i \in 1 .. n : t[i] = f[i + 1]
  <2>1. Len(f) = n + 1
    OBVIOUS
  <2>2. Tail(f) \in Seq(Nat) /\ Len(Tail(f)) = n /\ \A i \in 1 .. n : Tail(f)[i] = f[i + 1]
    BY <2>1, FirstAndTail
  <2>3. QED
    BY <2>2
<1>3. \A i \in 1 .. n : i + 1 = 1 + i
  OBVIOUS
<1>4. PICK b \in [1 .. eBUFFER_DEFAULT -> Nat] :
        b = Overlaid(a.buffer, 0, t) /\ \A i \in 1 .. n : b[i] = t[i]
  <2>1. a.buffer \in [1 .. eBUFFER_DEFAULT -> Nat]
    BY DEF Packet
  <2>2. Len(t) <= eBUFFER_DEFAULT
    BY <1>2, PacketSize
  <2>3. /\ Overlaid(a.buffer, 0, t) \in [1 .. eBUFFER_DEFAULT -> Nat]
        /\ \A i \in 1 .. Len(t) : Overlaid(a.buffer, 0, t)[i] = t[i]
    BY <2>1, <2>2, OverlaidStart
  <2>4. QED
    BY <1>2, <2>3
<1>5. PICK q \in Packet : /\ q = FilledLan(a, f) /\ q.buffer = b
                          /\ q.read_pos = 0 /\ q.write_pos = 0 /\ q.data_size = 0
  <2>1. FilledLan(a, f) = [a EXCEPT !.len = f[1], !.buffer = b]
    BY <1>2, <1>4 DEF FilledLan
  <2>2. QED
    BY <1>1, <2>1 DEF Packet
<1>6. LanPacket(p, f) = [q EXCEPT !.write_pos = n, !.data_size = n]
  BY <1>1, <1>5, MovedWrite DEF LanPacket
<1>7. PICK x \in Packet :
        x = LanPacket(p, f) /\ x.buffer = b /\ x.read_pos = 0 /\ x.data_size = n
  <2>1. [q EXCEPT !.write_pos = n, !.data_size = n] \in Packet
    BY DEF Packet
  <2>2. QED
    BY <1>5, <1>6, <2>1 DEF Packet
<1>8. \A i \in 1 .. n : x.buffer[i] = f[1 + i]
  BY <1>2, <1>3, <1>4, <1>7
<1>9. QED
  BY <1>7, <1>8

\* The frames a message is sent in.
NetFrame(m, r) == GetBufferPtrNet(Encode(Write(Alloc(Fresh), m), r))
LanFrame(m)    == GetBufferPtrLan(Write(Alloc(Fresh), m))

\* The payload of a message.
LEMMA MessageIs ==
    ASSUME NEW m \in Messages
    PROVE  /\ m \in Seq(Seq(Bytes)) /\ FlattenSeq(m) \in Seq(Bytes)
           /\ Len(FlattenSeq(m)) \in Nat \ {0}
           /\ Len(FlattenSeq(m)) < eBUFFER_DEFAULT
           /\ Len(FlattenSeq(m)) + NetHeaderSize < recvSize
<1>1. m \in Seq(Seq(Bytes)) /\ Len(FlattenSeq(m)) > 0 /\ Len(FlattenSeq(m)) < eBUFFER_DEFAULT
      /\ Len(FlattenSeq(m)) + NetHeaderSize < recvSize
  BY MessageSizes
<1>2. FlattenSeq(m) \in Seq(Bytes)
  BY <1>1, FlattenIsCut
<1>3. Len(FlattenSeq(m)) \in Nat
  BY <1>2, LenProperties
<1>4. QED
  BY <1>1, <1>2, <1>3

\* What OnRecv reads out of a packet with the payload of a message is the message.
LEMMA ReceivedIsMessage ==
    ASSUME NEW m \in Messages, NEW p \in Packet, p.read_pos = 0,
           p.data_size = Len(FlattenSeq(m)),
           \A i \in 1 .. p.data_size : p.buffer[i] = FlattenSeq(m)[i]
    PROVE  Received(p).values = m /\ Received(p).packet \in Packet
<1> DEFINE fitting == {k \in Messages : Len(FlattenSeq(k)) = p.data_size}
           k == CHOOSE k \in fitting : TRUE
<1>1. m \in fitting /\ k \in Messages /\ Len(FlattenSeq(k)) = Len(FlattenSeq(m))
  <2>1. m \in fitting
    OBVIOUS
  <2>2. k \in fitting
    BY <2>1
  <2>3. QED
    BY <2>1, <2>2
<1> HIDE DEF k
<1>2. Sizes(k) = Sizes(m)
  BY <1>1, MessageSizes
<1>3. Received(p) = Read(p, Sizes(m))
  <2>1. fitting # {}
    BY <1>1
  <2>2. Received(p) = Read(p, Sizes(k))
    BY <2>1 DEF Received, k
  <2>3. QED
    BY <1>2, <2>2
<1>4. QED
  BY <1>3, MessageIs, ReadTakes

\* What a frame of CNetServer looks like.
IsNetFrame(f, u, r) ==
  /\ f \in Seq(Nat) /\ Len(f) = 4 + Len(u) /\ f[2] = Len(u)
  /\ f[3] = r /\ f[4] = Encoded(u, r)[1]
  /\ \A i \in 1 .. Len(u) : f[4 + i] = Tail(Encoded(u, r))[i]

\* Encode and GetBufferPtrNet make such a frame.
LEMMA NetFrameIs ==
    ASSUME NEW m \in Messages, NEW r \in RandKeys
    PROVE  IsNetFrame(NetFrame(m, r), FlattenSeq(m), r)
<1> DEFINE f == NetFrame(m, r)
           u == FlattenSeq(m)
<1> HIDE DEF f, u
<1>1. r \in Nat
  BY MessageSizes
<1>2. PICK n \in Nat : n = Len(u) /\ n < eBUFFER_DEFAULT /\ u \in Seq(Bytes)
  BY MessageIs DEF u
<1>3. PICK w \in Packet : w = Write(Alloc(Fresh), m) /\ w.data_size = n /\ Payload(w) = u
  BY <1>2, MessageIs, MadePacket DEF u
<1>4. PICK q \in Packet : q = Encode(w, r) /\ Carries(q, u, r) /\ q.code = packet_code
  BY <1>1, <1>2, <1>3, EncodeCodes
<1>5. PICK t \in Seq(Nat) : t = Tail(Encoded(u, r)) /\ Len(t) = n
  <2>1. Encoded(u, r) \in Seq(Bytes) /\ Len(Encoded(u, r)) = n + 1
    BY <1>1, <1>2, EncodedIs
  <2>2. Tail(Encoded(u, r)) \in Seq(Bytes) /\ Len(Tail(Encoded(u, r))) = n
    BY <2>1, FirstAndTail
  <2>3. QED
    BY <2>2, BytesSeqIsNat
<1>6. /\ q.code \in Nat /\ q.data_size = n /\ q.rand_key = r /\ q.rand_key \in Nat
      /\ q.check_sum = Encoded(u, r)[1] /\ q.check_sum \in Nat /\ Payload(q) = t
  BY <1>2, <1>4, <1>5 DEF Packet, Carries
<1>7. PICK a \in Nat, d \in Nat : a = q.code /\ d = Encoded(u, r)[1]
  BY <1>6
<1>8. f = <<a, n, r, d>> \o t
  BY <1>3, <1>4, <1>6, <1>7 DEF NetFrame, GetBufferPtrNet, f
<1>9. /\ f \in Seq(Nat) /\ Len(f) = 4 + Len(t) /\ f[2] = n /\ f[3] = r /\ f[4] = d
      /\ \A i \in 1 .. Len(t) : f[4 + i] = t[i]
  BY <1>1, <1>8, NetHeaderIs
<1>10. IsNetFrame(f, u, r)
  BY <1>2, <1>5, <1>7, <1>9 DEF IsNetFrame
<1>11. QED
  BY <1>10 DEF f, u

\* The other side reads the message out of it.
LEMMA NetFrameIsRead ==
    ASSUME NEW m \in Messages, NEW r \in RandKeys, NEW p \in Packet, NEW q,
           q = Decode(NetPacket(p, NetFrame(m, r)))
    PROVE  q.ok /\ Received(q.packet).values = m /\ Received(q.packet).packet \in Packet
<1>1. r \in Nat
  BY MessageSizes
<1>2. PICK u \in Seq(Bytes) : u = FlattenSeq(m)
  BY MessageIs
<1>3. PICK n \in Nat \ {0} : n = Len(u) /\ n < eBUFFER_DEFAULT
  BY <1>2, MessageIs
<1>4. PICK f \in Seq(Nat) :
        /\ f = NetFrame(m, r) /\ Len(f) = 4 + n /\ f[2] = n
        /\ f[3] = r /\ f[4] = Encoded(u, r)[1]
        /\ \A i \in 1 .. n : f[4 + i] = Tail(Encoded(u, r))[i]
  <2>1. IsNetFrame(NetFrame(m, r), u, r)
    BY <1>2, NetFrameIs
  <2>2. QED
    BY <1>3, <2>1 DEF IsNetFrame
<1>5. PICK x \in Packet :
        /\ x = NetPacket(p, f) /\ x.rand_key = f[3] /\ x.check_sum = f[4]
        /\ x.data_size = n /\ x.read_pos = 0 /\ \A i \in 1 .. n : x.buffer[i] = f[4 + i]
  BY <1>3, <1>4, NetPacketIs
<1>6. PICK t \in Seq(Bytes) : t = Tail(Encoded(u, r)) /\ Len(t) = n
  <2>1. Encoded(u, r) \in Seq(Bytes) /\ Len(Encoded(u, r)) = n + 1
    BY <1>1, <1>3, EncodedIs
  <2>2. Tail(Encoded(u, r)) \in Seq(Bytes) /\ Len(Tail(Encoded(u, r))) = n
    BY <2>1, FirstAndTail
  <2>3. QED
    BY <2>2
<1>7. Payload(x) = t
  <2>1. ASSUME NEW i \in 1 .. n PROVE x.buffer[i] = t[i]
    <3>1. x.buffer[i] = f[4 + i] /\ f[4 + i] = Tail(Encoded(u, r))[i]
      BY <1>4, <1>5
    <3>2. QED
      BY <1>6, <3>1
  <2>2. x.data_size = Len(t) /\ \A i \in 1 .. Len(t) : x.buffer[i] = t[i]
    BY <1>5, <1>6, <2>1
  <2>3. QED
    BY <2>2, PayloadIs
<1>8. Carries(x, u, r)
  BY <1>3, <1>4, <1>5, <1>6, <1>7 DEF Carries
<1>9. PICK y \in Packet :
        /\ y = q.packet /\ y.data_size = n /\ y.read_pos = 0
        /\ \A i \in 1 .. n : y.buffer[i] = u[i]
  <2>1. /\ Decode(x).packet \in Packet /\ Decode(x).packet.data_size = n
        /\ Decode(x).packet.read_pos = 0
        /\ \A i \in 1 .. n : Decode(x).packet.buffer[i] = u[i]
    BY <1>1, <1>3, <1>5, <1>8, DecodeDecodes, SMTT(60)
  <2>2. q = Decode(x)
    BY <1>4, <1>5
  <2>3. QED
    BY <2>1, <2>2
<1>10. q.ok
  BY <1>1, <1>3, <1>4, <1>5, <1>8, DecodeDecodes
<1>11. Received(y).values = m /\ Received(y).packet \in Packet
  <2>1. y.data_size = Len(FlattenSeq(m)) /\ \A i \in 1 .. y.data_size : y.buffer[i] = FlattenSeq(m)[i]
    BY <1>2, <1>3, <1>9
  <2>2. QED
    BY <1>9, <2>1, ReceivedIsMessage, SMTT(60)
<1>12. QED
  BY <1>9, <1>10, <1>11

\* The same of CLanClient.
LEMMA LanFrameIs ==
    ASSUME NEW m \in Messages, NEW f, f = LanFrame(m), NEW u, u = FlattenSeq(m)
    PROVE  /\ f \in Seq(Nat) /\ Len(f) = 1 + Len(u) /\ f[1] = Len(u)
           /\ \A i \in 1 .. Len(u) : f[1 + i] = u[i]
<1>1. PICK n \in Nat : n = Len(u) /\ n < eBUFFER_DEFAULT /\ u \in Seq(Bytes)
  BY MessageIs
<1>2. PICK w \in Packet : w = Write(Alloc(Fresh), m) /\ w.data_size = n /\ Payload(w) = u
  BY <1>1, MessageIs, MadePacket
<1>3. u \in Seq(Nat)
  BY <1>1, BytesSeqIsNat
<1>4. f = <<n>> \o u
  BY <1>2 DEF LanFrame, GetBufferPtrLan
<1>5. QED
  BY <1>1, <1>3, <1>4, LanHeaderIs

\* The client reads the message out of it.
LEMMA LanFrameIsRead ==
    ASSUME NEW m \in Messages, NEW p \in Packet, NEW q, q = LanPacket(p, LanFrame(m))
    PROVE  Received(q).values = m /\ Received(q).packet \in Packet
<1>1. PICK u \in Seq(Bytes) : u = FlattenSeq(m)
  BY MessageIs
<1>2. PICK n \in Nat \ {0} : n = Len(u) /\ n < eBUFFER_DEFAULT
  BY <1>1, MessageIs
<1>3. PICK f \in Seq(Nat) :
        /\ f = LanFrame(m) /\ Len(f) = 1 + n /\ f[1] = n
        /\ \A i \in 1 .. n : f[1 + i] = u[i]
  BY <1>1, <1>2, LanFrameIs
<1>4. PICK y \in Packet :
        /\ y = q /\ y.data_size = n /\ y.read_pos = 0
        /\ \A i \in 1 .. n : y.buffer[i] = f[1 + i]
  BY <1>2, <1>3, LanPacketIs
<1>5. y.data_size = Len(FlattenSeq(m)) /\ \A i \in 1 .. y.data_size : y.buffer[i] = FlattenSeq(m)[i]
  BY <1>1, <1>2, <1>3, <1>4
<1>6. QED
  BY <1>4, <1>5, ReceivedIsMessage

\* Decoding gives bytes, of whatever bytes.
LEMMA DecodedIs ==
    ASSUME NEW e \in Seq(Bytes), NEW key \in Nat
    PROVE  Decoded(e, key) \in Seq(Bytes) /\ Len(Decoded(e, key)) = Len(e)
<1>1. PICK n \in Nat : n = Len(e)
  BY LenProperties
<1>2. ASSUME NEW i \in 1 .. n PROVE BitXor(e[i], Mask(e, key, i)) \in Bytes
  <2>1. e[i] \in Bytes
    BY <1>1, ElementOfSeq
  <2>2. (IF i = 1 THEN 0 ELSE e[i - 1]) \in Nat
    <3>1. CASE i = 1
      BY <3>1
    <3>2. CASE i # 1
      <4>1. i - 1 \in 1 .. Len(e)
        BY <1>1, <3>2
      <4>2. e[i - 1] \in Bytes
        BY <4>1, ElementOfSeq
      <4>3. QED
        BY <3>2, <4>2, BytesAreNat
    <3>3. QED
      BY <3>1, <3>2
  <2>3. key + i \in Nat
    OBVIOUS
  <2>4. Mask(e, key, i) \in Bytes
    BY <2>2, <2>3, BytesAreNat DEF Mask
  <2>5. QED
    BY <2>1, <2>4, XorCancels
<1>3. Decoded(e, key) = [i \in 1 .. n |-> BitXor(e[i], Mask(e, key, i))]
  BY <1>1 DEF Decoded, Mask
<1>4. Decoded(e, key) \in [1 .. n -> Bytes]
  BY <1>2, <1>3
<1>5. QED
  BY <1>1, <1>4, LenOfFunction

\* packet_key is a number.
LEMMA KeyIsNat == packet_key \in Nat
<1>1. \A k \in 0 .. 2^Bits - 1 : k \in Nat
  OBVIOUS
<1>2. QED
  BY <1>1, PacketKeys

\* The header and the payload of a packet with a wrong checksum.
LEMMA WrongSumIs ==
    ASSUME NEW g \in WrongSums
    PROVE  /\ g.code = packet_code /\ g.data_size = 1 /\ g.rand_key = 0 /\ g.check_sum \in Bytes
           /\ Payload(g) \in Seq(Bytes) /\ Len(Payload(g)) = 1
           /\ ~Decode(g).ok
<1> DEFINE m == <<<<0>>>>
<1>1. m \in Seq(Seq(Bytes)) /\ Len(m) = 1 /\ m[1] = <<0>>
  <2>1. 0 \in Bytes
    BY BytesAreNat
  <2>2. QED
    BY <2>1
<1> HIDE DEF m
<1>2. PICK u \in Seq(Bytes) : u = FlattenSeq(m) /\ Cut(u, m)
  BY <1>1, FlattenIsCut
<1>3. Len(u) = 1
  <2>1. PICK pos : IsCut(u, m, pos)
    BY <1>2 DEF Cut
  <2>2. pos[0] = 0 /\ pos[1] = Len(u) /\ pos[1] = pos[1 - 1] + Len(m[1])
    <3>1. 1 \in 1 .. Len(m)
      BY <1>1
    <3>2. QED
      BY <1>1, <2>1, <3>1 DEF IsCut
  <2>3. Len(<<0>>) = 1 /\ 1 - 1 = 0
    OBVIOUS
  <2>4. QED
    BY <1>1, <2>2, <2>3
<1>4. 1 < eBUFFER_DEFAULT
  BY PacketSize
<1>5. PICK w \in Packet : w = Write(Alloc(Fresh), m) /\ w.data_size = 1 /\ Payload(w) = u
  BY <1>1, <1>2, <1>3, <1>4, MadePacket
<1>6. PICK q \in Packet : q = Encode(w, 0) /\ Carries(q, u, 0) /\ q.code = packet_code
  BY <1>3, <1>4, <1>5, EncodeCodes
<1>7. PICK sum \in Bytes : g = [q EXCEPT !.check_sum = sum] /\ ~Decode(g).ok
  BY <1>5, <1>6 DEF WrongSums, m
<1>8. /\ g.code = packet_code /\ g.data_size = 1 /\ g.rand_key = 0 /\ g.check_sum = sum
      /\ g.buffer = q.buffer /\ q.data_size = 1
  BY <1>3, <1>6, <1>7 DEF Carries, Packet
<1>9. Payload(g) = Payload(q)
  BY <1>8 DEF Payload
<1>10. Payload(q) \in Seq(Bytes) /\ Len(Payload(q)) = 1
  <2>1. Encoded(u, 0) \in Seq(Bytes) /\ Len(Encoded(u, 0)) = 1 + 1
    BY <1>3, EncodedIs
  <2>2. Tail(Encoded(u, 0)) \in Seq(Bytes) /\ Len(Tail(Encoded(u, 0))) = 1
    BY <2>1, FirstAndTail
  <2>3. QED
    BY <1>6, <2>2 DEF Carries
<1>11. QED
  BY <1>7, <1>8, <1>9, <1>10

\* A frame Decode refuses, in whatever packet it has come.
Refusable(f) ==
  /\ Len(f) = 5 /\ f[2] = 1
  /\ \A p \in Packet : ~Decode(NetPacket(p, f)).ok /\ Decode(NetPacket(p, f)).packet \in Packet

\* A frame with a wrong checksum is one of those.
LEMMA WrongSumIsRefused ==
    ASSUME NEW g \in WrongSums
    PROVE  GetBufferPtrNet(g) \in Seq(Nat) /\ Refusable(GetBufferPtrNet(g))
<1>1. /\ g.code = packet_code /\ g.data_size = 1 /\ g.rand_key = 0 /\ g.check_sum \in Bytes
      /\ ~Decode(g).ok
  BY WrongSumIs
<1>2. PICK t \in Seq(Bytes) : t = Payload(g) /\ Len(t) = 1
  BY WrongSumIs
<1>3. PICK a \in Nat, d \in Nat : a = packet_code /\ d = g.check_sum
  BY <1>1, BytesAreNat, PacketKeys
<1>4. t \in Seq(Nat)
  BY BytesSeqIsNat
<1>5. PICK f : f = GetBufferPtrNet(g)
  OBVIOUS
<1>6. f = <<a, 1, 0, d>> \o t
  BY <1>1, <1>2, <1>3, <1>5 DEF GetBufferPtrNet
<1>7. PICK n \in Nat \ {0}, o \in Nat : n = 1 /\ o = 0 /\ n = Len(t)
  BY <1>2
<1>8. f = <<a, n, o, d>> \o t
  BY <1>6, <1>7
<1>9. /\ f \in Seq(Nat) /\ Len(f) = 4 + Len(t) /\ f[2] = n /\ f[3] = o /\ f[4] = d
       /\ \A i \in 1 .. Len(t) : f[4 + i] = t[i]
  BY <1>4, <1>8, NetHeaderIs
<1>10. /\ f \in Seq(Nat) /\ Len(f) = 4 + n /\ f[2] = n /\ f[3] = 0 /\ f[4] = d
      /\ \A i \in 1 .. n : f[4 + i] = t[i]
  BY <1>7, <1>9
<1>11. ASSUME NEW p \in Packet
      PROVE  ~Decode(NetPacket(p, f)).ok /\ Decode(NetPacket(p, f)).packet \in Packet
  <2>1. n < eBUFFER_DEFAULT
    BY <1>7, PacketSize
  <2>2. PICK x \in Packet :
          /\ x = NetPacket(p, f) /\ x.rand_key = 0 /\ x.check_sum = d /\ x.data_size = n
          /\ \A i \in 1 .. n : x.buffer[i] = f[4 + i]
    <3>1. /\ NetPacket(p, f) \in Packet
          /\ NetPacket(p, f).rand_key = f[3] /\ NetPacket(p, f).check_sum = f[4]
          /\ NetPacket(p, f).data_size = n
          /\ \A i \in 1 .. n : NetPacket(p, f).buffer[i] = f[4 + i]
      BY <1>10, <2>1, NetPacketIs
    <3>2. QED
      BY <1>10, <3>1, ZenonT(60)
  <2>3. Payload(x) = t
    <3>1. ASSUME NEW i \in 1 .. n PROVE x.buffer[i] = t[i]
      <4>1. x.buffer[i] = f[4 + i] /\ f[4 + i] = t[i]
        BY <1>10, <2>2
      <4>2. QED
        BY <4>1
    <3>2. x.data_size = Len(t) /\ \A i \in 1 .. Len(t) : x.buffer[i] = t[i]
      BY <1>7, <2>2, <3>1
    <3>3. QED
      BY <3>2, PayloadIs
  <2> DEFINE e == <<d>> \o t
             c == Decoded(Decoded(e, packet_key), 0)
  <2>4. /\ Decode(x).ok = (CheckSum(Tail(c)) = c[1])
        /\ Decode(x).packet = [x EXCEPT !.check_sum = c[1],
                                        !.buffer = Overlaid(x.buffer, 0, Tail(c))]
    BY <2>2, <2>3 DEF Decode
  <2>5. Decode(g).ok = (CheckSum(Tail(c)) = c[1])
    BY <1>1, <1>2, <1>3 DEF Decode
  <2>6. e \in Seq(Bytes) /\ Len(e) = 1 + 1
    <3>1. PICK h \in Seq(Bytes) : h = <<d>> /\ Len(h) = 1
      <4>1. <<d>> \in Seq(Bytes) /\ Len(<<d>>) = 1
        BY <1>1, <1>3
      <4>2. QED
        BY <4>1
    <3>2. h \o t \in Seq(Bytes) /\ Len(h \o t) = Len(h) + Len(t)
      BY ConcatProperties
    <3>3. QED
      BY <1>2, <3>1, <3>2
  <2> HIDE DEF e
  <2>7. c \in Seq(Bytes) /\ Len(c) = 1 + 1
    <3>1. PICK v \in Seq(Bytes) : v = Decoded(e, packet_key) /\ Len(v) = 1 + 1
      BY <2>6, DecodedIs, KeyIsNat
    <3>2. Decoded(v, 0) \in Seq(Bytes) /\ Len(Decoded(v, 0)) = 1 + 1
      BY <3>1, DecodedIs
    <3>3. QED
      BY <3>1, <3>2
  <2> HIDE DEF c
  <2>8. c[1] \in Bytes /\ Tail(c) \in Seq(Bytes) /\ Len(Tail(c)) = 1
    BY <2>7, FirstAndTail
  <2>9. PICK b \in [1 .. eBUFFER_DEFAULT -> Nat] : b = Overlaid(x.buffer, 0, Tail(c))
    <3>1. x.buffer \in [1 .. eBUFFER_DEFAULT -> Nat]
      BY DEF Packet
    <3>2. PICK v \in Seq(Nat) : v = Tail(c) /\ Len(v) = 1
      BY <2>8, BytesSeqIsNat
    <3>3. Len(v) <= eBUFFER_DEFAULT
      BY <3>2, PacketSize
    <3>4. Overlaid(x.buffer, 0, v) \in [1 .. eBUFFER_DEFAULT -> Nat]
      BY <3>1, <3>3, OverlaidStart
    <3>5. QED
      BY <3>2, <3>4
  <2>10. Decode(x).packet \in Packet
    <3>1. PICK s \in Nat : s = c[1]
      BY <2>8, BytesAreNat
    <3>2. [x EXCEPT !.check_sum = s, !.buffer = b] \in Packet
      BY DEF Packet
    <3>3. QED
      BY <2>4, <2>9, <3>1, <3>2
  <2>11. QED
    BY <1>1, <2>2, <2>4, <2>5, <2>10
<1>12. Refusable(f)
  <2>1. Len(f) = 5 /\ f[2] = 1
    BY <1>10, <1>7
  <2>2. QED
    BY <1>11, <2>1 DEF Refusable
<1>13. QED
  BY <1>5, <1>10, <1>12

\* No frame that is not ours is taken for a message.
LEMMA BadFrameIs ==
    ASSUME NEW f \in BadFrames
    PROVE  /\ f \in Seq(Nat) /\ Len(f) >= 4
           /\ f[2] = 0 \/ f[2] + 4 > recvSize - 1 \/ Refusable(f)
<1>1. recvSize \in Nat /\ recvSize > 4
  BY RingSizes DEF R!RingConstants, NetHeaderSize
<1>2. PICK a \in Nat : a = packet_code
  BY PacketKeys
<1>3. \A b \in Nat : <<a, b, 0, 0>> \in Seq(Nat) /\ Len(<<a, b, 0, 0>>) = 4 /\ <<a, b, 0, 0>>[2] = b
  OBVIOUS
<1>4. CASE f = <<packet_code, 0, 0, 0>>
  BY <1>2, <1>3, <1>4
<1>5. CASE f = <<packet_code, recvSize, 0, 0>>
  <2>1. recvSize + 4 > recvSize - 1
    BY <1>1
  <2>2. QED
    BY <1>1, <1>2, <1>3, <1>5, <2>1
<1>6. CASE f = <<packet_code, recvSize - 1, 0, 0>> \o [i \in 1 .. recvSize - 1 |-> 0]
  <2>1. PICK n \in Nat : n = recvSize - 1
    BY <1>1
  <2>2. PICK t \in Seq(Nat) : t = [i \in 1 .. n |-> 0] /\ Len(t) = n
    <3>1. [i \in 1 .. n |-> 0] \in [1 .. n -> Nat]
      OBVIOUS
    <3>2. QED
      BY <3>1, LenOfFunction
  <2>3. f = <<a, n, 0, 0>> \o t
    BY <1>2, <1>6, <2>1, <2>2
  <2>4. f \in Seq(Nat) /\ Len(f) = 4 + Len(t) /\ f[2] = n
    BY <2>3, NetHeaderIs
  <2>5. 4 + Len(t) >= 4 /\ n + 4 > recvSize - 1
    BY <2>1, <2>2
  <2>6. QED
    BY <2>4, <2>5
<1>7. CASE \E g \in WrongSums : f = GetBufferPtrNet(g)
  <2>1. PICK g \in WrongSums : f = GetBufferPtrNet(g)
    BY <1>7
  <2>2. f \in Seq(Nat) /\ Refusable(f)
    BY <2>1, WrongSumIsRefused
  <2>3. Len(f) = 5
    BY <2>2 DEF Refusable
  <2>4. QED
    BY <2>2, <2>3
<1>8. QED
  BY <1>4, <1>5, <1>6, <1>7 DEF BadFrames

-----------------------------------------------------------------------------
(* The two rings *)

\* What the proofs about RingBuffer say of recv_buffer.
RecvOK == R!TypeOK /\ R!RearBehindFront

\* The ring of Framing and the ring of the proofs are one.
LEMMA RecvSame ==
    /\ RP!RingConstants
    /\ RP!Consistent <=> RecvOK
    /\ RP!Consistent' <=> RecvOK'
    /\ RP!Contents = R!Contents
    /\ RP!Contents' = R!Contents'
    /\ RP!Init <=> R!Init
<1> USE RingSizes
<1>1. RP!RingConstants
  BY DEF RP!RingConstants, R!RingConstants
<1>2. RP!Contents = R!Contents /\ RP!Contents' = R!Contents'
  BY DEF RP!Contents, R!Contents, RP!Behind, R!Behind, RP!Wrap, R!Wrap
<1>3. /\ RP!TypeOK <=> R!TypeOK
      /\ RP!RearBehindFront <=> R!RearBehindFront
      /\ RP!TypeOK' <=> R!TypeOK'
      /\ RP!RearBehindFront' <=> R!RearBehindFront'
  BY DEF RP!TypeOK, R!TypeOK, RP!Cells, R!Cells, RP!RearBehindFront, R!RearBehindFront,
         RP!Behind, R!Behind, RP!Wrap, R!Wrap
<1>4. RP!Init <=> R!Init
  BY DEF RP!Init, R!Init, RP!ClearedRing, R!ClearedRing, RP!Cells, R!Cells
<1>5. QED
  BY <1>1, <1>2, <1>3, <1>4 DEF RP!Consistent, RecvOK

\* So are the calls of the one and the other.
LEMMA RecvCalls ==
    /\ \A d \in Seq(Nat) : /\ RP!Enqueue(d) <=> R!Enqueue(d)
                           /\ RP!Receive(d) <=> R!Receive(d)
    /\ \A n \in Nat : /\ RP!Dequeue(n) <=> R!Dequeue(n)
                      /\ RP!Transmit(n) <=> R!Transmit(n)
                      /\ RP!Peek(n) = R!Peek(n)
                      /\ RP!Outgoing(n) = R!Outgoing(n)
<1>1. ASSUME NEW d \in Seq(Nat) PROVE RP!Enqueue(d) <=> R!Enqueue(d)
  BY DEF RP!Enqueue, R!Enqueue, RP!CanEnqueue, R!CanEnqueue, RP!Written, R!Written,
         RP!Cells, R!Cells
<1>2. ASSUME NEW d \in Seq(Nat) PROVE RP!Receive(d) <=> R!Receive(d)
  BY DEF RP!Receive, R!Receive, RP!GetEmptySize, R!GetEmptySize, RP!Written, R!Written,
         RP!Cells, R!Cells, RP!MoveRear, R!MoveRear,
         RP!DirectEnqueSize, R!DirectEnqueSize
<1>3. ASSUME NEW n \in Nat
      PROVE  /\ RP!Dequeue(n) <=> R!Dequeue(n)
             /\ RP!Transmit(n) <=> R!Transmit(n)
  BY DEF RP!Dequeue, R!Dequeue, RP!CanDequeue, R!CanDequeue, RP!Transmit, R!Transmit,
         RP!MoveFront, R!MoveFront, RP!GetFillSize, R!GetFillSize
<1>4. ASSUME NEW n \in Nat PROVE RP!Peek(n) = R!Peek(n)
  BY DEF RP!Peek, R!Peek, RP!Reading, R!Reading
<1>5. ASSUME NEW n \in Nat PROVE RP!Outgoing(n) = R!Outgoing(n)
  BY DEF RP!Outgoing, R!Outgoing, RP!Reading, R!Reading,
         RP!DirectDequeSize, R!DirectDequeSize
<1>6. QED
  BY <1>1, <1>2, <1>3, <1>4, <1>5

\* The bytes in it.
LEMMA RecvContents ==
    ASSUME RecvOK
    PROVE  /\ R!Contents \in Seq(Nat) /\ Len(R!Contents) = rfill
           /\ rfill \in 0 .. recvSize - 1
<1>1. RP!Contents \in Seq(Nat) /\ Len(RP!Contents) = rfill
  BY RecvSame, RP!ContentsIsSeq
<1>2. QED
  BY <1>1, RecvSame DEF RecvOK, R!TypeOK

\* Bytes put into it, as the one or the other.
LEMMA RecvPut ==
    ASSUME RecvOK, NEW d \in Seq(Nat), R!Enqueue(d) \/ R!Receive(d)
    PROVE  RecvOK' /\ R!Contents' = R!Contents \o d /\ Len(d) > 0
<1>1. RP!Enqueue(d) \/ RP!Receive(d)
  BY RecvCalls
<1>2. RP!Consistent' /\ Len(d) > 0
  BY <1>1, RecvSame, RP!PutStep
<1>3. RP!Contents' = RP!Contents \o d
  BY <1>1, RecvSame, RP!PutAppends
<1>4. QED
  BY <1>2, <1>3, RecvSame

\* Bytes taken from it.
LEMMA RecvTake ==
    ASSUME RecvOK, NEW n \in 1 .. recvSize, R!Dequeue(n) \/ R!Transmit(n)
    PROVE  /\ RecvOK' /\ n \in 1 .. rfill
           /\ R!Contents' = SubSeq(R!Contents, n + 1, rfill)
<1>1. RP!Dequeue(n) \/ RP!Transmit(n)
  <2>1. n \in Nat
    OBVIOUS
  <2>2. QED
    BY <2>1, RecvCalls
<1>2. RP!Consistent'
  BY <1>1, RecvSame, RP!TakeStep
<1>3. /\ n \in 1 .. Len(RP!Contents)
      /\ RP!Contents' = SubSeq(RP!Contents, n + 1, Len(RP!Contents))
  BY <1>1, RecvSame, RP!TakeRemoves
<1>4. Len(RP!Contents) = rfill
  BY RecvSame, RecvContents
<1>5. QED
  BY <1>2, <1>3, <1>4, RecvSame

\* Bytes seen in it.
LEMMA RecvReads ==
    ASSUME RecvOK, NEW n \in 1 .. rfill
    PROVE  /\ R!Peek(n) = SubSeq(R!Contents, 1, n)
           /\ R!Outgoing(n) = SubSeq(R!Contents, 1, n)
<1>1. /\ RP!Peek(n) = SubSeq(RP!Contents, 1, n)
      /\ RP!Outgoing(n) = SubSeq(RP!Contents, 1, n)
  BY RecvSame, RP!ReadsFront
<1>2. n \in Nat
  BY RecvContents
<1>3. RP!Peek(n) = R!Peek(n) /\ RP!Outgoing(n) = R!Outgoing(n)
  BY <1>2, RecvCalls
<1>4. QED
  BY <1>1, <1>3, RecvSame

\* At first it is empty.
LEMMA RecvInit ==
    ASSUME R!Init
    PROVE  RecvOK /\ R!Contents = <<>>
<1>1. RP!Init
  BY RecvSame
<1>2. RP!Consistent /\ RP!Contents = <<>>
  BY <1>1, RecvSame, RP!ConsistentInit, RP!QueueInit
<1>3. QED
  BY <1>2, RecvSame

\* The areas WSARecv is given hold no unread byte.
LEMMA RecvRoom ==
    ASSUME RecvOK
    PROVE  R!RoomIsFree
<1>1. RP!RoomIsFree
  BY RecvSame, RP!RoomFollows
<1>2. RP!RoomIsFree <=> R!RoomIsFree
  BY DEF RP!RoomIsFree, R!RoomIsFree, RP!DirectEnqueSize, R!DirectEnqueSize,
         RP!GetEmptySize, R!GetEmptySize, RP!Behind, R!Behind, RP!Wrap, R!Wrap
<1>3. QED
  BY <1>1, <1>2

\* Nothing changes in it when nobody calls it.
LEMMA RecvKept ==
    ASSUME RecvOK, UNCHANGED recv_buffer
    PROVE  RecvOK' /\ R!Contents' = R!Contents
<1>1. QED
  BY DEF recv_buffer, RecvOK, R!TypeOK, R!RearBehindFront, R!Cells, R!Behind, R!Wrap,
         R!Contents

\* One call or none is one step of the queue or none.
LEMMA RecvQueue ==
    ASSUME RecvOK,
           \/ \E d \in Seq(Nat) : R!Enqueue(d) \/ R!Receive(d)
           \/ \E n \in 1 .. recvSize : R!Dequeue(n) \/ R!Transmit(n)
           \/ UNCHANGED recv_buffer
    PROVE  [R!Queue!Next]_(R!Contents)
<1>1. [RP!Next]_(RP!ring)
  <2>1. ASSUME NEW d \in Seq(Nat), R!Enqueue(d) \/ R!Receive(d) PROVE RP!Next
    BY <2>1, RecvCalls DEF RP!Next
  <2>2. ASSUME NEW n \in 1 .. recvSize, R!Dequeue(n) \/ R!Transmit(n) PROVE RP!Next
    <3>1. n \in Nat
      OBVIOUS
    <3>2. QED
      BY <2>2, <3>1, RecvCalls DEF RP!Next
  <2>3. UNCHANGED recv_buffer => UNCHANGED RP!ring
    BY DEF recv_buffer, RP!ring
  <2>4. QED
    BY <2>1, <2>2, <2>3
<1>2. [RP!Queue!Next]_(RP!Contents)
  BY <1>1, RecvSame, RP!QueueStep
<1>3. RP!Queue!Next <=> R!Queue!Next
  BY RecvSame DEF RP!Queue!Next, R!Queue!Next, RP!Queue!Put, R!Queue!Put,
     RP!Queue!Take, R!Queue!Take, RP!Queue!Clear, R!Queue!Clear
<1>4. QED
  BY <1>2, <1>3, RecvSame

\* What the proofs about RingBuffer say of send_buffer.
SendOK == S!TypeOK /\ S!RearBehindFront

\* The ring of Framing and the ring of the proofs are one.
LEMMA SendSame ==
    /\ SP!RingConstants
    /\ SP!Consistent <=> SendOK
    /\ SP!Consistent' <=> SendOK'
    /\ SP!Contents = S!Contents
    /\ SP!Contents' = S!Contents'
    /\ SP!Init <=> S!Init
<1> USE RingSizes
<1>1. SP!RingConstants
  BY DEF SP!RingConstants, S!RingConstants
<1>2. SP!Contents = S!Contents /\ SP!Contents' = S!Contents'
  BY DEF SP!Contents, S!Contents, SP!Behind, S!Behind, SP!Wrap, S!Wrap
<1>3. /\ SP!TypeOK <=> S!TypeOK
      /\ SP!RearBehindFront <=> S!RearBehindFront
      /\ SP!TypeOK' <=> S!TypeOK'
      /\ SP!RearBehindFront' <=> S!RearBehindFront'
  BY DEF SP!TypeOK, S!TypeOK, SP!Cells, S!Cells, SP!RearBehindFront, S!RearBehindFront,
         SP!Behind, S!Behind, SP!Wrap, S!Wrap
<1>4. SP!Init <=> S!Init
  BY DEF SP!Init, S!Init, SP!ClearedRing, S!ClearedRing, SP!Cells, S!Cells
<1>5. QED
  BY <1>1, <1>2, <1>3, <1>4 DEF SP!Consistent, SendOK

\* So are the calls of the one and the other.
LEMMA SendCalls ==
    /\ \A d \in Seq(Nat) : /\ SP!Enqueue(d) <=> S!Enqueue(d)
                           /\ SP!Receive(d) <=> S!Receive(d)
    /\ \A n \in Nat : /\ SP!Dequeue(n) <=> S!Dequeue(n)
                      /\ SP!Transmit(n) <=> S!Transmit(n)
                      /\ SP!Peek(n) = S!Peek(n)
                      /\ SP!Outgoing(n) = S!Outgoing(n)
<1>1. ASSUME NEW d \in Seq(Nat) PROVE SP!Enqueue(d) <=> S!Enqueue(d)
  BY DEF SP!Enqueue, S!Enqueue, SP!CanEnqueue, S!CanEnqueue, SP!Written, S!Written,
         SP!Cells, S!Cells
<1>2. ASSUME NEW d \in Seq(Nat) PROVE SP!Receive(d) <=> S!Receive(d)
  BY DEF SP!Receive, S!Receive, SP!GetEmptySize, S!GetEmptySize, SP!Written, S!Written,
         SP!Cells, S!Cells, SP!MoveRear, S!MoveRear,
         SP!DirectEnqueSize, S!DirectEnqueSize
<1>3. ASSUME NEW n \in Nat
      PROVE  /\ SP!Dequeue(n) <=> S!Dequeue(n)
             /\ SP!Transmit(n) <=> S!Transmit(n)
  BY DEF SP!Dequeue, S!Dequeue, SP!CanDequeue, S!CanDequeue, SP!Transmit, S!Transmit,
         SP!MoveFront, S!MoveFront, SP!GetFillSize, S!GetFillSize
<1>4. ASSUME NEW n \in Nat PROVE SP!Peek(n) = S!Peek(n)
  BY DEF SP!Peek, S!Peek, SP!Reading, S!Reading
<1>5. ASSUME NEW n \in Nat PROVE SP!Outgoing(n) = S!Outgoing(n)
  BY DEF SP!Outgoing, S!Outgoing, SP!Reading, S!Reading,
         SP!DirectDequeSize, S!DirectDequeSize
<1>6. QED
  BY <1>1, <1>2, <1>3, <1>4, <1>5

\* The bytes in it.
LEMMA SendContents ==
    ASSUME SendOK
    PROVE  /\ S!Contents \in Seq(Nat) /\ Len(S!Contents) = sfill
           /\ sfill \in 0 .. sendSize - 1
<1>1. SP!Contents \in Seq(Nat) /\ Len(SP!Contents) = sfill
  BY SendSame, SP!ContentsIsSeq
<1>2. QED
  BY <1>1, SendSame DEF SendOK, S!TypeOK

\* Bytes put into it.
LEMMA SendPut ==
    ASSUME SendOK, NEW d \in Seq(Nat), S!Enqueue(d) \/ S!Receive(d)
    PROVE  SendOK' /\ S!Contents' = S!Contents \o d /\ Len(d) > 0
<1>1. SP!Enqueue(d) \/ SP!Receive(d)
  BY SendCalls
<1>2. SP!Consistent' /\ Len(d) > 0
  BY <1>1, SendSame, SP!PutStep
<1>3. SP!Contents' = SP!Contents \o d
  BY <1>1, SendSame, SP!PutAppends
<1>4. QED
  BY <1>2, <1>3, SendSame

\* Bytes taken from it.
LEMMA SendTake ==
    ASSUME SendOK, NEW n \in 1 .. sendSize, S!Dequeue(n) \/ S!Transmit(n)
    PROVE  /\ SendOK' /\ n \in 1 .. sfill
           /\ S!Contents' = SubSeq(S!Contents, n + 1, sfill)
<1>1. SP!Dequeue(n) \/ SP!Transmit(n)
  <2>1. n \in Nat
    OBVIOUS
  <2>2. QED
    BY <2>1, SendCalls
<1>2. SP!Consistent'
  BY <1>1, SendSame, SP!TakeStep
<1>3. /\ n \in 1 .. Len(SP!Contents)
      /\ SP!Contents' = SubSeq(SP!Contents, n + 1, Len(SP!Contents))
  BY <1>1, SendSame, SP!TakeRemoves
<1>4. Len(SP!Contents) = sfill
  BY SendSame, SendContents
<1>5. QED
  BY <1>2, <1>3, <1>4, SendSame

\* Bytes seen in it.
LEMMA SendReads ==
    ASSUME SendOK, NEW n \in 1 .. sfill
    PROVE  /\ S!Peek(n) = SubSeq(S!Contents, 1, n)
           /\ S!Outgoing(n) = SubSeq(S!Contents, 1, n)
<1>1. /\ SP!Peek(n) = SubSeq(SP!Contents, 1, n)
      /\ SP!Outgoing(n) = SubSeq(SP!Contents, 1, n)
  BY SendSame, SP!ReadsFront
<1>2. n \in Nat
  BY SendContents
<1>3. SP!Peek(n) = S!Peek(n) /\ SP!Outgoing(n) = S!Outgoing(n)
  BY <1>2, SendCalls
<1>4. QED
  BY <1>1, <1>3, SendSame

\* At first it is empty.
LEMMA SendInit ==
    ASSUME S!Init
    PROVE  SendOK /\ S!Contents = <<>>
<1>1. SP!Init
  BY SendSame
<1>2. SP!Consistent /\ SP!Contents = <<>>
  BY <1>1, SendSame, SP!ConsistentInit, SP!QueueInit
<1>3. QED
  BY <1>2, SendSame

\* The areas WSARecv is given hold no unread byte.
LEMMA SendRoom ==
    ASSUME SendOK
    PROVE  S!RoomIsFree
<1>1. SP!RoomIsFree
  BY SendSame, SP!RoomFollows
<1>2. SP!RoomIsFree <=> S!RoomIsFree
  BY DEF SP!RoomIsFree, S!RoomIsFree, SP!DirectEnqueSize, S!DirectEnqueSize,
         SP!GetEmptySize, S!GetEmptySize, SP!Behind, S!Behind, SP!Wrap, S!Wrap
<1>3. QED
  BY <1>1, <1>2

\* Nothing changes in it when nobody calls it.
LEMMA SendKept ==
    ASSUME SendOK, UNCHANGED send_buffer
    PROVE  SendOK' /\ S!Contents' = S!Contents
<1>1. QED
  BY DEF send_buffer, SendOK, S!TypeOK, S!RearBehindFront, S!Cells, S!Behind, S!Wrap,
         S!Contents

\* One call or none is one step of the queue or none.
LEMMA SendQueue ==
    ASSUME SendOK,
           \/ \E d \in Seq(Nat) : S!Enqueue(d) \/ S!Receive(d)
           \/ \E n \in 1 .. sendSize : S!Dequeue(n) \/ S!Transmit(n)
           \/ UNCHANGED send_buffer
    PROVE  [S!Queue!Next]_(S!Contents)
<1>1. [SP!Next]_(SP!ring)
  <2>1. ASSUME NEW d \in Seq(Nat), S!Enqueue(d) \/ S!Receive(d) PROVE SP!Next
    BY <2>1, SendCalls DEF SP!Next
  <2>2. ASSUME NEW n \in 1 .. sendSize, S!Dequeue(n) \/ S!Transmit(n) PROVE SP!Next
    <3>1. n \in Nat
      OBVIOUS
    <3>2. QED
      BY <2>2, <3>1, SendCalls DEF SP!Next
  <2>3. UNCHANGED send_buffer => UNCHANGED SP!ring
    BY DEF send_buffer, SP!ring
  <2>4. QED
    BY <2>1, <2>2, <2>3
<1>2. [SP!Queue!Next]_(SP!Contents)
  BY <1>1, SendSame, SP!QueueStep
<1>3. SP!Queue!Next <=> S!Queue!Next
  BY SendSame DEF SP!Queue!Next, S!Queue!Next, SP!Queue!Put, S!Queue!Put,
     SP!Queue!Take, S!Queue!Take, SP!Queue!Clear, S!Queue!Clear
<1>4. QED
  BY <1>2, <1>3, SendSame

-----------------------------------------------------------------------------
(* The stream *)

\* The frames a message is sent in, for the receive loop k.
Frames(k, m) == IF k = "net" THEN {NetFrame(m, r) : r \in RandKeys} ELSE {LanFrame(m)}

\* They are sequences of numbers.
LEMMA FramesAreNat ==
    ASSUME NEW m \in Messages, NEW k, NEW f \in Frames(k, m)
    PROVE  f \in Seq(Nat)
<1>1. CASE k = "net"
  <2>1. PICK r \in RandKeys : f = NetFrame(m, r)
    BY <1>1 DEF Frames
  <2>2. QED
    BY <2>1, NetFrameIs DEF IsNetFrame
<1>2. CASE k # "net"
  <2>1. f = LanFrame(m)
    BY <1>2 DEF Frames
  <2>2. QED
    BY <2>1, LanFrameIs
<1>3. QED
  BY <1>1, <1>2

\* The frames fs are those of the messages made and not yet got, and after the last of
\* them there may be one of somebody else.
Ours(fs, k, md, gt, br) ==
  /\ Len(fs) \in Len(md) - Len(gt) .. Len(md) - Len(gt) + 1
  /\ \A i \in 1 .. Len(md) - Len(gt) : fs[i] \in Frames(k, md[Len(gt) + i])
  /\ Len(fs) = Len(md) - Len(gt) + 1 => br /\ k = "net" /\ fs[Len(fs)] \in BadFrames

\* What was received are the first of the messages made.
Prefix(gt, md) == Len(gt) <= Len(md) /\ \A i \in 1 .. Len(gt) : gt[i] = md[i]

\* The bytes un are such frames, br says whether a foreign one was sent.
IsStream(un, k, md, gt, br) ==
  Prefix(gt, md) /\ \E fs \in Seq(Seq(Nat)) : Cut(un, fs) /\ Ours(fs, k, md, gt, br)

\* One more message.
LEMMA StreamMade ==
    ASSUME NEW un \in Seq(Nat), NEW k, NEW md \in Seq(Messages), NEW gt \in Seq(Messages),
           IsStream(un, k, md, gt, FALSE), NEW m \in Messages, NEW f \in Frames(k, m)
    PROVE  IsStream(un \o f, k, Append(md, m), gt, FALSE)
<1>1. PICK fs \in Seq(Seq(Nat)) : Cut(un, fs) /\ Ours(fs, k, md, gt, FALSE)
  BY DEF IsStream
<1>2. PICK a \in Nat, b \in Nat : a = Len(md) /\ b = Len(gt) /\ b <= a
  BY LenProperties DEF IsStream, Prefix
<1>3. PICK n \in Nat : n = a - b /\ Len(fs) = n
  <2>1. a - b \in Nat
    BY <1>2
  <2>2. PICK l \in Nat : l = Len(fs)
    BY LenProperties
  <2>3. l \in a - b .. a - b + 1 /\ ~(l = a - b + 1)
    BY <1>1, <1>2, <2>2 DEF Ours
  <2>4. l = a - b
    BY <2>1, <2>3
  <2>5. QED
    BY <2>1, <2>2, <2>4
<1>4. f \in Seq(Nat)
  BY FramesAreNat
<1> DEFINE gs == Append(fs, f)
           md1 == Append(md, m)
<1>5. gs \in Seq(Seq(Nat)) /\ Cut(un \o f, gs)
  BY <1>1, <1>4, CutAppend, AppendProperties
<1>6. /\ Len(md1) = a + 1 /\ md1[a + 1] = m /\ \A i \in 1 .. a : md1[i] = md[i]
  BY <1>2, AppendProperties
<1>7. Len(gs) = n + 1 /\ gs[n + 1] = f /\ \A i \in 1 .. n : gs[i] = fs[i]
  <2>1. /\ Len(gs) = Len(fs) + 1 /\ gs[Len(fs) + 1] = f
        /\ \A i \in 1 .. Len(fs) : gs[i] = fs[i]
    BY <1>4, AppendProperties
  <2>2. QED
    BY <1>3, <2>1
<1> HIDE DEF gs, md1
<1>8. (a + 1) - b = n + 1 /\ b + (n + 1) = a + 1
  BY <1>2, <1>3
<1>9. ASSUME NEW i \in 1 .. n + 1 PROVE gs[i] \in Frames(k, md1[b + i])
  <2>1. CASE i = n + 1
    BY <1>6, <1>7, <1>8, <2>1
  <2>2. CASE i # n + 1
    <3>1. i \in 1 .. n /\ b + i \in 1 .. a
      <4>1. i \in 1 .. n /\ n = a - b
        BY <1>3, <2>2
      <4>2. b + i \in 1 .. a
        BY <1>2, <4>1
      <4>3. QED
        BY <4>1, <4>2
    <3>2. fs[i] \in Frames(k, md[b + i])
      <4>1. \A j \in 1 .. a - b : fs[j] \in Frames(k, md[b + j])
        BY <1>1, <1>2 DEF Ours
      <4>2. QED
        BY <1>3, <3>1, <4>1
    <3>3. QED
      BY <1>6, <1>7, <3>1, <3>2
  <2>3. QED
    BY <2>1, <2>2
<1>10. Ours(gs, k, md1, gt, FALSE)
  <2>1. Len(md1) - Len(gt) = n + 1
    BY <1>2, <1>6, <1>8
  <2>2. Len(gs) \in n + 1 .. n + 1 + 1 /\ ~(Len(gs) = n + 1 + 1)
    BY <1>7
  <2>3. QED
    BY <1>2, <1>9, <2>1, <2>2 DEF Ours
<1>11. Prefix(gt, md1)
  <2>1. b <= a + 1 /\ \A i \in 1 .. b : i \in 1 .. a
    BY <1>2
  <2>2. \A i \in 1 .. b : gt[i] = md[i]
    BY <1>2 DEF IsStream, Prefix
  <2>3. QED
    BY <1>2, <1>6, <2>1, <2>2 DEF Prefix
<1>12. QED
  BY <1>5, <1>10, <1>11 DEF IsStream, md1

\* A frame that is none of ours, behind all.
LEMMA StreamBroken ==
    ASSUME NEW un \in Seq(Nat), NEW md \in Seq(Messages), NEW gt \in Seq(Messages),
           IsStream(un, "net", md, gt, FALSE), NEW f \in BadFrames
    PROVE  IsStream(un \o f, "net", md, gt, TRUE)
<1>1. PICK fs \in Seq(Seq(Nat)) : Cut(un, fs) /\ Ours(fs, "net", md, gt, FALSE)
  BY DEF IsStream
<1>2. PICK a \in Nat, b \in Nat : a = Len(md) /\ b = Len(gt) /\ b <= a
  BY LenProperties DEF IsStream, Prefix
<1>3. PICK n \in Nat : n = a - b /\ Len(fs) = n
  <2>1. a - b \in Nat
    BY <1>2
  <2>2. PICK l \in Nat : l = Len(fs)
    BY LenProperties
  <2>3. l \in a - b .. a - b + 1 /\ ~(l = a - b + 1)
    BY <1>1, <1>2, <2>2 DEF Ours
  <2>4. l = a - b
    BY <2>1, <2>3
  <2>5. QED
    BY <2>1, <2>2, <2>4
<1>4. f \in Seq(Nat)
  BY BadFrameIs
<1> DEFINE gs == Append(fs, f)
<1>5. gs \in Seq(Seq(Nat)) /\ Cut(un \o f, gs)
  BY <1>1, <1>4, CutAppend, AppendProperties
<1>6. Len(gs) = n + 1 /\ gs[n + 1] = f /\ \A i \in 1 .. n : gs[i] = fs[i]
  <2>1. /\ Len(gs) = Len(fs) + 1 /\ gs[Len(fs) + 1] = f
        /\ \A i \in 1 .. Len(fs) : gs[i] = fs[i]
    BY <1>4, AppendProperties
  <2>2. QED
    BY <1>3, <2>1
<1> HIDE DEF gs
<1>7. \A i \in 1 .. n : gs[i] \in Frames("net", md[b + i])
  <2>1. \A i \in 1 .. n : fs[i] \in Frames("net", md[b + i])
    BY <1>1, <1>2, <1>3 DEF Ours
  <2>2. QED
    BY <1>6, <2>1
<1>8. Ours(gs, "net", md, gt, TRUE)
  <2>1. Len(md) - Len(gt) = n /\ Len(gs) \in n .. n + 1
    BY <1>2, <1>3, <1>6
  <2>2. gs[Len(gs)] \in BadFrames
    BY <1>6
  <2>3. QED
    BY <1>2, <1>7, <2>1, <2>2 DEF Ours
<1>9. QED
  BY <1>5, <1>8 DEF IsStream

\* The first frame of the stream, and the stream behind it.
FirstOf(f, un, k, md, gt, br) ==
  /\ Len(f) \in 1 .. Len(un) /\ \A j \in 1 .. Len(f) : un[j] = f[j]
  /\ LET rest == SubSeq(un, Len(f) + 1, Len(un)) IN
     \/ /\ Len(gt) < Len(md) /\ f \in Frames(k, md[Len(gt) + 1])
        /\ IsStream(rest, k, md, Append(gt, md[Len(gt) + 1]), br)
     \/ /\ Len(gt) = Len(md) /\ f \in BadFrames /\ br /\ k = "net"
        /\ IsStream(rest, k, md, gt, br)

\* No frame is empty.
LEMMA FrameNotEmpty ==
    ASSUME NEW k, NEW f, f \in BadFrames \/ \E m \in Messages : f \in Frames(k, m)
    PROVE  Len(f) >= 1
<1>1. CASE f \in BadFrames
  <2>1. f \in Seq(Nat) /\ Len(f) >= 4
    BY <1>1, BadFrameIs
  <2>2. Len(f) \in Nat
    BY <2>1, LenProperties
  <2>3. QED
    BY <2>1, <2>2
<1>2. CASE \E m \in Messages : f \in Frames(k, m)
  <2>1. PICK m \in Messages : f \in Frames(k, m)
    BY <1>2
  <2>2. PICK n \in Nat : n = Len(FlattenSeq(m))
    BY MessageIs
  <2>3. Len(f) = 4 + n \/ Len(f) = 1 + n
    <3>1. CASE k = "net"
      <4>1. PICK r \in RandKeys : f = NetFrame(m, r)
        BY <2>1, <3>1 DEF Frames
      <4>2. QED
        BY <2>2, <4>1, NetFrameIs DEF IsNetFrame
    <3>2. CASE k # "net"
      <4>1. f = LanFrame(m)
        BY <2>1, <3>2 DEF Frames
      <4>2. QED
        BY <2>2, <4>1, LanFrameIs
    <3>3. QED
      BY <3>1, <3>2
  <2>4. QED
    BY <2>3
<1>3. QED
  BY <1>1, <1>2

\* A stream of some bytes has a first frame.
LEMMA StreamFirst ==
    ASSUME NEW un \in Seq(Nat), NEW k, NEW md \in Seq(Messages), NEW gt \in Seq(Messages), NEW br,
           IsStream(un, k, md, gt, br), Len(un) # 0
    PROVE  \E f \in Seq(Nat) : FirstOf(f, un, k, md, gt, br)
<1>1. PICK fs \in Seq(Seq(Nat)) : Cut(un, fs) /\ Ours(fs, k, md, gt, br)
  BY DEF IsStream
<1>2. PICK a \in Nat, b \in Nat : a = Len(md) /\ b = Len(gt) /\ b <= a
  BY LenProperties DEF IsStream, Prefix
<1>3. PICK l \in Nat : l = Len(fs)
  BY LenProperties
<1>4. /\ l \in a - b .. a - b + 1
      /\ \A i \in 1 .. a - b : fs[i] \in Frames(k, md[b + i])
      /\ l = a - b + 1 => br /\ k = "net" /\ fs[l] \in BadFrames
  BY <1>1, <1>2, <1>3 DEF Ours
<1>5. l # 0
  <2>1. CASE l = 0
    <3>1. fs = <<>>
      BY <1>3, <2>1, EmptySeq
    <3>2. QED
      BY <1>1, <3>1, CutNothing
  <2>2. QED
    BY <2>1
<1>6. PICK f \in Seq(Nat) : f = fs[1]
  <2>1. 1 \in 1 .. Len(fs)
    BY <1>3, <1>5
  <2>2. QED
    BY <2>1, ElementOfSeq
<1> DEFINE rest == SubSeq(un, Len(f) + 1, Len(un))
           gs   == Tail(fs)
<1>7. /\ Len(f) \in 0 .. Len(un) /\ \A j \in 1 .. Len(f) : un[j] = f[j]
      /\ Cut(rest, gs)
  <2>1. /\ Len(fs[1]) \in 0 .. Len(un) /\ \A j \in 1 .. Len(fs[1]) : un[j] = fs[1][j]
        /\ Cut(SubSeq(un, Len(fs[1]) + 1, Len(un)), Tail(fs))
    BY <1>1, <1>3, <1>5, CutFirst
  <2>2. QED
    BY <1>6, <2>1
<1>8. gs \in Seq(Seq(Nat)) /\ Len(gs) = l - 1 /\ \A i \in 1 .. l - 1 : gs[i] = fs[i + 1]
  <2>1. fs # <<>>
    BY <1>3, <1>5, EmptySeq
  <2>2. QED
    BY <1>3, <2>1, HeadTailProperties
<1> HIDE DEF rest, gs
<1>9. CASE b < a
  <2>1. 1 \in 1 .. a - b /\ b + 1 \in 1 .. a
    BY <1>2, <1>9
  <2>2. PICK m \in Messages : m = md[b + 1]
    BY <1>2, <2>1, ElementOfSeq
  <2>3. f \in Frames(k, m)
    BY <1>4, <1>6, <2>1, <2>2
  <2> DEFINE gt1 == Append(gt, m)
  <2>4. Len(gt1) = b + 1 /\ gt1[b + 1] = m /\ \A i \in 1 .. b : gt1[i] = gt[i]
    BY <1>2, AppendProperties
  <2> HIDE DEF gt1
  <2>5. Prefix(gt1, md)
    <3>1. b + 1 <= a
      BY <1>2, <1>9
    <3>2. ASSUME NEW i \in 1 .. b + 1 PROVE gt1[i] = md[i]
      <4>1. CASE i = b + 1
        BY <2>2, <2>4, <4>1
      <4>2. CASE i # b + 1
        <5>1. i \in 1 .. b
          BY <4>2
        <5>2. gt[i] = md[i]
          BY <1>2, <5>1 DEF IsStream, Prefix
        <5>3. QED
          BY <2>4, <5>1, <5>2
      <4>3. QED
        BY <4>1, <4>2
    <3>3. QED
      BY <1>2, <2>4, <3>1, <3>2 DEF Prefix
  <2>6. Ours(gs, k, md, gt1, br)
    <3>1. PICK n \in Nat : n = a - (b + 1) /\ a - b = n + 1
      <4>1. a - (b + 1) \in Nat /\ a - b = (a - (b + 1)) + 1
        BY <1>2, <1>9
      <4>2. QED
        BY <4>1
    <3>2. l - 1 \in n .. n + 1
      BY <1>4, <3>1
    <3>3. ASSUME NEW i \in 1 .. n PROVE gs[i] \in Frames(k, md[(b + 1) + i])
      <4>1. i + 1 \in 1 .. n + 1 /\ b + (i + 1) = (b + 1) + i /\ i \in 1 .. l - 1
        BY <3>2
      <4>2. fs[i + 1] \in Frames(k, md[b + (i + 1)])
        BY <1>4, <3>1, <4>1
      <4>3. QED
        BY <1>8, <4>1, <4>2
    <3>4. ASSUME l - 1 = n + 1 PROVE br /\ k = "net" /\ gs[l - 1] \in BadFrames
      <4>1. l = a - b + 1 /\ l - 1 \in 1 .. l - 1 /\ (l - 1) + 1 = l
        BY <3>1, <3>4
      <4>2. QED
        BY <1>4, <1>8, <4>1
    <3>5. Len(md) - Len(gt1) = n
      BY <1>2, <2>4, <3>1
    <3>6. QED
      BY <1>8, <2>4, <3>2, <3>3, <3>4, <3>5 DEF Ours
  <2>7. IsStream(rest, k, md, gt1, br)
    BY <1>7, <1>8, <2>5, <2>6 DEF IsStream
  <2>8. Len(f) >= 1
    BY <2>3, FrameNotEmpty
  <2>9. Len(f) \in 1 .. Len(un)
    BY <1>7, <2>8, LenProperties
  <2>10. FirstOf(f, un, k, md, gt, br)
    BY <1>2, <1>7, <1>9, <2>2, <2>3, <2>7, <2>9 DEF FirstOf, rest, gt1
  <2>11. QED
    BY <2>10
<1>10. CASE ~(b < a)
  <2>1. a = b /\ l = 1 /\ a - b = 0
    BY <1>2, <1>4, <1>5, <1>10
  <2>2. br /\ k = "net" /\ f \in BadFrames
    BY <1>4, <1>6, <2>1
  <2>3. Ours(gs, k, md, gt, br)
    <3>1. Len(md) - Len(gt) = 0 /\ Len(gs) = 0
      BY <1>2, <1>8, <2>1
    <3>2. QED
      BY <3>1 DEF Ours
  <2>4. IsStream(rest, k, md, gt, br)
    BY <1>7, <1>8, <2>3 DEF IsStream
  <2>5. Len(f) >= 1
    BY <2>2, FrameNotEmpty
  <2>6. Len(f) \in 1 .. Len(un)
    BY <1>7, <2>5, LenProperties
  <2>7. FirstOf(f, un, k, md, gt, br)
    BY <1>2, <1>7, <2>1, <2>2, <2>4, <2>6 DEF FirstOf, rest
  <2>8. QED
    BY <2>7
<1>11. QED
  BY <1>9, <1>10

-----------------------------------------------------------------------------
(* The invariant *)

\* The bytes that were sent or are to be sent and that no packet was made of yet.
Unread == R!Contents \o (wire \o (IF sending = 0 THEN S!Contents ELSE <<>>))

Typed ==
  /\ broken \in BOOLEAN /\ disconnect \in BOOLEAN
  /\ made \in Seq(Messages) /\ got \in Seq(Messages)
  /\ wire \in Seq(Nat) /\ pooled \in Packet
  /\ sending \in {0, sfill}
  /\ RecvOK /\ SendOK

\* They are the frames of the messages that were made and not yet received.
Stream == IsStream(Unread, kind, made, got, broken)

\* CNetServer disconnects for a frame only when a foreign one was sent.
Disconnects == kind = "net" /\ disconnect => broken

\* A worker that waits for bytes has dispatched every packet that has arrived.
Waiting ==
  pc = "posted" \/ (pc = "post" /\ ~disconnect) => (HasHeader => ~LenRefused /\ ~Complete)

IInv == Typed /\ Stream /\ Disconnects /\ Waiting

\* The bytes to send that are not with TCP yet.
Unsent == IF sending = 0 THEN S!Contents ELSE <<>>

\* It begins with what is in recv_buffer.
LEMMA UnreadIs ==
    ASSUME Typed
    PROVE  /\ R!Contents \in Seq(Nat) /\ Len(R!Contents) = rfill /\ rfill \in 0 .. recvSize - 1
           /\ Unsent \in Seq(Nat) /\ wire \o Unsent \in Seq(Nat)
           /\ Unread = R!Contents \o (wire \o Unsent)
           /\ Unread \in Seq(Nat) /\ Len(Unread) \in Nat /\ rfill <= Len(Unread)
           /\ \A i \in 1 .. rfill : Unread[i] = R!Contents[i]
<1>1. /\ R!Contents \in Seq(Nat) /\ Len(R!Contents) = rfill /\ rfill \in 0 .. recvSize - 1
  BY RecvContents DEF Typed
<1>2. Unsent \in Seq(Nat)
  BY SendContents, EmptySeq DEF Typed, Unsent
<1>3. wire \o Unsent \in Seq(Nat)
  BY <1>2, ConcatProperties DEF Typed
<1>4. Unread = R!Contents \o (wire \o Unsent)
  BY DEF Unread, Unsent
<1>5. PICK rest \in Seq(Nat) : rest = wire \o Unsent
  BY <1>3
<1>6. PICK c \in Seq(Nat), n \in Nat, l \in Nat : c = R!Contents /\ n = Len(c) /\ l = Len(rest)
  BY <1>1, LenProperties
<1>7. /\ c \o rest \in Seq(Nat) /\ Len(c \o rest) = n + l
      /\ \A i \in 1 .. n + l : (c \o rest)[i] = IF i <= n THEN c[i] ELSE rest[i - n]
  BY <1>6, ConcatProperties
<1>8. \A i \in 1 .. n : i \in 1 .. n + l /\ i <= n
  OBVIOUS
<1>9. n + l \in Nat /\ n <= n + l
  OBVIOUS
<1>10. Unread = c \o rest /\ n = rfill
  BY <1>1, <1>4, <1>5, <1>6
<1>11. QED
  BY <1>1, <1>2, <1>3, <1>4, <1>6, <1>7, <1>8, <1>9, <1>10

\* The frame at the front of recv_buffer, and what the worker sees of it.
AtFront(f) ==
  /\ FirstOf(f, Unread, kind, made, got, broken)
  /\ HeaderLen = f[IF kind = "net" THEN 2 ELSE 1] /\ HeaderLen \in Nat
  /\ Len(f) <= rfill => R!Peek(Len(f)) = f

\* Where there are bytes in recv_buffer, some frame is in front.
LEMMA SomeFrame ==
    ASSUME Typed, Stream, rfill > 0
    PROVE  \E f \in Seq(Nat) : FirstOf(f, Unread, kind, made, got, broken)
<1>1. Unread \in Seq(Nat) /\ Len(Unread) # 0
  BY UnreadIs
<1>2. made \in Seq(Messages) /\ got \in Seq(Messages)
  BY DEF Typed
<1>3. QED
  BY <1>1, <1>2, StreamFirst DEF Stream

\* The two lengths of a header.
LEMMA HeaderSizes ==
    /\ HeaderSize \in {1, 4}
    /\ kind = "net" => HeaderSize = 4
    /\ kind # "net" => HeaderSize = 1
<1>1. QED
  BY DEF HeaderSize, NetHeaderSize, LanHeaderSize

\* The frame is in front whole, or none that could be.
LEMMA FrontSeen ==
    ASSUME Typed, NEW f \in Seq(Nat), FirstOf(f, Unread, kind, made, got, broken),
           NEW n \in 1 .. rfill
    PROVE  /\ \A i \in 1 .. n : i <= Len(f) => R!Peek(n)[i] = f[i]
           /\ n = Len(f) => R!Peek(n) = f
<1>1. PICK c \in Seq(Nat) : c = R!Contents /\ Len(c) = rfill
  BY UnreadIs
<1>2. rfill \in Nat /\ n \in Nat
  BY UnreadIs
<1>3. R!Peek(n) = SubSeq(c, 1, n)
  BY <1>1, RecvReads DEF Typed
<1>4. PICK l \in Nat : l = Len(f)
  BY LenProperties
<1>5. \A i \in 1 .. n : i <= l => c[i] = f[i]
  <2>1. \A i \in 1 .. n : i \in 1 .. rfill
    BY <1>2
  <2>2. \A i \in 1 .. rfill : Unread[i] = c[i]
    BY <1>1, UnreadIs
  <2>3. \A i \in 1 .. l : Unread[i] = f[i]
    BY <1>4 DEF FirstOf
  <2>4. \A i \in 1 .. n : i <= l => i \in 1 .. l
    BY <1>4
  <2>5. QED
    BY <2>1, <2>2, <2>3, <2>4
<1>6. \A i \in 1 .. n : R!Peek(n)[i] = c[i]
  <2>1. \A i \in 1 .. n : c[i] \in Nat
    <3>1. \A i \in 1 .. n : i \in 1 .. Len(c)
      BY <1>1, <1>2
    <3>2. QED
      BY <3>1, ElementOfSeq
  <2>2. 1 \in Int /\ n \in Int
    BY <1>2
  <2>3. \A i \in 1 .. n - 1 + 1 : SubSeq(c, 1, n)[i] = c[1 + i - 1]
    BY <2>1, <2>2, SubSeqProperties
  <2>4. \A i \in 1 .. n : i \in 1 .. n - 1 + 1 /\ 1 + i - 1 = i
    BY <1>2
  <2>5. QED
    BY <1>3, <2>3, <2>4
<1>7. ASSUME n = Len(f) PROVE R!Peek(n) = f
  <2>1. \A j \in 1 .. Len(f) : 0 + j = j
    BY <1>4
  <2>2. \A j \in 1 .. Len(f) : c[0 + j] = f[j]
    BY <1>4, <1>5, <1>7, <2>1
  <2>3. SubSeq(c, 0 + 1, 0 + Len(f)) = f
    BY <2>2, PieceOf
  <2>4. 0 + 1 = 1 /\ 0 + Len(f) = n
    BY <1>2, <1>7
  <2>5. QED
    BY <1>3, <2>3, <2>4
<1>8. QED
  BY <1>4, <1>5, <1>6, <1>7

\* A frame is not shorter than its header.
LEMMA HeaderInFrame ==
    ASSUME Typed, NEW f \in Seq(Nat), FirstOf(f, Unread, kind, made, got, broken)
    PROVE  HeaderSize <= Len(f)
<1>1. PICK l \in Nat : l = Len(f) /\ l >= 1
  BY LenProperties DEF FirstOf
<1>2. HeaderSize <= l
  <2>1. CASE kind = "net"
    <3>1. CASE f \in BadFrames
      BY <1>1, <2>1, <3>1, BadFrameIs, HeaderSizes
    <3>2. CASE f \notin BadFrames
      <4>1. Len(got) < Len(made) /\ f \in Frames(kind, made[Len(got) + 1])
        BY <3>2 DEF FirstOf
      <4>2. PICK m \in Messages : f \in Frames("net", m)
        <5>1. Len(got) + 1 \in 1 .. Len(made)
          BY <4>1, LenProperties DEF Typed
        <5>2. made[Len(got) + 1] \in Messages
          BY <5>1, ElementOfSeq DEF Typed
        <5>3. QED
          BY <2>1, <4>1, <5>2
      <4>3. PICK r \in RandKeys : f = NetFrame(m, r)
        BY <4>2 DEF Frames
      <4>4. l = 4 + Len(FlattenSeq(m))
        BY <1>1, <4>3, NetFrameIs DEF IsNetFrame
      <4>5. QED
        BY <2>1, <4>4, MessageIs, HeaderSizes
    <3>3. QED
      BY <3>1, <3>2
  <2>2. CASE kind # "net"
    BY <1>1, <2>2, HeaderSizes
  <2>3. QED
    BY <2>1, <2>2
<1>3. QED
  BY <1>1, <1>2

\* What the worker sees of the frame in front.
LEMMA FrontKnown ==
    ASSUME Typed, HasHeader, NEW f \in Seq(Nat), FirstOf(f, Unread, kind, made, got, broken)
    PROVE  AtFront(f)
<1>1. HeaderSize \in 1 .. rfill
  BY HeaderSizes, UnreadIs DEF HasHeader, R!CanDequeue
<1>2. rfill \in Nat /\ rfill > 0
  BY <1>1, UnreadIs, HeaderSizes
<1>3. FirstOf(f, Unread, kind, made, got, broken)
  OBVIOUS
<1>4. PICK l \in Nat : l = Len(f) /\ l >= 1
  BY LenProperties DEF FirstOf
<1>5. HeaderSize <= l
  BY <1>4, HeaderInFrame
<1>6. HeaderLen = f[IF kind = "net" THEN 2 ELSE 1] /\ HeaderLen \in Nat
  <2>1. PICK i \in 1 .. HeaderSize : i = IF kind = "net" THEN 2 ELSE 1
    BY HeaderSizes
  <2>2. i <= Len(f)
    BY <1>4, <1>5, <2>1, HeaderSizes
  <2>3. R!Peek(HeaderSize)[i] = f[i]
    BY <1>1, <1>3, <2>1, <2>2, FrontSeen
  <2>4. i \in 1 .. Len(f)
    BY <1>4, <2>1, <2>2, HeaderSizes
  <2>5. f[i] \in Nat
    BY <2>4, ElementOfSeq
  <2>6. QED
    BY <2>1, <2>3, <2>5 DEF HeaderLen
<1>7. ASSUME Len(f) <= rfill PROVE R!Peek(Len(f)) = f
  <2>1. Len(f) \in 1 .. rfill
    BY <1>2, <1>4, <1>7
  <2>2. QED
    BY <1>3, <2>1, FrontSeen
<1>8. QED
  BY <1>3, <1>6, <1>7 DEF AtFront

\* There is such a frame once a header has arrived.
LEMMA FrontFrame ==
    ASSUME Typed, Stream, HasHeader
    PROVE  \E f \in Seq(Nat) : AtFront(f)
<1>1. HeaderSize \in 1 .. rfill
  BY HeaderSizes, UnreadIs DEF HasHeader, R!CanDequeue
<1>2. rfill \in Nat /\ rfill > 0
  BY <1>1, UnreadIs, HeaderSizes
<1>3. PICK f \in Seq(Nat) : FirstOf(f, Unread, kind, made, got, broken)
  BY <1>2, SomeFrame
<1>4. QED
  BY <1>3, FrontKnown

\* What is behind the frame in front.
Behind(f) == SubSeq(Unread, Len(f) + 1, Len(Unread))

\* The frame of the next message, and one that is none of ours, in front.
OursFirst(f, m) ==
  /\ m \in Messages /\ Len(got) < Len(made) /\ f \in Frames(kind, m)
  /\ HeaderLen + HeaderSize = Len(f) /\ HeaderLen = f[IF kind = "net" THEN 2 ELSE 1]
  /\ Len(f) <= recvSize - 1 /\ ~LenRefused
  /\ IsStream(Behind(f), kind, made, Append(got, m), broken)

BadFirst(f) ==
  /\ kind = "net" /\ broken
  /\ HeaderLen = f[2]
  /\ ~LenRefused /\ Complete => Refusable(f) /\ HeaderLen + HeaderSize = Len(f)
  /\ IsStream(Behind(f), kind, made, got, broken)

\* The message to be received next.
LEMMA NextMessage ==
    ASSUME Typed, Len(got) < Len(made)
    PROVE  made[Len(got) + 1] \in Messages
<1>1. Len(got) + 1 \in 1 .. Len(made)
  BY LenProperties DEF Typed
<1>2. QED
  BY <1>1, ElementOfSeq DEF Typed

\* The tests of the loop let a frame of ours pass.
LEMMA FrontOurs ==
    ASSUME Typed, NEW f \in Seq(Nat), AtFront(f), NEW m \in Messages, Len(got) < Len(made),
           f \in Frames(kind, m),
           IsStream(Behind(f), kind, made, Append(got, m), broken)
    PROVE  OursFirst(f, m)
<1>1. HeaderLen = f[IF kind = "net" THEN 2 ELSE 1]
  BY DEF AtFront
<1>2. PICK n \in Nat : /\ n = Len(FlattenSeq(m)) /\ n > 0 /\ n + 4 < recvSize
  BY MessageIs DEF NetHeaderSize
<1>3. recvSize \in Nat
  BY RingSizes DEF R!RingConstants
<1>4. CASE kind = "net"
  <2>1. PICK r \in RandKeys : f = NetFrame(m, r)
    BY <1>4 DEF Frames
  <2>2. Len(f) = 4 + n /\ f[2] = n
    BY <1>2, <2>1, NetFrameIs DEF IsNetFrame
  <2>3. HeaderLen = n /\ HeaderSize = 4
    BY <1>1, <1>4, <2>2, HeaderSizes
  <2>4. n + 4 = 4 + n /\ 4 + n <= recvSize - 1 /\ ~(n = 0) /\ ~(n > recvSize - 1)
    BY <1>2, <1>3
  <2>5. ~LenRefused
    BY <2>3, <2>4 DEF LenRefused, R!GetBufferSize
  <2>6. QED
    BY <1>1, <2>2, <2>3, <2>4, <2>5 DEF OursFirst
<1>5. CASE kind # "net"
  <2>1. f = LanFrame(m)
    BY <1>5 DEF Frames
  <2>2. Len(f) = 1 + n /\ f[1] = n
    BY <1>2, <2>1, LanFrameIs
  <2>3. HeaderLen = n /\ HeaderSize = 1
    BY <1>1, <1>5, <2>2, HeaderSizes
  <2>4. n + 1 = 1 + n /\ 1 + n <= recvSize - 1
    BY <1>2, <1>3
  <2>5. ~LenRefused
    BY <1>5 DEF LenRefused
  <2>6. QED
    BY <1>1, <2>2, <2>3, <2>4, <2>5 DEF OursFirst
<1>6. QED
  BY <1>4, <1>5

\* A frame that is none of ours stops at a test of the loop or in Decode.
LEMMA FrontBad ==
    ASSUME Typed, NEW f \in Seq(Nat), AtFront(f), kind = "net", broken, f \in BadFrames,
           IsStream(Behind(f), kind, made, got, broken)
    PROVE  BadFirst(f)
<1>1. HeaderLen = f[2] /\ HeaderSize = 4
  BY HeaderSizes DEF AtFront
<1>2. f[2] = 0 \/ f[2] + 4 > recvSize - 1 \/ Refusable(f)
  BY BadFrameIs
<1>3. ASSUME ~LenRefused, Complete PROVE Refusable(f) /\ HeaderLen + HeaderSize = Len(f)
  <2>1. f[2] # 0
    BY <1>1, <1>3 DEF LenRefused
  <2>2. PICK h \in Nat : h = f[2]
    <3>1. Len(f) >= 4 /\ Len(f) \in Nat
      BY BadFrameIs, LenProperties
    <3>2. 2 \in 1 .. Len(f)
      BY <3>1
    <3>3. QED
      BY <3>2, ElementOfSeq
  <2>3. h + 4 <= rfill
    BY <1>1, <1>3, <2>2 DEF Complete, R!GetFillSize
  <2>4. rfill \in 0 .. recvSize - 1 /\ recvSize \in Nat
    BY UnreadIs, RingSizes DEF R!RingConstants
  <2>5. ~(h + 4 > recvSize - 1)
    BY <2>3, <2>4
  <2>6. Refusable(f)
    BY <1>2, <2>1, <2>2, <2>5
  <2>7. Len(f) = 5 /\ f[2] = 1
    BY <2>6 DEF Refusable
  <2>8. QED
    BY <1>1, <2>6, <2>7
<1>4. QED
  BY <1>1, <1>3 DEF BadFirst

\* Which of the two it is.
LEMMA FrontIs ==
    ASSUME Typed, NEW f \in Seq(Nat), AtFront(f)
    PROVE  (\E m \in Messages : OursFirst(f, m)) \/ BadFirst(f)
<1>1. FirstOf(f, Unread, kind, made, got, broken)
  BY DEF AtFront
<1>2. \/ /\ Len(got) < Len(made) /\ f \in Frames(kind, made[Len(got) + 1])
         /\ IsStream(Behind(f), kind, made, Append(got, made[Len(got) + 1]), broken)
      \/ /\ f \in BadFrames /\ broken /\ kind = "net"
         /\ IsStream(Behind(f), kind, made, got, broken)
  BY <1>1 DEF FirstOf, Behind
<1>3. CASE /\ Len(got) < Len(made) /\ f \in Frames(kind, made[Len(got) + 1])
           /\ IsStream(Behind(f), kind, made, Append(got, made[Len(got) + 1]), broken)
  <2>1. PICK m \in Messages : m = made[Len(got) + 1]
    BY <1>3, NextMessage
  <2>2. f \in Frames(kind, m) /\ IsStream(Behind(f), kind, made, Append(got, m), broken)
    BY <1>3, <2>1
  <2>3. OursFirst(f, m)
    BY <1>3, <2>2, FrontOurs
  <2>4. QED
    BY <2>3
<1>4. CASE /\ f \in BadFrames /\ broken /\ kind = "net"
           /\ IsStream(Behind(f), kind, made, got, broken)
  BY <1>4, FrontBad
<1>5. QED
  BY <1>2, <1>3, <1>4

\* The frame in front leaves the buffer.
LEMMA FrontTaken ==
    ASSUME Typed, NEW n \in 1 .. rfill, R!Dequeue(n), UNCHANGED <<wire, sending, send_buffer>>
    PROVE  /\ RecvOK' /\ SendOK'
           /\ Unread' = SubSeq(Unread, n + 1, Len(Unread))
<1>1. PICK c \in Seq(Nat), t \in Seq(Nat) : /\ c = R!Contents /\ t = wire \o Unsent
                                            /\ Len(c) = rfill /\ Unread = c \o t
  BY UnreadIs
<1>2. PICK l \in Nat, k \in Nat : l = Len(c) /\ k = Len(t) /\ n \in 1 .. l
  BY <1>1, LenProperties
<1>3. n \in 1 .. recvSize
  <2>1. rfill \in 0 .. recvSize - 1 /\ recvSize \in Nat
    BY UnreadIs, RingSizes DEF R!RingConstants
  <2>2. QED
    BY <2>1
<1>4. RecvOK' /\ R!Contents' = SubSeq(c, n + 1, Len(c))
  BY <1>1, <1>3, RecvTake DEF Typed
<1>5. SendOK' /\ S!Contents' = S!Contents
  BY SendKept DEF Typed
<1>6. Unread' = SubSeq(c, n + 1, Len(c)) \o t
  <2>1. Unread' = R!Contents' \o (wire \o (IF sending = 0 THEN S!Contents ELSE <<>>))
    BY <1>5 DEF Unread
  <2>2. QED
    BY <1>1, <1>4, <2>1 DEF Unsent
<1>7. SubSeq(c, n + 1, Len(c)) \o t = SubSeq(c \o t, n + 1, Len(c \o t))
  <2> DEFINE x == SubSeq(c, n + 1, Len(c))
             y == SubSeq(c \o t, n + 1, Len(c \o t))
  <2>1. n \in 0 .. Len(c)
    BY <1>2
  <2>2. x \in Seq(Nat) /\ Len(x) = l - n /\ \A i \in 1 .. l - n : x[i] = c[n + i]
    BY <1>2, <2>1, RestOfSeq
  <2>3. /\ c \o t \in Seq(Nat) /\ Len(c \o t) = l + k
        /\ \A i \in 1 .. l + k : (c \o t)[i] = IF i <= l THEN c[i] ELSE t[i - l]
    BY <1>2, ConcatProperties
  <2>4. n \in 0 .. Len(c \o t)
    BY <1>2, <2>3
  <2>5. y \in Seq(Nat) /\ Len(y) = (l + k) - n /\ \A i \in 1 .. (l + k) - n : y[i] = (c \o t)[n + i]
    <3>1. /\ y \in Seq(Nat) /\ Len(y) = Len(c \o t) - n
          /\ \A i \in 1 .. Len(c \o t) - n : y[i] = (c \o t)[n + i]
      BY <2>3, <2>4, RestOfSeq
    <3>2. QED
      BY <2>3, <3>1
  <2> HIDE DEF x, y
  <2>6. /\ x \o t \in Seq(Nat) /\ Len(x \o t) = (l - n) + k
        /\ \A i \in 1 .. (l - n) + k : (x \o t)[i] = IF i <= l - n THEN x[i] ELSE t[i - (l - n)]
    <3>1. /\ x \o t \in Seq(Nat) /\ Len(x \o t) = Len(x) + Len(t)
          /\ \A i \in 1 .. Len(x) + Len(t) :
               (x \o t)[i] = IF i <= Len(x) THEN x[i] ELSE t[i - Len(x)]
      BY <2>2, ConcatProperties
    <3>2. QED
      BY <1>2, <2>2, <3>1
  <2>7. Len(x \o t) = Len(y)
    BY <1>2, <2>5, <2>6
  <2>8. ASSUME NEW i \in 1 .. Len(x \o t) PROVE (x \o t)[i] = y[i]
    <3>1. i \in 1 .. (l - n) + k /\ i \in 1 .. (l + k) - n /\ n + i \in 1 .. l + k
      BY <1>2, <2>6, <2>8
    <3>2. y[i] = IF n + i <= l THEN c[n + i] ELSE t[(n + i) - l]
      BY <2>3, <2>5, <3>1
    <3>3. CASE i <= l - n
      <4>1. n + i <= l /\ i \in 1 .. l - n
        BY <1>2, <3>1, <3>3
      <4>2. QED
        BY <2>2, <2>6, <3>1, <3>2, <3>3, <4>1
    <3>4. CASE ~(i <= l - n)
      <4>1. ~(n + i <= l) /\ i - (l - n) = (n + i) - l
        BY <1>2, <3>1, <3>4
      <4>2. QED
        BY <2>6, <3>1, <3>2, <3>4, <4>1
    <3>5. QED
      BY <3>3, <3>4
  <2>9. x \o t = y
    BY <2>5, <2>6, <2>7, <2>8, SeqEqual
  <2>10. QED
    BY <2>9 DEF x, y
<1>8. QED
  BY <1>1, <1>4, <1>5, <1>6, <1>7

\* What the worker sees of recv_buffer stays when nobody touches it.
LEMMA SeenKept ==
    ASSUME UNCHANGED <<kind, recv_buffer>>
    PROVE  /\ HasHeader' <=> HasHeader
           /\ LenRefused' <=> LenRefused
           /\ Complete' <=> Complete
           /\ HeaderLen' = HeaderLen /\ HeaderSize' = HeaderSize
<1>1. UNCHANGED <<rbuf, rfront, rrear, rfill>>
  BY DEF recv_buffer
<1>2. HeaderSize' = HeaderSize
  BY DEF HeaderSize
<1>3. HeaderLen' = HeaderLen
  BY <1>1, <1>2 DEF HeaderLen, R!Peek, R!Reading
<1>4. QED
  BY <1>1, <1>2, <1>3 DEF HasHeader, LenRefused, Complete, R!CanDequeue, R!GetFillSize,
                          R!GetBufferSize

\* A sender's step leaves the worker where it is.
LEMMA WaitingKept ==
    ASSUME Waiting, UNCHANGED <<kind, recv_buffer, pc, disconnect>>
    PROVE  Waiting'
<1>1. QED
  BY SeenKept DEF Waiting

\* Concatenation is associative, for the bytes: a name, so that a step uses it once.
Regroups(s, t, u) == (s \o t) \o u = s \o (t \o u)

LEMMA Associative ==
    \A s, t, u \in Seq(Nat) : Regroups(s, t, u)
<1>1. ASSUME NEW s \in Seq(Nat), NEW t \in Seq(Nat), NEW u \in Seq(Nat)
      PROVE  Regroups(s, t, u)
  <2>1. (s \o t) \o u = s \o (t \o u)
    BY ConcatAssociative, SMTT(30)
  <2>2. QED
    BY <2>1 DEF Regroups
<1>2. QED
  BY <1>1

\* d moves from one piece of the stream to the one before it.
MovesOn(c, d, v, u) == (c \o d) \o (v \o u) = c \o ((d \o v) \o u)

LEMMA MovedOn ==
    ASSUME NEW c \in Seq(Nat), NEW d \in Seq(Nat), NEW v \in Seq(Nat), NEW u \in Seq(Nat)
    PROVE  MovesOn(c, d, v, u)
<1>1. PICK x \in Seq(Nat) : x = v \o u
  BY ConcatProperties
<1>2. Regroups(c, d, x) /\ Regroups(d, v, u)
  BY Associative
<1>3. (c \o d) \o x = c \o (d \o x) /\ (d \o v) \o u = d \o (v \o u)
  BY <1>2 DEF Regroups
<1>4. QED
  BY <1>1, <1>3 DEF MovesOn

\* MakePacket.
LEMMA MadeStep ==
    ASSUME IInv, MakePacket
    PROVE  IInv' /\ \E d \in Seq(Nat) : S!Enqueue(d)
<1> USE DEF MakePacket
<1>1. PICK m \in Messages, r \in RandKeys :
           /\ made' = Append(made, m)
           /\ S!Enqueue(IF kind = "net" THEN NetFrame(m, r) ELSE LanFrame(m))
  BY DEF NetFrame, LanFrame
<1>2. PICK f \in Seq(Nat) : /\ f = IF kind = "net" THEN NetFrame(m, r) ELSE LanFrame(m)
                            /\ f \in Frames(kind, m)
  <2>1. PICK g : g = IF kind = "net" THEN NetFrame(m, r) ELSE LanFrame(m)
    OBVIOUS
  <2>2. g \in Frames(kind, m)
    BY <2>1 DEF Frames
  <2>3. g \in Seq(Nat)
    BY <2>2, FramesAreNat
  <2>4. QED
    BY <2>1, <2>2, <2>3
<1>5. S!Enqueue(f)
  BY <1>1, <1>2
<1>6. SendOK' /\ S!Contents' = S!Contents \o f
  BY <1>5, SendPut DEF IInv, Typed
<1>7. RecvOK' /\ R!Contents' = R!Contents
  BY RecvKept DEF IInv, Typed
<1>8. Unread' = Unread \o f
  <2>1. PICK c \in Seq(Nat), w \in Seq(Nat), u \in Seq(Nat) :
             c = R!Contents /\ w = wire /\ u = S!Contents
    BY UnreadIs, SendContents DEF IInv, Typed
  <2>2. Unread = c \o (w \o u) /\ Unread' = c \o (w \o (u \o f))
    BY <1>6, <1>7, <2>1 DEF Unread
  <2>3. w \o u \in Seq(Nat) /\ w \o (u \o f) = (w \o u) \o f
    <3>1. w \o u \in Seq(Nat)
      BY <2>1, ConcatProperties
    <3>2. Regroups(w, u, f)
      BY Associative
    <3>3. QED
      BY <3>1, <3>2 DEF Regroups
  <2>4. c \o ((w \o u) \o f) = (c \o (w \o u)) \o f
    <3>1. PICK x \in Seq(Nat) : x = w \o u
      BY <2>3
    <3>2. Regroups(c, x, f)
      BY Associative
    <3>3. QED
      BY <3>1, <3>2 DEF Regroups
  <2>5. QED
    BY <2>2, <2>3, <2>4
<1>9. made' \in Seq(Messages)
  BY <1>1, AppendProperties DEF IInv, Typed
<1>10. Stream'
  <2>1. Unread \in Seq(Nat) /\ made \in Seq(Messages) /\ got \in Seq(Messages)
    BY UnreadIs DEF IInv, Typed
  <2>2. IsStream(Unread, kind, made, got, FALSE)
    BY DEF IInv, Stream, Typed
  <2>3. IsStream(Unread \o f, kind, Append(made, m), got, FALSE)
    BY <1>2, <2>1, <2>2, StreamMade
  <2>4. broken' = FALSE /\ kind' = kind /\ got' = got
    BY DEF IInv, Typed, received
  <2>5. QED
    BY <1>1, <1>8, <2>3, <2>4 DEF Stream
<1>11. Typed'
  BY <1>6, <1>7, <1>9 DEF IInv, Typed, received
<1>12. Disconnects'
  BY DEF IInv, Disconnects
<1>13. Waiting'
  BY WaitingKept DEF IInv
<1>14. QED
  BY <1>5, <1>10, <1>11, <1>12, <1>13 DEF IInv

\* SendPost.
LEMMA PostedStep ==
    ASSUME IInv, SendPost
    PROVE  IInv' /\ UNCHANGED <<send_buffer, recv_buffer>>
<1> USE DEF SendPost
<1>1. SendOK' /\ RecvOK' /\ R!Contents' = R!Contents
  BY RecvKept, SendKept DEF IInv, Typed
<1>2. PICK c \in Seq(Nat), w \in Seq(Nat), u \in Seq(Nat) :
           c = R!Contents /\ w = wire /\ u = S!Contents /\ Len(u) = sfill
  BY UnreadIs, SendContents DEF IInv, Typed
<1>3. S!Outgoing(sfill) = u
  <2>1. sfill \in 1 .. sfill
    BY SendContents DEF IInv, Typed
  <2>2. S!Outgoing(sfill) = SubSeq(u, 1, sfill)
    BY <1>2, <2>1, SendReads DEF IInv, Typed
  <2>3. QED
    BY <1>2, <2>2, SubSeqFull
<1>4. wire' = w \o u /\ wire' \in Seq(Nat)
  BY <1>2, <1>3, ConcatProperties
<1>5. sfill > 0 /\ sfill \in Nat /\ sending' = sfill /\ sending' # 0
  BY SendContents DEF IInv, Typed
<1>6. Unread' = Unread
  <2>1. Unread' = c \o ((w \o u) \o <<>>)
    BY <1>1, <1>2, <1>4, <1>5 DEF Unread
  <2>2. Unread = c \o (w \o u)
    BY <1>2 DEF Unread
  <2>3. (w \o u) \o <<>> = w \o u
    BY <1>4, ConcatEmptySeq
  <2>4. QED
    BY <2>1, <2>2, <2>3
<1>7. Stream'
  BY <1>6 DEF IInv, Stream, received
<1>8. Typed'
  BY <1>1, <1>4, <1>5 DEF IInv, Typed, received, send_buffer
<1>9. Disconnects'
  BY DEF IInv, Disconnects
<1>10. Waiting'
  BY WaitingKept DEF IInv
<1>11. QED
  BY <1>7, <1>8, <1>9, <1>10 DEF IInv

\* SendDone.
LEMMA DoneStep ==
    ASSUME IInv, SendDone
    PROVE  IInv' /\ UNCHANGED recv_buffer /\ \E n \in 1 .. sendSize : S!Transmit(n)
<1> USE DEF SendDone
<1>1. RecvOK' /\ R!Contents' = R!Contents
  BY RecvKept DEF IInv, Typed
<1>2. sfill \in Nat /\ sending = sfill /\ sfill > 0 /\ sfill \in 1 .. sendSize
  <2>1. sfill \in 0 .. sendSize - 1 /\ sendSize \in Nat
    BY SendContents, RingSizes DEF IInv, Typed, S!RingConstants
  <2>2. sending = sfill
    BY DEF IInv, Typed
  <2>3. QED
    BY <2>1, <2>2
<1>3. S!Transmit(sfill)
  BY <1>2
<1>4. SendOK' /\ S!Contents' = SubSeq(S!Contents, sfill + 1, sfill)
  BY <1>2, <1>3, SendTake DEF IInv, Typed
<1>5. S!Contents' = <<>>
  <2>1. sfill + 1 \in Int /\ sfill \in Int /\ sfill < sfill + 1
    BY <1>2
  <2>2. QED
    BY <1>4, <2>1, SubSeqEmpty
<1>6. Unread' = Unread
  BY <1>1, <1>2, <1>5 DEF Unread
<1>7. Stream'
  BY <1>6 DEF IInv, Stream, received
<1>8. Typed'
  BY <1>1, <1>4 DEF IInv, Typed, received
<1>9. Disconnects'
  BY DEF IInv, Disconnects
<1>10. Waiting'
  BY WaitingKept DEF IInv
<1>11. QED
  BY <1>2, <1>3, <1>7, <1>8, <1>9, <1>10 DEF IInv

\* SendBadFrame.
LEMMA BrokenStep ==
    ASSUME IInv, SendBadFrame
    PROVE  IInv' /\ UNCHANGED <<send_buffer, recv_buffer>>
<1> USE DEF SendBadFrame
<1>1. SendOK' /\ RecvOK' /\ R!Contents' = R!Contents
  BY RecvKept, SendKept DEF IInv, Typed
<1>2. PICK f \in BadFrames : wire' = wire \o f
  OBVIOUS
<1>3. f \in Seq(Nat)
  BY BadFrameIs
<1>4. PICK c \in Seq(Nat), w \in Seq(Nat), u \in Seq(Nat) :
           c = R!Contents /\ w = wire /\ u = S!Contents /\ Len(u) = 0
  BY UnreadIs, SendContents DEF IInv, Typed
<1>5. u = <<>>
  BY <1>4, EmptySeq
<1>6. S!Contents' = S!Contents
  BY SendKept DEF IInv, Typed
<1>7. wire' \in Seq(Nat)
  BY <1>2, <1>3, <1>4, ConcatProperties
<1>8. Unread' = Unread \o f
  <2>1. Unread = c \o (w \o <<>>) /\ Unread' = c \o ((w \o f) \o <<>>)
    BY <1>1, <1>2, <1>4, <1>5, <1>6 DEF Unread
  <2>2. w \o f \in Seq(Nat)
    BY <1>3, <1>4, ConcatProperties
  <2>3. (w \o f) \o <<>> = w \o f /\ w \o <<>> = w
    BY <1>4, <2>2, ConcatEmptySeq
  <2>4. c \o (w \o f) = (c \o w) \o f
    <3>1. Regroups(c, w, f)
      BY <1>3, Associative
    <3>2. QED
      BY <3>1 DEF Regroups
  <2>5. QED
    BY <2>1, <2>3, <2>4
<1>9. Stream'
  <2>1. Unread \in Seq(Nat) /\ made \in Seq(Messages) /\ got \in Seq(Messages)
    BY UnreadIs DEF IInv, Typed
  <2>2. IsStream(Unread, "net", made, got, FALSE)
    BY DEF IInv, Stream, Typed
  <2>3. IsStream(Unread \o f, "net", made, got, TRUE)
    BY <2>1, <2>2, StreamBroken
  <2>4. QED
    BY <1>8, <2>3 DEF Stream, received
<1>10. Typed'
  BY <1>1, <1>7 DEF IInv, Typed, received, send_buffer
<1>11. Disconnects'
  BY DEF Disconnects
<1>12. Waiting'
  BY WaitingKept DEF IInv
<1>13. QED
  BY <1>9, <1>10, <1>11, <1>12 DEF IInv

\* RecvDone.
LEMMA ArrivedStep ==
    ASSUME IInv, RecvDone
    PROVE  IInv' /\ UNCHANGED send_buffer /\ \E d \in Seq(Nat) : R!Receive(d)
<1> USE DEF RecvDone
<1>1. SendOK' /\ S!Contents' = S!Contents
  BY SendKept DEF IInv, Typed
<1>2. PICK n \in 1 .. Len(wire) : /\ R!Receive(SubSeq(wire, 1, n))
                                  /\ wire' = SubSeq(wire, n + 1, Len(wire))
  OBVIOUS
<1>3. PICK c \in Seq(Nat), w \in Seq(Nat), u \in Seq(Nat), l \in Nat :
           c = R!Contents /\ w = wire /\ u = Unsent /\ l = Len(w) /\ n \in 1 .. l
  BY UnreadIs, LenProperties DEF IInv, Typed
<1>4. PICK d \in Seq(Nat) : d = SubSeq(w, 1, n)
  <2>1. \A i \in 1 .. n : w[i] \in Nat
    <3>1. \A i \in 1 .. n : i \in 1 .. Len(w)
      BY <1>3
    <3>2. QED
      BY <3>1, ElementOfSeq
  <2>2. 1 \in Int /\ n \in Int
    OBVIOUS
  <2>3. SubSeq(w, 1, n) \in Seq(Nat)
    BY <2>1, <2>2, SubSeqProperties
  <2>4. QED
    BY <2>3
<1>5. PICK v \in Seq(Nat) : v = SubSeq(w, n + 1, l)
  <2>1. n \in 0 .. Len(w)
    BY <1>3
  <2>2. SubSeq(w, n + 1, Len(w)) \in Seq(Nat)
    BY <2>1, RestOfSeq
  <2>3. QED
    BY <1>3, <2>2
<1>6. d \o v = w
  <2>1. 1 \in 1 .. Len(w) + 1 /\ n \in 1 - 1 .. Len(w) /\ Len(w) \in n .. Len(w)
    BY <1>3
  <2>2. SubSeq(w, 1, n) \o SubSeq(w, n + 1, Len(w)) = SubSeq(w, 1, Len(w))
    BY <2>1, ConcatAdjacentSubSeq
  <2>3. QED
    BY <1>3, <1>4, <1>5, <2>2, SubSeqFull
<1>7. RecvOK' /\ R!Contents' = c \o d
  BY <1>2, <1>3, <1>4, RecvPut DEF IInv, Typed
<1>8. Unread' = Unread
  <2>1. Unread = c \o (w \o u)
    BY <1>3 DEF Unread, Unsent
  <2>2. Unread' = (c \o d) \o (v \o u)
    BY <1>1, <1>2, <1>3, <1>5, <1>7 DEF Unread, Unsent
  <2>3. (c \o d) \o (v \o u) = c \o ((d \o v) \o u)
    <3>1. MovesOn(c, d, v, u)
      BY MovedOn
    <3>2. QED
      BY <3>1 DEF MovesOn
  <2>4. QED
    BY <1>6, <2>1, <2>2, <2>3
<1>9. Stream'
  BY <1>8 DEF IInv, Stream, received
<1>10. Typed'
  BY <1>1, <1>2, <1>3, <1>5, <1>7 DEF IInv, Typed, received, send_buffer
<1>11. Disconnects'
  BY DEF IInv, Disconnects
<1>12. Waiting'
  BY DEF Waiting
<1>13. R!Receive(d)
  BY <1>2, <1>3, <1>4
<1>14. QED
  BY <1>9, <1>10, <1>11, <1>12, <1>13 DEF IInv

\* The steps of the worker that only look, or post.
LEMMA LookStep ==
    ASSUME IInv, UNCHANGED <<kind, made, broken, send_buffer, sending, wire, recv_buffer,
                             received>>,
           disconnect' \in BOOLEAN, Disconnects', Waiting'
    PROVE  IInv'
<1>1. /\ RecvOK' /\ R!Contents' = R!Contents
      /\ SendOK' /\ S!Contents' = S!Contents
  BY RecvKept, SendKept DEF IInv, Typed
<1>2. Unread' = Unread
  BY <1>1 DEF Unread
<1>3. Stream'
  BY <1>2 DEF IInv, Stream, received
<1>4. Typed'
  BY <1>1 DEF IInv, Typed, received, send_buffer
<1>5. QED
  BY <1>3, <1>4 DEF IInv

\* When there is no space left, the frame in front is longer than the buffer.
LEMMA NoSpace ==
    ASSUME IInv, pc = "posted", R!GetEmptySize = 0
    PROVE  HasHeader /\ HeaderLen + HeaderSize > R!GetBufferSize
<1>1. rfill \in 0 .. recvSize - 1 /\ recvSize \in Nat /\ recvSize > 4
  BY UnreadIs, RingSizes DEF IInv, R!RingConstants, NetHeaderSize
<1>2. rfill = recvSize - 1
  BY <1>1 DEF R!GetEmptySize
<1>3. HasHeader
  BY <1>1, <1>2, HeaderSizes DEF HasHeader, R!CanDequeue
<1>4. ~Complete
  BY <1>3 DEF IInv, Waiting
<1>5. PICK f \in Seq(Nat) : AtFront(f)
  BY <1>3, FrontFrame DEF IInv
<1>6. PICK h \in Nat : h = HeaderLen
  BY <1>5 DEF AtFront
<1>7. QED
  BY <1>1, <1>2, <1>3, <1>4, <1>6, HeaderSizes DEF Complete, R!GetFillSize, R!GetBufferSize

\* RecvNothing.
LEMMA NothingStep ==
    ASSUME IInv, RecvNothing
    PROVE  IInv'
<1> USE DEF RecvNothing
<1>1. HasHeader /\ HeaderLen + HeaderSize > R!GetBufferSize
  BY NoSpace
<1>2. recvSize \in Nat
  BY RingSizes DEF R!RingConstants
<1>3. PICK f \in Seq(Nat) : AtFront(f)
  BY <1>1, FrontFrame DEF IInv
<1>4. ASSUME NEW m \in Messages, OursFirst(f, m) PROVE FALSE
  <2>1. HeaderLen + HeaderSize <= recvSize - 1
    BY <1>4 DEF OursFirst
  <2>2. HeaderLen + HeaderSize \in Nat
    BY <1>3, HeaderSizes DEF AtFront
  <2>3. QED
    BY <1>1, <1>2, <2>1, <2>2 DEF R!GetBufferSize
<1>5. BadFirst(f)
  BY <1>3, <1>4, FrontIs DEF IInv
<1>6. Disconnects' /\ Waiting'
  BY <1>5 DEF BadFirst, Disconnects, Waiting
<1>7. QED
  BY <1>6, LookStep

\* FrameRefused.
LEMMA RefusedStep ==
    ASSUME IInv, FrameRefused
    PROVE  IInv'
<1> USE DEF FrameRefused
<1>1. PICK f \in Seq(Nat) : AtFront(f)
  BY FrontFrame DEF IInv
<1>2. BadFirst(f)
  BY <1>1, FrontIs DEF IInv, OursFirst
<1>3. Disconnects' /\ Waiting'
  BY <1>2 DEF BadFirst, Disconnects, Waiting
<1>4. QED
  BY <1>3, LookStep

\* FrameIncomplete.
LEMMA IncompleteStep ==
    ASSUME IInv, FrameIncomplete
    PROVE  IInv'
<1> USE DEF FrameIncomplete
<1>1. Waiting'
  BY SeenKept DEF Waiting
<1>2. Disconnects'
  BY DEF IInv, Disconnects
<1>3. QED
  BY <1>1, <1>2, LookStep DEF IInv, Typed

\* RecvPost.
LEMMA PostStep ==
    ASSUME IInv, RecvPost
    PROVE  IInv'
<1> USE DEF RecvPost
<1>1. Waiting'
  BY SeenKept DEF IInv, Waiting
<1>2. Disconnects'
  BY DEF IInv, Disconnects
<1>3. QED
  BY <1>1, <1>2, LookStep DEF IInv, Typed

\* The place of a complete frame in recv_buffer.
LEMMA SizeOfFrame ==
    ASSUME IInv, HasHeader, Complete, NEW f \in Seq(Nat), AtFront(f),
           HeaderLen + HeaderSize = Len(f)
    PROVE  /\ Len(f) \in 1 .. rfill /\ rfill \in 0 .. recvSize - 1 /\ recvSize \in Nat
           /\ R!Peek(Len(f)) = f
<1>1. rfill \in 0 .. recvSize - 1 /\ recvSize \in Nat
  BY UnreadIs, RingSizes DEF IInv, R!RingConstants
<1>2. HeaderLen \in Nat /\ HeaderSize \in {1, 4}
  BY HeaderSizes DEF AtFront
<1>3. HeaderLen + HeaderSize <= rfill
  BY DEF Complete, R!GetFillSize
<1>4. HeaderLen + HeaderSize \in 1 .. rfill
  BY <1>1, <1>2, <1>3
<1>5. Len(f) \in 1 .. rfill /\ Len(f) <= rfill
  BY <1>3, <1>4
<1>6. QED
  BY <1>1, <1>5 DEF AtFront

\* The two steps in which a frame leaves the buffer, with what is read of it.
LEMMA TakenStep ==
    ASSUME IInv, NEW f \in Seq(Nat), Len(f) \in 1 .. rfill, R!Dequeue(Len(f)), pc = "loop",
           UNCHANGED <<kind, made, broken, send_buffer, sending, wire, pc>>,
           IsStream(Behind(f), kind, made, got', broken), got' \in Seq(Messages),
           pooled' \in Packet, disconnect' \in BOOLEAN, Disconnects'
    PROVE  IInv'
<1>1. Typed
  BY DEF IInv
<1>2. /\ RecvOK' /\ SendOK'
      /\ Unread' = SubSeq(Unread, Len(f) + 1, Len(Unread))
  BY <1>1, FrontTaken
<1>3. Stream'
  BY <1>2 DEF Stream, Behind
<1>4. Typed'
  BY <1>1, <1>2 DEF Typed, send_buffer
<1>5. Waiting'
  BY DEF Waiting
<1>6. QED
  BY <1>3, <1>4, <1>5 DEF IInv

\* FrameNet.
LEMMA NetStep ==
    ASSUME IInv, FrameNet
    PROVE  IInv' /\ UNCHANGED send_buffer /\ \E n \in 1 .. recvSize : R!Dequeue(n)
<1> USE DEF FrameNet
<1>1. PICK f \in Seq(Nat) : AtFront(f)
  BY FrontFrame DEF IInv
<1>2. HeaderLen = f[2] /\ kind = "net"
  BY <1>1 DEF AtFront
<1>3. pooled \in Packet /\ got \in Seq(Messages) /\ disconnect \in BOOLEAN
  BY DEF IInv, Typed
<1>4. HeaderLen + HeaderSize = Len(f)
  <2>1. (\E m \in Messages : OursFirst(f, m)) \/ BadFirst(f)
    BY <1>1, FrontIs DEF IInv
  <2>2. QED
    BY <2>1 DEF OursFirst, BadFirst
<1>5. /\ Len(f) \in 1 .. rfill /\ rfill \in 0 .. recvSize - 1 /\ recvSize \in Nat
      /\ R!Peek(Len(f)) = f
  BY <1>1, <1>4, SizeOfFrame
<1>6. PICK q : q = Decode(NetPacket(pooled, f))
  OBVIOUS
<1>7. /\ R!Dequeue(Len(f))
      /\ q.ok => OnRecv(q.packet) /\ UNCHANGED disconnect
      /\ ~q.ok => disconnect' = TRUE /\ pooled' = q.packet /\ UNCHANGED got
  BY <1>2, <1>4, <1>5, <1>6 DEF NetPacket
<1>8. /\ IsStream(Behind(f), kind, made, got', broken) /\ got' \in Seq(Messages)
      /\ pooled' \in Packet /\ disconnect' \in BOOLEAN /\ Disconnects'
  <2>1. ASSUME NEW m \in Messages, OursFirst(f, m)
        PROVE  /\ IsStream(Behind(f), kind, made, got', broken) /\ got' \in Seq(Messages)
               /\ pooled' \in Packet /\ disconnect' \in BOOLEAN /\ Disconnects'
    <3>1. PICK r \in RandKeys : f = NetFrame(m, r)
      BY <1>2, <2>1 DEF OursFirst, Frames
    <3>2. /\ q.ok /\ Received(q.packet).values = m
          /\ Received(q.packet).packet \in Packet
      BY <1>3, <1>6, <3>1, NetFrameIsRead
    <3>3. got' = Append(got, m) /\ pooled' \in Packet /\ disconnect' = disconnect
      BY <1>7, <3>2 DEF OnRecv
    <3>4. got' \in Seq(Messages)
      BY <1>3, <3>3, AppendProperties
    <3>5. Disconnects'
      BY <3>3 DEF IInv, Disconnects
    <3>6. QED
      BY <1>3, <2>1, <3>3, <3>4, <3>5 DEF OursFirst
  <2>2. ASSUME BadFirst(f)
        PROVE  /\ IsStream(Behind(f), kind, made, got', broken) /\ got' \in Seq(Messages)
               /\ pooled' \in Packet /\ disconnect' \in BOOLEAN /\ Disconnects'
    <3>1. Refusable(f) /\ broken
      BY <2>2 DEF BadFirst
    <3>2. ~q.ok /\ q.packet \in Packet
      BY <1>3, <1>6, <3>1 DEF Refusable
    <3>3. got' = got /\ pooled' \in Packet /\ disconnect' = TRUE
      BY <1>7, <3>2
    <3>4. Disconnects'
      BY <3>1 DEF Disconnects
    <3>5. QED
      BY <1>3, <2>2, <3>3, <3>4 DEF BadFirst
  <2>3. QED
    BY <1>1, <2>1, <2>2, FrontIs DEF IInv
<1>9. IInv'
  BY <1>5, <1>7, <1>8, TakenStep
<1>10. Len(f) \in 1 .. recvSize
  BY <1>5
<1>11. QED
  BY <1>7, <1>9, <1>10

\* FrameLan.
LEMMA LanStep ==
    ASSUME IInv, FrameLan
    PROVE  IInv' /\ UNCHANGED send_buffer /\ \E n \in 1 .. recvSize : R!Dequeue(n)
<1> USE DEF FrameLan
<1>1. PICK f \in Seq(Nat) : AtFront(f)
  BY FrontFrame DEF IInv
<1>2. PICK m \in Messages : OursFirst(f, m)
  BY <1>1, FrontIs DEF IInv, BadFirst
<1>3. HeaderLen + HeaderSize = Len(f) /\ HeaderLen = f[1] /\ f = LanFrame(m)
  BY <1>2 DEF OursFirst, Frames
<1>4. pooled \in Packet /\ got \in Seq(Messages) /\ disconnect \in BOOLEAN
  BY DEF IInv, Typed
<1>5. /\ Len(f) \in 1 .. rfill /\ rfill \in 0 .. recvSize - 1 /\ recvSize \in Nat
      /\ R!Peek(Len(f)) = f
  BY <1>1, <1>3, SizeOfFrame
<1>6. PICK q : q = LanPacket(pooled, f)
  OBVIOUS
<1>7. R!Dequeue(Len(f)) /\ OnRecv(q) /\ disconnect' \in BOOLEAN
  BY <1>3, <1>5, <1>6, <1>4 DEF LanPacket
<1>8. Received(q).values = m /\ Received(q).packet \in Packet
  BY <1>3, <1>4, <1>6, LanFrameIsRead
<1>9. got' = Append(got, m) /\ pooled' \in Packet
  BY <1>7, <1>8 DEF OnRecv
<1>10. got' \in Seq(Messages)
  BY <1>4, <1>9, AppendProperties
<1>11. IsStream(Behind(f), kind, made, got', broken)
  BY <1>2, <1>9 DEF OursFirst
<1>12. Disconnects'
  BY DEF Disconnects
<1>13. IInv'
  BY <1>5, <1>7, <1>9, <1>10, <1>11, <1>12, TakenStep
<1>14. Len(f) \in 1 .. recvSize
  BY <1>5
<1>15. QED
  BY <1>7, <1>13, <1>14

\* What every step does, and what it calls the rings with.
Calls ==
  /\ \/ \E d \in Seq(Nat) : R!Enqueue(d) \/ R!Receive(d)
     \/ \E n \in 1 .. recvSize : R!Dequeue(n) \/ R!Transmit(n)
     \/ UNCHANGED recv_buffer
  /\ \/ \E d \in Seq(Nat) : S!Enqueue(d) \/ S!Receive(d)
     \/ \E n \in 1 .. sendSize : S!Dequeue(n) \/ S!Transmit(n)
     \/ UNCHANGED send_buffer

\* The invariant holds at first.
LEMMA InvInit ==
    ASSUME Init
    PROVE  IInv
<1> USE DEF Init
<1>1. RecvOK /\ R!Contents = <<>> /\ SendOK /\ S!Contents = <<>>
  BY RecvInit, SendInit
<1>2. <<>> \in Seq(Nat) /\ <<>> \in Seq(Messages) /\ <<>> \in Seq(Seq(Nat)) /\ Len(<<>>) = 0
  BY EmptySeq
<1>3. Unread = <<>>
  <2>1. Unread = <<>> \o (<<>> \o <<>>)
    BY <1>1 DEF Unread
  <2>2. <<>> \o <<>> = <<>>
    BY <1>2, ConcatEmptySeq
  <2>3. QED
    BY <2>1, <2>2
<1>4. Stream
  <2>1. Cut(<<>>, <<>>)
    BY CutNothing
  <2>2. Ours(<<>>, kind, <<>>, <<>>, FALSE)
    BY <1>2 DEF Ours
  <2>3. Prefix(<<>>, <<>>)
    BY <1>2 DEF Prefix
  <2>4. IsStream(<<>>, kind, <<>>, <<>>, FALSE)
    BY <1>2, <2>1, <2>2, <2>3 DEF IsStream
  <2>5. QED
    BY <1>3, <2>4 DEF Stream
<1>5. Typed
  BY <1>1, <1>2, AllocIsPacket DEF Typed
<1>6. Disconnects
  BY DEF Disconnects
<1>7. Waiting
  <2>1. rfill = 0
    BY <1>1, <1>2, RecvContents
  <2>2. ~HasHeader
    BY <2>1, HeaderSizes DEF HasHeader, R!CanDequeue
  <2>3. QED
    BY <2>2 DEF Waiting
<1>8. QED
  BY <1>4, <1>5, <1>6, <1>7 DEF IInv

\* Every step keeps the invariant, and calls the rings as Calls says.
LEMMA InvStep ==
    ASSUME IInv, [Next]_vars
    PROVE  IInv' /\ Calls
<1>1. CASE MakePacket
  BY <1>1, MadeStep DEF Calls, MakePacket
<1>2. CASE SendPost
  BY <1>2, PostedStep DEF Calls
<1>3. CASE SendDone
  BY <1>3, DoneStep DEF Calls
<1>4. CASE SendBadFrame
  BY <1>4, BrokenStep DEF Calls
<1>5. CASE RecvDone
  BY <1>5, ArrivedStep DEF Calls
<1>6. CASE RecvNothing
  BY <1>6, NothingStep DEF Calls, RecvNothing
<1>7. CASE FrameRefused
  BY <1>7, RefusedStep DEF Calls, FrameRefused
<1>8. CASE FrameIncomplete
  BY <1>8, IncompleteStep DEF Calls, FrameIncomplete
<1>9. CASE FrameNet
  BY <1>9, NetStep DEF Calls
<1>10. CASE FrameLan
  BY <1>10, LanStep DEF Calls
<1>11. CASE RecvPost
  BY <1>11, PostStep DEF Calls, RecvPost
<1>12. CASE UNCHANGED vars
  <2>1. UNCHANGED <<kind, made, broken, send_buffer, sending, wire, recv_buffer, pc, disconnect,
                    received>>
    BY <1>12 DEF vars
  <2>2. Disconnects' /\ Waiting' /\ disconnect' \in BOOLEAN
    BY <2>1, WaitingKept DEF IInv, Typed, Disconnects
  <2>3. IInv'
    BY <2>1, <2>2, LookStep
  <2>4. QED
    BY <2>1, <2>3 DEF Calls
<1>13. QED
  BY <1>1, <1>2, <1>3, <1>4, <1>5, <1>6, <1>7, <1>8, <1>9, <1>10, <1>11, <1>12
     DEF Next, Sender, Receiver

\* What is in the rings and with TCP are the frames of the messages made and not yet
\* received, whole and in their order.
THEOREM StreamCorrect == Spec => []IInv
<1>1. Init => IInv
  BY InvInit
<1>2. IInv /\ [Next]_vars => IInv'
  BY InvStep
<1>3. QED
  BY <1>1, <1>2, PTL DEF Spec

\* OnRecv reads the values that were written, packet by packet, in the order they were
\* made, for every cut of the stream, every key and every message of values.
THEOREM OrderKept == Spec => []InOrder
<1>1. ASSUME IInv PROVE InOrder
  <2>1. Prefix(got, made) /\ got \in Seq(Messages)
    BY <1>1 DEF IInv, Stream, IsStream, Typed
  <2>2. DOMAIN got = 1 .. Len(got)
    BY <2>1, LenProperties
  <2>3. QED
    BY <2>1, <2>2 DEF InOrder, Prefix
<1>2. QED
  BY <1>1, StreamCorrect, PTL

\* CNetServer ends a session for its frames only when a frame was not ours, and
\* dispatches nothing of such a frame.
THEOREM OnlyBadOnesEnd == Spec => []OnlyBadFramesDisconnect
<1>1. ASSUME IInv PROVE OnlyBadFramesDisconnect
  <2>1. Prefix(got, made) /\ Disconnects
    BY <1>1 DEF IInv, Stream, IsStream
  <2>2. QED
    BY <2>1 DEF OnlyBadFramesDisconnect, Prefix, Disconnects
<1>2. QED
  BY <1>1, StreamCorrect, PTL

\* A receive is posted without space only behind the header of a packet that cannot fit.
THEOREM SpaceWhenPosted == Spec => []RoomToReceive
<1>1. ASSUME IInv PROVE RoomToReceive
  BY <1>1, NoSpace DEF RoomToReceive
<1>2. QED
  BY <1>1, StreamCorrect, PTL

\* Both rings give the kernel areas that hold no unread byte.
THEOREM BothRingsFree == Spec => []RoomIsFree
<1>1. ASSUME IInv PROVE RoomIsFree
  BY <1>1, RecvRoom, SendRoom DEF IInv, Typed, RoomIsFree
<1>2. QED
  BY <1>1, StreamCorrect, PTL

\* No stream without bytes holds a message.
LEMMA NoBytesNoMessage ==
    ASSUME NEW k, NEW md \in Seq(Messages), NEW gt \in Seq(Messages),
           IsStream(<<>>, k, md, gt, FALSE)
    PROVE  gt = md
<1>1. PICK fs \in Seq(Seq(Nat)) : Cut(<<>>, fs) /\ Ours(fs, k, md, gt, FALSE)
  BY DEF IsStream
<1>2. PICK a \in Nat, b \in Nat : a = Len(md) /\ b = Len(gt) /\ b <= a
  BY LenProperties DEF IsStream, Prefix
<1>3. CASE b < a
  <2>1. Len(fs) \in Nat /\ Len(fs) \in a - b .. a - b + 1
    BY <1>1, <1>2, LenProperties DEF Ours
  <2>2. Len(fs) # 0 /\ 1 \in 1 .. a - b /\ b + 1 \in 1 .. a
    BY <1>2, <1>3, <2>1
  <2>3. <<>> \in Seq(Nat) /\ Len(<<>>) = 0
    BY EmptySeq
  <2>4. Len(fs[1]) \in 0 .. 0
    BY <1>1, <2>2, <2>3, CutFirst
  <2>5. fs[1] \in Frames(k, md[b + 1])
    BY <1>1, <1>2, <2>2 DEF Ours
  <2>6. md[b + 1] \in Messages
    BY <1>2, <2>2, ElementOfSeq
  <2>7. Len(fs[1]) >= 1
    BY <2>5, <2>6, FrameNotEmpty
  <2>8. QED
    BY <2>4, <2>7
<1>4. CASE ~(b < a)
  <2>1. Len(gt) = Len(md) /\ \A i \in 1 .. Len(gt) : gt[i] = md[i]
    BY <1>2, <1>4 DEF IsStream, Prefix
  <2>2. QED
    BY <2>1, SeqEqual
<1>5. QED
  BY <1>3, <1>4

\* When every byte has arrived and the worker waits, every packet was dispatched.
THEOREM AllReceived == Spec => []NothingLeftBehind
<1>1. ASSUME IInv, sending = 0, sfill = 0, wire = <<>>, pc = "posted", ~broken
      PROVE  got = made
  <2>1. made \in Seq(Messages) /\ got \in Seq(Messages) /\ broken = FALSE /\ Typed
    BY <1>1 DEF IInv, Typed
  <2>2. /\ R!Contents \in Seq(Nat) /\ Len(R!Contents) = rfill /\ rfill \in 0 .. recvSize - 1
    BY <2>1, UnreadIs
  <2>3. S!Contents = <<>>
    <3>1. S!Contents \in Seq(Nat) /\ Len(S!Contents) = 0
      BY <1>1, <2>1, SendContents DEF Typed
    <3>2. QED
      BY <3>1, EmptySeq
  <2>4. Unread = R!Contents
    <3>1. Unread = R!Contents \o (<<>> \o <<>>)
      BY <1>1, <2>3 DEF Unread
    <3>2. <<>> \in Seq(Nat)
      BY EmptySeq
    <3>3. <<>> \o <<>> = <<>>
      BY <3>2, ConcatEmptySeq
    <3>4. R!Contents \o <<>> = R!Contents
      BY <2>2, ConcatEmptySeq
    <3>5. QED
      BY <3>1, <3>3, <3>4
  <2>5. CASE rfill = 0
    <3>1. Unread = <<>>
      BY <2>2, <2>4, <2>5, EmptySeq
    <3>2. IsStream(<<>>, kind, made, got, FALSE)
      BY <1>1, <2>1, <3>1 DEF IInv, Stream
    <3>3. QED
      BY <2>1, <3>2, NoBytesNoMessage
  <2>6. CASE rfill # 0
    <3>1. rfill > 0 /\ rfill \in Nat
      BY <2>2, <2>6
    <3>2. PICK f \in Seq(Nat) : FirstOf(f, Unread, kind, made, got, broken)
      BY <1>1, <2>1, <3>1, SomeFrame DEF IInv
    <3>3. Len(f) \in 1 .. rfill
      BY <2>2, <2>4, <3>2 DEF FirstOf
    <3>4. HasHeader
      <4>1. HeaderSize <= Len(f)
        BY <2>1, <3>2, HeaderInFrame
      <4>2. HeaderSize \in 1 .. rfill
        BY <3>1, <3>3, <4>1, HeaderSizes
      <4>3. QED
        BY <3>1, <4>2 DEF HasHeader, R!CanDequeue
    <3>5. PICK m \in Messages : OursFirst(f, m)
      <4>1. AtFront(f)
        BY <2>1, <3>2, <3>4, FrontKnown
      <4>2. QED
        BY <1>1, <2>1, <4>1, FrontIs DEF BadFirst
    <3>6. ~LenRefused /\ Complete
      BY <3>1, <3>3, <3>5 DEF OursFirst, Complete, R!GetFillSize
    <3>7. QED
      BY <1>1, <3>4, <3>6 DEF IInv, Waiting
  <2>7. QED
    BY <2>5, <2>6
<1>2. QED
  BY <1>1, StreamCorrect, PTL DEF NothingLeftBehind

\* send_buffer and recv_buffer are queues of bytes in every use that is made of them.
THEOREM BothRingsQueue == Spec => ImplementsQueue
<1>1. Init => R!Queue!Init /\ S!Queue!Init
  BY RecvInit, SendInit DEF Init, R!Queue!Init, S!Queue!Init
<1>2. IInv /\ [Next]_vars => [R!Queue!Next]_(R!Contents) /\ [S!Queue!Next]_(S!Contents)
  BY InvStep, RecvQueue, SendQueue DEF IInv, Typed, Calls
<1>3. QED
  BY <1>1, <1>2, StreamCorrect, PTL DEF Spec, ImplementsQueue, R!ImplementsQueue,
     S!ImplementsQueue, R!Queue!Spec, S!Queue!Spec
=============================================================================
