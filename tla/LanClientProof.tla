---------------------------- MODULE LanClientProof ----------------------------
(***************************************************************************)
(* For any number of workers, connections and packets: every variable has  *)
(* its type, no crash is reached, the count is what will be given back,    *)
(* one operation of each kind is under way, and no packet is lost.         *)
(*                                                                         *)
(* One inductive invariant, IInv, holds it all together.  It needs to know *)
(* which functions may lie below which on a stack (Control), what the      *)
(* application thread does and when workers run (Phase), that a session is *)
(* released once (Stage) and then used by nobody (ClosedIdle), that there  *)
(* is one right to receive and one to send (OneReceive, OneSend), what     *)
(* m_sentPacket holds meanwhile (SentEmpty), and that a broken connection  *)
(* is noticed by a thread that holds a reference (Watched).  One lemma for *)
(* each action shows that it is kept.                                      *)
(***************************************************************************)
EXTENDS LanClient, FiniteSetTheorems, TLAPS

(***************************************************************************)
(* Everything the invariant counts is a number of entries: of functions in *)
(* the stacks, of packets in the port, of operations in the kernel.        *)
(***************************************************************************)
I(x, F)     == IF x \in F THEN 1 ELSE 0
In(F, s)    == Cardinality({i \in DOMAIN s : s[i] \in F})
Places(F, stacks) ==
    UNION {{t} \X {i \in DOMAIN stacks[t] : stacks[t][i] \in F} : t \in Threads}
Total(F, stacks) == Cardinality(Places(F, stacks))
Ops(o, ops) == Cardinality({x \in ops : x[1] = o})

Typed ==
    /\ m_isConnected \in BOOLEAN /\ m_isInit \in BOOLEAN /\ running \subseteq Workers
    /\ m_disconnect \in {0, 1} /\ m_ioCount \in Int
    /\ m_releaseFlag \in {0, 1} /\ m_sendFlag \in {0, 1}
    /\ m_sendQ \in Seq(Numbers) /\ Len(m_sendQ) <= MaxSendQ
    /\ m_sentPacket \in Seq(Numbers) /\ Len(m_sentPacket) <= MaxWsaBuf
    /\ m_sessionId \in 0 .. MaxConnects /\ id_generator \in 0 .. MaxConnects
    /\ m_serverSock \in 0 .. MaxConnects
    /\ posted \subseteq {"recv", "send"} \X Sockets
    /\ m_hcp \in Seq(Posts)
    /\ pc \in [Threads -> Seq(Functions)]
    /\ id \in 0 .. MaxConnects
    /\ accepted \in 0 .. MaxPackets /\ freed \in [Numbers -> Nat] /\ dropped \subseteq Numbers

\* The function f of a worker may have r to return to.
WorkerReturns(f, r) ==
    \/ r = <<>> /\ f \in {"update", "rel_cas", "rel_post"}
    \/ r = <<"update">> /\ f \in {"try_send", "try_size", "pend", "recv_check", "recv_post",
                                  "release", "clean", "cancel", "disconnect", "dc_cancel", "update"}
    \/ r = <<"pend", "update">> /\ f \in {"sp_check", "sp_xchg", "sp_size", "update"}
    \/ r = <<"recv_check", "update">> /\ f = "parse"
    \/ r = <<"try_send", "update">> /\ f = "sent"
    \/ r \in {<<"update", "update">>, <<"update", "pend", "update">>,
              <<"parse", "recv_check", "update">>} /\ f \in {"disconnect", "dc_cancel"}

\* The same for the application thread, in a call of Connect or in one of SendPacket
\* or Disconnect.
MainReturns(f, r) ==
    \/ r = <<>> /\ f \in {"connect", "wait", "connected", "send_id", "send_inc", "update",
                          "rel_cas", "rel_post"}
    \/ r = <<"wait">> /\ f = "exits"
    \/ r = <<"exits", "wait">> /\ f \in {"disconnect", "dc_cancel"}
    \/ r = <<"update">> /\ f \in {"send_test", "enqueue", "pend"}
    \/ r = <<"recv_check", "update", "connected">> /\ f \in {"send_id", "send_inc", "update"}
    \/ r = <<"update", "recv_check", "update", "connected">>
         /\ f \in {"send_test", "enqueue", "pend"}
    \/ r = <<"update", "connected">> /\ f \in {"recv_check", "recv_post", "update"}
    \/ r = <<"update", "update", "connected">> /\ f \in {"disconnect", "dc_cancel"}
    \/ r = <<"connected">> /\ f \in {"update", "rel_cas", "rel_post"}

Returns(t, f, r) == IF t = Main THEN MainReturns(f, r) ELSE WorkerReturns(f, r)
Proper(t, s)     == s # <<>> => Returns(t, Head(s), Tail(s))
Control          == \A t \in Threads : Proper(t, pc[t])

\* The calls of the application thread, and when there are workers.
Phase ==
    /\ ~m_isInit => id_generator = 0 /\ running = {} /\ pc[Main] = <<>>
    /\ running # {} => id_generator <= 1
    /\ running # {} /\ In({"connect", "connected", "wait"}, pc[Main]) = 0 => m_isConnected
    /\ running # {} /\ In({"connect"}, pc[Main]) > 0 => id_generator = 0
    /\ m_isConnected => id_generator > 0 \/ In({"wait"}, pc[Main]) > 0
    /\ \A w \in Workers : pc[w] # <<>> => w \in running
    /\ joined = 1 .. id_generator

\* Before the first connection.
Outside == {"connect", "exits", "wait"}
Fresh == id_generator = 0 =>
    /\ m_ioCount = 0 /\ m_releaseFlag = 0 /\ m_sendFlag = 0 /\ m_sendQ = <<>> /\ m_sentPacket = <<>>
    /\ posted = {} /\ In(Posts \ {"EXIT"}, m_hcp) = 0
    /\ Total(Functions \ Outside, pc) = 0
    /\ accepted = 0 /\ dropped = {} /\ \A p \in Numbers : freed[p] = 0
    /\ left = {} /\ m_disconnect = 1 /\ m_serverSock = 0

\* Connect posts a WSARecv on a socket of its own.
Receiving == {"recv_check", "recv_post"}
Joining == In(Receiving, pc[Main]) > 0 =>
    id_generator > 0 /\ m_serverSock = id_generator /\ <<"recv", id_generator>> \notin posted
Known == \A x \in posted : x[2] <= id_generator

\* After release, nobody uses the session.
Using     == {"enqueue", "pend", "try_send", "try_size", "sp_check", "sp_xchg", "sp_size",
              "recv_check", "recv_post", "parse", "sent"}
UsePosts  == {"RECV", "RECV0", "SEND", "SEND0", "SEND_PEND"}
ClosedIdle == id_generator = 1 /\ m_releaseFlag = 1 =>
    /\ m_disconnect = 1 /\ posted = {}
    /\ In(UsePosts, m_hcp) = 0 /\ Total(Using, pc) = 0

\* The first connection is released once.
Releasing == Total({"rel_post", "release"}, pc) + In({"RELEASE_PEND"}, m_hcp)
Cleaning  == Total({"clean"}, pc)
Stage == id_generator = 1 =>
    /\ Releasing + Cleaning <= 1
    /\ m_releaseFlag = 0 => Releasing + Cleaning = 0 /\ left = {}
    /\ left = {} \/ left = {1}
    /\ Releasing > 0 => left = {}
    /\ Cleaning > 0 => left = {1}
    /\ running # {} =>
         m_serverSock = 1 \/ (m_serverSock = 0 /\ Releasing + Cleaning = 0 /\ left = {1})

\* The rights to receive and to send, of which there is one each.
RecvTokens == Total(Receiving, pc) + In({"RECV"}, m_hcp) + Ops("recv", posted)
SendTokens == Total({"sp_size"}, pc) + Total({"try_send"}, pc)
                + In({"SEND"}, m_hcp) + In({"SEND_PEND"}, m_hcp) + Ops("send", posted)
OneReceive == id_generator = 1 => RecvTokens <= 1
OneSend    == id_generator = 1 => SendTokens <= 1 /\ (SendTokens = 1 => m_sendFlag = 1)

\* m_sentPacket is filled from WSASend until its completion was handled.
Sending == Ops("send", posted) + In({"SEND"}, m_hcp) + Total({"sent"}, pc)
SentEmpty == id_generator = 1 =>
    /\ m_sendFlag = 0 => m_sentPacket = <<>>
    /\ In({"SEND_PEND"}, m_hcp) > 0 => m_sentPacket = <<>>
    /\ Total({"try_send"}, pc) > Total({"sent"}, pc) => m_sentPacket = <<>>
    /\ Total({"sp_size"}, pc) > 0 => m_sentPacket = <<>>
    /\ Sending > 0 => m_sentPacket # <<>>

\* Somebody will notice that a connection broke, and holds a count until then.
Ending(t) == In({"disconnect"}, pc[t]) > 0 /\ In({"update"}, pc[t]) > 0
Watched == id_generator = 1 /\ m_disconnect = 0 =>
    RecvTokens + In({"RECV0"}, m_hcp) > 0 \/ \E t \in Threads : Ending(t)

\* Where the accepted packets are.
Back    == {p \in Numbers : freed[p] = 1}
Cleaned == id_generator = 1 /\ left = {1} /\ Cleaning = 0
PacketsApart ==
    /\ \A p \in Numbers : freed[p] <= 1
    /\ \A i, j \in 1 .. Len(m_sendQ) : m_sendQ[i] = m_sendQ[j] => i = j
    /\ \A i, j \in 1 .. Len(m_sentPacket) : m_sentPacket[i] = m_sentPacket[j] => i = j
    /\ ToSet(m_sendQ) \cup ToSet(m_sentPacket) \cup Back \cup dropped = 1 .. accepted
    /\ ToSet(m_sendQ) \cap (ToSet(m_sentPacket) \cup Back \cup dropped) = {}
    /\ dropped \cap (ToSet(m_sentPacket) \cup Back) = {}
    /\ id_generator <= 1 => dropped = {}
    /\ id_generator > 1 => m_sentPacket = <<>> /\ left \subseteq {1}
    /\ ToSet(m_sentPacket) \cap Back = {} \/ Cleaned
    /\ Cleaned => Back = 1 .. accepted /\ m_sendQ = <<>>

Counted == m_ioCount = Total({"update"}, pc) + Len(m_hcp) - In({"EXIT"}, m_hcp)
                         + Cardinality(posted)

IInv == /\ Typed /\ Control /\ Phase /\ Fresh /\ Joining /\ Known /\ ClosedIdle /\ Stage
        /\ OneReceive /\ OneSend /\ SentEmpty /\ Watched /\ PacketsApart /\ Counted
-----------------------------------------------------------------------------
(* Counting *)

\* A number of entries is a natural number.
LEMMA InNat ==
    ASSUME NEW S, NEW s \in Seq(S), NEW F
    PROVE  /\ IsFiniteSet({i \in DOMAIN s : s[i] \in F}) /\ In(F, s) \in Nat
           /\ In(F, s) > 0 <=> \E i \in DOMAIN s : s[i] \in F
<1>1. DOMAIN s = 1 .. Len(s) /\ Len(s) \in Nat
  OBVIOUS
<1>2. IsFiniteSet(1 .. Len(s))
  BY <1>1, FS_Interval
<1>3. IsFiniteSet({i \in DOMAIN s : s[i] \in F})
  BY <1>1, <1>2, FS_Subset
<1>4. Cardinality({i \in DOMAIN s : s[i] \in F}) \in Nat
  BY <1>3, FS_CardinalityType
<1>5. Cardinality({i \in DOMAIN s : s[i] \in F}) = 0 <=> {i \in DOMAIN s : s[i] \in F} = {}
  BY <1>3, FS_EmptySet
<1>6. QED
  BY <1>3, <1>4, <1>5 DEF In

\* The empty sequence has no entries.
LEMMA InNone == ASSUME NEW F PROVE In(F, <<>>) = 0
<1>1. {i \in DOMAIN <<>> : <<>>[i] \in F} = {}
  OBVIOUS
<1>2. QED
  BY <1>1, FS_EmptySet DEF In

\* A sequence of one.
LEMMA InOne == ASSUME NEW F, NEW x PROVE In(F, <<x>>) = I(x, F)
<1>1. CASE x \in F
  <2>1. {i \in DOMAIN <<x>> : <<x>>[i] \in F} = {1}
    BY <1>1
  <2>2. QED
    BY <1>1, <2>1, FS_Singleton DEF In, I
<1>2. CASE x \notin F
  <2>1. {i \in DOMAIN <<x>> : <<x>>[i] \in F} = {}
    BY <1>2
  <2>2. QED
    BY <1>2, <2>1, FS_EmptySet DEF In, I
<1>3. QED
  BY <1>1, <1>2

\* What two sequences hold together.
LEMMA InJoin ==
    ASSUME NEW S, NEW r \in Seq(S), NEW s \in Seq(S), NEW F
    PROVE  In(F, r \o s) = In(F, r) + In(F, s)
<1> DEFINE A == {i \in DOMAIN r : r[i] \in F}
           B == {i \in DOMAIN s : s[i] \in F}
           C == {i \in DOMAIN (r \o s) : i > Len(r) /\ (r \o s)[i] \in F}
           f == [i \in B |-> Len(r) + i]
<1>1. /\ DOMAIN r = 1 .. Len(r) /\ DOMAIN s = 1 .. Len(s) /\ Len(r) \in Nat /\ Len(s) \in Nat
      /\ r \o s \in Seq(S) /\ DOMAIN (r \o s) = 1 .. Len(r) + Len(s)
      /\ \A i \in 1 .. Len(r) : (r \o s)[i] = r[i]
      /\ \A i \in 1 .. Len(r) + Len(s) : i > Len(r) => (r \o s)[i] = s[i - Len(r)]
  OBVIOUS
<1>2. {i \in DOMAIN (r \o s) : (r \o s)[i] \in F} = A \cup C
  BY <1>1
<1>3. A \cap C = {}
  BY <1>1
<1>4. f \in Bijection(B, C)
  <2>1. f \in [B -> C]
    <3>1. ASSUME NEW i \in B PROVE Len(r) + i \in C
      <4>1. i \in 1 .. Len(s) /\ s[i] \in F
        BY <1>1
      <4>2. Len(r) + i \in 1 .. Len(r) + Len(s) /\ Len(r) + i > Len(r) /\ (Len(r) + i) - Len(r) = i
        BY <1>1, <4>1
      <4>3. QED
        BY <1>1, <4>1, <4>2
    <3>2. QED
      BY <3>1
  <2>2. \A i, j \in B : f[i] = f[j] => i = j
    BY <1>1
  <2>3. \A k \in C : \E i \in B : f[i] = k
    <3>1. ASSUME NEW k \in C PROVE k - Len(r) \in B /\ Len(r) + (k - Len(r)) = k
      <4>1. k \in 1 .. Len(r) + Len(s) /\ k > Len(r) /\ (r \o s)[k] \in F
        BY <1>1
      <4>2. k - Len(r) \in 1 .. Len(s) /\ s[k - Len(r)] \in F /\ Len(r) + (k - Len(r)) = k
        BY <1>1, <4>1
      <4>3. QED
        BY <1>1, <4>2
    <3>2. QED
      BY <3>1
  <2> HIDE DEF f, B, C
  <2>4. QED
    BY <2>1, <2>2, <2>3 DEF Bijection, Injection, Surjection, IsInjective
<1>5. IsFiniteSet(A) /\ IsFiniteSet(B)
  BY InNat
<1> HIDE DEF A, B, C, f
<1>6. IsFiniteSet(C) /\ Cardinality(C) = Cardinality(B)
  BY <1>4, <1>5, FS_Bijection DEF ExistsBijection
<1>7. Cardinality(A \cap C) = 0
  BY <1>3, FS_EmptySet
<1>8. Cardinality(A \cup C) = Cardinality(A) + Cardinality(C) - Cardinality(A \cap C)
  BY <1>5, <1>6, FS_Union
<1>9. Cardinality(A) \in Nat /\ Cardinality(B) \in Nat
  BY <1>5, FS_CardinalityType
<1>10. In(F, r) = Cardinality(A) /\ In(F, s) = Cardinality(B)
       /\ In(F, r \o s) = Cardinality(A \cup C)
  BY <1>2 DEF In, A, B
<1>11. QED
  BY <1>6, <1>7, <1>8, <1>9, <1>10

\* The first entry, and the others.
LEMMA InTop ==
    ASSUME NEW S, NEW s \in Seq(S), s # <<>>, NEW F
    PROVE  In(F, s) = I(Head(s), F) + In(F, Tail(s))
<1>1. <<Head(s)>> \in Seq(S) /\ Tail(s) \in Seq(S) /\ s = <<Head(s)>> \o Tail(s)
  OBVIOUS
<1>2. In(F, s) = In(F, <<Head(s)>>) + In(F, Tail(s))
  BY <1>1, InJoin
<1>3. QED
  BY <1>2, InOne

\* One entry more at the end.
LEMMA InAppend ==
    ASSUME NEW S, NEW s \in Seq(S), NEW x \in S, NEW F
    PROVE  In(F, Append(s, x)) = In(F, s) + I(x, F)
<1>1. <<x>> \in Seq(S) /\ Append(s, x) = s \o <<x>>
  OBVIOUS
<1>2. In(F, Append(s, x)) = In(F, s) + In(F, <<x>>)
  BY <1>1, InJoin
<1>3. QED
  BY <1>2, InOne

\* Sequences of two to four.
LEMMA InTwo == ASSUME NEW F, NEW x, NEW y PROVE In(F, <<x, y>>) = I(x, F) + I(y, F)
<1>1. <<x, y>> \in Seq({x, y}) /\ <<x, y>> # <<>> /\ Head(<<x, y>>) = x /\ Tail(<<x, y>>) = <<y>>
  OBVIOUS
<1>2. In(F, <<x, y>>) = I(x, F) + In(F, <<y>>)
  BY <1>1, InTop
<1>3. QED
  BY <1>2, InOne

\* Three entries.
LEMMA InThree ==
    ASSUME NEW F, NEW x, NEW y, NEW z PROVE In(F, <<x, y, z>>) = I(x, F) + I(y, F) + I(z, F)
<1>1. /\ <<x, y, z>> \in Seq({x, y, z}) /\ <<x, y, z>> # <<>>
      /\ Head(<<x, y, z>>) = x /\ Tail(<<x, y, z>>) = <<y, z>>
  OBVIOUS
<1>2. In(F, <<x, y, z>>) = I(x, F) + In(F, <<y, z>>)
  BY <1>1, InTop
<1>3. QED
  BY <1>2, InTwo DEF I

\* Four entries.
LEMMA InFour ==
    ASSUME NEW F, NEW w, NEW x, NEW y, NEW z
    PROVE  In(F, <<w, x, y, z>>) = I(w, F) + I(x, F) + I(y, F) + I(z, F)
<1>1. /\ <<w, x, y, z>> \in Seq({w, x, y, z}) /\ <<w, x, y, z>> # <<>>
      /\ Head(<<w, x, y, z>>) = w /\ Tail(<<w, x, y, z>>) = <<x, y, z>>
  OBVIOUS
<1>2. In(F, <<w, x, y, z>>) = I(w, F) + In(F, <<x, y, z>>)
  BY <1>1, InTop
<1>3. QED
  BY <1>2, InThree DEF I

\* What a thread adds to the whole.
LEMMA TotalSplit ==
    ASSUME NEW S, NEW stacks \in [Threads -> Seq(S)], NEW t \in Threads, NEW F
    PROVE  /\ IsFiniteSet(Places(F, stacks)) /\ Total(F, stacks) \in Nat
           /\ Total(F, stacks)
                = In(F, stacks[t]) + Cardinality({x \in Places(F, stacks) : x[1] # t})
           /\ Cardinality({x \in Places(F, stacks) : x[1] # t}) \in Nat
<1> DEFINE Of(u) == {i \in DOMAIN stacks[u] : stacks[u][i] \in F}
           Mine == {t} \X Of(t)
           Rest == {x \in Places(F, stacks) : x[1] # t}
<1>1. \A u \in Threads : IsFiniteSet(Of(u))
  <2>1. ASSUME NEW u \in Threads PROVE IsFiniteSet(Of(u))
    <3>1. stacks[u] \in Seq(S)
      OBVIOUS
    <3>2. QED
      BY <3>1, InNat
  <2>2. QED
    BY <2>1
<1>2. IsFiniteSet(Mine) /\ Cardinality(Mine) = In(F, stacks[t])
  <2>1. IsFiniteSet({t}) /\ Cardinality({t}) = 1
    BY FS_Singleton
  <2>2. IsFiniteSet(Of(t)) /\ Cardinality(Of(t)) \in Nat
    BY <1>1, FS_CardinalityType
  <2>3. IsFiniteSet({t} \X Of(t)) /\ Cardinality({t} \X Of(t)) = Cardinality({t}) * Cardinality(Of(t))
    <3> HIDE DEF Of
    <3>1. QED
      BY <2>1, <2>2, FS_Product
  <2>4. QED
    BY <2>1, <2>2, <2>3 DEF In
<1>3. IsFiniteSet(Places(F, stacks))
  <2> DEFINE all == {{u} \X Of(u) : u \in Threads}
  <2>1. IsFiniteSet(Threads)
    BY LanThreads, FS_AddElement DEF Threads
  <2>2. IsFiniteSet(all)
    <3> DEFINE g == [u \in Threads |-> {u} \X Of(u)]
    <3> HIDE DEF Of
    <3>1. g \in Surjection(Threads, all)
      BY DEF Surjection
    <3> HIDE DEF g, all
    <3>2. QED
      BY <2>1, <3>1, FS_Surjection
  <2>3. ASSUME NEW T \in all PROVE IsFiniteSet(T)
    <3>1. PICK u \in Threads : T = {u} \X Of(u)
      OBVIOUS
    <3>2. IsFiniteSet({u}) /\ IsFiniteSet(Of(u))
      BY <1>1, FS_Singleton
    <3> HIDE DEF Of
    <3>3. QED
      BY <3>1, <3>2, FS_Product
  <2>4. Places(F, stacks) = UNION all
    BY DEF Places
  <2> HIDE DEF all
  <2>5. QED
    BY <2>2, <2>3, <2>4, FS_UNION
<1>4. Places(F, stacks) = Mine \cup Rest /\ Mine \cap Rest = {}
  <2>1. \A x \in Mine : x \in Places(F, stacks) /\ x[1] = t
    BY DEF Places
  <2>2. \A x \in Places(F, stacks) : x[1] = t => x \in Mine
    BY DEF Places
  <2>3. QED
    BY <2>1, <2>2
<1>5. IsFiniteSet(Rest) /\ Cardinality(Rest) \in Nat
  BY <1>3, FS_Subset, FS_CardinalityType
<1> HIDE DEF Mine, Rest, Of
<1>6. Cardinality(Mine \cap Rest) = 0
  BY <1>4, FS_EmptySet
<1>7. Cardinality(Mine \cup Rest) = Cardinality(Mine) + Cardinality(Rest) - Cardinality(Mine \cap Rest)
  BY <1>2, <1>5, FS_Union
<1>8. Cardinality(Mine) \in Nat
  BY <1>2, FS_CardinalityType
<1>9. Total(F, stacks) = Cardinality(Mine) + Cardinality(Rest)
  BY <1>4, <1>5, <1>6, <1>7, <1>8 DEF Total
<1>10. QED
  BY <1>2, <1>3, <1>5, <1>8, <1>9 DEF Rest

\* A step of thread t.
LEMMA TotalStep ==
    ASSUME NEW S, NEW stacks \in [Threads -> Seq(S)], NEW after \in [Threads -> Seq(S)],
           NEW t \in Threads, \A u \in Threads : u # t => after[u] = stacks[u], NEW F
    PROVE  /\ Total(F, after) = Total(F, stacks) - In(F, stacks[t]) + In(F, after[t])
           /\ Total(F, after) \in Nat /\ Total(F, stacks) \in Nat
           /\ In(F, stacks[t]) <= Total(F, stacks)
<1> DEFINE rest == {x \in Places(F, stacks) : x[1] # t}
<1>1. {x \in Places(F, after) : x[1] # t} = rest
  BY DEF Places
<1>2. /\ Total(F, stacks) = In(F, stacks[t]) + Cardinality(rest)
      /\ Total(F, stacks) \in Nat /\ Cardinality(rest) \in Nat
  BY TotalSplit
<1>3. Total(F, after) = In(F, after[t]) + Cardinality(rest) /\ Total(F, after) \in Nat
  <2>1. /\ Total(F, after) = In(F, after[t]) + Cardinality({x \in Places(F, after) : x[1] # t})
        /\ Total(F, after) \in Nat
    BY TotalSplit
  <2> HIDE DEF rest
  <2>2. QED
    BY <1>1, <2>1
<1>4. In(F, stacks[t]) \in Nat /\ In(F, after[t]) \in Nat
  <2>1. stacks[t] \in Seq(S) /\ after[t] \in Seq(S)
    OBVIOUS
  <2>2. QED
    BY <2>1, InNat
<1> HIDE DEF rest
<1>5. ASSUME NEW a \in Nat, NEW b \in Nat, NEW c \in Nat, NEW p \in Nat, NEW q \in Nat,
             p = a + c, q = b + c
      PROVE  q = p - a + b /\ a <= p
  BY <1>5
<1>6. QED
  BY <1>2, <1>3, <1>4, <1>5

\* What is counted is somewhere.
LEMMA TotalPlace ==
    ASSUME NEW S, NEW stacks \in [Threads -> Seq(S)], NEW F
    PROVE  Total(F, stacks) > 0 <=> \E t \in Threads : In(F, stacks[t]) > 0
<1>1. IsFiniteSet(Places(F, stacks)) /\ Total(F, stacks) \in Nat
  <2>1. Main \in Threads
    BY DEF Threads
  <2>2. QED
    BY <2>1, TotalSplit
<1>2. Total(F, stacks) = 0 <=> Places(F, stacks) = {}
  BY <1>1, FS_EmptySet DEF Total
<1>3. ASSUME NEW t \in Threads
      PROVE  In(F, stacks[t]) > 0 <=> \E i \in DOMAIN stacks[t] : stacks[t][i] \in F
  <2>1. stacks[t] \in Seq(S)
    OBVIOUS
  <2>2. QED
    BY <2>1, InNat
<1>4. ASSUME NEW t \in Threads, NEW i \in DOMAIN stacks[t], stacks[t][i] \in F
      PROVE  Places(F, stacks) # {}
  <2>1. <<t, i>> \in Places(F, stacks)
    BY <1>4 DEF Places
  <2>2. QED
    BY <2>1
<1>5. ASSUME NEW x \in Places(F, stacks)
      PROVE  \E t \in Threads : \E i \in DOMAIN stacks[t] : stacks[t][i] \in F
  BY DEF Places
<1>6. QED
  BY <1>1, <1>2, <1>3, <1>4, <1>5

\* A larger set of functions.
LEMMA TotalMore ==
    ASSUME NEW S, NEW stacks \in [Threads -> Seq(S)], NEW F, NEW G, F \subseteq G
    PROVE  /\ Total(F, stacks) \in Nat /\ Total(G, stacks) \in Nat
           /\ Total(F, stacks) <= Total(G, stacks)
<1>1. Main \in Threads
  BY DEF Threads
<1>2. IsFiniteSet(Places(G, stacks)) /\ Total(F, stacks) \in Nat /\ Total(G, stacks) \in Nat
  BY <1>1, TotalSplit
<1>3. Places(F, stacks) \in SUBSET Places(G, stacks)
  BY DEF Places
<1>4. QED
  BY <1>2, <1>3, FS_Subset DEF Total

\* Two threads have no more than all of them.
LEMMA TotalTwo ==
    ASSUME NEW S, NEW stacks \in [Threads -> Seq(S)], NEW F,
           NEW t \in Threads, NEW u \in Threads, t # u
    PROVE  In(F, stacks[t]) + In(F, stacks[u]) <= Total(F, stacks)
<1> DEFINE Rest == {x \in Places(F, stacks) : x[1] # t}
           Theirs == {u} \X {i \in DOMAIN stacks[u] : stacks[u][i] \in F}
<1>1. /\ IsFiniteSet(Places(F, stacks)) /\ Total(F, stacks) = In(F, stacks[t]) + Cardinality(Rest)
      /\ Cardinality(Rest) \in Nat
  BY TotalSplit
<1>2. In(F, stacks[t]) \in Nat /\ In(F, stacks[u]) \in Nat
      /\ IsFiniteSet({i \in DOMAIN stacks[u] : stacks[u][i] \in F})
  <2>1. stacks[t] \in Seq(S) /\ stacks[u] \in Seq(S)
    OBVIOUS
  <2>2. QED
    BY <2>1, InNat
<1>3. Cardinality(Theirs) = In(F, stacks[u])
  <2> DEFINE Of == {i \in DOMAIN stacks[u] : stacks[u][i] \in F}
  <2>1. IsFiniteSet({u}) /\ Cardinality({u}) = 1
    BY FS_Singleton
  <2>2. IsFiniteSet(Of) /\ Cardinality(Of) = In(F, stacks[u])
    BY <1>2 DEF In
  <2> HIDE DEF Of
  <2>3. Cardinality({u} \X Of) = Cardinality({u}) * Cardinality(Of)
    BY <2>1, <2>2, FS_Product
  <2>4. Cardinality({u} \X Of) = In(F, stacks[u])
    BY <1>2, <2>1, <2>2, <2>3
  <2>5. QED
    BY <2>4 DEF Of
<1>4. Theirs \in SUBSET Rest
  BY DEF Places
<1>5. IsFiniteSet(Rest)
  BY <1>1, FS_Subset
<1> HIDE DEF Rest, Theirs
<1>6. Cardinality(Theirs) <= Cardinality(Rest)
  BY <1>4, <1>5, FS_Subset
<1>7. QED
  BY <1>1, <1>2, <1>3, <1>6

\* Two kinds of packets fill the port at most once.
LEMMA InLen ==
    ASSUME NEW S, NEW s \in Seq(S), NEW F, NEW G, F \cap G = {}
    PROVE  /\ In(F, s) + In(G, s) <= Len(s) /\ Len(s) \in Nat
           /\ S \subseteq F \cup G => In(F, s) + In(G, s) = Len(s)
<1> DEFINE A == {i \in DOMAIN s : s[i] \in F}
           B == {i \in DOMAIN s : s[i] \in G}
<1>1. DOMAIN s = 1 .. Len(s) /\ Len(s) \in Nat /\ \A i \in 1 .. Len(s) : s[i] \in S
  OBVIOUS
<1>2. IsFiniteSet(DOMAIN s) /\ Cardinality(DOMAIN s) = Len(s)
  <2>1. IsFiniteSet(1 .. Len(s))
        /\ Cardinality(1 .. Len(s)) = IF 1 > Len(s) THEN 0 ELSE Len(s) - 1 + 1
    BY <1>1, FS_Interval
  <2>2. (IF 1 > Len(s) THEN 0 ELSE Len(s) - 1 + 1) = Len(s)
    BY <1>1
  <2>3. QED
    BY <1>1, <2>1, <2>2
<1>3. IsFiniteSet(A) /\ IsFiniteSet(B) /\ In(F, s) = Cardinality(A) /\ In(G, s) = Cardinality(B)
      /\ In(F, s) \in Nat /\ In(G, s) \in Nat
  BY InNat DEF In
<1>4. A \cap B = {} /\ A \cup B \in SUBSET DOMAIN s /\ (S \subseteq F \cup G => A \cup B = DOMAIN s)
  BY <1>1
<1> HIDE DEF A, B
<1>5. Cardinality(A \cap B) = 0
  BY <1>4, FS_EmptySet
<1>6. Cardinality(A \cup B) = Cardinality(A) + Cardinality(B) - Cardinality(A \cap B)
  BY <1>3, FS_Union
<1>7. Cardinality(A \cup B) <= Cardinality(DOMAIN s)
  BY <1>2, <1>4, FS_Subset
<1>8. In(F, s) + In(G, s) = Cardinality(A \cup B)
  <2>1. Cardinality(A) \in Nat /\ Cardinality(B) \in Nat
    BY <1>3
  <2>2. QED
    BY <1>3, <1>5, <1>6, <2>1
<1>9. S \subseteq F \cup G => Cardinality(A \cup B) = Len(s)
  BY <1>2, <1>4
<1>10. QED
  BY <1>1, <1>2, <1>7, <1>8, <1>9

\* Fewer kinds, fewer packets.
LEMMA InMore ==
    ASSUME NEW S, NEW s \in Seq(S), NEW F, NEW G, F \subseteq G
    PROVE  In(F, s) \in Nat /\ In(G, s) \in Nat /\ In(F, s) <= In(G, s)
<1>1. {i \in DOMAIN s : s[i] \in F} \in SUBSET {i \in DOMAIN s : s[i] \in G}
  OBVIOUS
<1>2. IsFiniteSet({i \in DOMAIN s : s[i] \in G}) /\ In(F, s) \in Nat /\ In(G, s) \in Nat
  BY InNat
<1>3. QED
  BY <1>1, <1>2, FS_Subset DEF In

\* No entry of another set.
LEMMA InOutside ==
    ASSUME NEW S, NEW s \in Seq(S), NEW F, F \cap S = {}
    PROVE  In(F, s) = 0
<1>1. In(F, s) \in Nat /\ (In(F, s) > 0 <=> \E i \in DOMAIN s : s[i] \in F)
  BY InNat
<1>2. \A i \in DOMAIN s : s[i] \in S
  OBVIOUS
<1>3. QED
  BY <1>1, <1>2

\* The operations the kernel holds.
Held == {"recv", "send"} \X Sockets

\* Of the operations the kernel holds there is a finite number.
LEMMA OpsNat ==
    ASSUME NEW ops, ops \subseteq Held, NEW o
    PROVE  /\ IsFiniteSet(ops) /\ Cardinality(ops) \in Nat /\ Ops(o, ops) \in Nat
           /\ IsFiniteSet({x \in ops : x[1] = o})
           /\ Ops(o, ops) > 0 <=> \E x \in ops : x[1] = o
           /\ Cardinality(ops) = 0 <=> ops = {}
<1>1. IsFiniteSet(Held)
  <2>1. IsFiniteSet(Sockets)
    BY LanBounds, FS_Interval DEF Sockets
  <2>2. IsFiniteSet({"recv"} \cup {"send"})
    BY FS_Singleton, FS_Union
  <2>3. {"recv", "send"} = {"recv"} \cup {"send"}
    OBVIOUS
  <2>4. IsFiniteSet({"recv", "send"})
    BY <2>2, <2>3
  <2>5. QED
    BY <2>1, <2>4, FS_Product DEF Held
<1>2. IsFiniteSet(ops)
  BY <1>1, FS_Subset
<1>3. IsFiniteSet({x \in ops : x[1] = o})
  BY <1>2, FS_Subset
<1>4. Cardinality({x \in ops : x[1] = o}) = 0 <=> {x \in ops : x[1] = o} = {}
  BY <1>3, FS_EmptySet
<1>5. Cardinality({x \in ops : x[1] = o}) \in Nat /\ Cardinality(ops) \in Nat
  BY <1>2, <1>3, FS_CardinalityType
<1>6. Cardinality(ops) = 0 <=> ops = {}
  BY <1>2, FS_EmptySet
<1>7. QED
  BY <1>2, <1>3, <1>4, <1>5, <1>6 DEF Ops

\* One operation more.
LEMMA OpsAdd ==
    ASSUME NEW ops, ops \subseteq Held, NEW x \in Held, x \notin ops, NEW o
    PROVE  /\ Ops(o, ops \cup {x}) = Ops(o, ops) + IF x[1] = o THEN 1 ELSE 0
           /\ Cardinality(ops \cup {x}) = Cardinality(ops) + 1
<1> DEFINE A == {y \in ops : y[1] = o}
<1>1. IsFiniteSet(ops) /\ IsFiniteSet(A) /\ Cardinality(A) \in Nat
  BY OpsNat DEF Ops
<1>2. Cardinality(ops \cup {x}) = Cardinality(ops) + 1
  BY <1>1, FS_AddElement
<1>3. CASE x[1] = o
  <2>1. {y \in ops \cup {x} : y[1] = o} = A \cup {x} /\ x \notin A
    BY <1>3
  <2> HIDE DEF A
  <2>2. Cardinality(A \cup {x}) = Cardinality(A) + 1
    BY <1>1, <2>1, FS_AddElement
  <2>3. QED
    BY <1>2, <1>3, <2>1, <2>2 DEF Ops, A
<1>4. CASE x[1] # o
  <2>1. {y \in ops \cup {x} : y[1] = o} = A
    BY <1>4
  <2>2. Ops(o, ops) = Cardinality(A)
    BY DEF Ops
  <2> HIDE DEF A
  <2>3. Ops(o, ops \cup {x}) = Cardinality(A)
    BY <2>1 DEF Ops
  <2>4. QED
    BY <1>1, <1>2, <1>4, <2>2, <2>3
<1>5. QED
  BY <1>3, <1>4

\* One operation less.
LEMMA OpsLess ==
    ASSUME NEW ops, ops \subseteq Held, NEW x \in ops, NEW o
    PROVE  /\ Ops(o, ops \ {x}) = Ops(o, ops) - IF x[1] = o THEN 1 ELSE 0
           /\ Cardinality(ops \ {x}) = Cardinality(ops) - 1
<1> DEFINE A == {y \in ops : y[1] = o}
<1>1. IsFiniteSet(ops) /\ IsFiniteSet(A) /\ Cardinality(A) \in Nat
  BY OpsNat DEF Ops
<1>2. Cardinality(ops \ {x}) = Cardinality(ops) - 1
  BY <1>1, FS_RemoveElement
<1>3. CASE x[1] = o
  <2>1. {y \in ops \ {x} : y[1] = o} = A \ {x} /\ x \in A
    BY <1>3
  <2> HIDE DEF A
  <2>2. Cardinality(A \ {x}) = Cardinality(A) - 1
    BY <1>1, <2>1, FS_RemoveElement
  <2>3. QED
    BY <1>2, <1>3, <2>1, <2>2 DEF Ops, A
<1>4. CASE x[1] # o
  <2>1. {y \in ops \ {x} : y[1] = o} = A
    BY <1>4
  <2>2. Ops(o, ops) = Cardinality(A)
    BY DEF Ops
  <2> HIDE DEF A
  <2>3. Ops(o, ops \ {x}) = Cardinality(A)
    BY <2>1 DEF Ops
  <2>4. QED
    BY <1>1, <1>2, <1>4, <2>2, <2>3
<1>5. QED
  BY <1>3, <1>4

\* CancelIoEx on a socket: a completion with 0 bytes for each operation that is mine.
LEMMA CancelledOnce ==
    ASSUME NEW ops, ops \subseteq Held, NEW mine, NEW rest, mine \cup rest = ops,
           mine \cap rest = {}, NEW c \in Cancelled(mine)
    PROVE  /\ c \in Seq({"RECV0", "SEND0"})
           /\ Len(c) + Cardinality(rest) = Cardinality(ops)
           /\ \A o : Ops(o, rest) \in Nat /\ Ops(o, rest) <= Ops(o, ops)
           /\ In({"RECV0"}, c) \in Nat
           /\ Ops("recv", ops) > 0 => Ops("recv", rest) + In({"RECV0"}, c) > 0
           /\ ops = {} => rest = {} /\ Len(c) = 0
<1> DEFINE n == Cardinality(mine)
<1>1. /\ mine \subseteq Held /\ rest \subseteq Held /\ mine \cup rest = ops /\ mine \cap rest = {}
      /\ rest \subseteq ops /\ mine \subseteq ops
  OBVIOUS
<1>2. PICK f \in SetToSeqs(mine) : c = [i \in DOMAIN f |-> Failed[f[i][1]]]
  BY DEF Cancelled
<1>3. /\ IsFiniteSet(mine) /\ n \in Nat /\ IsFiniteSet(rest) /\ Cardinality(rest) \in Nat
  BY <1>1, OpsNat
<1>4. n + Cardinality(rest) = Cardinality(ops)
  <2>1. Cardinality(mine \cap rest) = 0
    BY <1>1, FS_EmptySet
  <2>2. Cardinality(mine \cup rest) = n + Cardinality(rest) - Cardinality(mine \cap rest)
    BY <1>3, FS_Union
  <2>3. n \in Nat /\ Cardinality(rest) \in Nat
    BY <1>3
  <2>4. Cardinality(mine \cup rest) = Cardinality(ops)
    BY <1>1
  <2>5. QED
    BY <2>1, <2>2, <2>3, <2>4
<1>5. f \in [1 .. n -> mine] /\ \A i, j \in 1 .. n : i # j => f[i] # f[j]
  BY DEF SetToSeqs
<1>6. \A x \in mine : \E i \in 1 .. n : f[i] = x
  <2>1. f \in Injection(1 .. n, mine)
    BY <1>5 DEF Injection, IsInjective
  <2>2. Cardinality(1 .. n) = n
    BY <1>3, FS_Interval
  <2>3. f \in Surjection(1 .. n, mine)
    BY <1>3, <2>1, <2>2, FS_Injection
  <2>4. QED
    BY <2>3 DEF Surjection
<1> HIDE DEF n
<1>7. \A x \in mine : x[1] \in {"recv", "send"}
  BY <1>1 DEF Held
<1>8. \A o \in {"recv", "send"} : Failed[o] = IF o = "recv" THEN "RECV0" ELSE "SEND0"
  BY DEF Failed
<1>9. c \in [1 .. n -> {"RECV0", "SEND0"}] /\ \A i \in 1 .. n : f[i][1] = "recv" => c[i] = "RECV0"
  BY <1>2, <1>5, <1>7, <1>8
<1>10. c \in Seq({"RECV0", "SEND0"}) /\ Len(c) = n /\ DOMAIN c = 1 .. n
  BY <1>3, <1>9
<1>11. In({"RECV0"}, c) \in Nat /\ (In({"RECV0"}, c) > 0 <=> \E i \in DOMAIN c : c[i] \in {"RECV0"})
  BY <1>10, InNat
<1>12. ASSUME NEW o PROVE Ops(o, rest) \in Nat /\ Ops(o, rest) <= Ops(o, ops)
  <2>1. IsFiniteSet({x \in ops : x[1] = o}) /\ Ops(o, rest) \in Nat
    BY <1>1, OpsNat
  <2>2. {x \in rest : x[1] = o} \in SUBSET {x \in ops : x[1] = o}
    BY <1>1
  <2>3. QED
    BY <2>1, <2>2, FS_Subset DEF Ops
<1>13. Ops("recv", ops) > 0 => Ops("recv", rest) + In({"RECV0"}, c) > 0
  <2> SUFFICES ASSUME Ops("recv", ops) > 0 PROVE Ops("recv", rest) + In({"RECV0"}, c) > 0
    OBVIOUS
  <2>1. PICK x \in ops : x[1] = "recv"
    BY OpsNat
  <2>2. CASE x \in rest
    <3>1. Ops("recv", rest) > 0
      BY <1>1, <2>1, <2>2, OpsNat
    <3>2. QED
      BY <1>11, <1>12, <3>1
  <2>3. CASE x \in mine
    <3>1. PICK i \in 1 .. n : f[i] = x
      BY <1>6, <2>3
    <3>2. In({"RECV0"}, c) > 0
      BY <1>9, <1>10, <1>11, <2>1, <3>1
    <3>3. QED
      BY <1>11, <1>12, <3>2
  <2>4. QED
    BY <1>1, <2>2, <2>3
<1>14. ops = {} => rest = {} /\ Len(c) = 0
  <2>1. ops = {} => mine = {} /\ rest = {}
    BY <1>1
  <2>2. mine = {} => n = 0
    BY FS_EmptySet DEF n
  <2>3. QED
    BY <1>10, <2>1, <2>2
<1>15. QED
  BY <1>3, <1>4, <1>10, <1>11, <1>12, <1>13, <1>14 DEF n
-----------------------------------------------------------------------------
(* A thread runs *)

\* What a function returns to may itself run and return.
LEMMA Returned == ASSUME NEW t, NEW f, NEW r, Returns(t, f, r) PROVE Proper(t, r)
<1>1. ASSUME NEW x, NEW y, NEW z, NEW w
      PROVE  /\ Head(<<x>>) = x /\ Tail(<<x>>) = <<>>
             /\ Head(<<x, y>>) = x /\ Tail(<<x, y>>) = <<y>>
             /\ Head(<<x, y, z>>) = x /\ Tail(<<x, y, z>>) = <<y, z>>
             /\ Head(<<x, y, z, w>>) = x /\ Tail(<<x, y, z, w>>) = <<y, z, w>>
  OBVIOUS
<1>2. CASE t = Main
  <2>1. MainReturns(f, r)
    BY <1>2 DEF Returns
  <2>2. r # <<>> => MainReturns(Head(r), Tail(r))
    <3> DEFINE P == r # <<>> => MainReturns(Head(r), Tail(r))
    <3>1. r = <<>> => P
      OBVIOUS
    <3>2. r = <<"wait">> => P
      BY <1>1 DEF MainReturns
    <3>3. r = <<"exits", "wait">> => P
      BY <1>1 DEF MainReturns
    <3>4. r = <<"update">> => P
      BY <1>1 DEF MainReturns
    <3>5. r = <<"recv_check", "update", "connected">> => P
      BY <1>1 DEF MainReturns
    <3>6. r = <<"update", "recv_check", "update", "connected">> => P
      BY <1>1 DEF MainReturns
    <3>7. r = <<"update", "connected">> => P
      BY <1>1 DEF MainReturns
    <3>8. r = <<"update", "update", "connected">> => P
      BY <1>1 DEF MainReturns
    <3>9. r = <<"connected">> => P
      BY <1>1 DEF MainReturns
    <3> HIDE DEF P
    <3>10. P
      BY <2>1, <3>1, <3>2, <3>3, <3>4, <3>5, <3>6, <3>7, <3>8, <3>9 DEF MainReturns
    <3>11. QED
      BY <3>10 DEF P
  <2>3. QED
    BY <1>2, <2>2 DEF Proper, Returns
<1>3. CASE t # Main
  <2>1. WorkerReturns(f, r)
    BY <1>3 DEF Returns
  <2>2. r # <<>> => WorkerReturns(Head(r), Tail(r))
    <3> DEFINE P == r # <<>> => WorkerReturns(Head(r), Tail(r))
    <3>1. r = <<>> => P
      OBVIOUS
    <3>2. r = <<"update">> => P
      BY <1>1 DEF WorkerReturns
    <3>3. r = <<"pend", "update">> => P
      BY <1>1 DEF WorkerReturns
    <3>4. r = <<"recv_check", "update">> => P
      BY <1>1 DEF WorkerReturns
    <3>5. r = <<"try_send", "update">> => P
      BY <1>1 DEF WorkerReturns
    <3>6. r = <<"update", "update">> => P
      BY <1>1 DEF WorkerReturns
    <3>7. r = <<"update", "pend", "update">> => P
      BY <1>1 DEF WorkerReturns
    <3>8. r = <<"parse", "recv_check", "update">> => P
      BY <1>1 DEF WorkerReturns
    <3> HIDE DEF P
    <3>9. P
      BY <2>1, <3>1, <3>2, <3>3, <3>4, <3>5, <3>6, <3>7, <3>8 DEF WorkerReturns
    <3>10. QED
      BY <3>9 DEF P
  <2>3. QED
    BY <1>3, <2>2 DEF Proper, Returns
<1>4. QED
  BY <1>2, <1>3

\* The first entry, and the others.
LEMMA Split ==
    ASSUME NEW S, NEW s \in Seq(S), s # <<>>
    PROVE  s = <<Head(s)>> \o Tail(s)
OBVIOUS

\* Short sequences.
LEMMA Short ==
    ASSUME NEW S, NEW x \in S, NEW y \in S, NEW r \in Seq(S)
    PROVE  /\ <<x>> \in Seq(S) /\ <<x, y>> \in Seq(S)
           /\ <<x>> \o r # <<>> /\ Head(<<x>> \o r) = x /\ Tail(<<x>> \o r) = r
           /\ <<x, y>> \o r = <<x>> \o (<<y>> \o r)
<1>1. <<x>> \in Seq(S) /\ <<y>> \in Seq(S) /\ <<x, y>> \in Seq(S)
  OBVIOUS
<1>2. ASSUME NEW q \in Seq(S)
      PROVE  <<x>> \o q # <<>> /\ Head(<<x>> \o q) = x /\ Tail(<<x>> \o q) = q
  BY <1>1
<1>3. <<x, y>> = <<x>> \o <<y>>
  <2>1. Head(<<x, y>>) = x /\ Tail(<<x, y>>) = <<y>> /\ <<x, y>> # <<>>
    OBVIOUS
  <2>2. QED
    BY <1>1, <2>1, Split
<1>4. (<<x>> \o <<y>>) \o r = <<x>> \o (<<y>> \o r)
  BY <1>1
<1>5. QED
  BY <1>1, <1>2, <1>3, <1>4

\* The stack of a thread changes to s.
Moved(t, s) ==
    /\ pc' \in [Threads -> Seq(Functions)] /\ pc'[t] = s
    /\ \A u \in Threads : u # t => pc'[u] = pc[u]
    /\ \A F : /\ Total(F, pc') = Total(F, pc) - In(F, pc[t]) + In(F, s)
              /\ Total(F, pc) \in Nat /\ Total(F, pc') \in Nat
              /\ In(F, pc[t]) \in Nat /\ In(F, s) \in Nat /\ In(F, pc[t]) <= Total(F, pc)

\* Setting the stack of one thread is a move of it.
LEMMA Moves ==
    ASSUME pc \in [Threads -> Seq(Functions)], NEW t \in Threads, NEW s \in Seq(Functions),
           pc' = [pc EXCEPT ![t] = s]
    PROVE  Moved(t, s)
<1>1. /\ pc' \in [Threads -> Seq(Functions)] /\ pc'[t] = s
      /\ \A u \in Threads : u # t => pc'[u] = pc[u]
  OBVIOUS
<1>2. ASSUME NEW F
      PROVE  /\ Total(F, pc') = Total(F, pc) - In(F, pc[t]) + In(F, s)
             /\ Total(F, pc) \in Nat /\ Total(F, pc') \in Nat
             /\ In(F, pc[t]) \in Nat /\ In(F, s) \in Nat /\ In(F, pc[t]) <= Total(F, pc)
  <2>1. pc[t] \in Seq(Functions)
    OBVIOUS
  <2>2. In(F, pc[t]) \in Nat /\ In(F, s) \in Nat
    BY <2>1, InNat
  <2>3. ASSUME NEW after, after = pc'
        PROVE  /\ Total(F, after) = Total(F, pc) - In(F, pc[t]) + In(F, after[t])
               /\ Total(F, after) \in Nat /\ Total(F, pc) \in Nat
               /\ In(F, pc[t]) <= Total(F, pc)
    <3>1. after \in [Threads -> Seq(Functions)] /\ \A u \in Threads : u # t => after[u] = pc[u]
      BY <1>1, <2>3
    <3>2. QED
      BY <3>1, TotalStep
  <2>4. QED
    BY <1>1, <2>2, <2>3
<1>3. QED
  BY <1>1, <1>2 DEF Moved

\* Thread t ran its top function f, which called fs and returns to r.
Ran(t, f, fs, r) ==
    /\ pc' \in [Threads -> Seq(Functions)]
    /\ pc[t] # <<>> /\ Head(pc[t]) = f /\ Tail(pc[t]) = r /\ r \in Seq(Functions)
    /\ pc'[t] = fs \o r
    /\ \A u \in Threads : u # t => pc'[u] = pc[u]
    /\ Returns(t, f, r)
    /\ \A F : /\ Total(F, pc') = Total(F, pc) - I(f, F) + In(F, fs)
              /\ In(F, pc[t]) = I(f, F) + In(F, r)
              /\ In(F, pc'[t]) = In(F, fs) + In(F, r)
              /\ In(F, pc[t]) <= Total(F, pc)
              /\ Total(F, pc) \in Nat /\ Total(F, pc') \in Nat
              /\ In(F, fs) \in Nat /\ In(F, r) \in Nat

\* An action that runs the function on top moves its thread.
LEMMA Runs ==
    ASSUME pc \in [Threads -> Seq(Functions)], Control, NEW t \in Threads, NEW f, At(t, f),
           NEW fs \in Seq(Functions), Run(t, fs)
    PROVE  /\ Ran(t, f, fs, Tail(pc[t]))
           /\ Proper(t, fs \o Tail(pc[t])) => Control'
<1> DEFINE r == Tail(pc[t])
<1>1. pc[t] \in Seq(Functions) /\ pc[t] # <<>> /\ Head(pc[t]) = f /\ r \in Seq(Functions)
  BY DEF At
<1>2. Returns(t, f, r)
  BY <1>1 DEF Control, Proper
<1>3. fs \o r \in Seq(Functions) /\ pc' = [pc EXCEPT ![t] = fs \o r]
  BY <1>1 DEF Run
<1>4. Moved(t, fs \o r)
  BY <1>3, Moves
<1> HIDE DEF r
<1>5. ASSUME NEW F
      PROVE  /\ In(F, pc[t]) = I(f, F) + In(F, r)
             /\ In(F, fs \o r) = In(F, fs) + In(F, r)
             /\ In(F, fs) \in Nat /\ In(F, r) \in Nat
  <2>1. In(F, pc[t]) = I(f, F) + In(F, r)
    BY <1>1, InTop DEF r
  <2>2. QED
    BY <1>1, <2>1, InJoin, InNat
<1>6. \A F : I(f, F) \in Nat
  BY DEF I
<1>7. ASSUME NEW F PROVE Total(F, pc') = Total(F, pc) - I(f, F) + In(F, fs)
  <2>1. Total(F, pc') = Total(F, pc) - In(F, pc[t]) + In(F, fs \o r) /\ Total(F, pc) \in Nat
    BY <1>4 DEF Moved
  <2>2. QED
    BY <1>5, <1>6, <2>1
<1>8. Ran(t, f, fs, r)
  <2>1. \A F : In(F, pc'[t]) = In(F, fs) + In(F, r)
    BY <1>4, <1>5 DEF Moved
  <2>2. \A F : In(F, pc[t]) <= Total(F, pc) /\ Total(F, pc) \in Nat /\ Total(F, pc') \in Nat
    BY <1>4 DEF Moved
  <2>3. pc' \in [Threads -> Seq(Functions)] /\ pc'[t] = fs \o r
        /\ \A u \in Threads : u # t => pc'[u] = pc[u]
    BY <1>4 DEF Moved
  <2>4. QED
    BY <1>1, <1>2, <1>5, <1>7, <2>1, <2>2, <2>3 DEF Ran, r
<1>9. Proper(t, fs \o r) => Control'
  BY <1>4 DEF Moved, Control
<1>10. QED
  BY <1>8, <1>9 DEF r

\* It calls nothing, one function, or two.
LEMMA RunsNone ==
    ASSUME pc \in [Threads -> Seq(Functions)], Control, NEW t \in Threads, NEW f, At(t, f), Return(t)
    PROVE  Control' /\ Ran(t, f, <<>>, Tail(pc[t])) /\ pc'[t] = Tail(pc[t])
           /\ \A F : In(F, <<>>) = 0
<1>1. Run(t, <<>>) /\ <<>> \in Seq(Functions)
  BY DEF Return
<1>2. Ran(t, f, <<>>, Tail(pc[t])) /\ (Proper(t, <<>> \o Tail(pc[t])) => Control')
  BY <1>1, Runs
<1>3. <<>> \o Tail(pc[t]) = Tail(pc[t]) /\ Returns(t, f, Tail(pc[t]))
  BY <1>2 DEF Ran
<1>4. QED
  BY <1>2, <1>3, Returned, InNone DEF Ran

\* The function on top calls one function.
LEMMA RunsOne ==
    ASSUME pc \in [Threads -> Seq(Functions)], Control, NEW t \in Threads, NEW f, At(t, f),
           NEW x \in Functions, Run(t, <<x>>), Returns(t, x, Tail(pc[t]))
    PROVE  Control' /\ Ran(t, f, <<x>>, Tail(pc[t])) /\ \A F : In(F, <<x>>) = I(x, F)
<1> DEFINE r == Tail(pc[t])
<1>1. <<x>> \in Seq(Functions)
  <2>1. pc[t] \in Seq(Functions)
    OBVIOUS
  <2>2. QED
    BY <2>1, Short
<1>2. Ran(t, f, <<x>>, r) /\ (Proper(t, <<x>> \o r) => Control')
  BY <1>1, Runs
<1>3. r \in Seq(Functions)
  BY <1>2 DEF Ran
<1> HIDE DEF r
<1>4. Head(<<x>> \o r) = x /\ Tail(<<x>> \o r) = r
  BY <1>3, Short
<1>5. Proper(t, <<x>> \o r)
  BY <1>4 DEF Proper, r
<1>6. QED
  BY <1>2, <1>5, InOne DEF r

\* The function on top calls two.
LEMMA RunsTwo ==
    ASSUME pc \in [Threads -> Seq(Functions)], Control, NEW t \in Threads, NEW f, At(t, f),
           NEW x \in Functions, NEW y \in Functions, Run(t, <<x, y>>),
           Returns(t, x, <<y>> \o Tail(pc[t]))
    PROVE  Control' /\ Ran(t, f, <<x, y>>, Tail(pc[t])) /\ \A F : In(F, <<x, y>>) = I(x, F) + I(y, F)
<1> DEFINE r == Tail(pc[t])
<1>1. <<x, y>> \in Seq(Functions)
  <2>1. pc[t] \in Seq(Functions)
    OBVIOUS
  <2>2. QED
    BY <2>1, Short
<1>2. Ran(t, f, <<x, y>>, r) /\ (Proper(t, <<x, y>> \o r) => Control')
  BY <1>1, Runs
<1>3. r \in Seq(Functions)
  BY <1>2 DEF Ran
<1> HIDE DEF r
<1>4. Head(<<x, y>> \o r) = x /\ Tail(<<x, y>> \o r) = <<y>> \o r
  <2>1. <<y>> \in Seq(Functions)
    BY <1>3, Short
  <2>2. <<y>> \o r \in Seq(Functions) /\ <<x, y>> \o r = <<x>> \o (<<y>> \o r)
    <3>1. (<<y>> \o r) \in Seq(Functions)
      BY <1>3, <2>1
    <3>2. <<x, y>> \o r = <<x>> \o (<<y>> \o r)
      BY <1>3, Short
    <3>3. QED
      BY <3>1, <3>2
  <2>3. QED
    BY <2>2, Short
<1>5. Proper(t, <<x, y>> \o r)
  BY <1>4 DEF Proper, r
<1>6. QED
  BY <1>2, <1>5, InTwo DEF r

\* Put on top of what is left.
LEMMA Pushed ==
    ASSUME NEW x, NEW a, NEW b, NEW c
    PROVE  /\ <<x>> \o <<>> = <<x>> /\ <<x>> \o <<a>> = <<x, a>>
           /\ <<x>> \o <<a, b>> = <<x, a, b>> /\ <<x>> \o <<a, b, c>> = <<x, a, b, c>>
<1>1. <<x>> \o <<>> = <<x>>
  OBVIOUS
<1> DEFINE S == {x, a, b, c}
<1>2. <<x>> \o <<a>> = <<x, a>>
  <2>1. <<x, a>> \in Seq(S) /\ <<x, a>> # <<>> /\ Head(<<x, a>>) = x /\ Tail(<<x, a>>) = <<a>>
    OBVIOUS
  <2>2. QED
    BY <2>1, Split
<1>3. <<x>> \o <<a, b>> = <<x, a, b>>
  <2>1. /\ <<x, a, b>> \in Seq(S) /\ <<x, a, b>> # <<>>
        /\ Head(<<x, a, b>>) = x /\ Tail(<<x, a, b>>) = <<a, b>>
    OBVIOUS
  <2>2. QED
    BY <2>1, Split
<1>4. <<x>> \o <<a, b, c>> = <<x, a, b, c>>
  <2>1. /\ <<x, a, b, c>> \in Seq(S) /\ <<x, a, b, c>> # <<>>
        /\ Head(<<x, a, b, c>>) = x /\ Tail(<<x, a, b, c>>) = <<a, b, c>>
    OBVIOUS
  <2>2. QED
    BY <2>1, Split
<1>5. QED
  BY <1>1, <1>2, <1>3, <1>4
-----------------------------------------------------------------------------
(* Steps inside a call *)

\* What the calls of the application thread are made of, apart from the session's
\* own functions.
Calls == {"connect", "connected", "exits", "wait"}

\* A thread runs a function of a session, and calls functions of a session.
LEMMA InSession ==
    ASSUME IInv, NEW t \in Threads, NEW f \in Functions \ Calls, NEW r,
           NEW fs \in Seq(Functions \ Calls), Ran(t, f, fs, r),
           UNCHANGED <<switches, id_generator, joined>>
    PROVE  /\ id_generator > 0 /\ Phase' /\ Fresh'
           /\ t # Main => id_generator = 1 /\ t \in running /\ running # {}
<1> DEFINE Own == Functions \ Outside
<1>1. id_generator > 0
  <2>1. id_generator \in Nat
    BY LanBounds DEF IInv, Typed
  <2>2. I(f, Own) = 1
    BY DEF I, Calls, Outside
  <2>3. Total(Own, pc) \in Nat /\ In(Own, pc[t]) = I(f, Own) + In(Own, r)
        /\ In(Own, r) \in Nat /\ In(Own, pc[t]) <= Total(Own, pc)
    BY DEF Ran
  <2>4. Total(Own, pc) > 0
    <3> HIDE DEF Own
    <3>1. QED
      BY <2>2, <2>3
  <2>5. QED
    BY <2>1, <2>4 DEF IInv, Fresh
<1>2. Fresh'
  BY <1>1 DEF Fresh
<1>3. \A F \in SUBSET Calls : In(F, pc'[Main]) = In(F, pc[Main])
  <2>1. CASE t = Main
    <3>1. ASSUME NEW F \in SUBSET Calls PROVE In(F, pc'[Main]) = In(F, pc[Main])
      <4>1. In(F, fs) = 0
        BY InOutside
      <4>2. I(f, F) = 0
        BY DEF I
      <4>3. In(F, pc[t]) = I(f, F) + In(F, r) /\ In(F, pc'[t]) = In(F, fs) + In(F, r)
            /\ In(F, r) \in Nat
        BY DEF Ran
      <4>4. QED
        BY <2>1, <4>1, <4>2, <4>3
    <3>2. QED
      BY <3>1
  <2>2. CASE t # Main
    BY <2>2 DEF Ran, Threads
  <2>3. QED
    BY <2>1, <2>2
<1>4. /\ In({"connect", "connected", "wait"}, pc'[Main]) = In({"connect", "connected", "wait"}, pc[Main])
      /\ In({"connect"}, pc'[Main]) = In({"connect"}, pc[Main])
      /\ In({"wait"}, pc'[Main]) = In({"wait"}, pc[Main])
  BY <1>3 DEF Calls
<1>5. t # Main => t \in running
  BY DEF Ran, IInv, Phase, Threads
<1>6. \A w \in Workers : pc'[w] # <<>> => w \in running
  <2>1. \A w \in Workers : w # t => pc'[w] = pc[w]
    BY DEF Ran, Threads
  <2>2. \A w \in Workers : pc[w] # <<>> => w \in running
    BY DEF IInv, Phase
  <2>3. t \in Workers => t \in running
    BY <1>5, LanThreads
  <2>4. QED
    BY <2>1, <2>2, <2>3
<1>7. m_isInit
  BY <1>1 DEF IInv, Phase
<1>8. Phase'
  BY <1>1, <1>4, <1>6, <1>7 DEF IInv, Phase, switches
<1>9. t # Main => id_generator = 1 /\ t \in running /\ running # {}
  <2>1. id_generator \in Nat
    BY LanBounds DEF IInv, Typed
  <2>2. running # {} => id_generator <= 1
    BY DEF IInv, Phase
  <2>3. QED
    BY <1>1, <1>5, <2>1, <2>2
<1>10. QED
  BY <1>1, <1>2, <1>8, <1>9

\* The numbers the invariant is about, before and after a step.
Stacks(update, using, rel, clean, recv, size, try, sent) ==
    /\ Total({"update"}, pc') = Total({"update"}, pc) + update
    /\ Total(Using, pc') = Total(Using, pc) + using
    /\ Total({"rel_post", "release"}, pc') = Total({"rel_post", "release"}, pc) + rel
    /\ Total({"clean"}, pc') = Total({"clean"}, pc) + clean
    /\ Total(Receiving, pc') = Total(Receiving, pc) + recv
    /\ Total({"sp_size"}, pc') = Total({"sp_size"}, pc) + size
    /\ Total({"try_send"}, pc') = Total({"try_send"}, pc) + try
    /\ Total({"sent"}, pc') = Total({"sent"}, pc) + sent
StacksNat(stacks) ==
    /\ Total({"update"}, stacks) \in Nat /\ Total(Using, stacks) \in Nat
    /\ Total({"rel_post", "release"}, stacks) \in Nat /\ Total({"clean"}, stacks) \in Nat
    /\ Total(Receiving, stacks) \in Nat /\ Total({"sp_size"}, stacks) \in Nat
    /\ Total({"try_send"}, stacks) \in Nat /\ Total({"sent"}, stacks) \in Nat
Port(exit, use, rel, recv, send, pend, recv0) ==
    /\ In({"EXIT"}, m_hcp') = In({"EXIT"}, m_hcp) + exit
    /\ In(UsePosts, m_hcp') = In(UsePosts, m_hcp) + use
    /\ In({"RELEASE_PEND"}, m_hcp') = In({"RELEASE_PEND"}, m_hcp) + rel
    /\ In({"RECV"}, m_hcp') = In({"RECV"}, m_hcp) + recv
    /\ In({"SEND"}, m_hcp') = In({"SEND"}, m_hcp) + send
    /\ In({"SEND_PEND"}, m_hcp') = In({"SEND_PEND"}, m_hcp) + pend
    /\ In({"RECV0"}, m_hcp') = In({"RECV0"}, m_hcp) + recv0
PortNat(s) ==
    /\ In({"EXIT"}, s) \in Nat /\ In(UsePosts, s) \in Nat /\ In({"RELEASE_PEND"}, s) \in Nat
    /\ In({"RECV"}, s) \in Nat /\ In({"SEND"}, s) \in Nat /\ In({"SEND_PEND"}, s) \in Nat
    /\ In({"RECV0"}, s) \in Nat /\ Len(s) \in Nat /\ In({"EXIT"}, s) <= Len(s)
    /\ In({"RECV"}, s) + In({"SEND"}, s) + In({"SEND_PEND"}, s) + In({"RECV0"}, s) <= 4 * In(UsePosts, s)
KernelNat(ops) == Ops("recv", ops) \in Nat /\ Ops("send", ops) \in Nat /\ Cardinality(ops) \in Nat

\* All counts are natural numbers.
LEMMA Naturals ==
    ASSUME NEW stacks \in [Threads -> Seq(Functions)], NEW port \in Seq(Posts),
           NEW ops, ops \subseteq Held
    PROVE  StacksNat(stacks) /\ PortNat(port) /\ KernelNat(ops)
<1>1. StacksNat(stacks)
  <2>1. Main \in Threads
    BY DEF Threads
  <2>2. \A F : Total(F, stacks) \in Nat
    BY <2>1, TotalSplit
  <2>3. QED
    BY <2>2 DEF StacksNat
<1>2. PortNat(port)
  <2>2. \A F : In(F, port) \in Nat
    BY InNat
  <2>3. In({"EXIT"}, port) + In({}, port) <= Len(port) /\ Len(port) \in Nat
    BY InLen
  <2>4. /\ In({"RECV"}, port) <= In(UsePosts, port) /\ In({"SEND"}, port) <= In(UsePosts, port)
        /\ In({"SEND_PEND"}, port) <= In(UsePosts, port)
        /\ In({"RECV0"}, port) <= In(UsePosts, port)
    <3>1. /\ {"RECV"} \subseteq UsePosts /\ {"SEND"} \subseteq UsePosts
          /\ {"SEND_PEND"} \subseteq UsePosts /\ {"RECV0"} \subseteq UsePosts
      BY DEF UsePosts
    <3>2. QED
      BY <3>1, InMore
  <2>5. \A F : In(F, port) \in Int
    BY <2>2
  <2>6. QED
    BY <2>2, <2>3, <2>4 DEF PortNat
<1>3. KernelNat(ops)
  BY OpsNat DEF KernelNat
<1>4. QED
  BY <1>1, <1>2, <1>3

\* The same for the stacks, the port and the kernel of a state and of the next.
LEMMA Counts ==
    /\ Typed  => StacksNat(pc) /\ PortNat(m_hcp) /\ KernelNat(posted)
    /\ Typed' => StacksNat(pc') /\ PortNat(m_hcp') /\ KernelNat(posted')
<1>1. Typed => StacksNat(pc) /\ PortNat(m_hcp) /\ KernelNat(posted)
  <2>1. Typed => /\ pc \in [Threads -> Seq(Functions)] /\ m_hcp \in Seq(Posts)
                 /\ posted \subseteq Held
    BY DEF Typed, Held
  <2>2. QED
    BY <2>1, Naturals
<1>2. Typed' => StacksNat(pc') /\ PortNat(m_hcp') /\ KernelNat(posted')
  <2>1. Typed' => /\ pc' \in [Threads -> Seq(Functions)] /\ m_hcp' \in Seq(Posts)
                  /\ posted' \subseteq Held
    BY DEF Typed, Held
  <2>2. QED
    BY <2>1, Naturals
<1>3. QED
  BY <1>1, <1>2

\* What a step inside a stack changes of them.
LEMMA StacksBy ==
    ASSUME NEW t, NEW f, NEW fs, NEW r, Ran(t, f, fs, r)
    PROVE  Stacks(In({"update"}, fs) - I(f, {"update"}), In(Using, fs) - I(f, Using),
                  In({"rel_post", "release"}, fs) - I(f, {"rel_post", "release"}),
                  In({"clean"}, fs) - I(f, {"clean"}), In(Receiving, fs) - I(f, Receiving),
                  In({"sp_size"}, fs) - I(f, {"sp_size"}),
                  In({"try_send"}, fs) - I(f, {"try_send"}),
                  In({"sent"}, fs) - I(f, {"sent"}))
<1>1. ASSUME NEW F
      PROVE  Total(F, pc') = Total(F, pc) + (In(F, fs) - I(f, F))
  <2>1. /\ Total(F, pc') = Total(F, pc) - I(f, F) + In(F, fs)
        /\ Total(F, pc) \in Nat /\ In(F, fs) \in Nat
    BY DEF Ran
  <2>2. I(f, F) \in Nat
    BY DEF I
  <2>3. QED
    BY <2>1, <2>2
<1>2. QED
  BY <1>1 DEF Stacks

\* A worker that runs a function of a session finds the connection counted.
LEMMA Busy ==
    ASSUME NEW t, NEW f, NEW fs, NEW r, Ran(t, f, fs, r), NEW F, f \in F
    PROVE  Total(F, pc) >= 1 /\ In(F, pc[t]) >= 1
<1>1. /\ In(F, pc[t]) = I(f, F) + In(F, r) /\ In(F, r) \in Nat
      /\ In(F, pc[t]) <= Total(F, pc) /\ Total(F, pc) \in Nat
  BY DEF Ran
<1>2. I(f, F) = 1
  BY DEF I
<1>3. QED
  BY <1>1, <1>2

\* Who was about to end the connection still is, and no receive was begun.
LEMMA EndingKept ==
    ASSUME NEW t, NEW f, NEW fs, NEW r, Ran(t, f, fs, r), f \notin {"disconnect", "update"}
    PROVE  \A v \in Threads : Ending(v) => Ending(v)'
<1>1. \A v \in Threads : v # t => pc'[v] = pc[v]
  BY DEF Ran
<1>2. I(f, {"disconnect"}) = 0 /\ I(f, {"update"}) = 0
  BY DEF I
<1>3. ASSUME NEW F, I(f, F) = 0, In(F, pc[t]) > 0 PROVE In(F, pc'[t]) > 0
  <2>1. /\ In(F, pc[t]) = I(f, F) + In(F, r) /\ In(F, pc'[t]) = In(F, fs) + In(F, r)
        /\ In(F, fs) \in Nat /\ In(F, r) \in Nat
    BY DEF Ran
  <2>2. QED
    BY <1>3, <2>1
<1>4. Ending(t) => Ending(t)'
  BY <1>2, <1>3 DEF Ending
<1>5. QED
  BY <1>1, <1>4 DEF Ending

\* A step that calls no receive leaves the application thread none it had not before.
LEMMA ReceivingKept ==
    ASSUME Typed, NEW t, NEW f, NEW fs, NEW r, Ran(t, f, fs, r),
           In(Receiving, fs) <= I(f, Receiving)
    PROVE  In(Receiving, pc'[Main]) > 0 => In(Receiving, pc[Main]) > 0
<1>1. CASE t = Main
  <2>1. In(Receiving, pc[t]) = I(f, Receiving) + In(Receiving, r)
        /\ In(Receiving, pc'[t]) = In(Receiving, fs) + In(Receiving, r)
        /\ In(Receiving, r) \in Nat /\ In(Receiving, fs) \in Nat
    BY DEF Ran
  <2>2. I(f, Receiving) \in Nat
    BY DEF I
  <2>3. QED
    BY <1>1, <2>1, <2>2
<1>2. CASE t # Main
  BY <1>2 DEF Threads, Ran
<1>3. QED
  BY <1>1, <1>2

\* A step that changes nothing but a stack, the count, and SendPacket's local copy.
LEMMA QuietStep ==
    ASSUME IInv, NEW t \in Threads, NEW f \in Functions \ Calls, NEW r,
           NEW fs \in Seq(Functions \ Calls), Ran(t, f, fs, r), Control',
           UNCHANGED <<switches, m_disconnect, m_releaseFlag, sending, ids, kernel, packets, events>>,
           id' \in 0 .. MaxConnects,
           m_ioCount' = m_ioCount + (In({"update"}, fs) - I(f, {"update"})),
           \A F \in {{"rel_post", "release"}, {"clean"}, {"sp_size"}, {"try_send"}, {"sent"}} :
              In(F, fs) = I(f, F),
           In(Using, fs) <= I(f, Using) \/ m_releaseFlag = 0,
           In(Receiving, fs) <= I(f, Receiving),
           \/ m_disconnect = 1
           \/ In(Receiving, fs) = I(f, Receiving) /\ (f \notin {"disconnect", "update"} \/ ~Ending(t))
    PROVE  IInv'
<1>1. Phase' /\ Fresh'
  <2>1. UNCHANGED <<switches, id_generator, joined>>
    BY DEF ids, events
  <2>2. QED
    BY <2>1, InSession
<1>2. \A F : In(F, fs) \in Nat /\ I(f, F) \in Nat
  BY DEF Ran, I
<1>3. Typed'
  <2>1. m_ioCount \in Int /\ In({"update"}, fs) \in Int /\ I(f, {"update"}) \in Int
    BY <1>2 DEF IInv, Typed
  <2>2. m_ioCount' \in Int
    BY <2>1
  <2>3. pc' \in [Threads -> Seq(Functions)]
    BY DEF Ran
  <2>4. QED
    BY <2>2, <2>3 DEF IInv, Typed, switches, sending, ids, kernel, packets
<1>4. StacksNat(pc) /\ StacksNat(pc') /\ PortNat(m_hcp) /\ KernelNat(posted)
  <2>1. StacksNat(pc) /\ PortNat(m_hcp) /\ KernelNat(posted)
    BY Counts DEF IInv
  <2>2. StacksNat(pc')
    BY DEF Ran, StacksNat
  <2>3. QED
    BY <2>1, <2>2
<1>5. PICK u \in Int, us \in Int, rv \in Int :
        /\ Stacks(u, us, 0, 0, rv, 0, 0, 0)
        /\ m_ioCount' = m_ioCount + u /\ rv <= 0 /\ (us <= 0 \/ m_releaseFlag = 0)
        /\ m_disconnect = 1 \/ rv = 0
  <2> DEFINE u  == In({"update"}, fs) - I(f, {"update"})
             us == In(Using, fs) - I(f, Using)
             rv == In(Receiving, fs) - I(f, Receiving)
  <2>1. u \in Int /\ us \in Int /\ rv \in Int
    BY <1>2, SMTT(30)
  <2>2. rv <= 0 /\ (us <= 0 \/ m_releaseFlag = 0) /\ (m_disconnect = 1 \/ rv = 0)
    BY <1>2
  <2>3. /\ In({"rel_post", "release"}, fs) - I(f, {"rel_post", "release"}) = 0
        /\ In({"clean"}, fs) - I(f, {"clean"}) = 0 /\ In({"sp_size"}, fs) - I(f, {"sp_size"}) = 0
        /\ In({"try_send"}, fs) - I(f, {"try_send"}) = 0 /\ In({"sent"}, fs) - I(f, {"sent"}) = 0
    BY <1>2
  <2>4. Stacks(u, us, 0, 0, rv, 0, 0, 0)
    BY <2>3, StacksBy
  <2> HIDE DEF u, us, rv
  <2>5. m_ioCount' = m_ioCount + u
    BY DEF u
  <2>6. QED
    BY <2>1, <2>2, <2>4, <2>5
<1>6. Joining' /\ Known'
  <2>1. In(Receiving, pc'[Main]) > 0 => In(Receiving, pc[Main]) > 0
    BY ReceivingKept DEF IInv
  <2>2. QED
    BY <2>1 DEF IInv, Joining, Known, ids, kernel
<1>7. ClosedIdle'
  BY <1>4, <1>5 DEF IInv, ClosedIdle, Stacks, StacksNat, ids, kernel
<1>8. Stage' /\ OneReceive' /\ OneSend' /\ SentEmpty'
  <2>1. Stage'
    BY <1>4, <1>5, SMTT(30) DEF IInv, Stage, Releasing, Cleaning, Stacks, StacksNat, ids,
       kernel, switches,
                      events
  <2>2. OneReceive'
    <3>1. /\ Total(Receiving, pc') = Total(Receiving, pc) + rv /\ rv <= 0
          /\ m_hcp' = m_hcp /\ posted' = posted /\ id_generator' = id_generator
      BY <1>5 DEF Stacks, kernel, ids
    <3>2. /\ Total(Receiving, pc) \in Nat /\ In({"RECV"}, m_hcp) \in Nat
          /\ Ops("recv", posted) \in Nat
      BY <1>4 DEF StacksNat, PortNat, KernelNat
    <3>3. RecvTokens' <= RecvTokens /\ RecvTokens \in Nat /\ RecvTokens' \in Int
      BY <3>1, <3>2 DEF RecvTokens
    <3>4. QED
      BY <3>1, <3>3 DEF IInv, OneReceive
  <2>3. OneSend'
    BY <1>4, <1>5 DEF IInv, OneSend, SendTokens, Stacks, StacksNat, ids, kernel, sending
  <2>4. SentEmpty'
    <3>1. Sending' = Sending
      BY <1>4, <1>5 DEF Sending, Stacks, StacksNat, kernel
    <3>2. QED
      BY <1>4, <1>5, <3>1 DEF IInv, SentEmpty, Stacks, StacksNat, ids, kernel, sending
  <2>5. QED
    BY <2>1, <2>2, <2>3, <2>4
<1>9. Watched'
  <2> SUFFICES ASSUME id_generator = 1, m_disconnect = 0 PROVE Watched'
    BY DEF Watched, ids
  <2>1. RecvTokens' = RecvTokens /\ In({"RECV0"}, m_hcp') = In({"RECV0"}, m_hcp)
    BY <1>4, <1>5 DEF RecvTokens, Stacks, StacksNat, kernel
  <2>2. \A v \in Threads : Ending(v) => Ending(v)'
    <3>1. CASE f \notin {"disconnect", "update"}
      BY <3>1, EndingKept
    <3>2. CASE f \in {"disconnect", "update"} /\ ~Ending(t)
      BY <3>2 DEF Ran, Ending
    <3>3. QED
      BY <3>1, <3>2
  <2>3. QED
    BY <2>1, <2>2 DEF IInv, Watched
<1>10. PacketsApart'
  <2>1. Cleaning' = Cleaning /\ Cleaned' = Cleaned /\ Back' = Back
    BY <1>4, <1>5, SMTT(30) DEF Cleaning, Cleaned, Back, Stacks, StacksNat, packets, ids, events
  <2>2. QED
    BY <2>1 DEF IInv, PacketsApart, packets, sending, ids, events
<1>11. Counted'
  <2>1. Total({"update"}, pc') = Total({"update"}, pc) + u /\ m_ioCount' = m_ioCount + u
    BY <1>5 DEF Stacks
  <2>2. m_hcp' = m_hcp /\ posted' = posted
    BY DEF kernel
  <2>3. /\ Total({"update"}, pc) \in Nat /\ Len(m_hcp) \in Nat /\ In({"EXIT"}, m_hcp) \in Nat
        /\ Cardinality(posted) \in Nat
    BY <1>4 DEF StacksNat, PortNat, KernelNat
  <2>4. m_ioCount = Total({"update"}, pc) + Len(m_hcp) - In({"EXIT"}, m_hcp) + Cardinality(posted)
    BY DEF IInv, Counted
  <2>5. QED
    BY <1>5, <2>1, <2>2, <2>3, <2>4 DEF Counted
<1>12. QED
  BY <1>1, <1>3, <1>6, <1>7, <1>8, <1>9, <1>10, <1>11 DEF IInv

\* Functions that hold none of the rights to send and to release.
Plain == Functions \ (Calls \cup {"rel_post", "release", "clean", "sp_size", "try_send", "sent"})
QuietVars == <<switches, m_disconnect, m_releaseFlag, sending, ids, kernel, packets, events>>

\* A plain function is none of those.
LEMMA PlainNone ==
    ASSUME NEW f \in Plain,
           NEW F \in {{"rel_post", "release"}, {"clean"}, {"sp_size"}, {"try_send"}, {"sent"}}
    PROVE  I(f, F) = 0
BY DEF Plain, I

\* A quiet step that returns, calls one function, or two.
LEMMA QuietNone ==
    ASSUME IInv, NEW t \in Threads, NEW f \in Plain, At(t, f), Return(t),
           UNCHANGED <<QuietVars, id>>, m_ioCount' = m_ioCount - I(f, {"update"}),
           m_disconnect = 1 \/ (f \notin Receiving /\ (f \notin {"disconnect", "update"} \/ ~Ending(t)))
    PROVE  IInv'
<1>1. pc \in [Threads -> Seq(Functions)] /\ Control
  BY DEF IInv, Typed
<1>2. /\ Control' /\ Ran(t, f, <<>>, Tail(pc[t])) /\ \A F : In(F, <<>>) = 0
  BY <1>1, RunsNone
<1>3. <<>> \in Seq(Functions \ Calls) /\ f \in Functions \ Calls
  BY DEF Plain
<1>4. /\ m_ioCount' = m_ioCount + (In({"update"}, <<>>) - I(f, {"update"}))
      /\ id' \in 0 .. MaxConnects
  <2>1. m_ioCount \in Int /\ I(f, {"update"}) \in Int /\ In({"update"}, <<>>) = 0
    BY <1>2 DEF IInv, Typed, I
  <2>2. QED
    BY <2>1 DEF IInv, Typed
<1>5. \A F \in {{"rel_post", "release"}, {"clean"}, {"sp_size"}, {"try_send"}, {"sent"}} :
         In(F, <<>>) = I(f, F)
  BY <1>2, PlainNone
<1>6. In(Using, <<>>) <= I(f, Using) /\ In(Receiving, <<>>) <= I(f, Receiving)
  BY <1>2 DEF I
<1>7. \/ m_disconnect = 1
      \/ /\ In(Receiving, <<>>) = I(f, Receiving)
         /\ f \notin {"disconnect", "update"} \/ ~Ending(t)
  BY <1>2 DEF I
<1>8. QED
  BY <1>2, <1>3, <1>4, <1>5, <1>6, <1>7, QuietStep DEF QuietVars

\* The same for a step that calls one function.
LEMMA QuietOne ==
    ASSUME IInv, NEW t \in Threads, NEW f \in Plain, NEW x \in Plain, At(t, f), Run(t, <<x>>),
           Returns(t, x, Tail(pc[t])),
           UNCHANGED QuietVars, id' \in 0 .. MaxConnects,
           m_ioCount' = m_ioCount + (I(x, {"update"}) - I(f, {"update"})),
           x \in Using => f \in Using \/ m_releaseFlag = 0,
           x \in Receiving => f \in Receiving,
           \/ m_disconnect = 1
           \/ (f \in Receiving => x \in Receiving) /\ (f \notin {"disconnect", "update"} \/ ~Ending(t))
    PROVE  IInv'
<1>1. pc \in [Threads -> Seq(Functions)] /\ Control
  BY DEF IInv, Typed
<1>2. x \in Functions \ Calls /\ f \in Functions \ Calls /\ x \in Functions
  BY DEF Plain
<1>3. /\ Control' /\ Ran(t, f, <<x>>, Tail(pc[t])) /\ \A F : In(F, <<x>>) = I(x, F)
  BY <1>1, <1>2, RunsOne
<1>4. <<x>> \in Seq(Functions \ Calls)
  BY <1>2
<1>5. m_ioCount' = m_ioCount + (In({"update"}, <<x>>) - I(f, {"update"}))
  BY <1>3
<1>6. \A F \in {{"rel_post", "release"}, {"clean"}, {"sp_size"}, {"try_send"}, {"sent"}} :
         In(F, <<x>>) = I(f, F)
  <2>1. \A F \in {{"rel_post", "release"}, {"clean"}, {"sp_size"}, {"try_send"}, {"sent"}} :
           I(x, F) = 0 /\ I(f, F) = 0
    BY PlainNone
  <2>2. QED
    BY <1>3, <2>1
<1>7. /\ (In(Using, <<x>>) <= I(f, Using) \/ m_releaseFlag = 0)
      /\ In(Receiving, <<x>>) <= I(f, Receiving)
  BY <1>3 DEF I
<1>8. \/ m_disconnect = 1
      \/ /\ In(Receiving, <<x>>) = I(f, Receiving)
         /\ f \notin {"disconnect", "update"} \/ ~Ending(t)
  BY <1>3, <1>7 DEF I
<1>9. QED
  BY <1>2, <1>3, <1>4, <1>5, <1>6, <1>7, <1>8, QuietStep DEF QuietVars

\* The same for a step that calls two functions.
LEMMA QuietTwo ==
    ASSUME IInv, NEW t \in Threads, NEW f \in Plain, NEW x \in Plain, NEW y \in Plain,
           At(t, f), Run(t, <<x, y>>), Returns(t, x, <<y>> \o Tail(pc[t])),
           UNCHANGED <<QuietVars, id>>,
           m_ioCount' = m_ioCount + (I(x, {"update"}) + I(y, {"update"}) - I(f, {"update"})),
           {x, y} \cap Receiving = {}, f \notin Receiving, f \notin {"disconnect", "update"},
           \/ m_releaseFlag = 0 \/ {x, y} \cap Using = {}
           \/ f \in Using /\ (x \notin Using \/ y \notin Using)
    PROVE  IInv'
<1>1. pc \in [Threads -> Seq(Functions)] /\ Control
  BY DEF IInv, Typed
<1>2. /\ x \in Functions \ Calls /\ y \in Functions \ Calls /\ f \in Functions \ Calls
      /\ x \in Functions /\ y \in Functions
  BY DEF Plain
<1>3. /\ Control' /\ Ran(t, f, <<x, y>>, Tail(pc[t])) /\ \A F : In(F, <<x, y>>) = I(x, F) + I(y, F)
  BY <1>1, <1>2, RunsTwo
<1>4. <<x, y>> \in Seq(Functions \ Calls)
  BY <1>2
<1>5. m_ioCount' = m_ioCount + (In({"update"}, <<x, y>>) - I(f, {"update"}))
  <2>1. In({"update"}, <<x, y>>) = I(x, {"update"}) + I(y, {"update"})
    BY <1>3
  <2>2. \A z : I(z, {"update"}) \in Int
    BY DEF I
  <2>3. m_ioCount \in Int
    BY DEF IInv, Typed
  <2> DEFINE a == I(x, {"update"})
             b == I(y, {"update"})
             c == I(f, {"update"})
  <2>4. a \in Int /\ b \in Int /\ c \in Int
    BY <2>2
  <2>5. m_ioCount' = m_ioCount + (a + b - c) /\ In({"update"}, <<x, y>>) = a + b
    BY <2>1
  <2> HIDE DEF a, b, c
  <2>6. m_ioCount' = m_ioCount + (In({"update"}, <<x, y>>) - c)
    BY <2>3, <2>4, <2>5
  <2>7. QED
    BY <2>6 DEF c
<1>6. \A F \in {{"rel_post", "release"}, {"clean"}, {"sp_size"}, {"try_send"}, {"sent"}} :
         In(F, <<x, y>>) = I(f, F)
  <2>1. ASSUME NEW F \in {{"rel_post", "release"}, {"clean"}, {"sp_size"}, {"try_send"}, {"sent"}}
        PROVE  In(F, <<x, y>>) = I(f, F)
    <3>1. I(x, F) = 0 /\ I(y, F) = 0 /\ I(f, F) = 0
      BY PlainNone
    <3>2. In(F, <<x, y>>) = I(x, F) + I(y, F)
      BY <1>3
    <3>3. QED
      BY <3>1, <3>2
  <2>2. QED
    BY <2>1
<1>7. In(Using, <<x, y>>) <= I(f, Using) \/ m_releaseFlag = 0
  BY <1>3 DEF I
<1>8. /\ In(Receiving, <<x, y>>) <= I(f, Receiving)
      /\ \/ m_disconnect = 1
         \/ /\ In(Receiving, <<x, y>>) = I(f, Receiving)
            /\ f \notin {"disconnect", "update"} \/ ~Ending(t)
  <2>1. I(x, Receiving) = 0 /\ I(y, Receiving) = 0 /\ I(f, Receiving) = 0
    BY DEF I
  <2>2. In(Receiving, <<x, y>>) = I(x, Receiving) + I(y, Receiving)
    BY <1>3
  <2>3. In(Receiving, <<x, y>>) = 0
    BY <2>1, <2>2
  <2>4. QED
    BY <2>1, <2>3
<1>9. id' \in 0 .. MaxConnects
  BY DEF IInv, Typed
<1>10. QED
  BY <1>2, <1>3, <1>4, <1>5, <1>6, <1>7, <1>8, <1>9, QuietStep DEF QuietVars

\* What the function on top returns to.
LEMMA Callers ==
    ASSUME IInv, NEW t \in Threads, NEW f, At(t, f)
    PROVE  /\ Returns(t, f, Tail(pc[t]))
           /\ pc[t] \in Seq(Functions) /\ Tail(pc[t]) \in Seq(Functions) /\ f \in Functions
           /\ pc \in [Threads -> Seq(Functions)] /\ Control
<1>1. pc[t] \in Seq(Functions) /\ pc[t] # <<>> /\ Head(pc[t]) = f
  BY DEF IInv, Typed, At
<1>2. Tail(pc[t]) \in Seq(Functions) /\ Head(pc[t]) \in Functions
  BY <1>1
<1>3. QED
  BY <1>1, <1>2 DEF IInv, Typed, Control, Proper

\* SendPacket reads the id.
LEMMA KeepsSendId == ASSUME IInv, SendId PROVE IInv'
<1>1. Main \in Threads /\ At(Main, "send_id") /\ Run(Main, <<"send_inc">>)
  BY DEF SendId, Threads
<1>2. Returns(Main, "send_inc", Tail(pc[Main]))
  BY <1>1, Callers DEF Returns, MainReturns
<1>3. UNCHANGED QuietVars /\ id' \in 0 .. MaxConnects /\ m_ioCount' = m_ioCount
  BY DEF SendId, QuietVars, counts, IInv, Typed
<1>4. /\ "send_id" \in Plain /\ "send_inc" \in Plain /\ "send_inc" \notin Using
      /\ {"send_id", "send_inc"} \cap Receiving = {}
      /\ I("send_inc", {"update"}) = 0 /\ I("send_id", {"update"}) = 0
  BY DEF Plain, Functions, Calls, Using, Receiving, I
<1>5. m_ioCount' = m_ioCount + (I("send_inc", {"update"}) - I("send_id", {"update"}))
  BY <1>3, <1>4 DEF IInv, Typed
<1>6. QED
  BY <1>1, <1>2, <1>3, <1>4, <1>5, QuietOne

\* SendPacket takes its reference.
LEMMA KeepsSendInc == ASSUME IInv, SendInc PROVE IInv'
<1>1. Main \in Threads /\ At(Main, "send_inc") /\ Run(Main, <<"send_test", "update">>)
  BY DEF SendInc, Threads
<1>2. Returns(Main, "send_test", <<"update">> \o Tail(pc[Main]))
  <2>1. \/ Tail(pc[Main]) = <<>> \/ Tail(pc[Main]) = <<"recv_check", "update", "connected">>
    BY <1>1, Callers DEF Returns, MainReturns
  <2>2. /\ <<"update">> \o <<>> = <<"update">>
        /\ <<"update">> \o <<"recv_check", "update", "connected">>
             = <<"update", "recv_check", "update", "connected">>
    BY Pushed, ZenonT(30)
  <2>3. \/ <<"update">> \o Tail(pc[Main]) = <<"update">>
        \/ <<"update">> \o Tail(pc[Main]) = <<"update", "recv_check", "update", "connected">>
    BY <2>1, <2>2
  <2>4. QED
    BY <2>3 DEF Returns, MainReturns
<1>3. UNCHANGED <<QuietVars, id>> /\ m_ioCount' = m_ioCount + 1
  BY DEF SendInc, QuietVars
<1>4. /\ "send_inc" \in Plain /\ "send_test" \in Plain /\ "update" \in Plain
      /\ {"send_test", "update"} \cap Receiving = {} /\ "send_inc" \notin Receiving
      /\ "send_inc" \notin Using /\ "send_test" \notin Using /\ "update" \notin Using
      /\ I("send_inc", {"update"}) = 0 /\ I("send_test", {"update"}) = 0
      /\ I("update", {"update"}) = 1
  BY DEF Plain, Functions, Calls, Using, Receiving, I
<1>5. m_ioCount' = m_ioCount + (I("send_test", {"update"}) + I("update", {"update"})
                                   - I("send_inc", {"update"}))
  BY <1>3, <1>4 DEF IInv, Typed
<1>6. QED
  BY <1>1, <1>2, <1>3, <1>4, <1>5, QuietTwo

\* The session of a thread that has f to run.
LEMMA OnTop ==
    ASSUME IInv, NEW t \in Threads, NEW f, At(t, f)
    PROVE  /\ \A F : f \in F => Total(F, pc) >= 1 /\ In(F, pc[t]) >= 1
           /\ f \notin Outside => id_generator > 0
           /\ t # Main => t \in Workers /\ t \in running /\ running # {} /\ id_generator <= 1
           /\ f \in Using /\ id_generator = 1 => m_releaseFlag = 0
           /\ id_generator \in Nat
<1>1. /\ pc \in [Threads -> Seq(Functions)] /\ pc[t] \in Seq(Functions) /\ pc[t] # <<>>
      /\ Head(pc[t]) = f /\ Tail(pc[t]) \in Seq(Functions) /\ f \in Functions
  BY Callers DEF At
<1>2. ASSUME NEW F, f \in F PROVE Total(F, pc) >= 1 /\ In(F, pc[t]) >= 1
  <2>1. In(F, pc[t]) = I(f, F) + In(F, Tail(pc[t]))
    BY <1>1, InTop
  <2>2. In(F, Tail(pc[t])) \in Nat /\ In(F, pc[t]) \in Nat
    BY <1>1, InNat
  <2>3. Total(F, pc) \in Nat /\ In(F, pc[t]) <= Total(F, pc)
    <3>1. /\ Total(F, pc) = In(F, pc[t]) + Cardinality({x \in Places(F, pc) : x[1] # t})
          /\ Total(F, pc) \in Nat /\ Cardinality({x \in Places(F, pc) : x[1] # t}) \in Nat
      BY <1>1, TotalSplit
    <3>2. QED
      BY <2>2, <3>1
  <2>4. I(f, F) = 1
    BY <1>2 DEF I
  <2>5. QED
    BY <2>1, <2>2, <2>3, <2>4
<1>3. id_generator \in Nat
  BY LanBounds DEF IInv, Typed
<1>4. f \notin Outside => id_generator > 0
  <2>1. f \notin Outside => Total(Functions \ Outside, pc) >= 1
    BY <1>1, <1>2
  <2>2. id_generator = 0 => Total(Functions \ Outside, pc) = 0
    BY DEF IInv, Fresh
  <2>3. QED
    BY <1>3, <2>1, <2>2
<1>5. t # Main => t \in Workers /\ t \in running /\ running # {} /\ id_generator <= 1
  BY <1>1 DEF IInv, Phase, Threads
<1>6. f \in Using /\ id_generator = 1 => m_releaseFlag = 0
  <2>1. f \in Using => Total(Using, pc) >= 1
    BY <1>2
  <2>2. m_releaseFlag \in {0, 1}
    BY DEF IInv, Typed
  <2>3. QED
    BY <2>1, <2>2 DEF IInv, ClosedIdle
<1>7. QED
  BY <1>2, <1>3, <1>4, <1>5, <1>6

\* A worker uses an open session.
LEMMA WorkerOpen ==
    ASSUME IInv, NEW t \in Threads, t # Main, NEW f, At(t, f), f \notin Outside
    PROVE  /\ id_generator = 1 /\ t \in Workers /\ t \in running /\ running # {}
           /\ f \in Using => m_releaseFlag = 0
BY OnTop

\* SendPacket looks at the flags and the id.
LEMMA KeepsSendTest == ASSUME IInv, SendTest PROVE IInv'
<1>1. Main \in Threads /\ At(Main, "send_test")
  BY DEF SendTest, Threads
<1>2. UNCHANGED <<QuietVars, id>> /\ id' \in 0 .. MaxConnects /\ m_ioCount' = m_ioCount + (0 - 0)
      /\ m_ioCount' = m_ioCount - 0
  BY DEF SendTest, QuietVars, counts, IInv, Typed
<1>3. /\ "send_test" \in Plain /\ "enqueue" \in Plain
      /\ {"send_test", "enqueue"} \cap Receiving = {}
      /\ I("send_test", {"update"}) = 0 /\ I("enqueue", {"update"}) = 0
  BY DEF Plain, Functions, Calls, Using, Receiving, I
<1>4. CASE m_releaseFlag = 0 /\ m_disconnect = 0 /\ m_sessionId = id
  <2>1. Run(Main, <<"enqueue">>)
    BY <1>4 DEF SendTest
  <2>2. Returns(Main, "send_test", Tail(pc[Main]))
    BY <1>1, Callers
  <2>3. Returns(Main, "enqueue", Tail(pc[Main]))
    BY <2>2 DEF Returns, MainReturns
  <2>4. QED
    BY <1>1, <1>2, <1>3, <1>4, <2>1, <2>3, QuietOne
<1>5. CASE ~(m_releaseFlag = 0 /\ m_disconnect = 0 /\ m_sessionId = id)
  <2>1. Return(Main)
    BY <1>5 DEF SendTest, Return
  <2>2. QED
    BY <1>1, <1>2, <1>3, <2>1, QuietNone
<1>6. QED
  BY <1>4, <1>5

\* The queue of packets is full.
LEMMA KeepsEnqueueFull ==
    ASSUME IInv, Enqueue, ~(Len(m_sendQ) < MaxSendQ /\ accepted < MaxPackets) PROVE IInv'
<1>1. Main \in Threads /\ At(Main, "enqueue") /\ Return(Main)
  BY DEF Enqueue, Threads
<1>2. UNCHANGED <<QuietVars, id>> /\ m_ioCount' = m_ioCount - 0
  BY DEF Enqueue, QuietVars, counts, packets, sending, IInv, Typed
<1>3. "enqueue" \in Plain /\ "enqueue" \notin Receiving /\ I("enqueue", {"update"}) = 0
  BY DEF Plain, Functions, Calls, Receiving, I
<1>4. QED
  BY <1>1, <1>2, <1>3, QuietNone

\* recvPost looks at m_disconnect.
LEMMA KeepsRecvCheck == ASSUME IInv, NEW t \in Threads, RecvCheck(t) PROVE IInv'
<1>1. At(t, "recv_check")
  BY DEF RecvCheck
<1>2. UNCHANGED <<QuietVars, id>> /\ id' \in 0 .. MaxConnects /\ m_ioCount' = m_ioCount + (0 - 0)
      /\ m_ioCount' = m_ioCount - 0
  BY DEF RecvCheck, QuietVars, counts, IInv, Typed
<1>3. /\ "recv_check" \in Plain /\ "recv_post" \in Plain
      /\ {"recv_check", "recv_post"} \subseteq Receiving
      /\ {"recv_check", "recv_post"} \subseteq Using
      /\ I("recv_check", {"update"}) = 0 /\ I("recv_post", {"update"}) = 0
  BY DEF Plain, Functions, Calls, Using, Receiving, I
<1>4. CASE m_disconnect = 0
  <2>1. Run(t, <<"recv_post">>)
    BY <1>4 DEF RecvCheck
  <2>2. Returns(t, "recv_post", Tail(pc[t]))
    BY <1>1, Callers DEF Returns, MainReturns, WorkerReturns
  <2>3. QED
    BY <1>1, <1>2, <1>3, <2>1, <2>2, QuietOne
<1>5. CASE m_disconnect = 1
  <2>1. Return(t)
    BY <1>5 DEF RecvCheck, Return
  <2>2. QED
    BY <1>1, <1>2, <1>3, <1>5, <2>1, QuietNone
<1>6. QED
  BY <1>4, <1>5 DEF IInv, Typed

\* trySend looks at the queue.
LEMMA KeepsTrySize == ASSUME IInv, NEW t \in Threads, TrySize(t) PROVE IInv'
<1>1. At(t, "try_size")
  BY DEF TrySize
<1>2. UNCHANGED <<QuietVars, id>> /\ m_ioCount' = m_ioCount + (0 + 0 - 0)
      /\ m_ioCount' = m_ioCount - 0
  BY DEF TrySize, QuietVars, counts, IInv, Typed
<1>3. /\ "try_size" \in Plain /\ "sp_check" \in Plain /\ "pend" \in Plain
      /\ {"sp_check", "pend"} \cap Receiving = {} /\ "try_size" \notin Receiving
      /\ "try_size" \in Using /\ "try_size" \notin Outside
      /\ I("try_size", {"update"}) = 0 /\ I("sp_check", {"update"}) = 0 /\ I("pend", {"update"}) = 0
  BY DEF Plain, Functions, Calls, Using, Receiving, Outside, I
<1>4. t # Main /\ Tail(pc[t]) = <<"update">>
  BY <1>1, Callers DEF Returns, MainReturns, WorkerReturns
<1>5. m_releaseFlag = 0
  BY <1>1, <1>3, <1>4, WorkerOpen
<1>6. CASE m_sendQ # <<>>
  <2>1. Run(t, <<"sp_check", "pend">>)
    BY <1>6 DEF TrySize
  <2>2. <<"pend">> \o Tail(pc[t]) = <<"pend", "update">>
    BY <1>4, Pushed
  <2>3. Returns(t, "sp_check", <<"pend">> \o Tail(pc[t]))
    BY <1>4, <2>2 DEF Returns, WorkerReturns
  <2>4. QED
    BY <1>1, <1>2, <1>3, <1>5, <2>1, <2>3, QuietTwo
<1>7. CASE m_sendQ = <<>>
  <2>1. Return(t)
    BY <1>7 DEF TrySize, Return
  <2>2. QED
    BY <1>1, <1>2, <1>3, <2>1, QuietNone
<1>8. QED
  BY <1>6, <1>7

\* sendPost looks at m_disconnect.
LEMMA KeepsSendCheck == ASSUME IInv, NEW t \in Threads, SendCheck(t) PROVE IInv'
<1>1. At(t, "sp_check")
  BY DEF SendCheck
<1>2. UNCHANGED <<QuietVars, id>> /\ id' \in 0 .. MaxConnects /\ m_ioCount' = m_ioCount + (0 - 0)
      /\ m_ioCount' = m_ioCount - 0
  BY DEF SendCheck, QuietVars, counts, IInv, Typed
<1>3. /\ "sp_check" \in Plain /\ "sp_xchg" \in Plain
      /\ {"sp_check", "sp_xchg"} \cap Receiving = {} /\ "sp_check" \in Using
      /\ I("sp_check", {"update"}) = 0 /\ I("sp_xchg", {"update"}) = 0
  BY DEF Plain, Functions, Calls, Using, Receiving, I
<1>4. CASE m_disconnect = 0
  <2>1. Run(t, <<"sp_xchg">>)
    BY <1>4 DEF SendCheck
  <2>2. Returns(t, "sp_xchg", Tail(pc[t]))
    BY <1>1, Callers DEF Returns, MainReturns, WorkerReturns
  <2>3. QED
    BY <1>1, <1>2, <1>3, <2>1, <2>2, QuietOne
<1>5. CASE m_disconnect # 0
  <2>1. Return(t)
    BY <1>5 DEF SendCheck, Return
  <2>2. QED
    BY <1>1, <1>2, <1>3, <2>1, QuietNone
<1>6. QED
  BY <1>4, <1>5

\* Another thread has set the flag.
LEMMA KeepsSendExchangeLost ==
    ASSUME IInv, NEW t \in Threads, SendExchange(t), m_sendFlag # 0 PROVE IInv'
<1>1. At(t, "sp_xchg") /\ Return(t)
  BY DEF SendExchange, Return
<1>2. UNCHANGED <<QuietVars, id>> /\ m_ioCount' = m_ioCount - 0
  BY DEF SendExchange, QuietVars, counts, sending, IInv, Typed
<1>3. "sp_xchg" \in Plain /\ "sp_xchg" \notin Receiving /\ I("sp_xchg", {"update"}) = 0
  BY DEF Plain, Functions, Calls, Receiving, I
<1>4. QED
  BY <1>1, <1>2, <1>3, QuietNone

\* The loop over the received bytes.
LEMMA KeepsParse == ASSUME IInv, NEW t \in Threads, Parse(t) PROVE IInv'
<1>1. At(t, "parse")
  BY DEF Parse
<1>2. UNCHANGED <<QuietVars, id>> /\ m_ioCount' = m_ioCount + (0 + 0 - 0)
      /\ m_ioCount' = m_ioCount - 0
  BY DEF Parse, QuietVars, counts, IInv, Typed
<1>3. /\ "parse" \in Plain /\ "disconnect" \in Plain
      /\ {"disconnect", "parse"} \cap Receiving = {} /\ "parse" \notin Receiving
      /\ "parse" \in Using /\ "disconnect" \notin Using
      /\ I("parse", {"update"}) = 0 /\ I("disconnect", {"update"}) = 0
  BY DEF Plain, Functions, Calls, Using, Receiving, I
<1>4. t # Main /\ Tail(pc[t]) = <<"recv_check", "update">>
  BY <1>1, Callers DEF Returns, MainReturns, WorkerReturns
<1>5. CASE Return(t)
  BY <1>1, <1>2, <1>3, <1>5, QuietNone
<1>6. CASE Run(t, <<"disconnect", "parse">>)
  <2>1. <<"parse">> \o Tail(pc[t]) = <<"parse", "recv_check", "update">>
    BY <1>4, Pushed, ZenonT(30)
  <2>2. Returns(t, "disconnect", <<"parse">> \o Tail(pc[t]))
    BY <1>4, <2>1 DEF Returns, WorkerReturns
  <2>3. QED
    BY <1>1, <1>2, <1>3, <1>6, <2>2, QuietTwo
<1>7. QED
  BY <1>5, <1>6 DEF Parse

\* disconnectSession on a connection that is disconnected already.
LEMMA KeepsDisconnectLate ==
    ASSUME IInv, NEW t \in Threads, DisconnectSession(t), m_disconnect # 0 PROVE IInv'
<1>1. At(t, "disconnect") /\ Return(t)
  BY DEF DisconnectSession, Return
<1>2. m_disconnect = 1
  BY DEF IInv, Typed
<1>3. UNCHANGED <<QuietVars, id>> /\ m_ioCount' = m_ioCount - 0
  BY <1>2 DEF DisconnectSession, QuietVars, counts, IInv, Typed
<1>4. "disconnect" \in Plain /\ I("disconnect", {"update"}) = 0
  BY DEF Plain, Functions, Calls, I
<1>5. QED
  BY <1>1, <1>2, <1>3, <1>4, QuietNone

\* The compare-exchange of releasePend fails.
LEMMA KeepsReleaseCasLost ==
    ASSUME IInv, NEW t \in Threads, ReleaseCas(t), ~(m_ioCount = 0 /\ m_releaseFlag = 0) PROVE IInv'
<1>1. At(t, "rel_cas") /\ Return(t)
  BY DEF ReleaseCas
<1>2. UNCHANGED <<QuietVars, id>> /\ m_ioCount' = m_ioCount - 0
  BY DEF ReleaseCas, QuietVars, IInv, Typed
<1>3. "rel_cas" \in Plain /\ "rel_cas" \notin Receiving /\ I("rel_cas", {"update"}) = 0
  BY DEF Plain, Functions, Calls, Receiving, I
<1>4. QED
  BY <1>1, <1>2, <1>3, QuietNone

\* Where updateIOCount is on top, nothing below it ends the connection.
LEMMA UpdateReturns ==
    ASSUME IInv, NEW t \in Threads, At(t, "update")
    PROVE  /\ ~Ending(t)
           /\ In({"update"}, Tail(pc[t])) = 0 => Returns(t, "rel_cas", Tail(pc[t]))
<1> DEFINE r == Tail(pc[t])
<1>1. /\ Returns(t, "update", r) /\ pc[t] \in Seq(Functions) /\ pc[t] # <<>>
      /\ Head(pc[t]) = "update"
      /\ r \in Seq(Functions)
  BY Callers DEF At
<1> HIDE DEF r
<1>2. \/ r \in {<<>>, <<"update">>, <<"pend", "update">>} /\ t # Main
      \/ r \in {<<>>, <<"recv_check", "update", "connected">>, <<"update", "connected">>,
                <<"connected">>} /\ t = Main
  BY <1>1 DEF Returns, WorkerReturns, MainReturns
<1>3. In({"disconnect"}, r) = 0
  BY <1>2, InNone, InOne, InTwo, InThree DEF I
<1>4. In({"disconnect"}, pc[t]) = I("update", {"disconnect"}) + In({"disconnect"}, r)
  BY <1>1, InTop DEF r
<1>5. ~Ending(t)
  BY <1>3, <1>4 DEF I, Ending
<1>6. In({"update"}, r) = 0 => r = <<>> \/ (r = <<"connected">> /\ t = Main)
  <2>1. /\ In({"update"}, <<"update">>) = 1 /\ In({"update"}, <<"pend", "update">>) = 1
        /\ In({"update"}, <<"recv_check", "update", "connected">>) = 1
        /\ In({"update"}, <<"update", "connected">>) = 1
    BY InOne, InTwo, InThree DEF I
  <2>2. QED
    BY <1>2, <2>1
<1>7. In({"update"}, r) = 0 => Returns(t, "rel_cas", r)
  BY <1>6 DEF Returns, WorkerReturns, MainReturns
<1>8. QED
  BY <1>5, <1>7 DEF r

\* updateIOCount gives a reference back and may find it was the last.
LEMMA KeepsUpdateIOCount == ASSUME IInv, NEW t \in Threads, UpdateIOCount(t) PROVE IInv'
<1>1. At(t, "update") /\ m_ioCount \in Int /\ m_ioCount' = m_ioCount - 1
  BY DEF UpdateIOCount, IInv, Typed
<1>2. UNCHANGED <<QuietVars, id>> /\ id' \in 0 .. MaxConnects
  BY DEF UpdateIOCount, QuietVars, IInv, Typed
<1>3. /\ "update" \in Plain /\ "rel_cas" \in Plain /\ "update" \notin Receiving
      /\ "rel_cas" \notin Receiving /\ "rel_cas" \notin Using
      /\ I("update", {"update"}) = 1 /\ I("rel_cas", {"update"}) = 0
  BY DEF Plain, Functions, Calls, Receiving, Using, I
<1>4. ~Ending(t) /\ (In({"update"}, Tail(pc[t])) = 0 => Returns(t, "rel_cas", Tail(pc[t])))
  BY <1>1, UpdateReturns
<1>5. /\ m_ioCount >= Total({"update"}, pc) /\ Total({"update"}, pc) >= In({"update"}, pc[t])
      /\ In({"update"}, pc[t]) = 1 + In({"update"}, Tail(pc[t]))
      /\ In({"update"}, Tail(pc[t])) \in Nat /\ Total({"update"}, pc) \in Nat
  <2>1. /\ StacksNat(pc) /\ PortNat(m_hcp) /\ KernelNat(posted)
    BY Counts DEF IInv
  <2>2. m_ioCount = Total({"update"}, pc) + Len(m_hcp) - In({"EXIT"}, m_hcp) + Cardinality(posted)
    BY DEF IInv, Counted
  <2>3. m_ioCount >= Total({"update"}, pc) /\ Total({"update"}, pc) \in Nat
    <3>1. /\ Total({"update"}, pc) \in Nat /\ Len(m_hcp) \in Nat /\ In({"EXIT"}, m_hcp) \in Nat
          /\ In({"EXIT"}, m_hcp) <= Len(m_hcp) /\ Cardinality(posted) \in Nat
      BY <2>1 DEF StacksNat, PortNat, KernelNat
    <3>2. QED
      BY <2>2, <3>1
  <2>4. /\ pc[t] \in Seq(Functions) /\ pc[t] # <<>> /\ Head(pc[t]) = "update"
        /\ Tail(pc[t]) \in Seq(Functions) /\ pc \in [Threads -> Seq(Functions)]
    BY <1>1, Callers DEF At
  <2>5. /\ In({"update"}, pc[t]) = 1 + In({"update"}, Tail(pc[t]))
        /\ In({"update"}, Tail(pc[t])) \in Nat
    BY <1>3, <2>4, InTop, InNat
  <2>6. /\ Total({"update"}, pc)
             = In({"update"}, pc[t]) + Cardinality({x \in Places({"update"}, pc) : x[1] # t})
        /\ Cardinality({x \in Places({"update"}, pc) : x[1] # t}) \in Nat
    BY <2>4, TotalSplit
  <2>7. QED
    BY <2>3, <2>5, <2>6
<1>6. CASE m_ioCount = 1
  <2>1. Run(t, <<"rel_cas">>)
    BY <1>6 DEF UpdateIOCount
  <2>2. Returns(t, "rel_cas", Tail(pc[t]))
    BY <1>4, <1>5, <1>6
  <2>3. m_ioCount' = m_ioCount + (I("rel_cas", {"update"}) - I("update", {"update"}))
    BY <1>1, <1>3
  <2>4. QED
    BY <1>1, <1>2, <1>3, <1>4, <2>1, <2>2, <2>3, QuietOne
<1>7. CASE m_ioCount # 1
  <2>1. ~(m_ioCount < 1)
    BY <1>1, <1>5
  <2>2. Return(t)
    BY <1>7, <2>1 DEF UpdateIOCount, Return
  <2>3. m_ioCount' = m_ioCount - I("update", {"update"})
    BY <1>1, <1>3
  <2>4. QED
    BY <1>1, <1>2, <1>3, <1>4, <2>2, <2>3, QuietNone
<1>8. QED
  BY <1>6, <1>7
-----------------------------------------------------------------------------
(* The steps that change what is shared *)

\* The packets are where they were.
LEMMA PacketsKept ==
    ASSUME IInv, Total({"clean"}, pc') = Total({"clean"}, pc),
           UNCHANGED <<m_sendQ, m_sentPacket, packets, left, id_generator>>
    PROVE  PacketsApart'
<1>1. Cleaning' = Cleaning /\ Cleaned' = Cleaned /\ Back' = Back
  BY DEF Cleaning, Cleaned, Back, packets
<1>2. QED
  BY <1>1 DEF IInv, PacketsApart, packets

\* The sums of these numbers.
Kernel(recv, send, n) ==
    /\ Ops("recv", posted') = Ops("recv", posted) + recv
    /\ Ops("send", posted') = Ops("send", posted) + send
    /\ Cardinality(posted') = Cardinality(posted) + n
SumsNat == /\ RecvTokens \in Nat /\ SendTokens \in Nat /\ Releasing \in Nat /\ Cleaning \in Nat
           /\ Sending \in Nat

\* The sums of the invariant are natural numbers.
LEMMA SumsAreNat == (Typed => SumsNat) /\ (Typed' => SumsNat')
<1>1. ASSUME Typed PROVE SumsNat
  <2>1. /\ Total(Receiving, pc) \in Nat /\ In({"RECV"}, m_hcp) \in Nat
        /\ Ops("recv", posted) \in Nat /\ Ops("send", posted) \in Nat
        /\ Total({"sp_size"}, pc) \in Nat /\ Total({"try_send"}, pc) \in Nat
        /\ In({"SEND"}, m_hcp) \in Nat /\ In({"SEND_PEND"}, m_hcp) \in Nat
        /\ Total({"rel_post", "release"}, pc) \in Nat /\ Total({"clean"}, pc) \in Nat
        /\ In({"RELEASE_PEND"}, m_hcp) \in Nat /\ Total({"sent"}, pc) \in Nat
    BY <1>1, Counts DEF StacksNat, PortNat, KernelNat
  <2>2. RecvTokens \in Nat
    BY <2>1 DEF RecvTokens
  <2>3. SendTokens \in Nat
    BY <2>1 DEF SendTokens
  <2>4. Releasing \in Nat /\ Cleaning \in Nat
    BY <2>1 DEF Releasing, Cleaning
  <2>5. Sending \in Nat
    BY <2>1 DEF Sending
  <2>6. QED
    BY <2>2, <2>3, <2>4, <2>5 DEF SumsNat
<1>2. ASSUME Typed' PROVE SumsNat'
  <2>1. /\ Total(Receiving, pc') \in Nat /\ In({"RECV"}, m_hcp') \in Nat
        /\ Ops("recv", posted') \in Nat /\ Ops("send", posted') \in Nat
        /\ Total({"sp_size"}, pc') \in Nat /\ Total({"try_send"}, pc') \in Nat
        /\ In({"SEND"}, m_hcp') \in Nat /\ In({"SEND_PEND"}, m_hcp') \in Nat
        /\ Total({"rel_post", "release"}, pc') \in Nat /\ Total({"clean"}, pc') \in Nat
        /\ In({"RELEASE_PEND"}, m_hcp') \in Nat /\ Total({"sent"}, pc') \in Nat
    BY <1>2, Counts DEF StacksNat, PortNat, KernelNat
  <2>2. RecvTokens' \in Nat
    BY <2>1 DEF RecvTokens
  <2>3. SendTokens' \in Nat
    BY <2>1 DEF SendTokens
  <2>4. Releasing' \in Nat /\ Cleaning' \in Nat
    BY <2>1 DEF Releasing, Cleaning
  <2>5. Sending' \in Nat
    BY <2>1 DEF Sending
  <2>6. QED
    BY <2>2, <2>3, <2>4, <2>5 DEF SumsNat
<1>3. QED
  BY <1>1, <1>2

\* What a step adds to each sum, from what it adds to the stacks, the port and the kernel.
LEMMA Sums ==
    ASSUME Typed,
           NEW u \in Int, NEW us \in Int, NEW rl \in Int, NEW cl \in Int, NEW rv \in Int,
           NEW sz \in Int, NEW ts \in Int, NEW sn \in Int, Stacks(u, us, rl, cl, rv, sz, ts, sn),
           NEW e \in Int, NEW use \in Int, NEW prl \in Int, NEW prv \in Int, NEW psd \in Int,
           NEW ppd \in Int, NEW pr0 \in Int, Port(e, use, prl, prv, psd, ppd, pr0),
           NEW krv \in Int, NEW ksd \in Int, NEW k \in Int, Kernel(krv, ksd, k)
    PROVE  /\ RecvTokens' = RecvTokens + (rv + prv + krv)
           /\ SendTokens' = SendTokens + (sz + ts + psd + ppd + ksd)
           /\ Releasing' = Releasing + (rl + prl)
           /\ Cleaning' = Cleaning + cl
           /\ Sending' = Sending + (ksd + psd + sn)
<1>1. StacksNat(pc) /\ PortNat(m_hcp) /\ KernelNat(posted)
  BY Counts
<1>2. RecvTokens' = RecvTokens + (rv + prv + krv)
  <2>1. /\ Total(Receiving, pc') = Total(Receiving, pc) + rv
        /\ In({"RECV"}, m_hcp') = In({"RECV"}, m_hcp) + prv
        /\ Ops("recv", posted') = Ops("recv", posted) + krv
    BY DEF Stacks, Port, Kernel
  <2>2. Total(Receiving, pc) \in Nat /\ In({"RECV"}, m_hcp) \in Nat /\ Ops("recv", posted) \in Nat
    BY <1>1 DEF StacksNat, PortNat, KernelNat
  <2>3. QED
    BY <2>1, <2>2 DEF RecvTokens
<1>3. SendTokens' = SendTokens + (sz + ts + psd + ppd + ksd)
  <2>1. /\ Total({"sp_size"}, pc') = Total({"sp_size"}, pc) + sz
        /\ Total({"try_send"}, pc') = Total({"try_send"}, pc) + ts
        /\ In({"SEND"}, m_hcp') = In({"SEND"}, m_hcp) + psd
        /\ In({"SEND_PEND"}, m_hcp') = In({"SEND_PEND"}, m_hcp) + ppd
        /\ Ops("send", posted') = Ops("send", posted) + ksd
    BY DEF Stacks, Port, Kernel
  <2>2. /\ Total({"sp_size"}, pc) \in Nat /\ Total({"try_send"}, pc) \in Nat
        /\ In({"SEND"}, m_hcp) \in Nat /\ In({"SEND_PEND"}, m_hcp) \in Nat
        /\ Ops("send", posted) \in Nat
    BY <1>1 DEF StacksNat, PortNat, KernelNat
  <2>3. QED
    BY <2>1, <2>2 DEF SendTokens
<1>4. Releasing' = Releasing + (rl + prl) /\ Cleaning' = Cleaning + cl
  <2>1. /\ Total({"rel_post", "release"}, pc') = Total({"rel_post", "release"}, pc) + rl
        /\ Total({"clean"}, pc') = Total({"clean"}, pc) + cl
        /\ In({"RELEASE_PEND"}, m_hcp') = In({"RELEASE_PEND"}, m_hcp) + prl
    BY DEF Stacks, Port
  <2>2. /\ Total({"rel_post", "release"}, pc) \in Nat /\ Total({"clean"}, pc) \in Nat
        /\ In({"RELEASE_PEND"}, m_hcp) \in Nat
    BY <1>1 DEF StacksNat, PortNat
  <2>3. QED
    BY <2>1, <2>2 DEF Releasing, Cleaning
<1>5. Sending' = Sending + (ksd + psd + sn)
  <2>1. /\ Total({"sent"}, pc') = Total({"sent"}, pc) + sn
        /\ In({"SEND"}, m_hcp') = In({"SEND"}, m_hcp) + psd
        /\ Ops("send", posted') = Ops("send", posted) + ksd
    BY DEF Stacks, Port, Kernel
  <2>2. Total({"sent"}, pc) \in Nat /\ In({"SEND"}, m_hcp) \in Nat /\ Ops("send", posted) \in Nat
    BY <1>1 DEF StacksNat, PortNat, KernelNat
  <2>3. QED
    BY <2>1, <2>2 DEF Sending
<1>6. QED
  BY <1>2, <1>3, <1>4, <1>5

\* The count follows what it counts.
LEMMA CountedBy ==
    ASSUME IInv, Typed', NEW u \in Int, NEW n \in Int, NEW e \in Int, NEW k \in Int,
           Total({"update"}, pc') = Total({"update"}, pc) + u, Len(m_hcp') = Len(m_hcp) + n,
           In({"EXIT"}, m_hcp') = In({"EXIT"}, m_hcp) + e,
           Cardinality(posted') = Cardinality(posted) + k,
           m_ioCount' = m_ioCount + (u + n - e + k)
    PROVE  Counted'
<1>1. /\ Total({"update"}, pc) \in Nat /\ Len(m_hcp) \in Nat /\ In({"EXIT"}, m_hcp) \in Nat
      /\ Cardinality(posted) \in Nat
  BY Counts DEF IInv, StacksNat, PortNat, KernelNat
<1>2. m_ioCount = Total({"update"}, pc) + Len(m_hcp) - In({"EXIT"}, m_hcp) + Cardinality(posted)
  BY DEF IInv, Counted
<1>3. Total({"update"}, pc') + Len(m_hcp') - In({"EXIT"}, m_hcp') + Cardinality(posted')
        = m_ioCount + (u + n - e + k)
  BY <1>1, <1>2, SMTT(30)
<1>4. QED
  BY <1>3 DEF Counted

\* Who watched the connection still does.
LEMMA WatchedBy ==
    ASSUME IInv, id_generator' = id_generator, m_disconnect' = m_disconnect \/ m_disconnect' # 0,
           RecvTokens + In({"RECV0"}, m_hcp) > 0 => RecvTokens' + In({"RECV0"}, m_hcp') > 0,
           \A t \in Threads : Ending(t) => Ending(t)'
    PROVE  Watched'
BY DEF IInv, Watched

\* What a step does to a packet at the end of the port.
LEMMA PortAppend ==
    ASSUME Typed, NEW p \in Posts, m_hcp' = Append(m_hcp, p)
    PROVE  /\ Port(I(p, {"EXIT"}), I(p, UsePosts), I(p, {"RELEASE_PEND"}), I(p, {"RECV"}),
                   I(p, {"SEND"}), I(p, {"SEND_PEND"}), I(p, {"RECV0"}))
           /\ Len(m_hcp') = Len(m_hcp) + 1 /\ m_hcp' \in Seq(Posts)
<1>1. m_hcp \in Seq(Posts)
  BY DEF Typed
<1>2. \A F : In(F, m_hcp') = In(F, m_hcp) + I(p, F)
  BY <1>1, InAppend
<1>3. QED
  BY <1>1, <1>2 DEF Port

\* A function of the session returns or calls one that is no call of the application.
LEMMA SessionNone ==
    ASSUME IInv, NEW t \in Threads, NEW f \in Functions \ Calls, At(t, f), Return(t),
           UNCHANGED <<switches, id_generator, joined>>
    PROVE  /\ Control' /\ Phase' /\ Fresh' /\ id_generator > 0
           /\ Ran(t, f, <<>>, Tail(pc[t])) /\ \A F : In(F, <<>>) = 0
           /\ Stacks(0 - I(f, {"update"}), 0 - I(f, Using), 0 - I(f, {"rel_post", "release"}),
                     0 - I(f, {"clean"}), 0 - I(f, Receiving), 0 - I(f, {"sp_size"}),
                     0 - I(f, {"try_send"}), 0 - I(f, {"sent"}))
           /\ In(Receiving, pc'[Main]) > 0 => In(Receiving, pc[Main]) > 0
<1>1. pc \in [Threads -> Seq(Functions)] /\ Control
  BY DEF IInv, Typed
<1>2. /\ Control' /\ Ran(t, f, <<>>, Tail(pc[t])) /\ \A F : In(F, <<>>) = 0
  BY <1>1, RunsNone
<1>3. <<>> \in Seq(Functions \ Calls)
  OBVIOUS
<1>4. Phase' /\ Fresh' /\ id_generator > 0
  BY <1>2, <1>3, InSession
<1>5. Stacks(0 - I(f, {"update"}), 0 - I(f, Using), 0 - I(f, {"rel_post", "release"}),
             0 - I(f, {"clean"}), 0 - I(f, Receiving), 0 - I(f, {"sp_size"}),
             0 - I(f, {"try_send"}), 0 - I(f, {"sent"}))
  <2>1. Stacks(In({"update"}, <<>>) - I(f, {"update"}), In(Using, <<>>) - I(f, Using),
               In({"rel_post", "release"}, <<>>) - I(f, {"rel_post", "release"}),
               In({"clean"}, <<>>) - I(f, {"clean"}), In(Receiving, <<>>) - I(f, Receiving),
               In({"sp_size"}, <<>>) - I(f, {"sp_size"}),
               In({"try_send"}, <<>>) - I(f, {"try_send"}),
               In({"sent"}, <<>>) - I(f, {"sent"}))
    BY <1>2, StacksBy
  <2>2. QED
    BY <1>2, <2>1
<1>6. In(Receiving, <<>>) <= I(f, Receiving)
  BY <1>2 DEF I
<1>7. In(Receiving, pc'[Main]) > 0 => In(Receiving, pc[Main]) > 0
  BY <1>2, <1>6, ReceivingKept DEF IInv
<1>8. QED
  BY <1>2, <1>4, <1>5, <1>7

\* A step on the open session that calls one function.
LEMMA SessionOne ==
    ASSUME IInv, NEW t \in Threads, NEW f \in Functions \ Calls, NEW x \in Functions \ Calls,
           At(t, f), Run(t, <<x>>), Returns(t, x, Tail(pc[t])), x \in Receiving => f \in Receiving,
           UNCHANGED <<switches, id_generator, joined>>
    PROVE  /\ Control' /\ Phase' /\ Fresh' /\ id_generator > 0
           /\ Ran(t, f, <<x>>, Tail(pc[t])) /\ \A F : In(F, <<x>>) = I(x, F)
           /\ Stacks(I(x, {"update"}) - I(f, {"update"}), I(x, Using) - I(f, Using),
                     I(x, {"rel_post", "release"}) - I(f, {"rel_post", "release"}),
                     I(x, {"clean"}) - I(f, {"clean"}), I(x, Receiving) - I(f, Receiving),
                     I(x, {"sp_size"}) - I(f, {"sp_size"}), I(x, {"try_send"}) - I(f, {"try_send"}),
                     I(x, {"sent"}) - I(f, {"sent"}))
           /\ In(Receiving, pc'[Main]) > 0 => In(Receiving, pc[Main]) > 0
<1>1. pc \in [Threads -> Seq(Functions)] /\ Control /\ x \in Functions
  BY DEF IInv, Typed
<1>2. /\ Control' /\ Ran(t, f, <<x>>, Tail(pc[t])) /\ \A F : In(F, <<x>>) = I(x, F)
  BY <1>1, RunsOne
<1>3. <<x>> \in Seq(Functions \ Calls)
  OBVIOUS
<1>4. Phase' /\ Fresh' /\ id_generator > 0
  BY <1>2, <1>3, InSession
<1>5. Stacks(I(x, {"update"}) - I(f, {"update"}), I(x, Using) - I(f, Using),
             I(x, {"rel_post", "release"}) - I(f, {"rel_post", "release"}),
             I(x, {"clean"}) - I(f, {"clean"}), I(x, Receiving) - I(f, Receiving),
             I(x, {"sp_size"}) - I(f, {"sp_size"}), I(x, {"try_send"}) - I(f, {"try_send"}),
             I(x, {"sent"}) - I(f, {"sent"}))
  <2>1. Stacks(In({"update"}, <<x>>) - I(f, {"update"}), In(Using, <<x>>) - I(f, Using),
               In({"rel_post", "release"}, <<x>>) - I(f, {"rel_post", "release"}),
               In({"clean"}, <<x>>) - I(f, {"clean"}), In(Receiving, <<x>>) - I(f, Receiving),
               In({"sp_size"}, <<x>>) - I(f, {"sp_size"}),
               In({"try_send"}, <<x>>) - I(f, {"try_send"}),
               In({"sent"}, <<x>>) - I(f, {"sent"}))
    BY <1>2, StacksBy
  <2>2. QED
    BY <1>2, <2>1
<1>6. In(Receiving, <<x>>) <= I(f, Receiving)
  BY <1>2 DEF I
<1>7. In(Receiving, pc'[Main]) > 0 => In(Receiving, pc[Main]) > 0
  BY <1>2, <1>6, ReceivingKept DEF IInv
<1>8. QED
  BY <1>2, <1>4, <1>5, <1>7

\* sendPend sets the flag and posts.
LEMMA KeepsSendPend == ASSUME IInv, NEW t \in Threads, SendPend(t), m_sendFlag = 0 PROVE IInv'
<1>1. /\ At(t, "pend") /\ Return(t) /\ m_sendFlag' = 1 /\ m_hcp' = Append(m_hcp, "SEND_PEND")
      /\ m_ioCount' = m_ioCount + 1
      /\ UNCHANGED <<switches, m_disconnect, m_releaseFlag, m_sendQ, m_sentPacket, ids, posted, id,
                     packets, events>>
  BY DEF SendPend, Post
<1>2. /\ Control' /\ Phase' /\ Fresh' /\ id_generator > 0
      /\ Ran(t, "pend", <<>>, Tail(pc[t])) /\ Stacks(0, -1, 0, 0, 0, 0, 0, 0)
      /\ In(Receiving, pc'[Main]) > 0 => In(Receiving, pc[Main]) > 0
  <2>1. "pend" \in Functions \ Calls
    BY DEF Functions, Calls
  <2>2. UNCHANGED <<switches, id_generator, joined>>
    BY <1>1 DEF ids, events
  <2>3. /\ I("pend", {"update"}) = 0 /\ I("pend", Using) = 1
        /\ I("pend", {"rel_post", "release"}) = 0
        /\ I("pend", {"clean"}) = 0 /\ I("pend", Receiving) = 0 /\ I("pend", {"sp_size"}) = 0
        /\ I("pend", {"try_send"}) = 0 /\ I("pend", {"sent"}) = 0
        /\ 0 - 0 = 0 /\ 0 - 1 = -1
    BY DEF I, Using, Receiving
  <2>4. QED
    BY <1>1, <2>1, <2>2, <2>3, SessionNone
<1>3. Port(0, 1, 0, 0, 0, 1, 0) /\ Len(m_hcp') = Len(m_hcp) + 1 /\ m_hcp' \in Seq(Posts)
  <2>1. "SEND_PEND" \in Posts
    BY DEF Posts
  <2>2. /\ I("SEND_PEND", {"EXIT"}) = 0 /\ I("SEND_PEND", UsePosts) = 1
        /\ I("SEND_PEND", {"RELEASE_PEND"}) = 0
        /\ I("SEND_PEND", {"RECV"}) = 0 /\ I("SEND_PEND", {"SEND"}) = 0
        /\ I("SEND_PEND", {"SEND_PEND"}) = 1
        /\ I("SEND_PEND", {"RECV0"}) = 0
    BY DEF I, UsePosts
  <2>3. QED
    BY <1>1, <2>1, <2>2, PortAppend DEF IInv
<1>4. Typed'
  <2>1. m_ioCount' \in Int
    BY <1>1 DEF IInv, Typed
  <2>2. QED
    BY <1>1, <1>2, <1>3, <2>1 DEF IInv, Typed, Ran, switches, ids, packets
<1>5. /\ RecvTokens' = RecvTokens /\ SendTokens' = SendTokens + 1 /\ Releasing' = Releasing
      /\ Cleaning' = Cleaning /\ Sending' = Sending
      /\ In({"EXIT"}, m_hcp') = In({"EXIT"}, m_hcp) /\ In({"RECV0"}, m_hcp') = In({"RECV0"}, m_hcp)
      /\ In({"SEND_PEND"}, m_hcp') = In({"SEND_PEND"}, m_hcp) + 1
      /\ In(UsePosts, m_hcp') = In(UsePosts, m_hcp) + 1
      /\ Total({"update"}, pc') = Total({"update"}, pc) /\ Total(Using, pc') = Total(Using, pc) - 1
      /\ Total({"clean"}, pc') = Total({"clean"}, pc)
      /\ Total({"sp_size"}, pc') = Total({"sp_size"}, pc)
      /\ Total({"try_send"}, pc') = Total({"try_send"}, pc)
      /\ Total({"sent"}, pc') = Total({"sent"}, pc)
      /\ SumsNat /\ StacksNat(pc) /\ PortNat(m_hcp) /\ KernelNat(posted)
  <2>1. StacksNat(pc) /\ PortNat(m_hcp) /\ KernelNat(posted) /\ SumsNat
    BY Counts, SumsAreNat DEF IInv
  <2>2. Stacks(0, -1, 0, 0, 0, 0, 0, 0) /\ Port(0, 1, 0, 0, 0, 1, 0) /\ Kernel(0, 0, 0)
    <3>1. Kernel(0, 0, 0)
      BY <1>1, <2>1 DEF Kernel, KernelNat
    <3>2. QED
      BY <1>2, <1>3, <3>1
  <2>3. /\ RecvTokens' = RecvTokens + (0 + 0 + 0) /\ SendTokens' = SendTokens + (0 + 0 + 0 + 1 + 0)
        /\ Releasing' = Releasing + (0 + 0) /\ Cleaning' = Cleaning + 0
        /\ Sending' = Sending + (0 + 0 + 0)
    <3>1. -1 \in Int /\ 0 \in Int /\ 1 \in Int /\ Typed
      BY DEF IInv
    <3>2. QED
      BY <2>2, <3>1, Sums
  <2>4. /\ RecvTokens' = RecvTokens /\ SendTokens' = SendTokens + 1 /\ Releasing' = Releasing
        /\ Cleaning' = Cleaning /\ Sending' = Sending
    BY <2>1, <2>3 DEF SumsNat
  <2>5. /\ In({"EXIT"}, m_hcp') = In({"EXIT"}, m_hcp)
        /\ In({"RECV0"}, m_hcp') = In({"RECV0"}, m_hcp)
        /\ In({"SEND_PEND"}, m_hcp') = In({"SEND_PEND"}, m_hcp) + 1
        /\ In(UsePosts, m_hcp') = In(UsePosts, m_hcp) + 1
    BY <2>1, <2>2 DEF Port, PortNat
  <2>6. /\ Total({"update"}, pc') = Total({"update"}, pc)
        /\ Total(Using, pc') = Total(Using, pc) - 1
        /\ Total({"clean"}, pc') = Total({"clean"}, pc)
        /\ Total({"sp_size"}, pc') = Total({"sp_size"}, pc)
        /\ Total({"try_send"}, pc') = Total({"try_send"}, pc)
        /\ Total({"sent"}, pc') = Total({"sent"}, pc)
    BY <2>1, <2>2 DEF Stacks, StacksNat
  <2>7. QED
    BY <2>1, <2>4, <2>5, <2>6
<1>6. id_generator = 1 => m_releaseFlag = 0
  <2>1. "pend" \in Using
    BY DEF Using
  <2>2. QED
    BY <1>1, <2>1, OnTop
<1>7. Joining' /\ Known'
  BY <1>1, <1>2 DEF IInv, Joining, Known, ids
<1>8. ClosedIdle'
  BY <1>1, <1>6 DEF ClosedIdle, ids
<1>9. Stage' /\ OneReceive' /\ OneSend'
  BY <1>1, <1>5 DEF IInv, Stage, OneReceive, OneSend, SumsNat, ids, switches, events
<1>10. SentEmpty'
  BY <1>1, <1>5 DEF IInv, SentEmpty, ids
<1>11. Watched'
  BY <1>1, <1>2, <1>5, EndingKept, WatchedBy DEF ids
<1>12. PacketsApart'
  BY <1>1, <1>5, PacketsKept DEF ids, events
<1>13. Counted'
  <2>1. /\ Total({"update"}, pc) \in Nat /\ In({"EXIT"}, m_hcp) \in Nat
        /\ Cardinality(posted) \in Nat /\ Len(m_hcp) \in Nat /\ m_ioCount \in Int
    BY <1>5 DEF StacksNat, PortNat, KernelNat, IInv, Typed
  <2>2. m_ioCount' = m_ioCount + (0 + 1 - 0 + 0)
    BY <1>1, <2>1
  <2>3. /\ Total({"update"}, pc') = Total({"update"}, pc) + 0
        /\ In({"EXIT"}, m_hcp') = In({"EXIT"}, m_hcp) + 0
        /\ Len(m_hcp') = Len(m_hcp) + 1 /\ Cardinality(posted') = Cardinality(posted) + 0
    BY <1>1, <1>3, <1>5, <2>1
  <2>4. 0 \in Int /\ 1 \in Int
    OBVIOUS
  <2>5. QED
    BY <1>4, <2>2, <2>3, <2>4, CountedBy
<1>14. QED
  BY <1>2, <1>4, <1>7, <1>8, <1>9, <1>10, <1>11, <1>12, <1>13 DEF IInv

\* The first to end the connection.
LEMMA KeepsDisconnectFirst ==
    ASSUME IInv, NEW t \in Threads, DisconnectSession(t), m_disconnect = 0 PROVE IInv'
<1>1. /\ At(t, "disconnect") /\ Run(t, <<"dc_cancel">>) /\ m_disconnect' = 1
      /\ UNCHANGED <<switches, counts, sending, ids, kernel, id, packets, events>>
      /\ m_ioCount' = m_ioCount + 0 /\ m_hcp' = m_hcp /\ posted' = posted
  BY DEF DisconnectSession, counts, kernel, IInv, Typed
<1>2. /\ Control' /\ Phase' /\ Fresh' /\ id_generator > 0
      /\ Ran(t, "disconnect", <<"dc_cancel">>, Tail(pc[t])) /\ Stacks(0, 0, 0, 0, 0, 0, 0, 0)
      /\ In(Receiving, pc'[Main]) > 0 => In(Receiving, pc[Main]) > 0
  <2>1. /\ "disconnect" \in Functions \ Calls /\ "dc_cancel" \in Functions \ Calls
        /\ ("dc_cancel" \in Receiving => "disconnect" \in Receiving)
    BY DEF Functions, Calls, Receiving
  <2>2. UNCHANGED <<switches, id_generator, joined>>
    BY <1>1 DEF ids, events
  <2>3. /\ I("disconnect", {"update"}) = 0 /\ I("disconnect", Using) = 0
        /\ I("disconnect", {"rel_post", "release"}) = 0
        /\ I("disconnect", {"clean"}) = 0 /\ I("disconnect", Receiving) = 0
        /\ I("disconnect", {"sp_size"}) = 0
        /\ I("disconnect", {"try_send"}) = 0 /\ I("disconnect", {"sent"}) = 0
    BY DEF I, Using, Receiving
  <2>4. /\ I("dc_cancel", {"update"}) = 0 /\ I("dc_cancel", Using) = 0
        /\ I("dc_cancel", {"rel_post", "release"}) = 0
        /\ I("dc_cancel", {"clean"}) = 0 /\ I("dc_cancel", Receiving) = 0
        /\ I("dc_cancel", {"sp_size"}) = 0
        /\ I("dc_cancel", {"try_send"}) = 0 /\ I("dc_cancel", {"sent"}) = 0
        /\ 0 - 0 = 0
    BY DEF I, Using, Receiving
  <2>5. Returns(t, "dc_cancel", Tail(pc[t]))
    <3>1. Returns(t, "disconnect", Tail(pc[t]))
      BY <1>1, Callers
    <3>2. QED
      BY <3>1 DEF Returns, MainReturns, WorkerReturns
  <2>6. QED
    BY <1>1, <2>1, <2>2, <2>3, <2>4, <2>5, SessionOne
<1>3. Typed'
  <2>1. m_ioCount' \in Int
    BY <1>1 DEF IInv, Typed
  <2>2. QED
    BY <1>1, <1>2, <2>1 DEF IInv, Typed, Ran, switches, counts, sending, ids, packets
<1>4. /\ RecvTokens' = RecvTokens /\ SendTokens' = SendTokens /\ Releasing' = Releasing
      /\ Cleaning' = Cleaning /\ Sending' = Sending
      /\ In({"EXIT"}, m_hcp') = In({"EXIT"}, m_hcp) /\ In({"RECV0"}, m_hcp') = In({"RECV0"}, m_hcp)
      /\ In({"SEND_PEND"}, m_hcp') = In({"SEND_PEND"}, m_hcp)
      /\ In(UsePosts, m_hcp') = In(UsePosts, m_hcp)
      /\ Total({"update"}, pc') = Total({"update"}, pc) /\ Total(Using, pc') = Total(Using, pc)
      /\ Total({"clean"}, pc') = Total({"clean"}, pc)
      /\ Total({"sp_size"}, pc') = Total({"sp_size"}, pc)
      /\ Total({"try_send"}, pc') = Total({"try_send"}, pc)
      /\ Total({"sent"}, pc') = Total({"sent"}, pc)
      /\ SumsNat /\ StacksNat(pc) /\ PortNat(m_hcp) /\ KernelNat(posted)
  <2>1. StacksNat(pc) /\ PortNat(m_hcp) /\ KernelNat(posted) /\ SumsNat
    BY Counts, SumsAreNat DEF IInv
  <2>2. Stacks(0, 0, 0, 0, 0, 0, 0, 0) /\ Port(0, 0, 0, 0, 0, 0, 0) /\ Kernel(0, 0, 0)
    <3>1. Port(0, 0, 0, 0, 0, 0, 0)
      BY <1>1, <2>1 DEF Port, PortNat
    <3>2. Kernel(0, 0, 0)
      BY <1>1, <2>1 DEF Kernel, KernelNat
    <3>3. QED
      BY <1>2, <3>1, <3>2
  <2>3. /\ RecvTokens' = RecvTokens + (0 + 0 + 0) /\ SendTokens' = SendTokens + (0 + 0 + 0 + 0 + 0)
        /\ Releasing' = Releasing + (0 + 0) /\ Cleaning' = Cleaning + 0
        /\ Sending' = Sending + (0 + 0 + 0)
    <3>1. 0 \in Int /\ Typed
      BY DEF IInv
    <3>2. QED
      BY <2>2, <3>1, Sums
  <2>4. /\ RecvTokens' = RecvTokens /\ SendTokens' = SendTokens /\ Releasing' = Releasing
        /\ Cleaning' = Cleaning /\ Sending' = Sending
    BY <2>1, <2>3 DEF SumsNat
  <2>5. /\ In({"EXIT"}, m_hcp') = In({"EXIT"}, m_hcp)
        /\ In({"RECV0"}, m_hcp') = In({"RECV0"}, m_hcp)
        /\ In({"SEND_PEND"}, m_hcp') = In({"SEND_PEND"}, m_hcp)
        /\ In(UsePosts, m_hcp') = In(UsePosts, m_hcp)
    BY <2>1, <2>2 DEF Port, PortNat
  <2>6. /\ Total({"update"}, pc') = Total({"update"}, pc) /\ Total(Using, pc') = Total(Using, pc)
        /\ Total({"clean"}, pc') = Total({"clean"}, pc)
        /\ Total({"sp_size"}, pc') = Total({"sp_size"}, pc)
        /\ Total({"try_send"}, pc') = Total({"try_send"}, pc)
        /\ Total({"sent"}, pc') = Total({"sent"}, pc)
    BY <2>1, <2>2 DEF Stacks, StacksNat
  <2>7. QED
    BY <2>1, <2>4, <2>5, <2>6
<1>5. Joining' /\ Known'
  BY <1>1, <1>2 DEF IInv, Joining, Known, ids
<1>6. ClosedIdle'
  BY <1>1, <1>4 DEF IInv, ClosedIdle, ids, counts
<1>7. Stage' /\ OneReceive' /\ OneSend'
  BY <1>1, <1>4 DEF IInv, Stage, OneReceive, OneSend, SumsNat, ids, switches, events, counts,
     sending
<1>8. SentEmpty'
  BY <1>1, <1>4 DEF IInv, SentEmpty, ids, sending
<1>9. Watched'
  BY <1>1 DEF Watched
<1>10. PacketsApart'
  BY <1>1, <1>4, PacketsKept DEF ids, events, sending
<1>11. Counted'
  <2>1. /\ Total({"update"}, pc) \in Nat /\ In({"EXIT"}, m_hcp) \in Nat
        /\ Cardinality(posted) \in Nat /\ Len(m_hcp) \in Nat /\ m_ioCount \in Int
    BY <1>4 DEF StacksNat, PortNat, KernelNat, IInv, Typed
  <2>2. m_ioCount' = m_ioCount + (0 + 0 - 0 + 0)
    BY <1>1, <2>1
  <2>3. /\ Total({"update"}, pc') = Total({"update"}, pc) + 0
        /\ In({"EXIT"}, m_hcp') = In({"EXIT"}, m_hcp) + 0
        /\ Len(m_hcp') = Len(m_hcp) + 0 /\ Cardinality(posted') = Cardinality(posted) + 0
    BY <1>1, <1>4, <2>1
  <2>4. 0 \in Int
    OBVIOUS
  <2>5. QED
    BY <1>3, <2>2, <2>3, <2>4, CountedBy
<1>12. QED
  BY <1>2, <1>3, <1>5, <1>6, <1>7, <1>8, <1>9, <1>10, <1>11 DEF IInv

\* sendPost gets the flag.
LEMMA KeepsSendExchange ==
    ASSUME IInv, NEW t \in Threads, SendExchange(t), m_sendFlag = 0 PROVE IInv'
<1>1. /\ At(t, "sp_xchg") /\ Run(t, <<"sp_size">>) /\ m_sendFlag' = 1
      /\ UNCHANGED <<switches, m_disconnect, counts, m_sendQ, m_sentPacket, ids, kernel, id, packets,
                     events>>
      /\ m_ioCount' = m_ioCount + 0 /\ m_hcp' = m_hcp /\ posted' = posted
  BY DEF SendExchange, counts, kernel, IInv, Typed
<1>2. /\ Control' /\ Phase' /\ Fresh' /\ id_generator > 0
      /\ Ran(t, "sp_xchg", <<"sp_size">>, Tail(pc[t])) /\ Stacks(0, 0, 0, 0, 0, 1, 0, 0)
      /\ In(Receiving, pc'[Main]) > 0 => In(Receiving, pc[Main]) > 0
  <2>1. /\ "sp_xchg" \in Functions \ Calls /\ "sp_size" \in Functions \ Calls
        /\ ("sp_size" \in Receiving => "sp_xchg" \in Receiving)
    BY DEF Functions, Calls, Receiving
  <2>2. UNCHANGED <<switches, id_generator, joined>>
    BY <1>1 DEF ids, events
  <2>3. /\ I("sp_xchg", {"update"}) = 0 /\ I("sp_xchg", Using) = 1
        /\ I("sp_xchg", {"rel_post", "release"}) = 0
        /\ I("sp_xchg", {"clean"}) = 0 /\ I("sp_xchg", Receiving) = 0
        /\ I("sp_xchg", {"sp_size"}) = 0
        /\ I("sp_xchg", {"try_send"}) = 0 /\ I("sp_xchg", {"sent"}) = 0
    BY DEF I, Using, Receiving
  <2>4. /\ I("sp_size", {"update"}) = 0 /\ I("sp_size", Using) = 1
        /\ I("sp_size", {"rel_post", "release"}) = 0
        /\ I("sp_size", {"clean"}) = 0 /\ I("sp_size", Receiving) = 0
        /\ I("sp_size", {"sp_size"}) = 1
        /\ I("sp_size", {"try_send"}) = 0 /\ I("sp_size", {"sent"}) = 0
        /\ 0 - 0 = 0 /\ 1 - 0 = 1 /\ 1 - 1 = 0
    BY DEF I, Using, Receiving
  <2>5. Returns(t, "sp_size", Tail(pc[t]))
    <3>1. Returns(t, "sp_xchg", Tail(pc[t]))
      BY <1>1, Callers
    <3>2. QED
      BY <3>1 DEF Returns, MainReturns, WorkerReturns
  <2>6. QED
    BY <1>1, <2>1, <2>2, <2>3, <2>4, <2>5, SessionOne
<1>3. Typed'
  <2>1. m_ioCount' \in Int
    BY <1>1 DEF IInv, Typed
  <2>2. QED
    BY <1>1, <1>2, <2>1 DEF IInv, Typed, Ran, switches, counts, ids, packets
<1>4. /\ RecvTokens' = RecvTokens /\ SendTokens' = SendTokens + 1 /\ Releasing' = Releasing
      /\ Cleaning' = Cleaning /\ Sending' = Sending
      /\ In({"EXIT"}, m_hcp') = In({"EXIT"}, m_hcp) /\ In({"RECV0"}, m_hcp') = In({"RECV0"}, m_hcp)
      /\ In({"SEND_PEND"}, m_hcp') = In({"SEND_PEND"}, m_hcp)
      /\ In(UsePosts, m_hcp') = In(UsePosts, m_hcp)
      /\ Total({"update"}, pc') = Total({"update"}, pc) /\ Total(Using, pc') = Total(Using, pc)
      /\ Total({"clean"}, pc') = Total({"clean"}, pc)
      /\ Total({"sp_size"}, pc') = Total({"sp_size"}, pc) + 1
      /\ Total({"try_send"}, pc') = Total({"try_send"}, pc)
      /\ Total({"sent"}, pc') = Total({"sent"}, pc)
      /\ SumsNat /\ StacksNat(pc) /\ PortNat(m_hcp) /\ KernelNat(posted)
  <2>1. StacksNat(pc) /\ PortNat(m_hcp) /\ KernelNat(posted) /\ SumsNat
    BY Counts, SumsAreNat DEF IInv
  <2>2. Stacks(0, 0, 0, 0, 0, 1, 0, 0) /\ Port(0, 0, 0, 0, 0, 0, 0) /\ Kernel(0, 0, 0)
    <3>1. Port(0, 0, 0, 0, 0, 0, 0)
      BY <1>1, <2>1 DEF Port, PortNat
    <3>2. Kernel(0, 0, 0)
      BY <1>1, <2>1 DEF Kernel, KernelNat
    <3>3. QED
      BY <1>2, <3>1, <3>2
  <2>3. /\ RecvTokens' = RecvTokens + (0 + 0 + 0) /\ SendTokens' = SendTokens + (1 + 0 + 0 + 0 + 0)
        /\ Releasing' = Releasing + (0 + 0) /\ Cleaning' = Cleaning + 0
        /\ Sending' = Sending + (0 + 0 + 0)
    <3>1. 0 \in Int /\ 1 \in Int /\ Typed
      BY DEF IInv
    <3>2. QED
      BY <2>2, <3>1, Sums
  <2>4. /\ RecvTokens' = RecvTokens /\ SendTokens' = SendTokens + 1 /\ Releasing' = Releasing
        /\ Cleaning' = Cleaning /\ Sending' = Sending
    BY <2>1, <2>3 DEF SumsNat
  <2>5. /\ In({"EXIT"}, m_hcp') = In({"EXIT"}, m_hcp)
        /\ In({"RECV0"}, m_hcp') = In({"RECV0"}, m_hcp)
        /\ In({"SEND_PEND"}, m_hcp') = In({"SEND_PEND"}, m_hcp)
        /\ In(UsePosts, m_hcp') = In(UsePosts, m_hcp)
    BY <2>1, <2>2 DEF Port, PortNat
  <2>6. /\ Total({"update"}, pc') = Total({"update"}, pc) /\ Total(Using, pc') = Total(Using, pc)
        /\ Total({"clean"}, pc') = Total({"clean"}, pc)
        /\ Total({"sp_size"}, pc') = Total({"sp_size"}, pc) + 1
        /\ Total({"try_send"}, pc') = Total({"try_send"}, pc)
        /\ Total({"sent"}, pc') = Total({"sent"}, pc)
    BY <2>1, <2>2 DEF Stacks, StacksNat
  <2>7. QED
    BY <2>1, <2>4, <2>5, <2>6
<1>5. id_generator = 1 => m_releaseFlag = 0
  <2>1. "sp_xchg" \in Using
    BY DEF Using
  <2>2. QED
    BY <1>1, <2>1, OnTop
<1>6. Joining' /\ Known'
  BY <1>1, <1>2 DEF IInv, Joining, Known, ids
<1>7. ClosedIdle'
  BY <1>1, <1>5 DEF ClosedIdle, ids, counts
<1>8. Stage' /\ OneReceive' /\ OneSend'
  BY <1>1, <1>4 DEF IInv, Stage, OneReceive, OneSend, SumsNat, ids, switches, events, counts
<1>9. SentEmpty'
  BY <1>1, <1>4 DEF IInv, SentEmpty, ids
<1>10. Watched'
  BY <1>1, <1>2, <1>4, EndingKept, WatchedBy DEF ids
<1>11. PacketsApart'
  BY <1>1, <1>4, PacketsKept DEF ids, events
<1>12. Counted'
  <2>1. /\ Total({"update"}, pc) \in Nat /\ In({"EXIT"}, m_hcp) \in Nat
        /\ Cardinality(posted) \in Nat /\ Len(m_hcp) \in Nat /\ m_ioCount \in Int
    BY <1>4 DEF StacksNat, PortNat, KernelNat, IInv, Typed
  <2>2. m_ioCount' = m_ioCount + (0 + 0 - 0 + 0)
    BY <1>1, <2>1
  <2>3. /\ Total({"update"}, pc') = Total({"update"}, pc) + 0
        /\ In({"EXIT"}, m_hcp') = In({"EXIT"}, m_hcp) + 0
        /\ Len(m_hcp') = Len(m_hcp) + 0 /\ Cardinality(posted') = Cardinality(posted) + 0
    BY <1>1, <1>4, <2>1
  <2>4. 0 \in Int
    OBVIOUS
  <2>5. QED
    BY <1>3, <2>2, <2>3, <2>4, CountedBy
<1>13. QED
  BY <1>2, <1>3, <1>6, <1>7, <1>8, <1>9, <1>10, <1>11, <1>12 DEF IInv

\* sendPost finds the queue empty and lets the flag go.
LEMMA KeepsSendNothing == ASSUME IInv, NEW t \in Threads, SendNothing(t) PROVE IInv'
<1>1. /\ At(t, "sp_size") /\ Return(t) /\ m_sendFlag' = 0
      /\ UNCHANGED <<switches, m_disconnect, counts, m_sendQ, m_sentPacket, ids, kernel, id, packets,
                     events>>
      /\ m_ioCount' = m_ioCount + 0 /\ m_hcp' = m_hcp /\ posted' = posted
  BY DEF SendNothing, counts, kernel, IInv, Typed
<1>2. /\ Control' /\ Phase' /\ Fresh' /\ id_generator > 0
      /\ Ran(t, "sp_size", <<>>, Tail(pc[t])) /\ Stacks(0, -1, 0, 0, 0, -1, 0, 0)
      /\ In(Receiving, pc'[Main]) > 0 => In(Receiving, pc[Main]) > 0
  <2>1. "sp_size" \in Functions \ Calls
    BY DEF Functions, Calls
  <2>2. UNCHANGED <<switches, id_generator, joined>>
    BY <1>1 DEF ids, events
  <2>3. /\ I("sp_size", {"update"}) = 0 /\ I("sp_size", Using) = 1
        /\ I("sp_size", {"rel_post", "release"}) = 0
        /\ I("sp_size", {"clean"}) = 0 /\ I("sp_size", Receiving) = 0
        /\ I("sp_size", {"sp_size"}) = 1
        /\ I("sp_size", {"try_send"}) = 0 /\ I("sp_size", {"sent"}) = 0
        /\ 0 - 0 = 0 /\ 0 - 1 = -1
    BY DEF I, Using, Receiving
  <2>4. QED
    BY <1>1, <2>1, <2>2, <2>3, SessionNone
<1>3. Typed'
  <2>1. m_ioCount' \in Int
    BY <1>1 DEF IInv, Typed
  <2>2. QED
    BY <1>1, <1>2, <2>1 DEF IInv, Typed, Ran, switches, counts, ids, packets
<1>4. /\ RecvTokens' = RecvTokens /\ SendTokens' = SendTokens - 1 /\ Releasing' = Releasing
      /\ Cleaning' = Cleaning /\ Sending' = Sending
      /\ In({"EXIT"}, m_hcp') = In({"EXIT"}, m_hcp) /\ In({"RECV0"}, m_hcp') = In({"RECV0"}, m_hcp)
      /\ In({"SEND_PEND"}, m_hcp') = In({"SEND_PEND"}, m_hcp)
      /\ In(UsePosts, m_hcp') = In(UsePosts, m_hcp)
      /\ Total({"update"}, pc') = Total({"update"}, pc) /\ Total(Using, pc') = Total(Using, pc) - 1
      /\ Total({"clean"}, pc') = Total({"clean"}, pc)
      /\ Total({"sp_size"}, pc') = Total({"sp_size"}, pc) - 1
      /\ Total({"try_send"}, pc') = Total({"try_send"}, pc)
      /\ Total({"sent"}, pc') = Total({"sent"}, pc)
      /\ SumsNat /\ StacksNat(pc) /\ PortNat(m_hcp) /\ KernelNat(posted)
  <2>1. StacksNat(pc) /\ PortNat(m_hcp) /\ KernelNat(posted) /\ SumsNat
    BY Counts, SumsAreNat DEF IInv
  <2>2. Stacks(0, -1, 0, 0, 0, -1, 0, 0) /\ Port(0, 0, 0, 0, 0, 0, 0) /\ Kernel(0, 0, 0)
    <3>1. Port(0, 0, 0, 0, 0, 0, 0)
      BY <1>1, <2>1 DEF Port, PortNat
    <3>2. Kernel(0, 0, 0)
      BY <1>1, <2>1 DEF Kernel, KernelNat
    <3>3. QED
      BY <1>2, <3>1, <3>2
  <2>3. /\ RecvTokens' = RecvTokens + (0 + 0 + 0) /\ SendTokens' = SendTokens + (-1 + 0 + 0 + 0 + 0)
        /\ Releasing' = Releasing + (0 + 0) /\ Cleaning' = Cleaning + 0
        /\ Sending' = Sending + (0 + 0 + 0)
    <3>1. -1 \in Int /\ 0 \in Int /\ Typed
      BY DEF IInv
    <3>2. QED
      BY <2>2, <3>1, Sums
  <2>4. /\ RecvTokens' = RecvTokens /\ SendTokens' = SendTokens - 1 /\ Releasing' = Releasing
        /\ Cleaning' = Cleaning /\ Sending' = Sending
    BY <2>1, <2>3 DEF SumsNat
  <2>5. /\ In({"EXIT"}, m_hcp') = In({"EXIT"}, m_hcp)
        /\ In({"RECV0"}, m_hcp') = In({"RECV0"}, m_hcp)
        /\ In({"SEND_PEND"}, m_hcp') = In({"SEND_PEND"}, m_hcp)
        /\ In(UsePosts, m_hcp') = In(UsePosts, m_hcp)
    BY <2>1, <2>2 DEF Port, PortNat
  <2>6. /\ Total({"update"}, pc') = Total({"update"}, pc)
        /\ Total(Using, pc') = Total(Using, pc) - 1
        /\ Total({"clean"}, pc') = Total({"clean"}, pc)
        /\ Total({"sp_size"}, pc') = Total({"sp_size"}, pc) - 1
        /\ Total({"try_send"}, pc') = Total({"try_send"}, pc)
        /\ Total({"sent"}, pc') = Total({"sent"}, pc)
    BY <2>1, <2>2 DEF Stacks, StacksNat
  <2>7. QED
    BY <2>1, <2>4, <2>5, <2>6
<1>5. id_generator = 1 => m_releaseFlag = 0
  <2>1. "sp_size" \in Using
    BY DEF Using
  <2>2. QED
    BY <1>1, <2>1, OnTop
<1>6. Joining' /\ Known'
  BY <1>1, <1>2 DEF IInv, Joining, Known, ids
<1>7. ClosedIdle'
  BY <1>1, <1>5 DEF ClosedIdle, ids, counts
<1>8. Stage' /\ OneReceive' /\ OneSend'
  BY <1>1, <1>4 DEF IInv, Stage, OneReceive, OneSend, SumsNat, ids, switches, events, counts
<1>9. SentEmpty'
  <2>1. Total({"sp_size"}, pc) > 0
    <3>1. Total({"sp_size"}, pc) >= 1 /\ Total({"sp_size"}, pc) \in Nat
      BY <1>1, <1>4, OnTop DEF StacksNat
    <3>2. QED
      BY <3>1
  <2>2. QED
    BY <1>1, <1>4, <2>1 DEF IInv, SentEmpty, ids
<1>10. Watched'
  BY <1>1, <1>2, <1>4, EndingKept, WatchedBy DEF ids
<1>11. PacketsApart'
  BY <1>1, <1>4, PacketsKept DEF ids, events
<1>12. Counted'
  <2>1. /\ Total({"update"}, pc) \in Nat /\ In({"EXIT"}, m_hcp) \in Nat
        /\ Cardinality(posted) \in Nat /\ Len(m_hcp) \in Nat /\ m_ioCount \in Int
    BY <1>4 DEF StacksNat, PortNat, KernelNat, IInv, Typed
  <2>2. m_ioCount' = m_ioCount + (0 + 0 - 0 + 0)
    BY <1>1, <2>1
  <2>3. /\ Total({"update"}, pc') = Total({"update"}, pc) + 0
        /\ In({"EXIT"}, m_hcp') = In({"EXIT"}, m_hcp) + 0
        /\ Len(m_hcp') = Len(m_hcp) + 0 /\ Cardinality(posted') = Cardinality(posted) + 0
    BY <1>1, <1>4, <2>1
  <2>4. 0 \in Int
    OBVIOUS
  <2>5. QED
    BY <1>3, <2>2, <2>3, <2>4, CountedBy
<1>13. QED
  BY <1>2, <1>3, <1>6, <1>7, <1>8, <1>9, <1>10, <1>11, <1>12 DEF IInv

\* releasePend posts RELEASE_PEND.
LEMMA KeepsReleasePost == ASSUME IInv, NEW t \in Threads, ReleasePost(t) PROVE IInv'
<1>1. /\ At(t, "rel_post") /\ Return(t) /\ m_hcp' = Append(m_hcp, "RELEASE_PEND")
      /\ m_ioCount' = m_ioCount + 1
      /\ UNCHANGED <<switches, m_disconnect, m_releaseFlag, sending, ids, posted, id, packets, events>>
  BY DEF ReleasePost, Post
<1>2. /\ Control' /\ Phase' /\ Fresh' /\ id_generator > 0
      /\ Ran(t, "rel_post", <<>>, Tail(pc[t])) /\ Stacks(0, 0, -1, 0, 0, 0, 0, 0)
      /\ In(Receiving, pc'[Main]) > 0 => In(Receiving, pc[Main]) > 0
  <2>1. "rel_post" \in Functions \ Calls
    BY DEF Functions, Calls
  <2>2. UNCHANGED <<switches, id_generator, joined>>
    BY <1>1 DEF ids, events
  <2>3. /\ I("rel_post", {"update"}) = 0 /\ I("rel_post", Using) = 0
        /\ I("rel_post", {"rel_post", "release"}) = 1
        /\ I("rel_post", {"clean"}) = 0 /\ I("rel_post", Receiving) = 0
        /\ I("rel_post", {"sp_size"}) = 0
        /\ I("rel_post", {"try_send"}) = 0 /\ I("rel_post", {"sent"}) = 0
        /\ 0 - 0 = 0 /\ 0 - 1 = -1
    BY DEF I, Using, Receiving
  <2>4. QED
    BY <1>1, <2>1, <2>2, <2>3, SessionNone
<1>3. Port(0, 0, 1, 0, 0, 0, 0) /\ Len(m_hcp') = Len(m_hcp) + 1 /\ m_hcp' \in Seq(Posts)
  <2>1. "RELEASE_PEND" \in Posts
    BY DEF Posts
  <2>2. /\ I("RELEASE_PEND", {"EXIT"}) = 0 /\ I("RELEASE_PEND", UsePosts) = 0
        /\ I("RELEASE_PEND", {"RELEASE_PEND"}) = 1
        /\ I("RELEASE_PEND", {"RECV"}) = 0 /\ I("RELEASE_PEND", {"SEND"}) = 0
        /\ I("RELEASE_PEND", {"SEND_PEND"}) = 0
        /\ I("RELEASE_PEND", {"RECV0"}) = 0
    BY DEF I, UsePosts
  <2>3. QED
    BY <1>1, <2>1, <2>2, PortAppend DEF IInv
<1>4. Typed'
  <2>1. m_ioCount' \in Int
    BY <1>1 DEF IInv, Typed
  <2>2. QED
    BY <1>1, <1>2, <1>3, <2>1 DEF IInv, Typed, Ran, switches, sending, ids, packets
<1>5. /\ RecvTokens' = RecvTokens /\ SendTokens' = SendTokens /\ Releasing' = Releasing
      /\ Cleaning' = Cleaning /\ Sending' = Sending
      /\ In({"EXIT"}, m_hcp') = In({"EXIT"}, m_hcp) /\ In({"RECV0"}, m_hcp') = In({"RECV0"}, m_hcp)
      /\ In({"SEND_PEND"}, m_hcp') = In({"SEND_PEND"}, m_hcp)
      /\ In(UsePosts, m_hcp') = In(UsePosts, m_hcp)
      /\ Total({"update"}, pc') = Total({"update"}, pc) /\ Total(Using, pc') = Total(Using, pc)
      /\ Total({"clean"}, pc') = Total({"clean"}, pc)
      /\ Total({"sp_size"}, pc') = Total({"sp_size"}, pc)
      /\ Total({"try_send"}, pc') = Total({"try_send"}, pc)
      /\ Total({"sent"}, pc') = Total({"sent"}, pc)
      /\ SumsNat /\ StacksNat(pc) /\ PortNat(m_hcp) /\ KernelNat(posted)
  <2>1. StacksNat(pc) /\ PortNat(m_hcp) /\ KernelNat(posted) /\ SumsNat
    BY Counts, SumsAreNat DEF IInv
  <2>2. Stacks(0, 0, -1, 0, 0, 0, 0, 0) /\ Port(0, 0, 1, 0, 0, 0, 0) /\ Kernel(0, 0, 0)
    <3>1. Kernel(0, 0, 0)
      BY <1>1, <2>1 DEF Kernel, KernelNat
    <3>2. QED
      BY <1>2, <1>3, <3>1
  <2>3. /\ RecvTokens' = RecvTokens + (0 + 0 + 0) /\ SendTokens' = SendTokens + (0 + 0 + 0 + 0 + 0)
        /\ Releasing' = Releasing + (-1 + 1) /\ Cleaning' = Cleaning + 0
        /\ Sending' = Sending + (0 + 0 + 0)
    <3>1. -1 \in Int /\ 0 \in Int /\ 1 \in Int /\ Typed
      BY DEF IInv
    <3>2. QED
      BY <2>2, <3>1, Sums
  <2>4. /\ RecvTokens' = RecvTokens /\ SendTokens' = SendTokens /\ Releasing' = Releasing
        /\ Cleaning' = Cleaning /\ Sending' = Sending
    BY <2>1, <2>3 DEF SumsNat
  <2>5. /\ In({"EXIT"}, m_hcp') = In({"EXIT"}, m_hcp)
        /\ In({"RECV0"}, m_hcp') = In({"RECV0"}, m_hcp)
        /\ In({"SEND_PEND"}, m_hcp') = In({"SEND_PEND"}, m_hcp)
        /\ In(UsePosts, m_hcp') = In(UsePosts, m_hcp)
    BY <2>1, <2>2 DEF Port, PortNat
  <2>6. /\ Total({"update"}, pc') = Total({"update"}, pc) /\ Total(Using, pc') = Total(Using, pc)
        /\ Total({"clean"}, pc') = Total({"clean"}, pc)
        /\ Total({"sp_size"}, pc') = Total({"sp_size"}, pc)
        /\ Total({"try_send"}, pc') = Total({"try_send"}, pc)
        /\ Total({"sent"}, pc') = Total({"sent"}, pc)
    BY <2>1, <2>2 DEF Stacks, StacksNat
  <2>7. QED
    BY <2>1, <2>4, <2>5, <2>6
<1>6. Joining' /\ Known'
  BY <1>1, <1>2 DEF IInv, Joining, Known, ids
<1>7. ClosedIdle'
  BY <1>1, <1>5 DEF IInv, ClosedIdle, ids
<1>8. Stage' /\ OneReceive' /\ OneSend'
  BY <1>1, <1>5 DEF IInv, Stage, OneReceive, OneSend, SumsNat, ids, switches, events, sending
<1>9. SentEmpty'
  BY <1>1, <1>5 DEF IInv, SentEmpty, ids, sending
<1>10. Watched'
  BY <1>1, <1>2, <1>5, EndingKept, WatchedBy DEF ids
<1>11. PacketsApart'
  BY <1>1, <1>5, PacketsKept DEF ids, events, sending
<1>12. Counted'
  <2>1. /\ Total({"update"}, pc) \in Nat /\ In({"EXIT"}, m_hcp) \in Nat
        /\ Cardinality(posted) \in Nat /\ Len(m_hcp) \in Nat /\ m_ioCount \in Int
    BY <1>5 DEF StacksNat, PortNat, KernelNat, IInv, Typed
  <2>2. m_ioCount' = m_ioCount + (0 + 1 - 0 + 0)
    BY <1>1, <2>1
  <2>3. /\ Total({"update"}, pc') = Total({"update"}, pc) + 0
        /\ In({"EXIT"}, m_hcp') = In({"EXIT"}, m_hcp) + 0
        /\ Len(m_hcp') = Len(m_hcp) + 1 /\ Cardinality(posted') = Cardinality(posted) + 0
    BY <1>1, <1>3, <1>5, <2>1
  <2>4. 0 \in Int /\ 1 \in Int
    OBVIOUS
  <2>5. QED
    BY <1>4, <2>2, <2>3, <2>4, CountedBy
<1>13. QED
  BY <1>2, <1>4, <1>6, <1>7, <1>8, <1>9, <1>10, <1>11, <1>12 DEF IInv

\* A step on the open session that calls two functions.
LEMMA SessionTwo ==
    ASSUME IInv, NEW t \in Threads, NEW f \in Functions \ Calls, NEW x \in Functions \ Calls,
           NEW y \in Functions \ Calls, At(t, f), Run(t, <<x, y>>),
           Returns(t, x, <<y>> \o Tail(pc[t])),
           {x, y} \cap (Receiving \cup Using \cup {"rel_post", "release", "clean"}) = {},
           UNCHANGED <<switches, id_generator, joined>>
    PROVE  /\ Control' /\ Phase' /\ Fresh' /\ id_generator > 0
           /\ Ran(t, f, <<x, y>>, Tail(pc[t])) /\ \A F : In(F, <<x, y>>) = I(x, F) + I(y, F)
           /\ Stacks(I(x, {"update"}) + I(y, {"update"}) - I(f, {"update"}),
                     0 - I(f, Using), 0 - I(f, {"rel_post", "release"}), 0 - I(f, {"clean"}),
                     0 - I(f, Receiving), 0 - I(f, {"sp_size"}), 0 - I(f, {"try_send"}), 0 - I(f, {"sent"}))
<1>1. pc \in [Threads -> Seq(Functions)] /\ Control /\ x \in Functions /\ y \in Functions
  BY DEF IInv, Typed
<1>2. /\ Control' /\ Ran(t, f, <<x, y>>, Tail(pc[t]))
      /\ \A F : In(F, <<x, y>>) = I(x, F) + I(y, F)
  BY <1>1, RunsTwo
<1>3. <<x, y>> \in Seq(Functions \ Calls)
  OBVIOUS
<1>4. Phase' /\ Fresh' /\ id_generator > 0
  BY <1>2, <1>3, InSession
<1>5. ASSUME NEW F PROVE Total(F, pc') = Total(F, pc) + (I(x, F) + I(y, F) - I(f, F))
  <2>1. /\ Total(F, pc') = Total(F, pc) - I(f, F) + In(F, <<x, y>>) /\ Total(F, pc) \in Nat
        /\ In(F, <<x, y>>) = I(x, F) + I(y, F)
    BY <1>2 DEF Ran
  <2>2. I(x, F) \in Nat /\ I(y, F) \in Nat /\ I(f, F) \in Nat
    BY DEF I
  <2>3. QED
    BY <2>1, <2>2
<1>6. ASSUME NEW F \in {Using, Receiving, {"rel_post", "release"}, {"clean"}, {"sp_size"},
                       {"try_send"}, {"sent"}}
      PROVE  Total(F, pc') = Total(F, pc) + (0 - I(f, F))
  <2>1. I(x, F) = 0 /\ I(y, F) = 0 /\ I(f, F) \in Nat
    BY DEF I, Using
  <2>2. Total(F, pc') = Total(F, pc) + (I(x, F) + I(y, F) - I(f, F))
    BY <1>5
  <2>3. QED
    BY <2>1, <2>2
<1>7. Stacks(I(x, {"update"}) + I(y, {"update"}) - I(f, {"update"}),
             0 - I(f, Using), 0 - I(f, {"rel_post", "release"}), 0 - I(f, {"clean"}),
             0 - I(f, Receiving), 0 - I(f, {"sp_size"}), 0 - I(f, {"try_send"}), 0 - I(f, {"sent"}))
  BY <1>5, <1>6 DEF Stacks
<1>8. QED
  BY <1>2, <1>4, <1>7

\* The kernel takes an operation.
LEMMA KernelAdd ==
    ASSUME Typed, NEW o \in {"recv", "send"}, NEW s \in Sockets, <<o, s>> \notin posted,
           posted' = posted \cup {<<o, s>>}
    PROVE  /\ Kernel(IF o = "recv" THEN 1 ELSE 0, IF o = "send" THEN 1 ELSE 0, 1)
           /\ posted' \subseteq {"recv", "send"} \X Sockets
<1>1. posted \subseteq Held /\ <<o, s>> \in Held /\ <<o, s>>[1] = o
  BY DEF Typed, Held
<1>2. /\ \A p : Ops(p, posted') = Ops(p, posted) + IF <<o, s>>[1] = p THEN 1 ELSE 0
      /\ Cardinality(posted') = Cardinality(posted) + 1
  BY <1>1, OpsAdd
<1>3. /\ Ops("recv", posted') = Ops("recv", posted) + IF o = "recv" THEN 1 ELSE 0
      /\ Ops("send", posted') = Ops("send", posted) + IF o = "send" THEN 1 ELSE 0
  BY <1>1, <1>2
<1>4. posted' \subseteq {"recv", "send"} \X Sockets
  BY DEF Typed
<1>5. QED
  BY <1>2, <1>3, <1>4 DEF Kernel

\* Where the first connection is used, its socket is open.
LEMMA OpenSocket ==
    ASSUME IInv, NEW t \in Threads, t # Main, NEW f \in Using, At(t, f)
    PROVE  id_generator = 1 /\ m_releaseFlag = 0 /\ m_serverSock = 1 /\ 1 \in Sockets
<1>1. f \notin Outside
  BY DEF Using, Outside
<1>2. id_generator = 1 /\ running # {} /\ m_releaseFlag = 0
  BY <1>1, WorkerOpen
<1>3. left = {}
  BY <1>2 DEF IInv, Stage
<1>4. m_serverSock = 1
  BY <1>2, <1>3 DEF IInv, Stage
<1>5. MaxConnects \in Nat /\ id_generator \in 0 .. MaxConnects
  BY LanBounds DEF IInv, Typed
<1>6. QED
  BY <1>2, <1>4, <1>5 DEF Sockets

\* The receive that is posted is the only one.
LEMMA ReceiveNew ==
    ASSUME IInv, NEW t \in Threads, At(t, "recv_post")
    PROVE  /\ m_serverSock \in Sockets /\ m_serverSock <= id_generator
           /\ <<"recv", m_serverSock>> \notin posted
           /\ id_generator = 1 => m_releaseFlag = 0
           /\ t = Main \/ In(Receiving, pc[Main]) = 0
           /\ t = Main => Tail(pc[t]) = <<"update", "connected">>
           /\ t # Main => Tail(pc[t]) = <<"update">>
<1>1. "recv_post" \in Receiving /\ "recv_post" \in Using
  BY DEF Receiving, Using
<1>2. id_generator = 1 => m_releaseFlag = 0
  BY <1>1, OnTop
<1>3. Returns(t, "recv_post", Tail(pc[t]))
  BY Callers
<1>4. id_generator \in Nat /\ id_generator \in 0 .. MaxConnects
  BY LanBounds DEF IInv, Typed
<1>5. CASE t = Main
  <2>1. In(Receiving, pc[Main]) >= 1 /\ In(Receiving, pc[Main]) \in Nat
    <3>1. pc[Main] \in Seq(Functions)
      BY <1>5, Callers
    <3>2. QED
      BY <1>1, <1>5, <3>1, OnTop, InNat
  <2>2. id_generator > 0 /\ m_serverSock = id_generator /\ <<"recv", id_generator>> \notin posted
    BY <2>1 DEF IInv, Joining
  <2>3. Tail(pc[t]) = <<"update", "connected">>
    BY <1>3, <1>5 DEF Returns, MainReturns
  <2>4. QED
    BY <1>2, <1>4, <1>5, <2>2, <2>3 DEF Sockets
<1>6. CASE t # Main
  <2>1. id_generator = 1 /\ m_serverSock = 1 /\ 1 \in Sockets
    BY <1>1, <1>6, OpenSocket
  <2>2. /\ Total(Receiving, pc) >= 1 /\ In(Receiving, pc[t]) >= 1
        /\ Total(Receiving, pc) \in Nat /\ In({"RECV"}, m_hcp) \in Nat
        /\ Ops("recv", posted) \in Nat
    BY <1>1, OnTop, Counts DEF IInv, StacksNat, PortNat, KernelNat
  <2>3. Total(Receiving, pc) + In({"RECV"}, m_hcp) + Ops("recv", posted) <= 1
    BY <2>1 DEF IInv, OneReceive, RecvTokens
  <2>4. Total(Receiving, pc) = 1 /\ Ops("recv", posted) = 0
    BY <2>2, <2>3
  <2>5. <<"recv", m_serverSock>> \notin posted
    <3>1. posted \subseteq Held
      BY DEF IInv, Typed, Held
    <3>2. Ops("recv", posted) > 0 <=> \E x \in posted : x[1] = "recv"
      BY <3>1, OpsNat
    <3>3. \A x \in posted : x[1] # "recv"
      BY <2>4, <3>2
    <3>4. <<"recv", m_serverSock>>[1] = "recv"
      OBVIOUS
    <3>5. QED
      BY <3>3, <3>4
  <2>6. In(Receiving, pc[Main]) = 0
    <3>1. Main \in Threads /\ pc \in [Threads -> Seq(Functions)] /\ pc[Main] \in Seq(Functions)
      BY DEF IInv, Typed, Threads
    <3>2. In(Receiving, pc[t]) + In(Receiving, pc[Main]) <= Total(Receiving, pc)
      BY <1>6, <3>1, TotalTwo
    <3>3. In(Receiving, pc[Main]) \in Nat /\ In(Receiving, pc[t]) \in Nat
      BY <3>1, InNat
    <3>4. QED
      BY <2>2, <2>4, <3>2, <3>3
  <2>7. Tail(pc[t]) = <<"update">>
    BY <1>3, <1>6 DEF Returns, WorkerReturns
  <2>8. QED
    BY <1>2, <1>6, <2>1, <2>5, <2>6, <2>7
<1>7. QED
  BY <1>5, <1>6

\* WSARecv takes the operation.
LEMMA KeepsRecvPost ==
    ASSUME IInv, NEW t \in Threads, RecvPost(t), Return(t),
           posted' = posted \cup {<<"recv", m_serverSock>>}
    PROVE  IInv'
<1>1. /\ At(t, "recv_post") /\ Return(t) /\ m_ioCount' = m_ioCount + 1 /\ m_hcp' = m_hcp
      /\ posted' = posted \cup {<<"recv", m_serverSock>>}
      /\ UNCHANGED <<switches, m_disconnect, m_releaseFlag, sending, ids, m_hcp, id, packets, events>>
      /\ m_serverSock \in Sockets /\ m_serverSock <= id_generator
      /\ <<"recv", m_serverSock>> \notin posted /\ (id_generator = 1 => m_releaseFlag = 0)
      /\ t = Main \/ In(Receiving, pc[Main]) = 0
      /\ t = Main => Tail(pc[t]) = <<"update", "connected">>
      /\ t # Main => Tail(pc[t]) = <<"update">>
  BY ReceiveNew DEF RecvPost
<1>2. /\ Control' /\ Phase' /\ Fresh' /\ id_generator > 0
      /\ Ran(t, "recv_post", <<>>, Tail(pc[t])) /\ Stacks(0, -1, 0, 0, -1, 0, 0, 0)
      /\ In(Receiving, pc'[Main]) > 0 => In(Receiving, pc[Main]) > 0
  <2>1. "recv_post" \in Functions \ Calls
    BY DEF Functions, Calls
  <2>2. UNCHANGED <<switches, id_generator, joined>>
    BY <1>1 DEF ids, events
  <2>3. /\ I("recv_post", {"update"}) = 0 /\ I("recv_post", Using) = 1
        /\ I("recv_post", {"rel_post", "release"}) = 0
        /\ I("recv_post", {"clean"}) = 0 /\ I("recv_post", Receiving) = 1
        /\ I("recv_post", {"sp_size"}) = 0
        /\ I("recv_post", {"try_send"}) = 0 /\ I("recv_post", {"sent"}) = 0
        /\ 0 - 0 = 0 /\ 0 - 1 = -1
    BY DEF I, Using, Receiving
  <2>4. QED
    BY <1>1, <2>1, <2>2, <2>3, SessionNone
<1>3. Kernel(1, 0, 1) /\ posted' \subseteq {"recv", "send"} \X Sockets
  <2>1. Kernel(IF "recv" = "recv" THEN 1 ELSE 0, IF "recv" = "send" THEN 1 ELSE 0, 1)
        /\ posted' \subseteq {"recv", "send"} \X Sockets
    BY <1>1, KernelAdd DEF IInv
  <2>2. QED
    BY <2>1
<1>4. Typed'
  <2>1. m_ioCount' \in Int
    BY <1>1 DEF IInv, Typed
  <2>2. QED
    BY <1>1, <1>2, <1>3, <2>1 DEF IInv, Typed, Ran, switches, sending, ids, packets
<1>5. /\ RecvTokens' = RecvTokens /\ SendTokens' = SendTokens /\ Releasing' = Releasing
      /\ Cleaning' = Cleaning /\ Sending' = Sending
      /\ In({"EXIT"}, m_hcp') = In({"EXIT"}, m_hcp) /\ In({"RECV0"}, m_hcp') = In({"RECV0"}, m_hcp)
      /\ In({"SEND_PEND"}, m_hcp') = In({"SEND_PEND"}, m_hcp)
      /\ In(UsePosts, m_hcp') = In(UsePosts, m_hcp)
      /\ Total({"update"}, pc') = Total({"update"}, pc) /\ Total(Using, pc') = Total(Using, pc) - 1
      /\ Total({"clean"}, pc') = Total({"clean"}, pc)
      /\ Total({"sp_size"}, pc') = Total({"sp_size"}, pc)
      /\ Total({"try_send"}, pc') = Total({"try_send"}, pc)
      /\ Total({"sent"}, pc') = Total({"sent"}, pc)
      /\ SumsNat /\ StacksNat(pc) /\ PortNat(m_hcp) /\ KernelNat(posted)
  <2>1. StacksNat(pc) /\ PortNat(m_hcp) /\ KernelNat(posted) /\ SumsNat
    BY Counts, SumsAreNat DEF IInv
  <2>2. Stacks(0, -1, 0, 0, -1, 0, 0, 0) /\ Port(0, 0, 0, 0, 0, 0, 0) /\ Kernel(1, 0, 1)
    <3>1. Port(0, 0, 0, 0, 0, 0, 0)
      BY <1>1, <2>1 DEF Port, PortNat
    <3>2. QED
      BY <1>2, <1>3, <3>1
  <2>3. /\ RecvTokens' = RecvTokens + (-1 + 0 + 1) /\ SendTokens' = SendTokens + (0 + 0 + 0 + 0 + 0)
        /\ Releasing' = Releasing + (0 + 0) /\ Cleaning' = Cleaning + 0
        /\ Sending' = Sending + (0 + 0 + 0)
    <3>1. -1 \in Int /\ 0 \in Int /\ 1 \in Int /\ Typed
      BY DEF IInv
    <3>2. QED
      BY <2>2, <3>1, Sums
  <2>4. /\ RecvTokens' = RecvTokens /\ SendTokens' = SendTokens /\ Releasing' = Releasing
        /\ Cleaning' = Cleaning /\ Sending' = Sending
    BY <2>1, <2>3 DEF SumsNat
  <2>5. /\ In({"EXIT"}, m_hcp') = In({"EXIT"}, m_hcp)
        /\ In({"RECV0"}, m_hcp') = In({"RECV0"}, m_hcp)
        /\ In({"SEND_PEND"}, m_hcp') = In({"SEND_PEND"}, m_hcp)
        /\ In(UsePosts, m_hcp') = In(UsePosts, m_hcp)
    BY <2>1, <2>2 DEF Port, PortNat
  <2>6. /\ Total({"update"}, pc') = Total({"update"}, pc)
        /\ Total(Using, pc') = Total(Using, pc) - 1
        /\ Total({"clean"}, pc') = Total({"clean"}, pc)
        /\ Total({"sp_size"}, pc') = Total({"sp_size"}, pc)
        /\ Total({"try_send"}, pc') = Total({"try_send"}, pc)
        /\ Total({"sent"}, pc') = Total({"sent"}, pc)
    BY <2>1, <2>2 DEF Stacks, StacksNat
  <2>7. QED
    BY <2>1, <2>4, <2>5, <2>6
<1>6. In(Receiving, pc'[Main]) = 0
  <2>1. CASE t = Main
    <3>1. In(Receiving, pc'[t]) = In(Receiving, <<>>) + In(Receiving, Tail(pc[t]))
      BY <1>2 DEF Ran
    <3>2. In(Receiving, <<"update", "connected">>) = 0
      BY InTwo DEF I, Receiving
    <3>3. In(Receiving, <<>>) = 0
      BY InNone
    <3>4. Tail(pc[t]) = <<"update", "connected">>
      BY <1>1, <2>1
    <3>5. In(Receiving, Tail(pc[t])) = 0
      BY <3>2, <3>4
    <3>6. In(Receiving, pc'[t]) = 0
      BY <3>1, <3>3, <3>5
    <3>7. QED
      BY <2>1, <3>6
  <2>2. CASE t # Main
    BY <1>1, <1>2, <2>2 DEF Ran, Threads
  <2>3. QED
    BY <2>1, <2>2
<1>7. Joining' /\ Known'
  BY <1>1, <1>6 DEF IInv, Joining, Known, ids
<1>8. ClosedIdle'
  BY <1>1 DEF ClosedIdle, ids
<1>9. Stage' /\ OneReceive' /\ OneSend'
  BY <1>1, <1>5 DEF IInv, Stage, OneReceive, OneSend, SumsNat, ids, switches, events, sending
<1>10. SentEmpty'
  BY <1>1, <1>5 DEF IInv, SentEmpty, ids, sending
<1>11. Watched'
  BY <1>1, <1>2, <1>5, EndingKept, WatchedBy DEF ids
<1>12. PacketsApart'
  BY <1>1, <1>5, PacketsKept DEF ids, events, sending
<1>13. Counted'
  <2>1. /\ Total({"update"}, pc) \in Nat /\ In({"EXIT"}, m_hcp) \in Nat
        /\ Cardinality(posted) \in Nat /\ Len(m_hcp) \in Nat /\ m_ioCount \in Int
    BY <1>5 DEF StacksNat, PortNat, KernelNat, IInv, Typed
  <2>2. m_ioCount' = m_ioCount + (0 + 0 - 0 + 1)
    BY <1>1, <2>1
  <2>3. Cardinality(posted') = Cardinality(posted) + 1
    BY <1>3 DEF Kernel
  <2>4. /\ Total({"update"}, pc') = Total({"update"}, pc) + 0
        /\ In({"EXIT"}, m_hcp') = In({"EXIT"}, m_hcp) + 0 /\ Len(m_hcp') = Len(m_hcp) + 0
    BY <1>1, <1>5, <2>1
  <2>5. 0 \in Int /\ 1 \in Int
    OBVIOUS
  <2>6. QED
    BY <1>4, <2>2, <2>3, <2>4, <2>5, CountedBy
<1>14. QED
  BY <1>2, <1>4, <1>7, <1>8, <1>9, <1>10, <1>11, <1>12, <1>13 DEF IInv

\* WSARecv fails, and the thread ends the connection.
LEMMA KeepsRecvRefused ==
    ASSUME IInv, NEW t \in Threads, RecvPost(t), Run(t, <<"disconnect", "update">>),
           UNCHANGED posted
    PROVE  IInv'
<1>1. /\ At(t, "recv_post") /\ Run(t, <<"disconnect", "update">>) /\ m_ioCount' = m_ioCount + 1
      /\ m_hcp' = m_hcp /\ posted' = posted
      /\ UNCHANGED <<switches, m_disconnect, m_releaseFlag, sending, ids, m_hcp, id, packets, events>>
      /\ m_serverSock \in Sockets /\ m_serverSock <= id_generator
      /\ <<"recv", m_serverSock>> \notin posted /\ (id_generator = 1 => m_releaseFlag = 0)
      /\ t = Main \/ In(Receiving, pc[Main]) = 0
      /\ t = Main => Tail(pc[t]) = <<"update", "connected">>
      /\ t # Main => Tail(pc[t]) = <<"update">>
  BY ReceiveNew DEF RecvPost
<1>2. /\ Control' /\ Phase' /\ Fresh' /\ id_generator > 0
      /\ Ran(t, "recv_post", <<"disconnect", "update">>, Tail(pc[t]))
      /\ Stacks(1, -1, 0, 0, -1, 0, 0, 0)
      /\ \A F : In(F, <<"disconnect", "update">>) = I("disconnect", F) + I("update", F)
  <2>1. /\ "recv_post" \in Functions \ Calls /\ "disconnect" \in Functions \ Calls
        /\ "update" \in Functions \ Calls
        /\ {"disconnect", "update"} \cap (Receiving \cup Using \cup {"rel_post", "release", "clean"}) = {}
    BY DEF Functions, Calls, Receiving, Using
  <2>2. UNCHANGED <<switches, id_generator, joined>>
    BY <1>1 DEF ids, events
  <2>3. /\ I("recv_post", {"update"}) = 0 /\ I("recv_post", Using) = 1
        /\ I("recv_post", {"rel_post", "release"}) = 0
        /\ I("recv_post", {"clean"}) = 0 /\ I("recv_post", Receiving) = 1
        /\ I("recv_post", {"sp_size"}) = 0
        /\ I("recv_post", {"try_send"}) = 0 /\ I("recv_post", {"sent"}) = 0
        /\ 0 + 1 - 0 = 1 /\ 0 - 0 = 0 /\ 0 - 1 = -1
    BY DEF I, Using, Receiving
  <2>4. I("disconnect", {"update"}) = 0 /\ I("update", {"update"}) = 1
    BY DEF I
  <2>5. Returns(t, "disconnect", <<"update">> \o Tail(pc[t]))
    <3>1. /\ <<"update">> \o <<"update">> = <<"update", "update">>
          /\ <<"update">> \o <<"update", "connected">> = <<"update", "update", "connected">>
      BY Pushed
    <3>2. CASE t = Main
      BY <1>1, <3>1, <3>2 DEF Returns, MainReturns
    <3>3. CASE t # Main
      BY <1>1, <3>1, <3>3 DEF Returns, WorkerReturns
    <3>4. QED
      BY <3>2, <3>3
  <2>6. QED
    BY <1>1, <2>1, <2>2, <2>3, <2>4, <2>5, SessionTwo
<1>3. Typed'
  <2>1. m_ioCount' \in Int
    BY <1>1 DEF IInv, Typed
  <2>2. QED
    BY <1>1, <1>2, <2>1 DEF IInv, Typed, Ran, switches, sending, ids, packets
<1>4. /\ RecvTokens' = RecvTokens - 1 /\ SendTokens' = SendTokens /\ Releasing' = Releasing
      /\ Cleaning' = Cleaning /\ Sending' = Sending
      /\ In({"EXIT"}, m_hcp') = In({"EXIT"}, m_hcp) /\ In({"RECV0"}, m_hcp') = In({"RECV0"}, m_hcp)
      /\ In({"SEND_PEND"}, m_hcp') = In({"SEND_PEND"}, m_hcp)
      /\ In(UsePosts, m_hcp') = In(UsePosts, m_hcp)
      /\ Total({"update"}, pc') = Total({"update"}, pc) + 1
      /\ Total(Using, pc') = Total(Using, pc) - 1
      /\ Total({"clean"}, pc') = Total({"clean"}, pc)
      /\ Total({"sp_size"}, pc') = Total({"sp_size"}, pc)
      /\ Total({"try_send"}, pc') = Total({"try_send"}, pc)
      /\ Total({"sent"}, pc') = Total({"sent"}, pc)
      /\ SumsNat /\ StacksNat(pc) /\ PortNat(m_hcp) /\ KernelNat(posted)
  <2>1. StacksNat(pc) /\ PortNat(m_hcp) /\ KernelNat(posted) /\ SumsNat
    BY Counts, SumsAreNat DEF IInv
  <2>2. Stacks(1, -1, 0, 0, -1, 0, 0, 0) /\ Port(0, 0, 0, 0, 0, 0, 0) /\ Kernel(0, 0, 0)
    <3>1. Port(0, 0, 0, 0, 0, 0, 0)
      BY <1>1, <2>1 DEF Port, PortNat
    <3>2. Kernel(0, 0, 0)
      BY <1>1, <2>1 DEF Kernel, KernelNat
    <3>3. QED
      BY <1>2, <3>1, <3>2
  <2>3. /\ RecvTokens' = RecvTokens + (-1 + 0 + 0) /\ SendTokens' = SendTokens + (0 + 0 + 0 + 0 + 0)
        /\ Releasing' = Releasing + (0 + 0) /\ Cleaning' = Cleaning + 0
        /\ Sending' = Sending + (0 + 0 + 0)
    <3>1. -1 \in Int /\ 0 \in Int /\ 1 \in Int /\ Typed
      BY DEF IInv
    <3>2. QED
      BY <2>2, <3>1, Sums, SMTT(30)
  <2>4. /\ RecvTokens' = RecvTokens - 1 /\ SendTokens' = SendTokens /\ Releasing' = Releasing
        /\ Cleaning' = Cleaning /\ Sending' = Sending
    BY <2>1, <2>3 DEF SumsNat
  <2>5. /\ In({"EXIT"}, m_hcp') = In({"EXIT"}, m_hcp)
        /\ In({"RECV0"}, m_hcp') = In({"RECV0"}, m_hcp)
        /\ In({"SEND_PEND"}, m_hcp') = In({"SEND_PEND"}, m_hcp)
        /\ In(UsePosts, m_hcp') = In(UsePosts, m_hcp)
    BY <2>1, <2>2 DEF Port, PortNat
  <2>6. /\ Total({"update"}, pc') = Total({"update"}, pc) + 1
        /\ Total(Using, pc') = Total(Using, pc) - 1
        /\ Total({"clean"}, pc') = Total({"clean"}, pc)
        /\ Total({"sp_size"}, pc') = Total({"sp_size"}, pc)
        /\ Total({"try_send"}, pc') = Total({"try_send"}, pc)
        /\ Total({"sent"}, pc') = Total({"sent"}, pc)
    BY <2>1, <2>2 DEF Stacks, StacksNat
  <2>7. QED
    BY <2>1, <2>4, <2>5, <2>6
<1>5. In(Receiving, pc'[Main]) = 0
  <2>1. CASE t = Main
    <3>1. In(Receiving, pc'[t]) = In(Receiving, <<"disconnect", "update">>) + In(Receiving, Tail(pc[t]))
      BY <1>2 DEF Ran
    <3>2. In(Receiving, <<"update", "connected">>) = 0
      BY InTwo DEF I, Receiving
    <3>3. In(Receiving, <<"disconnect", "update">>) = 0
      BY InTwo DEF I, Receiving
    <3>4. Tail(pc[t]) = <<"update", "connected">>
      BY <1>1, <2>1
    <3>5. In(Receiving, Tail(pc[t])) = 0
      BY <3>2, <3>4
    <3>6. In(Receiving, pc'[t]) = 0
      BY <3>1, <3>3, <3>5
    <3>7. QED
      BY <2>1, <3>6
  <2>2. CASE t # Main
    BY <1>1, <1>2, <2>2 DEF Ran, Threads
  <2>3. QED
    BY <2>1, <2>2
<1>6. Joining' /\ Known'
  BY <1>1, <1>5 DEF IInv, Joining, Known, ids
<1>7. ClosedIdle'
  BY <1>1 DEF ClosedIdle, ids
<1>8. Stage' /\ OneReceive' /\ OneSend'
  BY <1>1, <1>4 DEF IInv, Stage, OneReceive, OneSend, SumsNat, ids, switches, events, sending
<1>9. SentEmpty'
  BY <1>1, <1>4 DEF IInv, SentEmpty, ids, sending
<1>10. Watched'
  <2>1. /\ In({"disconnect"}, pc'[t]) = In({"disconnect"}, <<"disconnect", "update">>) + In({"disconnect"}, Tail(pc[t]))
        /\ In({"update"}, pc'[t]) = In({"update"}, <<"disconnect", "update">>) + In({"update"}, Tail(pc[t]))
        /\ In({"disconnect"}, Tail(pc[t])) \in Nat /\ In({"update"}, Tail(pc[t])) \in Nat
    BY <1>2 DEF Ran
  <2>2. /\ In({"disconnect"}, <<"disconnect", "update">>) = 1
        /\ In({"update"}, <<"disconnect", "update">>) = 1
    BY InTwo DEF I
  <2>3. In({"disconnect"}, pc'[t]) > 0 /\ In({"update"}, pc'[t]) > 0
    BY <2>1, <2>2
  <2>4. QED
    BY <2>3 DEF Watched, Ending
<1>11. PacketsApart'
  BY <1>1, <1>4, PacketsKept DEF ids, events, sending
<1>12. Counted'
  <2>1. /\ Total({"update"}, pc) \in Nat /\ In({"EXIT"}, m_hcp) \in Nat
        /\ Cardinality(posted) \in Nat /\ Len(m_hcp) \in Nat /\ m_ioCount \in Int
    BY <1>4 DEF StacksNat, PortNat, KernelNat, IInv, Typed
  <2>2. m_ioCount' = m_ioCount + (1 + 0 - 0 + 0)
    BY <1>1, <2>1
  <2>3. /\ Total({"update"}, pc') = Total({"update"}, pc) + 1
        /\ In({"EXIT"}, m_hcp') = In({"EXIT"}, m_hcp) + 0
        /\ Len(m_hcp') = Len(m_hcp) + 0 /\ Cardinality(posted') = Cardinality(posted) + 0
    BY <1>1, <1>4, <2>1
  <2>4. 0 \in Int /\ 1 \in Int
    OBVIOUS
  <2>5. QED
    BY <1>3, <2>2, <2>3, <2>4, CountedBy
<1>13. QED
  BY <1>2, <1>3, <1>6, <1>7, <1>8, <1>9, <1>10, <1>11, <1>12 DEF IInv

\* The flag is set already.
LEMMA KeepsSendPendLate == ASSUME IInv, NEW t \in Threads, SendPend(t), m_sendFlag # 0 PROVE IInv'
<1>1. At(t, "pend") /\ Return(t)
  BY DEF SendPend
<1>2. m_sendFlag = 1
  BY DEF IInv, Typed
<1>3. UNCHANGED <<QuietVars, id>> /\ m_ioCount' = m_ioCount - 0
  BY <1>2 DEF SendPend, QuietVars, sending, kernel, IInv, Typed
<1>4. "pend" \in Plain /\ "pend" \notin Receiving /\ I("pend", {"update"}) = 0
  BY DEF Plain, Functions, Calls, Receiving, I
<1>5. QED
  BY <1>1, <1>3, <1>4, QuietNone

\* More packets at the end of the port.
LEMMA PortJoin ==
    ASSUME Typed, NEW d \in Seq(Posts), m_hcp' = m_hcp \o d
    PROVE  /\ Port(In({"EXIT"}, d), In(UsePosts, d), In({"RELEASE_PEND"}, d), In({"RECV"}, d),
                   In({"SEND"}, d), In({"SEND_PEND"}, d), In({"RECV0"}, d))
           /\ Len(m_hcp') = Len(m_hcp) + Len(d) /\ m_hcp' \in Seq(Posts)
           /\ \A F : In(F, d) \in Nat
<1>1. m_hcp \in Seq(Posts)
  BY DEF Typed
<1>2. \A F : In(F, m_hcp') = In(F, m_hcp) + In(F, d) /\ In(F, d) \in Nat
  BY <1>1, InJoin, InNat
<1>3. QED
  BY <1>1, <1>2 DEF Port

\* CancelIoEx, and perhaps a CANCEL_IO packet behind it.
LEMMA Cancels ==
    ASSUME IInv, NEW c \in Cancelled({x \in posted : x[2] = m_serverSock}),
           NEW e \in Seq({"CANCEL_IO"}),
           m_hcp' = m_hcp \o c \o e, posted' = {x \in posted : x[2] # m_serverSock}
    PROVE  \E n \in Nat, a \in Nat, b \in Nat, r \in Nat, k \in Nat :
              /\ Port(0, n, 0, 0, 0, 0, r) /\ Kernel(0 - a, 0 - b, 0 - k)
              /\ Len(m_hcp') = Len(m_hcp) + (k + Len(e)) /\ m_hcp' \in Seq(Posts)
              /\ posted' \subseteq posted
              /\ posted = {} => n = 0 /\ posted' = {}
              /\ Ops("recv", posted) > 0 => Ops("recv", posted) - a + r > 0
<1>1. posted \subseteq Held
  BY DEF IInv, Typed, Held
<1>2. ASSUME NEW mine, c \in Cancelled(mine), NEW rest, mine \cup rest = posted,
             mine \cap rest = {}
      PROVE  /\ c \in Seq({"RECV0", "SEND0"})
             /\ Len(c) + Cardinality(rest) = Cardinality(posted)
             /\ \A o : Ops(o, rest) \in Nat /\ Ops(o, rest) <= Ops(o, posted)
             /\ Ops("recv", posted) > 0 => Ops("recv", rest) + In({"RECV0"}, c) > 0
             /\ posted = {} => rest = {} /\ Len(c) = 0
  <2>1. \A o : Ops(o, rest) \in Nat /\ Ops(o, rest) <= Ops(o, posted)
    BY <1>1, <1>2, CancelledOnce
  <2>2. c \in Seq({"RECV0", "SEND0"}) /\ Len(c) + Cardinality(rest) = Cardinality(posted)
    BY <1>1, <1>2, CancelledOnce, ZenonT(30)
  <2>3. Ops("recv", posted) > 0 => Ops("recv", rest) + In({"RECV0"}, c) > 0
    BY <1>1, <1>2, CancelledOnce
  <2>4. posted = {} => rest = {} /\ Len(c) = 0
    BY <1>1, <1>2, CancelledOnce
  <2>5. QED
    BY <2>1, <2>2, <2>3, <2>4
<1>3. /\ c \in Seq({"RECV0", "SEND0"})
      /\ Len(c) + Cardinality(posted') = Cardinality(posted)
      /\ \A o : Ops(o, posted') \in Nat /\ Ops(o, posted') <= Ops(o, posted)
      /\ Ops("recv", posted) > 0 => Ops("recv", posted') + In({"RECV0"}, c) > 0
      /\ posted = {} => posted' = {} /\ Len(c) = 0
  <2> DEFINE mine == {x \in posted : x[2] = m_serverSock}
             rest == {x \in posted : x[2] # m_serverSock}
  <2>1. mine \cup rest = posted /\ mine \cap rest = {} /\ c \in Cancelled(mine) /\ posted' = rest
    OBVIOUS
  <2> HIDE DEF mine, rest
  <2>2. QED
    BY <1>2, <2>1
<1>4. /\ c \in Seq(Posts) /\ e \in Seq(Posts) /\ m_hcp \in Seq(Posts)
      /\ {"RECV0", "SEND0"} \subseteq Posts /\ {"CANCEL_IO"} \subseteq Posts
  BY <1>3 DEF Posts, IInv, Typed
<1>5. /\ c \o e \in Seq(Posts) /\ m_hcp' = m_hcp \o (c \o e) /\ Len(c \o e) = Len(c) + Len(e)
      /\ Len(c) \in Nat /\ Len(e) \in Nat
  BY <1>4
<1>6. \A F : In(F, c \o e) = In(F, c) + In(F, e) /\ In(F, c) \in Nat /\ In(F, e) \in Nat
  BY <1>4, InJoin, InNat
<1>7. \A F : F \cap {"RECV0", "SEND0"} = {} => In(F, c) = 0
  BY <1>3, InOutside
<1>8. \A F : F \cap {"CANCEL_IO"} = {} => In(F, e) = 0
  BY InOutside
<1>9. /\ In({"EXIT"}, c \o e) = 0 /\ In({"RELEASE_PEND"}, c \o e) = 0 /\ In({"RECV"}, c \o e) = 0
      /\ In({"SEND"}, c \o e) = 0 /\ In({"SEND_PEND"}, c \o e) = 0
  <2>1. ASSUME NEW p \in {"EXIT", "RELEASE_PEND", "RECV", "SEND", "SEND_PEND"}
        PROVE  In({p}, c \o e) = 0
    <3>1. {p} \cap {"RECV0", "SEND0"} = {} /\ {p} \cap {"CANCEL_IO"} = {}
      OBVIOUS
    <3>2. In({p}, c) = 0 /\ In({p}, e) = 0
      BY <1>7, <1>8, <3>1
    <3>3. QED
      BY <1>6, <3>2
  <2>2. QED
    BY <2>1
<1>10. In(UsePosts, c \o e) = In(UsePosts, c) /\ In({"RECV0"}, c \o e) = In({"RECV0"}, c)
  <2>1. UsePosts \cap {"CANCEL_IO"} = {} /\ {"RECV0"} \cap {"CANCEL_IO"} = {}
    BY DEF UsePosts
  <2>2. In(UsePosts, e) = 0 /\ In({"RECV0"}, e) = 0
    BY <1>8, <2>1
  <2>3. QED
    BY <1>6, <2>2
<1>11. /\ Port(0, In(UsePosts, c), 0, 0, 0, 0, In({"RECV0"}, c)) /\ m_hcp' \in Seq(Posts)
       /\ Len(m_hcp') = Len(m_hcp) + (Len(c) + Len(e))
  <2>1. /\ Port(In({"EXIT"}, c \o e), In(UsePosts, c \o e), In({"RELEASE_PEND"}, c \o e),
                In({"RECV"}, c \o e), In({"SEND"}, c \o e), In({"SEND_PEND"}, c \o e),
                In({"RECV0"}, c \o e))
        /\ Len(m_hcp') = Len(m_hcp) + Len(c \o e) /\ m_hcp' \in Seq(Posts)
    BY <1>5, PortJoin DEF IInv
  <2>2. QED
    BY <1>5, <1>9, <1>10, <2>1
<1> DEFINE a == Ops("recv", posted) - Ops("recv", posted')
           b == Ops("send", posted) - Ops("send", posted')
<1>12. KernelNat(posted) /\ Cardinality(posted') \in Nat
  <2>1. posted' \subseteq Held
    BY <1>1
  <2>2. QED
    BY <1>1, <2>1, OpsNat DEF KernelNat
<1>13. a \in Nat /\ b \in Nat
  <2>1. /\ Ops("recv", posted) \in Nat /\ Ops("send", posted) \in Nat
        /\ Ops("recv", posted') \in Nat /\ Ops("recv", posted') <= Ops("recv", posted)
        /\ Ops("send", posted') \in Nat /\ Ops("send", posted') <= Ops("send", posted)
    BY <1>3, <1>12 DEF KernelNat
  <2>2. QED
    BY <2>1
<1>14. Kernel(0 - a, 0 - b, 0 - Len(c))
  <2>1. /\ Ops("recv", posted') \in Nat /\ Ops("send", posted') \in Nat
        /\ Ops("recv", posted) \in Nat /\ Ops("send", posted) \in Nat
        /\ Cardinality(posted) \in Nat /\ Len(c) + Cardinality(posted') = Cardinality(posted)
    BY <1>3, <1>12 DEF KernelNat
  <2>2. /\ Ops("recv", posted') = Ops("recv", posted) + (0 - a)
        /\ Ops("send", posted') = Ops("send", posted) + (0 - b)
    BY <2>1
  <2>3. Cardinality(posted') = Cardinality(posted) + (0 - Len(c))
    BY <1>5, <1>12, <2>1
  <2> HIDE DEF a, b
  <2>4. QED
    BY <2>2, <2>3 DEF Kernel
<1>15. Ops("recv", posted) > 0 => Ops("recv", posted) - a + In({"RECV0"}, c) > 0
  BY <1>3, <1>6, <1>12 DEF KernelNat
<1>16. posted = {} => In(UsePosts, c) = 0 /\ posted' = {}
  <2>1. Len(c) = 0 => c = <<>>
    BY <1>4
  <2>2. QED
    BY <1>3, <2>1, InNone
<1>17. posted' \subseteq posted
  OBVIOUS
<1> HIDE DEF a, b
<1>18. QED
  BY <1>5, <1>6, <1>11, <1>13, <1>14, <1>15, <1>16, <1>17

\* disconnectSession posts CANCEL_IO behind its own CancelIoEx, the worker that gets
\* the packet calls CancelIoEx once more.
LEMMA KeepsCancels ==
    ASSUME IInv, NEW t \in Threads, NEW f \in {"dc_cancel", "cancel"}, At(t, f), Return(t),
           NEW c \in Cancelled({x \in posted : x[2] = m_serverSock}),
           NEW e \in Seq({"CANCEL_IO"}), m_ioCount' = m_ioCount + Len(e),
           m_hcp' = m_hcp \o c \o e, posted' = {x \in posted : x[2] # m_serverSock},
           UNCHANGED <<switches, m_disconnect, m_releaseFlag, sending, ids, id, packets, events>>
    PROVE  IInv'
<1>1. /\ Control' /\ Phase' /\ Fresh' /\ id_generator > 0
      /\ Ran(t, f, <<>>, Tail(pc[t])) /\ Stacks(0, 0, 0, 0, 0, 0, 0, 0)
      /\ In(Receiving, pc'[Main]) > 0 => In(Receiving, pc[Main]) > 0
  <2>1. f \in Functions \ Calls
    BY DEF Functions, Calls
  <2>2. UNCHANGED <<switches, id_generator, joined>>
    BY DEF ids, events
  <2>3. /\ I(f, {"update"}) = 0 /\ I(f, Using) = 0 /\ I(f, {"rel_post", "release"}) = 0
        /\ I(f, {"clean"}) = 0 /\ I(f, Receiving) = 0 /\ I(f, {"sp_size"}) = 0
        /\ I(f, {"try_send"}) = 0 /\ I(f, {"sent"}) = 0 /\ 0 - 0 = 0
    BY DEF I, Using, Receiving
  <2>4. QED
    BY <2>1, <2>2, <2>3, SessionNone
<1>2. PICK n \in Nat, a \in Nat, b \in Nat, r \in Nat, k \in Nat :
         /\ Port(0, n, 0, 0, 0, 0, r) /\ Kernel(0 - a, 0 - b, 0 - k)
         /\ Len(m_hcp') = Len(m_hcp) + (k + Len(e)) /\ m_hcp' \in Seq(Posts)
         /\ posted' \subseteq posted
         /\ posted = {} => n = 0 /\ posted' = {}
         /\ Ops("recv", posted) > 0 => Ops("recv", posted) - a + r > 0
  BY Cancels
<1>3. Typed'
  <2>1. m_ioCount' \in Int /\ Len(e) \in Nat
    BY DEF IInv, Typed
  <2>2. QED
    BY <1>1, <1>2, <2>1 DEF IInv, Typed, Ran, switches, sending, ids, packets
<1>4. SumsNat /\ StacksNat(pc) /\ PortNat(m_hcp) /\ KernelNat(posted)
  BY Counts, SumsAreNat DEF IInv
<1>5. /\ In({"EXIT"}, m_hcp') = In({"EXIT"}, m_hcp)
      /\ In({"SEND_PEND"}, m_hcp') = In({"SEND_PEND"}, m_hcp)
      /\ In(UsePosts, m_hcp') = In(UsePosts, m_hcp) + n
      /\ In({"RECV"}, m_hcp') = In({"RECV"}, m_hcp) /\ In({"SEND"}, m_hcp') = In({"SEND"}, m_hcp)
      /\ In({"RELEASE_PEND"}, m_hcp') = In({"RELEASE_PEND"}, m_hcp)
      /\ In({"RECV0"}, m_hcp') = In({"RECV0"}, m_hcp) + r
  BY <1>2, <1>4, SMTT(30) DEF Port, PortNat
<1>6. /\ Total({"update"}, pc') = Total({"update"}, pc) /\ Total(Using, pc') = Total(Using, pc)
      /\ Total({"clean"}, pc') = Total({"clean"}, pc)
      /\ Total({"sp_size"}, pc') = Total({"sp_size"}, pc)
      /\ Total({"try_send"}, pc') = Total({"try_send"}, pc)
      /\ Total({"sent"}, pc') = Total({"sent"}, pc)
      /\ Total(Receiving, pc') = Total(Receiving, pc)
      /\ Total({"rel_post", "release"}, pc') = Total({"rel_post", "release"}, pc)
  BY <1>1, <1>4 DEF Stacks, StacksNat
<1>7. /\ RecvTokens' = RecvTokens - a /\ SendTokens' = SendTokens - b /\ Releasing' = Releasing
      /\ Cleaning' = Cleaning /\ Sending' = Sending - b
  <2>1. /\ Ops("recv", posted') = Ops("recv", posted) - a
        /\ Ops("send", posted') = Ops("send", posted) - b
        /\ Ops("recv", posted) \in Nat /\ Ops("send", posted) \in Nat
    <3>1. /\ Ops("recv", posted') = Ops("recv", posted) + (0 - a)
          /\ Ops("send", posted') = Ops("send", posted) + (0 - b)
      BY <1>2 DEF Kernel
    <3>2. Ops("recv", posted) \in Nat /\ Ops("send", posted) \in Nat
      BY <1>4 DEF KernelNat
    <3>3. QED
      BY <3>1, <3>2
  <2>2. /\ Total(Receiving, pc) \in Nat /\ In({"RECV"}, m_hcp) \in Nat
        /\ In({"SEND"}, m_hcp) \in Nat
        /\ In({"SEND_PEND"}, m_hcp) \in Nat /\ Total({"sp_size"}, pc) \in Nat
        /\ Total({"try_send"}, pc) \in Nat /\ Total({"sent"}, pc) \in Nat
    BY <1>4 DEF StacksNat, PortNat
  <2>3. RecvTokens' = RecvTokens - a
    BY <1>5, <1>6, <2>1, <2>2, SMTT(30) DEF RecvTokens
  <2>4. SendTokens' = SendTokens - b
    BY <1>5, <1>6, <2>1, <2>2, SMTT(30) DEF SendTokens
  <2>5. Sending' = Sending - b
    BY <1>5, <1>6, <2>1, <2>2, SMTT(30) DEF Sending
  <2>6. Releasing' = Releasing /\ Cleaning' = Cleaning
    BY <1>5, <1>6 DEF Releasing, Cleaning
  <2>7. QED
    BY <2>3, <2>4, <2>5, <2>6
<1>8. Joining' /\ Known'
  BY <1>1, <1>2 DEF IInv, Joining, Known, ids
<1>9. ClosedIdle'
  BY <1>2, <1>5, <1>6 DEF IInv, ClosedIdle, ids
<1>10. Stage' /\ OneReceive'
  BY <1>4, <1>7 DEF IInv, Stage, OneReceive, SumsNat, ids, switches, events
<1>11. OneSend'
  BY <1>4, <1>7 DEF IInv, OneSend, SumsNat, ids, sending
<1>12. SentEmpty'
  BY <1>4, <1>7, <1>5, <1>6 DEF IInv, SentEmpty, SumsNat, ids, sending
<1>13. Watched'
  <2>1. \A v \in Threads : Ending(v) => Ending(v)'
    BY <1>1, EndingKept
  <2>2. RecvTokens + In({"RECV0"}, m_hcp) > 0 => RecvTokens' + In({"RECV0"}, m_hcp') > 0
    <3>1. /\ Total(Receiving, pc) \in Nat /\ In({"RECV"}, m_hcp) \in Nat
          /\ Ops("recv", posted) \in Nat /\ In({"RECV0"}, m_hcp) \in Nat
      BY <1>4 DEF StacksNat, PortNat, KernelNat
    <3>2. Ops("recv", posted') = Ops("recv", posted) + (0 - a) /\ Ops("recv", posted') \in Nat
      BY <1>2, <1>3, Counts DEF Kernel, KernelNat
    <3>3. Ops("recv", posted) > 0 => Ops("recv", posted') + r > 0
      BY <1>2, <3>1, <3>2
    <3>4. QED
      BY <1>5, <1>6, <3>1, <3>2, <3>3, SMTT(30) DEF RecvTokens
  <2>3. QED
    BY <2>1, <2>2, WatchedBy DEF ids
<1>14. PacketsApart'
  BY <1>6, PacketsKept DEF ids, events, sending
<1>15. Counted'
  <2>1. /\ Len(e) \in Nat /\ m_ioCount \in Int
    BY DEF IInv, Typed
  <2>2. m_ioCount' = m_ioCount + (0 + (k + Len(e)) - 0 + (0 - k))
    BY <2>1
  <2>3. /\ Total({"update"}, pc') = Total({"update"}, pc) + 0
        /\ In({"EXIT"}, m_hcp') = In({"EXIT"}, m_hcp) + 0
        /\ Len(m_hcp') = Len(m_hcp) + (k + Len(e))
    <3>1. Total({"update"}, pc) \in Nat /\ In({"EXIT"}, m_hcp) \in Nat
      BY <1>4 DEF StacksNat, PortNat
    <3>2. QED
      BY <1>2, <1>5, <1>6, <3>1
  <2>4. Cardinality(posted') = Cardinality(posted) + (0 - k)
    BY <1>2 DEF Kernel
  <2>5. 0 \in Int /\ k + Len(e) \in Int /\ 0 - k \in Int
    BY <2>1
  <2>6. QED
    BY <1>3, <2>2, <2>3, <2>4, <2>5, CountedBy
<1>16. QED
  BY <1>1, <1>3, <1>8, <1>9, <1>10, <1>11, <1>12, <1>13, <1>14, <1>15 DEF IInv

\* disconnectSession cancels the operations and posts CANCEL_IO.
LEMMA KeepsDisconnectCancel == ASSUME IInv, NEW t \in Threads, DisconnectCancel(t) PROVE IInv'
<1>1. PICK c \in Cancelled({x \in posted : x[2] = m_serverSock}) : m_hcp' = m_hcp \o c \o <<"CANCEL_IO">>
  BY DEF DisconnectCancel
<1>2. <<"CANCEL_IO">> \in Seq({"CANCEL_IO"}) /\ Len(<<"CANCEL_IO">>) = 1
  OBVIOUS
<1>3. /\ At(t, "dc_cancel") /\ Return(t) /\ m_ioCount' = m_ioCount + Len(<<"CANCEL_IO">>)
      /\ posted' = {x \in posted : x[2] # m_serverSock}
      /\ UNCHANGED <<switches, m_disconnect, m_releaseFlag, sending, ids, id, packets, events>>
  BY <1>2 DEF DisconnectCancel
<1>4. QED
  BY <1>1, <1>2, <1>3, KeepsCancels

\* The worker cancels the operations once more.
LEMMA KeepsCancel == ASSUME IInv, NEW t \in Threads, Cancel(t) PROVE IInv'
<1>1. PICK c \in Cancelled({x \in posted : x[2] = m_serverSock}) : m_hcp' = m_hcp \o c
  BY DEF Cancel
<1>2. <<>> \in Seq({"CANCEL_IO"}) /\ Len(<<>>) = 0
  OBVIOUS
<1>3. m_hcp' = m_hcp \o c \o <<>>
  <2>1. c \in Seq({"RECV0", "SEND0"}) /\ m_hcp \in Seq(Posts)
    <3>1. posted \subseteq Held
      BY DEF IInv, Typed, Held
    <3> DEFINE mine == {x \in posted : x[2] = m_serverSock}
               rest == {x \in posted : x[2] # m_serverSock}
    <3>2. mine \cup rest = posted /\ mine \cap rest = {} /\ c \in Cancelled(mine)
      OBVIOUS
    <3> HIDE DEF mine, rest
    <3>3. QED
      BY <3>1, <3>2, CancelledOnce DEF IInv, Typed
  <2>2. c \in Seq(Posts)
    BY <2>1 DEF Posts
  <2>3. QED
    BY <1>1, <2>1, <2>2
<1>4. /\ At(t, "cancel") /\ Return(t) /\ m_ioCount' = m_ioCount + Len(<<>>)
      /\ posted' = {x \in posted : x[2] # m_serverSock}
      /\ UNCHANGED <<switches, m_disconnect, m_releaseFlag, sending, ids, id, packets, events>>
  BY <1>2 DEF Cancel, counts, IInv, Typed
<1>5. QED
  BY <1>2, <1>3, <1>4, KeepsCancels

\* What may lie below the function on top.
Below == {"update", "pend", "recv_check", "try_send", "parse", "wait", "exits", "connected"}

\* Only the functions in Below ever lie below another one.
LEMMA ReturnsTo == ASSUME NEW t, NEW f, NEW r, Returns(t, f, r) PROVE r \in Seq(Below)
<1>1. ASSUME NEW w \in Below, NEW x \in Below, NEW y \in Below, NEW z \in Below
      PROVE  /\ <<>> \in Seq(Below) /\ <<w>> \in Seq(Below) /\ <<w, x>> \in Seq(Below)
             /\ <<w, x, y>> \in Seq(Below) /\ <<w, x, y, z>> \in Seq(Below)
  OBVIOUS
<1>2. /\ "update" \in Below /\ "pend" \in Below /\ "recv_check" \in Below /\ "try_send" \in Below
      /\ "parse" \in Below /\ "wait" \in Below /\ "exits" \in Below /\ "connected" \in Below
  BY DEF Below
<1>3. CASE t = Main
  <2>1. /\ <<>> \in Seq(Below) /\ <<"wait">> \in Seq(Below) /\ <<"update">> \in Seq(Below)
        /\ <<"exits", "wait">> \in Seq(Below) /\ <<"connected">> \in Seq(Below)
        /\ <<"recv_check", "update", "connected">> \in Seq(Below)
        /\ <<"update", "recv_check", "update", "connected">> \in Seq(Below)
        /\ <<"update", "connected">> \in Seq(Below)
        /\ <<"update", "update", "connected">> \in Seq(Below)
    BY <1>1, <1>2
  <2>2. QED
    BY <1>3, <2>1 DEF Returns, MainReturns
<1>4. CASE t # Main
  <2>1. /\ <<>> \in Seq(Below) /\ <<"update">> \in Seq(Below) /\ <<"pend", "update">> \in Seq(Below)
        /\ <<"recv_check", "update">> \in Seq(Below) /\ <<"try_send", "update">> \in Seq(Below)
        /\ <<"update", "update">> \in Seq(Below) /\ <<"update", "pend", "update">> \in Seq(Below)
        /\ <<"parse", "recv_check", "update">> \in Seq(Below)
    BY <1>1, <1>2
  <2>2. QED
    BY <1>4, <2>1 DEF Returns, WorkerReturns
<1>5. QED
  BY <1>3, <1>4

\* A function that is never returned to is on top.
LEMMA OnTopOnly ==
    ASSUME IInv, NEW t \in Threads, NEW F, F \cap Below = {}, In(F, pc[t]) > 0
    PROVE  \E f \in F : At(t, f) /\ In(F, pc[t]) = 1
<1>1. pc[t] \in Seq(Functions) /\ pc[t] # <<>>
  BY InNone DEF IInv, Typed
<1> DEFINE f == Head(pc[t])
<1>2. At(t, f)
  BY <1>1 DEF At
<1>3. In(F, pc[t]) = I(f, F) + In(F, Tail(pc[t]))
  BY <1>1, InTop
<1>4. In(F, Tail(pc[t])) = 0
  BY <1>2, Callers, ReturnsTo, InOutside
<1> HIDE DEF f
<1>5. f \in F /\ I(f, F) = 1
  BY <1>3, <1>4 DEF I
<1>6. In(F, pc[t]) = 1
  BY <1>3, <1>4, <1>5
<1>7. QED
  BY <1>2, <1>5, <1>6

\* The completion of a WSASend is followed by a trySend.
LEMMA SentTries ==
    ASSUME IInv, NEW t \in Threads, In({"sent"}, pc[t]) > 0
    PROVE  At(t, "sent") /\ t # Main /\ In({"try_send"}, pc[t]) = 1 /\ In({"sent"}, pc[t]) = 1
           /\ Tail(pc[t]) = <<"try_send", "update">>
<1>1. {"sent"} \cap Below = {}
  BY DEF Below
<1>2. At(t, "sent") /\ In({"sent"}, pc[t]) = 1
  BY <1>1, OnTopOnly
<1>3. t # Main /\ Tail(pc[t]) = <<"try_send", "update">>
  BY <1>2, Callers DEF Returns, MainReturns, WorkerReturns
<1>4. In({"try_send"}, pc[t]) = I("sent", {"try_send"}) + In({"try_send"}, <<"try_send", "update">>)
  BY <1>2, <1>3, Callers, InTop DEF At
<1>5. In({"try_send"}, <<"try_send", "update">>) = 1 /\ I("sent", {"try_send"}) = 0
  BY InTwo DEF I
<1>6. QED
  BY <1>2, <1>3, <1>4, <1>5

\* The thread with the right to send has it alone.
LEMMA SendAlone ==
    ASSUME IInv, NEW t \in Threads, t # Main, NEW f \in {"sp_size", "try_send"}, At(t, f)
    PROVE  /\ id_generator = 1 /\ SendTokens = 1 /\ m_sendFlag = 1
           /\ f = "sp_size" => Total({"sp_size"}, pc) = 1 /\ Total({"try_send"}, pc) = 0
           /\ f = "try_send" => Total({"try_send"}, pc) = 1 /\ Total({"sp_size"}, pc) = 0
           /\ In({"SEND"}, m_hcp) = 0 /\ In({"SEND_PEND"}, m_hcp) = 0 /\ Ops("send", posted) = 0
           /\ Total({"sent"}, pc) = 0 /\ Sending = 0 /\ m_sentPacket = <<>>
<1>1. f \in Using /\ f \notin Outside
  BY DEF Using, Outside
<1>2. id_generator = 1
  BY <1>1, WorkerOpen
<1>3. /\ Total({"sp_size"}, pc) \in Nat /\ Total({"try_send"}, pc) \in Nat
      /\ In({"SEND"}, m_hcp) \in Nat /\ In({"SEND_PEND"}, m_hcp) \in Nat
      /\ Ops("send", posted) \in Nat /\ Total({"sent"}, pc) \in Nat
  BY Counts DEF IInv, StacksNat, PortNat, KernelNat
<1>4. SendTokens <= 1 /\ (SendTokens = 1 => m_sendFlag = 1)
  BY <1>2 DEF IInv, OneSend
<1>5. /\ f = "sp_size" => Total({"sp_size"}, pc) >= 1
      /\ f = "try_send" => Total({"try_send"}, pc) >= 1
  BY OnTop
<1>6. /\ SendTokens = 1
      /\ f = "sp_size" => Total({"sp_size"}, pc) = 1 /\ Total({"try_send"}, pc) = 0
      /\ f = "try_send" => Total({"try_send"}, pc) = 1 /\ Total({"sp_size"}, pc) = 0
      /\ In({"SEND"}, m_hcp) = 0 /\ In({"SEND_PEND"}, m_hcp) = 0 /\ Ops("send", posted) = 0
  BY <1>3, <1>4, <1>5 DEF SendTokens
<1>7. Total({"sent"}, pc) = 0
  <2> SUFFICES ASSUME Total({"sent"}, pc) > 0 PROVE FALSE
    BY <1>3
  <2>1. pc \in [Threads -> Seq(Functions)]
    BY DEF IInv, Typed
  <2>2. PICK u \in Threads : In({"sent"}, pc[u]) > 0
    BY <2>1, TotalPlace
  <2>3. At(u, "sent") /\ In({"try_send"}, pc[u]) = 1
    BY <2>2, SentTries
  <2>4. Total({"try_send"}, pc) > 0
    BY <2>1, <2>3, TotalPlace
  <2>5. f = "try_send" /\ Total({"try_send"}, pc) = 1
    BY <1>6, <2>4
  <2>6. t # u
    BY <2>3, <2>5 DEF At
  <2>7. In({"try_send"}, pc[t]) + In({"try_send"}, pc[u]) <= 1
    BY <2>1, <2>5, <2>6, TotalTwo
  <2>8. In({"try_send"}, pc[t]) >= 1 /\ In({"try_send"}, pc[t]) \in Nat
    <3>1. pc[t] \in Seq(Functions)
      BY <2>1
    <3>2. QED
      BY <2>5, <3>1, OnTop, InNat
  <2>9. QED
    BY <2>3, <2>7, <2>8
<1>8. Sending = 0
  BY <1>6, <1>7 DEF Sending
<1>9. m_sentPacket = <<>>
  <2>1. \/ Total({"sp_size"}, pc) > 0
        \/ Total({"try_send"}, pc) > Total({"sent"}, pc)
    BY <1>6, <1>7
  <2>2. QED
    BY <1>2, <2>1 DEF IInv, SentEmpty
<1>10. QED
  BY <1>2, <1>4, <1>6, <1>7, <1>8, <1>9

\* trySend clears the flag: nothing is under way.
LEMMA KeepsTrySend == ASSUME IInv, NEW t \in Threads, TrySend(t) PROVE IInv'
<1>1. /\ At(t, "try_send") /\ Run(t, <<"try_size">>) /\ m_sendFlag' = 0
      /\ UNCHANGED <<switches, m_disconnect, counts, m_sendQ, m_sentPacket, ids, kernel, id, packets,
                     events>>
      /\ m_ioCount' = m_ioCount + 0 /\ m_hcp' = m_hcp /\ posted' = posted
  BY DEF TrySend, counts, kernel, IInv, Typed
<1>2. /\ Control' /\ Phase' /\ Fresh' /\ id_generator > 0
      /\ Ran(t, "try_send", <<"try_size">>, Tail(pc[t])) /\ Stacks(0, 0, 0, 0, 0, 0, -1, 0)
      /\ In(Receiving, pc'[Main]) > 0 => In(Receiving, pc[Main]) > 0
  <2>1. /\ "try_send" \in Functions \ Calls /\ "try_size" \in Functions \ Calls
        /\ ("try_size" \in Receiving => "try_send" \in Receiving)
    BY DEF Functions, Calls, Receiving
  <2>2. UNCHANGED <<switches, id_generator, joined>>
    BY <1>1 DEF ids, events
  <2>3. /\ I("try_send", {"update"}) = 0 /\ I("try_send", Using) = 1
        /\ I("try_send", {"rel_post", "release"}) = 0
        /\ I("try_send", {"clean"}) = 0 /\ I("try_send", Receiving) = 0
        /\ I("try_send", {"sp_size"}) = 0
        /\ I("try_send", {"try_send"}) = 1 /\ I("try_send", {"sent"}) = 0
    BY DEF I, Using, Receiving
  <2>4. /\ I("try_size", {"update"}) = 0 /\ I("try_size", Using) = 1
        /\ I("try_size", {"rel_post", "release"}) = 0
        /\ I("try_size", {"clean"}) = 0 /\ I("try_size", Receiving) = 0
        /\ I("try_size", {"sp_size"}) = 0
        /\ I("try_size", {"try_send"}) = 0 /\ I("try_size", {"sent"}) = 0
        /\ 0 - 0 = 0 /\ 0 - 1 = -1 /\ 1 - 1 = 0
    BY DEF I, Using, Receiving
  <2>5. Returns(t, "try_size", Tail(pc[t]))
    <3>1. Returns(t, "try_send", Tail(pc[t]))
      BY <1>1, Callers
    <3>2. QED
      BY <3>1 DEF Returns, MainReturns, WorkerReturns
  <2>6. QED
    BY <1>1, <2>1, <2>2, <2>3, <2>4, <2>5, SessionOne
<1>3. Typed'
  <2>1. m_ioCount' \in Int
    BY <1>1 DEF IInv, Typed
  <2>2. QED
    BY <1>1, <1>2, <2>1 DEF IInv, Typed, Ran, switches, counts, ids, packets
<1>4. /\ RecvTokens' = RecvTokens /\ SendTokens' = SendTokens - 1 /\ Releasing' = Releasing
      /\ Cleaning' = Cleaning /\ Sending' = Sending
      /\ In({"EXIT"}, m_hcp') = In({"EXIT"}, m_hcp) /\ In({"RECV0"}, m_hcp') = In({"RECV0"}, m_hcp)
      /\ In({"SEND_PEND"}, m_hcp') = In({"SEND_PEND"}, m_hcp)
      /\ In(UsePosts, m_hcp') = In(UsePosts, m_hcp)
      /\ Total({"update"}, pc') = Total({"update"}, pc) /\ Total(Using, pc') = Total(Using, pc)
      /\ Total({"clean"}, pc') = Total({"clean"}, pc)
      /\ Total({"sp_size"}, pc') = Total({"sp_size"}, pc)
      /\ Total({"try_send"}, pc') = Total({"try_send"}, pc) - 1
      /\ Total({"sent"}, pc') = Total({"sent"}, pc)
      /\ SumsNat /\ StacksNat(pc) /\ PortNat(m_hcp) /\ KernelNat(posted)
  <2>1. StacksNat(pc) /\ PortNat(m_hcp) /\ KernelNat(posted) /\ SumsNat
    BY Counts, SumsAreNat DEF IInv
  <2>2. Stacks(0, 0, 0, 0, 0, 0, -1, 0) /\ Port(0, 0, 0, 0, 0, 0, 0) /\ Kernel(0, 0, 0)
    <3>1. Port(0, 0, 0, 0, 0, 0, 0)
      BY <1>1, <2>1 DEF Port, PortNat
    <3>2. Kernel(0, 0, 0)
      BY <1>1, <2>1 DEF Kernel, KernelNat
    <3>3. QED
      BY <1>2, <3>1, <3>2
  <2>3. /\ RecvTokens' = RecvTokens + (0 + 0 + 0) /\ SendTokens' = SendTokens + (0 + -1 + 0 + 0 + 0)
        /\ Releasing' = Releasing + (0 + 0) /\ Cleaning' = Cleaning + 0
        /\ Sending' = Sending + (0 + 0 + 0)
    <3>1. -1 \in Int /\ 0 \in Int /\ Typed
      BY DEF IInv
    <3>2. QED
      BY <2>2, <3>1, Sums
  <2>4. /\ RecvTokens' = RecvTokens /\ SendTokens' = SendTokens - 1 /\ Releasing' = Releasing
        /\ Cleaning' = Cleaning /\ Sending' = Sending
    BY <2>1, <2>3 DEF SumsNat
  <2>5. /\ In({"EXIT"}, m_hcp') = In({"EXIT"}, m_hcp)
        /\ In({"RECV0"}, m_hcp') = In({"RECV0"}, m_hcp)
        /\ In({"SEND_PEND"}, m_hcp') = In({"SEND_PEND"}, m_hcp)
        /\ In(UsePosts, m_hcp') = In(UsePosts, m_hcp)
    BY <2>1, <2>2 DEF Port, PortNat
  <2>6. /\ Total({"update"}, pc') = Total({"update"}, pc) /\ Total(Using, pc') = Total(Using, pc)
        /\ Total({"clean"}, pc') = Total({"clean"}, pc)
        /\ Total({"sp_size"}, pc') = Total({"sp_size"}, pc)
        /\ Total({"try_send"}, pc') = Total({"try_send"}, pc) - 1
        /\ Total({"sent"}, pc') = Total({"sent"}, pc)
    BY <2>1, <2>2 DEF Stacks, StacksNat
  <2>7. QED
    BY <2>1, <2>4, <2>5, <2>6
<1>5. t # Main
  BY <1>1, Callers DEF Returns, MainReturns
<1>6. /\ id_generator = 1 /\ SendTokens = 1 /\ Sending = 0 /\ m_sentPacket = <<>>
      /\ m_releaseFlag = 0
  <2>1. "try_send" \in Using
    BY DEF Using
  <2>2. QED
    BY <1>1, <1>5, <2>1, SendAlone, OpenSocket
<1>7. Joining' /\ Known'
  BY <1>1, <1>2 DEF IInv, Joining, Known, ids
<1>8. ClosedIdle'
  BY <1>1, <1>6 DEF ClosedIdle, counts
<1>9. Stage' /\ OneReceive'
  BY <1>1, <1>4 DEF IInv, Stage, OneReceive, SumsNat, ids, switches, events, counts
<1>10. OneSend' /\ SentEmpty'
  BY <1>1, <1>4, <1>6 DEF OneSend, SentEmpty
<1>11. Watched'
  BY <1>1, <1>2, <1>4, EndingKept, WatchedBy DEF ids
<1>12. PacketsApart'
  BY <1>1, <1>4, PacketsKept DEF ids, events
<1>13. Counted'
  <2>1. /\ Total({"update"}, pc) \in Nat /\ In({"EXIT"}, m_hcp) \in Nat
        /\ Cardinality(posted) \in Nat /\ Len(m_hcp) \in Nat /\ m_ioCount \in Int
    BY <1>4 DEF StacksNat, PortNat, KernelNat, IInv, Typed
  <2>2. m_ioCount' = m_ioCount + (0 + 0 - 0 + 0)
    BY <1>1, <2>1
  <2>3. /\ Total({"update"}, pc') = Total({"update"}, pc) + 0
        /\ In({"EXIT"}, m_hcp') = In({"EXIT"}, m_hcp) + 0
        /\ Len(m_hcp') = Len(m_hcp) + 0 /\ Cardinality(posted') = Cardinality(posted) + 0
    BY <1>1, <1>4, <2>1
  <2>4. 0 \in Int
    OBVIOUS
  <2>5. QED
    BY <1>3, <2>2, <2>3, <2>4, CountedBy
<1>14. QED
  BY <1>2, <1>3, <1>7, <1>8, <1>9, <1>10, <1>11, <1>12, <1>13 DEF IInv

\* sendPost takes the oldest packets from the queue.
Taken(q)  == SubSeq(q, 1, Lower(Len(q), MaxWsaBuf))
Behind(q) == SubSeq(q, Lower(Len(q), MaxWsaBuf) + 1, Len(q))

\* sendPost cuts the queue in two.
LEMMA QueueSplit ==
    ASSUME IInv, m_sendQ # <<>>, NEW a, a = Taken(m_sendQ), NEW b, b = Behind(m_sendQ)
    PROVE  /\ a \in Seq(Numbers) /\ b \in Seq(Numbers) /\ a # <<>>
           /\ Len(a) <= MaxWsaBuf /\ Len(b) <= MaxSendQ
           /\ ToSet(a) \cup ToSet(b) = ToSet(m_sendQ) /\ ToSet(a) \cap ToSet(b) = {}
           /\ \A i, j \in 1 .. Len(a) : a[i] = a[j] => i = j
           /\ \A i, j \in 1 .. Len(b) : b[i] = b[j] => i = j
<1> DEFINE n == Lower(Len(m_sendQ), MaxWsaBuf)
<1>0. a = SubSeq(m_sendQ, 1, n) /\ b = SubSeq(m_sendQ, n + 1, Len(m_sendQ))
  BY DEF Taken, Behind
<1> DEFINE l == Len(m_sendQ)
<1>1. m_sendQ \in Seq(Numbers) /\ l \in Nat /\ l >= 1 /\ l <= MaxSendQ
      /\ \A i, j \in 1 .. l : m_sendQ[i] = m_sendQ[j] => i = j
  BY DEF IInv, Typed, PacketsApart
<1>2. n \in 1 .. l /\ n <= MaxWsaBuf
  BY <1>1, LanBounds DEF Lower
<1> HIDE DEF n
<1>3. MaxSendQ \in Nat /\ MaxWsaBuf \in Nat
  BY LanBounds
<1>4. a \in Seq(Numbers) /\ Len(a) = n /\ \A i \in 1 .. n : a[i] = m_sendQ[i]
  BY <1>0, <1>1, <1>2
<1>5. b \in Seq(Numbers) /\ Len(b) = l - n /\ \A i \in 1 .. l - n : b[i] = m_sendQ[n + i]
  BY <1>0, <1>1, <1>2
<1>6. a # <<>> /\ Len(b) <= MaxSendQ
  BY <1>1, <1>2, <1>3, <1>4, <1>5
<1>7. /\ ToSet(a) = {a[i] : i \in 1 .. n} /\ ToSet(b) = {b[i] : i \in 1 .. l - n}
      /\ ToSet(m_sendQ) = {m_sendQ[i] : i \in 1 .. l}
  <2>1. DOMAIN a = 1 .. n /\ DOMAIN m_sendQ = 1 .. l /\ DOMAIN b = 1 .. l - n
    BY <1>1, <1>4, <1>5
  <2> HIDE DEF l
  <2>2. QED
    BY <2>1 DEF ToSet
<1> HIDE DEF l
<1>8. ASSUME NEW p \in ToSet(m_sendQ) PROVE p \in ToSet(a) \/ p \in ToSet(b)
  <2>1. PICK i \in 1 .. l : p = m_sendQ[i]
    BY <1>7
  <2>2. i <= n => p \in ToSet(a)
    BY <1>1, <1>2, <1>4, <1>7, <2>1
  <2>3. i > n => p \in ToSet(b)
    <3> SUFFICES ASSUME i > n PROVE p \in ToSet(b)
      OBVIOUS
    <3>1. i - n \in 1 .. l - n /\ n + (i - n) = i
      BY <1>1, <1>2
    <3>2. b[i - n] = p
      BY <1>5, <2>1, <3>1
    <3>3. QED
      BY <1>7, <3>1, <3>2
  <2>4. QED
    BY <1>1, <1>2, <2>2, <2>3
<1>9. ToSet(a) \subseteq ToSet(m_sendQ)
  BY <1>1, <1>2, <1>4, <1>7
<1>10. \A i \in 1 .. l - n : n + i \in 1 .. l
  BY <1>1, <1>2
<1>11. ToSet(b) \subseteq ToSet(m_sendQ)
  BY <1>5, <1>7, <1>10
<1>12. ToSet(a) \cap ToSet(b) = {}
  <2> SUFFICES ASSUME NEW p \in ToSet(a), p \in ToSet(b) PROVE FALSE
    OBVIOUS
  <2>0. PICK i \in 1 .. n, j \in 1 .. l - n : a[i] = b[j]
    BY <1>7
  <2>1. i \in 1 .. l /\ n + j \in 1 .. l /\ i # n + j
    BY <1>1, <1>2
  <2>2. m_sendQ[i] = m_sendQ[n + j]
    BY <1>4, <1>5, <2>0
  <2>3. QED
    BY <1>1, <2>1, <2>2
<1>13. \A i, j \in 1 .. Len(a) : a[i] = a[j] => i = j
  BY <1>1, <1>2, <1>4
<1>14. \A i, j \in 1 .. Len(b) : b[i] = b[j] => i = j
  <2> SUFFICES ASSUME NEW i \in 1 .. l - n, NEW j \in 1 .. l - n, b[i] = b[j] PROVE i = j
    BY <1>5
  <2>1. n + i \in 1 .. l /\ n + j \in 1 .. l /\ (n + i = n + j => i = j)
    BY <1>1, <1>2
  <2>2. QED
    BY <1>1, <1>5, <2>1
<1>15. QED
  BY <1>2, <1>4, <1>5, <1>6, <1>8, <1>9, <1>11, <1>12, <1>13, <1>14

\* What sendPost does to the packets, and where it is.
LEMMA SendTaken ==
    ASSUME IInv, NEW t \in Threads, SendPost(t), Total({"clean"}, pc') = Total({"clean"}, pc)
    PROVE  /\ PacketsApart' /\ m_sentPacket' # <<>>
           /\ m_sendQ' \in Seq(Numbers) /\ Len(m_sendQ') <= MaxSendQ
           /\ m_sentPacket' \in Seq(Numbers) /\ Len(m_sentPacket') <= MaxWsaBuf
<1>1. /\ At(t, "sp_size") /\ m_sendQ # <<>> /\ m_sentPacket' = Taken(m_sendQ)
      /\ m_sendQ' = Behind(m_sendQ)
      /\ UNCHANGED <<m_releaseFlag, ids, packets, events>>
  BY DEF SendPost, Taken, Behind
<1>2. t # Main /\ "sp_size" \in Using
  BY <1>1, Callers DEF Returns, MainReturns, Using
<1>3. id_generator = 1 /\ m_sentPacket = <<>> /\ m_releaseFlag = 0
  BY <1>1, <1>2, SendAlone, OpenSocket
<1>4. left = {}
  BY <1>3 DEF IInv, Stage
<1>5. ~Cleaned'
  BY <1>1, <1>4 DEF Cleaned, events
<1>6. Back' = Back
  BY <1>1 DEF Back, packets
<1>7. ASSUME NEW a, a = Taken(m_sendQ), NEW b, b = Behind(m_sendQ)
      PROVE  /\ a \in Seq(Numbers) /\ b \in Seq(Numbers) /\ a # <<>>
             /\ Len(a) <= MaxWsaBuf /\ Len(b) <= MaxSendQ
             /\ ToSet(a) \cup ToSet(b) = ToSet(m_sendQ) /\ ToSet(a) \cap ToSet(b) = {}
             /\ \A i, j \in 1 .. Len(a) : a[i] = a[j] => i = j
             /\ \A i, j \in 1 .. Len(b) : b[i] = b[j] => i = j
  BY <1>1, <1>7, QueueSplit
<1>8. /\ m_sentPacket' \in Seq(Numbers) /\ m_sendQ' \in Seq(Numbers) /\ m_sentPacket' # <<>>
      /\ Len(m_sentPacket') <= MaxWsaBuf /\ Len(m_sendQ') <= MaxSendQ
  BY <1>1, <1>7
<1>9. /\ \A i, j \in 1 .. Len(m_sentPacket') : m_sentPacket'[i] = m_sentPacket'[j] => i = j
      /\ \A i, j \in 1 .. Len(m_sendQ') : m_sendQ'[i] = m_sendQ'[j] => i = j
  BY <1>1, <1>7
<1>10. /\ ToSet(m_sentPacket') \cup ToSet(m_sendQ') = ToSet(m_sendQ)
       /\ ToSet(m_sentPacket') \cap ToSet(m_sendQ') = {}
  <2>2. ASSUME NEW a, a = m_sentPacket', NEW b, b = m_sendQ'
        PROVE  ToSet(a) \cup ToSet(b) = ToSet(m_sendQ) /\ ToSet(a) \cap ToSet(b) = {}
    BY <1>1, <1>7, <2>2
  <2>3. QED
    BY <2>2
<1>11. ToSet(m_sentPacket) = {}
  BY <1>3 DEF ToSet
<1>12. /\ \A p \in Numbers : freed'[p] <= 1
       /\ freed' = freed /\ dropped' = dropped /\ accepted' = accepted /\ id_generator' = 1
       /\ dropped = {}
  BY <1>1, <1>3 DEF IInv, PacketsApart, packets, ids
<1>13. ToSet(m_sendQ) \cup Back = 1 .. accepted /\ ToSet(m_sendQ) \cap Back = {}
  BY <1>11, <1>12 DEF IInv, PacketsApart
<1>14. QED
  BY <1>5, <1>6, <1>8, <1>9, <1>10, <1>12, <1>13 DEF PacketsApart

\* WSASend takes the packets.
LEMMA KeepsSendPost ==
    ASSUME IInv, NEW t \in Threads, SendPost(t), Return(t),
           posted' = posted \cup {<<"send", m_serverSock>>}
    PROVE  IInv'
<1>1. /\ At(t, "sp_size") /\ Return(t) /\ m_ioCount' = m_ioCount + 1 /\ m_hcp' = m_hcp
      /\ posted' = posted \cup {<<"send", m_serverSock>>} /\ SendPost(t)
      /\ UNCHANGED <<switches, m_disconnect, m_releaseFlag, m_sendFlag, ids, m_hcp, id, packets, events>>
  BY DEF SendPost
<1>2. t # Main /\ "sp_size" \in Using
  BY <1>1, Callers DEF Returns, MainReturns, Using
<1>3. /\ id_generator = 1 /\ SendTokens = 1 /\ m_sendFlag = 1 /\ Total({"sp_size"}, pc) = 1
      /\ Total({"try_send"}, pc) = 0 /\ Total({"sent"}, pc) = 0 /\ In({"SEND_PEND"}, m_hcp) = 0
      /\ Ops("send", posted) = 0 /\ Sending = 0
  BY <1>1, <1>2, SendAlone
<1>4. m_releaseFlag = 0 /\ m_serverSock = 1 /\ 1 \in Sockets
  BY <1>1, <1>2, OpenSocket
<1>5. /\ Control' /\ Phase' /\ Fresh' /\ id_generator > 0
      /\ Ran(t, "sp_size", <<>>, Tail(pc[t])) /\ Stacks(0, -1, 0, 0, 0, -1, 0, 0)
      /\ In(Receiving, pc'[Main]) > 0 => In(Receiving, pc[Main]) > 0
  <2>1. "sp_size" \in Functions \ Calls
    BY DEF Functions, Calls
  <2>2. UNCHANGED <<switches, id_generator, joined>>
    BY <1>1 DEF ids, events
  <2>3. /\ I("sp_size", {"update"}) = 0 /\ I("sp_size", Using) = 1
        /\ I("sp_size", {"rel_post", "release"}) = 0
        /\ I("sp_size", {"clean"}) = 0 /\ I("sp_size", Receiving) = 0
        /\ I("sp_size", {"sp_size"}) = 1
        /\ I("sp_size", {"try_send"}) = 0 /\ I("sp_size", {"sent"}) = 0
        /\ 0 - 0 = 0 /\ 0 - 1 = -1
    BY DEF I, Using, Receiving
  <2>4. QED
    BY <1>1, <2>1, <2>2, <2>3, SessionNone
<1>6. Kernel(0, 1, 1) /\ posted' \subseteq {"recv", "send"} \X Sockets
  <2>1. \A x \in posted : x[1] # "send"
    <3>1. posted \subseteq Held
      BY DEF IInv, Typed, Held
    <3>2. Ops("send", posted) > 0 <=> \E x \in posted : x[1] = "send"
      BY <3>1, OpsNat
    <3>3. QED
      BY <1>3, <3>2
  <2>2. <<"send", m_serverSock>>[1] = "send"
    OBVIOUS
  <2>3. <<"send", m_serverSock>> \notin posted
    BY <2>1, <2>2
  <2>4. Kernel(IF "send" = "recv" THEN 1 ELSE 0, IF "send" = "send" THEN 1 ELSE 0, 1)
        /\ posted' \subseteq {"recv", "send"} \X Sockets
    BY <1>1, <1>4, <2>3, KernelAdd DEF IInv
  <2>5. QED
    BY <2>4
<1>7. /\ RecvTokens' = RecvTokens /\ SendTokens' = SendTokens /\ Releasing' = Releasing
      /\ Cleaning' = Cleaning /\ Sending' = Sending + 1
      /\ In({"EXIT"}, m_hcp') = In({"EXIT"}, m_hcp) /\ In({"RECV0"}, m_hcp') = In({"RECV0"}, m_hcp)
      /\ In({"SEND_PEND"}, m_hcp') = In({"SEND_PEND"}, m_hcp)
      /\ In(UsePosts, m_hcp') = In(UsePosts, m_hcp)
      /\ Total({"update"}, pc') = Total({"update"}, pc) /\ Total(Using, pc') = Total(Using, pc) - 1
      /\ Total({"clean"}, pc') = Total({"clean"}, pc)
      /\ Total({"sp_size"}, pc') = Total({"sp_size"}, pc) - 1
      /\ Total({"try_send"}, pc') = Total({"try_send"}, pc)
      /\ Total({"sent"}, pc') = Total({"sent"}, pc)
      /\ SumsNat /\ StacksNat(pc) /\ PortNat(m_hcp) /\ KernelNat(posted)
  <2>1. StacksNat(pc) /\ PortNat(m_hcp) /\ KernelNat(posted) /\ SumsNat
    BY Counts, SumsAreNat DEF IInv
  <2>2. Stacks(0, -1, 0, 0, 0, -1, 0, 0) /\ Port(0, 0, 0, 0, 0, 0, 0) /\ Kernel(0, 1, 1)
    <3>1. Port(0, 0, 0, 0, 0, 0, 0)
      BY <1>1, <2>1 DEF Port, PortNat
    <3>2. QED
      BY <1>5, <1>6, <3>1
  <2>3. /\ RecvTokens' = RecvTokens + (0 + 0 + 0) /\ SendTokens' = SendTokens + (-1 + 0 + 0 + 0 + 1)
        /\ Releasing' = Releasing + (0 + 0) /\ Cleaning' = Cleaning + 0
        /\ Sending' = Sending + (1 + 0 + 0)
    <3>1. -1 \in Int /\ 0 \in Int /\ 1 \in Int /\ Typed
      BY DEF IInv
    <3>2. QED
      BY <2>2, <3>1, Sums
  <2>4. /\ RecvTokens' = RecvTokens /\ SendTokens' = SendTokens /\ Releasing' = Releasing
        /\ Cleaning' = Cleaning /\ Sending' = Sending + 1
    BY <2>1, <2>3 DEF SumsNat
  <2>5. /\ In({"EXIT"}, m_hcp') = In({"EXIT"}, m_hcp)
        /\ In({"RECV0"}, m_hcp') = In({"RECV0"}, m_hcp)
        /\ In({"SEND_PEND"}, m_hcp') = In({"SEND_PEND"}, m_hcp)
        /\ In(UsePosts, m_hcp') = In(UsePosts, m_hcp)
    BY <2>1, <2>2 DEF Port, PortNat
  <2>6. /\ Total({"update"}, pc') = Total({"update"}, pc)
        /\ Total(Using, pc') = Total(Using, pc) - 1
        /\ Total({"clean"}, pc') = Total({"clean"}, pc)
        /\ Total({"sp_size"}, pc') = Total({"sp_size"}, pc) - 1
        /\ Total({"try_send"}, pc') = Total({"try_send"}, pc)
        /\ Total({"sent"}, pc') = Total({"sent"}, pc)
    BY <2>1, <2>2 DEF Stacks, StacksNat
  <2>7. QED
    BY <2>1, <2>4, <2>5, <2>6
<1>8. Typed'
  <2>1. m_ioCount' \in Int
    BY <1>1 DEF IInv, Typed
  <2>2. /\ m_sendQ' \in Seq(Numbers) /\ Len(m_sendQ') <= MaxSendQ
        /\ m_sentPacket' \in Seq(Numbers) /\ Len(m_sentPacket') <= MaxWsaBuf
    BY <1>1, <1>5, <1>6, <1>7, SendTaken
  <2>3. QED
    BY <1>1, <1>5, <1>6, <1>7, <2>1, <2>2 DEF IInv, Typed, Ran, switches, ids, packets
<1>9. Joining' /\ Known'
  BY <1>1, <1>3, <1>4, <1>5 DEF IInv, Joining, Known, ids
<1>10. ClosedIdle'
  BY <1>1, <1>4 DEF ClosedIdle
<1>11. Stage' /\ OneReceive' /\ OneSend'
  BY <1>1, <1>3, <1>7 DEF IInv, Stage, OneReceive, OneSend, SumsNat, ids, switches, events
<1>12. SentEmpty'
  BY <1>1, <1>3, <1>7, SendTaken DEF SentEmpty
<1>13. Watched'
  BY <1>1, <1>5, <1>7, EndingKept, WatchedBy DEF ids
<1>14. PacketsApart'
  BY <1>1, <1>7, SendTaken
<1>15. Counted'
  <2>1. /\ Total({"update"}, pc) \in Nat /\ In({"EXIT"}, m_hcp) \in Nat
        /\ Cardinality(posted) \in Nat /\ Len(m_hcp) \in Nat /\ m_ioCount \in Int
    BY <1>7 DEF StacksNat, PortNat, KernelNat, IInv, Typed
  <2>2. m_ioCount' = m_ioCount + (0 + 0 - 0 + 1)
    BY <1>1, <2>1
  <2>3. Cardinality(posted') = Cardinality(posted) + 1
    BY <1>6 DEF Kernel
  <2>4. /\ Total({"update"}, pc') = Total({"update"}, pc) + 0
        /\ In({"EXIT"}, m_hcp') = In({"EXIT"}, m_hcp) + 0 /\ Len(m_hcp') = Len(m_hcp) + 0
    BY <1>1, <1>7, <2>1
  <2>5. 0 \in Int /\ 1 \in Int
    OBVIOUS
  <2>6. QED
    BY <1>8, <2>2, <2>3, <2>4, <2>5, CountedBy
<1>16. QED
  BY <1>5, <1>8, <1>9, <1>10, <1>11, <1>12, <1>13, <1>14, <1>15 DEF IInv

\* WSASend fails; the packets stay where release() finds them.
LEMMA KeepsSendRefused ==
    ASSUME IInv, NEW t \in Threads, SendPost(t), Run(t, <<"disconnect", "update">>),
           UNCHANGED posted
    PROVE  IInv'
<1>1. /\ At(t, "sp_size") /\ Run(t, <<"disconnect", "update">>) /\ m_ioCount' = m_ioCount + 1
      /\ m_hcp' = m_hcp /\ posted' = posted /\ SendPost(t)
      /\ UNCHANGED <<switches, m_disconnect, m_releaseFlag, m_sendFlag, ids, m_hcp, id, packets, events>>
  BY DEF SendPost
<1>2. t # Main /\ "sp_size" \in Using
  BY <1>1, Callers DEF Returns, MainReturns, Using
<1>3. /\ id_generator = 1 /\ SendTokens = 1 /\ m_sendFlag = 1 /\ Total({"sp_size"}, pc) = 1
      /\ Total({"try_send"}, pc) = 0 /\ Total({"sent"}, pc) = 0 /\ In({"SEND_PEND"}, m_hcp) = 0
      /\ Ops("send", posted) = 0 /\ Sending = 0
  BY <1>1, <1>2, SendAlone
<1>4. m_releaseFlag = 0 /\ m_serverSock = 1 /\ 1 \in Sockets
  BY <1>1, <1>2, OpenSocket
<1>5. /\ Control' /\ Phase' /\ Fresh' /\ id_generator > 0
      /\ Ran(t, "sp_size", <<"disconnect", "update">>, Tail(pc[t]))
      /\ Stacks(1, -1, 0, 0, 0, -1, 0, 0)
      /\ \A F : In(F, <<"disconnect", "update">>) = I("disconnect", F) + I("update", F)
  <2>1. /\ "sp_size" \in Functions \ Calls /\ "disconnect" \in Functions \ Calls
        /\ "update" \in Functions \ Calls
        /\ {"disconnect", "update"} \cap (Receiving \cup Using \cup {"rel_post", "release", "clean"}) = {}
    BY DEF Functions, Calls, Receiving, Using
  <2>2. UNCHANGED <<switches, id_generator, joined>>
    BY <1>1 DEF ids, events
  <2>3. /\ I("sp_size", {"update"}) = 0 /\ I("sp_size", Using) = 1
        /\ I("sp_size", {"rel_post", "release"}) = 0
        /\ I("sp_size", {"clean"}) = 0 /\ I("sp_size", Receiving) = 0
        /\ I("sp_size", {"sp_size"}) = 1
        /\ I("sp_size", {"try_send"}) = 0 /\ I("sp_size", {"sent"}) = 0
        /\ 0 + 1 - 0 = 1 /\ 0 - 0 = 0 /\ 0 - 1 = -1
    BY DEF I, Using, Receiving
  <2>4. I("disconnect", {"update"}) = 0 /\ I("update", {"update"}) = 1
    BY DEF I
  <2>5. Returns(t, "disconnect", <<"update">> \o Tail(pc[t]))
    <3>1. Tail(pc[t]) = <<"pend", "update">>
      BY <1>1, <1>2, Callers DEF Returns, WorkerReturns
    <3>2. <<"update">> \o <<"pend", "update">> = <<"update", "pend", "update">>
      BY Pushed
    <3>3. QED
      BY <1>2, <3>1, <3>2 DEF Returns, WorkerReturns
  <2>6. QED
    BY <1>1, <2>1, <2>2, <2>3, <2>4, <2>5, SessionTwo
<1>6. /\ RecvTokens' = RecvTokens /\ SendTokens' = SendTokens - 1 /\ Releasing' = Releasing
      /\ Cleaning' = Cleaning /\ Sending' = Sending
      /\ In({"EXIT"}, m_hcp') = In({"EXIT"}, m_hcp) /\ In({"RECV0"}, m_hcp') = In({"RECV0"}, m_hcp)
      /\ In({"SEND_PEND"}, m_hcp') = In({"SEND_PEND"}, m_hcp)
      /\ In(UsePosts, m_hcp') = In(UsePosts, m_hcp)
      /\ Total({"update"}, pc') = Total({"update"}, pc) + 1
      /\ Total(Using, pc') = Total(Using, pc) - 1
      /\ Total({"clean"}, pc') = Total({"clean"}, pc)
      /\ Total({"sp_size"}, pc') = Total({"sp_size"}, pc) - 1
      /\ Total({"try_send"}, pc') = Total({"try_send"}, pc)
      /\ Total({"sent"}, pc') = Total({"sent"}, pc)
      /\ SumsNat /\ StacksNat(pc) /\ PortNat(m_hcp) /\ KernelNat(posted)
  <2>1. StacksNat(pc) /\ PortNat(m_hcp) /\ KernelNat(posted) /\ SumsNat
    BY Counts, SumsAreNat DEF IInv
  <2>2. Stacks(1, -1, 0, 0, 0, -1, 0, 0) /\ Port(0, 0, 0, 0, 0, 0, 0) /\ Kernel(0, 0, 0)
    <3>1. Port(0, 0, 0, 0, 0, 0, 0)
      BY <1>1, <2>1 DEF Port, PortNat
    <3>2. Kernel(0, 0, 0)
      BY <1>1, <2>1 DEF Kernel, KernelNat
    <3>3. QED
      BY <1>5, <3>1, <3>2
  <2>3. /\ RecvTokens' = RecvTokens + (0 + 0 + 0) /\ SendTokens' = SendTokens + (-1 + 0 + 0 + 0 + 0)
        /\ Releasing' = Releasing + (0 + 0) /\ Cleaning' = Cleaning + 0
        /\ Sending' = Sending + (0 + 0 + 0)
    <3>1. -1 \in Int /\ 0 \in Int /\ 1 \in Int /\ Typed
      BY DEF IInv
    <3>2. QED
      BY <2>2, <3>1, Sums, SMTT(30)
  <2>4. /\ RecvTokens' = RecvTokens /\ SendTokens' = SendTokens - 1 /\ Releasing' = Releasing
        /\ Cleaning' = Cleaning /\ Sending' = Sending
    BY <2>1, <2>3 DEF SumsNat
  <2>5. /\ In({"EXIT"}, m_hcp') = In({"EXIT"}, m_hcp)
        /\ In({"RECV0"}, m_hcp') = In({"RECV0"}, m_hcp)
        /\ In({"SEND_PEND"}, m_hcp') = In({"SEND_PEND"}, m_hcp)
        /\ In(UsePosts, m_hcp') = In(UsePosts, m_hcp)
    BY <2>1, <2>2 DEF Port, PortNat
  <2>6. /\ Total({"update"}, pc') = Total({"update"}, pc) + 1
        /\ Total(Using, pc') = Total(Using, pc) - 1
        /\ Total({"clean"}, pc') = Total({"clean"}, pc)
        /\ Total({"sp_size"}, pc') = Total({"sp_size"}, pc) - 1
        /\ Total({"try_send"}, pc') = Total({"try_send"}, pc)
        /\ Total({"sent"}, pc') = Total({"sent"}, pc)
    BY <2>1, <2>2 DEF Stacks, StacksNat
  <2>7. QED
    BY <2>1, <2>4, <2>5, <2>6
<1>7. Typed'
  <2>1. m_ioCount' \in Int
    BY <1>1 DEF IInv, Typed
  <2>2. /\ m_sendQ' \in Seq(Numbers) /\ Len(m_sendQ') <= MaxSendQ
        /\ m_sentPacket' \in Seq(Numbers) /\ Len(m_sentPacket') <= MaxWsaBuf
    BY <1>1, <1>5, <1>6, SendTaken
  <2>3. QED
    BY <1>1, <1>5, <1>6, <2>1, <2>2 DEF IInv, Typed, Ran, switches, ids, packets
<1>8. Joining' /\ Known'
  <2>1. pc'[Main] = pc[Main]
    BY <1>2, <1>5 DEF Ran, Threads
  <2>2. QED
    BY <1>1, <2>1 DEF IInv, Joining, Known, ids
<1>9. ClosedIdle'
  BY <1>1, <1>4 DEF ClosedIdle
<1>10. Stage' /\ OneReceive' /\ OneSend'
  BY <1>1, <1>3, <1>6 DEF IInv, Stage, OneReceive, OneSend, SumsNat, ids, switches, events
<1>11. SentEmpty'
  BY <1>1, <1>3, <1>6, SendTaken DEF SentEmpty
<1>12. Watched'
  <2>1. /\ In({"disconnect"}, pc'[t]) = In({"disconnect"}, <<"disconnect", "update">>) + In({"disconnect"}, Tail(pc[t]))
        /\ In({"update"}, pc'[t]) = In({"update"}, <<"disconnect", "update">>) + In({"update"}, Tail(pc[t]))
        /\ In({"disconnect"}, Tail(pc[t])) \in Nat /\ In({"update"}, Tail(pc[t])) \in Nat
    BY <1>5 DEF Ran
  <2>2. /\ In({"disconnect"}, <<"disconnect", "update">>) = 1
        /\ In({"update"}, <<"disconnect", "update">>) = 1
    BY InTwo DEF I
  <2>3. In({"disconnect"}, pc'[t]) > 0 /\ In({"update"}, pc'[t]) > 0
    BY <2>1, <2>2
  <2>4. QED
    BY <2>3 DEF Watched, Ending
<1>13. PacketsApart'
  BY <1>1, <1>6, SendTaken
<1>14. Counted'
  <2>1. /\ Total({"update"}, pc) \in Nat /\ In({"EXIT"}, m_hcp) \in Nat
        /\ Cardinality(posted) \in Nat /\ Len(m_hcp) \in Nat /\ m_ioCount \in Int
    BY <1>6 DEF StacksNat, PortNat, KernelNat, IInv, Typed
  <2>2. m_ioCount' = m_ioCount + (1 + 0 - 0 + 0)
    BY <1>1, <2>1
  <2>3. /\ Total({"update"}, pc') = Total({"update"}, pc) + 1
        /\ In({"EXIT"}, m_hcp') = In({"EXIT"}, m_hcp) + 0
        /\ Len(m_hcp') = Len(m_hcp) + 0 /\ Cardinality(posted') = Cardinality(posted) + 0
    BY <1>1, <1>6, <2>1
  <2>4. 0 \in Int /\ 1 \in Int
    OBVIOUS
  <2>5. QED
    BY <1>7, <2>2, <2>3, <2>4, CountedBy
<1>15. QED
  BY <1>5, <1>7, <1>8, <1>9, <1>10, <1>11, <1>12, <1>13, <1>14 DEF IInv

\* A sequence without repetitions holds each of its packets once.
LEMMA CountOnce ==
    ASSUME NEW s \in Seq(Numbers), \A i, j \in 1 .. Len(s) : s[i] = s[j] => i = j, NEW p
    PROVE  Count(p, s) = IF p \in ToSet(s) THEN 1 ELSE 0
<1> DEFINE at == {i \in DOMAIN s : s[i] = p}
<1>1. DOMAIN s = 1 .. Len(s)
  OBVIOUS
<1>2. CASE p \in ToSet(s)
  <2>1. PICK i \in 1 .. Len(s) : s[i] = p
    BY <1>1, <1>2 DEF ToSet
  <2>2. at = {i}
    BY <1>1, <2>1
  <2> HIDE DEF at
  <2>3. Cardinality(at) = 1
    BY <2>2, FS_Singleton
  <2>4. QED
    BY <1>2, <2>3 DEF Count, at
<1>3. CASE p \notin ToSet(s)
  <2>1. at = {}
    BY <1>1, <1>3 DEF ToSet
  <2> HIDE DEF at
  <2>2. Cardinality(at) = 0
    BY <2>1, FS_EmptySet
  <2>3. QED
    BY <1>3, <2>2 DEF Count, at
<1>4. QED
  BY <1>2, <1>3

\* SubRef on packets that nobody gave back yet.
LEMMA GivenBack ==
    ASSUME IInv, NEW s \in Seq(Numbers), \A i, j \in 1 .. Len(s) : s[i] = s[j] => i = j,
           ToSet(s) \cap Back = {}, freed' = SubRef(s)
    PROVE  /\ freed' \in [Numbers -> Nat] /\ \A p \in Numbers : freed'[p] <= 1
           /\ Back' = Back \cup ToSet(s)
<1>1. freed \in [Numbers -> Nat] /\ \A p \in Numbers : freed[p] <= 1
  BY DEF IInv, Typed, PacketsApart
<1>2. ASSUME NEW p PROVE Count(p, s) = IF p \in ToSet(s) THEN 1 ELSE 0
  BY CountOnce
<1>3. freed' = [p \in Numbers |-> freed[p] + Count(p, s)]
  BY DEF SubRef
<1>4. \A p \in Numbers : freed'[p] = freed[p] + IF p \in ToSet(s) THEN 1 ELSE 0
  BY <1>2, <1>3
<1>5. \A p \in Numbers : freed[p] \in {0, 1} /\ (p \in ToSet(s) => freed[p] = 0)
  BY <1>1 DEF Back
<1>6. \A p \in Numbers : freed'[p] \in {0, 1} /\ (freed'[p] = 1 <=> freed[p] = 1 \/ p \in ToSet(s))
  BY <1>4, <1>5
<1>7. freed' \in [Numbers -> Nat]
  BY <1>3, <1>6
<1>8. ToSet(s) \subseteq Numbers
  BY DEF ToSet
<1>9. Back' = Back \cup ToSet(s)
  BY <1>6, <1>8 DEF Back
<1>10. QED
  BY <1>6, <1>7, <1>9

\* The completion of a WSASend gives its packets back.
LEMMA KeepsSent == ASSUME IInv, NEW t \in Threads, Sent(t) PROVE IInv'
<1>0. /\ At(t, "sent") /\ t # Main /\ In({"try_send"}, pc[t]) = 1 /\ In({"sent"}, pc[t]) = 1
      /\ Tail(pc[t]) = <<"try_send", "update">> /\ id_generator = 1 /\ m_releaseFlag = 0
      /\ m_sentPacket # <<>>
  <2>1. At(t, "sent")
    BY DEF Sent
  <2>2. In({"sent"}, pc[t]) >= 1 /\ Total({"sent"}, pc) >= 1
    BY <2>1, OnTop
  <2>3. In({"sent"}, pc[t]) > 0
    <3>1. pc[t] \in Seq(Functions)
      BY <2>1, Callers
    <3>2. In({"sent"}, pc[t]) \in Nat
      BY <3>1, InNat
    <3>3. QED
      BY <2>2, <3>2
  <2>4. "sent" \notin Outside /\ "sent" \in Using
    BY DEF Outside, Using
  <2>5. t # Main
    BY <2>3, SentTries
  <2>6. id_generator = 1 /\ m_releaseFlag = 0
    BY <2>1, <2>4, <2>5, WorkerOpen
  <2>7. Sending > 0
    <3>1. Total({"sent"}, pc) \in Nat /\ In({"SEND"}, m_hcp) \in Nat /\ Ops("send", posted) \in Nat
      BY Counts DEF IInv, StacksNat, PortNat, KernelNat
    <3>2. QED
      BY <2>2, <3>1 DEF Sending
  <2>8. m_sentPacket # <<>>
    BY <2>6, <2>7 DEF IInv, SentEmpty
  <2>9. QED
    BY <2>1, <2>3, <2>6, <2>8, SentTries
<1>1. /\ At(t, "sent") /\ Return(t) /\ freed' = SubRef(m_sentPacket) /\ m_sentPacket' = <<>>
      /\ UNCHANGED <<switches, m_disconnect, counts, m_sendFlag, m_sendQ, ids, kernel, id, accepted,
                     dropped, events>>
      /\ m_ioCount' = m_ioCount + 0 /\ m_hcp' = m_hcp /\ posted' = posted
  BY <1>0 DEF Sent, Return, counts, kernel, IInv, Typed
<1>2. /\ Control' /\ Phase' /\ Fresh' /\ id_generator > 0
      /\ Ran(t, "sent", <<>>, Tail(pc[t])) /\ Stacks(0, -1, 0, 0, 0, 0, 0, -1)
      /\ In(Receiving, pc'[Main]) > 0 => In(Receiving, pc[Main]) > 0
  <2>1. "sent" \in Functions \ Calls
    BY DEF Functions, Calls
  <2>2. UNCHANGED <<switches, id_generator, joined>>
    BY <1>1 DEF ids, events
  <2>3. /\ I("sent", {"update"}) = 0 /\ I("sent", Using) = 1
        /\ I("sent", {"rel_post", "release"}) = 0
        /\ I("sent", {"clean"}) = 0 /\ I("sent", Receiving) = 0 /\ I("sent", {"sp_size"}) = 0
        /\ I("sent", {"try_send"}) = 0 /\ I("sent", {"sent"}) = 1
        /\ 0 - 0 = 0 /\ 0 - 1 = -1
    BY DEF I, Using, Receiving
  <2>4. QED
    BY <1>1, <2>1, <2>2, <2>3, SessionNone
<1>3. /\ RecvTokens' = RecvTokens /\ SendTokens' = SendTokens /\ Releasing' = Releasing
      /\ Cleaning' = Cleaning /\ Sending' = Sending - 1
      /\ In({"EXIT"}, m_hcp') = In({"EXIT"}, m_hcp) /\ In({"RECV0"}, m_hcp') = In({"RECV0"}, m_hcp)
      /\ In({"SEND_PEND"}, m_hcp') = In({"SEND_PEND"}, m_hcp)
      /\ In(UsePosts, m_hcp') = In(UsePosts, m_hcp)
      /\ Total({"update"}, pc') = Total({"update"}, pc) /\ Total(Using, pc') = Total(Using, pc) - 1
      /\ Total({"clean"}, pc') = Total({"clean"}, pc)
      /\ Total({"sp_size"}, pc') = Total({"sp_size"}, pc)
      /\ Total({"try_send"}, pc') = Total({"try_send"}, pc)
      /\ Total({"sent"}, pc') = Total({"sent"}, pc) - 1
      /\ SumsNat /\ StacksNat(pc) /\ PortNat(m_hcp) /\ KernelNat(posted)
  <2>1. StacksNat(pc) /\ PortNat(m_hcp) /\ KernelNat(posted) /\ SumsNat
    BY Counts, SumsAreNat DEF IInv
  <2>2. Stacks(0, -1, 0, 0, 0, 0, 0, -1) /\ Port(0, 0, 0, 0, 0, 0, 0) /\ Kernel(0, 0, 0)
    <3>1. Port(0, 0, 0, 0, 0, 0, 0)
      BY <1>1, <2>1 DEF Port, PortNat
    <3>2. Kernel(0, 0, 0)
      BY <1>1, <2>1 DEF Kernel, KernelNat
    <3>3. QED
      BY <1>2, <3>1, <3>2
  <2>3. /\ RecvTokens' = RecvTokens + (0 + 0 + 0) /\ SendTokens' = SendTokens + (0 + 0 + 0 + 0 + 0)
        /\ Releasing' = Releasing + (0 + 0) /\ Cleaning' = Cleaning + 0
        /\ Sending' = Sending + (0 + 0 + -1)
    <3>1. -1 \in Int /\ 0 \in Int /\ Typed
      BY DEF IInv
    <3>2. QED
      BY <2>2, <3>1, Sums
  <2>4. /\ RecvTokens' = RecvTokens /\ SendTokens' = SendTokens /\ Releasing' = Releasing
        /\ Cleaning' = Cleaning /\ Sending' = Sending - 1
    BY <2>1, <2>3 DEF SumsNat
  <2>5. /\ In({"EXIT"}, m_hcp') = In({"EXIT"}, m_hcp)
        /\ In({"RECV0"}, m_hcp') = In({"RECV0"}, m_hcp)
        /\ In({"SEND_PEND"}, m_hcp') = In({"SEND_PEND"}, m_hcp)
        /\ In(UsePosts, m_hcp') = In(UsePosts, m_hcp)
    BY <2>1, <2>2 DEF Port, PortNat
  <2>6. /\ Total({"update"}, pc') = Total({"update"}, pc)
        /\ Total(Using, pc') = Total(Using, pc) - 1
        /\ Total({"clean"}, pc') = Total({"clean"}, pc)
        /\ Total({"sp_size"}, pc') = Total({"sp_size"}, pc)
        /\ Total({"try_send"}, pc') = Total({"try_send"}, pc)
        /\ Total({"sent"}, pc') = Total({"sent"}, pc) - 1
    BY <2>1, <2>2 DEF Stacks, StacksNat
  <2>7. QED
    BY <2>1, <2>4, <2>5, <2>6
<1>4. left = {} /\ ToSet(m_sentPacket) \cap Back = {} /\ m_sentPacket \in Seq(Numbers)
      /\ \A i, j \in 1 .. Len(m_sentPacket) : m_sentPacket[i] = m_sentPacket[j] => i = j
      /\ dropped = {}
  <2>1. left = {}
    BY <1>0 DEF IInv, Stage
  <2>2. ~Cleaned
    BY <2>1 DEF Cleaned
  <2>3. QED
    BY <1>0, <2>1, <2>2 DEF IInv, Typed, PacketsApart
<1>5. /\ freed' \in [Numbers -> Nat] /\ \A p \in Numbers : freed'[p] <= 1
      /\ Back' = Back \cup ToSet(m_sentPacket)
  <2>1. ASSUME NEW s, s = m_sentPacket
        PROVE  /\ freed' \in [Numbers -> Nat] /\ \A p \in Numbers : freed'[p] <= 1
               /\ Back' = Back \cup ToSet(s)
    <3>1. /\ s \in Seq(Numbers) /\ \A i, j \in 1 .. Len(s) : s[i] = s[j] => i = j
          /\ ToSet(s) \cap Back = {} /\ freed' = SubRef(s)
      BY <1>1, <1>4, <2>1
    <3>2. QED
      BY <3>1, GivenBack
  <2>2. QED
    BY <2>1
<1>6. Typed'
  <2>1. m_ioCount' \in Int
    BY <1>1 DEF IInv, Typed
  <2>2. <<>> \in Seq(Numbers) /\ Len(<<>>) <= MaxWsaBuf
    BY LanBounds
  <2>3. QED
    BY <1>1, <1>2, <1>5, <2>1, <2>2 DEF IInv, Typed, Ran, switches, counts, ids
<1>7. Sending' = 0
  <2>1. /\ Total({"try_send"}, pc) \in Nat /\ Total({"sp_size"}, pc) \in Nat
        /\ In({"SEND"}, m_hcp) \in Nat /\ In({"SEND_PEND"}, m_hcp) \in Nat
        /\ Ops("send", posted) \in Nat /\ Total({"sent"}, pc) \in Nat
    BY <1>3 DEF StacksNat, PortNat, KernelNat
  <2>2. pc \in [Threads -> Seq(Functions)] /\ pc' \in [Threads -> Seq(Functions)]
    BY <1>6 DEF IInv, Typed
  <2>3. SendTokens <= 1
    BY <1>0 DEF IInv, OneSend
  <2>4. Total({"try_send"}, pc) >= 1
    <3>1. In({"try_send"}, pc[t]) > 0
      BY <1>0
    <3>2. Total({"try_send"}, pc) > 0
      BY <2>2, <3>1, TotalPlace
    <3>3. QED
      BY <2>1, <3>2
  <2>5. In({"SEND"}, m_hcp) = 0 /\ Ops("send", posted) = 0 /\ Total({"try_send"}, pc) = 1
    BY <2>1, <2>3, <2>4 DEF SendTokens
  <2>6. Total({"sent"}, pc') = 0
    <3>1. Total({"sent"}, pc') \in Nat
      BY <1>6, Counts DEF StacksNat
    <3> SUFFICES ASSUME Total({"sent"}, pc') > 0 PROVE FALSE
      BY <3>1
    <3>2. PICK u \in Threads : In({"sent"}, pc'[u]) > 0
      <4>1. ASSUME NEW after, after = pc'
            PROVE  \E u \in Threads : In({"sent"}, after[u]) > 0
        BY <2>2, <4>1, TotalPlace
      <4>2. QED
        BY <4>1
    <3>3. u # t
      <4>1. In({"sent"}, pc[t]) = I("sent", {"sent"}) + In({"sent"}, Tail(pc[t]))
            /\ In({"sent"}, pc'[t]) = In({"sent"}, <<>>) + In({"sent"}, Tail(pc[t]))
            /\ In({"sent"}, Tail(pc[t])) \in Nat
        BY <1>2 DEF Ran
      <4>2. I("sent", {"sent"}) = 1 /\ In({"sent"}, <<>>) = 0
        BY InNone DEF I
      <4>3. In({"sent"}, pc'[t]) = 0
        BY <1>0, <4>1, <4>2
      <4>4. QED
        BY <3>2, <4>3
    <3>4. pc'[u] = pc[u]
      BY <1>2, <3>3 DEF Ran
    <3>5. In({"try_send"}, pc[u]) = 1
      BY <3>2, <3>4, SentTries
    <3>6. In({"try_send"}, pc[t]) + In({"try_send"}, pc[u]) <= Total({"try_send"}, pc)
      BY <2>2, <3>3, TotalTwo
    <3>7. QED
      BY <1>0, <2>5, <3>5, <3>6
  <2>7. QED
    BY <1>1, <2>5, <2>6 DEF Sending
<1>8. Joining' /\ Known'
  BY <1>1, <1>2 DEF IInv, Joining, Known, ids
<1>9. ClosedIdle'
  BY <1>0, <1>1 DEF ClosedIdle, ids, counts
<1>10. Stage' /\ OneReceive' /\ OneSend'
  BY <1>1, <1>3 DEF IInv, Stage, OneReceive, OneSend, SumsNat, ids, switches, events, counts
<1>11. SentEmpty'
  BY <1>1, <1>7 DEF SentEmpty
<1>12. Watched'
  BY <1>1, <1>2, <1>3, EndingKept, WatchedBy DEF ids
<1>13. PacketsApart'
  <2>1. ~Cleaned'
    BY <1>1, <1>4 DEF Cleaned, events
  <2>2. ToSet(m_sentPacket') = {}
    BY <1>1 DEF ToSet
  <2>3. /\ m_sentPacket' = <<>> /\ m_sendQ' = m_sendQ /\ dropped' = {} /\ accepted' = accepted
        /\ id_generator' = 1 /\ Len(<<>>) = 0
    BY <1>0, <1>1, <1>4 DEF ids
  <2>4. \A i, j \in 1 .. Len(m_sentPacket') : m_sentPacket'[i] = m_sentPacket'[j] => i = j
    BY <2>3
  <2>5. /\ ToSet(m_sendQ) \cup ToSet(m_sentPacket) \cup Back = 1 .. accepted
        /\ ToSet(m_sendQ) \cap (ToSet(m_sentPacket) \cup Back) = {}
    <3>1. /\ ToSet(m_sendQ) \cup ToSet(m_sentPacket) \cup Back \cup dropped = 1 .. accepted
          /\ ToSet(m_sendQ) \cap (ToSet(m_sentPacket) \cup Back \cup dropped) = {}
      BY DEF IInv, PacketsApart
    <3>2. dropped = {}
      BY <1>0 DEF IInv, PacketsApart
    <3>3. /\ ToSet(m_sendQ) \cup ToSet(m_sentPacket) \cup Back \cup dropped
               = ToSet(m_sendQ) \cup ToSet(m_sentPacket) \cup Back
          /\ ToSet(m_sentPacket) \cup Back \cup dropped = ToSet(m_sentPacket) \cup Back
      BY <3>2
    <3>4. QED
      BY <3>1, <3>3
  <2>6. \A i, j \in 1 .. Len(m_sendQ') : m_sendQ'[i] = m_sendQ'[j] => i = j
    BY <2>3 DEF IInv, PacketsApart
  <2>7. QED
    BY <1>5, <2>1, <2>2, <2>3, <2>4, <2>5, <2>6 DEF PacketsApart
<1>14. Counted'
  <2>1. /\ Total({"update"}, pc) \in Nat /\ In({"EXIT"}, m_hcp) \in Nat
        /\ Cardinality(posted) \in Nat /\ Len(m_hcp) \in Nat /\ m_ioCount \in Int
    BY <1>3 DEF StacksNat, PortNat, KernelNat, IInv, Typed
  <2>2. m_ioCount' = m_ioCount + (0 + 0 - 0 + 0)
    BY <1>1, <2>1
  <2>3. /\ Total({"update"}, pc') = Total({"update"}, pc) + 0
        /\ In({"EXIT"}, m_hcp') = In({"EXIT"}, m_hcp) + 0
        /\ Len(m_hcp') = Len(m_hcp) + 0 /\ Cardinality(posted') = Cardinality(posted) + 0
    BY <1>1, <1>3, <2>1
  <2>4. 0 \in Int
    OBVIOUS
  <2>5. QED
    BY <1>6, <2>2, <2>3, <2>4, CountedBy
<1>15. QED
  BY <1>2, <1>6, <1>8, <1>9, <1>10, <1>11, <1>12, <1>13, <1>14 DEF IInv

\* Whoever uses the session will give a count back.
LEMMA UsingCounted ==
    ASSUME IInv, NEW t \in Threads, In(Using, pc[t]) > 0
    PROVE  In({"update"}, pc[t]) > 0
<1>1. pc[t] \in Seq(Functions) /\ pc[t] # <<>>
  BY InNone DEF IInv, Typed
<1> DEFINE f == Head(pc[t])
           r == Tail(pc[t])
<1>2. At(t, f) /\ Returns(t, f, r) /\ r \in Seq(Functions)
  BY <1>1, Callers DEF At
<1>3. /\ In(Using, pc[t]) = I(f, Using) + In(Using, r)
      /\ In({"update"}, pc[t]) = I(f, {"update"}) + In({"update"}, r)
      /\ In({"update"}, r) \in Nat /\ I(f, {"update"}) \in Nat
  BY <1>1, <1>2, InTop, InNat DEF I
<1> HIDE DEF f, r
<1>4. CASE In({"update"}, r) > 0
  BY <1>3, <1>4
<1>5. CASE In({"update"}, r) = 0
  <2>1. /\ In({"update"}, <<"update">>) = 1 /\ In({"update"}, <<"pend", "update">>) = 1
        /\ In({"update"}, <<"recv_check", "update">>) = 1
        /\ In({"update"}, <<"try_send", "update">>) = 1
        /\ In({"update"}, <<"update", "update">>) = 2
        /\ In({"update"}, <<"update", "pend", "update">>) = 2
        /\ In({"update"}, <<"parse", "recv_check", "update">>) = 1
    BY InOne, InTwo, InThree DEF I
  <2>2. /\ In({"update"}, <<"recv_check", "update", "connected">>) = 1
        /\ In({"update"}, <<"update", "recv_check", "update", "connected">>) = 2
        /\ In({"update"}, <<"update", "connected">>) = 1
        /\ In({"update"}, <<"update", "update", "connected">>) = 2
    BY InTwo, InThree, InFour DEF I
  <2>3. \/ r = <<>> /\ f \notin Using
        \/ r = <<"wait">> /\ f \notin Using
        \/ r = <<"exits", "wait">> /\ f \notin Using
        \/ r = <<"connected">> /\ f \notin Using
    <3>1. /\ r # <<"update">> /\ r # <<"pend", "update">> /\ r # <<"recv_check", "update">>
          /\ r # <<"try_send", "update">> /\ r # <<"update", "update">>
          /\ r # <<"update", "pend", "update">> /\ r # <<"parse", "recv_check", "update">>
      BY <1>5, <2>1
    <3>2. /\ r # <<"recv_check", "update", "connected">> /\ r # <<"update", "connected">>
          /\ r # <<"update", "recv_check", "update", "connected">>
          /\ r # <<"update", "update", "connected">>
      BY <1>5, <2>2
    <3>3. CASE t = Main
      <4>1. MainReturns(f, r)
        BY <1>2, <3>3 DEF Returns
      <4>2. \/ r = <<>> /\ f \in {"connect", "wait", "connected", "send_id", "send_inc", "update",
                                  "rel_cas", "rel_post"}
            \/ r = <<"wait">> /\ f = "exits"
            \/ r = <<"exits", "wait">> /\ f \in {"disconnect", "dc_cancel"}
            \/ r = <<"connected">> /\ f \in {"update", "rel_cas", "rel_post"}
        BY <3>1, <3>2, <4>1 DEF MainReturns
      <4>3. QED
        BY <4>2 DEF Using
    <3>4. CASE t # Main
      <4>1. WorkerReturns(f, r)
        BY <1>2, <3>4 DEF Returns
      <4>2. r = <<>> /\ f \in {"update", "rel_cas", "rel_post"}
        BY <3>1, <4>1 DEF WorkerReturns
      <4>3. QED
        BY <4>2 DEF Using
    <3>5. QED
      BY <3>3, <3>4
  <2>4. /\ In(Using, <<>>) = 0 /\ In(Using, <<"wait">>) = 0 /\ In(Using, <<"exits", "wait">>) = 0
        /\ In(Using, <<"connected">>) = 0
    BY InNone, InOne, InTwo DEF I, Using
  <2>5. In(Using, r) = 0 /\ I(f, Using) = 0
    BY <2>3, <2>4 DEF I
  <2>6. QED
    BY <1>3, <2>5
<1>6. QED
  BY <1>3, <1>4, <1>5

\* Where the count is 0, nobody uses the session, and the connection was ended.
LEMMA NobodyLeft ==
    ASSUME IInv, m_ioCount = 0
    PROVE  /\ posted = {} /\ In(UsePosts, m_hcp) = 0 /\ Total(Using, pc) = 0
           /\ id_generator = 1 => m_disconnect = 1
<1>1. pc \in [Threads -> Seq(Functions)] /\ posted \subseteq Held /\ m_hcp \in Seq(Posts)
  BY DEF IInv, Typed, Held
<1>2. StacksNat(pc) /\ PortNat(m_hcp) /\ KernelNat(posted)
  BY Counts DEF IInv
<1>3. Total({"update"}, pc) = 0 /\ Len(m_hcp) = In({"EXIT"}, m_hcp) /\ Cardinality(posted) = 0
  <2>1. /\ Total({"update"}, pc) \in Nat /\ Len(m_hcp) \in Nat /\ In({"EXIT"}, m_hcp) \in Nat
        /\ In({"EXIT"}, m_hcp) <= Len(m_hcp) /\ Cardinality(posted) \in Nat
    BY <1>2 DEF StacksNat, PortNat, KernelNat
  <2>2. 0 = Total({"update"}, pc) + Len(m_hcp) - In({"EXIT"}, m_hcp) + Cardinality(posted)
    BY DEF IInv, Counted
  <2>3. QED
    BY <2>1, <2>2
<1>4. posted = {}
  BY <1>1, <1>3, OpsNat
<1>5. In(UsePosts, m_hcp) = 0
  <2>1. {"EXIT"} \cap UsePosts = {}
    BY DEF UsePosts
  <2>2. In({"EXIT"}, m_hcp) + In(UsePosts, m_hcp) <= Len(m_hcp)
    BY <1>1, <2>1, InLen
  <2>3. In(UsePosts, m_hcp) \in Nat /\ In({"EXIT"}, m_hcp) \in Nat
    BY <1>2 DEF PortNat
  <2>4. QED
    BY <1>3, <2>2, <2>3
<1>6. Total(Using, pc) = 0
  <2> SUFFICES ASSUME Total(Using, pc) > 0 PROVE FALSE
    BY <1>2 DEF StacksNat
  <2>1. PICK t \in Threads : In(Using, pc[t]) > 0
    BY <1>1, TotalPlace
  <2>2. In({"update"}, pc[t]) > 0
    BY <2>1, UsingCounted
  <2>3. Total({"update"}, pc) > 0
    BY <1>1, <2>2, TotalPlace
  <2>4. QED
    BY <1>3, <2>3
<1>7. ASSUME id_generator = 1 PROVE m_disconnect = 1
  <2> SUFFICES ASSUME m_disconnect = 0 PROVE FALSE
    BY DEF IInv, Typed
  <2>1. RecvTokens + In({"RECV0"}, m_hcp) > 0 \/ \E t \in Threads : Ending(t)
    BY <1>7 DEF IInv, Watched
  <2>2. ASSUME NEW t \in Threads PROVE ~Ending(t)
    <3>1. In({"update"}, pc[t]) > 0 => Total({"update"}, pc) > 0
      BY <1>1, TotalPlace
    <3>2. QED
      BY <1>3, <3>1 DEF Ending
  <2>3. Total(Receiving, pc) = 0
    <3>1. Receiving \subseteq Using
      BY DEF Receiving, Using
    <3>2. Total(Receiving, pc) <= Total(Using, pc) /\ Total(Receiving, pc) \in Nat
      BY <1>1, <3>1, TotalMore
    <3>3. QED
      BY <1>6, <3>2
  <2>4. In({"RECV"}, m_hcp) = 0 /\ In({"RECV0"}, m_hcp) = 0
    <3>1. {"RECV"} \subseteq UsePosts /\ {"RECV0"} \subseteq UsePosts
      BY DEF UsePosts
    <3>2. /\ In({"RECV"}, m_hcp) <= In(UsePosts, m_hcp) /\ In({"RECV"}, m_hcp) \in Nat
          /\ In({"RECV0"}, m_hcp) <= In(UsePosts, m_hcp) /\ In({"RECV0"}, m_hcp) \in Nat
      BY <1>1, <3>1, InMore
    <3>3. QED
      BY <1>5, <3>2
  <2>5. Ops("recv", posted) = 0
    <3>1. /\ Ops("recv", posted) \in Nat
          /\ (Ops("recv", posted) > 0 <=> \E x \in posted : x[1] = "recv")
      BY <1>1, OpsNat
    <3>2. QED
      BY <1>4, <3>1
  <2>6. RecvTokens + In({"RECV0"}, m_hcp) = 0
    BY <2>3, <2>4, <2>5 DEF RecvTokens
  <2>7. QED
    BY <2>1, <2>2, <2>6
<1>8. QED
  BY <1>4, <1>5, <1>6, <1>7

\* The compare-exchange closes the session.
LEMMA KeepsReleaseCas ==
    ASSUME IInv, NEW t \in Threads, ReleaseCas(t), m_ioCount = 0, m_releaseFlag = 0 PROVE IInv'
<1>1. /\ At(t, "rel_cas") /\ Run(t, <<"rel_post">>) /\ m_releaseFlag' = 1
      /\ UNCHANGED <<switches, m_disconnect, m_ioCount, sending, ids, kernel, id, packets, events>>
      /\ m_ioCount' = m_ioCount + 0 /\ m_hcp' = m_hcp /\ posted' = posted
  BY DEF ReleaseCas, kernel, IInv, Typed
<1>2. /\ Control' /\ Phase' /\ Fresh' /\ id_generator > 0
      /\ Ran(t, "rel_cas", <<"rel_post">>, Tail(pc[t])) /\ Stacks(0, 0, 1, 0, 0, 0, 0, 0)
      /\ In(Receiving, pc'[Main]) > 0 => In(Receiving, pc[Main]) > 0
  <2>1. /\ "rel_cas" \in Functions \ Calls /\ "rel_post" \in Functions \ Calls
        /\ ("rel_post" \in Receiving => "rel_cas" \in Receiving)
    BY DEF Functions, Calls, Receiving
  <2>2. UNCHANGED <<switches, id_generator, joined>>
    BY <1>1 DEF ids, events
  <2>3. /\ I("rel_cas", {"update"}) = 0 /\ I("rel_cas", Using) = 0
        /\ I("rel_cas", {"rel_post", "release"}) = 0
        /\ I("rel_cas", {"clean"}) = 0 /\ I("rel_cas", Receiving) = 0
        /\ I("rel_cas", {"sp_size"}) = 0
        /\ I("rel_cas", {"try_send"}) = 0 /\ I("rel_cas", {"sent"}) = 0
    BY DEF I, Using, Receiving
  <2>4. /\ I("rel_post", {"update"}) = 0 /\ I("rel_post", Using) = 0
        /\ I("rel_post", {"rel_post", "release"}) = 1
        /\ I("rel_post", {"clean"}) = 0 /\ I("rel_post", Receiving) = 0
        /\ I("rel_post", {"sp_size"}) = 0
        /\ I("rel_post", {"try_send"}) = 0 /\ I("rel_post", {"sent"}) = 0
        /\ 0 - 0 = 0 /\ 1 - 0 = 1
    BY DEF I, Using, Receiving
  <2>5. Returns(t, "rel_post", Tail(pc[t]))
    <3>1. Returns(t, "rel_cas", Tail(pc[t]))
      BY <1>1, Callers
    <3>2. QED
      BY <3>1 DEF Returns, MainReturns, WorkerReturns
  <2>6. QED
    BY <1>1, <2>1, <2>2, <2>3, <2>4, <2>5, SessionOne
<1>3. Typed'
  <2>1. m_ioCount' \in Int
    BY <1>1 DEF IInv, Typed
  <2>2. QED
    BY <1>1, <1>2, <2>1 DEF IInv, Typed, Ran, switches, sending, ids, packets
<1>4. /\ RecvTokens' = RecvTokens /\ SendTokens' = SendTokens /\ Releasing' = Releasing + 1
      /\ Cleaning' = Cleaning /\ Sending' = Sending
      /\ In({"EXIT"}, m_hcp') = In({"EXIT"}, m_hcp) /\ In({"RECV0"}, m_hcp') = In({"RECV0"}, m_hcp)
      /\ In({"SEND_PEND"}, m_hcp') = In({"SEND_PEND"}, m_hcp)
      /\ In(UsePosts, m_hcp') = In(UsePosts, m_hcp)
      /\ Total({"update"}, pc') = Total({"update"}, pc) /\ Total(Using, pc') = Total(Using, pc)
      /\ Total({"clean"}, pc') = Total({"clean"}, pc)
      /\ Total({"sp_size"}, pc') = Total({"sp_size"}, pc)
      /\ Total({"try_send"}, pc') = Total({"try_send"}, pc)
      /\ Total({"sent"}, pc') = Total({"sent"}, pc)
      /\ SumsNat /\ StacksNat(pc) /\ PortNat(m_hcp) /\ KernelNat(posted)
  <2>1. StacksNat(pc) /\ PortNat(m_hcp) /\ KernelNat(posted) /\ SumsNat
    BY Counts, SumsAreNat DEF IInv
  <2>2. Stacks(0, 0, 1, 0, 0, 0, 0, 0) /\ Port(0, 0, 0, 0, 0, 0, 0) /\ Kernel(0, 0, 0)
    <3>1. Port(0, 0, 0, 0, 0, 0, 0)
      BY <1>1, <2>1 DEF Port, PortNat
    <3>2. Kernel(0, 0, 0)
      BY <1>1, <2>1 DEF Kernel, KernelNat
    <3>3. QED
      BY <1>2, <3>1, <3>2
  <2>3. /\ RecvTokens' = RecvTokens + (0 + 0 + 0) /\ SendTokens' = SendTokens + (0 + 0 + 0 + 0 + 0)
        /\ Releasing' = Releasing + (1 + 0) /\ Cleaning' = Cleaning + 0
        /\ Sending' = Sending + (0 + 0 + 0)
    <3>1. 0 \in Int /\ 1 \in Int /\ Typed
      BY DEF IInv
    <3>2. QED
      BY <2>2, <3>1, Sums
  <2>4. /\ RecvTokens' = RecvTokens /\ SendTokens' = SendTokens /\ Releasing' = Releasing + 1
        /\ Cleaning' = Cleaning /\ Sending' = Sending
    BY <2>1, <2>3 DEF SumsNat
  <2>5. /\ In({"EXIT"}, m_hcp') = In({"EXIT"}, m_hcp)
        /\ In({"RECV0"}, m_hcp') = In({"RECV0"}, m_hcp)
        /\ In({"SEND_PEND"}, m_hcp') = In({"SEND_PEND"}, m_hcp)
        /\ In(UsePosts, m_hcp') = In(UsePosts, m_hcp)
    BY <2>1, <2>2 DEF Port, PortNat
  <2>6. /\ Total({"update"}, pc') = Total({"update"}, pc) /\ Total(Using, pc') = Total(Using, pc)
        /\ Total({"clean"}, pc') = Total({"clean"}, pc)
        /\ Total({"sp_size"}, pc') = Total({"sp_size"}, pc)
        /\ Total({"try_send"}, pc') = Total({"try_send"}, pc)
        /\ Total({"sent"}, pc') = Total({"sent"}, pc)
    BY <2>1, <2>2 DEF Stacks, StacksNat
  <2>7. QED
    BY <2>1, <2>4, <2>5, <2>6
<1>5. Joining' /\ Known'
  BY <1>1, <1>2 DEF IInv, Joining, Known, ids
<1>6. ClosedIdle'
  BY <1>1, <1>4, NobodyLeft DEF ClosedIdle, ids
<1>7. Stage'
  BY <1>1, <1>4 DEF IInv, Stage, SumsNat, ids, switches, events
<1>8. OneReceive' /\ OneSend'
  BY <1>1, <1>4 DEF IInv, OneReceive, OneSend, SumsNat, ids, sending
<1>9. SentEmpty'
  BY <1>1, <1>4 DEF IInv, SentEmpty, ids, sending
<1>10. Watched'
  BY <1>1, <1>2, <1>4, EndingKept, WatchedBy DEF ids
<1>11. PacketsApart'
  BY <1>1, <1>4, PacketsKept DEF ids, events, sending
<1>12. Counted'
  <2>1. /\ Total({"update"}, pc) \in Nat /\ In({"EXIT"}, m_hcp) \in Nat
        /\ Cardinality(posted) \in Nat /\ Len(m_hcp) \in Nat /\ m_ioCount \in Int
    BY <1>4 DEF StacksNat, PortNat, KernelNat, IInv, Typed
  <2>2. m_ioCount' = m_ioCount + (0 + 0 - 0 + 0)
    BY <1>1, <2>1
  <2>3. /\ Total({"update"}, pc') = Total({"update"}, pc) + 0
        /\ In({"EXIT"}, m_hcp') = In({"EXIT"}, m_hcp) + 0
        /\ Len(m_hcp') = Len(m_hcp) + 0 /\ Cardinality(posted') = Cardinality(posted) + 0
    BY <1>1, <1>4, <2>1
  <2>4. 0 \in Int
    OBVIOUS
  <2>5. QED
    BY <1>3, <2>2, <2>3, <2>4, CountedBy
<1>13. QED
  BY <1>2, <1>3, <1>5, <1>6, <1>7, <1>8, <1>9, <1>10, <1>11, <1>12 DEF IInv

\* Two sequences that share nothing hold no packet twice together.
Both(q, r) == q \o r

\* m_sendQ and m_sentPacket together repeat no packet, when neither does and they share none.
LEMMA JoinedOnce ==
    ASSUME NEW q \in Seq(Numbers), NEW r \in Seq(Numbers), NEW s, s = Both(q, r),
           \A i, j \in 1 .. Len(q) : q[i] = q[j] => i = j,
           \A i, j \in 1 .. Len(r) : r[i] = r[j] => i = j,
           ToSet(q) \cap ToSet(r) = {}
    PROVE  /\ s \in Seq(Numbers) /\ ToSet(s) = ToSet(q) \cup ToSet(r)
           /\ \A i, j \in 1 .. Len(s) : s[i] = s[j] => i = j
<1> DEFINE m == Len(q)
           n == Len(r)
<1>1. /\ s \in Seq(Numbers) /\ m \in Nat /\ n \in Nat /\ Len(s) = m + n
      /\ DOMAIN s = 1 .. m + n /\ DOMAIN q = 1 .. m /\ DOMAIN r = 1 .. n
      /\ \A i \in 1 .. m : s[i] = q[i]
      /\ \A i \in 1 .. m + n : i > m => s[i] = r[i - m]
  BY DEF Both
<1> HIDE DEF m, n
<1>2. ASSUME NEW i \in 1 .. m + n, i > m PROVE i - m \in 1 .. n /\ s[i] = r[i - m]
  BY <1>1, <1>2
<1>3. ASSUME NEW i \in 1 .. m + n, ~(i > m) PROVE i \in 1 .. m /\ s[i] = q[i]
  BY <1>1, <1>3
<1>4. /\ ToSet(s) = {s[i] : i \in 1 .. m + n} /\ ToSet(q) = {q[i] : i \in 1 .. m}
      /\ ToSet(r) = {r[i] : i \in 1 .. n}
  BY <1>1 DEF ToSet
<1>5. ToSet(s) \subseteq ToSet(q) \cup ToSet(r)
  <2>1. ASSUME NEW i \in 1 .. m + n PROVE s[i] \in ToSet(q) \cup ToSet(r)
    <3>1. CASE i > m
      <4>1. r[i - m] \in ToSet(r)
        BY <1>2, <1>4, <3>1
      <4>2. QED
        BY <1>2, <3>1, <4>1
    <3>2. CASE ~(i > m)
      <4>1. q[i] \in ToSet(q)
        BY <1>3, <1>4, <3>2
      <4>2. QED
        BY <1>3, <3>2, <4>1
    <3>3. QED
      BY <3>1, <3>2
  <2>2. ASSUME NEW p \in ToSet(s) PROVE p \in ToSet(q) \cup ToSet(r)
    <3>1. PICK i \in 1 .. m + n : p = s[i]
      BY <1>4
    <3>2. QED
      BY <2>1, <3>1
  <2>3. QED
    BY <2>2
<1>6. ToSet(q) \subseteq ToSet(s)
  <2>1. \A i \in 1 .. m : i \in 1 .. m + n
    BY <1>1
  <2>2. QED
    BY <1>1, <1>4, <2>1
<1>7. ToSet(r) \subseteq ToSet(s)
  <2>1. \A i \in 1 .. n : m + i \in 1 .. m + n /\ m + i > m /\ (m + i) - m = i
    BY <1>1
  <2>2. \A i \in 1 .. n : m + i \in 1 .. m + n /\ s[m + i] = r[i]
    BY <1>1, <2>1
  <2>3. ASSUME NEW i \in 1 .. n PROVE r[i] \in ToSet(s)
    <3>1. s[m + i] \in ToSet(s)
      BY <1>4, <2>2
    <3>2. QED
      BY <2>2, <3>1
  <2>4. ASSUME NEW p \in ToSet(r) PROVE p \in ToSet(s)
    <3>1. PICK i \in 1 .. n : p = r[i]
      BY <1>4
    <3>2. QED
      BY <2>3, <3>1
  <2>5. QED
    BY <2>4
<1>8. ASSUME NEW i \in 1 .. m + n, NEW j \in 1 .. m + n, s[i] = s[j] PROVE i = j
  <2>1. \A k \in 1 .. m : \A l \in 1 .. n : q[k] # r[l]
    <3>1. ASSUME NEW k \in 1 .. m, NEW l \in 1 .. n, q[k] = r[l] PROVE FALSE
      <4>1. q[k] \in ToSet(q) /\ q[k] \in ToSet(r)
        BY <1>4, <3>1
      <4>2. QED
        BY <4>1
    <3>2. QED
      BY <3>1
  <2>2. CASE i > m /\ j > m
    <3>1. i - m \in 1 .. n /\ j - m \in 1 .. n /\ r[i - m] = r[j - m]
      BY <1>2, <1>8, <2>2
    <3>2. i - m = j - m
      BY <3>1 DEF n
    <3>3. QED
      BY <1>1, <3>2
  <2>3. CASE ~(i > m) /\ ~(j > m)
    <3>1. i \in 1 .. m /\ j \in 1 .. m /\ q[i] = q[j]
      BY <1>3, <1>8, <2>3
    <3>2. QED
      BY <3>1 DEF m
  <2>4. CASE i > m /\ ~(j > m)
    BY <1>2, <1>3, <1>8, <2>1, <2>4
  <2>5. CASE ~(i > m) /\ j > m
    BY <1>2, <1>3, <1>8, <2>1, <2>5
  <2>6. QED
    BY <2>2, <2>3, <2>4, <2>5
<1>9. QED
  BY <1>1, <1>5, <1>6, <1>7, <1>8

\* release() runs once, on a session that nobody uses.
LEMMA Released ==
    ASSUME IInv, NEW t \in Threads, NEW f \in {"release", "clean"}, At(t, f)
    PROVE  /\ t # Main /\ id_generator = 1 /\ running # {} /\ m_releaseFlag = 1
           /\ m_disconnect = 1 /\ In(Receiving, pc[Main]) = 0
           /\ Returns(t, "clean", Tail(pc[t])) /\ 1 \in Sockets /\ m_serverSock = 1
           /\ f = "release" => Releasing = 1 /\ Cleaning = 0 /\ left = {}
           /\ f = "clean" => Releasing = 0 /\ Cleaning = 1 /\ left = {1}
<1>1. t # Main /\ Tail(pc[t]) = <<"update">>
  BY Callers DEF Returns, MainReturns, WorkerReturns
<1>2. Returns(t, "clean", Tail(pc[t]))
  BY <1>1 DEF Returns, WorkerReturns
<1>3. f \notin Outside
  BY DEF Outside
<1>4. id_generator = 1 /\ running # {}
  BY <1>1, <1>3, WorkerOpen
<1>5. 1 \in Sockets
  <2>1. MaxConnects \in Nat /\ id_generator \in 0 .. MaxConnects
    BY LanBounds DEF IInv, Typed
  <2>2. QED
    BY <1>4, <2>1 DEF Sockets
<1>6. StacksNat(pc) /\ PortNat(m_hcp) /\ SumsNat
  BY Counts, SumsAreNat DEF IInv
<1>7. /\ f = "release" => Total({"rel_post", "release"}, pc) >= 1
      /\ f = "clean" => Total({"clean"}, pc) >= 1
  BY OnTop
<1>8. /\ f = "release" => Releasing >= 1
      /\ f = "clean" => Cleaning >= 1
  BY <1>6, <1>7, SMTT(30) DEF Releasing, Cleaning, StacksNat, PortNat
<1>9. /\ f = "release" => Releasing = 1 /\ Cleaning = 0
      /\ f = "clean" => Releasing = 0 /\ Cleaning = 1
  <2>1. Releasing + Cleaning <= 1
    BY <1>4 DEF IInv, Stage
  <2>2. QED
    BY <1>6, <1>8, <2>1 DEF SumsNat
<1>10. m_releaseFlag = 1
  <2>1. Releasing + Cleaning # 0
    BY <1>9
  <2>2. QED
    BY <1>4, <2>1 DEF IInv, Stage, Typed
<1>11. m_disconnect = 1 /\ Total(Using, pc) = 0
  BY <1>4, <1>10 DEF IInv, ClosedIdle
<1>12. /\ f = "release" => left = {}
       /\ f = "clean" => left = {1}
  BY <1>4, <1>9 DEF IInv, Stage
<1>13. m_serverSock = 1
  <2>1. Releasing + Cleaning # 0
    BY <1>9
  <2>2. QED
    BY <1>4, <2>1 DEF IInv, Stage
<1>14. In(Receiving, pc[Main]) = 0
  <2>1. pc \in [Threads -> Seq(Functions)] /\ Main \in Threads /\ pc[Main] \in Seq(Functions)
    BY DEF IInv, Typed, Threads
  <2>2. Receiving \subseteq Using
    BY DEF Receiving, Using
  <2>3. Total(Receiving, pc) <= Total(Using, pc) /\ Total(Receiving, pc) \in Nat
    BY <2>1, <2>2, TotalMore
  <2>4. In(Receiving, pc[Main]) \in Nat
    BY <2>1, InNat
  <2>5. In(Receiving, pc[Main]) > 0 => Total(Receiving, pc) > 0
    BY <2>1, TotalPlace
  <2>6. QED
    BY <1>11, <2>3, <2>4, <2>5
<1>15. QED
  BY <1>1, <1>2, <1>4, <1>5, <1>9, <1>10, <1>11, <1>12, <1>13, <1>14

\* release calls OnLeaveServer.
LEMMA KeepsReleaseLeave == ASSUME IInv, NEW t \in Threads, ReleaseLeave(t) PROVE IInv'
<1>0. /\ id_generator = 1 /\ m_releaseFlag = 1 /\ m_disconnect = 1 /\ In(Receiving, pc[Main]) = 0
      /\ Returns(t, "clean", Tail(pc[t])) /\ m_serverSock = 1
      /\ Releasing = 1 /\ Cleaning = 0 /\ left = {}
  <2>1. At(t, "release")
    BY DEF ReleaseLeave
  <2>2. QED
    BY <2>1, Released
<1>1. /\ At(t, "release") /\ Run(t, <<"clean">>) /\ left' = {1}
      /\ UNCHANGED <<switches, m_disconnect, counts, sending, ids, kernel, id, packets, joined>>
      /\ m_ioCount' = m_ioCount + 0 /\ m_hcp' = m_hcp /\ posted' = posted
  BY <1>0 DEF ReleaseLeave, counts, kernel, IInv, Typed
<1>2. /\ Control' /\ Phase' /\ Fresh' /\ id_generator > 0
      /\ Ran(t, "release", <<"clean">>, Tail(pc[t])) /\ Stacks(0, 0, -1, 1, 0, 0, 0, 0)
      /\ In(Receiving, pc'[Main]) > 0 => In(Receiving, pc[Main]) > 0
  <2>1. /\ "release" \in Functions \ Calls /\ "clean" \in Functions \ Calls
        /\ ("clean" \in Receiving => "release" \in Receiving)
    BY DEF Functions, Calls, Receiving
  <2>2. UNCHANGED <<switches, id_generator, joined>>
    BY <1>1 DEF ids, events
  <2>3. /\ I("release", {"update"}) = 0 /\ I("release", Using) = 0
        /\ I("release", {"rel_post", "release"}) = 1
        /\ I("release", {"clean"}) = 0 /\ I("release", Receiving) = 0
        /\ I("release", {"sp_size"}) = 0
        /\ I("release", {"try_send"}) = 0 /\ I("release", {"sent"}) = 0
    BY DEF I, Using, Receiving
  <2>4. /\ I("clean", {"update"}) = 0 /\ I("clean", Using) = 0
        /\ I("clean", {"rel_post", "release"}) = 0
        /\ I("clean", {"clean"}) = 1 /\ I("clean", Receiving) = 0 /\ I("clean", {"sp_size"}) = 0
        /\ I("clean", {"try_send"}) = 0 /\ I("clean", {"sent"}) = 0
        /\ 0 - 0 = 0 /\ 0 - 1 = -1 /\ 1 - 0 = 1
    BY DEF I, Using, Receiving
  <2>5. Returns(t, "clean", Tail(pc[t]))
    BY <1>0
  <2>6. QED
    BY <1>1, <2>1, <2>2, <2>3, <2>4, <2>5, SessionOne
<1>3. Typed'
  <2>1. m_ioCount' \in Int
    BY <1>1 DEF IInv, Typed
  <2>2. QED
    BY <1>1, <1>2, <2>1 DEF IInv, Typed, Ran, switches, counts, sending, ids, packets
<1>4. /\ RecvTokens' = RecvTokens /\ SendTokens' = SendTokens /\ Releasing' = Releasing - 1
      /\ Cleaning' = Cleaning + 1 /\ Sending' = Sending
      /\ In({"EXIT"}, m_hcp') = In({"EXIT"}, m_hcp) /\ In({"RECV0"}, m_hcp') = In({"RECV0"}, m_hcp)
      /\ In({"SEND_PEND"}, m_hcp') = In({"SEND_PEND"}, m_hcp)
      /\ In(UsePosts, m_hcp') = In(UsePosts, m_hcp)
      /\ Total({"update"}, pc') = Total({"update"}, pc) /\ Total(Using, pc') = Total(Using, pc)
      /\ Total({"clean"}, pc') = Total({"clean"}, pc) + 1
      /\ Total({"sp_size"}, pc') = Total({"sp_size"}, pc)
      /\ Total({"try_send"}, pc') = Total({"try_send"}, pc)
      /\ Total({"sent"}, pc') = Total({"sent"}, pc)
      /\ SumsNat /\ StacksNat(pc) /\ PortNat(m_hcp) /\ KernelNat(posted)
  <2>1. StacksNat(pc) /\ PortNat(m_hcp) /\ KernelNat(posted) /\ SumsNat
    BY Counts, SumsAreNat DEF IInv
  <2>2. Stacks(0, 0, -1, 1, 0, 0, 0, 0) /\ Port(0, 0, 0, 0, 0, 0, 0) /\ Kernel(0, 0, 0)
    <3>1. Port(0, 0, 0, 0, 0, 0, 0)
      BY <1>1, <2>1 DEF Port, PortNat
    <3>2. Kernel(0, 0, 0)
      BY <1>1, <2>1 DEF Kernel, KernelNat
    <3>3. QED
      BY <1>2, <3>1, <3>2
  <2>3. /\ RecvTokens' = RecvTokens + (0 + 0 + 0) /\ SendTokens' = SendTokens + (0 + 0 + 0 + 0 + 0)
        /\ Releasing' = Releasing + (-1 + 0) /\ Cleaning' = Cleaning + 1
        /\ Sending' = Sending + (0 + 0 + 0)
    <3>1. -1 \in Int /\ 0 \in Int /\ 1 \in Int /\ Typed
      BY DEF IInv
    <3>2. QED
      BY <2>2, <3>1, Sums
  <2>4. /\ RecvTokens' = RecvTokens /\ SendTokens' = SendTokens /\ Releasing' = Releasing - 1
        /\ Cleaning' = Cleaning + 1 /\ Sending' = Sending
    BY <2>1, <2>3 DEF SumsNat
  <2>5. /\ In({"EXIT"}, m_hcp') = In({"EXIT"}, m_hcp)
        /\ In({"RECV0"}, m_hcp') = In({"RECV0"}, m_hcp)
        /\ In({"SEND_PEND"}, m_hcp') = In({"SEND_PEND"}, m_hcp)
        /\ In(UsePosts, m_hcp') = In(UsePosts, m_hcp)
    BY <2>1, <2>2 DEF Port, PortNat
  <2>6. /\ Total({"update"}, pc') = Total({"update"}, pc) /\ Total(Using, pc') = Total(Using, pc)
        /\ Total({"clean"}, pc') = Total({"clean"}, pc) + 1
        /\ Total({"sp_size"}, pc') = Total({"sp_size"}, pc)
        /\ Total({"try_send"}, pc') = Total({"try_send"}, pc)
        /\ Total({"sent"}, pc') = Total({"sent"}, pc)
    BY <2>1, <2>2 DEF Stacks, StacksNat
  <2>7. QED
    BY <2>1, <2>4, <2>5, <2>6
<1>5. Joining' /\ Known'
  BY <1>1, <1>2 DEF IInv, Joining, Known, ids
<1>6. ClosedIdle'
  BY <1>1, <1>4 DEF IInv, ClosedIdle, ids, counts
<1>7. Stage'
  BY <1>0, <1>1, <1>4 DEF Stage, ids, counts
<1>8. OneReceive' /\ OneSend'
  BY <1>1, <1>4 DEF IInv, OneReceive, OneSend, SumsNat, ids, sending
<1>9. SentEmpty'
  BY <1>1, <1>4 DEF IInv, SentEmpty, ids, sending
<1>10. Watched'
  BY <1>0, <1>1 DEF Watched
<1>11. PacketsApart'
  <2>1. ~Cleaned /\ ~Cleaned'
    BY <1>0, <1>1, <1>4 DEF Cleaned
  <2>2. Back' = Back
    BY <1>1 DEF Back, packets
  <2>3. QED
    BY <1>0, <1>1, <2>1, <2>2 DEF IInv, PacketsApart, packets, sending, ids
<1>12. Counted'
  <2>1. /\ Total({"update"}, pc) \in Nat /\ In({"EXIT"}, m_hcp) \in Nat
        /\ Cardinality(posted) \in Nat /\ Len(m_hcp) \in Nat /\ m_ioCount \in Int
    BY <1>4 DEF StacksNat, PortNat, KernelNat, IInv, Typed
  <2>2. m_ioCount' = m_ioCount + (0 + 0 - 0 + 0)
    BY <1>1, <2>1
  <2>3. /\ Total({"update"}, pc') = Total({"update"}, pc) + 0
        /\ In({"EXIT"}, m_hcp') = In({"EXIT"}, m_hcp) + 0
        /\ Len(m_hcp') = Len(m_hcp) + 0 /\ Cardinality(posted') = Cardinality(posted) + 0
    BY <1>1, <1>4, <2>1
  <2>4. 0 \in Int
    OBVIOUS
  <2>5. QED
    BY <1>3, <2>2, <2>3, <2>4, CountedBy
<1>13. QED
  BY <1>2, <1>3, <1>5, <1>6, <1>7, <1>8, <1>9, <1>10, <1>11, <1>12 DEF IInv

\* release() gives the packets back that are queued or were being sent.
LEMMA KeepsReleaseClean == ASSUME IInv, NEW t \in Threads, ReleaseClean(t) PROVE IInv'
<1>0. /\ id_generator = 1 /\ m_releaseFlag = 1 /\ m_disconnect = 1 /\ In(Receiving, pc[Main]) = 0
      /\ Releasing = 0 /\ Cleaning = 1 /\ left = {1}
  <2>1. At(t, "clean")
    BY DEF ReleaseClean
  <2>2. QED
    BY <2>1, Released
<1>1. /\ At(t, "clean") /\ Return(t) /\ m_sendQ' = <<>> /\ freed' = SubRef(m_sendQ \o m_sentPacket)
      /\ m_sessionId' = 0 /\ m_serverSock' = 0 /\ joined' = joined
      /\ UNCHANGED <<switches, m_disconnect, counts, m_sendFlag, m_sentPacket, id_generator, kernel,
                     id, accepted, dropped, events>>
      /\ m_ioCount' = m_ioCount + 0 /\ m_hcp' = m_hcp /\ posted' = posted
  BY DEF ReleaseClean, counts, kernel, events, IInv, Typed
<1>2. /\ Control' /\ Phase' /\ Fresh' /\ id_generator > 0
      /\ Ran(t, "clean", <<>>, Tail(pc[t])) /\ Stacks(0, 0, 0, -1, 0, 0, 0, 0)
      /\ In(Receiving, pc'[Main]) > 0 => In(Receiving, pc[Main]) > 0
  <2>1. "clean" \in Functions \ Calls
    BY DEF Functions, Calls
  <2>2. UNCHANGED <<switches, id_generator, joined>>
    BY <1>1 DEF ids, events
  <2>3. /\ I("clean", {"update"}) = 0 /\ I("clean", Using) = 0
        /\ I("clean", {"rel_post", "release"}) = 0
        /\ I("clean", {"clean"}) = 1 /\ I("clean", Receiving) = 0 /\ I("clean", {"sp_size"}) = 0
        /\ I("clean", {"try_send"}) = 0 /\ I("clean", {"sent"}) = 0
        /\ 0 - 0 = 0 /\ 0 - 1 = -1
    BY DEF I, Using, Receiving
  <2>4. QED
    BY <1>1, <2>1, <2>2, <2>3, SessionNone
<1>3. /\ RecvTokens' = RecvTokens /\ SendTokens' = SendTokens /\ Releasing' = Releasing
      /\ Cleaning' = Cleaning - 1 /\ Sending' = Sending
      /\ In({"EXIT"}, m_hcp') = In({"EXIT"}, m_hcp) /\ In({"RECV0"}, m_hcp') = In({"RECV0"}, m_hcp)
      /\ In({"SEND_PEND"}, m_hcp') = In({"SEND_PEND"}, m_hcp)
      /\ In(UsePosts, m_hcp') = In(UsePosts, m_hcp)
      /\ Total({"update"}, pc') = Total({"update"}, pc) /\ Total(Using, pc') = Total(Using, pc)
      /\ Total({"clean"}, pc') = Total({"clean"}, pc) - 1
      /\ Total({"sp_size"}, pc') = Total({"sp_size"}, pc)
      /\ Total({"try_send"}, pc') = Total({"try_send"}, pc)
      /\ Total({"sent"}, pc') = Total({"sent"}, pc)
      /\ SumsNat /\ StacksNat(pc) /\ PortNat(m_hcp) /\ KernelNat(posted)
  <2>1. StacksNat(pc) /\ PortNat(m_hcp) /\ KernelNat(posted) /\ SumsNat
    BY Counts, SumsAreNat DEF IInv
  <2>2. Stacks(0, 0, 0, -1, 0, 0, 0, 0) /\ Port(0, 0, 0, 0, 0, 0, 0) /\ Kernel(0, 0, 0)
    <3>1. Port(0, 0, 0, 0, 0, 0, 0)
      BY <1>1, <2>1 DEF Port, PortNat
    <3>2. Kernel(0, 0, 0)
      BY <1>1, <2>1 DEF Kernel, KernelNat
    <3>3. QED
      BY <1>2, <3>1, <3>2
  <2>3. /\ RecvTokens' = RecvTokens + (0 + 0 + 0) /\ SendTokens' = SendTokens + (0 + 0 + 0 + 0 + 0)
        /\ Releasing' = Releasing + (0 + 0) /\ Cleaning' = Cleaning + -1
        /\ Sending' = Sending + (0 + 0 + 0)
    <3>1. -1 \in Int /\ 0 \in Int /\ Typed
      BY DEF IInv
    <3>2. QED
      BY <2>2, <3>1, Sums
  <2>4. /\ RecvTokens' = RecvTokens /\ SendTokens' = SendTokens /\ Releasing' = Releasing
        /\ Cleaning' = Cleaning - 1 /\ Sending' = Sending
    BY <2>1, <2>3 DEF SumsNat
  <2>5. /\ In({"EXIT"}, m_hcp') = In({"EXIT"}, m_hcp)
        /\ In({"RECV0"}, m_hcp') = In({"RECV0"}, m_hcp)
        /\ In({"SEND_PEND"}, m_hcp') = In({"SEND_PEND"}, m_hcp)
        /\ In(UsePosts, m_hcp') = In(UsePosts, m_hcp)
    BY <2>1, <2>2 DEF Port, PortNat
  <2>6. /\ Total({"update"}, pc') = Total({"update"}, pc) /\ Total(Using, pc') = Total(Using, pc)
        /\ Total({"clean"}, pc') = Total({"clean"}, pc) - 1
        /\ Total({"sp_size"}, pc') = Total({"sp_size"}, pc)
        /\ Total({"try_send"}, pc') = Total({"try_send"}, pc)
        /\ Total({"sent"}, pc') = Total({"sent"}, pc)
    BY <2>1, <2>2 DEF Stacks, StacksNat
  <2>7. QED
    BY <2>1, <2>4, <2>5, <2>6
<1>4. /\ m_sendQ \in Seq(Numbers) /\ m_sentPacket \in Seq(Numbers)
      /\ \A i, j \in 1 .. Len(m_sendQ) : m_sendQ[i] = m_sendQ[j] => i = j
      /\ \A i, j \in 1 .. Len(m_sentPacket) : m_sentPacket[i] = m_sentPacket[j] => i = j
  BY DEF IInv, Typed, PacketsApart
<1>5. /\ ToSet(m_sendQ) \cup ToSet(m_sentPacket) \cup Back = 1 .. accepted
      /\ ToSet(m_sendQ) \cap (ToSet(m_sentPacket) \cup Back) = {}
  <2>1. /\ ToSet(m_sendQ) \cup ToSet(m_sentPacket) \cup Back \cup dropped = 1 .. accepted
        /\ ToSet(m_sendQ) \cap (ToSet(m_sentPacket) \cup Back \cup dropped) = {}
    BY DEF IInv, PacketsApart
  <2>2. dropped = {}
    BY <1>0 DEF IInv, PacketsApart
  <2>3. /\ ToSet(m_sendQ) \cup ToSet(m_sentPacket) \cup Back \cup dropped
             = ToSet(m_sendQ) \cup ToSet(m_sentPacket) \cup Back
        /\ ToSet(m_sentPacket) \cup Back \cup dropped = ToSet(m_sentPacket) \cup Back
    BY <2>2
  <2>4. QED
    BY <2>1, <2>3
<1>6. ToSet(m_sentPacket) \cap Back = {}
  <2>1. ~Cleaned
    BY <1>0 DEF Cleaned
  <2>2. QED
    BY <2>1 DEF IInv, PacketsApart
<1>7. /\ freed' \in [Numbers -> Nat] /\ \A p \in Numbers : freed'[p] <= 1
      /\ Back' = 1 .. accepted
  <2>1. ASSUME NEW s, s = Both(m_sendQ, m_sentPacket)
        PROVE  /\ s \in Seq(Numbers) /\ ToSet(s) = ToSet(m_sendQ) \cup ToSet(m_sentPacket)
               /\ \A i, j \in 1 .. Len(s) : s[i] = s[j] => i = j
    <3>1. m_sendQ \in Seq(Numbers) /\ m_sentPacket \in Seq(Numbers)
      BY <1>4
    <3>2. ToSet(m_sendQ) \cap ToSet(m_sentPacket) = {}
      BY <1>5
    <3>3. \A i, j \in 1 .. Len(m_sendQ) : m_sendQ[i] = m_sendQ[j] => i = j
      BY <1>4
    <3>4. \A i, j \in 1 .. Len(m_sentPacket) : m_sentPacket[i] = m_sentPacket[j] => i = j
      BY <1>4
    <3>5. s \in Seq(Numbers) /\ ToSet(s) = ToSet(m_sendQ) \cup ToSet(m_sentPacket)
      BY <2>1, <3>1, <3>2, <3>3, <3>4, JoinedOnce
    <3>6. \A i, j \in 1 .. Len(s) : s[i] = s[j] => i = j
      BY <2>1, <3>1, <3>2, <3>3, <3>4, JoinedOnce
    <3>7. QED
      BY <3>5, <3>6
  <2>2. ASSUME NEW s, s = Both(m_sendQ, m_sentPacket)
        PROVE  /\ freed' \in [Numbers -> Nat] /\ \A p \in Numbers : freed'[p] <= 1
               /\ Back' = 1 .. accepted
    <3>1. /\ s \in Seq(Numbers) /\ ToSet(s) = ToSet(m_sendQ) \cup ToSet(m_sentPacket)
          /\ \A i, j \in 1 .. Len(s) : s[i] = s[j] => i = j
      BY <2>1, <2>2
    <3>2. ToSet(s) \cap Back = {}
      BY <1>5, <1>6, <3>1
    <3>3. freed' = SubRef(s)
      BY <1>1, <2>2 DEF Both
    <3>4. /\ freed' \in [Numbers -> Nat] /\ \A p \in Numbers : freed'[p] <= 1
          /\ Back' = Back \cup ToSet(s)
      BY <3>1, <3>2, <3>3, GivenBack
    <3>5. Back \cup ToSet(s) = 1 .. accepted
      BY <1>5, <3>1
    <3>6. QED
      BY <3>4, <3>5
  <2>3. QED
    BY <2>2
<1>8. Typed'
  <2>1. m_ioCount' \in Int
    BY <1>1 DEF IInv, Typed
  <2>2. <<>> \in Seq(Numbers) /\ Len(<<>>) <= MaxSendQ /\ 0 \in 0 .. MaxConnects
    BY LanBounds
  <2>3. QED
    BY <1>1, <1>2, <1>7, <2>1, <2>2 DEF IInv, Typed, Ran, switches, counts
<1>9. Joining' /\ Known'
  <2>1. ~(In(Receiving, pc'[Main]) > 0)
    BY <1>0, <1>2
  <2>2. QED
    BY <1>1, <2>1 DEF IInv, Joining, Known
<1>10. ClosedIdle'
  BY <1>1, <1>3 DEF IInv, ClosedIdle, counts
<1>11. Stage'
  BY <1>0, <1>1, <1>3 DEF Stage, counts, events
<1>12. OneReceive' /\ OneSend'
  BY <1>1, <1>3 DEF IInv, OneReceive, OneSend, SumsNat
<1>13. SentEmpty'
  BY <1>1, <1>3 DEF IInv, SentEmpty
<1>14. Watched'
  BY <1>0, <1>1 DEF Watched
<1>15. PacketsApart'
  <2>1. ToSet(m_sendQ') = {} /\ Len(m_sendQ') = 0
    BY <1>1 DEF ToSet
  <2>2. dropped' = {} /\ accepted' = accepted /\ id_generator' = 1 /\ m_sentPacket' = m_sentPacket
    BY <1>0, <1>1 DEF IInv, PacketsApart
  <2>3. Cleaned'
    BY <1>0, <1>1, <1>3 DEF Cleaned, events
  <2>4. ToSet(m_sentPacket) \subseteq 1 .. accepted
    BY <1>5
  <2>5. \A i, j \in 1 .. Len(m_sendQ') : m_sendQ'[i] = m_sendQ'[j] => i = j
    BY <2>1
  <2>6. /\ ToSet(m_sendQ') \cup ToSet(m_sentPacket') \cup Back' \cup dropped' = 1 .. accepted'
        /\ ToSet(m_sendQ') \cap (ToSet(m_sentPacket') \cup Back' \cup dropped') = {}
        /\ dropped' \cap (ToSet(m_sentPacket') \cup Back') = {}
    BY <1>7, <2>1, <2>2, <2>4
  <2>7. QED
    BY <1>1, <1>4, <1>7, <2>2, <2>3, <2>5, <2>6 DEF PacketsApart
<1>16. Counted'
  <2>1. /\ Total({"update"}, pc) \in Nat /\ In({"EXIT"}, m_hcp) \in Nat
        /\ Cardinality(posted) \in Nat /\ Len(m_hcp) \in Nat /\ m_ioCount \in Int
    BY <1>3 DEF StacksNat, PortNat, KernelNat, IInv, Typed
  <2>2. m_ioCount' = m_ioCount + (0 + 0 - 0 + 0)
    BY <1>1, <2>1
  <2>3. /\ Total({"update"}, pc') = Total({"update"}, pc) + 0
        /\ In({"EXIT"}, m_hcp') = In({"EXIT"}, m_hcp) + 0
        /\ Len(m_hcp') = Len(m_hcp) + 0 /\ Cardinality(posted') = Cardinality(posted) + 0
    BY <1>1, <1>3, <2>1
  <2>4. 0 \in Int
    OBVIOUS
  <2>5. QED
    BY <1>8, <2>2, <2>3, <2>4, CountedBy
<1>17. QED
  BY <1>2, <1>8, <1>9, <1>10, <1>11, <1>12, <1>13, <1>14, <1>15, <1>16 DEF IInv

\* The kernel finishes an operation.
LEMMA KeepsIoComplete == ASSUME IInv, IoComplete PROVE IInv'
<1>1. PICK x \in posted : /\ posted' = posted \ {x}
                          /\ \E p \in {Done[x[1]], Failed[x[1]]} : m_hcp' = Append(m_hcp, p)
  BY DEF IoComplete
<1>2. PICK p \in {Done[x[1]], Failed[x[1]]} : m_hcp' = Append(m_hcp, p)
  BY <1>1
<1>3. UNCHANGED <<switches, m_disconnect, counts, sending, ids, pc, id, packets, events>>
  BY DEF IoComplete
<1>4. posted \subseteq Held /\ x \in Held /\ x[1] \in {"recv", "send"}
  BY DEF IInv, Typed, Held
<1>5. \/ x[1] = "recv" /\ p \in {"RECV", "RECV0"}
      \/ x[1] = "send" /\ p \in {"SEND", "SEND0"}
  BY <1>2, <1>4 DEF Done, Failed
<1> DEFINE r == I(p, {"RECV"})
           s == I(p, {"SEND"})
           a == I(p, {"RECV0"})
           b == I(p, {"SEND0"})
<1>6. r \in {0, 1} /\ s \in {0, 1} /\ a \in {0, 1} /\ b \in {0, 1}
  BY DEF I
<1>7. Port(0, 1, 0, r, s, 0, a) /\ Len(m_hcp') = Len(m_hcp) + 1 /\ m_hcp' \in Seq(Posts)
  <2>1. p \in Posts
    BY <1>5 DEF Posts
  <2>2. /\ I(p, {"EXIT"}) = 0 /\ I(p, UsePosts) = 1 /\ I(p, {"RELEASE_PEND"}) = 0
        /\ I(p, {"SEND_PEND"}) = 0
    BY <1>5 DEF I, UsePosts
  <2>3. /\ Port(I(p, {"EXIT"}), I(p, UsePosts), I(p, {"RELEASE_PEND"}), r, s, I(p, {"SEND_PEND"}), a)
        /\ Len(m_hcp') = Len(m_hcp) + 1 /\ m_hcp' \in Seq(Posts)
    BY <1>2, <2>1, PortAppend DEF IInv
  <2>4. QED
    BY <2>2, <2>3
<1>8. /\ Ops("recv", posted') = Ops("recv", posted) - (r + a)
      /\ Ops("send", posted') = Ops("send", posted) - (s + b)
      /\ Cardinality(posted') = Cardinality(posted) - 1
  <2>1. ASSUME NEW after, after = posted \ {x}
        PROVE  /\ Ops("recv", after) = Ops("recv", posted) - IF x[1] = "recv" THEN 1 ELSE 0
               /\ Ops("send", after) = Ops("send", posted) - IF x[1] = "send" THEN 1 ELSE 0
               /\ Cardinality(after) = Cardinality(posted) - 1
    BY <1>4, <2>1, OpsLess
  <2>2. /\ Ops("recv", posted') = Ops("recv", posted) - IF x[1] = "recv" THEN 1 ELSE 0
        /\ Ops("send", posted') = Ops("send", posted) - IF x[1] = "send" THEN 1 ELSE 0
        /\ Cardinality(posted') = Cardinality(posted) - 1
    BY <1>1, <2>1
  <2>3. /\ r + a = IF x[1] = "recv" THEN 1 ELSE 0
        /\ s + b = IF x[1] = "send" THEN 1 ELSE 0
    BY <1>5 DEF I
  <2> HIDE DEF r, s, a, b
  <2>4. QED
    BY <2>2, <2>3
<1> HIDE DEF r, s, a, b
<1>9. StacksNat(pc) /\ PortNat(m_hcp) /\ KernelNat(posted) /\ SumsNat
  BY Counts, SumsAreNat DEF IInv
<1>10. /\ In({"EXIT"}, m_hcp') = In({"EXIT"}, m_hcp)
       /\ In({"SEND_PEND"}, m_hcp') = In({"SEND_PEND"}, m_hcp)
       /\ In({"RELEASE_PEND"}, m_hcp') = In({"RELEASE_PEND"}, m_hcp)
       /\ In({"RECV"}, m_hcp') = In({"RECV"}, m_hcp) + r
       /\ In({"SEND"}, m_hcp') = In({"SEND"}, m_hcp) + s
       /\ In({"RECV0"}, m_hcp') = In({"RECV0"}, m_hcp) + a
  BY <1>7, <1>9 DEF Port, PortNat
<1>11. /\ RecvTokens' = RecvTokens - a /\ SendTokens' = SendTokens - b /\ Releasing' = Releasing
       /\ Cleaning' = Cleaning /\ Sending' = Sending - b
  <2>1. /\ Total(Receiving, pc) \in Nat /\ In({"RECV"}, m_hcp) \in Nat
        /\ In({"SEND"}, m_hcp) \in Nat
        /\ In({"SEND_PEND"}, m_hcp) \in Nat /\ Total({"sp_size"}, pc) \in Nat
        /\ Total({"try_send"}, pc) \in Nat /\ Total({"sent"}, pc) \in Nat
        /\ Ops("recv", posted) \in Nat /\ Ops("send", posted) \in Nat
    BY <1>9 DEF StacksNat, PortNat, KernelNat
  <2>2. RecvTokens' = RecvTokens - a
    BY <1>3, <1>6, <1>8, <1>10, <2>1 DEF RecvTokens
  <2>3. SendTokens' = SendTokens - b
    BY <1>3, <1>6, <1>8, <1>10, <2>1 DEF SendTokens
  <2>4. Sending' = Sending - b
    BY <1>3, <1>6, <1>8, <1>10, <2>1 DEF Sending
  <2>5. Releasing' = Releasing /\ Cleaning' = Cleaning
    BY <1>3, <1>10 DEF Releasing, Cleaning
  <2>6. QED
    BY <2>2, <2>3, <2>4, <2>5
<1>12. id_generator > 0 /\ (id_generator = 1 => m_releaseFlag = 0)
  <2>1. id_generator \in Nat
    BY LanBounds DEF IInv, Typed
  <2>2. QED
    BY <2>1 DEF IInv, Fresh, ClosedIdle, Typed
<1>13. Control' /\ Phase' /\ Fresh'
  BY <1>3, <1>12 DEF IInv, Control, Phase, Fresh, switches, ids, events
<1>14. Typed'
  <2>1. posted' \subseteq {"recv", "send"} \X Sockets
    BY <1>1 DEF IInv, Typed
  <2>2. QED
    BY <1>3, <1>7, <2>1 DEF IInv, Typed, switches, counts, sending, ids, packets
<1>15. Joining' /\ Known'
  BY <1>1, <1>3 DEF IInv, Joining, Known, ids
<1>16. ClosedIdle'
  BY <1>3, <1>12 DEF ClosedIdle, ids, counts
<1>17. Stage'
  BY <1>3, <1>11 DEF IInv, Stage, ids, switches, events, counts
<1>18. OneReceive'
  BY <1>3, <1>6, <1>9, <1>11 DEF IInv, OneReceive, SumsNat, ids
<1>19. OneSend'
  BY <1>3, <1>6, <1>9, <1>11 DEF IInv, OneSend, SumsNat, ids, sending
<1>20. SentEmpty'
  BY <1>3, <1>6, <1>9, <1>10, <1>11 DEF IInv, SentEmpty, SumsNat, ids, sending
<1>21. Watched'
  <2>1. RecvTokens + In({"RECV0"}, m_hcp) > 0 => RecvTokens' + In({"RECV0"}, m_hcp') > 0
    <3>1. In({"RECV0"}, m_hcp) \in Nat /\ RecvTokens \in Nat
      BY <1>9 DEF PortNat, SumsNat
    <3>2. QED
      BY <1>6, <1>10, <1>11, <3>1
  <2>2. \A v \in Threads : Ending(v) => Ending(v)'
    BY <1>3 DEF Ending
  <2>3. QED
    BY <1>3, <2>1, <2>2, WatchedBy DEF ids
<1>22. PacketsApart'
  BY <1>3, PacketsKept DEF ids, sending, events
<1>23. Counted'
  <2>1. /\ Total({"update"}, pc) \in Nat /\ In({"EXIT"}, m_hcp) \in Nat
        /\ Cardinality(posted) \in Nat /\ Len(m_hcp) \in Nat /\ m_ioCount \in Int
    BY <1>9 DEF StacksNat, PortNat, KernelNat, IInv, Typed
  <2>2. m_ioCount' = m_ioCount + (0 + 1 - 0 + -1)
    BY <1>3, <2>1 DEF counts
  <2>3. /\ Total({"update"}, pc') = Total({"update"}, pc) + 0
        /\ In({"EXIT"}, m_hcp') = In({"EXIT"}, m_hcp) + 0
        /\ Len(m_hcp') = Len(m_hcp) + 1 /\ Cardinality(posted') = Cardinality(posted) + -1
    BY <1>3, <1>7, <1>8, <1>10, <2>1
  <2>4. 0 \in Int /\ 1 \in Int /\ -1 \in Int
    OBVIOUS
  <2>5. QED
    BY <1>14, <2>2, <2>3, <2>4, CountedBy
<1>24. QED
  BY <1>13, <1>14, <1>15, <1>16, <1>17, <1>18, <1>19, <1>20, <1>21, <1>22, <1>23 DEF IInv

\* SendPacket puts the packet into the queue.
LEMMA KeepsEnqueue ==
    ASSUME IInv, Enqueue, Len(m_sendQ) < MaxSendQ /\ accepted < MaxPackets PROVE IInv'
<1>1. /\ Main \in Threads /\ At(Main, "enqueue") /\ Run(Main, <<"pend">>)
      /\ accepted' = accepted + 1 /\ m_sendQ' = Append(m_sendQ, accepted + 1)
      /\ UNCHANGED <<switches, m_disconnect, counts, m_sendFlag, m_sentPacket, ids, kernel, id,
                     freed, dropped, events>>
      /\ m_ioCount' = m_ioCount + 0 /\ m_hcp' = m_hcp /\ posted' = posted
  BY DEF Enqueue, counts, kernel, Threads, IInv, Typed
<1>2. /\ Control' /\ Phase' /\ Fresh' /\ id_generator > 0
      /\ Ran(Main, "enqueue", <<"pend">>, Tail(pc[Main])) /\ Stacks(0, 0, 0, 0, 0, 0, 0, 0)
      /\ In(Receiving, pc'[Main]) > 0 => In(Receiving, pc[Main]) > 0
  <2>1. /\ "enqueue" \in Functions \ Calls /\ "pend" \in Functions \ Calls
        /\ ("pend" \in Receiving => "enqueue" \in Receiving)
    BY DEF Functions, Calls, Receiving
  <2>2. UNCHANGED <<switches, id_generator, joined>>
    BY <1>1 DEF ids, events
  <2>3. /\ I("enqueue", {"update"}) = 0 /\ I("enqueue", Using) = 1
        /\ I("enqueue", {"rel_post", "release"}) = 0
        /\ I("enqueue", {"clean"}) = 0 /\ I("enqueue", Receiving) = 0
        /\ I("enqueue", {"sp_size"}) = 0
        /\ I("enqueue", {"try_send"}) = 0 /\ I("enqueue", {"sent"}) = 0
    BY DEF I, Using, Receiving
  <2>4. /\ I("pend", {"update"}) = 0 /\ I("pend", Using) = 1
        /\ I("pend", {"rel_post", "release"}) = 0
        /\ I("pend", {"clean"}) = 0 /\ I("pend", Receiving) = 0 /\ I("pend", {"sp_size"}) = 0
        /\ I("pend", {"try_send"}) = 0 /\ I("pend", {"sent"}) = 0
        /\ 0 - 0 = 0 /\ 1 - 1 = 0
    BY DEF I, Using, Receiving
  <2>5. Returns(Main, "pend", Tail(pc[Main]))
    <3>1. Returns(Main, "enqueue", Tail(pc[Main]))
      BY <1>1, Callers
    <3>2. QED
      BY <3>1 DEF Returns, MainReturns
  <2>6. QED
    BY <1>1, <2>1, <2>2, <2>3, <2>4, <2>5, SessionOne
<1>3. /\ RecvTokens' = RecvTokens /\ SendTokens' = SendTokens /\ Releasing' = Releasing
      /\ Cleaning' = Cleaning /\ Sending' = Sending
      /\ In({"EXIT"}, m_hcp') = In({"EXIT"}, m_hcp) /\ In({"RECV0"}, m_hcp') = In({"RECV0"}, m_hcp)
      /\ In({"SEND_PEND"}, m_hcp') = In({"SEND_PEND"}, m_hcp)
      /\ In(UsePosts, m_hcp') = In(UsePosts, m_hcp)
      /\ Total({"update"}, pc') = Total({"update"}, pc) /\ Total(Using, pc') = Total(Using, pc)
      /\ Total({"clean"}, pc') = Total({"clean"}, pc)
      /\ Total({"sp_size"}, pc') = Total({"sp_size"}, pc)
      /\ Total({"try_send"}, pc') = Total({"try_send"}, pc)
      /\ Total({"sent"}, pc') = Total({"sent"}, pc)
      /\ SumsNat /\ StacksNat(pc) /\ PortNat(m_hcp) /\ KernelNat(posted)
  <2>1. StacksNat(pc) /\ PortNat(m_hcp) /\ KernelNat(posted) /\ SumsNat
    BY Counts, SumsAreNat DEF IInv
  <2>2. Stacks(0, 0, 0, 0, 0, 0, 0, 0) /\ Port(0, 0, 0, 0, 0, 0, 0) /\ Kernel(0, 0, 0)
    <3>1. Port(0, 0, 0, 0, 0, 0, 0)
      BY <1>1, <2>1 DEF Port, PortNat
    <3>2. Kernel(0, 0, 0)
      BY <1>1, <2>1 DEF Kernel, KernelNat
    <3>3. QED
      BY <1>2, <3>1, <3>2
  <2>3. /\ RecvTokens' = RecvTokens + (0 + 0 + 0) /\ SendTokens' = SendTokens + (0 + 0 + 0 + 0 + 0)
        /\ Releasing' = Releasing + (0 + 0) /\ Cleaning' = Cleaning + 0
        /\ Sending' = Sending + (0 + 0 + 0)
    <3>1. 0 \in Int /\ Typed
      BY DEF IInv
    <3>2. QED
      BY <2>2, <3>1, Sums
  <2>4. /\ RecvTokens' = RecvTokens /\ SendTokens' = SendTokens /\ Releasing' = Releasing
        /\ Cleaning' = Cleaning /\ Sending' = Sending
    BY <2>1, <2>3 DEF SumsNat
  <2>5. /\ In({"EXIT"}, m_hcp') = In({"EXIT"}, m_hcp)
        /\ In({"RECV0"}, m_hcp') = In({"RECV0"}, m_hcp)
        /\ In({"SEND_PEND"}, m_hcp') = In({"SEND_PEND"}, m_hcp)
        /\ In(UsePosts, m_hcp') = In(UsePosts, m_hcp)
    BY <2>1, <2>2 DEF Port, PortNat
  <2>6. /\ Total({"update"}, pc') = Total({"update"}, pc) /\ Total(Using, pc') = Total(Using, pc)
        /\ Total({"clean"}, pc') = Total({"clean"}, pc)
        /\ Total({"sp_size"}, pc') = Total({"sp_size"}, pc)
        /\ Total({"try_send"}, pc') = Total({"try_send"}, pc)
        /\ Total({"sent"}, pc') = Total({"sent"}, pc)
    BY <2>1, <2>2 DEF Stacks, StacksNat
  <2>7. QED
    BY <2>1, <2>4, <2>5, <2>6
<1>4. /\ m_sendQ \in Seq(Numbers) /\ accepted \in Nat /\ accepted + 1 \in Numbers
      /\ Len(m_sendQ) \in Nat
      /\ m_sendQ' \in Seq(Numbers) /\ Len(m_sendQ') = Len(m_sendQ) + 1 /\ Len(m_sendQ') <= MaxSendQ
      /\ \A i \in 1 .. Len(m_sendQ) : m_sendQ'[i] = m_sendQ[i]
      /\ m_sendQ'[Len(m_sendQ) + 1] = accepted + 1
      /\ ToSet(m_sendQ') = ToSet(m_sendQ) \cup {accepted + 1} /\ accepted + 1 \notin 1 .. accepted
      /\ 1 .. accepted + 1 = (1 .. accepted) \cup {accepted + 1} /\ accepted' \in 0 .. MaxPackets
  <2>1. m_sendQ \in Seq(Numbers) /\ accepted \in Nat /\ Len(m_sendQ) \in Nat /\ MaxPackets \in Nat
        /\ MaxSendQ \in Nat
    BY LanBounds DEF IInv, Typed
  <2>2. accepted + 1 \in Numbers /\ accepted' \in 0 .. MaxPackets
    BY <1>1, <2>1 DEF Numbers
  <2>3. ASSUME NEW n \in Numbers, NEW q, q = Append(m_sendQ, n)
        PROVE  /\ q \in Seq(Numbers) /\ Len(q) = Len(m_sendQ) + 1 /\ Len(q) <= MaxSendQ
               /\ \A i \in 1 .. Len(m_sendQ) : q[i] = m_sendQ[i]
               /\ q[Len(m_sendQ) + 1] = n /\ ToSet(q) = ToSet(m_sendQ) \cup {n}
    <3>1. /\ q \in Seq(Numbers) /\ Len(q) = Len(m_sendQ) + 1
          /\ \A i \in 1 .. Len(m_sendQ) : q[i] = m_sendQ[i]
          /\ q[Len(m_sendQ) + 1] = n
          /\ DOMAIN q = 1 .. Len(m_sendQ) + 1 /\ DOMAIN m_sendQ = 1 .. Len(m_sendQ)
      BY <2>1, <2>3
    <3>2. 1 .. Len(m_sendQ) + 1 = (1 .. Len(m_sendQ)) \cup {Len(m_sendQ) + 1}
      BY <2>1
    <3>3. \A x : x \in ToSet(q) <=> x \in ToSet(m_sendQ) \/ x = n
      BY <3>1, <3>2 DEF ToSet
    <3>4. QED
      BY <2>1, <3>1, <3>3
  <2>4. 1 .. accepted + 1 = (1 .. accepted) \cup {accepted + 1} /\ accepted + 1 \notin 1 .. accepted
    BY <2>1
  <2>5. QED
    BY <1>1, <2>1, <2>2, <2>3, <2>4, ZenonT(30)
<1>5. Typed'
  <2>1. m_ioCount' \in Int
    BY <1>1 DEF IInv, Typed
  <2>2. QED
    BY <1>1, <1>2, <1>4, <2>1 DEF IInv, Typed, Ran, switches, counts, ids
<1>6. id_generator = 1 => m_releaseFlag = 0
  <2>1. "enqueue" \in Using
    BY DEF Using
  <2>2. QED
    BY <1>1, <2>1, OnTop
<1>7. Joining' /\ Known'
  BY <1>1, <1>2 DEF IInv, Joining, Known, ids
<1>8. ClosedIdle'
  BY <1>1, <1>6 DEF ClosedIdle, ids, counts
<1>9. Stage' /\ OneReceive' /\ OneSend'
  BY <1>1, <1>3 DEF IInv, Stage, OneReceive, OneSend, SumsNat, ids, switches, events, counts
<1>10. SentEmpty'
  BY <1>1, <1>3 DEF IInv, SentEmpty, ids
<1>11. Watched'
  BY <1>1, <1>2, <1>3, EndingKept, WatchedBy DEF ids
<1>12. PacketsApart'
  <2>1. ~Cleaned /\ ~Cleaned'
    <3>1. id_generator = 1 => left = {}
      BY <1>6 DEF IInv, Stage
    <3>2. QED
      BY <1>1, <3>1 DEF Cleaned, ids, events
  <2>2. Back' = Back
    BY <1>1 DEF Back
  <2>3. \A i, j \in 1 .. Len(m_sendQ') : m_sendQ'[i] = m_sendQ'[j] => i = j
    <3>1. 1 .. Len(m_sendQ') = (1 .. Len(m_sendQ)) \cup {Len(m_sendQ) + 1}
      BY <1>4
    <3>2. \A i, j \in 1 .. Len(m_sendQ) : m_sendQ[i] = m_sendQ[j] => i = j
      BY DEF IInv, PacketsApart
    <3>3. \A i \in 1 .. Len(m_sendQ) : m_sendQ[i] # accepted + 1
      <4>1. \A i \in 1 .. Len(m_sendQ) : m_sendQ[i] \in ToSet(m_sendQ)
        BY <1>4 DEF ToSet
      <4>2. ToSet(m_sendQ) \subseteq 1 .. accepted
        BY DEF IInv, PacketsApart
      <4>3. QED
        BY <1>4, <4>1, <4>2
    <3>4. QED
      BY <1>4, <3>1, <3>2, <3>3
  <2>4. /\ ToSet(m_sendQ') \cup ToSet(m_sentPacket') \cup Back' \cup dropped' = 1 .. accepted'
        /\ ToSet(m_sendQ') \cap (ToSet(m_sentPacket') \cup Back' \cup dropped') = {}
    <3>1. /\ ToSet(m_sendQ) \cup ToSet(m_sentPacket) \cup Back \cup dropped = 1 .. accepted
          /\ ToSet(m_sendQ) \cap (ToSet(m_sentPacket) \cup Back \cup dropped) = {}
      BY DEF IInv, PacketsApart
    <3>2. /\ m_sentPacket' = m_sentPacket /\ Back' = Back /\ dropped' = dropped
          /\ accepted' = accepted + 1
      BY <1>1, <2>2
    <3>3. ToSet(m_sendQ') = ToSet(m_sendQ) \cup {accepted + 1} /\ accepted + 1 \notin 1 .. accepted
          /\ 1 .. accepted + 1 = (1 .. accepted) \cup {accepted + 1}
      BY <1>4
    <3> DEFINE others == ToSet(m_sentPacket) \cup Back \cup dropped
    <3>4. ToSet(m_sendQ) \cup others = 1 .. accepted /\ ToSet(m_sendQ) \cap others = {}
      BY <3>1
    <3>5. ToSet(m_sentPacket') \cup Back' \cup dropped' = others
      BY <3>2
    <3>6. /\ ToSet(m_sendQ') \cup ToSet(m_sentPacket') \cup Back' \cup dropped'
               = ToSet(m_sendQ') \cup others
          /\ ToSet(m_sendQ') \cap (ToSet(m_sentPacket') \cup Back' \cup dropped')
               = ToSet(m_sendQ') \cap others
      BY <3>5
    <3> HIDE DEF others
    <3>7. /\ (ToSet(m_sendQ) \cup {accepted + 1}) \cup others = 1 .. accepted + 1
          /\ (ToSet(m_sendQ) \cup {accepted + 1}) \cap others = {}
      BY <3>3, <3>4
    <3>8. QED
      BY <3>2, <3>3, <3>6, <3>7
  <2>5. QED
    BY <1>1, <2>1, <2>2, <2>3, <2>4 DEF IInv, PacketsApart, ids, events
<1>13. Counted'
  <2>1. /\ Total({"update"}, pc) \in Nat /\ In({"EXIT"}, m_hcp) \in Nat
        /\ Cardinality(posted) \in Nat /\ Len(m_hcp) \in Nat /\ m_ioCount \in Int
    BY <1>3 DEF StacksNat, PortNat, KernelNat, IInv, Typed
  <2>2. m_ioCount' = m_ioCount + (0 + 0 - 0 + 0)
    BY <1>1, <2>1
  <2>3. /\ Total({"update"}, pc') = Total({"update"}, pc) + 0
        /\ In({"EXIT"}, m_hcp') = In({"EXIT"}, m_hcp) + 0
        /\ Len(m_hcp') = Len(m_hcp) + 0 /\ Cardinality(posted') = Cardinality(posted) + 0
    BY <1>1, <1>3, <2>1
  <2>4. 0 \in Int
    OBVIOUS
  <2>5. QED
    BY <1>5, <2>2, <2>3, <2>4, CountedBy
<1>14. QED
  BY <1>2, <1>5, <1>7, <1>8, <1>9, <1>10, <1>11, <1>12, <1>13 DEF IInv

-----------------------------------------------------------------------------
(* Calls of the application, and the packets that end the workers *)

\* A step outside the session: it moves what the invariant does not count.
LEMMA CallStep ==
    ASSUME IInv, Typed', Control', Phase', Fresh', Stacks(0, 0, 0, 0, 0, 0, 0, 0),
           NEW e \in Int, Port(e, 0, 0, 0, 0, 0, 0), Len(m_hcp') = Len(m_hcp) + e,
           posted' = posted, id_generator' = id_generator, left' = left,
           In(Receiving, pc'[Main]) > 0 =>
               In(Receiving, pc[Main]) > 0 /\ m_serverSock' = m_serverSock,
           id_generator = 1 /\ running' # {} => running # {} /\ m_serverSock' = m_serverSock,
           \A t \in Threads : Ending(t) => Ending(t)',
           UNCHANGED <<m_disconnect, counts, sending, packets>>
    PROVE  IInv'
<1>1. StacksNat(pc) /\ PortNat(m_hcp) /\ KernelNat(posted) /\ SumsNat
  BY Counts, SumsAreNat DEF IInv
<1>2. /\ Total({"update"}, pc') = Total({"update"}, pc) /\ Total(Using, pc') = Total(Using, pc)
      /\ Total({"rel_post", "release"}, pc') = Total({"rel_post", "release"}, pc)
      /\ Total({"clean"}, pc') = Total({"clean"}, pc)
      /\ Total(Receiving, pc') = Total(Receiving, pc)
      /\ Total({"sp_size"}, pc') = Total({"sp_size"}, pc)
      /\ Total({"try_send"}, pc') = Total({"try_send"}, pc)
      /\ Total({"sent"}, pc') = Total({"sent"}, pc)
  BY <1>1 DEF Stacks, StacksNat
<1>3. /\ In(UsePosts, m_hcp') = In(UsePosts, m_hcp)
      /\ In({"RELEASE_PEND"}, m_hcp') = In({"RELEASE_PEND"}, m_hcp)
      /\ In({"RECV"}, m_hcp') = In({"RECV"}, m_hcp) /\ In({"SEND"}, m_hcp') = In({"SEND"}, m_hcp)
      /\ In({"SEND_PEND"}, m_hcp') = In({"SEND_PEND"}, m_hcp)
      /\ In({"RECV0"}, m_hcp') = In({"RECV0"}, m_hcp)
  BY <1>1 DEF Port, PortNat
<1>4. In({"EXIT"}, m_hcp') = In({"EXIT"}, m_hcp) + e
  BY DEF Port
<1>5. /\ RecvTokens' = RecvTokens /\ SendTokens' = SendTokens /\ Sending' = Sending
      /\ Releasing' = Releasing /\ Cleaning' = Cleaning
  BY <1>2, <1>3 DEF RecvTokens, SendTokens, Sending, Releasing, Cleaning
<1>6. Joining' /\ Known'
  BY DEF IInv, Joining, Known
<1>7. ClosedIdle'
  BY <1>2, <1>3 DEF IInv, ClosedIdle, counts
<1>8. Stage'
  BY <1>5 DEF IInv, Stage, counts
<1>9. OneReceive' /\ OneSend'
  BY <1>5 DEF IInv, OneReceive, OneSend, sending
<1>10. SentEmpty'
  BY <1>2, <1>3, <1>5 DEF IInv, SentEmpty, sending
<1>11. Watched'
  BY <1>3, <1>5, WatchedBy
<1>12. PacketsApart'
  BY <1>2, PacketsKept DEF sending
<1>13. Counted'
  <2>1. /\ Total({"update"}, pc) \in Nat /\ In({"EXIT"}, m_hcp) \in Nat
        /\ Cardinality(posted) \in Nat /\ Len(m_hcp) \in Nat /\ m_ioCount \in Int
    BY <1>1 DEF StacksNat, PortNat, KernelNat, IInv, Typed
  <2>2. m_ioCount' = m_ioCount + (0 + e - e + 0)
    BY <2>1 DEF counts
  <2>3. /\ Total({"update"}, pc') = Total({"update"}, pc) + 0
        /\ Cardinality(posted') = Cardinality(posted) + 0
    BY <1>2, <2>1
  <2>4. 0 \in Int
    OBVIOUS
  <2>5. QED
    BY <1>4, <2>2, <2>3, <2>4, CountedBy
<1>14. QED
  BY <1>6, <1>7, <1>8, <1>9, <1>10, <1>11, <1>12, <1>13 DEF IInv

\* What the application's calls are made of, none of which is counted.
Outer == Calls \cup {"disconnect", "send_id"}

\* None of these functions is counted by a sum.
LEMMA OuterNone ==
    ASSUME NEW s \in Seq(Outer)
    PROVE  /\ In({"update"}, s) = 0 /\ In(Using, s) = 0 /\ In({"rel_post", "release"}, s) = 0
           /\ In({"clean"}, s) = 0 /\ In(Receiving, s) = 0 /\ In({"sp_size"}, s) = 0
           /\ In({"try_send"}, s) = 0 /\ In({"sent"}, s) = 0
<1>1. /\ {"update"} \cap Outer = {} /\ Using \cap Outer = {}
      /\ {"rel_post", "release"} \cap Outer = {}
      /\ {"clean"} \cap Outer = {} /\ Receiving \cap Outer = {} /\ {"sp_size"} \cap Outer = {}
      /\ {"try_send"} \cap Outer = {} /\ {"sent"} \cap Outer = {}
  BY DEF Outer, Calls, Using, Receiving
<1>2. \A F : F \cap Outer = {} => In(F, s) = 0
  BY InOutside
<1>3. QED
  BY <1>1, <1>2

\* The application thread moves from one of these stacks to another.
LEMMA CallMoves ==
    ASSUME IInv, NEW s \in Seq(Outer), pc[Main] \in Seq(Outer), pc' = [pc EXCEPT ![Main] = s],
           Proper(Main, s)
    PROVE  /\ Control' /\ Stacks(0, 0, 0, 0, 0, 0, 0, 0) /\ In(Receiving, pc'[Main]) = 0
           /\ pc' \in [Threads -> Seq(Functions)] /\ pc'[Main] = s
           /\ \A t \in Threads : Ending(t) => Ending(t)'
           /\ \A t \in Workers : t \in Threads /\ pc'[t] = pc[t]
<1>1. /\ Main \in Threads /\ pc \in [Threads -> Seq(Functions)] /\ s \in Seq(Functions)
  <2>1. Outer \subseteq Functions
    BY DEF Outer, Calls, Functions
  <2>2. QED
    BY <2>1 DEF IInv, Typed, Threads
<1>2. Moved(Main, s)
  BY <1>1, Moves
<1>3. /\ pc' \in [Threads -> Seq(Functions)] /\ pc'[Main] = s
      /\ \A t \in Threads : t # Main => pc'[t] = pc[t]
  BY <1>2 DEF Moved
<1>4. Stacks(0, 0, 0, 0, 0, 0, 0, 0)
  <2>1. \A F : In(F, pc[Main]) = 0 /\ In(F, s) = 0 => Total(F, pc') = Total(F, pc) + 0
    <3>1. ASSUME NEW F, In(F, pc[Main]) = 0, In(F, s) = 0 PROVE Total(F, pc') = Total(F, pc) + 0
      <4>1. Total(F, pc') = Total(F, pc) - In(F, pc[Main]) + In(F, s) /\ Total(F, pc) \in Nat
        BY <1>2 DEF Moved
      <4>2. QED
        BY <3>1, <4>1
    <3>2. QED
      BY <3>1
  <2> DEFINE before == pc[Main]
  <2>2. before \in Seq(Outer)
    OBVIOUS
  <2>3. /\ In({"update"}, s) = 0 /\ In(Using, s) = 0 /\ In({"rel_post", "release"}, s) = 0
        /\ In({"clean"}, s) = 0 /\ In(Receiving, s) = 0 /\ In({"sp_size"}, s) = 0
        /\ In({"try_send"}, s) = 0 /\ In({"sent"}, s) = 0
    BY OuterNone
  <2>4. /\ In({"update"}, before) = 0 /\ In(Using, before) = 0
        /\ In({"rel_post", "release"}, before) = 0 /\ In({"clean"}, before) = 0
        /\ In(Receiving, before) = 0 /\ In({"sp_size"}, before) = 0
        /\ In({"try_send"}, before) = 0 /\ In({"sent"}, before) = 0
    <3> HIDE DEF before
    <3>1. QED
      BY <2>2, OuterNone
  <2>5. QED
    BY <2>1, <2>3, <2>4 DEF Stacks
<1>5. Control'
  BY <1>3 DEF IInv, Control
<1>6. In(Receiving, pc'[Main]) = 0
  BY <1>3, OuterNone
<1>7. \A t \in Threads : Ending(t) => Ending(t)'
  <2>1. ~Ending(Main)
    <3> DEFINE before == pc[Main]
    <3>1. before \in Seq(Outer)
      OBVIOUS
    <3>2. In({"update"}, before) = 0
      <4> HIDE DEF before
      <4>1. QED
        BY <3>1, OuterNone
    <3>3. QED
      BY <3>2 DEF Ending
  <2>2. QED
    BY <1>3, <2>1 DEF Ending
<1>8. \A t \in Workers : t \in Threads /\ pc'[t] = pc[t]
  BY <1>3, LanThreads DEF Threads
<1>9. QED
  BY <1>3, <1>4, <1>5, <1>6, <1>7, <1>8

\* The stacks that occur.
LEMMA OuterStacks ==
    /\ <<>> \in Seq(Outer) /\ <<"connect">> \in Seq(Outer) /\ <<"connected">> \in Seq(Outer)
    /\ <<"wait">> \in Seq(Outer) /\ <<"exits", "wait">> \in Seq(Outer)
    /\ <<"disconnect", "exits", "wait">> \in Seq(Outer) /\ <<"send_id">> \in Seq(Outer)
    /\ Proper(Main, <<>>) /\ Proper(Main, <<"connect">>) /\ Proper(Main, <<"wait">>)
    /\ Proper(Main, <<"exits", "wait">>) /\ Proper(Main, <<"disconnect", "exits", "wait">>)
    /\ Proper(Main, <<"send_id">>)
<1>1. /\ "connect" \in Outer /\ "connected" \in Outer /\ "wait" \in Outer /\ "exits" \in Outer
      /\ "disconnect" \in Outer /\ "send_id" \in Outer
  BY DEF Outer, Calls
<1>2. Proper(Main, <<>>)
  BY DEF Proper
<1>3. \A x : Proper(Main, <<x>>) <=> MainReturns(x, <<>>)
  <2>1. \A x : Head(<<x>>) = x /\ Tail(<<x>>) = <<>> /\ <<x>> # <<>>
    OBVIOUS
  <2>2. QED
    BY <2>1 DEF Proper, Returns
<1>4. /\ Proper(Main, <<"connect">>) /\ Proper(Main, <<"wait">>) /\ Proper(Main, <<"send_id">>)
  BY <1>3 DEF MainReturns
<1>5. Proper(Main, <<"exits", "wait">>)
  <2>1. Head(<<"exits", "wait">>) = "exits" /\ Tail(<<"exits", "wait">>) = <<"wait">>
    OBVIOUS
  <2>2. QED
    BY <2>1 DEF Proper, Returns, MainReturns
<1>6. Proper(Main, <<"disconnect", "exits", "wait">>)
  <2>1. /\ Head(<<"disconnect", "exits", "wait">>) = "disconnect"
        /\ Tail(<<"disconnect", "exits", "wait">>) = <<"exits", "wait">>
    OBVIOUS
  <2>2. QED
    BY <2>1 DEF Proper, Returns, MainReturns
<1>7. QED
  BY <1>1, <1>2, <1>4, <1>5, <1>6

\* The port does not change.
LEMMA PortSame ==
    ASSUME Typed, m_hcp' = m_hcp PROVE Port(0, 0, 0, 0, 0, 0, 0) /\ Len(m_hcp') = Len(m_hcp) + 0
<1>1. PortNat(m_hcp)
  BY Counts
<1>2. QED
  BY <1>1 DEF Port, PortNat

\* Before the first connection the application thread only connects and waits.
LEMMA StillFresh ==
    ASSUME IInv, NEW s, pc'[Main] = s, pc' \in [Threads -> Seq(Functions)],
           \A t \in Workers : pc'[t] = pc[t], id_generator = 0 => s \in Seq(Outside),
           id_generator = 0 => m_serverSock' = 0 /\ In(Posts \ {"EXIT"}, m_hcp') = 0,
           UNCHANGED <<m_disconnect, counts, sending, id_generator, posted, packets, left>>
    PROVE  Fresh'
<1> SUFFICES ASSUME id_generator = 0 PROVE Fresh'
  BY DEF Fresh
<1> DEFINE Own == Functions \ Outside
<1>1. Own \cap Outside = {}
  OBVIOUS
<1>2. Total(Own, pc) = 0
  BY DEF IInv, Fresh
<1> HIDE DEF Own
<1>3. Total(Own, pc') = 0
  <2>1. ASSUME NEW after, after = pc'
        PROVE  Total(Own, after) = 0
    <3>1. after \in [Threads -> Seq(Functions)]
      BY <2>1
    <3>2. Total(Own, after) \in Nat
      <4>1. Own \subseteq Own
        OBVIOUS
      <4>2. QED
        BY <3>1, <4>1, TotalMore
    <3>3. Total(Own, after) > 0 <=> \E t \in Threads : In(Own, after[t]) > 0
      BY <3>1, TotalPlace
    <3>4. pc \in [Threads -> Seq(Functions)]
      BY DEF IInv, Typed
    <3>5. Total(Own, pc) > 0 <=> \E t \in Threads : In(Own, pc[t]) > 0
      BY <3>4, TotalPlace
    <3>6. ~(In(Own, after[Main]) > 0)
      <4>1. s \in Seq(Outside)
        OBVIOUS
      <4>2. In(Own, s) = 0
        BY <1>1, <4>1, InOutside
      <4>3. QED
        BY <2>1, <4>2
    <3>7. \A t \in Workers : t \in Threads /\ after[t] = pc[t]
      BY <2>1 DEF Threads
    <3>8. ~(Total(Own, after) > 0)
      BY <1>2, <3>3, <3>5, <3>6, <3>7 DEF Threads
    <3>9. QED
      BY <3>2, <3>8
  <2>2. QED
    BY <2>1
<1>4. QED
  BY <1>3 DEF IInv, Fresh, counts, sending, packets, Own

\* What is on them.
LEMMA CallsIn ==
    /\ In({"connect", "connected", "wait"}, <<>>) = 0 /\ In({"connect"}, <<>>) = 0
    /\ In({"wait"}, <<>>) = 0
    /\ In({"connect", "connected", "wait"}, <<"connect">>) = 1 /\ In({"connect"}, <<"connect">>) = 1
    /\ In({"wait"}, <<"connect">>) = 0
    /\ In({"connect", "connected", "wait"}, <<"connected">>) = 1
    /\ In({"connect"}, <<"connected">>) = 0
    /\ In({"wait"}, <<"connected">>) = 0
    /\ In({"connect", "connected", "wait"}, <<"wait">>) = 1 /\ In({"connect"}, <<"wait">>) = 0
    /\ In({"wait"}, <<"wait">>) = 1
    /\ In({"connect", "connected", "wait"}, <<"exits", "wait">>) = 1
    /\ In({"connect"}, <<"exits", "wait">>) = 0 /\ In({"wait"}, <<"exits", "wait">>) = 1
    /\ In({"connect", "connected", "wait"}, <<"disconnect", "exits", "wait">>) = 1
    /\ In({"connect"}, <<"disconnect", "exits", "wait">>) = 0
    /\ In({"wait"}, <<"disconnect", "exits", "wait">>) = 1
    /\ In({"connect", "connected", "wait"}, <<"send_id">>) = 0 /\ In({"connect"}, <<"send_id">>) = 0
    /\ In({"wait"}, <<"send_id">>) = 0
<1>1. \A F : In(F, <<>>) = 0
  BY InNone
<1>2. \A F, x : In(F, <<x>>) = I(x, F)
  BY InOne
<1>3. \A F, x, y : In(F, <<x, y>>) = I(x, F) + I(y, F)
  BY InTwo
<1>4. \A F, x, y, z : In(F, <<x, y, z>>) = I(x, F) + I(y, F) + I(z, F)
  BY InThree
<1> DEFINE A == {"connect", "connected", "wait"}
<1>5. /\ I("connect", A) = 1 /\ I("connected", A) = 1 /\ I("wait", A) = 1 /\ I("exits", A) = 0
      /\ I("disconnect", A) = 0 /\ I("send_id", A) = 0
      /\ I("connect", {"connect"}) = 1 /\ I("connected", {"connect"}) = 0
      /\ I("wait", {"connect"}) = 0
      /\ I("exits", {"connect"}) = 0 /\ I("disconnect", {"connect"}) = 0
      /\ I("send_id", {"connect"}) = 0
      /\ I("connect", {"wait"}) = 0 /\ I("connected", {"wait"}) = 0 /\ I("wait", {"wait"}) = 1
      /\ I("exits", {"wait"}) = 0 /\ I("disconnect", {"wait"}) = 0 /\ I("send_id", {"wait"}) = 0
  BY DEF I
<1> HIDE DEF A
<1>6. /\ In(A, <<>>) = 0 /\ In(A, <<"connect">>) = 1 /\ In(A, <<"connected">>) = 1
      /\ In(A, <<"wait">>) = 1 /\ In(A, <<"exits", "wait">>) = 1
      /\ In(A, <<"disconnect", "exits", "wait">>) = 1 /\ In(A, <<"send_id">>) = 0
  BY <1>1, <1>2, <1>3, <1>4, <1>5
<1>7. /\ In({"connect"}, <<>>) = 0 /\ In({"connect"}, <<"connect">>) = 1
      /\ In({"connect"}, <<"connected">>) = 0 /\ In({"connect"}, <<"wait">>) = 0
      /\ In({"connect"}, <<"exits", "wait">>) = 0 /\ In({"connect"}, <<"send_id">>) = 0
      /\ In({"connect"}, <<"disconnect", "exits", "wait">>) = 0
  BY <1>1, <1>2, <1>3, <1>4, <1>5
<1>8. /\ In({"wait"}, <<>>) = 0 /\ In({"wait"}, <<"connect">>) = 0
      /\ In({"wait"}, <<"connected">>) = 0 /\ In({"wait"}, <<"wait">>) = 1
      /\ In({"wait"}, <<"exits", "wait">>) = 1 /\ In({"wait"}, <<"send_id">>) = 0
      /\ In({"wait"}, <<"disconnect", "exits", "wait">>) = 1
  BY <1>1, <1>2, <1>3, <1>4, <1>5
<1>9. QED
  BY <1>6, <1>7, <1>8 DEF A

\* The calls of the application thread have nothing below them but what is named here.
LEMMA AtCall ==
    ASSUME IInv
    PROVE  /\ At(Main, "connect") => pc[Main] = <<"connect">>
           /\ At(Main, "connected") => pc[Main] = <<"connected">>
           /\ At(Main, "wait") => pc[Main] = <<"wait">>
           /\ At(Main, "exits") => pc[Main] = <<"exits", "wait">>
<1>1. Main \in Threads /\ pc[Main] \in Seq(Functions)
  BY DEF IInv, Typed, Threads
<1>2. ASSUME NEW f, At(Main, f) PROVE MainReturns(f, Tail(pc[Main])) /\ pc[Main] = <<f>> \o Tail(pc[Main])
  <2>1. Returns(Main, f, Tail(pc[Main]))
    BY <1>1, <1>2, Callers
  <2>2. pc[Main] # <<>> /\ Head(pc[Main]) = f
    BY <1>2 DEF At
  <2>3. pc[Main] = <<Head(pc[Main])>> \o Tail(pc[Main])
    BY <1>1, <2>2, Split
  <2>4. QED
    BY <2>1, <2>2, <2>3 DEF Returns
<1>3. ASSUME NEW f \in {"connect", "connected", "wait"}, At(Main, f) PROVE pc[Main] = <<f>>
  <2>1. Tail(pc[Main]) = <<>>
    BY <1>2, <1>3 DEF MainReturns
  <2>2. QED
    BY <1>2, <1>3, <2>1, Pushed
<1>4. ASSUME At(Main, "exits") PROVE pc[Main] = <<"exits", "wait">>
  <2>1. MainReturns("exits", Tail(pc[Main]))
    BY <1>2, <1>4
  <2>2. Tail(pc[Main]) = <<"wait">>
    BY <2>1 DEF MainReturns
  <2>3. pc[Main] = <<"exits">> \o <<"wait">>
    BY <1>2, <1>4, <2>2
  <2>4. QED
    BY <2>3, Pushed
<1>5. QED
  BY <1>3, <1>4

\* Connect.
LEMMA KeepsConnect == ASSUME IInv, Connect PROVE IInv'
<1>1. /\ pc[Main] = <<>> /\ pc' = [pc EXCEPT ![Main] = <<"connect">>] /\ ~m_isConnected
      /\ m_isInit' = TRUE /\ running' = IF m_isInit THEN running ELSE Workers
      /\ UNCHANGED <<m_isConnected, m_disconnect, counts, sending, ids, kernel, id, packets,
                     events>>
      /\ running = {} /\ (running' # {} => id_generator = 0)
  <2>1. running = {} /\ (~m_isInit => id_generator = 0)
    BY CallsIn DEF Connect, Start, IInv, Phase
  <2>2. QED
    BY <2>1 DEF Connect, Start
<1>2. /\ Control' /\ Stacks(0, 0, 0, 0, 0, 0, 0, 0) /\ In(Receiving, pc'[Main]) = 0
      /\ pc' \in [Threads -> Seq(Functions)] /\ pc'[Main] = <<"connect">>
      /\ \A t \in Threads : Ending(t) => Ending(t)'
      /\ \A t \in Workers : t \in Threads /\ pc'[t] = pc[t]
  BY <1>1, OuterStacks, CallMoves
<1>3. Port(0, 0, 0, 0, 0, 0, 0) /\ Len(m_hcp') = Len(m_hcp) + 0 /\ 0 \in Int
  <2>1. m_hcp' = m_hcp
    BY <1>1 DEF kernel
  <2>2. QED
    BY <2>1, PortSame DEF IInv
<1>4. Typed'
  BY <1>1, <1>2 DEF IInv, Typed, switches, counts, sending, ids, kernel, packets
<1>5. Phase'
  <2>1. \A w \in Workers : pc[w] = <<>>
    BY <1>1 DEF IInv, Phase
  <2>2. id_generator \in Nat
    BY LanBounds DEF IInv, Typed
  <2>3. QED
    BY <1>1, <1>2, <2>1, <2>2, CallsIn DEF IInv, Phase, ids, events
<1>6. Fresh'
  <2>1. id_generator = 0 => m_serverSock' = 0 /\ In(Posts \ {"EXIT"}, m_hcp') = 0
    BY <1>1 DEF IInv, Fresh, ids, kernel
  <2>2. <<"connect">> \in Seq(Outside)
    BY DEF Outside
  <2>3. UNCHANGED <<m_disconnect, counts, sending, id_generator, posted, packets, left>>
    BY <1>1 DEF ids, kernel, events
  <2>4. QED
    BY <1>2, <2>1, <2>2, <2>3, StillFresh
<1>7. QED
  <2>1. UNCHANGED <<m_disconnect, counts, sending, packets>> /\ posted' = posted
        /\ id_generator' = id_generator /\ left' = left
    BY <1>1 DEF kernel, ids, events
  <2>2. In(Receiving, pc'[Main]) > 0 =>
            In(Receiving, pc[Main]) > 0 /\ m_serverSock' = m_serverSock
    BY <1>2
  <2>3. id_generator = 1 /\ running' # {} => running # {} /\ m_serverSock' = m_serverSock
    BY <1>1 DEF ids, switches
  <2>4. QED
    BY <1>2, <1>3, <1>4, <1>5, <1>6, <2>1, <2>2, <2>3, CallStep

\* The connection attempt fails.
LEMMA KeepsConnectFailed == ASSUME IInv, ConnectFailed PROVE IInv'
<1>1. /\ pc[Main] = <<"connect">> /\ pc' = [pc EXCEPT ![Main] = <<"exits", "wait">>]
      /\ m_isConnected' \in BOOLEAN /\ m_serverSock' = 0
      /\ UNCHANGED <<m_isInit, running, m_disconnect, counts, sending, m_sessionId, id_generator,
                     kernel, id, packets, events>>
      /\ (running # {} => id_generator = 0)
  <2>1. /\ pc[Main] = <<"connect">>
        /\ pc' = [pc EXCEPT ![Main] = <<"exits", "wait">> \o Tail(pc[Main])]
    BY AtCall DEF ConnectFailed, Run
  <2>2. <<"exits", "wait">> \o Tail(pc[Main]) = <<"exits", "wait">>
    BY <2>1
  <2>3. running # {} => id_generator = 0
    BY <2>1, CallsIn DEF IInv, Phase
  <2>4. QED
    BY <2>1, <2>2, <2>3 DEF ConnectFailed
<1>2. /\ Control' /\ Stacks(0, 0, 0, 0, 0, 0, 0, 0) /\ In(Receiving, pc'[Main]) = 0
      /\ pc' \in [Threads -> Seq(Functions)] /\ pc'[Main] = <<"exits", "wait">>
      /\ \A t \in Threads : Ending(t) => Ending(t)'
      /\ \A t \in Workers : t \in Threads /\ pc'[t] = pc[t]
  BY <1>1, OuterStacks, CallMoves
<1>3. Port(0, 0, 0, 0, 0, 0, 0) /\ Len(m_hcp') = Len(m_hcp) + 0 /\ 0 \in Int
  <2>1. m_hcp' = m_hcp
    BY <1>1 DEF kernel
  <2>2. QED
    BY <2>1, PortSame DEF IInv
<1>4. Typed'
  <2>1. 0 \in 0 .. MaxConnects
    BY LanBounds
  <2>2. QED
    BY <1>1, <1>2, <2>1 DEF IInv, Typed, counts, sending, kernel, packets
<1>5. Phase'
  <2>1. id_generator \in Nat /\ m_isInit
    BY <1>1, LanBounds DEF IInv, Typed, Phase
  <2>2. QED
    BY <1>1, <1>2, <2>1, CallsIn DEF IInv, Phase, events
<1>6. Fresh'
  <2>1. id_generator = 0 => m_serverSock' = 0 /\ In(Posts \ {"EXIT"}, m_hcp') = 0
    BY <1>1 DEF IInv, Fresh, ids, kernel
  <2>2. <<"exits", "wait">> \in Seq(Outside)
    BY DEF Outside
  <2>3. UNCHANGED <<m_disconnect, counts, sending, id_generator, posted, packets, left>>
    BY <1>1 DEF ids, kernel, events
  <2>4. QED
    BY <1>2, <2>1, <2>2, <2>3, StillFresh
<1>7. QED
  <2>1. UNCHANGED <<m_disconnect, counts, sending, packets>> /\ posted' = posted
        /\ id_generator' = id_generator /\ left' = left
    BY <1>1 DEF kernel, ids, events
  <2>2. In(Receiving, pc'[Main]) > 0 =>
            In(Receiving, pc[Main]) > 0 /\ m_serverSock' = m_serverSock
    BY <1>2
  <2>3. id_generator = 1 /\ running' # {} => running # {} /\ m_serverSock' = m_serverSock
    BY <1>1 DEF ids, switches
  <2>4. QED
    BY <1>2, <1>3, <1>4, <1>5, <1>6, <2>1, <2>2, <2>3, CallStep

\* Connect has succeeded.
LEMMA KeepsConnected == ASSUME IInv, Connected PROVE IInv'
<1>1. /\ pc[Main] = <<"connected">> /\ pc' = [pc EXCEPT ![Main] = <<>>]
      /\ m_isConnected' = TRUE /\ id_generator > 0
      /\ UNCHANGED <<m_isInit, running, m_disconnect, counts, sending, ids, kernel, id, packets,
                     events>>
  <2>1. pc[Main] = <<"connected">> /\ pc' = [pc EXCEPT ![Main] = <<>> \o Tail(pc[Main])]
    BY AtCall DEF Connected, Run, Return
  <2>2. <<>> \o Tail(pc[Main]) = <<>>
    BY <2>1
  <2>3. id_generator > 0
    <3>1. "connected" \notin Outside /\ Main \in Threads
      BY DEF Outside, Threads
    <3>2. QED
      BY <3>1, OnTop DEF Connected
  <2>4. QED
    BY <2>1, <2>2, <2>3 DEF Connected
<1>2. /\ Control' /\ Stacks(0, 0, 0, 0, 0, 0, 0, 0) /\ In(Receiving, pc'[Main]) = 0
      /\ pc' \in [Threads -> Seq(Functions)] /\ pc'[Main] = <<>>
      /\ \A t \in Threads : Ending(t) => Ending(t)'
      /\ \A t \in Workers : t \in Threads /\ pc'[t] = pc[t]
  BY <1>1, OuterStacks, CallMoves
<1>3. Port(0, 0, 0, 0, 0, 0, 0) /\ Len(m_hcp') = Len(m_hcp) + 0 /\ 0 \in Int
  <2>1. m_hcp' = m_hcp
    BY <1>1 DEF kernel
  <2>2. QED
    BY <2>1, PortSame DEF IInv
<1>4. Typed'
  BY <1>1, <1>2 DEF IInv, Typed, switches, counts, sending, ids, kernel, packets
<1>5. Phase'
  BY <1>1, <1>2, CallsIn DEF IInv, Phase, ids, events
<1>6. Fresh'
  BY <1>1 DEF Fresh, ids
<1>7. QED
  <2>1. UNCHANGED <<m_disconnect, counts, sending, packets>> /\ posted' = posted
        /\ id_generator' = id_generator /\ left' = left
    BY <1>1 DEF kernel, ids, events
  <2>2. In(Receiving, pc'[Main]) > 0 =>
            In(Receiving, pc[Main]) > 0 /\ m_serverSock' = m_serverSock
    BY <1>2
  <2>3. id_generator = 1 /\ running' # {} => running # {} /\ m_serverSock' = m_serverSock
    BY <1>1 DEF ids, switches
  <2>4. QED
    BY <1>2, <1>3, <1>4, <1>5, <1>6, <2>1, <2>2, <2>3, CallStep

\* Disconnect.
LEMMA KeepsDisconnect == ASSUME IInv, Disconnect PROVE IInv'
<1>1. /\ pc[Main] = <<>> /\ pc' = [pc EXCEPT ![Main] = <<"disconnect", "exits", "wait">>]
      /\ m_isConnected /\ id_generator > 0
      /\ UNCHANGED <<switches, m_disconnect, counts, sending, ids, kernel, id, packets, events>>
  <2>1. id_generator > 0
    BY CallsIn DEF Disconnect, Start, IInv, Phase
  <2>2. QED
    BY <2>1 DEF Disconnect, Start
<1>2. /\ Control' /\ Stacks(0, 0, 0, 0, 0, 0, 0, 0) /\ In(Receiving, pc'[Main]) = 0
      /\ pc' \in [Threads -> Seq(Functions)] /\ pc'[Main] = <<"disconnect", "exits", "wait">>
      /\ \A t \in Threads : Ending(t) => Ending(t)'
      /\ \A t \in Workers : t \in Threads /\ pc'[t] = pc[t]
  BY <1>1, OuterStacks, CallMoves
<1>3. Port(0, 0, 0, 0, 0, 0, 0) /\ Len(m_hcp') = Len(m_hcp) + 0 /\ 0 \in Int
  <2>1. m_hcp' = m_hcp
    BY <1>1 DEF kernel
  <2>2. QED
    BY <2>1, PortSame DEF IInv
<1>4. Typed'
  BY <1>1, <1>2 DEF IInv, Typed, switches, counts, sending, ids, kernel, packets
<1>5. Phase'
  BY <1>1, <1>2, CallsIn DEF IInv, Phase, switches, ids, events
<1>6. Fresh'
  BY <1>1 DEF Fresh, ids
<1>7. QED
  <2>1. UNCHANGED <<m_disconnect, counts, sending, packets>> /\ posted' = posted
        /\ id_generator' = id_generator /\ left' = left
    BY <1>1 DEF kernel, ids, events
  <2>2. In(Receiving, pc'[Main]) > 0 =>
            In(Receiving, pc[Main]) > 0 /\ m_serverSock' = m_serverSock
    BY <1>2
  <2>3. id_generator = 1 /\ running' # {} => running # {} /\ m_serverSock' = m_serverSock
    BY <1>1 DEF ids, switches
  <2>4. QED
    BY <1>2, <1>3, <1>4, <1>5, <1>6, <2>1, <2>2, <2>3, CallStep

\* SendMonitor sends a packet.
LEMMA KeepsSendMonitorData == ASSUME IInv, SendMonitorData PROVE IInv'
<1>1. /\ pc[Main] = <<>> /\ pc' = [pc EXCEPT ![Main] = <<"send_id">>]
      /\ m_isConnected /\ id_generator > 0
      /\ UNCHANGED <<switches, m_disconnect, counts, sending, ids, kernel, id, packets, events>>
  <2>1. id_generator > 0
    BY CallsIn DEF SendMonitorData, Start, IInv, Phase
  <2>2. QED
    BY <2>1 DEF SendMonitorData, Start
<1>2. /\ Control' /\ Stacks(0, 0, 0, 0, 0, 0, 0, 0) /\ In(Receiving, pc'[Main]) = 0
      /\ pc' \in [Threads -> Seq(Functions)] /\ pc'[Main] = <<"send_id">>
      /\ \A t \in Threads : Ending(t) => Ending(t)'
      /\ \A t \in Workers : t \in Threads /\ pc'[t] = pc[t]
  BY <1>1, OuterStacks, CallMoves
<1>3. Port(0, 0, 0, 0, 0, 0, 0) /\ Len(m_hcp') = Len(m_hcp) + 0 /\ 0 \in Int
  <2>1. m_hcp' = m_hcp
    BY <1>1 DEF kernel
  <2>2. QED
    BY <2>1, PortSame DEF IInv
<1>4. Typed'
  BY <1>1, <1>2 DEF IInv, Typed, switches, counts, sending, ids, kernel, packets
<1>5. Phase'
  BY <1>1, <1>2, CallsIn DEF IInv, Phase, switches, ids, events
<1>6. Fresh'
  BY <1>1 DEF Fresh, ids
<1>7. QED
  <2>1. UNCHANGED <<m_disconnect, counts, sending, packets>> /\ posted' = posted
        /\ id_generator' = id_generator /\ left' = left
    BY <1>1 DEF kernel, ids, events
  <2>2. In(Receiving, pc'[Main]) > 0 =>
            In(Receiving, pc[Main]) > 0 /\ m_serverSock' = m_serverSock
    BY <1>2
  <2>3. id_generator = 1 /\ running' # {} => running # {} /\ m_serverSock' = m_serverSock
    BY <1>1 DEF ids, switches
  <2>4. QED
    BY <1>2, <1>3, <1>4, <1>5, <1>6, <2>1, <2>2, <2>3, CallStep

\* releaseClient posts the packets that end the workers.
LEMMA KeepsPostExits == ASSUME IInv, PostExits PROVE IInv'
<1>1. /\ pc[Main] = <<"exits", "wait">> /\ pc' = [pc EXCEPT ![Main] = <<"wait">>]
      /\ m_hcp' = m_hcp \o [i \in 1 .. Cardinality(Workers) |-> "EXIT"]
      /\ UNCHANGED <<switches, m_disconnect, counts, sending, ids, posted, id, packets, events>>
  <2>1. pc[Main] = <<"exits", "wait">> /\ pc' = [pc EXCEPT ![Main] = <<>> \o Tail(pc[Main])]
    BY AtCall DEF PostExits, Run, Return
  <2>2. <<>> \o Tail(pc[Main]) = <<"wait">>
    BY <2>1
  <2>3. QED
    BY <2>1, <2>2 DEF PostExits
<1>2. /\ Control' /\ Stacks(0, 0, 0, 0, 0, 0, 0, 0) /\ In(Receiving, pc'[Main]) = 0
      /\ pc' \in [Threads -> Seq(Functions)] /\ pc'[Main] = <<"wait">>
      /\ \A t \in Threads : Ending(t) => Ending(t)'
      /\ \A t \in Workers : t \in Threads /\ pc'[t] = pc[t]
  BY <1>1, OuterStacks, CallMoves
<1>3. PICK n \in Int :
        /\ Port(n, 0, 0, 0, 0, 0, 0) /\ Len(m_hcp') = Len(m_hcp) + n /\ m_hcp' \in Seq(Posts)
        /\ In(Posts \ {"EXIT"}, m_hcp') = In(Posts \ {"EXIT"}, m_hcp)
  <2>1. PICK n \in Nat : n = Cardinality(Workers)
    BY LanThreads, FS_CardinalityType
  <2>2. PICK d : d = [i \in 1 .. n |-> "EXIT"]
    OBVIOUS
  <2>3. d \in Seq({"EXIT"}) /\ Len(d) = n /\ m_hcp' = m_hcp \o d
    BY <1>1, <2>1, <2>2
  <2>4. d \in Seq(Posts)
    BY <2>3 DEF Posts
  <2>5. /\ Port(In({"EXIT"}, d), In(UsePosts, d), In({"RELEASE_PEND"}, d), In({"RECV"}, d),
                In({"SEND"}, d), In({"SEND_PEND"}, d), In({"RECV0"}, d))
        /\ Len(m_hcp') = Len(m_hcp) + Len(d) /\ m_hcp' \in Seq(Posts)
    BY <2>3, <2>4, PortJoin DEF IInv
  <2>6. /\ In(UsePosts, d) = 0 /\ In({"RELEASE_PEND"}, d) = 0 /\ In({"RECV"}, d) = 0
        /\ In({"SEND"}, d) = 0 /\ In({"SEND_PEND"}, d) = 0 /\ In({"RECV0"}, d) = 0
        /\ In(Posts \ {"EXIT"}, d) = 0
    <3>1. /\ UsePosts \cap {"EXIT"} = {} /\ {"RELEASE_PEND"} \cap {"EXIT"} = {}
          /\ {"RECV"} \cap {"EXIT"} = {} /\ {"SEND"} \cap {"EXIT"} = {}
          /\ {"SEND_PEND"} \cap {"EXIT"} = {} /\ {"RECV0"} \cap {"EXIT"} = {}
          /\ (Posts \ {"EXIT"}) \cap {"EXIT"} = {}
      BY DEF UsePosts
    <3>2. \A F : F \cap {"EXIT"} = {} => In(F, d) = 0
      BY <2>3, InOutside
    <3>3. QED
      BY <3>1, <3>2
  <2>7. In({"EXIT"}, d) = n
    <3>1. {"EXIT"} \cap {} = {} /\ {"EXIT"} \subseteq {"EXIT"} \cup {}
      OBVIOUS
    <3>2. In({"EXIT"}, d) + In({}, d) = Len(d)
      BY <2>3, <3>1, InLen
    <3>3. In({}, d) = 0
      <4>1. {} \cap {"EXIT"} = {}
        OBVIOUS
      <4>2. QED
        BY <2>3, <4>1, InOutside
    <3>4. In({"EXIT"}, d) \in Nat
      BY <2>3, InNat
    <3>5. QED
      BY <2>3, <3>2, <3>3, <3>4
  <2>8. In(Posts \ {"EXIT"}, m_hcp') = In(Posts \ {"EXIT"}, m_hcp)
    <3>1. m_hcp \in Seq(Posts)
      BY DEF IInv, Typed
    <3>2. In(Posts \ {"EXIT"}, m_hcp \o d) = In(Posts \ {"EXIT"}, m_hcp) + In(Posts \ {"EXIT"}, d)
      BY <2>4, <3>1, InJoin
    <3>3. In(Posts \ {"EXIT"}, m_hcp) \in Nat
      BY <3>1, InNat
    <3>4. QED
      BY <2>3, <2>6, <3>2, <3>3
  <2>9. Port(n, 0, 0, 0, 0, 0, 0)
    BY <2>5, <2>6, <2>7
  <2>10. QED
    BY <2>3, <2>5, <2>8, <2>9
<1>4. Typed'
  BY <1>1, <1>2, <1>3 DEF IInv, Typed, switches, counts, sending, ids, packets
<1>5. Phase'
  BY <1>1, <1>2, CallsIn DEF IInv, Phase, switches, ids, events
<1>6. Fresh'
  <2>1. id_generator = 0 => m_serverSock' = 0 /\ In(Posts \ {"EXIT"}, m_hcp') = 0
    BY <1>1, <1>3 DEF IInv, Fresh, ids
  <2>2. <<"wait">> \in Seq(Outside)
    BY DEF Outside
  <2>3. UNCHANGED <<m_disconnect, counts, sending, id_generator, posted, packets, left>>
    BY <1>1 DEF ids, events
  <2>4. QED
    BY <1>2, <2>1, <2>2, <2>3, StillFresh
<1>7. QED
  <2>1. UNCHANGED <<m_disconnect, counts, sending, packets>> /\ posted' = posted
        /\ id_generator' = id_generator /\ left' = left
    BY <1>1 DEF kernel, ids, events
  <2>2. In(Receiving, pc'[Main]) > 0 =>
            In(Receiving, pc[Main]) > 0 /\ m_serverSock' = m_serverSock
    BY <1>2
  <2>3. id_generator = 1 /\ running' # {} => running # {} /\ m_serverSock' = m_serverSock
    BY <1>1 DEF ids, switches
  <2>4. QED
    BY <1>2, <1>3, <1>4, <1>5, <1>6, <2>1, <2>2, <2>3, CallStep

\* The workers have ended.
LEMMA KeepsWaitWorkers == ASSUME IInv, WaitWorkers PROVE IInv'
<1>1. /\ pc[Main] = <<"wait">> /\ pc' = [pc EXCEPT ![Main] = <<>>]
      /\ m_isConnected' = FALSE /\ running = {}
      /\ UNCHANGED <<m_isInit, running, m_disconnect, counts, sending, ids, kernel, id, packets,
                     events>>
  <2>1. pc[Main] = <<"wait">> /\ pc' = [pc EXCEPT ![Main] = <<>> \o Tail(pc[Main])]
    BY AtCall DEF WaitWorkers, Run, Return
  <2>2. <<>> \o Tail(pc[Main]) = <<>>
    BY <2>1
  <2>3. QED
    BY <2>1, <2>2 DEF WaitWorkers
<1>2. /\ Control' /\ Stacks(0, 0, 0, 0, 0, 0, 0, 0) /\ In(Receiving, pc'[Main]) = 0
      /\ pc' \in [Threads -> Seq(Functions)] /\ pc'[Main] = <<>>
      /\ \A t \in Threads : Ending(t) => Ending(t)'
      /\ \A t \in Workers : t \in Threads /\ pc'[t] = pc[t]
  BY <1>1, OuterStacks, CallMoves
<1>3. Port(0, 0, 0, 0, 0, 0, 0) /\ Len(m_hcp') = Len(m_hcp) + 0 /\ 0 \in Int
  <2>1. m_hcp' = m_hcp
    BY <1>1 DEF kernel
  <2>2. QED
    BY <2>1, PortSame DEF IInv
<1>4. Typed'
  BY <1>1, <1>2 DEF IInv, Typed, switches, counts, sending, ids, kernel, packets
<1>5. Phase'
  BY <1>1, <1>2, CallsIn DEF IInv, Phase, switches, ids, events
<1>6. Fresh'
  <2>1. id_generator = 0 => m_serverSock' = 0 /\ In(Posts \ {"EXIT"}, m_hcp') = 0
    BY <1>1 DEF IInv, Fresh, ids, kernel
  <2>2. <<>> \in Seq(Outside)
    BY DEF Outside
  <2>3. UNCHANGED <<m_disconnect, counts, sending, id_generator, posted, packets, left>>
    BY <1>1 DEF ids, kernel, events
  <2>4. QED
    BY <1>2, <2>1, <2>2, <2>3, StillFresh
<1>7. QED
  <2>1. UNCHANGED <<m_disconnect, counts, sending, packets>> /\ posted' = posted
        /\ id_generator' = id_generator /\ left' = left
    BY <1>1 DEF kernel, ids, events
  <2>2. In(Receiving, pc'[Main]) > 0 =>
            In(Receiving, pc[Main]) > 0 /\ m_serverSock' = m_serverSock
    BY <1>2
  <2>3. id_generator = 1 /\ running' # {} => running # {} /\ m_serverSock' = m_serverSock
    BY <1>1 DEF ids, switches
  <2>4. QED
    BY <1>2, <1>3, <1>4, <1>5, <1>6, <2>1, <2>2, <2>3, CallStep

-----------------------------------------------------------------------------
(* A worker takes a packet *)

\* The port without its oldest packet.
LEMMA PortTail ==
    ASSUME Typed, m_hcp # <<>>, NEW p, p = Head(m_hcp), m_hcp' = Tail(m_hcp)
    PROVE  /\ Port(0 - I(p, {"EXIT"}), 0 - I(p, UsePosts), 0 - I(p, {"RELEASE_PEND"}),
                   0 - I(p, {"RECV"}), 0 - I(p, {"SEND"}), 0 - I(p, {"SEND_PEND"}),
                   0 - I(p, {"RECV0"}))
           /\ Len(m_hcp') = Len(m_hcp) + -1 /\ m_hcp' \in Seq(Posts) /\ p \in Posts
           /\ \A F : /\ In(F, m_hcp) = I(p, F) + In(F, m_hcp') /\ In(F, m_hcp') \in Nat
                     /\ In(F, m_hcp) \in Nat
<1>1. m_hcp \in Seq(Posts)
  BY DEF Typed
<1>2. m_hcp' \in Seq(Posts) /\ Len(m_hcp') = Len(m_hcp) + -1 /\ p \in Posts
  BY <1>1
<1>3. \A F : In(F, m_hcp) = I(p, F) + In(F, Tail(m_hcp))
  BY <1>1, InTop
<1>4. \A F : In(F, m_hcp') \in Nat /\ In(F, m_hcp) \in Nat /\ I(p, F) \in Nat
  <2>1. \A F : I(p, F) \in Nat
    BY DEF I
  <2>2. ASSUME NEW s \in Seq(Posts) PROVE \A F : In(F, s) \in Nat
    BY InNat
  <2>3. \A F : In(F, m_hcp') \in Nat
    BY <1>2, <2>2
  <2>4. \A F : In(F, m_hcp) \in Nat
    BY <1>1, <2>2
  <2>5. QED
    BY <2>1, <2>3, <2>4
<1>5. \A F : In(F, m_hcp') = In(F, m_hcp) + (0 - I(p, F))
  BY <1>3, <1>4
<1>6. Port(0 - I(p, {"EXIT"}), 0 - I(p, UsePosts), 0 - I(p, {"RELEASE_PEND"}),
           0 - I(p, {"RECV"}), 0 - I(p, {"SEND"}), 0 - I(p, {"SEND_PEND"}), 0 - I(p, {"RECV0"}))
  BY <1>5 DEF Port
<1>7. QED
  BY <1>2, <1>3, <1>4, <1>6

\* An exit packet ends the worker.
LEMMA KeepsExit ==
    ASSUME IInv, NEW t \in Workers, GetPacket(t), Head(m_hcp) = "EXIT" PROVE IInv'
<1>1. /\ t \in running /\ m_hcp # <<>> /\ m_hcp' = Tail(m_hcp) /\ pc[t] = <<>>
      /\ running' = running \ {t} /\ pc' = pc
      /\ UNCHANGED <<m_isConnected, m_isInit, m_disconnect, counts, sending, ids, posted, id,
                     packets, events>>
  BY DEF GetPacket
<1>2. /\ Port(0 - 1, 0 - 0, 0 - 0, 0 - 0, 0 - 0, 0 - 0, 0 - 0)
      /\ Len(m_hcp') = Len(m_hcp) + -1 /\ m_hcp' \in Seq(Posts)
      /\ In(Posts \ {"EXIT"}, m_hcp') = In(Posts \ {"EXIT"}, m_hcp)
  <2>1. PICK p : p = Head(m_hcp)
    OBVIOUS
  <2>2. /\ Port(0 - I(p, {"EXIT"}), 0 - I(p, UsePosts), 0 - I(p, {"RELEASE_PEND"}),
                0 - I(p, {"RECV"}), 0 - I(p, {"SEND"}), 0 - I(p, {"SEND_PEND"}), 0 - I(p, {"RECV0"}))
        /\ Len(m_hcp') = Len(m_hcp) + -1 /\ m_hcp' \in Seq(Posts)
        /\ \A F : /\ In(F, m_hcp) = I(p, F) + In(F, m_hcp') /\ In(F, m_hcp') \in Nat
                  /\ In(F, m_hcp) \in Nat
    BY <1>1, <2>1, PortTail DEF IInv
  <2>3. /\ I(p, {"EXIT"}) = 1 /\ I(p, UsePosts) = 0 /\ I(p, {"RELEASE_PEND"}) = 0
        /\ I(p, {"RECV"}) = 0 /\ I(p, {"SEND"}) = 0 /\ I(p, {"SEND_PEND"}) = 0
        /\ I(p, {"RECV0"}) = 0
        /\ I(p, Posts \ {"EXIT"}) = 0
    BY <2>1 DEF I, UsePosts
  <2>4. In(Posts \ {"EXIT"}, m_hcp') = In(Posts \ {"EXIT"}, m_hcp)
    <3>1. /\ In(Posts \ {"EXIT"}, m_hcp) = I(p, Posts \ {"EXIT"}) + In(Posts \ {"EXIT"}, m_hcp')
          /\ In(Posts \ {"EXIT"}, m_hcp') \in Nat
      BY <2>2
    <3>2. QED
      BY <2>3, <3>1
  <2>5. QED
    BY <2>2, <2>3, <2>4
<1>3. Port(-1, 0, 0, 0, 0, 0, 0) /\ -1 \in Int
  <2>1. 0 - 1 = -1 /\ 0 - 0 = 0
    OBVIOUS
  <2>2. QED
    BY <1>2, <2>1
<1>4. Stacks(0, 0, 0, 0, 0, 0, 0, 0)
  <2>1. StacksNat(pc)
    BY Counts DEF IInv
  <2>2. QED
    BY <1>1, <2>1 DEF Stacks, StacksNat
<1>5. Typed'
  BY <1>1, <1>2 DEF IInv, Typed, counts, sending, ids, packets
<1>6. Control' /\ Phase'
  BY <1>1 DEF IInv, Control, Phase, ids, events
<1>7. Fresh'
  BY <1>1, <1>2 DEF IInv, Fresh, counts, sending, ids, packets, events
<1>8. \A v \in Threads : Ending(v) => Ending(v)'
  BY <1>1 DEF Ending
<1>9. /\ id_generator' = id_generator /\ left' = left /\ m_serverSock' = m_serverSock
      /\ UNCHANGED <<m_disconnect, counts, sending, packets>> /\ posted' = posted
  BY <1>1 DEF ids, events
<1>10. In(Receiving, pc'[Main]) > 0 =>
            In(Receiving, pc[Main]) > 0 /\ m_serverSock' = m_serverSock
  BY <1>1, <1>9
<1>11. id_generator = 1 /\ running' # {} => running # {} /\ m_serverSock' = m_serverSock
  BY <1>1, <1>9
<1>12. QED
  BY <1>2, <1>3, <1>4, <1>5, <1>6, <1>7, <1>8, <1>9, <1>10, <1>11, CallStep

\* A worker starts the handler s of another packet p.
Taking(t, p, s) ==
    /\ t \in running /\ pc[t] = <<>> /\ m_hcp # <<>> /\ m_hcp' = Tail(m_hcp)
    /\ p = Head(m_hcp) /\ p # "EXIT" /\ pc' = [pc EXCEPT ![t] = s]
    /\ UNCHANGED <<switches, m_disconnect, counts, sending, ids, posted, id, packets, events>>

\* What a worker's taking of a packet does to the stacks and the port.
LEMMA TakesPacket ==
    ASSUME IInv, NEW t \in Workers, NEW p, NEW s \in Seq(Functions \ Calls), Taking(t, p, s),
           Proper(t, s)
    PROVE  /\ id_generator = 1 /\ p \in Posts /\ Typed' /\ Control' /\ Phase' /\ Fresh'
           /\ Joining' /\ Known' /\ \A v \in Threads : Ending(v) => Ending(v)'
           /\ Port(0 - I(p, {"EXIT"}), 0 - I(p, UsePosts), 0 - I(p, {"RELEASE_PEND"}),
                   0 - I(p, {"RECV"}), 0 - I(p, {"SEND"}), 0 - I(p, {"SEND_PEND"}),
                   0 - I(p, {"RECV0"}))
           /\ Len(m_hcp') = Len(m_hcp) + -1
           /\ \A F : p \in F => In(F, m_hcp) > 0
           /\ Stacks(In({"update"}, s), In(Using, s), In({"rel_post", "release"}, s),
                     In({"clean"}, s), In(Receiving, s), In({"sp_size"}, s),
                     In({"try_send"}, s), In({"sent"}, s))
           /\ pc'[t] = s /\ t \in Threads
<1>1. /\ t \in running /\ pc[t] = <<>> /\ m_hcp # <<>> /\ m_hcp' = Tail(m_hcp)
      /\ p = Head(m_hcp) /\ p # "EXIT" /\ pc' = [pc EXCEPT ![t] = s]
      /\ UNCHANGED <<switches, m_disconnect, counts, sending, ids, posted, id, packets, events>>
  BY DEF Taking
<1>2. t \in Threads /\ t # Main /\ pc \in [Threads -> Seq(Functions)] /\ s \in Seq(Functions)
  BY LanThreads DEF Threads, IInv, Typed
<1>3. Moved(t, s)
  BY <1>1, <1>2, Moves
<1>4. /\ pc' \in [Threads -> Seq(Functions)] /\ pc'[t] = s
      /\ \A u \in Threads : u # t => pc'[u] = pc[u]
  BY <1>3 DEF Moved
<1>5. /\ Port(0 - I(p, {"EXIT"}), 0 - I(p, UsePosts), 0 - I(p, {"RELEASE_PEND"}),
              0 - I(p, {"RECV"}), 0 - I(p, {"SEND"}), 0 - I(p, {"SEND_PEND"}), 0 - I(p, {"RECV0"}))
      /\ Len(m_hcp') = Len(m_hcp) + -1 /\ m_hcp' \in Seq(Posts) /\ p \in Posts
      /\ \A F : /\ In(F, m_hcp) = I(p, F) + In(F, m_hcp') /\ In(F, m_hcp') \in Nat
                /\ In(F, m_hcp) \in Nat
  BY <1>1, PortTail DEF IInv
<1>6. ASSUME NEW F, p \in F PROVE In(F, m_hcp) > 0
  <2>1. I(p, F) = 1
    BY <1>6 DEF I
  <2>2. In(F, m_hcp) = I(p, F) + In(F, m_hcp') /\ In(F, m_hcp') \in Nat
    BY <1>5
  <2>3. QED
    BY <2>1, <2>2
<1>7. id_generator = 1
  <2>1. In(Posts \ {"EXIT"}, m_hcp) > 0
    BY <1>1, <1>5, <1>6
  <2>2. id_generator # 0
    BY <2>1 DEF IInv, Fresh
  <2>3. id_generator \in Nat /\ id_generator <= 1
    BY <1>1, LanBounds DEF IInv, Typed, Phase
  <2>4. QED
    BY <2>2, <2>3
<1>8. Typed'
  BY <1>1, <1>4, <1>5 DEF IInv, Typed, switches, counts, sending, ids, packets
<1>9. Control'
  BY <1>4 DEF IInv, Control
<1>10. Main \in Threads /\ pc'[Main] = pc[Main]
  BY <1>2, <1>4 DEF Threads
<1>11. Phase'
  BY <1>1, <1>4, <1>10 DEF IInv, Phase, switches, ids, events, Threads
<1>12. Fresh'
  BY <1>1, <1>7 DEF Fresh, ids
<1>13. Joining' /\ Known'
  BY <1>1, <1>10 DEF IInv, Joining, Known, ids
<1>14. \A v \in Threads : Ending(v) => Ending(v)'
  <2>1. ~Ending(t)
    BY <1>1, InNone DEF Ending
  <2>2. QED
    BY <1>4, <2>1 DEF Ending
<1>15. Stacks(In({"update"}, s), In(Using, s), In({"rel_post", "release"}, s),
              In({"clean"}, s), In(Receiving, s), In({"sp_size"}, s),
              In({"try_send"}, s), In({"sent"}, s))
  <2>1. ASSUME NEW F PROVE Total(F, pc') = Total(F, pc) + In(F, s)
    <3>1. /\ Total(F, pc') = Total(F, pc) - In(F, pc[t]) + In(F, s)
          /\ Total(F, pc) \in Nat /\ In(F, s) \in Nat
      BY <1>3 DEF Moved
    <3>2. In(F, pc[t]) = 0
      BY <1>1, InNone
    <3>3. QED
      BY <3>1, <3>2
  <2>2. QED
    BY <2>1 DEF Stacks
<1>16. QED
  BY <1>2, <1>4, <1>5, <1>6, <1>7, <1>8, <1>9, <1>11, <1>12, <1>13, <1>14, <1>15

\* How the rights to send change when a packet is taken.
LEMMA SendTokensBy ==
    ASSUME Typed, posted' = posted, NEW ts \in Int, NEW psd \in Int, NEW ppd \in Int,
           Total({"sp_size"}, pc') = Total({"sp_size"}, pc),
           Total({"try_send"}, pc') = Total({"try_send"}, pc) + ts,
           In({"SEND"}, m_hcp') = In({"SEND"}, m_hcp) + psd,
           In({"SEND_PEND"}, m_hcp') = In({"SEND_PEND"}, m_hcp) + ppd
    PROVE  SendTokens' = SendTokens + (ts + psd + ppd)
<1>1. /\ Total({"sp_size"}, pc) \in Nat /\ Total({"try_send"}, pc) \in Nat
      /\ In({"SEND"}, m_hcp) \in Nat /\ In({"SEND_PEND"}, m_hcp) \in Nat
      /\ Ops("send", posted) \in Nat
  BY Counts DEF StacksNat, PortNat, KernelNat
<1>2. QED
  BY <1>1 DEF SendTokens

\* What the packet stood for goes over to the handler, or is given up.
LEMMA TakeStep ==
    ASSUME IInv, Typed', Control', Phase', Fresh', Joining', Known',
           UNCHANGED <<switches, m_disconnect, counts, sending, ids, posted, id, packets, events>>,
           NEW us \in Int, NEW rl \in Int, NEW rv \in Int, NEW ts \in Int, NEW sn \in Int,
           Stacks(1, us, rl, 0, rv, 0, ts, sn),
           NEW pu \in Int, NEW prl \in Int, NEW prv \in Int, NEW psd \in Int, NEW ppd \in Int,
           NEW pr0 \in Int, Port(0, pu, prl, prv, psd, ppd, pr0), Len(m_hcp') = Len(m_hcp) + -1,
           id_generator = 1, m_releaseFlag = 1 => us = 0 /\ pu = 0,
           rl + prl = 0, rv + prv <= 0, ts + psd + ppd <= 0, ppd <= 0, psd + sn <= 0,
           ts > sn => m_sentPacket = <<>>,
           \A v \in Threads : Ending(v) => Ending(v)',
           m_disconnect = 0 => rv + prv + pr0 = 0 \/ \E v \in Threads : Ending(v)'
    PROVE  IInv'
<1>1. StacksNat(pc) /\ PortNat(m_hcp) /\ KernelNat(posted) /\ SumsNat /\ SumsNat'
  BY Counts, SumsAreNat DEF IInv
<1>2. /\ Total({"update"}, pc') = Total({"update"}, pc) + 1
      /\ Total(Using, pc') = Total(Using, pc) + us
      /\ Total({"rel_post", "release"}, pc') = Total({"rel_post", "release"}, pc) + rl
      /\ Total({"clean"}, pc') = Total({"clean"}, pc) + 0
      /\ Total(Receiving, pc') = Total(Receiving, pc) + rv
      /\ Total({"sp_size"}, pc') = Total({"sp_size"}, pc) + 0
      /\ Total({"try_send"}, pc') = Total({"try_send"}, pc) + ts
      /\ Total({"sent"}, pc') = Total({"sent"}, pc) + sn
  BY DEF Stacks
<1>3. /\ In({"EXIT"}, m_hcp') = In({"EXIT"}, m_hcp) + 0
      /\ In(UsePosts, m_hcp') = In(UsePosts, m_hcp) + pu
      /\ In({"RELEASE_PEND"}, m_hcp') = In({"RELEASE_PEND"}, m_hcp) + prl
      /\ In({"RECV"}, m_hcp') = In({"RECV"}, m_hcp) + prv
      /\ In({"SEND"}, m_hcp') = In({"SEND"}, m_hcp) + psd
      /\ In({"SEND_PEND"}, m_hcp') = In({"SEND_PEND"}, m_hcp) + ppd
      /\ In({"RECV0"}, m_hcp') = In({"RECV0"}, m_hcp) + pr0
  BY DEF Port
<1>4. /\ Total({"update"}, pc) \in Nat /\ Total(Using, pc) \in Nat
      /\ Total({"rel_post", "release"}, pc) \in Nat /\ Total({"clean"}, pc) \in Nat
      /\ Total(Receiving, pc) \in Nat /\ Total({"sp_size"}, pc) \in Nat
      /\ Total({"try_send"}, pc) \in Nat /\ Total({"sent"}, pc) \in Nat
      /\ In({"EXIT"}, m_hcp) \in Nat /\ In(UsePosts, m_hcp) \in Nat
      /\ In({"RELEASE_PEND"}, m_hcp) \in Nat /\ In({"RECV"}, m_hcp) \in Nat
      /\ In({"SEND"}, m_hcp) \in Nat /\ In({"SEND_PEND"}, m_hcp) \in Nat
      /\ In({"RECV0"}, m_hcp) \in Nat /\ Len(m_hcp) \in Nat
      /\ Ops("recv", posted) \in Nat /\ Ops("send", posted) \in Nat /\ Cardinality(posted) \in Nat
  BY <1>1 DEF StacksNat, PortNat, KernelNat
<1>5. RecvTokens' = RecvTokens + (rv + prv)
  <2>1. /\ Total(Receiving, pc') = Total(Receiving, pc) + rv /\ Total(Receiving, pc) \in Nat
        /\ In({"RECV"}, m_hcp') = In({"RECV"}, m_hcp) + prv /\ In({"RECV"}, m_hcp) \in Nat
        /\ Ops("recv", posted') = Ops("recv", posted) /\ Ops("recv", posted) \in Nat
    BY <1>2, <1>3, <1>4
  <2>2. QED
    BY <2>1, SMTT(30) DEF RecvTokens
<1>6. SendTokens' = SendTokens + (ts + psd + ppd)
  <2>1. /\ Total({"sp_size"}, pc') = Total({"sp_size"}, pc)
        /\ Total({"try_send"}, pc') = Total({"try_send"}, pc) + ts
        /\ In({"SEND"}, m_hcp') = In({"SEND"}, m_hcp) + psd
        /\ In({"SEND_PEND"}, m_hcp') = In({"SEND_PEND"}, m_hcp) + ppd
    BY <1>2, <1>3, <1>4
  <2>2. QED
    BY <2>1, SendTokensBy DEF IInv
<1>7. Releasing' = Releasing /\ Cleaning' = Cleaning
  <2>1. /\ Total({"rel_post", "release"}, pc') = Total({"rel_post", "release"}, pc) + rl
        /\ Total({"rel_post", "release"}, pc) \in Nat
        /\ Total({"clean"}, pc') = Total({"clean"}, pc) + 0 /\ Total({"clean"}, pc) \in Nat
        /\ In({"RELEASE_PEND"}, m_hcp') = In({"RELEASE_PEND"}, m_hcp) + prl
        /\ In({"RELEASE_PEND"}, m_hcp) \in Nat
    BY <1>2, <1>3, <1>4
  <2>2. QED
    BY <2>1, SMTT(30) DEF Releasing, Cleaning
<1>8. Sending' = Sending + (psd + sn)
  <2>1. /\ Total({"sent"}, pc') = Total({"sent"}, pc) + sn /\ Total({"sent"}, pc) \in Nat
        /\ In({"SEND"}, m_hcp') = In({"SEND"}, m_hcp) + psd /\ In({"SEND"}, m_hcp) \in Nat
        /\ Ops("send", posted') = Ops("send", posted) /\ Ops("send", posted) \in Nat
    BY <1>2, <1>3, <1>4
  <2>2. QED
    BY <2>1, SMTT(30) DEF Sending
<1>9. /\ RecvTokens \in Nat /\ SendTokens \in Nat /\ Sending \in Nat
      /\ RecvTokens' \in Nat /\ SendTokens' \in Nat /\ Sending' \in Nat
  BY <1>1 DEF SumsNat
<1>10. ClosedIdle'
  BY <1>2, <1>3, <1>4 DEF IInv, ClosedIdle, ids, counts
<1>11. Stage'
  BY <1>7 DEF IInv, Stage, ids, counts, switches, events
<1>12. OneReceive'
  BY <1>5, <1>9 DEF IInv, OneReceive, ids
<1>13. OneSend'
  BY <1>6, <1>9 DEF IInv, OneSend, ids, sending
<1>14. SentEmpty'
  <2>1. In({"SEND_PEND"}, m_hcp') > 0 => In({"SEND_PEND"}, m_hcp) > 0
    <3>1. /\ In({"SEND_PEND"}, m_hcp') = In({"SEND_PEND"}, m_hcp) + ppd
          /\ In({"SEND_PEND"}, m_hcp) \in Nat
      BY <1>3, <1>4
    <3>2. QED
      BY <3>1
  <2>2. Total({"try_send"}, pc') > Total({"sent"}, pc') =>
            Total({"try_send"}, pc) > Total({"sent"}, pc) \/ m_sentPacket = <<>>
    <3>1. /\ Total({"try_send"}, pc') = Total({"try_send"}, pc) + ts
          /\ Total({"try_send"}, pc) \in Nat
          /\ Total({"sent"}, pc') = Total({"sent"}, pc) + sn /\ Total({"sent"}, pc) \in Nat
      BY <1>2, <1>4
    <3>2. QED
      BY <3>1
  <2>3. Total({"sp_size"}, pc') = Total({"sp_size"}, pc)
    BY <1>2, <1>4
  <2>4. Sending' > 0 => Sending > 0
    BY <1>8, <1>9
  <2>5. QED
    BY <2>1, <2>2, <2>3, <2>4 DEF IInv, SentEmpty, ids, sending
<1>15. Watched'
  <2> SUFFICES ASSUME m_disconnect = 0 PROVE Watched'
    BY DEF Watched
  <2>1. CASE \E v \in Threads : Ending(v)'
    BY <2>1 DEF Watched
  <2>2. CASE rv + prv + pr0 = 0
    <3>1. RecvTokens + In({"RECV0"}, m_hcp) > 0 => RecvTokens' + In({"RECV0"}, m_hcp') > 0
      <4>1. In({"RECV0"}, m_hcp') = In({"RECV0"}, m_hcp) + pr0 /\ In({"RECV0"}, m_hcp) \in Nat
        BY <1>3, <1>4
      <4>2. RecvTokens' = RecvTokens + (rv + prv) /\ RecvTokens \in Nat
        BY <1>5, <1>9
      <4>3. QED
        BY <2>2, <4>1, <4>2, SMTT(30)
    <3>2. QED
      BY <3>1, WatchedBy DEF ids
  <2>3. QED
    BY <2>1, <2>2
<1>16. PacketsApart'
  <2>1. Total({"clean"}, pc') = Total({"clean"}, pc)
    BY <1>2, <1>4
  <2>2. QED
    BY <2>1, PacketsKept DEF ids, sending, events
<1>17. Counted'
  <2>1. m_ioCount' = m_ioCount + (1 + -1 - 0 + 0) /\ Cardinality(posted') = Cardinality(posted) + 0
    <3>1. m_ioCount \in Int /\ m_ioCount' = m_ioCount /\ posted' = posted
      BY DEF counts, IInv, Typed
    <3>2. Cardinality(posted) \in Nat
      BY <1>4
    <3>3. QED
      BY <3>1, <3>2
  <2>2. 0 \in Int /\ 1 \in Int /\ -1 \in Int
    OBVIOUS
  <2>3. /\ Total({"update"}, pc') = Total({"update"}, pc) + 1
        /\ In({"EXIT"}, m_hcp') = In({"EXIT"}, m_hcp) + 0
    BY <1>2, <1>3
  <2>4. QED
    BY <2>1, <2>2, <2>3, CountedBy
<1>18. QED
  BY <1>10, <1>11, <1>12, <1>13, <1>14, <1>15, <1>16, <1>17 DEF IInv

\* A worker takes a packet of the session and calls what Dispatch says.
LEMMA TakingOf ==
    ASSUME NEW t, GetPacket(t), NEW p, p = Head(m_hcp), p # "EXIT"
    PROVE  /\ p = "SEND_PEND"                => Taking(t, p, <<"try_send", "update">>)
           /\ p = "RELEASE_PEND"             => Taking(t, p, <<"release", "update">>)
           /\ p = "CANCEL_IO"                => Taking(t, p, <<"cancel", "update">>)
           /\ p = "RECV" /\ m_disconnect = 0 => Taking(t, p, <<"parse", "recv_check", "update">>)
           /\ p = "SEND" /\ m_disconnect = 0 => Taking(t, p, <<"sent", "try_send", "update">>)
           /\ p \notin {"SEND_PEND", "RELEASE_PEND", "CANCEL_IO"}
                /\ ~(p \in {"RECV", "SEND"} /\ m_disconnect = 0)
                => Taking(t, p, <<"disconnect", "update">>)
<1>1. ASSUME NEW s, Dispatch(p) \o <<"update">> = s PROVE Taking(t, p, s)
  BY <1>1 DEF GetPacket, Start, Taking, switches
<1>2. /\ <<"try_send">> \o <<"update">> = <<"try_send", "update">>
      /\ <<"release">> \o <<"update">> = <<"release", "update">>
      /\ <<"cancel">> \o <<"update">> = <<"cancel", "update">>
      /\ <<"disconnect">> \o <<"update">> = <<"disconnect", "update">>
  BY Pushed
<1>3. \A x, y, z : <<x, y>> \o <<z>> = <<x, y, z>>
  <2>1. ASSUME NEW x, NEW y, NEW z PROVE <<x, y>> \o <<z>> = <<x, y, z>>
    <3> DEFINE S == {x, y, z}
    <3>1. x \in S /\ y \in S /\ <<z>> \in Seq(S)
      OBVIOUS
    <3> HIDE DEF S
    <3>2. ASSUME NEW r \in Seq(S) PROVE <<x, y>> \o r = <<x>> \o (<<y>> \o r)
      BY <3>1, Short
    <3>3. <<x, y>> \o <<z>> = <<x>> \o (<<y>> \o <<z>>)
      BY <3>1, <3>2
    <3>4. <<y>> \o <<z>> = <<y, z>>
      BY Pushed
    <3>5. <<x, y>> \o <<z>> = <<x>> \o <<y, z>>
      BY <3>3, <3>4
    <3>6. QED
      BY <3>5, Pushed
  <2>2. QED
    BY <2>1
<1>4. p = "SEND_PEND" => Dispatch(p) = <<"try_send">>
  BY DEF Dispatch
<1>5. p = "RELEASE_PEND" => Dispatch(p) = <<"release">>
  BY DEF Dispatch
<1>6. p = "CANCEL_IO" => Dispatch(p) = <<"cancel">>
  BY DEF Dispatch
<1>7. p = "RECV" /\ m_disconnect = 0 => Dispatch(p) = <<"parse", "recv_check">>
  BY DEF Dispatch
<1>8. p = "SEND" /\ m_disconnect = 0 => Dispatch(p) = <<"sent", "try_send">>
  BY DEF Dispatch
<1>9. p \notin {"SEND_PEND", "RELEASE_PEND", "CANCEL_IO"} /\ ~(p \in {"RECV", "SEND"} /\ m_disconnect = 0)
        => Dispatch(p) = <<"disconnect">>
  BY DEF Dispatch
<1>10. QED
  BY <1>1, <1>2, <1>3, <1>4, <1>5, <1>6, <1>7, <1>8, <1>9

\* The handlers take over what their packets stood for.
LEMMA KeepsTakeSendPend ==
    ASSUME IInv, NEW t \in Workers, GetPacket(t), Head(m_hcp) = "SEND_PEND" PROVE IInv'
<1>1. PICK p : p = "SEND_PEND" /\ Taking(t, p, <<"try_send", "update">>)
  BY TakingOf
<1>2. /\ id_generator = 1 /\ p \in Posts /\ Typed' /\ Control' /\ Phase' /\ Fresh'
      /\ Joining' /\ Known' /\ \A v \in Threads : Ending(v) => Ending(v)'
      /\ Port(0 - I(p, {"EXIT"}), 0 - I(p, UsePosts), 0 - I(p, {"RELEASE_PEND"}),
              0 - I(p, {"RECV"}), 0 - I(p, {"SEND"}), 0 - I(p, {"SEND_PEND"}),
              0 - I(p, {"RECV0"}))
      /\ Len(m_hcp') = Len(m_hcp) + -1
      /\ \A F : p \in F => In(F, m_hcp) > 0
      /\ Stacks(In({"update"}, <<"try_send", "update">>), In(Using, <<"try_send", "update">>),
                In({"rel_post", "release"}, <<"try_send", "update">>),
                In({"clean"}, <<"try_send", "update">>),
                In(Receiving, <<"try_send", "update">>), In({"sp_size"}, <<"try_send", "update">>),
                In({"try_send"}, <<"try_send", "update">>), In({"sent"}, <<"try_send", "update">>))
  <2>1. <<"try_send", "update">> \in Seq(Functions \ Calls)
    <3>1. "try_send" \in Functions \ Calls /\ "update" \in Functions \ Calls
      BY DEF Functions, Calls
    <3>2. QED
      BY <3>1
  <2>2. Proper(t, <<"try_send", "update">>)
    <3>1. /\ Head(<<"try_send", "update">>) = "try_send"
          /\ Tail(<<"try_send", "update">>) = <<"update">>
      OBVIOUS
    <3>2. t # Main
      BY LanThreads
    <3>3. QED
      BY <3>1, <3>2 DEF Proper, Returns, WorkerReturns
  <2>3. QED
    BY <1>1, <2>1, <2>2, TakesPacket
<1>3. Stacks(1, 1, 0, 0, 0, 0, 1, 0)
  <2>1. /\ In({"update"}, <<"try_send", "update">>) = 1 /\ In(Using, <<"try_send", "update">>) = 1
        /\ In({"rel_post", "release"}, <<"try_send", "update">>) = 0
        /\ In({"clean"}, <<"try_send", "update">>) = 0
        /\ In(Receiving, <<"try_send", "update">>) = 0
        /\ In({"sp_size"}, <<"try_send", "update">>) = 0
        /\ In({"try_send"}, <<"try_send", "update">>) = 1
        /\ In({"sent"}, <<"try_send", "update">>) = 0
    <3>1. /\ I("try_send", {"update"}) = 0 /\ I("try_send", Using) = 1
          /\ I("try_send", {"rel_post", "release"}) = 0
        /\ I("try_send", {"clean"}) = 0 /\ I("try_send", Receiving) = 0
        /\ I("try_send", {"sp_size"}) = 0
        /\ I("try_send", {"try_send"}) = 1 /\ I("try_send", {"sent"}) = 0
        /\ I("update", {"update"}) = 1 /\ I("update", Using) = 0
        /\ I("update", {"rel_post", "release"}) = 0
        /\ I("update", {"clean"}) = 0 /\ I("update", Receiving) = 0 /\ I("update", {"sp_size"}) = 0
        /\ I("update", {"try_send"}) = 0 /\ I("update", {"sent"}) = 0
      BY DEF I, Using, Receiving
    <3>2. QED
      BY <3>1, InTwo
  <2>2. QED
    BY <1>2, <2>1
<1>4. Port(0, -1, 0, 0, 0, -1, 0)
  <2>1. /\ I(p, {"EXIT"}) = 0 /\ I(p, UsePosts) = 1 /\ I(p, {"RELEASE_PEND"}) = 0
        /\ I(p, {"RECV"}) = 0 /\ I(p, {"SEND"}) = 0 /\ I(p, {"SEND_PEND"}) = 1
        /\ I(p, {"RECV0"}) = 0
    BY <1>1 DEF I, UsePosts
  <2>2. 0 - 0 = 0 /\ 0 - 1 = -1
    OBVIOUS
  <2>3. QED
    BY <1>2, <2>1, <2>2
<1>5. m_releaseFlag = 0
  <2>1. In(UsePosts, m_hcp) > 0
    <3>1. p \in UsePosts
      BY <1>1 DEF UsePosts
    <3>2. QED
      BY <1>2, <3>1
  <2>2. QED
    BY <1>2, <2>1 DEF IInv, ClosedIdle, Typed
<1>6. m_sentPacket = <<>>
  <2>1. In({"SEND_PEND"}, m_hcp) > 0
    <3>1. p \in {"SEND_PEND"}
      BY <1>1
    <3>2. QED
      BY <1>2, <3>1
  <2>2. QED
    BY <1>2, <2>1 DEF IInv, SentEmpty
<1>7. -1 \in Int /\ 0 \in Int /\ 1 \in Int
  OBVIOUS
<1>8. 0 + 0 = 0 /\ 0 + 0 <= 0 /\ 1 + 0 + -1 <= 0 /\ -1 <= 0
      /\ 0 + 0 <= 0 /\ 0 + 0 + 0 = 0
  OBVIOUS
<1>9. UNCHANGED <<switches, m_disconnect, counts, sending, ids, posted, id, packets, events>>
  BY <1>1 DEF Taking
<1>10. (m_releaseFlag = 1 => 1 = 0 /\ -1 = 0) /\ (1 > 0 => m_sentPacket = <<>>)
  BY <1>5, <1>6
<1>11. QED
  BY <1>2, <1>3, <1>4, <1>7, <1>8, <1>9, <1>10, TakeStep

\* A worker takes RELEASE_PEND.
LEMMA KeepsTakeReleasePend ==
    ASSUME IInv, NEW t \in Workers, GetPacket(t), Head(m_hcp) = "RELEASE_PEND" PROVE IInv'
<1>1. PICK p : p = "RELEASE_PEND" /\ Taking(t, p, <<"release", "update">>)
  BY TakingOf
<1>2. /\ id_generator = 1 /\ p \in Posts /\ Typed' /\ Control' /\ Phase' /\ Fresh'
      /\ Joining' /\ Known' /\ \A v \in Threads : Ending(v) => Ending(v)'
      /\ Port(0 - I(p, {"EXIT"}), 0 - I(p, UsePosts), 0 - I(p, {"RELEASE_PEND"}),
              0 - I(p, {"RECV"}), 0 - I(p, {"SEND"}), 0 - I(p, {"SEND_PEND"}),
              0 - I(p, {"RECV0"}))
      /\ Len(m_hcp') = Len(m_hcp) + -1
      /\ \A F : p \in F => In(F, m_hcp) > 0
      /\ Stacks(In({"update"}, <<"release", "update">>), In(Using, <<"release", "update">>),
                In({"rel_post", "release"}, <<"release", "update">>),
                In({"clean"}, <<"release", "update">>),
                In(Receiving, <<"release", "update">>), In({"sp_size"}, <<"release", "update">>),
                In({"try_send"}, <<"release", "update">>), In({"sent"}, <<"release", "update">>))
  <2>1. <<"release", "update">> \in Seq(Functions \ Calls)
    <3>1. "release" \in Functions \ Calls /\ "update" \in Functions \ Calls
      BY DEF Functions, Calls
    <3>2. QED
      BY <3>1
  <2>2. Proper(t, <<"release", "update">>)
    <3>1. Head(<<"release", "update">>) = "release" /\ Tail(<<"release", "update">>) = <<"update">>
      OBVIOUS
    <3>2. t # Main
      BY LanThreads
    <3>3. QED
      BY <3>1, <3>2 DEF Proper, Returns, WorkerReturns
  <2>3. QED
    BY <1>1, <2>1, <2>2, TakesPacket
<1>3. Stacks(1, 0, 1, 0, 0, 0, 0, 0)
  <2>1. /\ In({"update"}, <<"release", "update">>) = 1 /\ In(Using, <<"release", "update">>) = 0
        /\ In({"rel_post", "release"}, <<"release", "update">>) = 1
        /\ In({"clean"}, <<"release", "update">>) = 0
        /\ In(Receiving, <<"release", "update">>) = 0
        /\ In({"sp_size"}, <<"release", "update">>) = 0
        /\ In({"try_send"}, <<"release", "update">>) = 0
        /\ In({"sent"}, <<"release", "update">>) = 0
    <3>1. /\ I("release", {"update"}) = 0 /\ I("release", Using) = 0
          /\ I("release", {"rel_post", "release"}) = 1
        /\ I("release", {"clean"}) = 0 /\ I("release", Receiving) = 0
        /\ I("release", {"sp_size"}) = 0
        /\ I("release", {"try_send"}) = 0 /\ I("release", {"sent"}) = 0
        /\ I("update", {"update"}) = 1 /\ I("update", Using) = 0
        /\ I("update", {"rel_post", "release"}) = 0
        /\ I("update", {"clean"}) = 0 /\ I("update", Receiving) = 0 /\ I("update", {"sp_size"}) = 0
        /\ I("update", {"try_send"}) = 0 /\ I("update", {"sent"}) = 0
      BY DEF I, Using, Receiving
    <3>2. QED
      BY <3>1, InTwo
  <2>2. QED
    BY <1>2, <2>1
<1>4. Port(0, 0, -1, 0, 0, 0, 0)
  <2>1. /\ I(p, {"EXIT"}) = 0 /\ I(p, UsePosts) = 0 /\ I(p, {"RELEASE_PEND"}) = 1
        /\ I(p, {"RECV"}) = 0 /\ I(p, {"SEND"}) = 0 /\ I(p, {"SEND_PEND"}) = 0
        /\ I(p, {"RECV0"}) = 0
    BY <1>1 DEF I, UsePosts
  <2>2. 0 - 0 = 0 /\ 0 - 1 = -1
    OBVIOUS
  <2>3. QED
    BY <1>2, <2>1, <2>2
<1>5. 0 = 0 /\ 0 = 0
  OBVIOUS
<1>6. ~(0 > 0)
  OBVIOUS
<1>7. -1 \in Int /\ 0 \in Int /\ 1 \in Int
  OBVIOUS
<1>8. 1 + -1 = 0 /\ 0 + 0 <= 0 /\ 0 + 0 + 0 <= 0 /\ 0 <= 0
      /\ 0 + 0 <= 0 /\ 0 + 0 + 0 = 0
  OBVIOUS
<1>9. UNCHANGED <<switches, m_disconnect, counts, sending, ids, posted, id, packets, events>>
  BY <1>1 DEF Taking
<1>10. (m_releaseFlag = 1 => 0 = 0 /\ 0 = 0) /\ (0 > 0 => m_sentPacket = <<>>)
  BY <1>5, <1>6
<1>11. QED
  BY <1>2, <1>3, <1>4, <1>7, <1>8, <1>9, <1>10, TakeStep

\* A worker takes CANCEL_IO.
LEMMA KeepsTakeCancelIo ==
    ASSUME IInv, NEW t \in Workers, GetPacket(t), Head(m_hcp) = "CANCEL_IO" PROVE IInv'
<1>1. PICK p : p = "CANCEL_IO" /\ Taking(t, p, <<"cancel", "update">>)
  BY TakingOf
<1>2. /\ id_generator = 1 /\ p \in Posts /\ Typed' /\ Control' /\ Phase' /\ Fresh'
      /\ Joining' /\ Known' /\ \A v \in Threads : Ending(v) => Ending(v)'
      /\ Port(0 - I(p, {"EXIT"}), 0 - I(p, UsePosts), 0 - I(p, {"RELEASE_PEND"}),
              0 - I(p, {"RECV"}), 0 - I(p, {"SEND"}), 0 - I(p, {"SEND_PEND"}),
              0 - I(p, {"RECV0"}))
      /\ Len(m_hcp') = Len(m_hcp) + -1
      /\ \A F : p \in F => In(F, m_hcp) > 0
      /\ Stacks(In({"update"}, <<"cancel", "update">>), In(Using, <<"cancel", "update">>),
                In({"rel_post", "release"}, <<"cancel", "update">>),
                In({"clean"}, <<"cancel", "update">>),
                In(Receiving, <<"cancel", "update">>), In({"sp_size"}, <<"cancel", "update">>),
                In({"try_send"}, <<"cancel", "update">>), In({"sent"}, <<"cancel", "update">>))
  <2>1. <<"cancel", "update">> \in Seq(Functions \ Calls)
    <3>1. "cancel" \in Functions \ Calls /\ "update" \in Functions \ Calls
      BY DEF Functions, Calls
    <3>2. QED
      BY <3>1
  <2>2. Proper(t, <<"cancel", "update">>)
    <3>1. Head(<<"cancel", "update">>) = "cancel" /\ Tail(<<"cancel", "update">>) = <<"update">>
      OBVIOUS
    <3>2. t # Main
      BY LanThreads
    <3>3. QED
      BY <3>1, <3>2 DEF Proper, Returns, WorkerReturns
  <2>3. QED
    BY <1>1, <2>1, <2>2, TakesPacket
<1>3. Stacks(1, 0, 0, 0, 0, 0, 0, 0)
  <2>1. /\ In({"update"}, <<"cancel", "update">>) = 1 /\ In(Using, <<"cancel", "update">>) = 0
        /\ In({"rel_post", "release"}, <<"cancel", "update">>) = 0
        /\ In({"clean"}, <<"cancel", "update">>) = 0
        /\ In(Receiving, <<"cancel", "update">>) = 0 /\ In({"sp_size"}, <<"cancel", "update">>) = 0
        /\ In({"try_send"}, <<"cancel", "update">>) = 0 /\ In({"sent"}, <<"cancel", "update">>) = 0
    <3>1. /\ I("cancel", {"update"}) = 0 /\ I("cancel", Using) = 0
          /\ I("cancel", {"rel_post", "release"}) = 0
        /\ I("cancel", {"clean"}) = 0 /\ I("cancel", Receiving) = 0 /\ I("cancel", {"sp_size"}) = 0
        /\ I("cancel", {"try_send"}) = 0 /\ I("cancel", {"sent"}) = 0
        /\ I("update", {"update"}) = 1 /\ I("update", Using) = 0
        /\ I("update", {"rel_post", "release"}) = 0
        /\ I("update", {"clean"}) = 0 /\ I("update", Receiving) = 0 /\ I("update", {"sp_size"}) = 0
        /\ I("update", {"try_send"}) = 0 /\ I("update", {"sent"}) = 0
      BY DEF I, Using, Receiving
    <3>2. QED
      BY <3>1, InTwo
  <2>2. QED
    BY <1>2, <2>1
<1>4. Port(0, 0, 0, 0, 0, 0, 0)
  <2>1. /\ I(p, {"EXIT"}) = 0 /\ I(p, UsePosts) = 0 /\ I(p, {"RELEASE_PEND"}) = 0
        /\ I(p, {"RECV"}) = 0 /\ I(p, {"SEND"}) = 0 /\ I(p, {"SEND_PEND"}) = 0
        /\ I(p, {"RECV0"}) = 0
    BY <1>1 DEF I, UsePosts
  <2>2. 0 - 0 = 0 /\ 0 - 1 = -1
    OBVIOUS
  <2>3. QED
    BY <1>2, <2>1, <2>2
<1>5. 0 = 0 /\ 0 = 0
  OBVIOUS
<1>6. ~(0 > 0)
  OBVIOUS
<1>7. 0 \in Int /\ 1 \in Int
  OBVIOUS
<1>8. 0 + 0 = 0 /\ 0 + 0 <= 0 /\ 0 + 0 + 0 <= 0 /\ 0 <= 0
      /\ 0 + 0 <= 0 /\ 0 + 0 + 0 = 0
  OBVIOUS
<1>9. UNCHANGED <<switches, m_disconnect, counts, sending, ids, posted, id, packets, events>>
  BY <1>1 DEF Taking
<1>10. (m_releaseFlag = 1 => 0 = 0 /\ 0 = 0) /\ (0 > 0 => m_sentPacket = <<>>)
  BY <1>5, <1>6
<1>11. QED
  BY <1>2, <1>3, <1>4, <1>7, <1>8, <1>9, <1>10, TakeStep

\* A worker takes a completed receive.
LEMMA KeepsTakeRecv ==
    ASSUME IInv, NEW t \in Workers, GetPacket(t), Head(m_hcp) = "RECV", m_disconnect = 0 PROVE IInv'
<1>1. PICK p : p = "RECV" /\ Taking(t, p, <<"parse", "recv_check", "update">>)
  BY TakingOf
<1>2. /\ id_generator = 1 /\ p \in Posts /\ Typed' /\ Control' /\ Phase' /\ Fresh'
      /\ Joining' /\ Known' /\ \A v \in Threads : Ending(v) => Ending(v)'
      /\ Port(0 - I(p, {"EXIT"}), 0 - I(p, UsePosts), 0 - I(p, {"RELEASE_PEND"}),
              0 - I(p, {"RECV"}), 0 - I(p, {"SEND"}), 0 - I(p, {"SEND_PEND"}),
              0 - I(p, {"RECV0"}))
      /\ Len(m_hcp') = Len(m_hcp) + -1
      /\ \A F : p \in F => In(F, m_hcp) > 0
      /\ Stacks(In({"update"}, <<"parse", "recv_check", "update">>),
                In(Using, <<"parse", "recv_check", "update">>),
                In({"rel_post", "release"}, <<"parse", "recv_check", "update">>),
                In({"clean"}, <<"parse", "recv_check", "update">>),
                In(Receiving, <<"parse", "recv_check", "update">>),
                In({"sp_size"}, <<"parse", "recv_check", "update">>),
                In({"try_send"}, <<"parse", "recv_check", "update">>),
                In({"sent"}, <<"parse", "recv_check", "update">>))
  <2>1. <<"parse", "recv_check", "update">> \in Seq(Functions \ Calls)
    <3>1. /\ "parse" \in Functions \ Calls /\ "recv_check" \in Functions \ Calls
          /\ "update" \in Functions \ Calls
      BY DEF Functions, Calls
    <3>2. QED
      BY <3>1
  <2>2. Proper(t, <<"parse", "recv_check", "update">>)
    <3>1. /\ Head(<<"parse", "recv_check", "update">>) = "parse"
          /\ Tail(<<"parse", "recv_check", "update">>) = <<"recv_check", "update">>
      OBVIOUS
    <3>2. t # Main
      BY LanThreads
    <3>3. QED
      BY <3>1, <3>2 DEF Proper, Returns, WorkerReturns
  <2>3. QED
    BY <1>1, <2>1, <2>2, TakesPacket
<1>3. Stacks(1, 2, 0, 0, 1, 0, 0, 0)
  <2>1. /\ In({"update"}, <<"parse", "recv_check", "update">>) = 1
        /\ In(Using, <<"parse", "recv_check", "update">>) = 2
        /\ In({"rel_post", "release"}, <<"parse", "recv_check", "update">>) = 0
        /\ In({"clean"}, <<"parse", "recv_check", "update">>) = 0
        /\ In(Receiving, <<"parse", "recv_check", "update">>) = 1
        /\ In({"sp_size"}, <<"parse", "recv_check", "update">>) = 0
        /\ In({"try_send"}, <<"parse", "recv_check", "update">>) = 0
        /\ In({"sent"}, <<"parse", "recv_check", "update">>) = 0
    <3>1. /\ I("parse", {"update"}) = 0 /\ I("parse", Using) = 1
          /\ I("parse", {"rel_post", "release"}) = 0
        /\ I("parse", {"clean"}) = 0 /\ I("parse", Receiving) = 0 /\ I("parse", {"sp_size"}) = 0
        /\ I("parse", {"try_send"}) = 0 /\ I("parse", {"sent"}) = 0
        /\ I("recv_check", {"update"}) = 0 /\ I("recv_check", Using) = 1
        /\ I("recv_check", {"rel_post", "release"}) = 0
        /\ I("recv_check", {"clean"}) = 0 /\ I("recv_check", Receiving) = 1
        /\ I("recv_check", {"sp_size"}) = 0
        /\ I("recv_check", {"try_send"}) = 0 /\ I("recv_check", {"sent"}) = 0
        /\ I("update", {"update"}) = 1 /\ I("update", Using) = 0
        /\ I("update", {"rel_post", "release"}) = 0
        /\ I("update", {"clean"}) = 0 /\ I("update", Receiving) = 0 /\ I("update", {"sp_size"}) = 0
        /\ I("update", {"try_send"}) = 0 /\ I("update", {"sent"}) = 0
      BY DEF I, Using, Receiving
    <3>2. QED
      BY <3>1, InThree
  <2>2. QED
    BY <1>2, <2>1
<1>4. Port(0, -1, 0, -1, 0, 0, 0)
  <2>1. /\ I(p, {"EXIT"}) = 0 /\ I(p, UsePosts) = 1 /\ I(p, {"RELEASE_PEND"}) = 0
        /\ I(p, {"RECV"}) = 1 /\ I(p, {"SEND"}) = 0 /\ I(p, {"SEND_PEND"}) = 0
        /\ I(p, {"RECV0"}) = 0
    BY <1>1 DEF I, UsePosts
  <2>2. 0 - 0 = 0 /\ 0 - 1 = -1
    OBVIOUS
  <2>3. QED
    BY <1>2, <2>1, <2>2
<1>5. m_releaseFlag = 0
  <2>1. In(UsePosts, m_hcp) > 0
    <3>1. p \in UsePosts
      BY <1>1 DEF UsePosts
    <3>2. QED
      BY <1>2, <3>1
  <2>2. QED
    BY <1>2, <2>1 DEF IInv, ClosedIdle, Typed
<1>6. ~(0 > 0)
  OBVIOUS
<1>7. -1 \in Int /\ 0 \in Int /\ 1 \in Int /\ 2 \in Int
  OBVIOUS
<1>8. 0 + 0 = 0 /\ 1 + -1 <= 0 /\ 0 + 0 + 0 <= 0 /\ 0 <= 0
      /\ 0 + 0 <= 0 /\ 1 + -1 + 0 = 0
  OBVIOUS
<1>9. UNCHANGED <<switches, m_disconnect, counts, sending, ids, posted, id, packets, events>>
  BY <1>1 DEF Taking
<1>10. (m_releaseFlag = 1 => 2 = 0 /\ -1 = 0) /\ (0 > 0 => m_sentPacket = <<>>)
  BY <1>5, <1>6
<1>11. QED
  BY <1>2, <1>3, <1>4, <1>7, <1>8, <1>9, <1>10, TakeStep

\* A worker takes a completed send.
LEMMA KeepsTakeSend ==
    ASSUME IInv, NEW t \in Workers, GetPacket(t), Head(m_hcp) = "SEND", m_disconnect = 0 PROVE IInv'
<1>1. PICK p : p = "SEND" /\ Taking(t, p, <<"sent", "try_send", "update">>)
  BY TakingOf
<1>2. /\ id_generator = 1 /\ p \in Posts /\ Typed' /\ Control' /\ Phase' /\ Fresh'
      /\ Joining' /\ Known' /\ \A v \in Threads : Ending(v) => Ending(v)'
      /\ Port(0 - I(p, {"EXIT"}), 0 - I(p, UsePosts), 0 - I(p, {"RELEASE_PEND"}),
              0 - I(p, {"RECV"}), 0 - I(p, {"SEND"}), 0 - I(p, {"SEND_PEND"}),
              0 - I(p, {"RECV0"}))
      /\ Len(m_hcp') = Len(m_hcp) + -1
      /\ \A F : p \in F => In(F, m_hcp) > 0
      /\ Stacks(In({"update"}, <<"sent", "try_send", "update">>),
                In(Using, <<"sent", "try_send", "update">>),
                In({"rel_post", "release"}, <<"sent", "try_send", "update">>),
                In({"clean"}, <<"sent", "try_send", "update">>),
                In(Receiving, <<"sent", "try_send", "update">>),
                In({"sp_size"}, <<"sent", "try_send", "update">>),
                In({"try_send"}, <<"sent", "try_send", "update">>),
                In({"sent"}, <<"sent", "try_send", "update">>))
  <2>1. <<"sent", "try_send", "update">> \in Seq(Functions \ Calls)
    <3>1. /\ "sent" \in Functions \ Calls /\ "try_send" \in Functions \ Calls
          /\ "update" \in Functions \ Calls
      BY DEF Functions, Calls
    <3>2. QED
      BY <3>1
  <2>2. Proper(t, <<"sent", "try_send", "update">>)
    <3>1. /\ Head(<<"sent", "try_send", "update">>) = "sent"
          /\ Tail(<<"sent", "try_send", "update">>) = <<"try_send", "update">>
      OBVIOUS
    <3>2. t # Main
      BY LanThreads
    <3>3. QED
      BY <3>1, <3>2 DEF Proper, Returns, WorkerReturns
  <2>3. QED
    BY <1>1, <2>1, <2>2, TakesPacket
<1>3. Stacks(1, 2, 0, 0, 0, 0, 1, 1)
  <2>1. /\ In({"update"}, <<"sent", "try_send", "update">>) = 1
        /\ In(Using, <<"sent", "try_send", "update">>) = 2
        /\ In({"rel_post", "release"}, <<"sent", "try_send", "update">>) = 0
        /\ In({"clean"}, <<"sent", "try_send", "update">>) = 0
        /\ In(Receiving, <<"sent", "try_send", "update">>) = 0
        /\ In({"sp_size"}, <<"sent", "try_send", "update">>) = 0
        /\ In({"try_send"}, <<"sent", "try_send", "update">>) = 1
        /\ In({"sent"}, <<"sent", "try_send", "update">>) = 1
    <3>1. /\ I("sent", {"update"}) = 0 /\ I("sent", Using) = 1
          /\ I("sent", {"rel_post", "release"}) = 0
        /\ I("sent", {"clean"}) = 0 /\ I("sent", Receiving) = 0 /\ I("sent", {"sp_size"}) = 0
        /\ I("sent", {"try_send"}) = 0 /\ I("sent", {"sent"}) = 1
        /\ I("try_send", {"update"}) = 0 /\ I("try_send", Using) = 1
        /\ I("try_send", {"rel_post", "release"}) = 0
        /\ I("try_send", {"clean"}) = 0 /\ I("try_send", Receiving) = 0
        /\ I("try_send", {"sp_size"}) = 0
        /\ I("try_send", {"try_send"}) = 1 /\ I("try_send", {"sent"}) = 0
        /\ I("update", {"update"}) = 1 /\ I("update", Using) = 0
        /\ I("update", {"rel_post", "release"}) = 0
        /\ I("update", {"clean"}) = 0 /\ I("update", Receiving) = 0 /\ I("update", {"sp_size"}) = 0
        /\ I("update", {"try_send"}) = 0 /\ I("update", {"sent"}) = 0
      BY DEF I, Using, Receiving
    <3>2. QED
      BY <3>1, InThree
  <2>2. QED
    BY <1>2, <2>1
<1>4. Port(0, -1, 0, 0, -1, 0, 0)
  <2>1. /\ I(p, {"EXIT"}) = 0 /\ I(p, UsePosts) = 1 /\ I(p, {"RELEASE_PEND"}) = 0
        /\ I(p, {"RECV"}) = 0 /\ I(p, {"SEND"}) = 1 /\ I(p, {"SEND_PEND"}) = 0
        /\ I(p, {"RECV0"}) = 0
    BY <1>1 DEF I, UsePosts
  <2>2. 0 - 0 = 0 /\ 0 - 1 = -1
    OBVIOUS
  <2>3. QED
    BY <1>2, <2>1, <2>2
<1>5. m_releaseFlag = 0
  <2>1. In(UsePosts, m_hcp) > 0
    <3>1. p \in UsePosts
      BY <1>1 DEF UsePosts
    <3>2. QED
      BY <1>2, <3>1
  <2>2. QED
    BY <1>2, <2>1 DEF IInv, ClosedIdle, Typed
<1>6. ~(1 > 1)
  OBVIOUS
<1>7. -1 \in Int /\ 0 \in Int /\ 1 \in Int /\ 2 \in Int
  OBVIOUS
<1>8. 0 + 0 = 0 /\ 0 + 0 <= 0 /\ 1 + -1 + 0 <= 0 /\ 0 <= 0
      /\ -1 + 1 <= 0 /\ 0 + 0 + 0 = 0
  OBVIOUS
<1>9. UNCHANGED <<switches, m_disconnect, counts, sending, ids, posted, id, packets, events>>
  BY <1>1 DEF Taking
<1>10. (m_releaseFlag = 1 => 2 = 0 /\ -1 = 0) /\ (1 > 1 => m_sentPacket = <<>>)
  BY <1>5, <1>6
<1>11. QED
  BY <1>2, <1>3, <1>4, <1>7, <1>8, <1>9, <1>10, TakeStep

\* A packet that shows the connection to be broken, or comes after its end.
LEMMA KeepsTakeBroken ==
    ASSUME IInv, NEW t \in Workers, GetPacket(t),
           Head(m_hcp) \notin {"EXIT", "SEND_PEND", "RELEASE_PEND", "CANCEL_IO"},
           ~(Head(m_hcp) \in {"RECV", "SEND"} /\ m_disconnect = 0)
    PROVE  IInv'
<1>1. PICK p : /\ p = Head(m_hcp) /\ Taking(t, p, <<"disconnect", "update">>)
               /\ p \notin {"EXIT", "SEND_PEND", "RELEASE_PEND", "CANCEL_IO"}
               /\ ~(p \in {"RECV", "SEND"} /\ m_disconnect = 0)
  <2>1. PICK p : p = Head(m_hcp)
    OBVIOUS
  <2>2. p # "EXIT" /\ p \notin {"SEND_PEND", "RELEASE_PEND", "CANCEL_IO"}
        /\ ~(p \in {"RECV", "SEND"} /\ m_disconnect = 0)
    BY <2>1
  <2>3. Taking(t, p, <<"disconnect", "update">>)
    BY <2>1, <2>2, TakingOf
  <2>4. QED
    BY <2>1, <2>2, <2>3
<1>2. /\ id_generator = 1 /\ p \in Posts /\ Typed' /\ Control' /\ Phase' /\ Fresh'
      /\ Joining' /\ Known' /\ \A v \in Threads : Ending(v) => Ending(v)'
      /\ Port(0 - I(p, {"EXIT"}), 0 - I(p, UsePosts), 0 - I(p, {"RELEASE_PEND"}),
              0 - I(p, {"RECV"}), 0 - I(p, {"SEND"}), 0 - I(p, {"SEND_PEND"}),
              0 - I(p, {"RECV0"}))
      /\ Len(m_hcp') = Len(m_hcp) + -1
      /\ \A F : p \in F => In(F, m_hcp) > 0
      /\ Stacks(In({"update"}, <<"disconnect", "update">>), In(Using, <<"disconnect", "update">>),
                In({"rel_post", "release"}, <<"disconnect", "update">>),
                In({"clean"}, <<"disconnect", "update">>),
                In(Receiving, <<"disconnect", "update">>),
                In({"sp_size"}, <<"disconnect", "update">>),
                In({"try_send"}, <<"disconnect", "update">>),
                In({"sent"}, <<"disconnect", "update">>))
      /\ pc'[t] = <<"disconnect", "update">> /\ t \in Threads
  <2>1. <<"disconnect", "update">> \in Seq(Functions \ Calls)
    <3>1. "disconnect" \in Functions \ Calls /\ "update" \in Functions \ Calls
      BY DEF Functions, Calls
    <3>2. QED
      BY <3>1
  <2>2. Proper(t, <<"disconnect", "update">>)
    <3>1. /\ Head(<<"disconnect", "update">>) = "disconnect"
          /\ Tail(<<"disconnect", "update">>) = <<"update">>
      OBVIOUS
    <3>2. t # Main
      BY LanThreads
    <3>3. QED
      BY <3>1, <3>2 DEF Proper, Returns, WorkerReturns
  <2>3. QED
    BY <1>1, <2>1, <2>2, TakesPacket
<1>3. Stacks(1, 0, 0, 0, 0, 0, 0, 0) /\ Ending(t)'
  <2>1. /\ \A F : In(F, <<"disconnect", "update">>) = I("disconnect", F) + I("update", F)
    BY InTwo
  <2>2. /\ I("disconnect", {"update"}) = 0 /\ I("disconnect", Using) = 0
        /\ I("disconnect", {"rel_post", "release"}) = 0 /\ I("disconnect", {"clean"}) = 0
        /\ I("disconnect", Receiving) = 0 /\ I("disconnect", {"sp_size"}) = 0
        /\ I("disconnect", {"try_send"}) = 0 /\ I("disconnect", {"sent"}) = 0
        /\ I("disconnect", {"disconnect"}) = 1 /\ I("update", {"disconnect"}) = 0
        /\ I("update", {"update"}) = 1 /\ I("update", Using) = 0
        /\ I("update", {"rel_post", "release"}) = 0 /\ I("update", {"clean"}) = 0
        /\ I("update", Receiving) = 0 /\ I("update", {"sp_size"}) = 0
        /\ I("update", {"try_send"}) = 0 /\ I("update", {"sent"}) = 0
    BY DEF I, Using, Receiving
  <2>3. /\ In({"update"}, <<"disconnect", "update">>) = 1
        /\ In(Using, <<"disconnect", "update">>) = 0
        /\ In({"rel_post", "release"}, <<"disconnect", "update">>) = 0
        /\ In({"clean"}, <<"disconnect", "update">>) = 0
        /\ In(Receiving, <<"disconnect", "update">>) = 0
        /\ In({"sp_size"}, <<"disconnect", "update">>) = 0
        /\ In({"try_send"}, <<"disconnect", "update">>) = 0
        /\ In({"sent"}, <<"disconnect", "update">>) = 0
        /\ In({"disconnect"}, <<"disconnect", "update">>) = 1
    BY <2>1, <2>2
  <2>4. Ending(t)'
    BY <1>2, <2>3 DEF Ending
  <2>5. QED
    BY <1>2, <2>3, <2>4
<1>4. PICK r \in {0, 1}, s \in {0, 1}, a \in {0, 1} : Port(0, -1, 0, 0 - r, 0 - s, 0, 0 - a)
  <2>1. p \in {"RECV", "RECV0", "SEND", "SEND0"}
    BY <1>1, <1>2 DEF Posts
  <2>2. /\ I(p, {"EXIT"}) = 0 /\ I(p, UsePosts) = 1 /\ I(p, {"RELEASE_PEND"}) = 0
        /\ I(p, {"SEND_PEND"}) = 0
        /\ I(p, {"RECV"}) \in {0, 1} /\ I(p, {"SEND"}) \in {0, 1} /\ I(p, {"RECV0"}) \in {0, 1}
    BY <2>1 DEF I, UsePosts
  <2>3. 0 - 0 = 0 /\ 0 - 1 = -1
    OBVIOUS
  <2>4. Port(0, -1, 0, 0 - I(p, {"RECV"}), 0 - I(p, {"SEND"}), 0, 0 - I(p, {"RECV0"}))
    BY <1>2, <2>2, <2>3
  <2>5. QED
    BY <2>2, <2>4
<1>5. m_releaseFlag = 0
  <2>1. p \in UsePosts
    BY <1>1, <1>2 DEF Posts, UsePosts
  <2>2. In(UsePosts, m_hcp) > 0
    BY <1>2, <2>1
  <2>3. QED
    BY <1>2, <2>2 DEF IInv, ClosedIdle, Typed
<1>6. PICK rr \in Int, ss \in Int, aa \in Int :
        rr = 0 - r /\ ss = 0 - s /\ aa = 0 - a /\ rr <= 0 /\ ss <= 0
  OBVIOUS
<1>7. Port(0, -1, 0, rr, ss, 0, aa)
  BY <1>4, <1>6
<1>8. 0 \in Int /\ -1 \in Int
  OBVIOUS
<1>9. 0 + 0 = 0 /\ 0 + rr <= 0 /\ 0 + ss + 0 <= 0 /\ 0 <= 0 /\ ss + 0 <= 0 /\ ~(0 > 0)
  BY <1>6
<1>10. UNCHANGED <<switches, m_disconnect, counts, sending, ids, posted, id, packets, events>>
  BY <1>1 DEF Taking
<1>11. m_releaseFlag = 1 => 0 = 0 /\ -1 = 0
  BY <1>5
<1>12. \E v \in Threads : Ending(v)'
  BY <1>2, <1>3
<1>13. QED
  BY <1>2, <1>3, <1>7, <1>8, <1>9, <1>10, <1>11, <1>12, TakeStep

\* A worker takes any packet.
LEMMA KeepsGetPacket == ASSUME IInv, NEW t \in Workers, GetPacket(t) PROVE IInv'
<1>1. CASE Head(m_hcp) = "EXIT"
  BY <1>1, KeepsExit
<1>2. CASE Head(m_hcp) = "SEND_PEND"
  BY <1>2, KeepsTakeSendPend
<1>3. CASE Head(m_hcp) = "RELEASE_PEND"
  BY <1>3, KeepsTakeReleasePend
<1>4. CASE Head(m_hcp) = "CANCEL_IO"
  BY <1>4, KeepsTakeCancelIo
<1>5. CASE Head(m_hcp) = "RECV" /\ m_disconnect = 0
  BY <1>5, KeepsTakeRecv
<1>6. CASE Head(m_hcp) = "SEND" /\ m_disconnect = 0
  BY <1>6, KeepsTakeSend
<1>7. CASE /\ Head(m_hcp) \notin {"EXIT", "SEND_PEND", "RELEASE_PEND", "CANCEL_IO"}
           /\ ~(Head(m_hcp) \in {"RECV", "SEND"} /\ m_disconnect = 0)
  BY <1>7, KeepsTakeBroken
<1>8. QED
  BY <1>1, <1>2, <1>3, <1>4, <1>5, <1>6, <1>7
-----------------------------------------------------------------------------
(* A connection begins *)

\* Nothing of the session is in use before the first connection.
LEMMA FreshSums ==
    ASSUME IInv, id_generator = 0
    PROVE  RecvTokens = 0 /\ SendTokens = 0 /\ Releasing = 0 /\ Cleaning = 0 /\ Sending = 0
<1>1. /\ posted = {} /\ In(Posts \ {"EXIT"}, m_hcp) = 0 /\ Total(Functions \ Outside, pc) = 0
      /\ pc \in [Threads -> Seq(Functions)] /\ m_hcp \in Seq(Posts)
  BY DEF IInv, Fresh, Typed
<1>2. \A F : F \subseteq Functions \ Outside => Total(F, pc) = 0
  <2>1. ASSUME NEW F, F \subseteq Functions \ Outside PROVE Total(F, pc) = 0
    <3>1. Total(F, pc) \in Nat /\ Total(F, pc) <= Total(Functions \ Outside, pc)
      BY <1>1, <2>1, TotalMore
    <3>2. QED
      BY <1>1, <3>1
  <2>2. QED
    BY <2>1
<1>3. \A F : F \subseteq Posts \ {"EXIT"} => In(F, m_hcp) = 0
  <2>1. ASSUME NEW F, F \subseteq Posts \ {"EXIT"} PROVE In(F, m_hcp) = 0
    <3>1. In(F, m_hcp) \in Nat /\ In(F, m_hcp) <= In(Posts \ {"EXIT"}, m_hcp)
      BY <1>1, <2>1, InMore
    <3>2. QED
      BY <1>1, <3>1
  <2>2. QED
    BY <2>1
<1>4. /\ Receiving \subseteq Functions \ Outside /\ {"sp_size"} \subseteq Functions \ Outside
      /\ {"try_send"} \subseteq Functions \ Outside /\ {"sent"} \subseteq Functions \ Outside
      /\ {"rel_post", "release"} \subseteq Functions \ Outside
      /\ {"clean"} \subseteq Functions \ Outside
  BY DEF Receiving, Functions, Outside
<1>5. /\ {"RECV"} \subseteq Posts \ {"EXIT"} /\ {"SEND"} \subseteq Posts \ {"EXIT"}
      /\ {"SEND_PEND"} \subseteq Posts \ {"EXIT"} /\ {"RELEASE_PEND"} \subseteq Posts \ {"EXIT"}
  BY DEF Posts
<1>6. /\ Total(Receiving, pc) = 0 /\ Total({"sp_size"}, pc) = 0 /\ Total({"try_send"}, pc) = 0
      /\ Total({"sent"}, pc) = 0 /\ Total({"rel_post", "release"}, pc) = 0
      /\ Total({"clean"}, pc) = 0
  BY <1>2, <1>4
<1>7. /\ In({"RECV"}, m_hcp) = 0 /\ In({"SEND"}, m_hcp) = 0 /\ In({"SEND_PEND"}, m_hcp) = 0
      /\ In({"RELEASE_PEND"}, m_hcp) = 0
  BY <1>3, <1>5
<1>8. Ops("recv", posted) = 0 /\ Ops("send", posted) = 0
  <2>1. ASSUME NEW o PROVE Ops(o, posted) = 0
    <3>1. {x \in posted : x[1] = o} = {}
      BY <1>1
    <3>2. QED
      BY <3>1, FS_EmptySet DEF Ops
  <2>2. QED
    BY <2>1
<1>9. QED
  BY <1>6, <1>7, <1>8 DEF RecvTokens, SendTokens, Releasing, Cleaning, Sending

\* What it leaves of the packets of the connection before.
LEMMA Forgets ==
    ASSUME IInv, m_sentPacket' = <<>>, UNCHANGED <<m_sendQ, accepted, freed, left>>,
           dropped' = dropped \cup {p \in ToSet(m_sentPacket) : freed[p] = 0},
           id_generator' = id_generator + 1
    PROVE  PacketsApart' /\ dropped' \subseteq Numbers
<1>1. /\ \A p \in Numbers : freed[p] <= 1 /\ freed[p] \in Nat
      /\ ToSet(m_sentPacket) \subseteq Numbers /\ dropped \subseteq Numbers /\ id_generator \in Nat
  <2>1. m_sentPacket \in Seq(Numbers) /\ freed \in [Numbers -> Nat] /\ dropped \subseteq Numbers
    BY DEF IInv, Typed
  <2>2. ToSet(m_sentPacket) \subseteq Numbers
    BY <2>1 DEF ToSet
  <2>3. QED
    BY <2>1, <2>2, LanBounds DEF IInv, Typed, PacketsApart
<1>2. Back' = Back /\ m_sendQ' = m_sendQ /\ accepted' = accepted /\ left' = left /\ freed' = freed
  BY DEF Back
<1>3. PICK forgot : /\ forgot = {p \in ToSet(m_sentPacket) : freed[p] = 0}
                    /\ dropped' = dropped \cup forgot
  OBVIOUS
<1>4. \A p : p \in forgot <=> p \in ToSet(m_sentPacket) /\ p \notin Back
  BY <1>1, <1>3 DEF Back
<1>5. /\ ToSet(m_sendQ) \cup ToSet(m_sentPacket) \cup Back \cup dropped = 1 .. accepted
      /\ ToSet(m_sendQ) \cap (ToSet(m_sentPacket) \cup Back \cup dropped) = {}
      /\ dropped \cap (ToSet(m_sentPacket) \cup Back) = {}
      /\ \A i, j \in 1 .. Len(m_sendQ) : m_sendQ[i] = m_sendQ[j] => i = j
  BY DEF IInv, PacketsApart
<1>6. ToSet(m_sentPacket') = {}
  <2>1. ToSet(<<>>) = {}
    BY DEF ToSet
  <2>2. QED
    BY <2>1
<1>7. /\ ToSet(m_sendQ) \cup Back \cup (dropped \cup forgot) = 1 .. accepted
      /\ ToSet(m_sendQ) \cap (Back \cup (dropped \cup forgot)) = {}
      /\ (dropped \cup forgot) \cap Back = {}
  <2>1. ToSet(m_sendQ) \cup Back \cup (dropped \cup forgot) = 1 .. accepted
    BY <1>4, <1>5
  <2>2. ToSet(m_sendQ) \cap (Back \cup (dropped \cup forgot)) = {}
    BY <1>4, <1>5
  <2>3. (dropped \cup forgot) \cap Back = {}
    BY <1>4, <1>5
  <2>4. QED
    BY <2>1, <2>2, <2>3
<1>8. /\ ToSet(m_sendQ') \cup ToSet(m_sentPacket') \cup Back' \cup dropped' = 1 .. accepted'
      /\ ToSet(m_sendQ') \cap (ToSet(m_sentPacket') \cup Back' \cup dropped') = {}
      /\ dropped' \cap (ToSet(m_sentPacket') \cup Back') = {}
      /\ ToSet(m_sentPacket') \cap Back' = {}
  <2>1. ToSet(m_sendQ') \cup ToSet(m_sentPacket') \cup Back' \cup dropped' = 1 .. accepted'
    BY <1>2, <1>3, <1>6, <1>7
  <2>2. ToSet(m_sendQ') \cap (ToSet(m_sentPacket') \cup Back' \cup dropped') = {}
    BY <1>2, <1>3, <1>6, <1>7
  <2>3. dropped' \cap (ToSet(m_sentPacket') \cup Back') = {}
    BY <1>2, <1>3, <1>6, <1>7
  <2>4. ToSet(m_sentPacket') \cap Back' = {}
    BY <1>6
  <2>5. QED
    BY <2>1, <2>2, <2>3, <2>4
<1>9. id_generator' <= 1 => dropped' = {} /\ left' = {}
  <2> SUFFICES ASSUME id_generator' <= 1 PROVE dropped' = {} /\ left' = {}
    OBVIOUS
  <2>1. id_generator = 0
    BY <1>1
  <2>2. m_sentPacket = <<>> /\ dropped = {} /\ left = {}
    BY <2>1 DEF IInv, Fresh
  <2>3. ToSet(m_sentPacket) = {}
    BY <2>2 DEF ToSet
  <2>4. forgot = {}
    BY <1>4, <2>3
  <2>5. QED
    BY <1>2, <1>3, <2>2, <2>4
<1>10. id_generator' > 1 => left' \subseteq {1}
  <2>1. id_generator = 1 => left \subseteq {1}
    BY DEF IInv, Stage
  <2>2. id_generator > 1 => left \subseteq {1}
    BY DEF IInv, PacketsApart
  <2>3. QED
    BY <1>1, <1>2, <2>1, <2>2
<1>11. ~Cleaned'
  BY <1>1, <1>9 DEF Cleaned
<1>12. \A i, j \in 1 .. Len(m_sentPacket') : m_sentPacket'[i] = m_sentPacket'[j] => i = j
  OBVIOUS
<1>13. /\ \A p \in Numbers : freed'[p] <= 1
       /\ \A i, j \in 1 .. Len(m_sendQ') : m_sendQ'[i] = m_sendQ'[j] => i = j
  BY <1>1, <1>2, <1>5
<1>14. PacketsApart'
  BY <1>8, <1>9, <1>10, <1>11, <1>12, <1>13 DEF PacketsApart
<1>15. dropped' \subseteq Numbers
  BY <1>1, <1>3
<1>16. QED
  BY <1>14, <1>15

\* connectSession leads to these functions.
Joins == <<"send_id", "recv_check", "update", "connected">>

\* The connection is made and its session begins.
LEMMA KeepsConnectSession == ASSUME IInv, ConnectSession PROVE IInv'
<1>1. /\ pc[Main] = <<"connect">> /\ pc' = [pc EXCEPT ![Main] = Joins]
      /\ id_generator < MaxConnects /\ m_ioCount' = m_ioCount + 1
      /\ m_sessionId' = id_generator /\ id_generator' = id_generator + 1
      /\ m_serverSock' = id_generator + 1 /\ m_sendFlag' = 0 /\ m_sentPacket' = <<>>
      /\ dropped' = dropped \cup {p \in ToSet(m_sentPacket) : freed[p] = 0}
      /\ m_disconnect' = 0 /\ m_releaseFlag' = 0 /\ joined' = joined \cup {id_generator + 1}
      /\ UNCHANGED <<switches, m_sendQ, kernel, id, accepted, freed, left>>
      /\ (running # {} => id_generator = 0) /\ m_isInit
  <2>1. /\ pc[Main] = <<"connect">>
        /\ pc' = [pc EXCEPT ![Main] = (OnEnterServerJoin \o <<"recv_check", "update", "connected">>)
                                        \o Tail(pc[Main])]
    BY AtCall DEF ConnectSession, Run
  <2>2. OnEnterServerJoin \o <<"recv_check", "update", "connected">> = Joins
    BY Pushed, ZenonT(30) DEF OnEnterServerJoin, Joins
  <2>3. Joins \o Tail(pc[Main]) = Joins
    BY <2>1 DEF Joins
  <2>4. (running # {} => id_generator = 0) /\ m_isInit
    BY <2>1, CallsIn DEF IInv, Phase
  <2>5. QED
    BY <2>1, <2>2, <2>3, <2>4 DEF ConnectSession
<1>2. id_generator \in Nat /\ MaxConnects \in Nat /\ Main \in Threads
  BY LanBounds DEF IInv, Typed, Threads
<1>3. Joins \in Seq(Functions)
  BY DEF Joins, Functions
<1>4. Moved(Main, Joins)
  BY <1>1, <1>2, <1>3, Moves DEF IInv, Typed
<1>5. /\ pc' \in [Threads -> Seq(Functions)] /\ pc'[Main] = Joins
      /\ \A t \in Threads : t # Main => pc'[t] = pc[t]
  BY <1>4 DEF Moved
<1>6. Control'
  <2>1. Proper(Main, Joins)
    <3>1. Head(Joins) = "send_id" /\ Tail(Joins) = <<"recv_check", "update", "connected">>
      BY DEF Joins
    <3>2. QED
      BY <3>1 DEF Proper, Returns, MainReturns
  <2>2. QED
    BY <1>5, <2>1 DEF IInv, Control
<1>7. /\ \A F : In(F, Joins) = I("send_id", F) + I("recv_check", F) + I("update", F) + I("connected", F)
      /\ \A F : In(F, pc[Main]) = I("connect", F)
  BY <1>1, InFour, InOne DEF Joins
<1>8. ASSUME NEW F
      PROVE  Total(F, pc') = Total(F, pc) + (I("send_id", F) + I("recv_check", F) + I("update", F)
                                               + I("connected", F) - I("connect", F))
  <2>1. Total(F, pc') = Total(F, pc) - In(F, pc[Main]) + In(F, Joins) /\ Total(F, pc) \in Nat
    BY <1>4 DEF Moved
  <2>2. \A x : I(x, F) \in Nat
    BY DEF I
  <2>3. QED
    BY <1>7, <2>1, <2>2
<1>9. /\ Total({"update"}, pc') = Total({"update"}, pc) + 1
      /\ Total({"rel_post", "release"}, pc') = Total({"rel_post", "release"}, pc)
      /\ Total({"clean"}, pc') = Total({"clean"}, pc)
      /\ Total(Receiving, pc') = Total(Receiving, pc) + 1
      /\ Total({"sp_size"}, pc') = Total({"sp_size"}, pc)
      /\ Total({"try_send"}, pc') = Total({"try_send"}, pc)
      /\ Total({"sent"}, pc') = Total({"sent"}, pc)
  <2>1. \A F : Total(F, pc) \in Nat
    BY <1>4 DEF Moved
  <2>2. Total({"update"}, pc') = Total({"update"}, pc) + 1
    <3>1. /\ I("send_id", {"update"}) = 0 /\ I("recv_check", {"update"}) = 0
          /\ I("update", {"update"}) = 1 /\ I("connected", {"update"}) = 0
          /\ I("connect", {"update"}) = 0
      BY DEF I
    <3>2. QED
      BY <1>8, <2>1, <3>1
  <2>3. Total(Receiving, pc') = Total(Receiving, pc) + 1
    <3>1. /\ I("send_id", Receiving) = 0 /\ I("recv_check", Receiving) = 1
          /\ I("update", Receiving) = 0 /\ I("connected", Receiving) = 0
          /\ I("connect", Receiving) = 0
      BY DEF I, Receiving
    <3>2. QED
      BY <1>8, <2>1, <3>1
  <2>4. ASSUME NEW F \in {{"rel_post", "release"}, {"clean"}, {"sp_size"}, {"try_send"}, {"sent"}}
        PROVE  Total(F, pc') = Total(F, pc)
    <3>1. /\ I("send_id", F) = 0 /\ I("recv_check", F) = 0 /\ I("update", F) = 0
          /\ I("connected", F) = 0 /\ I("connect", F) = 0
      BY <2>4 DEF I
    <3>2. QED
      BY <1>8, <2>1, <3>1
  <2>5. QED
    BY <2>2, <2>3, <2>4
<1>10. In({"connect", "connected", "wait"}, Joins) = 1 /\ In({"connect"}, Joins) = 0
       /\ In({"wait"}, Joins) = 0
  <2> DEFINE A == {"connect", "connected", "wait"}
  <2>1. /\ I("send_id", A) = 0 /\ I("recv_check", A) = 0 /\ I("update", A) = 0
        /\ I("connected", A) = 1
        /\ I("send_id", {"connect"}) = 0 /\ I("recv_check", {"connect"}) = 0
        /\ I("update", {"connect"}) = 0 /\ I("connected", {"connect"}) = 0
        /\ I("send_id", {"wait"}) = 0 /\ I("recv_check", {"wait"}) = 0
        /\ I("update", {"wait"}) = 0 /\ I("connected", {"wait"}) = 0
    BY DEF I
  <2> HIDE DEF A
  <2>2. In(A, Joins) = 1 /\ In({"connect"}, Joins) = 0 /\ In({"wait"}, Joins) = 0
    BY <1>7, <2>1
  <2>3. QED
    BY <2>2 DEF A
<1>11. StacksNat(pc) /\ PortNat(m_hcp) /\ KernelNat(posted) /\ SumsNat
  BY Counts, SumsAreNat DEF IInv
<1>12. m_hcp' = m_hcp /\ posted' = posted
  BY <1>1 DEF kernel
<1>13. /\ RecvTokens' = RecvTokens + 1 /\ SendTokens' = SendTokens /\ Releasing' = Releasing
       /\ Cleaning' = Cleaning /\ Sending' = Sending
  <2>1. RecvTokens' = RecvTokens + 1
    <3>1. /\ Total(Receiving, pc) \in Nat /\ In({"RECV"}, m_hcp) \in Nat
          /\ Ops("recv", posted) \in Nat
      BY <1>11 DEF StacksNat, PortNat, KernelNat
    <3>2. QED
      BY <1>9, <1>12, <3>1 DEF RecvTokens
  <2>2. /\ SendTokens' = SendTokens /\ Releasing' = Releasing /\ Cleaning' = Cleaning
        /\ Sending' = Sending
    BY <1>9, <1>12 DEF SendTokens, Releasing, Cleaning, Sending
  <2>3. QED
    BY <2>1, <2>2
<1>14. PacketsApart' /\ dropped' \subseteq Numbers
  BY <1>1, Forgets
<1>15. Typed'
  <2>1. /\ m_sessionId' \in 0 .. MaxConnects /\ id_generator' \in 0 .. MaxConnects
        /\ m_serverSock' \in 0 .. MaxConnects /\ m_ioCount' \in Int
    BY <1>1, <1>2 DEF IInv, Typed
  <2>2. m_sentPacket' \in Seq(Numbers) /\ Len(m_sentPacket') <= MaxWsaBuf
    BY <1>1, LanBounds
  <2>3. QED
    BY <1>1, <1>5, <1>14, <2>1, <2>2 DEF IInv, Typed, switches, kernel
<1>16. Phase'
  <2>1. \A w \in Workers : w \in Threads /\ w # Main
    BY LanThreads DEF Threads
  <2>2. (1 .. id_generator) \cup {id_generator + 1} = 1 .. id_generator + 1
    BY <1>2
  <2>3. joined' = 1 .. id_generator'
    BY <1>1, <2>2 DEF IInv, Phase
  <2>4. id_generator' > 0 /\ (running' # {} => id_generator' <= 1)
    BY <1>1, <1>2 DEF switches
  <2>5. \A w \in Workers : pc'[w] # <<>> => w \in running'
    BY <1>1, <1>5, <2>1 DEF IInv, Phase, switches
  <2>6. m_isInit'
    BY <1>1 DEF switches
  <2>7. QED
    BY <1>5, <1>10, <2>3, <2>4, <2>5, <2>6 DEF Phase
<1>17. Fresh'
  BY <1>1, <1>2 DEF Fresh
<1>18. Joining' /\ Known'
  <2>1. \A x \in posted : x[2] <= id_generator /\ x[2] \in Nat
    BY DEF IInv, Known, Typed, Sockets
  <2>2. <<"recv", id_generator + 1>> \notin posted
    BY <1>2, <2>1
  <2>3. \A x \in posted : x[2] <= id_generator + 1
    BY <1>2, <2>1
  <2>4. QED
    BY <1>1, <1>2, <1>12, <2>2, <2>3 DEF Joining, Known
<1>19. ClosedIdle'
  BY <1>1 DEF ClosedIdle
<1>20. /\ id_generator' = 1 => /\ RecvTokens' = 1 /\ SendTokens' = 0 /\ Releasing' = 0 /\ Cleaning' = 0
                               /\ Sending' = 0 /\ left' = {} /\ m_serverSock' = 1
  <2> SUFFICES ASSUME id_generator' = 1
               PROVE /\ RecvTokens' = 1 /\ SendTokens' = 0 /\ Releasing' = 0 /\ Cleaning' = 0
                     /\ Sending' = 0 /\ left' = {} /\ m_serverSock' = 1
    OBVIOUS
  <2>1. id_generator = 0
    BY <1>1, <1>2
  <2>2. RecvTokens = 0 /\ SendTokens = 0 /\ Releasing = 0 /\ Cleaning = 0 /\ Sending = 0
    BY <2>1, FreshSums
  <2>3. left' = {}
    BY <1>1, <2>1 DEF IInv, Fresh
  <2>4. QED
    BY <1>1, <1>13, <2>1, <2>2, <2>3
<1>21. Stage'
  BY <1>20 DEF Stage
<1>22. OneReceive' /\ OneSend'
  BY <1>20 DEF OneReceive, OneSend
<1>23. SentEmpty'
  BY <1>1, <1>20 DEF SentEmpty
<1>24. Watched'
  <2>1. id_generator' = 1 => RecvTokens' + In({"RECV0"}, m_hcp') > 0
    <3>1. In({"RECV0"}, m_hcp') \in Nat
      BY <1>11, <1>12 DEF PortNat
    <3>2. QED
      BY <1>20, <3>1
  <2>2. QED
    BY <2>1 DEF Watched
<1>25. Counted'
  <2>1. /\ In({"EXIT"}, m_hcp) \in Nat /\ Cardinality(posted) \in Nat /\ Len(m_hcp) \in Nat
        /\ m_ioCount \in Int
    BY <1>11 DEF PortNat, KernelNat, IInv, Typed
  <2>2. m_ioCount' = m_ioCount + (1 + 0 - 0 + 0)
    BY <1>1, <2>1
  <2>3. /\ In({"EXIT"}, m_hcp') = In({"EXIT"}, m_hcp) + 0
        /\ Len(m_hcp') = Len(m_hcp) + 0 /\ Cardinality(posted') = Cardinality(posted) + 0
    BY <1>12, <2>1
  <2>4. 0 \in Int /\ 1 \in Int
    OBVIOUS
  <2>5. QED
    BY <1>9, <1>15, <2>2, <2>3, <2>4, CountedBy
<1>26. QED
  BY <1>6, <1>14, <1>15, <1>16, <1>17, <1>18, <1>19, <1>21, <1>22, <1>23, <1>24, <1>25 DEF IInv
-----------------------------------------------------------------------------
(* The invariant *)

\* The invariant holds at the start.
LEMMA Begins == Init => IInv
<1> SUFFICES ASSUME Init PROVE IInv
  OBVIOUS
<1>1. /\ m_isConnected = FALSE /\ m_isInit = FALSE /\ running = {}
      /\ m_disconnect = 1 /\ m_ioCount = 0 /\ m_releaseFlag = 0
      /\ m_sendFlag = 0 /\ m_sendQ = <<>> /\ m_sentPacket = <<>>
      /\ m_sessionId = 0 /\ id_generator = 0 /\ m_serverSock = 0
      /\ posted = {} /\ m_hcp = <<>> /\ id = 0
      /\ accepted = 0 /\ freed = [p \in Numbers |-> 0] /\ dropped = {}
      /\ joined = {} /\ left = {}
      /\ pc \in [Threads -> Seq(Functions)] /\ \A t \in Threads : pc[t] = <<>>
      /\ Main \in Threads /\ \A w \in Workers : w \in Threads
  BY DEF Init, Threads
<1>2. \A F : In(F, m_hcp) = 0
  BY <1>1, InNone
<1>3. \A F : Total(F, pc) = 0
  <2>1. ASSUME NEW F PROVE Total(F, pc) = 0
    <3>1. \A t \in Threads : In(F, pc[t]) = 0
      BY <1>1, InNone
    <3>2. Total(F, pc) > 0 <=> \E t \in Threads : In(F, pc[t]) > 0
      BY <1>1, TotalPlace
    <3>3. Total(F, pc) \in Nat
      BY <1>1, TotalSplit
    <3>4. QED
      BY <3>1, <3>2, <3>3
  <2>2. QED
    BY <2>1
<1>4. Cardinality(posted) = 0 /\ Len(m_hcp) = 0
  BY <1>1, FS_EmptySet
<1>5. Typed
  <2>1. /\ <<>> \in Seq(Numbers) /\ <<>> \in Seq(Posts) /\ Len(<<>>) = 0
        /\ MaxSendQ >= 0 /\ MaxWsaBuf >= 0 /\ 0 \in 0 .. MaxConnects /\ 0 \in 0 .. MaxPackets
    BY LanBounds
  <2>2. freed \in [Numbers -> Nat]
    BY <1>1
  <2>3. /\ m_sendQ \in Seq(Numbers) /\ Len(m_sendQ) <= MaxSendQ
        /\ m_sentPacket \in Seq(Numbers) /\ Len(m_sentPacket) <= MaxWsaBuf
        /\ m_hcp \in Seq(Posts)
    BY <1>1, <2>1
  <2>4. /\ m_isConnected \in BOOLEAN /\ m_isInit \in BOOLEAN /\ running \subseteq Workers
        /\ m_disconnect \in {0, 1} /\ m_ioCount \in Int
        /\ m_releaseFlag \in {0, 1} /\ m_sendFlag \in {0, 1}
    <3>1. m_isConnected \in BOOLEAN /\ m_isInit \in BOOLEAN
      BY <1>1, Zenon
    <3>2. QED
      BY <1>1, <3>1
  <2>5. /\ m_sessionId \in 0 .. MaxConnects /\ id_generator \in 0 .. MaxConnects
        /\ m_serverSock \in 0 .. MaxConnects /\ id \in 0 .. MaxConnects
        /\ accepted \in 0 .. MaxPackets
    BY <1>1, <2>1
  <2>6. /\ posted \subseteq {"recv", "send"} \X Sockets /\ dropped \subseteq Numbers
        /\ pc \in [Threads -> Seq(Functions)]
    BY <1>1
  <2>7. QED
    BY <2>2, <2>3, <2>4, <2>5, <2>6 DEF Typed
<1>6. Control
  BY <1>1 DEF Control, Proper
<1>7. Phase
  BY <1>1 DEF Phase
<1>8. Fresh /\ Joining /\ Known
  <2>1. Fresh
    BY <1>1, <1>2, <1>3 DEF Fresh
  <2>2. ~(In(Receiving, pc[Main]) > 0)
    BY <1>1, InNone
  <2>3. QED
    BY <1>1, <2>1, <2>2 DEF Joining, Known
<1>9. ClosedIdle /\ Stage /\ OneReceive /\ OneSend /\ SentEmpty /\ Watched
  BY <1>1 DEF ClosedIdle, Stage, OneReceive, OneSend, SentEmpty, Watched
<1>10. PacketsApart
  <2>1. /\ Back = {} /\ ToSet(m_sendQ) = {} /\ ToSet(m_sentPacket) = {} /\ ~Cleaned
        /\ 1 .. accepted = {}
    BY <1>1 DEF Back, ToSet, Cleaned
  <2>2. QED
    BY <1>1, <2>1 DEF PacketsApart
<1>11. Counted
  BY <1>1, <1>2, <1>3, <1>4 DEF Counted
<1>12. QED
  BY <1>5, <1>6, <1>7, <1>8, <1>9, <1>10, <1>11 DEF IInv

\* Every step of a function keeps it.
LEMMA KeepsStep == ASSUME IInv, NEW t \in Threads, Step(t) PROVE IInv'
<1>1. CASE SendPend(t)
  BY <1>1, KeepsSendPend, KeepsSendPendLate
<1>2. CASE DisconnectSession(t)
  BY <1>2, KeepsDisconnectFirst, KeepsDisconnectLate
<1>3. CASE DisconnectCancel(t)
  BY <1>3, KeepsDisconnectCancel
<1>4. CASE RecvCheck(t)
  BY <1>4, KeepsRecvCheck
<1>5. CASE RecvPost(t)
  <2>1. \/ posted' = posted \cup {<<"recv", m_serverSock>>} /\ Return(t)
        \/ UNCHANGED posted /\ Run(t, <<"disconnect", "update">>)
    BY <1>5 DEF RecvPost
  <2>2. QED
    BY <1>5, <2>1, KeepsRecvPost, KeepsRecvRefused
<1>6. CASE TrySend(t)
  BY <1>6, KeepsTrySend
<1>7. CASE TrySize(t)
  BY <1>7, KeepsTrySize
<1>8. CASE SendCheck(t)
  BY <1>8, KeepsSendCheck
<1>9. CASE SendExchange(t)
  BY <1>9, KeepsSendExchange, KeepsSendExchangeLost
<1>10. CASE SendNothing(t)
  BY <1>10, KeepsSendNothing
<1>11. CASE SendPost(t)
  <2>1. \/ posted' = posted \cup {<<"send", m_serverSock>>} /\ Return(t)
        \/ UNCHANGED posted /\ Run(t, <<"disconnect", "update">>)
    BY <1>11 DEF SendPost
  <2>2. QED
    BY <1>11, <2>1, KeepsSendPost, KeepsSendRefused
<1>12. CASE UpdateIOCount(t)
  BY <1>12, KeepsUpdateIOCount
<1>13. CASE ReleaseCas(t)
  BY <1>13, KeepsReleaseCas, KeepsReleaseCasLost
<1>14. CASE ReleasePost(t)
  BY <1>14, KeepsReleasePost
<1>15. CASE ReleaseLeave(t)
  BY <1>15, KeepsReleaseLeave
<1>16. CASE ReleaseClean(t)
  BY <1>16, KeepsReleaseClean
<1>17. CASE Cancel(t)
  BY <1>17, KeepsCancel
<1>18. CASE Parse(t)
  BY <1>18, KeepsParse
<1>19. CASE Sent(t)
  BY <1>19, KeepsSent
<1>20. QED
  BY <1>1, <1>2, <1>3, <1>4, <1>5, <1>6, <1>7, <1>8, <1>9, <1>10, <1>11, <1>12, <1>13, <1>14,
     <1>15, <1>16, <1>17, <1>18, <1>19 DEF Step

\* Every other step of the application thread keeps it.
LEMMA KeepsMainStep == ASSUME IInv, MainStep PROVE IInv'
<1>1. CASE Enqueue
  BY <1>1, KeepsEnqueue, KeepsEnqueueFull
<1>2. CASE ConnectFailed \/ ConnectSession \/ Connected
  BY <1>2, KeepsConnectFailed, KeepsConnectSession, KeepsConnected
<1>3. CASE PostExits \/ WaitWorkers
  BY <1>3, KeepsPostExits, KeepsWaitWorkers
<1>4. CASE SendId \/ SendInc \/ SendTest
  BY <1>4, KeepsSendId, KeepsSendInc, KeepsSendTest
<1>5. QED
  BY <1>1, <1>2, <1>3, <1>4 DEF MainStep

\* A step that changes nothing keeps it.
LEMMA KeepsNothing == ASSUME IInv, UNCHANGED vars PROVE IInv'
<1>1. /\ UNCHANGED <<m_isConnected, m_isInit, running, m_disconnect, m_ioCount, m_releaseFlag,
                     m_sendFlag, m_sendQ, m_sentPacket>>
      /\ UNCHANGED <<m_sessionId, id_generator, m_serverSock, posted, m_hcp, pc, id,
                     accepted, freed, dropped, joined, left>>
  BY DEF vars, switches, counts, sending, ids, kernel, packets, events
<1>2. /\ RecvTokens' = RecvTokens /\ SendTokens' = SendTokens /\ Sending' = Sending
      /\ Releasing' = Releasing /\ Cleaning' = Cleaning /\ Back' = Back /\ Cleaned' = Cleaned
  BY <1>1 DEF RecvTokens, SendTokens, Sending, Releasing, Cleaning, Back, Cleaned
<1>3. Typed' /\ Control' /\ Phase'
  BY <1>1 DEF IInv, Typed, Control, Phase
<1>4. Fresh' /\ Joining' /\ Known' /\ ClosedIdle'
  BY <1>1 DEF IInv, Fresh, Joining, Known, ClosedIdle
<1>5. Stage' /\ OneReceive' /\ OneSend' /\ SentEmpty'
  BY <1>1, <1>2 DEF IInv, Stage, OneReceive, OneSend, SentEmpty
<1>6. Watched'
  BY <1>1, <1>2 DEF IInv, Watched, Ending
<1>7. PacketsApart' /\ Counted'
  BY <1>1, <1>2 DEF IInv, PacketsApart, Counted
<1>8. QED
  BY <1>3, <1>4, <1>5, <1>6, <1>7 DEF IInv

\* What every reachable state satisfies.
THEOREM Invariant == Spec => []IInv
<1>1. IInv /\ [Next]_vars => IInv'
  <2> SUFFICES ASSUME IInv, [Next]_vars PROVE IInv'
    OBVIOUS
  <2>1. ASSUME NEW t \in Threads, Step(t) PROVE IInv'
    BY <2>1, KeepsStep
  <2>2. ASSUME NEW t \in Workers, GetPacket(t) PROVE IInv'
    BY <2>2, KeepsGetPacket
  <2>3. CASE MainStep
    BY <2>3, KeepsMainStep
  <2>4. CASE Application
    BY <2>4, KeepsConnect, KeepsDisconnect, KeepsSendMonitorData DEF Application
  <2>5. CASE IoComplete
    BY <2>5, KeepsIoComplete
  <2>6. CASE UNCHANGED vars
    BY <2>6, KeepsNothing
  <2>7. QED
    BY <2>1, <2>2, <2>3, <2>4, <2>5, <2>6 DEF Next
<1>2. QED
  BY <1>1, Begins, PTL DEF Spec
-----------------------------------------------------------------------------
(* What the runs check *)

\* The sets the properties count, in the terms of the invariant.
LEMMA InOf == ASSUME NEW f, NEW s PROVE Count(f, s) = In({f}, s)
<1>1. {i \in DOMAIN s : s[i] = f} = {i \in DOMAIN s : s[i] \in {f}}
  OBVIOUS
<1>2. QED
  BY <1>1 DEF Count, In

\* Every variable has its type (TypeOK): in particular m_ioCount, which
\* updateIOCount decrements before it looks, is never negative.
THEOREM TypeCorrect == Spec => []TypeOK
<1>1. IInv => TypeOK
  <2> SUFFICES ASSUME IInv PROVE TypeOK
    OBVIOUS
  <2>1. Typed
    BY DEF IInv
  <2>2. m_ioCount \in Nat
    <3>1. /\ Total({"update"}, pc) \in Nat /\ In({"EXIT"}, m_hcp) \in Nat
          /\ Cardinality(posted) \in Nat
      BY <2>1, Counts DEF StacksNat, PortNat, KernelNat
    <3>2. In({"EXIT"}, m_hcp) <= Len(m_hcp) /\ Len(m_hcp) \in Nat
      <4>1. m_hcp \in Seq(Posts) /\ {"EXIT"} \cap {} = {}
        BY <2>1 DEF Typed
      <4>2. In({"EXIT"}, m_hcp) + In({}, m_hcp) <= Len(m_hcp) /\ Len(m_hcp) \in Nat
        BY <4>1, InLen
      <4>3. In({}, m_hcp) \in Nat
        BY <4>1, InNat
      <4>4. QED
        BY <3>1, <4>2, <4>3
    <3>3. QED
      BY <3>1, <3>2 DEF IInv, Counted
  <2>3. joined \subseteq Sockets
    <3>1. joined = 1 .. id_generator /\ id_generator \in 0 .. MaxConnects /\ MaxConnects \in Nat
      BY LanBounds DEF IInv, Phase, Typed
    <3>2. QED
      BY <3>1 DEF Sockets
  <2>4. left \subseteq Sockets
    <3>1. id_generator \in 0 .. MaxConnects /\ MaxConnects \in Nat
      BY LanBounds DEF IInv, Typed
    <3>2. CASE id_generator = 0
      BY <3>2 DEF IInv, Fresh
    <3>3. CASE id_generator > 0
      <4>1. left \subseteq {1}
        <5>1. CASE id_generator = 1
          BY <5>1 DEF IInv, Stage
        <5>2. CASE id_generator > 1
          BY <5>2 DEF IInv, PacketsApart
        <5>3. QED
          BY <3>1, <3>3, <5>1, <5>2
      <4>2. 1 \in Sockets
        BY <3>1, <3>3 DEF Sockets
      <4>3. QED
        BY <4>1, <4>2
    <3>4. QED
      BY <3>1, <3>2, <3>3
  <2>5. \A t \in Threads : pc[t] \in Seq(Functions)
    BY <2>1 DEF Typed
  <2>6. QED
    BY <2>1, <2>2, <2>3, <2>4, <2>5 DEF Typed, TypeOK
<1>2. QED
  BY <1>1, Invariant, PTL

\* No call of CrashDump::Crash() is reached (NoCrash): no caller of updateIOCount
\* finds the count used up, no completed send finds m_sentPacket empty, and
\* release() never finds the connection up.
THEOREM NoCrashReached == Spec => []NoCrash
<1>1. IInv => NoCrash
  <2> SUFFICES ASSUME IInv, NEW t \in Threads, At(t, "crash") PROVE FALSE
    BY DEF NoCrash
  <2>1. Returns(t, "crash", Tail(pc[t]))
    BY Callers
  <2>2. ~MainReturns("crash", Tail(pc[t]))
    BY DEF MainReturns
  <2>3. ~WorkerReturns("crash", Tail(pc[t]))
    BY DEF WorkerReturns
  <2>4. QED
    BY <2>1, <2>2, <2>3 DEF Returns
<1>2. QED
  BY <1>1, Invariant, PTL

\* m_ioCount is what threads, port and kernel still have to give back
\* (CountIsReferences): the connection is neither released under somebody's feet
\* nor kept for ever by a lost count.
THEOREM ReferencesCounted == Spec => []CountIsReferences
<1>1. IInv => CountIsReferences
  <2> SUFFICES ASSUME IInv PROVE CountIsReferences
    OBVIOUS
  <2>1. Updates = Places({"update"}, pc)
    BY DEF Updates, Places
  <2>2. PostsOf("EXIT") = In({"EXIT"}, m_hcp)
    BY InOf DEF PostsOf
  <2>3. QED
    BY <2>1, <2>2 DEF IInv, Counted, CountIsReferences, Total
<1>2. QED
  BY <1>1, Invariant, PTL

\* Threads that each have one of at most one are at most one.
LEMMA AtMostOne ==
    ASSUME NEW S, NEW stacks \in [Threads -> Seq(S)], NEW F, Total(F, stacks) <= 1,
           NEW B, B \subseteq Threads, \A t \in B : In(F, stacks[t]) > 0
    PROVE  Cardinality(B) \in Nat /\ Cardinality(B) <= Total(F, stacks)
<1>1. Total(F, stacks) \in Nat
  <2>1. Main \in Threads
    BY DEF Threads
  <2>2. QED
    BY <2>1, TotalSplit
<1>2. CASE B = {}
  <2>1. Cardinality(B) = 0
    BY <1>2, FS_EmptySet
  <2>2. QED
    BY <1>1, <2>1
<1>3. CASE B # {}
  <2>1. PICK t \in B : TRUE
    BY <1>3
  <2>2. \A u \in B : In(F, stacks[u]) \in Nat
    <3>1. ASSUME NEW u \in B PROVE In(F, stacks[u]) \in Nat
      <4>1. stacks[u] \in Seq(S)
        OBVIOUS
      <4>2. QED
        BY <4>1, InNat
    <3>2. QED
      BY <3>1
  <2>3. ASSUME NEW u \in B, u # t PROVE FALSE
    <3>1. In(F, stacks[t]) + In(F, stacks[u]) <= Total(F, stacks)
      BY <2>3, TotalTwo
    <3>2. In(F, stacks[t]) >= 1 /\ In(F, stacks[u]) >= 1
      BY <2>1, <2>2, <2>3
    <3>3. QED
      BY <1>1, <2>2, <3>1, <3>2
  <2>4. B = {t}
    BY <2>1, <2>3
  <2>5. Cardinality(B) = 1
    BY <2>4, FS_Singleton
  <2>6. Total(F, stacks) > 0
    BY <2>1, TotalPlace
  <2>7. QED
    BY <1>1, <2>5, <2>6
<1>4. QED
  BY <1>2, <1>3

\* While workers run, there is one right to receive and one to send.
LEMMA OneOfEach ==
    ASSUME IInv, running # {}
    PROVE  RecvTokens <= 1 /\ SendTokens <= 1
<1>1. id_generator \in Nat /\ id_generator <= 1
  BY LanBounds DEF IInv, Typed, Phase
<1>2. CASE id_generator = 0
  BY <1>2, FreshSums
<1>3. CASE id_generator = 1
  BY <1>3 DEF IInv, OneReceive, OneSend
<1>4. QED
  BY <1>1, <1>2, <1>3

\* One user at a time of the receive overlapped and queue, and of the send
\* overlapped and m_sentPacket, whatever posts, cancels and releases them
\* (OneIoOutstanding).
THEOREM OneIoAtATime == Spec => []OneIoOutstanding
<1>1. IInv => OneIoOutstanding
  <2> SUFFICES ASSUME IInv, running # {}
               PROVE  /\ Cardinality({t \in Threads : \E f \in {"sp_size", "sent", "try_send"} : At(t, f)})
                           + PostsOf("SEND_PEND") + PostsOf("SEND")
                           + Cardinality({x \in posted : x[1] = "send"}) <= 1
                      /\ Cardinality({t \in Threads : \E f \in {"parse", "recv_check", "recv_post"} : At(t, f)})
                           + PostsOf("RECV") + Cardinality({x \in posted : x[1] = "recv"}) <= 1
    BY DEF OneIoOutstanding
  <2> DEFINE Senders   == {t \in Threads : \E f \in {"sp_size", "sent", "try_send"} : At(t, f)}
             Receivers == {t \in Threads : \E f \in {"parse", "recv_check", "recv_post"} : At(t, f)}
  <2>1. RecvTokens <= 1 /\ SendTokens <= 1
    BY OneOfEach
  <2>2. StacksNat(pc) /\ PortNat(m_hcp) /\ KernelNat(posted)
    BY Counts DEF IInv
  <2>3. /\ Total(Receiving, pc) \in Nat /\ Total({"sp_size"}, pc) \in Nat
        /\ Total({"try_send"}, pc) \in Nat
        /\ In({"RECV"}, m_hcp) \in Nat /\ In({"SEND"}, m_hcp) \in Nat
        /\ In({"SEND_PEND"}, m_hcp) \in Nat
        /\ Ops("recv", posted) \in Nat /\ Ops("send", posted) \in Nat
    BY <2>2 DEF StacksNat, PortNat, KernelNat
  <2>4. /\ PostsOf("SEND_PEND") = In({"SEND_PEND"}, m_hcp) /\ PostsOf("SEND") = In({"SEND"}, m_hcp)
        /\ PostsOf("RECV") = In({"RECV"}, m_hcp)
        /\ Cardinality({x \in posted : x[1] = "send"}) = Ops("send", posted)
        /\ Cardinality({x \in posted : x[1] = "recv"}) = Ops("recv", posted)
    BY InOf DEF PostsOf, Ops
  <2>5. /\ Total({"sp_size"}, pc) <= 1 /\ Total({"try_send"}, pc) <= 1 /\ Total(Receiving, pc) <= 1
        /\ Total({"sp_size"}, pc) = 0 \/ Total({"try_send"}, pc) = 0
    <3>1. Total(Receiving, pc) <= 1
      BY <2>1, <2>3 DEF RecvTokens
    <3>2. Total({"sp_size"}, pc) + Total({"try_send"}, pc) <= 1
      BY <2>1, <2>3 DEF SendTokens
    <3>3. QED
      BY <2>3, <3>1, <3>2
  <2>6. /\ pc \in [Threads -> Seq(Functions)] /\ Senders \subseteq Threads
        /\ Receivers \subseteq Threads
    BY DEF IInv, Typed
  <2>7. \A t \in Receivers : In(Receiving, pc[t]) > 0
    <3>1. ASSUME NEW t \in Threads, NEW f \in Receiving, At(t, f) PROVE In(Receiving, pc[t]) > 0
      <4>1. In(Receiving, pc[t]) >= 1 /\ pc[t] \in Seq(Functions)
        BY <2>6, <3>1, OnTop
      <4>2. In(Receiving, pc[t]) \in Nat
        BY <4>1, InNat
      <4>3. QED
        BY <4>1, <4>2
    <3>2. ASSUME NEW t \in Threads, At(t, "parse") PROVE In(Receiving, pc[t]) > 0
      <4>1. Tail(pc[t]) = <<"recv_check", "update">>
        BY <3>2, Callers DEF Returns, MainReturns, WorkerReturns
      <4>2. In(Receiving, pc[t]) = I("parse", Receiving) + In(Receiving, <<"recv_check", "update">>)
        BY <3>2, <4>1, Callers, InTop DEF At
      <4>3. In(Receiving, <<"recv_check", "update">>) = 1 /\ I("parse", Receiving) = 0
        BY InTwo DEF I, Receiving
      <4>4. QED
        BY <4>2, <4>3
    <3>3. QED
      BY <3>1, <3>2 DEF Receiving
  <2>8. \A t \in Senders : In({"sp_size"}, pc[t]) > 0 \/ In({"try_send"}, pc[t]) > 0
    <3>1. ASSUME NEW t \in Threads, NEW f \in {"sp_size", "sent", "try_send"}, At(t, f)
          PROVE  In({f}, pc[t]) > 0
      <4>1. In({f}, pc[t]) >= 1 /\ pc[t] \in Seq(Functions)
        BY <2>6, <3>1, OnTop
      <4>2. In({f}, pc[t]) \in Nat
        BY <4>1, InNat
      <4>3. QED
        BY <4>1, <4>2
    <3>2. \A t \in Threads : In({"sent"}, pc[t]) > 0 => In({"try_send"}, pc[t]) = 1
      BY SentTries
    <3>3. QED
      BY <3>1, <3>2
  <2>9. \A F, t : t \in Threads /\ In(F, pc[t]) > 0 => ~(Total(F, pc) = 0)
    <3>1. ASSUME NEW F, NEW t \in Threads, In(F, pc[t]) > 0 PROVE ~(Total(F, pc) = 0)
      <4>1. Total(F, pc) > 0
        BY <2>6, <3>1, TotalPlace
      <4>2. QED
        BY <4>1
    <3>2. QED
      BY <3>1
  <2> HIDE DEF Senders, Receivers
  <2>10. Cardinality(Receivers) \in Nat /\ Cardinality(Receivers) <= Total(Receiving, pc)
    BY <2>5, <2>6, <2>7, AtMostOne
  <2>11. Cardinality(Senders) \in Nat /\ Cardinality(Senders) <= Total({"sp_size"}, pc) + Total({"try_send"}, pc)
    <3>1. CASE Total({"sp_size"}, pc) = 0
      <4>1. \A t \in Senders : In({"try_send"}, pc[t]) > 0
        BY <2>6, <2>8, <2>9, <3>1
      <4>2. Cardinality(Senders) \in Nat /\ Cardinality(Senders) <= Total({"try_send"}, pc)
        BY <2>5, <2>6, <4>1, AtMostOne
      <4>3. QED
        BY <2>3, <3>1, <4>2
    <3>2. CASE Total({"try_send"}, pc) = 0
      <4>1. \A t \in Senders : In({"sp_size"}, pc[t]) > 0
        BY <2>6, <2>8, <2>9, <3>2
      <4>2. Cardinality(Senders) \in Nat /\ Cardinality(Senders) <= Total({"sp_size"}, pc)
        BY <2>5, <2>6, <4>1, AtMostOne
      <4>3. QED
        BY <2>3, <3>2, <4>2
    <3>3. QED
      BY <2>5, <3>1, <3>2
  <2>12. /\ Cardinality(Senders) + In({"SEND_PEND"}, m_hcp) + In({"SEND"}, m_hcp) + Ops("send", posted) <= 1
         /\ Cardinality(Receivers) + In({"RECV"}, m_hcp) + Ops("recv", posted) <= 1
    BY <2>1, <2>3, <2>10, <2>11 DEF RecvTokens, SendTokens
  <2>13. QED
    BY <2>4, <2>12 DEF Senders, Receivers
<1>2. QED
  BY <1>1, Invariant, PTL

\* No packet SendPacket took is lost or given back twice, and once the connection
\* was released and its socket closed all of them are back (PacketsAccountedFor).
THEOREM PacketsSettled == Spec => []PacketsAccountedFor
<1>1. IInv => PacketsAccountedFor
  <2> SUFFICES ASSUME IInv PROVE PacketsAccountedFor
    OBVIOUS
  <2> DEFINE going == ToSet(m_sentPacket) \ Back
  <2>1. /\ \A p \in Numbers : freed[p] <= 1
        /\ ToSet(m_sendQ) \cup ToSet(m_sentPacket) \cup Back \cup dropped = 1 .. accepted
        /\ ToSet(m_sendQ) \cap (ToSet(m_sentPacket) \cup Back \cup dropped) = {}
        /\ dropped \cap (ToSet(m_sentPacket) \cup Back) = {}
    BY DEF IInv, PacketsApart
  <2>2. /\ ToSet(m_sendQ) \cup going \cup Back \cup dropped = 1 .. accepted
        /\ ToSet(m_sendQ) \cap (going \cup Back \cup dropped) = {}
        /\ dropped \cap (going \cup Back) = {}
    BY <2>1
  <2>3. ASSUME left = joined, m_serverSock = 0 PROVE Back = 1 .. accepted
    <3>1. joined = 1 .. id_generator /\ id_generator \in Nat
      BY LanBounds DEF IInv, Typed, Phase
    <3>2. CASE id_generator = 0
      <4>1. accepted = 0 /\ \A p \in Numbers : freed[p] = 0
        BY <3>2 DEF IInv, Fresh
      <4>2. 1 .. 0 = {} /\ Back = {}
        BY <4>1 DEF Back
      <4>3. QED
        BY <4>1, <4>2
    <3>3. CASE id_generator = 1
      <4>1. Cleaning = 0
        <5> SUFFICES ASSUME Cleaning > 0 PROVE FALSE
          <6>1. Cleaning \in Nat
            BY SumsAreNat DEF SumsNat, IInv
          <6>2. QED
            BY <6>1
        <5>1. pc \in [Threads -> Seq(Functions)]
          BY DEF IInv, Typed
        <5>2. PICK t \in Threads : In({"clean"}, pc[t]) > 0
          BY <5>1, TotalPlace DEF Cleaning
        <5>3. At(t, "clean")
          <6>1. {"clean"} \cap Below = {}
            BY DEF Below
          <6>2. QED
            BY <5>2, <6>1, OnTopOnly
        <5>4. t # Main
          BY <5>3, Callers DEF Returns, MainReturns
        <5>5. running # {}
          BY <5>3, <5>4 DEF IInv, Phase, Threads, At
        <5>6. Releasing + Cleaning = 0
          BY <2>3, <3>3, <5>5 DEF IInv, Stage
        <5>7. Releasing \in Nat /\ Cleaning \in Nat
          BY SumsAreNat DEF SumsNat, IInv
        <5>8. QED
          BY <5>6, <5>7
      <4>2. left = {1}
        BY <2>3, <3>1, <3>3
      <4>3. QED
        BY <3>3, <4>1, <4>2 DEF IInv, PacketsApart, Cleaned
    <3>4. CASE id_generator > 1
      <4>1. left \subseteq {1}
        BY <3>4 DEF IInv, PacketsApart
      <4>2. 2 \in joined
        BY <3>1, <3>4
      <4>3. QED
        BY <2>3, <4>1, <4>2
    <3>5. QED
      BY <3>1, <3>2, <3>3, <3>4
  <2>4. QED
    BY <2>1, <2>2, <2>3 DEF PacketsAccountedFor, Back
<1>2. QED
  BY <1>1, Invariant, PTL
=============================================================================
