------------------------------ MODULE CPacket ------------------------------
(***************************************************************************)
(* CPacket: a message under construction or being read, with room for the  *)
(* header in front of its buffer, and the coding of its bytes.  A packet   *)
(* is a record; values are written and read as the bytes they consist of.  *)
(* A byte has Bits bits; a length is one cell.                             *)
(***************************************************************************)
EXTENDS Integers, Sequences

CONSTANTS eBUFFER_DEFAULT,  \* buffer_size of every packet
          Bits,
          packet_code, packet_key,
          BitXor(_, _)         \* the operator ^ of the code

ASSUME PacketSize == eBUFFER_DEFAULT \in Nat /\ eBUFFER_DEFAULT > 1
ASSUME PacketKeys == Bits \in Nat \ {0} /\ packet_key \in 0 .. 2^Bits - 1
                     /\ packet_code \in Nat

Modulus == 2^Bits
Bytes   == 0 .. Modulus - 1

ASSUME XorCancels ==
    \A a, b \in Bytes : BitXor(a, b) \in Bytes /\ BitXor(BitXor(a, b), b) = a

\* Positions of buffer are counted from 1.
Fresh == [code |-> 0, len |-> 0, rand_key |-> 0, check_sum |-> 0,
          buffer |-> [i \in 1 .. eBUFFER_DEFAULT |-> 0],
          data_size |-> 0, write_pos |-> 0, read_pos |-> 0]

\* Mutant: the place the last user has read to stays.
Clear_KeepsRead(packet) == [packet EXCEPT !.data_size = 0, !.write_pos = 0]

\* Alloc clears a packet that comes from the pool: header and bytes stay.
Clear(packet) == [packet EXCEPT !.data_size = 0, !.write_pos = 0, !.read_pos = 0]

Alloc(pooled) == Clear(pooled)

\* memcpy of src to the place after at.
Overlaid(buffer, at, src) ==
    [i \in DOMAIN buffer |-> IF at < i /\ i <= at + Len(src) THEN src[i - at] ELSE buffer[i]]

\* 0 bytes are written, and nobody is told, when the last byte of the buffer
\* would be used.
PutData(packet, src) ==
    IF eBUFFER_DEFAULT <= packet.write_pos + Len(src) THEN packet
    ELSE [packet EXCEPT !.buffer = Overlaid(@, packet.write_pos, src),
                        !.write_pos = @ + Len(src),
                        !.data_size = @ + Len(src)]

\* A value that is not there is not read; its variable keeps what it was.
CanGet(packet, size) == size <= packet.data_size

GetData(packet, size) ==
    IF ~CanGet(packet, size) THEN packet
    ELSE [packet EXCEPT !.read_pos = @ + size, !.data_size = @ - size]

Got(packet, size) == SubSeq(packet.buffer, packet.read_pos + 1, packet.read_pos + size)

\* operator<< of one value after the other, and operator>> into variables of the
\* given sizes.
Write(packet, values) ==
    LET w[i \in 0 .. Len(values)] == IF i = 0 THEN packet ELSE PutData(w[i - 1], values[i])
    IN  w[Len(values)]

ReadValue(r, size) ==
    IF CanGet(r.packet, size)
      THEN [packet |-> GetData(r.packet, size), values |-> Append(r.values, Got(r.packet, size))]
      ELSE r

Read(packet, sizes) ==
    LET r[i \in 0 .. Len(sizes)] == IF i = 0 THEN [packet |-> packet, values |-> <<>>]
                                              ELSE ReadValue(r[i - 1], sizes[i])
    IN  r[Len(sizes)]

MoveWritePos(packet, size) ==
    IF size <= 0 THEN packet
    ELSE LET moved == IF packet.write_pos + size >= eBUFFER_DEFAULT
                        THEN eBUFFER_DEFAULT - packet.write_pos - 1 ELSE size IN
         [packet EXCEPT !.write_pos = @ + moved, !.data_size = @ + moved]

Payload(packet) == SubSeq(packet.buffer, 1, packet.data_size)

\* The header as it lies in front of the buffer, and the bytes that are sent.
GetBufferPtrLan(packet) == <<packet.data_size>> \o Payload(packet)
GetBufferPtrNet(packet) ==
    <<packet.code, packet.data_size, packet.rand_key, packet.check_sum>> \o Payload(packet)

LanHeaderSize == 1
NetHeaderSize == 4

\* Dequeue into the place GetBufferPtrLan or GetBufferPtrNet returned.
FilledLan(packet, bytes) ==
    [packet EXCEPT !.len = bytes[1], !.buffer = Overlaid(@, 0, Tail(bytes))]
FilledNet(packet, bytes) ==
    [packet EXCEPT !.code = bytes[1], !.len = bytes[2], !.rand_key = bytes[3],
                   !.check_sum = bytes[4],
                   !.buffer = Overlaid(@, 0, SubSeq(bytes, 5, Len(bytes)))]

Plus(a, b) == (a + b) % Modulus

CheckSum(bytes) ==
    LET s[i \in 0 .. Len(bytes)] == IF i = 0 THEN 0 ELSE Plus(s[i - 1], bytes[i])
    IN  s[Len(bytes)]

\* Each byte is xored with the key, its place and the byte coded before it.
Coded(d, key) ==
    LET c[i \in 0 .. Len(d)] == IF i = 0 THEN 0 ELSE BitXor(d[i], Plus(c[i - 1], key + i))
    IN  [i \in 1 .. Len(d) |-> c[i]]

\* Mutant: the byte before is left out.
Decoded_NoCarry(e, key) == [i \in 1 .. Len(e) |-> BitXor(e[i], Plus(0, key + i))]

Decoded(e, key) ==
    [i \in 1 .. Len(e) |-> BitXor(e[i], Plus(IF i = 1 THEN 0 ELSE e[i - 1], key + i))]

\* Checksum and bytes are coded in one chain, first with rand_key, then with packet_key.
Encode(packet, r_key) ==
    LET d == <<CheckSum(Payload(packet))>> \o Payload(packet)
        e == Coded(Coded(d, r_key), packet_key) IN
    [packet EXCEPT !.code = packet_code, !.len = packet.data_size, !.rand_key = r_key,
                   !.check_sum = e[1], !.buffer = Overlaid(@, 0, Tail(e))]

\* The other way round, and the test of the checksum.
Decode(packet) ==
    LET e == <<packet.check_sum>> \o Payload(packet)
        d == Decoded(Decoded(e, packet_key), packet.rand_key) IN
    [ok |-> CheckSum(Tail(d)) = d[1],
     packet |-> [packet EXCEPT !.check_sum = d[1], !.buffer = Overlaid(@, 0, Tail(d))]]
=============================================================================
