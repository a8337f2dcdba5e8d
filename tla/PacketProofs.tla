---------------------------- MODULE PacketProofs ----------------------------
(***************************************************************************)
(* Facts about the format of an encrypted stream (module Packets) for      *)
(* every payload, header and tag size: how a value is cut into packets,    *)
(* and that appending to the start of an encoding the bytes of the packet  *)
(* that comes next gives a longer start of it.                             *)
(***************************************************************************)
EXTENDS Packets, SequenceTheorems, TLAPS

(* A sequence that holds the elements of two others is their              *)
(* concatenation; one that holds those from m + 1 to n is a subsequence.   *)
LEMMA ConcatIs ==
  ASSUME NEW S, NEW u \in Seq(S), NEW v \in Seq(S), NEW w \in Seq(S),
         Len(w) = Len(u) + Len(v),
         \A k \in 1 .. Len(u) : w[k] = u[k],
         \A k \in 1 .. Len(v) : w[Len(u) + k] = v[k]
  PROVE  u \o v = w
<1>. DEFINE x == u \o v
<1>1. /\ x \in Seq(S) /\ Len(x) = Len(u) + Len(v)
      /\ \A i \in 1 .. Len(u) + Len(v) : x[i] = IF i <= Len(u) THEN u[i] ELSE v[i - Len(u)]
  BY ConcatProperties
<1>2. Len(u) \in Nat /\ Len(v) \in Nat
  BY LenProperties
<1>. HIDE DEF x
<1>3. ASSUME NEW i \in 1 .. Len(w)
      PROVE  x[i] = w[i]
  <2>1. CASE i <= Len(u)
    BY <1>1, <1>2, <2>1
  <2>2. CASE i > Len(u)
    <3>1. i - Len(u) \in 1 .. Len(v) /\ Len(u) + (i - Len(u)) = i
      BY <1>2, <2>2
    <3>2. w[Len(u) + (i - Len(u))] = v[i - Len(u)]
      BY <3>1
    <3>. QED  BY <1>1, <1>2, <2>2, <3>1, <3>2
  <2>. QED  BY <1>2, <2>1, <2>2
<1>4. x = w
  BY <1>1, <1>3, SeqEqual
<1>. QED  BY <1>4 DEF x

LEMMA SubSeqIs ==
  ASSUME NEW S, NEW u \in Seq(S), NEW w \in Seq(S), NEW m \in Nat, NEW n \in Int,
         m + Len(w) <= Len(u), n = m + Len(w),
         \A k \in 1 .. Len(w) : w[k] = u[m + k]
  PROVE  SubSeq(u, m + 1, n) = w
<1>. DEFINE x == SubSeq(u, m + 1, n)
<1>1. Len(u) \in Nat /\ Len(w) \in Nat /\ \A i \in 1 .. Len(u) : u[i] \in S
  BY LenProperties, ElementOfSeq
<1>2. \A i \in m + 1 .. n : u[i] \in S
  BY <1>1
<1>3. /\ x \in Seq(S)
      /\ Len(x) = IF m + 1 <= n THEN n - (m + 1) + 1 ELSE 0
      /\ \A i \in 1 .. n - (m + 1) + 1 : x[i] = u[(m + 1) + i - 1]
  BY <1>2, SubSeqProperties
<1>. HIDE DEF x
<1>4. Len(x) = Len(w) /\ \A i \in 1 .. Len(w) : x[i] = w[i]
  <2>1. Len(x) = Len(w) /\ n - (m + 1) + 1 = Len(w)
    BY <1>1, <1>3
  <2>2. \A i \in 1 .. Len(w) : (m + 1) + i - 1 = m + i
    BY <1>1
  <2>. QED  BY <1>3, <2>1, <2>2
<1>5. x = w
  BY <1>3, <1>4, SeqEqual
<1>. QED  BY <1>5 DEF x
-----------------------------------------------------------------------------
LEMMA SizesArePositive ==
  /\ MaxPayloadSize \in Nat \ {0}
  /\ HeaderSize \in Nat \ {0}
  /\ TagSize \in Nat
  /\ MaxBufferSize \in Nat \ {0}
  /\ MaxPayloadSize < MaxBufferSize
  BY PacketAssumption DEF MaxBufferSize

(* A value is cut into as many packets as it takes to hold it. *)
LEMMA NumPacketsBounds ==
  ASSUME NEW size \in Nat
  PROVE  /\ NumPackets(size) \in Nat
         /\ size <= NumPackets(size) * MaxPayloadSize
         /\ NumPackets(size) * MaxPayloadSize < size + MaxPayloadSize
  BY PacketAssumption DEF NumPackets

(* The packet in which a value ends is the last one. *)
LEMMA LastPacket ==
  ASSUME NEW size \in Nat, NEW n \in Nat, n * MaxPayloadSize < size
  PROVE  /\ n <= NumPackets(size) - 1
         /\ n = NumPackets(size) - 1 <=> size <= (n + 1) * MaxPayloadSize
<1>. DEFINE m == NumPackets(size)
            P == MaxPayloadSize
<1>1. P \in Nat \ {0}
  BY PacketAssumption
<1>2. m \in Nat /\ size <= m * P /\ m * P < size + P
  BY NumPacketsBounds
<1>. HIDE DEF m, P
<1>3. n * P < m * P
  <2>1. n * P < size
    BY DEF P
  <2>. QED  BY <2>1, <1>1, <1>2
<1>4. n < m
  BY <1>1, <1>2, <1>3
<1>5. ASSUME n = m - 1
      PROVE  size <= (n + 1) * P
  BY <1>2, <1>5
<1>6. ASSUME size <= (n + 1) * P
      PROVE  n = m - 1
  <2>1. m * P < (n + 1) * P + P
    BY <1>1, <1>2, <1>6
  <2>2. m * P < (n + 2) * P
    BY <1>1, <1>2, <2>1
  <2>3. m < n + 2
    BY <1>1, <1>2, <2>2
  <2>. QED  BY <1>2, <1>4, <2>3
<1>. QED  BY <1>2, <1>4, <1>5, <1>6 DEF m, P

(* A packet of a value holds at least one byte of it and at most           *)
(* MaxPayloadSize, and any packet but the last is full.                    *)
LEMMA PacketLengths ==
  ASSUME NEW s, NEW size \in Nat, NEW n \in Nat, n * MaxPayloadSize < size
  PROVE  LET p == PacketAt(s, size, n)
         IN  /\ PayloadLength(p) \in 1 .. MaxPayloadSize
             /\ p.stream = s /\ p.seq = n
             /\ p.final \in BOOLEAN
             /\ p.first = n * MaxPayloadSize + 1
             /\ p.last = p.first + PayloadLength(p) - 1
             /\ PacketLength(p) = HeaderSize + TagSize + PayloadLength(p)
             /\ PacketLength(p) \in 1 .. MaxBufferSize
             /\ p.final <=> n = NumPackets(size) - 1
             /\ p.final => p.first + PayloadLength(p) - 1 = size
             /\ ~p.final => /\ PayloadLength(p) = MaxPayloadSize
                            /\ PacketLength(p) = MaxBufferSize
                            /\ (n + 1) * MaxPayloadSize < size
<1>. DEFINE a == n * MaxPayloadSize
            b == (n + 1) * MaxPayloadSize
            p == PacketAt(s, size, n)
<1>1. a \in Nat /\ b = a + MaxPayloadSize
  BY PacketAssumption
<1>2. n = NumPackets(size) - 1 <=> size <= b
  BY LastPacket
<1>3. /\ p.stream = s /\ p.seq = n /\ p.first = a + 1
      /\ p.last = IF b < size THEN b ELSE size
      /\ p.final = (n = NumPackets(size) - 1)
  BY DEF PacketAt, Lesser
<1>4. a < size
  OBVIOUS
<1>. HIDE DEF a, b, p
<1>5. PayloadLength(p) = (IF b < size THEN b ELSE size) - a
  BY <1>1, <1>3, PacketAssumption DEF PayloadLength
<1>6. PayloadLength(p) \in 1 .. MaxPayloadSize
  BY <1>1, <1>4, <1>5, PacketAssumption
<1>7. PacketLength(p) = HeaderSize + TagSize + PayloadLength(p)
  BY DEF PacketLength
<1>8. /\ p.final \in BOOLEAN
      /\ p.final <=> n = NumPackets(size) - 1
  BY <1>3
<1>9. /\ PacketLength(p) \in 1 .. MaxBufferSize
      /\ PayloadLength(p) = MaxPayloadSize => PacketLength(p) = MaxBufferSize
  BY <1>6, <1>7, PacketAssumption DEF MaxBufferSize
<1>10. /\ p.last = p.first + PayloadLength(p) - 1
       /\ p.first = a + 1
  BY <1>1, <1>3, <1>4, <1>5, PacketAssumption
<1>11. p.final => p.first + PayloadLength(p) - 1 = size
  BY <1>1, <1>2, <1>3, <1>4, <1>5, <1>8, PacketAssumption
<1>12. ~p.final => b < size /\ PayloadLength(p) = MaxPayloadSize
  BY <1>1, <1>2, <1>3, <1>4, <1>5, <1>8, PacketAssumption
<1>. QED
  BY <1>3, <1>6, <1>7, <1>8, <1>9, <1>10, <1>11, <1>12 DEF a, b, p
-----------------------------------------------------------------------------
(* Byte number k of the encoding of a value, and the first n of them.      *)

EncodedByte(stream, size, k) ==
  <<PacketAt(stream, size, (k - 1) \div MaxBufferSize), ((k - 1) % MaxBufferSize) + 1>>

Start(stream, size, n) == [k \in 1 .. n |-> EncodedByte(stream, size, k)]

(* The bytes an encoding is made of. *)
Bytes(stream, size) == {EncodedByte(stream, size, k) : k \in Nat}

(* The places of a packet. *)
PacketPlace(p) == {p} \X Nat

EncodedLength(size) == size + NumPackets(size) * (HeaderSize + TagSize)

LEMMA EncodingIsStart ==
  ASSUME NEW s, NEW size \in Nat
  PROVE  /\ EncodedLength(size) \in Nat
         /\ Encoding(s, size) = Start(s, size, EncodedLength(size))
<1>1. EncodedLength(size) \in Nat
  <2>. DEFINE m == NumPackets(size)
              T == HeaderSize + TagSize
  <2>1. m \in Nat /\ T \in Nat
    BY NumPacketsBounds, PacketAssumption
  <2>. HIDE DEF m, T
  <2>2. m * T \in Nat
    BY <2>1
  <2>. QED  BY <2>2 DEF EncodedLength, m, T
<1>. QED  BY <1>1 DEF Encoding, Start, EncodedByte, EncodedLength

(* Before packet n lie n full packets; the last packet ends the encoding.  *)
LEMMA PacketPlaces ==
  ASSUME NEW s, NEW size \in Nat, NEW n \in Nat, n * MaxPayloadSize < size
  PROVE  LET p == PacketAt(s, size, n)
         IN  /\ n * MaxBufferSize \in Nat
             /\ (n + 1) * MaxBufferSize = n * MaxBufferSize + MaxBufferSize
             /\ n * MaxBufferSize + PacketLength(p) <= EncodedLength(size)
             /\ p.final => n * MaxBufferSize + PacketLength(p) = EncodedLength(size)
<1>. DEFINE p == PacketAt(s, size, n)
            m == NumPackets(size)
            T == HeaderSize + TagSize
<1>1. /\ m \in Nat /\ n <= m - 1
      /\ T \in Nat /\ MaxBufferSize = MaxPayloadSize + T
      /\ MaxPayloadSize \in Nat \ {0}
  BY LastPacket, NumPacketsBounds, PacketAssumption DEF MaxBufferSize
<1>2. /\ PacketLength(p) = T + PayloadLength(p)
      /\ PayloadLength(p) \in 1 .. MaxPayloadSize
      /\ p.final <=> n = m - 1
      /\ p.final => n * MaxPayloadSize + PayloadLength(p) = size
      /\ ~p.final => /\ PayloadLength(p) = MaxPayloadSize
                     /\ (n + 1) * MaxPayloadSize < size
  BY PacketLengths, <1>1
<1>. HIDE DEF p, m, T
<1>3. /\ n * MaxBufferSize = n * MaxPayloadSize + n * T
      /\ (n + 1) * T = n * T + T
      /\ (n + 1) * MaxPayloadSize = n * MaxPayloadSize + MaxPayloadSize
      /\ (n + 1) * MaxBufferSize = n * MaxBufferSize + MaxBufferSize
      /\ n * MaxPayloadSize \in Nat /\ n * T \in Nat
  BY <1>1
<1>4. m * T >= (n + 1) * T
  <2>1. m - (n + 1) \in Nat
    BY <1>1
  <2>2. m * T = (n + 1) * T + (m - (n + 1)) * T
    BY <1>1, <2>1
  <2>3. (m - (n + 1)) * T \in Nat
    BY <1>1, <2>1
  <2>. QED  BY <1>1, <1>3, <2>2, <2>3
<1>5. EncodedLength(size) = size + m * T /\ m * T \in Nat
  BY <1>1 DEF EncodedLength, m, T
<1>6. CASE p.final
  <2>1. m * T = (n + 1) * T
    BY <1>1, <1>2, <1>6
  <2>. QED  BY <1>1, <1>2, <1>3, <1>5, <1>6, <2>1 DEF p
<1>7. CASE ~p.final
  BY <1>1, <1>2, <1>3, <1>4, <1>5, <1>7 DEF p
<1>. QED  BY <1>6, <1>7

(* Place j of packet n is byte n * MaxBufferSize + j of the encoding. *)
LEMMA ByteOfPacket ==
  ASSUME NEW s, NEW size \in Nat, NEW n \in Nat, NEW j \in 1 .. MaxBufferSize
  PROVE  EncodedByte(s, size, n * MaxBufferSize + j) = <<PacketAt(s, size, n), j>>
<1>. DEFINE M == MaxBufferSize
            k == n * MaxBufferSize + j - 1
<1>1. M \in Nat \ {0} /\ k \in Nat /\ j - 1 \in 0 .. M - 1
  BY SizesArePositive
<1>2. k = n * M + (j - 1)
  BY <1>1, SizesArePositive
<1>3. k \div M = n /\ k % M = j - 1
  <2>. HIDE DEF M, k
  <2>1. /\ k \div M \in Nat /\ k % M \in 0 .. M - 1
        /\ k = ((k \div M) * M) + (k % M)
    BY <1>1
  <2>2. k < (n + 1) * M /\ n * M <= k
    BY <1>1, <1>2
  <2>3. (k \div M) * M <= k /\ k < ((k \div M) + 1) * M
    BY <1>1, <2>1
  <2>4. n * M < ((k \div M) + 1) * M /\ (k \div M) * M < (n + 1) * M
    BY <1>1, <2>1, <2>2, <2>3
  <2>5. n < (k \div M) + 1 /\ k \div M < n + 1
    BY <1>1, <2>1, <2>4
  <2>6. k \div M = n
    BY <2>1, <2>5
  <2>. QED  BY <1>1, <1>2, <2>1, <2>6
<1>4. n * MaxBufferSize + j - 1 = k
  OBVIOUS
<1>. QED  BY <1>1, <1>3, <1>4 DEF EncodedByte

LEMMA StartIsSeq ==
  ASSUME NEW s, NEW size, NEW n \in Nat
  PROVE  /\ Len(Start(s, size, n)) = n
         /\ Start(s, size, n) \in Seq(Bytes(s, size))
         /\ \A k \in 1 .. n : Start(s, size, n)[k] = EncodedByte(s, size, k)
  BY DEF Start, Bytes

LEMMA PacketBytesIsSeq ==
  ASSUME NEW p, PacketLength(p) \in Nat
  PROVE  /\ Len(PacketBytes(p)) = PacketLength(p)
         /\ PacketBytes(p) \in Seq(PacketPlace(p))
         /\ \A k \in 1 .. PacketLength(p) : PacketBytes(p)[k] = <<p, k>>
  BY DEF PacketBytes, PacketPlace

(* The start of a start. *)
LEMMA StartOfStart ==
  ASSUME NEW s, NEW size, NEW n \in Nat, NEW m \in 0 .. n
  PROVE  SubSeq(Start(s, size, n), 1, m) = Start(s, size, m)
<1>1. /\ Start(s, size, n) \in Seq(Bytes(s, size)) /\ Len(Start(s, size, n)) = n
      /\ \A k \in 1 .. n : Start(s, size, n)[k] = EncodedByte(s, size, k)
  BY StartIsSeq
<1>2. /\ Start(s, size, m) \in Seq(Bytes(s, size)) /\ Len(Start(s, size, m)) = m
      /\ \A k \in 1 .. m : Start(s, size, m)[k] = EncodedByte(s, size, k)
  BY StartIsSeq
<1>3. \A k \in 1 .. m : Start(s, size, m)[k] = Start(s, size, n)[0 + k]
  BY <1>1, <1>2
<1>4. SubSeq(Start(s, size, n), 0 + 1, m) = Start(s, size, m)
  BY <1>1, <1>2, <1>3, SubSeqIs
<1>. QED  BY <1>4

(* Bytes a + 1 to b of a packet. *)
LEMMA PacketPart ==
  ASSUME NEW p, PacketLength(p) \in Nat,
         NEW b \in 0 .. PacketLength(p), NEW a \in 0 .. b
  PROVE  LET part == SubSeq(PacketBytes(p), a + 1, b)
         IN  /\ part \in Seq(PacketPlace(p))
             /\ Len(part) = b - a
             /\ \A k \in 1 .. b - a : part[k] = <<p, a + k>>
<1>1. \A i \in a + 1 .. b : /\ PacketBytes(p)[i] = <<p, i>>
                            /\ PacketBytes(p)[i] \in PacketPlace(p)
  <2>1. \A i \in a + 1 .. b : i \in 1 .. PacketLength(p) /\ i \in Nat
    OBVIOUS
  <2>2. \A i \in a + 1 .. b : PacketBytes(p)[i] = <<p, i>>
    BY <2>1, PacketBytesIsSeq
  <2>. QED  BY <2>1, <2>2 DEF PacketPlace
<1>2. /\ SubSeq(PacketBytes(p), a + 1, b) \in Seq(PacketPlace(p))
      /\ Len(SubSeq(PacketBytes(p), a + 1, b)) = IF a + 1 <= b THEN b - (a + 1) + 1 ELSE 0
      /\ \A i \in 1 .. b - (a + 1) + 1 :
           SubSeq(PacketBytes(p), a + 1, b)[i] = PacketBytes(p)[(a + 1) + i - 1]
  BY <1>1, SubSeqProperties
<1>3. \A i \in 1 .. b - a : (a + 1) + i - 1 = a + i /\ a + i \in a + 1 .. b
  OBVIOUS
<1>4. b - (a + 1) + 1 = b - a
  OBVIOUS
<1>. QED  BY <1>1, <1>2, <1>3, <1>4

(* Bytes a + 1 to b of packet n, behind the encoding up to its byte a.     *)
LEMMA StartGrows ==
  ASSUME NEW s, NEW size \in Nat, NEW n \in Nat, n * MaxPayloadSize < size,
         NEW b \in 0 .. PacketLength(PacketAt(s, size, n)), NEW a \in 0 .. b
  PROVE  Start(s, size, n * MaxBufferSize + a)
           \o SubSeq(PacketBytes(PacketAt(s, size, n)), a + 1, b)
           = Start(s, size, n * MaxBufferSize + b)
<1>. DEFINE p == PacketAt(s, size, n)
            t == n * MaxBufferSize
<1>1. /\ t \in Nat /\ PacketLength(p) \in 1 .. MaxBufferSize
      /\ b \in 0 .. PacketLength(p)
  BY PacketPlaces, PacketLengths
<1>2. \A j \in 1 .. b : EncodedByte(s, size, t + j) = <<p, j>>
  <2>1. b \in Nat /\ b <= MaxBufferSize
    BY <1>1, SizesArePositive
  <2>2. \A j \in 1 .. b : j \in 1 .. MaxBufferSize
    BY <2>1, SizesArePositive
  <2>. QED  BY <2>2, ByteOfPacket
<1>. HIDE DEF p, t
<1>. SUFFICES Start(s, size, t + a) \o SubSeq(PacketBytes(p), a + 1, b)
                = Start(s, size, t + b)
  BY DEF p, t
<1>3. PICK part : part = SubSeq(PacketBytes(p), a + 1, b)
  OBVIOUS
<1>4. /\ part \in Seq(PacketPlace(p)) /\ Len(part) = b - a
      /\ \A k \in 1 .. b - a : part[k] = <<p, a + k>>
  <2>1. PacketLength(p) \in Nat
    BY <1>1, SizesArePositive
  <2>. QED  BY <1>1, <1>3, <2>1, PacketPart
<1>5. PICK left : left = Start(s, size, t + a)
  OBVIOUS
<1>6. /\ left \in Seq(Bytes(s, size)) /\ Len(left) = t + a
      /\ \A k \in 1 .. t + a : left[k] = EncodedByte(s, size, k)
  BY <1>1, <1>5, StartIsSeq
<1>7. PICK all : all = Start(s, size, t + b)
  OBVIOUS
<1>8. /\ all \in Seq(Bytes(s, size)) /\ Len(all) = t + b
      /\ \A k \in 1 .. t + b : all[k] = EncodedByte(s, size, k)
  BY <1>1, <1>7, StartIsSeq
<1>9. PICK B : Bytes(s, size) \subseteq B /\ PacketPlace(p) \subseteq B
  <2>. WITNESS Bytes(s, size) \cup PacketPlace(p)
  <2>. QED  OBVIOUS
<1>10. left \in Seq(B) /\ all \in Seq(B) /\ part \in Seq(B)
  BY <1>4, <1>6, <1>8, <1>9, SeqMonotonic
<1>11. \A k \in 1 .. Len(left) : all[k] = left[k]
  BY <1>1, <1>6, <1>8
<1>12. \A k \in 1 .. Len(part) : all[Len(left) + k] = part[k]
  <2>1. \A k \in 1 .. b - a : /\ (t + a) + k = t + (a + k) /\ a + k \in 1 .. b
                              /\ t + (a + k) \in 1 .. t + b
    BY <1>1
  <2>. QED  BY <1>2, <1>4, <1>6, <1>8, <2>1, ZenonT(60)
<1>13. Len(all) = Len(left) + Len(part)
  BY <1>1, <1>4, <1>6, <1>8
<1>14. left \o part = all
  BY <1>10, <1>11, <1>12, <1>13, ConcatIs
<1>. QED  BY <1>3, <1>5, <1>7, <1>14
-----------------------------------------------------------------------------
(* n bytes of a value after the first a.                                   *)
Letters(s) == {s} \X Nat

Stretch(s, a, n) == [k \in 1 .. n |-> <<s, a + k>>]

LEMMA StretchIsSeq ==
  ASSUME NEW s, NEW a \in Nat, NEW n \in Nat
  PROVE  /\ Len(Stretch(s, a, n)) = n
         /\ Stretch(s, a, n) \in Seq(Letters(s))
         /\ \A k \in 1 .. n : Stretch(s, a, n)[k] = <<s, a + k>>
  BY DEF Stretch, Letters

LEMMA ValueIsSeq ==
  ASSUME NEW s, NEW n \in Nat
  PROVE  /\ Len(Value(s, n)) = n
         /\ Value(s, n) \in Seq(Letters(s))
         /\ \A k \in 1 .. n : Value(s, n)[k] = <<s, k>>
  BY DEF Value, Letters

(* The payload of packet n is the bytes after n full payloads. *)
LEMMA PayloadIsStretch ==
  ASSUME NEW s, NEW size \in Nat, NEW n \in Nat, n * MaxPayloadSize < size
  PROVE  LET p == PacketAt(s, size, n)
         IN  Payload(p) = Stretch(s, n * MaxPayloadSize, PayloadLength(p))
<1>. DEFINE p == PacketAt(s, size, n)
            a == n * MaxPayloadSize
<1>1. p.stream = s /\ p.first = a + 1 /\ PayloadLength(p) \in Nat
  BY PacketLengths, PacketAssumption
<1>2. a \in Nat
  BY PacketAssumption
<1>. HIDE DEF p, a
<1>3. \A k \in 1 .. PayloadLength(p) : p.first + k - 1 = a + k
  BY <1>1, <1>2
<1>. QED  BY <1>1, <1>3 DEF Payload, Stretch, p, a

LEMMA SubStretch ==
  ASSUME NEW s, NEW a \in Nat, NEW n \in Nat, NEW j \in 0 .. n, NEW i \in 0 .. j
  PROVE  SubSeq(Stretch(s, a, n), i + 1, j) = Stretch(s, a + i, j - i)
<1>1. PICK left : left = Stretch(s, a, n)
  OBVIOUS
<1>2. /\ left \in Seq(Letters(s)) /\ Len(left) = n
      /\ \A k \in 1 .. n : left[k] = <<s, a + k>>
  BY <1>1, StretchIsSeq
<1>3. PICK right : right = Stretch(s, a + i, j - i)
  OBVIOUS
<1>4. /\ right \in Seq(Letters(s)) /\ Len(right) = j - i
      /\ \A k \in 1 .. j - i : right[k] = <<s, (a + i) + k>>
  <2>1. a + i \in Nat /\ j - i \in Nat
    OBVIOUS
  <2>. QED  BY <1>3, <2>1, StretchIsSeq
<1>5. \A k \in 1 .. j - i : i + k \in 1 .. n /\ a + (i + k) = (a + i) + k
  OBVIOUS
<1>6. \A k \in 1 .. Len(right) : right[k] = left[i + k]
  BY <1>2, <1>4, <1>5
<1>7. SubSeq(left, i + 1, j) = right
  BY <1>2, <1>4, <1>6, SubSeqIs
<1>. QED  BY <1>1, <1>3, <1>7

(* The bytes that follow, behind the first a of a value. *)
LEMMA ValueGrows ==
  ASSUME NEW s, NEW a \in Nat, NEW n \in Nat
  PROVE  Value(s, a) \o Stretch(s, a, n) = Value(s, a + n)
<1>1. PICK left : left = Value(s, a)
  OBVIOUS
<1>2. left \in Seq(Letters(s)) /\ Len(left) = a /\ \A k \in 1 .. a : left[k] = <<s, k>>
  BY <1>1, ValueIsSeq
<1>3. PICK all : all = Value(s, a + n)
  OBVIOUS
<1>4. /\ all \in Seq(Letters(s)) /\ Len(all) = a + n
      /\ \A k \in 1 .. a + n : all[k] = <<s, k>>
  BY <1>3, ValueIsSeq
<1>5. PICK right : right = Stretch(s, a, n)
  OBVIOUS
<1>6. /\ right \in Seq(Letters(s)) /\ Len(right) = n
      /\ \A k \in 1 .. n : right[k] = <<s, a + k>>
  BY <1>5, StretchIsSeq
<1>7. \A k \in 1 .. Len(left) : all[k] = left[k]
  <2>1. \A k \in 1 .. a : k \in 1 .. a + n
    OBVIOUS
  <2>. QED  BY <1>2, <1>4, <2>1
<1>8. \A k \in 1 .. Len(right) : all[Len(left) + k] = right[k]
  <2>1. \A k \in 1 .. n : a + k \in 1 .. a + n
    OBVIOUS
  <2>. QED  BY <1>2, <1>4, <1>6, <2>1
<1>9. Len(all) = Len(left) + Len(right)
  BY <1>2, <1>4, <1>6
<1>10. left \o right = all
  BY <1>2, <1>4, <1>6, <1>7, <1>8, <1>9, ConcatIs
<1>. QED  BY <1>1, <1>3, <1>5, <1>10
=============================================================================
