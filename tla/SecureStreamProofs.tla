------------------------- MODULE SecureStreamProofs -------------------------
(***************************************************************************)
(* What module SecureStream promises, for every payload, header and tag    *)
(* size, every two values and every lengths of the slices that Read is     *)
(* given: the encryptor makes the encoding, the decryptor takes it back,   *)
(* and no file that a Put leaves behind, torn or read while it changes, is *)
(* taken for anything but the start of one value (module Delivery).        *)
(*                                                                         *)
(* The argument: the file is at every moment the start of one of the two   *)
(* encodings, so that byte k of what a Get has read is byte k of one of    *)
(* them, though the bytes may come from both.  A run of them that opens is *)
(* a packet, whole; the first byte of the run says which one: the packet   *)
(* that is next, by its place, of the value that it is from.               *)
(***************************************************************************)
EXTENDS SecureStream, PacketProofs

(* The file of a value. *)
Whole(v) == Start(v, sizes[v], EncodedLength(sizes[v]))

(* Types of the two readers. *)
SealTypes ==
  /\ sealAt \in {"idle", "drain", "fill", "eof"}
  /\ sealRoom \in Nat /\ taken \in Nat /\ sealSeq \in Nat
  /\ sealFinal \in BOOLEAN /\ packetOffset \in Nat
  /\ Len(out) \in Nat

OpenTypes ==
  /\ openAt \in {"idle", "drain", "fill", "eof", "error"}
  /\ openRoom \in Nat /\ used \in Nat /\ openSeq \in Nat
  /\ ref \in {0, Old, New}
  /\ openFinal \in BOOLEAN /\ dataOffset \in Nat
  /\ Len(plain) \in Nat

SizeTypes == sizes[Old] \in Nat \ {0} /\ sizes[New] \in Nat

PhaseTypes ==
  /\ put \in {"new", "copy", "done", "stopped"}
  /\ get \in {"read", "decrypt"}

(* The encryptor is one byte ahead of the packet it seals next. *)
ByteAhead ==
  ~sealFinal => \/ taken = 0 /\ sealSeq = 0
                \/ /\ taken = sealSeq * MaxPayloadSize + 1
                   /\ taken <= sizes[New]

(* What e.buffer holds is the packet that was sealed last. *)
PacketHeld ==
  packetOffset > 0 =>
    /\ sealSeq > 0
    /\ (sealSeq - 1) * MaxPayloadSize < sizes[New]
    /\ packet = PacketAt(New, sizes[New], sealSeq - 1)
    /\ packetOffset <= PacketLength(packet)
    /\ packet.final = sealFinal

(* What of it has not been returned. *)
Unsent == IF packetOffset > 0 THEN PacketLength(packet) - packetOffset ELSE 0

(* What was returned and what was not make whole packets. *)
OutIsStart ==
  /\ out = Start(New, sizes[New], Len(out))
  /\ Len(out) + Unsent = IF sealFinal THEN EncodedLength(sizes[New])
                                      ELSE sealSeq * MaxBufferSize

SealSteps ==
  /\ sealAt = "drain" => packetOffset > 0
  /\ sealAt = "fill" => packetOffset = 0 /\ (~sealFinal => taken > 0)
  /\ sealAt = "eof" => packetOffset = 0 /\ sealFinal

(* The file is the old value's until it is truncated, then the start of    *)
(* what the encryptor has returned, and all of it when the copy ends.      *)
FileIsStart ==
  IF put = "new" THEN file = Whole(Old)
  ELSE /\ Len(file) \in 0 .. Len(out)
       /\ file = Start(New, sizes[New], Len(file))

DoneWhole == put = "done" => sealAt = "eof" /\ file = out

(* What was read may come from both values, but each byte kept its place.  *)
GotBytes ==
  /\ Len(got) \in Nat
  /\ got = [k \in 1 .. Len(got) |-> got[k]]
  /\ \A k \in 1 .. Len(got) : \E v \in {Old, New} :
       k <= EncodedLength(sizes[v]) /\ got[k] = EncodedByte(v, sizes[v], k)

NotYet ==
  get = "read" => /\ openAt = "idle" /\ used = 0 /\ openSeq = 0 /\ ref = 0
                  /\ ~openFinal

(* The decryptor reads packet by packet. *)
UsedPackets ==
  /\ used <= Len(got)
  /\ ~openFinal => used = openSeq * MaxBufferSize

(* What of the payload in d.buffer has not been returned. *)
Held == IF dataOffset > 0 THEN Len(data) - dataOffset ELSE 0

Nothing ==
  ref = 0 => openSeq = 0 /\ ~openFinal /\ dataOffset = 0 /\ plain = <<>>

(* What was opened is the start of the value of one stream, and all of it  *)
(* after the final packet.                                                 *)
PlainIsStart ==
  ref # 0 =>
    /\ plain = Value(ref, Len(plain))
    /\ sizes[ref] > 0
    /\ Len(plain) + Held = IF openFinal THEN sizes[ref] ELSE openSeq * MaxPayloadSize
    /\ ~openFinal => openSeq * MaxPayloadSize < sizes[ref]

(* d.buffer holds the bytes that follow. *)
DataHeld ==
  dataOffset > 0 =>
    /\ Len(data) \in Nat
    /\ dataOffset < Len(data)
    /\ dataOffset <= Len(plain)
    /\ data = Stretch(ref, Len(plain) - dataOffset, Len(data))

OpenSteps ==
  /\ openAt = "drain" => dataOffset > 0 /\ openRoom > 0
  /\ openAt = "fill" => dataOffset = 0
  /\ openAt = "eof" => dataOffset = 0 /\ openFinal

(* A file that is whole is not refused. *)
WholeOpens ==
  \A v \in {Old, New} :
    get = "decrypt" /\ sizes[v] > 0 /\ got = Whole(v) =>
      /\ openAt # "error"
      /\ ref \in {0, v}
      /\ openFinal => used = Len(got)

(* The encryptor's part of the invariant, and the decryptor's. *)
SealInv == SealTypes /\ ByteAhead /\ PacketHeld /\ OutIsStart /\ SealSteps

OpenInv ==
  /\ OpenTypes
  /\ NotYet /\ UsedPackets /\ Nothing /\ PlainIsStart /\ DataHeld /\ OpenSteps
  /\ WholeOpens

IInv ==
  /\ SizeTypes /\ PhaseTypes
  /\ SealInv
  /\ FileIsStart /\ DoneWhole
  /\ GotBytes
  /\ OpenInv
-----------------------------------------------------------------------------
(* The format is the one of module Packets. *)
LEMMA EncSame ==
  /\ Enc!MaxBufferSize = MaxBufferSize
  /\ \A a, b : Enc!Lesser(a, b) = IF a < b THEN a ELSE b
  /\ \A p : Enc!PacketLength(p) = PacketLength(p)
  /\ \A p : Enc!PacketBytes(p) = PacketBytes(p)
  BY DEF Enc!MaxBufferSize, Enc!Lesser, Enc!PacketLength, Enc!PayloadLength, Enc!PacketBytes,
         MaxBufferSize, PacketLength, PayloadLength, PacketBytes

LEMMA OldNew == Old = 1 /\ New = 2
  BY DEF Old, New

(* What seal makes is the packet of the encoding that is next. *)
LEMMA SealedIsNext ==
  ASSUME SizeTypes, SealInv, ~sealFinal, taken > 0
  PROVE  /\ sealSeq * MaxPayloadSize < sizes[New]
         /\ Enc!Sealed = PacketAt(New, sizes[New], sealSeq)
         /\ taken + Enc!Ahead \in Nat
         /\ ~Enc!Sealed.final => /\ taken + Enc!Ahead = (sealSeq + 1) * MaxPayloadSize + 1
                                 /\ taken + Enc!Ahead <= sizes[New]
<1>. DEFINE a == sealSeq * MaxPayloadSize
            b == (sealSeq + 1) * MaxPayloadSize
            S == sizes[New]
<1>1. /\ S \in Nat /\ sealSeq \in Nat /\ MaxPayloadSize \in Nat \ {0}
      /\ taken = a + 1 /\ taken <= S
  BY PacketAssumption DEF SizeTypes, SealInv, SealTypes, ByteAhead
<1>2. a \in Nat /\ b = a + MaxPayloadSize
  BY <1>1
<1>3. a < S
  BY <1>1, <1>2
<1>4. (sealSeq = NumPackets(S) - 1) <=> S <= b
  BY <1>1, <1>3, LastPacket
<1>. HIDE DEF a, b
<1>5. Enc!Ahead = IF MaxPayloadSize < S - taken THEN MaxPayloadSize ELSE S - taken
  BY DEF Enc!Ahead, Enc!Lesser
<1>. DEFINE last == Enc!Ahead < MaxPayloadSize
<1>6. last <=> S <= b
  BY <1>1, <1>2, <1>5
<1>7. Enc!Sealed = [stream |-> New, seq |-> sealSeq, first |-> taken,
                    last |-> IF last THEN S ELSE taken + MaxPayloadSize - 1, final |-> last]
  BY DEF Enc!Sealed
<1>8. PacketAt(New, S, sealSeq) =
        [stream |-> New, seq |-> sealSeq, first |-> a + 1,
         last |-> IF b < S THEN b ELSE S, final |-> (sealSeq = NumPackets(S) - 1)]
  BY DEF PacketAt, Lesser, a, b
<1>. HIDE DEF last, S
<1>9. (IF last THEN S ELSE taken + MaxPayloadSize - 1) = (IF b < S THEN b ELSE S)
  BY <1>1, <1>2, <1>6
<1>10. last = (sealSeq = NumPackets(S) - 1)
  BY <1>4, <1>6 DEF last
<1>11. Enc!Sealed = PacketAt(New, S, sealSeq)
  BY <1>1, <1>7, <1>8, <1>9, <1>10
<1>12. Enc!Sealed.final = last
  BY <1>7
<1>13. taken + Enc!Ahead \in Nat
  BY <1>1, <1>2, <1>5
<1>14. ~last => taken + Enc!Ahead = b + 1 /\ taken + Enc!Ahead <= S
  BY <1>1, <1>2, <1>5, <1>6
<1>. QED  BY <1>3, <1>11, <1>12, <1>13, <1>14 DEF a, b, S

(* What is behind out once bytes a + 1 to b of packet n are appended.      *)
LEMMA Appended ==
  ASSUME SizeTypes, Len(out) \in Nat, out = Start(New, sizes[New], Len(out)),
         NEW n \in Nat, n * MaxPayloadSize < sizes[New],
         NEW b \in 0 .. PacketLength(PacketAt(New, sizes[New], n)), NEW a \in 0 .. b,
         Len(out) = n * MaxBufferSize + a,
         out' = out \o SubSeq(PacketBytes(PacketAt(New, sizes[New], n)), a + 1, b),
         sizes' = sizes
  PROVE  /\ Len(out') = n * MaxBufferSize + b
         /\ Len(out') \in Nat
         /\ Len(out) <= Len(out')
         /\ out' = Start(New, sizes[New], Len(out'))
<1>. DEFINE p == PacketAt(New, sizes[New], n)
            t == n * MaxBufferSize
<1>1. sizes[New] \in Nat
  BY DEF SizeTypes
<1>2. t \in Nat /\ PacketLength(p) \in Nat
  BY <1>1, PacketPlaces, PacketLengths, SizesArePositive
<1>3. Start(New, sizes[New], t + a) \o SubSeq(PacketBytes(p), a + 1, b)
        = Start(New, sizes[New], t + b)
  BY <1>1, StartGrows
<1>4. out' = Start(New, sizes[New], t + b)
  BY <1>3
<1>. HIDE DEF t, p
<1>5. t + b \in Nat /\ t + a <= t + b
  BY <1>2
<1>6. Len(out') = t + b
  BY <1>4, <1>5, StartIsSeq, ZenonT(60)
<1>. QED  BY <1>4, <1>5, <1>6 DEF t

(* An empty value has an empty file. *)
LEMMA NoPackets == EncodedLength(0) = 0
<1>1. NumPackets(0) = 0
  BY PacketAssumption DEF NumPackets
<1>. QED  BY <1>1, PacketAssumption DEF EncodedLength

(* Where the packet in e.buffer lies in the encoding. *)
LEMMA HeldPacket ==
  ASSUME SizeTypes, SealInv, packetOffset > 0
  PROVE  LET n == sealSeq - 1
         IN  /\ n \in Nat
             /\ n * MaxPayloadSize < sizes[New]
             /\ packet = PacketAt(New, sizes[New], n)
             /\ PacketLength(packet) \in Nat
             /\ packetOffset \in 1 .. PacketLength(packet)
             /\ n * MaxBufferSize \in Nat
             /\ Len(out) = n * MaxBufferSize + packetOffset
             /\ n * MaxBufferSize + PacketLength(packet)
                  = IF sealFinal THEN EncodedLength(sizes[New]) ELSE sealSeq * MaxBufferSize
<1>. DEFINE n == sealSeq - 1
            t == n * MaxBufferSize
            l == PacketLength(packet)
<1>1. /\ n \in Nat /\ n + 1 = sealSeq /\ packetOffset \in Nat /\ Len(out) \in Nat
      /\ sealFinal \in BOOLEAN /\ sizes[New] \in Nat
  BY DEF SealInv, SealTypes, PacketHeld, SizeTypes
<1>2. /\ n * MaxPayloadSize < sizes[New]
      /\ packet = PacketAt(New, sizes[New], n)
      /\ packetOffset <= l
      /\ packet.final = sealFinal
  BY DEF SealInv, PacketHeld
<1>3. /\ l \in Nat
      /\ ~packet.final => l = MaxBufferSize
  BY <1>1, <1>2, PacketLengths, SizesArePositive, SMTT(40)
<1>4. /\ t \in Nat
      /\ (n + 1) * MaxBufferSize = t + MaxBufferSize
      /\ packet.final => t + l = EncodedLength(sizes[New])
  BY <1>1, <1>2, PacketPlaces
<1>5. Len(out) + (l - packetOffset) = IF sealFinal THEN EncodedLength(sizes[New])
                                                   ELSE sealSeq * MaxBufferSize
  BY DEF SealInv, OutIsStart, Unsent
<1>. HIDE DEF n, t, l
<1>6. t + l = IF sealFinal THEN EncodedLength(sizes[New]) ELSE sealSeq * MaxBufferSize
  BY <1>1, <1>2, <1>3, <1>4
<1>7. packetOffset \in 1 .. l
  BY <1>1, <1>2, <1>3
<1>8. Len(out) = t + packetOffset
  BY <1>1, <1>3, <1>4, <1>5, <1>6
<1>. QED  BY <1>1, <1>2, <1>3, <1>4, <1>6, <1>7, <1>8 DEF n, t, l
-----------------------------------------------------------------------------
(* The steps of the encryptor.                                             *)

LEMMA DrainKeeps ==
  ASSUME SizeTypes, SealInv, Enc!Drain, sizes' = sizes
  PROVE  SealInv' /\ Len(out) <= Len(out')
<1>. DEFINE n == sealSeq - 1
            t == n * MaxBufferSize
            l == PacketLength(packet)
            count == IF sealRoom < l - packetOffset THEN sealRoom ELSE l - packetOffset
            X == IF sealFinal THEN EncodedLength(sizes[New]) ELSE sealSeq * MaxBufferSize
<1>1. /\ sealAt = "drain" /\ packetOffset > 0
      /\ sealAt' = IF sealRoom < l - packetOffset THEN "idle" ELSE "fill"
      /\ out' = out \o SubSeq(PacketBytes(packet), packetOffset + 1, packetOffset + count)
      /\ packetOffset' = IF sealRoom < l - packetOffset THEN packetOffset + count ELSE 0
      /\ sealRoom' = sealRoom - count
      /\ UNCHANGED <<taken, sealSeq, sealFinal, packet>>
  BY EncSame DEF Enc!Drain, SealInv, SealSteps
<1>2. /\ n \in Nat /\ n * MaxPayloadSize < sizes[New]
      /\ packet = PacketAt(New, sizes[New], n)
      /\ l \in Nat /\ packetOffset \in 1 .. l /\ t \in Nat
      /\ Len(out) = t + packetOffset /\ t + l = X
  BY <1>1, HeldPacket
<1>3. sealRoom \in Nat /\ Len(out) \in Nat /\ out = Start(New, sizes[New], Len(out))
  BY DEF SealInv, SealTypes, OutIsStart
<1>. HIDE DEF n, t, l, X
<1>4. /\ count \in Nat /\ packetOffset \in 0 .. packetOffset + count
      /\ packetOffset + count \in 0 .. l /\ sealRoom - count \in Nat
      /\ count = sealRoom \/ packetOffset + count = l
  BY <1>2, <1>3
<1>. HIDE DEF count
<1>5. /\ Len(out') = t + (packetOffset + count)
      /\ Len(out') \in Nat
      /\ Len(out) <= Len(out')
      /\ out' = Start(New, sizes[New], Len(out'))
  <2>1. packetOffset + count \in 0 .. PacketLength(PacketAt(New, sizes[New], n))
    BY <1>2, <1>4 DEF l
  <2>2. out' = out \o SubSeq(PacketBytes(PacketAt(New, sizes[New], n)),
                             packetOffset + 1, packetOffset + count)
    BY <1>1, <1>2
  <2>3. Len(out) = n * MaxBufferSize + packetOffset
    BY <1>2 DEF t
  <2>. QED  BY <1>2, <1>3, <1>4, <2>1, <2>2, <2>3, Appended DEF t
<1>6. SealTypes'
  BY <1>1, <1>2, <1>4, <1>5 DEF SealInv, SealTypes
<1>7. ByteAhead'
  BY <1>1 DEF SealInv, ByteAhead
<1>8. PacketHeld'
  <2>1. packetOffset' > 0 => packetOffset' <= l
    BY <1>1, <1>2, <1>4
  <2>. QED  BY <1>1, <2>1 DEF SealInv, PacketHeld, l
<1>9. OutIsStart'
  <2>1. Unsent' = IF packetOffset' > 0 THEN l - packetOffset' ELSE 0
    BY <1>1 DEF Unsent, l
  <2>2. Len(out') + Unsent' = X
    <3>1. CASE sealRoom < l - packetOffset
      <4>1. packetOffset' = packetOffset + count /\ packetOffset' > 0
        BY <1>1, <1>2, <1>4, <3>1
      <4>2. Unsent' = l - (packetOffset + count)
        BY <2>1, <4>1
      <4>. QED  BY <1>2, <1>4, <1>5, <4>2
    <3>2. CASE ~(sealRoom < l - packetOffset)
      <4>1. packetOffset' = 0 /\ count = l - packetOffset
        BY <1>1, <3>2 DEF count
      <4>2. Unsent' = 0
        BY <2>1, <4>1
      <4>. QED  BY <1>2, <1>5, <4>1, <4>2
    <3>. QED  BY <3>1, <3>2
  <2>3. X' = X
    BY <1>1 DEF X
  <2>. QED  BY <1>5, <2>2, <2>3 DEF OutIsStart, X
<1>10. SealSteps'
  <2>1. ~sealFinal => taken > 0
    <3>1. sealSeq # 0
      BY <1>2 DEF n
    <3>. QED  BY <3>1, PacketAssumption DEF SealInv, SealTypes, ByteAhead
  <2>2. sealRoom < l - packetOffset => packetOffset' > 0
    BY <1>1, <1>2, <1>4
  <2>. QED  BY <1>1, <2>1, <2>2 DEF SealSteps
<1>. QED  BY <1>5, <1>6, <1>7, <1>8, <1>9, <1>10 DEF SealInv

LEMMA SealToCallerKeeps ==
  ASSUME SizeTypes, SealInv, Enc!SealToCaller, sizes' = sizes
  PROVE  SealInv' /\ Len(out) <= Len(out')
<1>. DEFINE n == sealSeq
            t == n * MaxBufferSize
            p == PacketAt(New, sizes[New], n)
            l == PacketLength(p)
<1>1. /\ sealAt = "fill" /\ ~sealFinal /\ packetOffset = 0 /\ taken > 0
      /\ sealRoom >= MaxBufferSize
  BY EncSame DEF Enc!SealToCaller, SealInv, SealSteps
<1>2. /\ n \in Nat /\ n * MaxPayloadSize < sizes[New]
      /\ Enc!Sealed = p
      /\ taken + Enc!Ahead \in Nat
      /\ ~p.final => /\ taken + Enc!Ahead = (n + 1) * MaxPayloadSize + 1
                     /\ taken + Enc!Ahead <= sizes[New]
  BY <1>1, SealedIsNext DEF SealInv, SealTypes
<1>3. /\ taken' = taken + Enc!Ahead /\ sealSeq' = n + 1 /\ sealFinal' = p.final
      /\ sealAt' = IF p.final THEN "eof" ELSE "fill"
      /\ out' = out \o PacketBytes(p)
      /\ sealRoom' = sealRoom - l
      /\ UNCHANGED <<packet, packetOffset>>
  BY <1>2, EncSame DEF Enc!SealToCaller, Enc!Seal
<1>4. /\ t \in Nat /\ (n + 1) * MaxBufferSize = t + MaxBufferSize
      /\ l \in 1 .. MaxBufferSize /\ p.final \in BOOLEAN
      /\ p.final => t + l = EncodedLength(sizes[New])
      /\ ~p.final => l = MaxBufferSize
  BY <1>2, PacketLengths, PacketPlaces DEF SizeTypes
<1>5. sealRoom \in Nat /\ Len(out) \in Nat /\ out = Start(New, sizes[New], Len(out))
  BY DEF SealInv, SealTypes, OutIsStart
<1>6. Len(out) = t
  BY <1>1, <1>5 DEF SealInv, OutIsStart, Unsent
<1>. HIDE DEF p, l, t, n
<1>7. l \in Nat /\ PacketBytes(p) = SubSeq(PacketBytes(p), 0 + 1, l)
  <2>1. l \in Nat
    BY <1>4, SizesArePositive
  <2>. QED  BY <2>1, PacketBytesIsSeq, SubSeqFull DEF l
<1>8. /\ Len(out') = t + l
      /\ Len(out') \in Nat
      /\ Len(out) <= Len(out')
      /\ out' = Start(New, sizes[New], Len(out'))
  <2>1. /\ l \in 0 .. PacketLength(PacketAt(New, sizes[New], n)) /\ 0 \in 0 .. l
    BY <1>7 DEF l, p
  <2>2. out' = out \o SubSeq(PacketBytes(PacketAt(New, sizes[New], n)), 0 + 1, l)
    BY <1>3, <1>7 DEF p
  <2>3. Len(out) = n * MaxBufferSize + 0
    BY <1>4, <1>6 DEF t
  <2>. QED  BY <1>2, <1>5, <2>1, <2>2, <2>3, Appended DEF t
<1>9. sealRoom' \in Nat
  BY <1>1, <1>3, <1>4, <1>5, SizesArePositive
<1>10. SealTypes'
  BY <1>1, <1>2, <1>3, <1>4, <1>8, <1>9 DEF SealInv, SealTypes
<1>11. ByteAhead'
  BY <1>2, <1>3 DEF ByteAhead
<1>12. PacketHeld'
  BY <1>1, <1>3 DEF PacketHeld
<1>13. OutIsStart'
  <2>1. Unsent' = 0
    BY <1>1, <1>3 DEF Unsent
  <2>2. t + l = IF sealFinal' THEN EncodedLength(sizes[New]) ELSE (n + 1) * MaxBufferSize
    BY <1>3, <1>4
  <2>. QED  BY <1>3, <1>8, <2>1, <2>2 DEF OutIsStart
<1>14. SealSteps'
  <2>1. ~p.final => taken' > 0
    BY <1>2, <1>3, PacketAssumption
  <2>. QED  BY <1>1, <1>3, <2>1 DEF SealSteps
<1>. QED  BY <1>8, <1>10, <1>11, <1>12, <1>13, <1>14 DEF SealInv

LEMMA SealToBufferKeeps ==
  ASSUME SizeTypes, SealInv, Enc!SealToBuffer, sizes' = sizes
  PROVE  SealInv' /\ Len(out) <= Len(out')
<1>. DEFINE n == sealSeq
            t == n * MaxBufferSize
            p == PacketAt(New, sizes[New], n)
            l == PacketLength(p)
            whole == p.final /\ sealRoom > l
            count == IF sealRoom < l THEN sealRoom ELSE l
<1>1. /\ sealAt = "fill" /\ ~sealFinal /\ packetOffset = 0 /\ taken > 0
      /\ sealRoom > 0
  BY EncSame, SizesArePositive DEF Enc!SealToBuffer, SealInv, SealSteps
<1>2. /\ n \in Nat /\ n * MaxPayloadSize < sizes[New]
      /\ Enc!Sealed = p
      /\ taken + Enc!Ahead \in Nat
      /\ ~p.final => /\ taken + Enc!Ahead = (n + 1) * MaxPayloadSize + 1
                     /\ taken + Enc!Ahead <= sizes[New]
  BY <1>1, SealedIsNext DEF SealInv, SealTypes
<1>3. /\ taken' = taken + Enc!Ahead /\ sealSeq' = n + 1 /\ sealFinal' = p.final
      /\ packet' = p
      /\ sealAt' = IF whole THEN "eof" ELSE "idle"
      /\ out' = out \o SubSeq(PacketBytes(p), 1, count)
      /\ packetOffset' = IF whole THEN 0 ELSE count
      /\ sealRoom' = sealRoom - count
  BY <1>2, EncSame DEF Enc!SealToBuffer, Enc!Seal
<1>4. /\ t \in Nat /\ (n + 1) * MaxBufferSize = t + MaxBufferSize
      /\ l \in 1 .. MaxBufferSize /\ p.final \in BOOLEAN
      /\ p.final => t + l = EncodedLength(sizes[New])
      /\ ~p.final => l = MaxBufferSize
  BY <1>2, PacketLengths, PacketPlaces DEF SizeTypes
<1>5. sealRoom \in Nat /\ Len(out) \in Nat /\ out = Start(New, sizes[New], Len(out))
  BY DEF SealInv, SealTypes, OutIsStart
<1>6. Len(out) = t
  BY <1>1, <1>5 DEF SealInv, OutIsStart, Unsent
<1>. HIDE DEF p, l, t, n
<1>7. /\ count \in 1 .. l /\ l \in Nat /\ sealRoom - count \in Nat
      /\ whole => count = l
  BY <1>1, <1>4, <1>5, SizesArePositive
<1>. HIDE DEF count, whole
<1>8. /\ Len(out') = t + count
      /\ Len(out') \in Nat
      /\ Len(out) <= Len(out')
      /\ out' = Start(New, sizes[New], Len(out'))
  <2>1. /\ count \in 0 .. PacketLength(PacketAt(New, sizes[New], n)) /\ 0 \in 0 .. count
    BY <1>7 DEF l, p
  <2>2. out' = out \o SubSeq(PacketBytes(PacketAt(New, sizes[New], n)), 0 + 1, count)
    BY <1>3, <1>7 DEF p
  <2>3. Len(out) = n * MaxBufferSize + 0
    BY <1>4, <1>6 DEF t
  <2>. QED  BY <1>2, <1>5, <2>1, <2>2, <2>3, Appended DEF t
<1>9. SealTypes'
  <2>1. packetOffset' \in Nat /\ sealRoom' \in Nat
    BY <1>3, <1>7
  <2>2. sealAt' \in {"idle", "eof"}
    BY <1>3
  <2>3. sealFinal' \in BOOLEAN
    BY <1>3, <1>4
  <2>4. taken' \in Nat /\ sealSeq' \in Nat
    BY <1>2, <1>3
  <2>. QED  BY <1>8, <2>1, <2>2, <2>3, <2>4 DEF SealTypes
<1>10. ByteAhead'
  BY <1>2, <1>3 DEF ByteAhead
<1>11. PacketHeld'
  <2>1. sealSeq' > 0 /\ sealSeq' - 1 = n
    BY <1>2, <1>3
  <2>2. packetOffset' > 0 => packetOffset' <= l
    BY <1>3, <1>7
  <2>. QED  BY <1>2, <1>3, <1>4, <2>1, <2>2 DEF PacketHeld, l, p
<1>12. OutIsStart'
  <2>1. Unsent' = l - count
    <3>1. Unsent' = IF packetOffset' > 0 THEN l - packetOffset' ELSE 0
      BY <1>3 DEF Unsent, l
    <3>. QED  BY <1>3, <1>7, <3>1
  <2>2. t + l = IF sealFinal' THEN EncodedLength(sizes[New]) ELSE (n + 1) * MaxBufferSize
    BY <1>3, <1>4
  <2>3. Len(out') + Unsent' = t + l
    BY <1>4, <1>7, <1>8, <2>1
  <2>. QED  BY <1>3, <1>8, <2>2, <2>3 DEF OutIsStart
<1>13. SealSteps'
  BY <1>3 DEF SealSteps, whole
<1>. QED  BY <1>8, <1>9, <1>10, <1>11, <1>12, <1>13 DEF SealInv

(* The start of an encoding stays one, whatever the encryptor does.        *)
LEMMA SealKeeps ==
  ASSUME SizeTypes, SealInv, Enc!Next, sizes' = sizes
  PROVE  SealInv' /\ Len(out) <= Len(out')
<1>1. CASE Enc!ReadNothing
  <2>1. /\ sizes[New] = 0 /\ sealAt = "idle" /\ sealAt' = "eof" /\ sealFinal' = TRUE
        /\ UNCHANGED <<sealRoom, taken, sealSeq, packet, packetOffset, out>>
    BY <1>1 DEF Enc!ReadNothing
  <2>2. packetOffset = 0
    <3>1. SUFFICES ASSUME packetOffset > 0
                   PROVE  FALSE
      BY DEF SealInv, SealTypes
    <3>2. sealSeq - 1 \in Nat /\ (sealSeq - 1) * MaxPayloadSize < 0
      BY <2>1, <3>1, HeldPacket
    <3>. QED  BY <3>2, PacketAssumption
  <2>3. Len(out) = 0 /\ Len(out) \in Nat
    <3>1. CASE sealFinal
      BY <2>1, <2>2, <3>1, NoPackets DEF SealInv, SealTypes, OutIsStart, Unsent
    <3>2. CASE ~sealFinal
      <4>1. sealSeq = 0
        BY <2>1, <3>2, PacketAssumption DEF SealInv, SealTypes, ByteAhead
      <4>. QED  BY <2>2, <3>2, <4>1, SizesArePositive DEF SealInv, SealTypes, OutIsStart, Unsent
    <3>. QED  BY <3>1, <3>2 DEF SealInv, SealTypes
  <2>4. OutIsStart'
    BY <2>1, <2>2, <2>3, NoPackets DEF SealInv, OutIsStart, Unsent
  <2>. QED
    BY <2>1, <2>2, <2>3, <2>4
       DEF SealInv, SealTypes, ByteAhead, PacketHeld, SealSteps
<1>2. CASE Enc!Read
  <2>1. /\ sizes[New] > 0 /\ sealAt = "idle"
        /\ sealRoom' \in Buffers
        /\ taken' = IF taken = 0 THEN 1 ELSE taken
        /\ sealAt' = IF packetOffset > 0 THEN "drain" ELSE "fill"
        /\ UNCHANGED <<sealSeq, sealFinal, packet, packetOffset, out>>
    BY <1>2 DEF Enc!Read
  <2>2. sealRoom' \in Nat
    BY <2>1, StreamAssumption
  <2>3. ByteAhead'
    BY <2>1, PacketAssumption DEF SealInv, SealTypes, ByteAhead, SizeTypes
  <2>4. SealTypes'
    BY <2>1, <2>2 DEF SealInv, SealTypes
  <2>5. PacketHeld' /\ OutIsStart'
    BY <2>1 DEF SealInv, PacketHeld, OutIsStart, Unsent
  <2>6. SealSteps'
    BY <2>1 DEF SealInv, SealTypes, SealSteps
  <2>7. Len(out) <= Len(out')
    BY <2>1 DEF SealInv, SealTypes
  <2>. QED  BY <2>3, <2>4, <2>5, <2>6, <2>7 DEF SealInv
<1>3. CASE Enc!Drain
  BY <1>3, DrainKeeps
<1>4. CASE Enc!AfterFinal \/ Enc!Return
  <2>1. /\ sealAt = "fill" /\ sealAt' \in {"idle", "eof"} /\ (sealAt' = "eof" => sealFinal)
        /\ UNCHANGED <<sealRoom, taken, sealSeq, sealFinal, packet, packetOffset, out>>
    BY <1>4 DEF Enc!AfterFinal, Enc!Return
  <2>. QED
    BY <2>1 DEF SealInv, SealTypes, ByteAhead, PacketHeld, OutIsStart, Unsent, SealSteps
<1>5. CASE Enc!SealToCaller
  BY <1>5, SealToCallerKeeps
<1>6. CASE Enc!SealToBuffer
  BY <1>6, SealToBufferKeeps
<1>. QED  BY <1>1, <1>2, <1>3, <1>4, <1>5, <1>6 DEF Enc!Next
-----------------------------------------------------------------------------
(* The steps of the decryptor.                                             *)

LEMMA DecSame ==
  /\ Dec!MaxBufferSize = MaxBufferSize
  /\ \A a, b : Dec!Lesser(a, b) = IF a < b THEN a ELSE b
  /\ \A p : Dec!PacketLength(p) = PacketLength(p)
  /\ \A p : Dec!PayloadLength(p) = PayloadLength(p)
  /\ \A p : Dec!PacketBytes(p) = PacketBytes(p)
  /\ \A p : Dec!Payload(p) = Payload(p)
  /\ \A b : Dec!HeaderOf(b) = b[1][1]
  BY DEF Dec!MaxBufferSize, Dec!Lesser, Dec!PacketLength, Dec!PayloadLength,
         Dec!PacketBytes, Dec!Payload, Dec!HeaderOf,
         MaxBufferSize, PacketLength, PayloadLength, PacketBytes, Payload

(* The bytes of the two encodings. *)
FileBytes == UNION {Bytes(v, sizes[v]) : v \in {Old, New}}

LEMMA GotIsSeq ==
  ASSUME GotBytes
  PROVE  got \in Seq(FileBytes)
<1>. DEFINE n == Len(got)
<1>1. n \in Nat /\ got = [k \in 1 .. n |-> got[k]]
  BY DEF GotBytes
<1>2. ASSUME NEW k \in 1 .. n
      PROVE  got[k] \in FileBytes
  <2>1. PICK v \in {Old, New} : got[k] = EncodedByte(v, sizes[v], k)
    BY DEF GotBytes
  <2>2. k \in Nat
    BY <1>1
  <2>. QED  BY <2>1, <2>2 DEF Bytes, FileBytes
<1>. HIDE DEF n
<1>. QED  BY <1>1, <1>2

(* What io.ReadFull gets is the next bytes of the file. *)
LEMMA BurstIs ==
  ASSUME GotBytes, used \in Nat, used <= Len(got)
  PROVE  LET b == Dec!Burst
             l == Len(got) - used
         IN  /\ b \in Seq(FileBytes)
             /\ Len(b) = IF l < MaxBufferSize THEN l ELSE MaxBufferSize
             /\ \A k \in 1 .. Len(b) : b[k] = got[used + k]
             /\ b = <<>> <=> used = Len(got)
<1>. DEFINE b == Dec!Burst
            l == Len(got) - used
            m == IF Len(got) < used + MaxBufferSize THEN Len(got) ELSE used + MaxBufferSize
<1>1. Len(got) \in Nat /\ got \in Seq(FileBytes) /\ MaxBufferSize \in Nat \ {0}
  BY GotIsSeq, SizesArePositive DEF GotBytes
<1>2. b = SubSeq(got, used + 1, m)
  BY DecSame DEF Dec!Burst
<1>3. m \in used .. Len(got) /\ m - used = IF l < MaxBufferSize THEN l ELSE MaxBufferSize
  BY <1>1
<1>. HIDE DEF b, l, m
<1>4. \A i \in used + 1 .. m : got[i] \in FileBytes
  <2>1. \A i \in used + 1 .. m : i \in 1 .. Len(got)
    BY <1>1, <1>3
  <2>. QED  BY <1>1, <2>1, ElementOfSeq
<1>5. /\ b \in Seq(FileBytes)
      /\ Len(b) = IF used + 1 <= m THEN m - (used + 1) + 1 ELSE 0
      /\ \A i \in 1 .. m - (used + 1) + 1 : b[i] = got[(used + 1) + i - 1]
  <2>1. used + 1 \in Int /\ m \in Int
    BY <1>3
  <2>. QED  BY <1>2, <1>4, <2>1, SubSeqProperties
<1>6. Len(b) = m - used
  BY <1>3, <1>5
<1>7. \A k \in 1 .. Len(b) : b[k] = got[used + k]
  <2>1. \A k \in 1 .. Len(b) : k \in 1 .. m - (used + 1) + 1 /\ (used + 1) + k - 1 = used + k
    BY <1>3, <1>6
  <2>. QED  BY <1>5, <2>1
<1>8. b = <<>> <=> Len(b) = 0
  BY <1>5, EmptySeq
<1>9. m - used = 0 <=> used = Len(got)
  BY <1>1, <1>3 DEF l
<1>. QED  BY <1>3, <1>5, <1>6, <1>7, <1>8, <1>9 DEF b, l

(* Between packets: all that was opened has been returned. *)
LEMMA BetweenPackets ==
  ASSUME SizeTypes, OpenInv, openAt = "fill", ~openFinal, NEW v \in {Old, New},
         ref \in {0, v}, sizes[v] > 0
  PROVE  /\ used = openSeq * MaxBufferSize
         /\ Len(plain) = openSeq * MaxPayloadSize
         /\ Len(plain) \in Nat
         /\ plain = Value(v, Len(plain))
<1>1. dataOffset = 0 /\ openSeq \in Nat /\ Len(plain) \in Nat
  BY DEF OpenInv, OpenTypes, OpenSteps
<1>2. used = openSeq * MaxBufferSize
  BY DEF OpenInv, UsedPackets
<1>3. CASE ref = 0
  <2>1. plain = <<>> /\ openSeq = 0
    BY <1>3 DEF OpenInv, Nothing
  <2>2. Value(v, 0) = <<>>
    BY DEF Value
  <2>3. Len(plain) = 0
    BY <2>1
  <2>. QED  BY <1>1, <1>2, <2>1, <2>2, <2>3, PacketAssumption
<1>4. CASE ref = v
  <2>1. ref # 0
    BY <1>4, OldNew
  <2>2. plain = Value(ref, Len(plain)) /\ Len(plain) + 0 = openSeq * MaxPayloadSize
    BY <1>1, <2>1 DEF OpenInv, PlainIsStart, Held
  <2>. QED  BY <1>1, <1>2, <1>4, <2>2
<1>. QED  BY <1>3, <1>4

(* A packet that opens is the next packet of the stream that was opened    *)
(* before, or of any if none was.                                          *)
LEMMA OpensGenuine ==
  ASSUME SizeTypes, GotBytes, OpenInv, openAt = "fill", Dec!Burst # <<>>, Dec!Opens
  PROVE  \E v \in {Old, New} :
           LET p == PacketAt(v, sizes[v], openSeq)
           IN  /\ Dec!HeaderOf(Dec!Burst) = p
               /\ ref \in {0, v}
               /\ openSeq * MaxPayloadSize < sizes[v]
               /\ Len(Dec!Burst) = PacketLength(p)
               /\ used + PacketLength(p) <= Len(got)
               /\ used = openSeq * MaxBufferSize
               /\ \A w \in {Old, New} : got = Whole(w) => v = w
<1>. DEFINE b == Dec!Burst
            h == b[1][1]
<1>1. /\ ~openFinal
      /\ Len(b) > HeaderSize + TagSize
      /\ Len(b) = PacketLength(h)
      /\ ref \in {0, h.stream}
  BY DecSame DEF Dec!Opens, Dec!NoStream
<1>2. /\ used \in Nat /\ used <= Len(got) /\ openSeq \in Nat /\ Len(got) \in Nat
      /\ used = openSeq * MaxBufferSize
  BY <1>1 DEF OpenInv, OpenTypes, UsedPackets, GotBytes
<1>3. /\ Len(b) \in Nat /\ Len(b) <= Len(got) - used
      /\ \A k \in 1 .. Len(b) : b[k] = got[used + k]
  BY <1>2, BurstIs, SizesArePositive
<1>. HIDE DEF b
<1>4. Len(b) >= 1 /\ used + 1 \in 1 .. Len(got)
  BY <1>1, <1>2, <1>3, PacketAssumption
<1>5. b[1] = got[used + 1]
  BY <1>3, <1>4
<1>6. PICK v \in {Old, New} : got[used + 1] = EncodedByte(v, sizes[v], used + 1)
  BY <1>4 DEF GotBytes
<1>7. sizes[v] \in Nat
  BY DEF SizeTypes
<1>8. \A w \in {Old, New} :
        EncodedByte(w, sizes[w], used + 1) = <<PacketAt(w, sizes[w], openSeq), 1>>
  <2>1. 1 \in 1 .. MaxBufferSize /\ sizes[Old] \in Nat /\ sizes[New] \in Nat
    BY SizesArePositive DEF SizeTypes
  <2>. QED  BY <1>2, <2>1, ByteOfPacket
<1>9. h = PacketAt(v, sizes[v], openSeq)
  BY <1>5, <1>6, <1>8
<1>10. h.stream = v
  BY <1>9 DEF PacketAt
<1>11. openSeq * MaxPayloadSize < sizes[v]
  <2>. DEFINE s == openSeq * MaxPayloadSize
              e == (openSeq + 1) * MaxPayloadSize
  <2>1. s \in Nat /\ e \in Nat
    BY <1>2, PacketAssumption
  <2>2. h.first = s + 1 /\ h.last = IF e < sizes[v] THEN e ELSE sizes[v]
    BY <1>9 DEF PacketAt, Lesser
  <2>. HIDE DEF s, e
  <2>3. h.last - h.first + 1 > 0
    <3>1. PacketLength(h) = HeaderSize + TagSize + (h.last - h.first + 1)
      BY DEF PacketLength, PayloadLength
    <3>2. h.last - h.first + 1 \in Int
      BY <1>7, <2>1, <2>2
    <3>. HIDE DEF h
    <3>. QED  BY <1>1, <3>1, <3>2, PacketAssumption
  <2>4. s < sizes[v]
    <3>. HIDE DEF h
    <3>. QED  BY <1>7, <2>1, <2>2, <2>3
  <2>. QED  BY <2>4 DEF s
<1>12. \A w \in {Old, New} : got = Whole(w) => v = w
  <2>1. SUFFICES ASSUME NEW w \in {Old, New}, got = Whole(w)
                 PROVE  v = w
    OBVIOUS
  <2>2. got[used + 1] = EncodedByte(w, sizes[w], used + 1)
    <3>1. sizes[w] \in Nat
      BY DEF SizeTypes
    <3>2. EncodedLength(sizes[w]) \in Nat
      BY <3>1, EncodingIsStart
    <3>3. Len(got) = EncodedLength(sizes[w])
      BY <2>1, <3>2, StartIsSeq DEF Whole
    <3>. QED  BY <1>4, <2>1, <3>2, <3>3, StartIsSeq DEF Whole
  <2>3. PacketAt(w, sizes[w], openSeq) = PacketAt(v, sizes[v], openSeq)
    BY <1>6, <1>8, <2>2
  <2>4. /\ PacketAt(w, sizes[w], openSeq).stream = w
        /\ PacketAt(v, sizes[v], openSeq).stream = v
    BY DEF PacketAt
  <2>. QED  BY <2>3, <2>4
<1>13. Len(b) = PacketLength(PacketAt(v, sizes[v], openSeq))
  BY <1>1, <1>9
<1>14. used + Len(b) <= Len(got)
  BY <1>2, <1>3
<1>15. Dec!HeaderOf(Dec!Burst) = h
  BY DecSame DEF b
<1>. QED
  BY <1>1, <1>2, <1>9, <1>10, <1>11, <1>12, <1>13, <1>14, <1>15 DEF b

(* What opening a packet of v does, and where the packet lies in v.        *)
OpenedFrom(v) ==
  LET p == PacketAt(v, sizes[v], openSeq)
      n == PayloadLength(p)
  IN  /\ Dec!HeaderOf(Dec!Burst) = p
      /\ ref' = v /\ openFinal' = p.final /\ openFinal' \in BOOLEAN
      /\ openSeq' = openSeq + 1 /\ openSeq' \in Nat
      /\ used' \in Nat /\ used' <= Len(got)
      /\ ~openFinal' => used' = (openSeq + 1) * MaxBufferSize
      /\ dataOffset = 0
      /\ n \in 1 .. MaxPayloadSize
      /\ Len(plain) \in Nat /\ plain = Value(v, Len(plain))
      /\ Payload(p) = Stretch(v, Len(plain), n)
      /\ Len(plain) + n = IF openFinal' THEN sizes[v]
                                        ELSE (openSeq + 1) * MaxPayloadSize
      /\ Len(plain) + n <= sizes[v]
      /\ ~openFinal' => (openSeq + 1) * MaxPayloadSize < sizes[v]
      /\ \A w \in {Old, New} :
           got = Whole(w) => v = w /\ (openFinal' => used' = Len(got))

LEMMA OpenedNext ==
  ASSUME SizeTypes, GotBytes, OpenInv, openAt = "fill", Dec!Open
  PROVE  \E v \in {Old, New} : OpenedFrom(v)
<1>1. Dec!Burst # <<>> /\ Dec!Opens /\ ~openFinal
  BY DEF Dec!Open, Dec!Opens
<1>2. PICK v \in {Old, New} :
        LET p == PacketAt(v, sizes[v], openSeq)
        IN  /\ Dec!HeaderOf(Dec!Burst) = p
            /\ ref \in {0, v}
            /\ openSeq * MaxPayloadSize < sizes[v]
            /\ Len(Dec!Burst) = PacketLength(p)
            /\ used + PacketLength(p) <= Len(got)
            /\ used = openSeq * MaxBufferSize
            /\ \A w \in {Old, New} : got = Whole(w) => v = w
  BY <1>1, OpensGenuine
<1>. DEFINE p == PacketAt(v, sizes[v], openSeq)
            n == PayloadLength(p)
            l == PacketLength(p)
            s == openSeq * MaxPayloadSize
            e == (openSeq + 1) * MaxPayloadSize
            t == openSeq * MaxBufferSize
            u == (openSeq + 1) * MaxBufferSize
<1>3. sizes[v] \in Nat /\ openSeq \in Nat /\ s < sizes[v] /\ Len(got) \in Nat
  BY <1>2 DEF SizeTypes, OpenInv, OpenTypes, GotBytes
<1>4. /\ n \in 1 .. MaxPayloadSize /\ p.final \in BOOLEAN
      /\ p.first = s + 1
      /\ p.final => p.first + n - 1 = sizes[v]
      /\ ~p.final => /\ n = MaxPayloadSize
                     /\ l = MaxBufferSize
                     /\ e < sizes[v]
      /\ l \in 1 .. MaxBufferSize
  BY <1>3, PacketLengths
<1>5. /\ t \in Nat /\ u = t + MaxBufferSize
      /\ p.final => t + l = EncodedLength(sizes[v])
  BY <1>3, PacketPlaces
<1>6. Payload(p) = Stretch(v, s, n)
  BY <1>3, PayloadIsStretch
<1>7. s \in Nat /\ e = s + MaxPayloadSize
  BY <1>3, PacketAssumption
<1>8. used = t /\ Len(plain) = s /\ plain = Value(v, Len(plain))
  <2>1. sizes[v] > 0
    BY <1>3, <1>7
  <2>. QED  BY <1>1, <1>2, <2>1, BetweenPackets
<1>9. dataOffset = 0
  BY DEF OpenInv, OpenSteps
<1>10. /\ ref' = v /\ openFinal' = p.final /\ openSeq' = openSeq + 1 /\ used' = used + l
  <2>1. Dec!HeaderOf(Dec!Burst) = p /\ Len(Dec!Burst) = l
    BY <1>2
  <2>2. p.stream = v
    BY DEF PacketAt
  <2>. QED  BY <2>1, <2>2 DEF Dec!Open
<1>11. /\ Dec!HeaderOf(Dec!Burst) = p /\ used + l <= Len(got)
       /\ \A w \in {Old, New} : got = Whole(w) => v = w
  BY <1>2
<1>12. got = Whole(v) => Len(got) = EncodedLength(sizes[v])
  BY <1>3, EncodingIsStart, StartIsSeq DEF Whole
<1>. HIDE DEF p, n, l, s, e, t, u
<1>13. l \in Nat /\ t + l \in Nat
  BY <1>4, <1>5, SizesArePositive
<1>14. used' \in Nat /\ used' <= Len(got)
  BY <1>8, <1>10, <1>11, <1>13
<1>15. ~openFinal' => used' = u
  BY <1>4, <1>5, <1>8, <1>10
<1>16. /\ s + n = IF p.final THEN sizes[v] ELSE e
       /\ s + n <= sizes[v]
  BY <1>3, <1>4, <1>7, PacketAssumption
<1>17. \A w \in {Old, New} :
         got = Whole(w) => v = w /\ (openFinal' => used' = Len(got))
  BY <1>5, <1>8, <1>10, <1>11, <1>12
<1>18. openSeq' \in Nat /\ openFinal' \in BOOLEAN
  BY <1>3, <1>4, <1>10
<1>19. OpenedFrom(v)
  BY <1>4, <1>6, <1>7, <1>8, <1>9, <1>10, <1>11, <1>14, <1>15, <1>16, <1>17, <1>18, SMTT(40)
     DEF OpenedFrom, p, n, s, e, u
<1>. QED  BY <1>19

(* More of one value is a Deliver of the promise. *)
LEMMA MoreIsDeliver ==
  ASSUME SizeTypes, NEW v \in {Old, New}, Len(plain) \in Nat, Len(plain') \in Nat,
         plain = Value(v, Len(plain)), plain' = Value(v, Len(plain')),
         Len(plain) < Len(plain'), Len(plain') <= sizes[v], sizes' = sizes,
         openAt \notin {"eof", "error"}, openAt' \notin {"eof", "error"}
  PROVE  Promise!Deliver
<1>. DEFINE n == Len(plain')
<1>1. /\ sizes[v] \in Nat
      /\ n \in Len(plain) + 1 .. sizes[v]
  BY DEF SizeTypes
<1>2. plain' = [k \in 1 .. n |-> <<v, k>>]
  BY DEF Value
<1>3. plain = SubSeq(plain', 1, Len(plain))
  <2>1. plain = SubSeq(plain', 0 + 1, Len(plain))
    <3>1. /\ plain \in Seq(Letters(v)) /\ plain' \in Seq(Letters(v))
          /\ \A k \in 1 .. Len(plain) : plain[k] = <<v, k>>
          /\ \A k \in 1 .. Len(plain') : plain'[k] = <<v, k>>
      BY ValueIsSeq
    <3>2. \A k \in 1 .. Len(plain) : plain[k] = plain'[0 + k]
      <4>1. \A k \in 1 .. Len(plain) : k \in 1 .. Len(plain') /\ 0 + k = k
        OBVIOUS
      <4>. QED  BY <3>1, <4>1
    <3>. QED  BY <3>1, <3>2, SubSeqIs
  <2>. QED  BY <2>1
<1>. QED  BY <1>1, <1>2, <1>3 DEF Promise!Deliver

LEMMA OpenToCallerKeeps ==
  ASSUME SizeTypes, GotBytes, OpenInv, get = "decrypt", Dec!OpenToCaller,
         sizes' = sizes, get' = get
  PROVE  OpenInv' /\ Promise!Deliver
<1>1. /\ openAt = "fill" /\ openRoom >= MaxPayloadSize /\ openRoom \in Nat /\ Dec!Open
      /\ openRoom' = openRoom - PayloadLength(Dec!HeaderOf(Dec!Burst))
      /\ plain' = plain \o Payload(Dec!HeaderOf(Dec!Burst))
      /\ UNCHANGED <<got, openAt, data, dataOffset>>
  BY DecSame DEF Dec!OpenToCaller, OpenInv, OpenTypes
<1>2. PICK v \in {Old, New} : OpenedFrom(v)
  BY <1>1, OpenedNext
<1>. DEFINE L == Len(plain)
            n == PayloadLength(PacketAt(v, sizes[v], openSeq))
<1>3. /\ n \in 1 .. MaxPayloadSize /\ L \in Nat /\ plain = Value(v, L)
      /\ L + n = IF openFinal' THEN sizes[v] ELSE openSeq' * MaxPayloadSize
      /\ ~openFinal' => openSeq' * MaxPayloadSize < sizes[v]
      /\ L + n <= sizes[v] /\ sizes[v] \in Nat
      /\ plain' = plain \o Stretch(v, L, n)
      /\ openRoom' = openRoom - n
      /\ dataOffset = 0
  BY <1>1, <1>2 DEF OpenedFrom, SizeTypes
<1>4. /\ ref' = v /\ openFinal' \in BOOLEAN /\ openSeq' \in Nat
      /\ used' \in Nat /\ used' <= Len(got)
      /\ ~openFinal' => used' = openSeq' * MaxBufferSize
      /\ \A w \in {Old, New} :
           got = Whole(w) => v = w /\ (openFinal' => used' = Len(got))
  BY <1>2 DEF OpenedFrom
<1>. HIDE DEF n, L
<1>5. n \in Nat /\ n > 0 /\ openRoom' \in Nat
  BY <1>1, <1>3, PacketAssumption
<1>6. plain' = Value(v, L + n)
  BY <1>3, <1>5, ValueGrows
<1>7. Len(plain') = L + n /\ Len(plain') \in Nat
  BY <1>3, <1>5, <1>6, ValueIsSeq
<1>8. OpenTypes'
  <2>1. ref' \in {0, Old, New} /\ openAt' = openAt /\ dataOffset' = dataOffset
    BY <1>1, <1>4
  <2>. QED  BY <1>4, <1>5, <1>7, <2>1 DEF OpenInv, OpenTypes
<1>9. UsedPackets'
  BY <1>1, <1>4 DEF UsedPackets
<1>10. Nothing' /\ NotYet'
  BY <1>4, OldNew DEF Nothing, NotYet
<1>11. PlainIsStart'
  <2>1. Held' = 0
    BY <1>1, <1>3 DEF Held
  <2>2. plain' = Value(ref', Len(plain')) /\ sizes'[ref'] = sizes[v]
    BY <1>4, <1>6, <1>7
  <2>3. Len(plain') + 0 = L + n
    BY <1>7
  <2>4. sizes[v] > 0
    BY <1>3, <1>5
  <2>. QED  BY <1>3, <2>1, <2>2, <2>3, <2>4 DEF PlainIsStart
<1>12. DataHeld' /\ OpenSteps'
  BY <1>1, <1>3 DEF DataHeld, OpenSteps
<1>13. WholeOpens'
  BY <1>1, <1>4 DEF WholeOpens, Whole
<1>14. Promise!Deliver
  <2>1. plain = Value(v, Len(plain)) /\ Len(plain) \in Nat
    BY <1>3 DEF L
  <2>2. Len(plain) < Len(plain') /\ Len(plain') <= sizes[v]
    <3>1. L < Len(plain') /\ Len(plain') <= sizes[v]
      BY <1>3, <1>5, <1>7
    <3>. QED  BY <3>1 DEF L
  <2>. QED  BY <1>1, <1>6, <1>7, <2>1, <2>2, MoreIsDeliver
<1>. QED  BY <1>8, <1>9, <1>10, <1>11, <1>12, <1>13, <1>14 DEF OpenInv

LEMMA OpenToBufferKeeps ==
  ASSUME SizeTypes, GotBytes, OpenInv, get = "decrypt", Dec!OpenToBuffer,
         sizes' = sizes, get' = get
  PROVE  OpenInv' /\ Promise!Deliver
<1>1. /\ openAt = "fill" /\ openRoom \in Nat /\ openRoom > 0 /\ Dec!Open
      /\ data' = Payload(Dec!HeaderOf(Dec!Burst))
      /\ plain' = plain \o SubSeq(data', 1, IF openRoom < Len(data') THEN openRoom
                                                                     ELSE Len(data'))
      /\ dataOffset' = IF openRoom < Len(data') THEN openRoom ELSE 0
      /\ openRoom' = 0 /\ openAt' = "idle"
      /\ UNCHANGED got
  BY DecSame, PacketAssumption, SMTT(40) DEF Dec!OpenToBuffer, OpenInv, OpenTypes
<1>2. PICK v \in {Old, New} : OpenedFrom(v)
  BY <1>1, OpenedNext
<1>. DEFINE L == Len(plain)
            n == PayloadLength(PacketAt(v, sizes[v], openSeq))
            c == IF openRoom < n THEN openRoom ELSE n
<1>3. /\ n \in Nat /\ n > 0 /\ L \in Nat /\ plain = Value(v, L)
      /\ L + n = IF openFinal' THEN sizes[v] ELSE openSeq' * MaxPayloadSize
      /\ ~openFinal' => openSeq' * MaxPayloadSize < sizes[v]
      /\ L + n <= sizes[v] /\ sizes[v] \in Nat
      /\ data' = Stretch(v, L, n)
  BY <1>1, <1>2, PacketAssumption DEF OpenedFrom, SizeTypes
<1>4. /\ ref' = v /\ openFinal' \in BOOLEAN /\ openSeq' \in Nat
      /\ used' \in Nat /\ used' <= Len(got)
      /\ ~openFinal' => used' = openSeq' * MaxBufferSize
      /\ \A w \in {Old, New} :
           got = Whole(w) => v = w /\ (openFinal' => used' = Len(got))
  BY <1>2 DEF OpenedFrom
<1>. HIDE DEF n, L
<1>5. Len(data') = n
  BY <1>3, StretchIsSeq
<1>6. c \in 1 .. n /\ c \in Nat
  BY <1>1, <1>3
<1>7. /\ plain' = plain \o SubSeq(data', 1, c)
      /\ dataOffset' = IF openRoom < n THEN openRoom ELSE 0
  BY <1>1, <1>5
<1>8. plain' = Value(v, L + c)
  <2>1. SubSeq(Stretch(v, L, n), 0 + 1, c) = Stretch(v, L + 0, c - 0)
    <3>1. c \in 0 .. n /\ 0 \in 0 .. c
      BY <1>6
    <3>. HIDE DEF c
    <3>. QED  BY <1>3, <3>1, SubStretch, ZenonT(60)
  <2>2. SubSeq(data', 1, c) = Stretch(v, L, c)
    BY <1>3, <1>6, <2>1
  <2>. HIDE DEF c
  <2>. QED  BY <1>3, <1>6, <1>7, <2>2, ValueGrows
<1>9. Len(plain') = L + c /\ Len(plain') \in Nat
  BY <1>3, <1>6, <1>8, ValueIsSeq
<1>10. OpenTypes'
  <2>1. dataOffset' \in Nat
    BY <1>1, <1>7
  <2>. QED  BY <1>1, <1>4, <1>9, <2>1 DEF OpenTypes
<1>11. UsedPackets'
  BY <1>1, <1>4 DEF UsedPackets
<1>12. Nothing' /\ NotYet'
  BY <1>4, OldNew DEF Nothing, NotYet
<1>13. PlainIsStart'
  <2>1. Held' = n - c
    <3>1. Held' = IF dataOffset' > 0 THEN n - dataOffset' ELSE 0
      BY <1>5 DEF Held
    <3>2. CASE openRoom < n
      BY <1>1, <1>7, <3>1, <3>2
    <3>3. CASE ~(openRoom < n)
      BY <1>3, <1>7, <3>1, <3>3
    <3>. QED  BY <3>2, <3>3
  <2>. HIDE DEF c
  <2>2. plain' = Value(ref', Len(plain')) /\ sizes'[ref'] = sizes[v]
    BY <1>4, <1>8, <1>9
  <2>3. Len(plain') + Held' = L + n
    BY <1>3, <1>6, <1>9, <2>1
  <2>4. sizes[v] > 0
    BY <1>3
  <2>. QED  BY <1>3, <2>2, <2>3, <2>4 DEF PlainIsStart
<1>14. DataHeld'
  <2>1. SUFFICES ASSUME dataOffset' > 0
                 PROVE  /\ Len(data') \in Nat
                        /\ dataOffset' < Len(data')
                        /\ dataOffset' <= Len(plain')
                        /\ data' = Stretch(ref', Len(plain') - dataOffset', Len(data'))
    BY DEF DataHeld
  <2>2. dataOffset' = openRoom /\ openRoom < n /\ c = openRoom
    BY <1>7, <2>1
  <2>3. Len(plain') - dataOffset' = L /\ dataOffset' <= Len(plain')
    BY <1>1, <1>3, <1>9, <2>2
  <2>. QED  BY <1>3, <1>4, <1>5, <2>2, <2>3
<1>15. OpenSteps'
  BY <1>1 DEF OpenSteps
<1>16. WholeOpens'
  BY <1>1, <1>4 DEF WholeOpens, Whole
<1>17. Promise!Deliver
  <2>1. plain = Value(v, Len(plain)) /\ Len(plain) \in Nat
    BY <1>3 DEF L
  <2>2. Len(plain) < Len(plain') /\ Len(plain') <= sizes[v]
    <3>. HIDE DEF c
    <3>1. L < Len(plain') /\ Len(plain') <= sizes[v]
      BY <1>3, <1>6, <1>9
    <3>. QED  BY <3>1 DEF L
  <2>. QED  BY <1>1, <1>8, <1>9, <2>1, <2>2, MoreIsDeliver
<1>. QED
  BY <1>10, <1>11, <1>12, <1>13, <1>14, <1>15, <1>16, <1>17 DEF OpenInv

LEMMA OpenDrainKeeps ==
  ASSUME SizeTypes, GotBytes, OpenInv, get = "decrypt", Dec!Drain,
         sizes' = sizes, get' = get
  PROVE  OpenInv' /\ Promise!Deliver
<1>. DEFINE L == Len(plain)
            n == Len(data)
            c == IF openRoom < n - dataOffset THEN openRoom ELSE n - dataOffset
<1>1. /\ openAt = "drain" /\ openRoom \in Nat /\ openRoom > 0 /\ dataOffset > 0
      /\ dataOffset \in Nat
      /\ plain' = plain \o SubSeq(data, dataOffset + 1, dataOffset + c)
      /\ dataOffset' = IF openRoom < n - dataOffset THEN dataOffset + c ELSE 0
      /\ openRoom' = openRoom - c
      /\ openAt' = IF openRoom < n - dataOffset THEN "idle" ELSE "fill"
      /\ UNCHANGED <<got, used, ref, openSeq, openFinal, data>>
  BY DecSame DEF Dec!Drain, OpenInv, OpenTypes, OpenSteps
<1>2. /\ n \in Nat /\ dataOffset \in Nat /\ dataOffset < n /\ dataOffset <= L
      /\ data = Stretch(ref, L - dataOffset, n)
  BY <1>1 DEF OpenInv, DataHeld
<1>3. ref # 0 /\ ref \in {Old, New}
  BY <1>1 DEF OpenInv, OpenTypes, Nothing
<1>. DEFINE X == IF openFinal THEN sizes[ref] ELSE openSeq * MaxPayloadSize
<1>4. /\ L \in Nat /\ plain = Value(ref, L) /\ sizes[ref] > 0 /\ sizes[ref] \in Nat
      /\ L + (n - dataOffset) = X
      /\ ~openFinal => openSeq * MaxPayloadSize < sizes[ref]
  BY <1>1, <1>3 DEF SizeTypes, OpenInv, OpenTypes, PlainIsStart, Held
<1>. HIDE DEF L, n, X
<1>5. X <= sizes[ref]
  <2>1. X \in Int
    BY <1>2, <1>4
  <2>2. X = sizes[ref] \/ X < sizes[ref]
    BY <1>4 DEF X
  <2>. QED  BY <1>4, <2>1, <2>2
<1>6. c \in 1 .. n - dataOffset /\ c \in Nat /\ openRoom - c \in Nat
  BY <1>1, <1>2
<1>7. plain' = Value(ref, L + c)
  <2>. HIDE DEF c
  <2>1. /\ n \in Nat /\ dataOffset + c \in 0 .. n /\ dataOffset \in 0 .. dataOffset + c
        /\ (dataOffset + c) - dataOffset = c
        /\ L - dataOffset \in Nat /\ (L - dataOffset) + dataOffset = L
    BY <1>1, <1>2, <1>4, <1>6
  <2>2. SubSeq(Stretch(ref, L - dataOffset, n), dataOffset + 1, dataOffset + c)
          = Stretch(ref, (L - dataOffset) + dataOffset, (dataOffset + c) - dataOffset)
    BY <2>1, SubStretch, ZenonT(60)
  <2>3. SubSeq(data, dataOffset + 1, dataOffset + c) = Stretch(ref, L, c)
    BY <1>2, <2>1, <2>2
  <2>. QED  BY <1>1, <1>4, <1>6, <2>3, ValueGrows, ZenonT(60)
<1>8. Len(plain') = L + c /\ Len(plain') \in Nat
  BY <1>4, <1>6, <1>7, ValueIsSeq
<1>9. OpenTypes'
  <2>1. dataOffset' \in Nat
    BY <1>1, <1>6
  <2>2. openRoom' \in Nat /\ openAt' \in {"idle", "fill"}
    BY <1>1, <1>6
  <2>. QED  BY <1>1, <1>8, <2>1, <2>2 DEF OpenInv, OpenTypes
<1>10. UsedPackets'
  BY <1>1 DEF OpenInv, UsedPackets
<1>11. Nothing' /\ NotYet'
  BY <1>1, <1>3 DEF Nothing, NotYet
<1>12. PlainIsStart'
  <2>1. Held' = (n - dataOffset) - c
    <3>1. Held' = IF dataOffset' > 0 THEN n - dataOffset' ELSE 0
      BY <1>1 DEF Held, n
    <3>2. CASE openRoom < n - dataOffset
      <4>1. dataOffset' = dataOffset + c /\ dataOffset + c > 0
        BY <1>1, <1>6, <3>2
      <4>. QED  BY <1>1, <1>2, <1>6, <3>1, <4>1
    <3>3. CASE ~(openRoom < n - dataOffset)
      BY <1>1, <1>2, <3>1, <3>3
    <3>. QED  BY <3>2, <3>3
  <2>. HIDE DEF c
  <2>2. Len(plain') + Held' = X /\ X' = X
    <3>1. X' = X
      BY <1>1 DEF X
    <3>2. Len(plain') + Held' = L + (n - dataOffset)
      BY <1>2, <1>4, <1>6, <1>8, <2>1
    <3>. QED  BY <1>4, <3>1, <3>2
  <2>3. plain' = Value(ref', Len(plain')) /\ sizes'[ref'] = sizes[ref]
    BY <1>1, <1>7, <1>8
  <2>. QED  BY <1>1, <1>4, <2>2, <2>3 DEF PlainIsStart, X
<1>13. DataHeld'
  <2>1. SUFFICES ASSUME dataOffset' > 0
                 PROVE  /\ Len(data') \in Nat
                        /\ dataOffset' < Len(data')
                        /\ dataOffset' <= Len(plain')
                        /\ data' = Stretch(ref', Len(plain') - dataOffset', Len(data'))
    BY DEF DataHeld
  <2>2. dataOffset' = dataOffset + c /\ openRoom < n - dataOffset /\ c = openRoom
    BY <1>1, <2>1
  <2>3. /\ dataOffset' < n
        /\ Len(plain') - dataOffset' = L - dataOffset
        /\ dataOffset' <= Len(plain')
    <3>1. dataOffset + c < n /\ c \in Nat
      BY <1>2, <1>6, <2>2
    <3>. HIDE DEF c
    <3>. QED  BY <1>2, <1>4, <1>8, <2>2, <3>1
  <2>. QED  BY <1>1, <1>2, <2>3 DEF n
<1>14. OpenSteps'
  <2>1. openAt' = "fill" => dataOffset' = 0
    BY <1>1
  <2>. QED  BY <1>1, <2>1 DEF OpenSteps
<1>15. WholeOpens'
  BY <1>1 DEF OpenInv, WholeOpens, Whole
<1>16. Promise!Deliver
  <2>1. plain = Value(ref, Len(plain)) /\ Len(plain) \in Nat
    BY <1>4 DEF L
  <2>2. Len(plain) < Len(plain') /\ Len(plain') <= sizes[ref]
    <3>. HIDE DEF c
    <3>1. L < Len(plain') /\ Len(plain') <= sizes[ref]
      BY <1>1, <1>2, <1>4, <1>5, <1>6, <1>8
    <3>. QED  BY <3>1 DEF L
  <2>. QED  BY <1>1, <1>3, <1>7, <1>8, <2>1, <2>2, MoreIsDeliver
<1>. QED  BY <1>9, <1>10, <1>11, <1>12, <1>13, <1>14, <1>15, <1>16 DEF OpenInv

(* Nothing of a whole file is refused.                                     *)
LEMMA WholeIsNotRefused ==
  ASSUME SizeTypes, GotBytes, OpenInv, get = "decrypt", openAt = "fill",
         NEW v \in {Old, New}, sizes[v] > 0, got = Whole(v)
  PROVE  IF openFinal THEN Dec!Burst = <<>> ELSE Dec!Burst # <<>> /\ Dec!Opens
<1>. DEFINE e == EncodedLength(sizes[v])
<1>1. /\ sizes[v] \in Nat /\ e \in Nat /\ Len(got) = e
      /\ \A k \in 1 .. e : got[k] = EncodedByte(v, sizes[v], k)
  <2>1. sizes[v] \in Nat
    BY DEF SizeTypes
  <2>2. e \in Nat
    BY <2>1, EncodingIsStart
  <2>. QED  BY <2>1, <2>2, StartIsSeq DEF Whole
<1>2. /\ used \in Nat /\ used <= Len(got) /\ openSeq \in Nat
      /\ openFinal => used = Len(got)
      /\ ref \in {0, v}
  BY DEF OpenInv, OpenTypes, UsedPackets, WholeOpens
<1>3. CASE openFinal
  BY <1>2, <1>3, BurstIs
<1>4. CASE ~openFinal
  <2>. DEFINE p == PacketAt(v, sizes[v], openSeq)
              l == PacketLength(p)
              t == openSeq * MaxBufferSize
              b == Dec!Burst
  <2>1. used = t
    BY <1>2, <1>4, BetweenPackets
  <2>2. openSeq * MaxPayloadSize < sizes[v]
    <3>1. CASE ref = 0
      BY <1>1, <3>1, PacketAssumption DEF OpenInv, Nothing
    <3>2. CASE ref = v
      BY <1>4, <3>2, OldNew DEF OpenInv, PlainIsStart
    <3>. QED  BY <1>2, <3>1, <3>2
  <2>3. /\ l \in 1 .. MaxBufferSize
        /\ l = HeaderSize + TagSize + PayloadLength(p)
        /\ PayloadLength(p) \in 1 .. MaxPayloadSize
        /\ p.stream = v /\ p.seq = openSeq
        /\ p.final \/ PayloadLength(p) = MaxPayloadSize
        /\ ~p.final => l = MaxBufferSize
    BY <1>1, <1>2, <2>2, PacketLengths
  <2>4. t \in Nat /\ t + l <= e /\ (p.final => t + l = e)
    BY <1>1, <1>2, <2>2, PacketPlaces
  <2>5. /\ b \in Seq(FileBytes)
        /\ Len(b) = IF e - t < MaxBufferSize THEN e - t ELSE MaxBufferSize
        /\ \A k \in 1 .. Len(b) : b[k] = got[t + k]
        /\ b = <<>> <=> t = e
    BY <1>1, <1>2, <2>1, BurstIs
  <2>6. \A j \in 1 .. l : EncodedByte(v, sizes[v], t + j) = <<p, j>>
    <3>1. \A j \in 1 .. l : j \in 1 .. MaxBufferSize
      BY <2>3, SizesArePositive
    <3>. QED  BY <1>1, <1>2, <3>1, ByteOfPacket
  <2>. HIDE DEF p, t, b, e
  <2>7. l \in Nat /\ Len(b) = l
    <3>. HIDE DEF l
    <3>1. l \in Nat /\ l <= MaxBufferSize /\ MaxBufferSize \in Nat
      BY <2>3, SizesArePositive
    <3>2. CASE p.final
      <4>1. e - t = l
        BY <1>1, <2>4, <3>1, <3>2
      <4>. QED  BY <2>5, <3>1, <4>1
    <3>3. CASE ~p.final
      <4>1. ~(e - t < MaxBufferSize)
        BY <1>1, <2>3, <2>4, <3>1, <3>3
      <4>. QED  BY <2>3, <2>5, <3>1, <3>3, <4>1
    <3>. QED  BY <3>2, <3>3
  <2>8. \A j \in 1 .. l : b[j] = <<p, j>>
    <3>1. \A j \in 1 .. l : t + j \in 1 .. e
      BY <1>1, <2>4, <2>7
    <3>. QED  BY <1>1, <2>5, <2>6, <2>7, <3>1
  <2>9. b = PacketBytes(p)
    <3>. HIDE DEF l
    <3>1. /\ PacketBytes(p) \in Seq(PacketPlace(p)) /\ Len(PacketBytes(p)) = l
          /\ \A j \in 1 .. l : PacketBytes(p)[j] = <<p, j>>
      BY <2>7, PacketBytesIsSeq DEF l
    <3>2. PICK B : FileBytes \subseteq B /\ PacketPlace(p) \subseteq B
      <4>. WITNESS FileBytes \cup PacketPlace(p)
      <4>. QED  OBVIOUS
    <3>3. b \in Seq(B) /\ PacketBytes(p) \in Seq(B)
      BY <2>5, <3>1, <3>2, SeqMonotonic
    <3>. QED  BY <2>7, <2>8, <3>1, <3>3, SeqEqual
  <2>10. b[1][1] = p /\ b # <<>>
    <3>1. 1 \in 1 .. l
      BY <2>3
    <3>2. b[1] = <<p, 1>>
      BY <2>8, <3>1
    <3>3. t # e
      BY <1>1, <2>3, <2>4, <2>7
    <3>. QED  BY <2>5, <3>2, <3>3
  <2>11. Len(b) > HeaderSize + TagSize
    BY <2>3, <2>7, PacketAssumption
  <2>12. Dec!Opens
    <3>1. Dec!HeaderOf(Dec!Burst) = p
      BY <2>10, DecSame DEF b
    <3>2. ref \in {Dec!NoStream, p.stream}
      BY <1>2, <2>3 DEF Dec!NoStream
    <3>. QED  BY <1>4, <2>3, <2>7, <2>9, <2>11, <3>1, <3>2, DecSame DEF Dec!Opens, b
  <2>. QED  BY <1>4, <2>10, <2>12 DEF b
<1>. QED  BY <1>2, <1>3, <1>4

(* A call of the decryptor delivers, ends the stream, fails or does        *)
(* nothing the promise is about.                                           *)
LEMMA OpenKeeps ==
  ASSUME SizeTypes, GotBytes, OpenInv, get = "decrypt", Dec!Next,
         sizes' = sizes, get' = get
  PROVE  OpenInv' /\ got' = got /\ [Promise!Next]_Promise!vars
<1>1. CASE Dec!Read \/ Dec!Return
  <2>1. /\ \/ /\ openAt = "idle" /\ openRoom' \in Buffers
              /\ openAt' = IF dataOffset > 0 THEN "drain" ELSE "fill"
           \/ openAt = "fill" /\ openAt' = "idle" /\ UNCHANGED openRoom
        /\ UNCHANGED <<got, used, ref, openSeq, openFinal, data, dataOffset, plain>>
    BY <1>1 DEF Dec!Read, Dec!Return
  <2>2. openRoom' \in Nat /\ (openAt' = "drain" => dataOffset > 0 /\ openRoom' > 0)
    <3>1. openRoom \in Nat /\ dataOffset \in Nat
      BY DEF OpenInv, OpenTypes
    <3>2. \A n \in Buffers : n \in Nat /\ n > 0
      BY StreamAssumption
    <3>3. CASE openAt = "idle"
      BY <2>1, <3>1, <3>2, <3>3
    <3>4. CASE openAt # "idle"
      BY <2>1, <3>1, <3>4
    <3>. QED  BY <3>3, <3>4
  <2>3. OpenTypes'
    BY <2>1, <2>2 DEF OpenInv, OpenTypes
  <2>4. OpenSteps'
    BY <2>1, <2>2 DEF OpenInv, OpenTypes, OpenSteps
  <2>5. UsedPackets' /\ Nothing' /\ PlainIsStart' /\ DataHeld' /\ NotYet'
    BY <2>1 DEF OpenInv, UsedPackets, Nothing, PlainIsStart, Held, DataHeld, NotYet
  <2>6. WholeOpens'
    BY <2>1 DEF OpenInv, WholeOpens, Whole
  <2>7. UNCHANGED Promise!vars
    BY <2>1 DEF Promise!vars
  <2>. QED  BY <2>1, <2>3, <2>4, <2>5, <2>6, <2>7 DEF OpenInv
<1>2. CASE Dec!Drain
  <2>1. got' = got
    BY <1>2 DEF Dec!Drain
  <2>. QED  BY <1>2, <2>1, OpenDrainKeeps DEF Promise!Next
<1>3. CASE Dec!OpenToCaller
  <2>1. got' = got
    BY <1>3 DEF Dec!OpenToCaller
  <2>. QED  BY <1>3, <2>1, OpenToCallerKeeps DEF Promise!Next
<1>4. CASE Dec!OpenToBuffer
  <2>1. got' = got
    BY <1>4 DEF Dec!OpenToBuffer
  <2>. QED  BY <1>4, <2>1, OpenToBufferKeeps DEF Promise!Next
<1>5. CASE Dec!EndOfStream \/ Dec!Rejects
  <2>1. /\ openAt = "fill"
        /\ \/ Dec!Burst = <<>> /\ openAt' = IF openFinal THEN "eof" ELSE "error"
           \/ Dec!Burst # <<>> /\ ~Dec!Opens /\ openAt' = "error"
        /\ UNCHANGED <<got, openRoom, used, ref, openSeq, openFinal, data, dataOffset, plain>>
    BY <1>5 DEF Dec!EndOfStream, Dec!Rejects
  <2>2. openAt' \in {"eof", "error"} /\ (openAt' = "eof" => openFinal)
    BY <2>1
  <2>3. OpenTypes'
    BY <2>1, <2>2 DEF OpenInv, OpenTypes
  <2>4. OpenSteps'
    BY <2>1, <2>2 DEF OpenInv, OpenSteps
  <2>5. UsedPackets' /\ Nothing' /\ PlainIsStart' /\ DataHeld' /\ NotYet'
    BY <2>1 DEF OpenInv, UsedPackets, Nothing, PlainIsStart, Held, DataHeld, NotYet
  <2>6. WholeOpens'
    <3>1. SUFFICES ASSUME NEW v \in {Old, New}, sizes[v] > 0, got = Whole(v)
                   PROVE  openAt' # "error" /\ ref \in {0, v} /\ (openFinal => used = Len(got))
      BY <2>1 DEF WholeOpens, Whole
    <3>2. IF openFinal THEN Dec!Burst = <<>> ELSE Dec!Burst # <<>> /\ Dec!Opens
      BY <2>1, <3>1, WholeIsNotRefused
    <3>3. openFinal \in BOOLEAN
      BY DEF OpenInv, OpenTypes
    <3>4. openAt' # "error"
      BY <2>1, <3>2, <3>3
    <3>. QED  BY <3>1, <3>4 DEF OpenInv, WholeOpens
  <2>7. Promise!End \/ Promise!Fail
    <3>1. CASE openAt' = "error"
      BY <2>1, <3>1 DEF Promise!Fail
    <3>2. CASE openAt' = "eof"
      <4>1. openFinal /\ dataOffset = 0
        BY <2>1, <2>2, <3>2 DEF OpenInv, OpenSteps
      <4>2. ref # 0 /\ ref \in {Old, New}
        BY <4>1 DEF OpenInv, OpenTypes, Nothing
      <4>3. plain = Value(ref, Len(plain)) /\ Len(plain) + 0 = sizes[ref] /\ sizes[ref] > 0
        BY <4>1, <4>2 DEF OpenInv, PlainIsStart, Held
      <4>4. Len(plain) \in Nat
        BY DEF OpenInv, OpenTypes
      <4>5. plain = Value(ref, sizes[ref]) /\ Len(plain) > 0
        BY <4>3, <4>4
      <4>6. plain # <<>>
        BY <4>5
      <4>7. plain = [k \in 1 .. sizes[ref] |-> <<ref, k>>]
        BY <4>5 DEF Value
      <4>. QED  BY <2>1, <3>2, <4>2, <4>6, <4>7 DEF Promise!End
    <3>. QED  BY <2>2, <3>1, <3>2
  <2>. QED  BY <2>1, <2>3, <2>4, <2>5, <2>6, <2>7 DEF OpenInv, Promise!Next
<1>. QED  BY <1>1, <1>2, <1>3, <1>4, <1>5 DEF Dec!Next
-----------------------------------------------------------------------------
(* The encryptor never returns more than the encoding.                     *)
LEMMA OutLength ==
  ASSUME SizeTypes, SealInv
  PROVE  /\ Len(out) <= EncodedLength(sizes[New])
         /\ sealAt = "eof" => Len(out) = EncodedLength(sizes[New])
<1>1. /\ sizes[New] \in Nat /\ Len(out) \in Nat /\ packetOffset \in Nat
      /\ EncodedLength(sizes[New]) \in Nat
  BY EncodingIsStart DEF SizeTypes, SealInv, SealTypes
<1>2. Unsent \in Nat
  <2>1. CASE packetOffset > 0
    <3>1. PacketLength(packet) \in Nat /\ packetOffset \in 1 .. PacketLength(packet)
      BY <2>1, HeldPacket
    <3>. QED  BY <2>1, <3>1 DEF Unsent
  <2>2. CASE ~(packetOffset > 0)
    BY <2>2 DEF Unsent
  <2>. QED  BY <2>1, <2>2
<1>3. CASE sealFinal
  <2>1. Len(out) + Unsent = EncodedLength(sizes[New])
    BY <1>3 DEF SealInv, OutIsStart
  <2>2. sealAt = "eof" => Unsent = 0
    BY <1>1 DEF SealInv, SealSteps, Unsent
  <2>. QED  BY <1>1, <1>2, <2>1, <2>2
<1>4. CASE ~sealFinal
  <2>1. Len(out) + Unsent = sealSeq * MaxBufferSize
    BY <1>4 DEF SealInv, OutIsStart
  <2>2. sealAt # "eof"
    BY <1>4 DEF SealInv, SealSteps
  <2>3. CASE taken = 0
    <3>1. sealSeq = 0
      BY <1>4, <2>3, PacketAssumption DEF SealInv, SealTypes, ByteAhead
    <3>. QED  BY <1>1, <1>2, <2>1, <2>2, <3>1, SizesArePositive
  <2>4. CASE taken # 0
    <3>. DEFINE t == sealSeq * MaxBufferSize
                l == PacketLength(PacketAt(New, sizes[New], sealSeq))
    <3>1. sealSeq \in Nat /\ sealSeq * MaxPayloadSize < sizes[New]
      BY <1>4, <2>4, SealedIsNext DEF SealInv, SealTypes
    <3>2. t \in Nat /\ t + l <= EncodedLength(sizes[New])
      BY <1>1, <3>1, PacketPlaces
    <3>3. l \in Nat
      BY <1>1, <3>1, PacketLengths, SizesArePositive
    <3>4. Len(out) + Unsent = t
      BY <2>1
    <3>. HIDE DEF t, l
    <3>. QED  BY <1>1, <1>2, <2>2, <3>2, <3>3, <3>4
  <2>. QED  BY <2>3, <2>4
<1>. QED  BY <1>3, <1>4

(* Every byte of the file is a byte of one of the encodings, at its place. *)
LEMMA FileGenuine ==
  ASSUME SizeTypes, SealInv, FileIsStart
  PROVE  \E v \in {Old, New} :
           /\ Len(file) \in Nat
           /\ Len(file) <= EncodedLength(sizes[v])
           /\ \A k \in 1 .. Len(file) : file[k] = EncodedByte(v, sizes[v], k)
           /\ file = Start(v, sizes[v], Len(file))
<1>1. CASE put = "new"
  <2>1. file = Start(Old, sizes[Old], EncodedLength(sizes[Old]))
    BY <1>1 DEF FileIsStart, Whole
  <2>2. EncodedLength(sizes[Old]) \in Nat
    BY EncodingIsStart DEF SizeTypes
  <2>3. Len(file) = EncodedLength(sizes[Old])
    BY <2>1, <2>2, StartIsSeq
  <2>4. \A k \in 1 .. Len(file) : file[k] = EncodedByte(Old, sizes[Old], k)
    BY <2>1, <2>2, <2>3, StartIsSeq
  <2>. WITNESS Old \in {Old, New}
  <2>. QED  BY <2>1, <2>2, <2>3, <2>4
<1>2. CASE put # "new"
  <2>1. /\ Len(file) \in 0 .. Len(out) /\ Len(out) \in Nat
        /\ file = Start(New, sizes[New], Len(file))
    BY <1>2 DEF FileIsStart, SealInv, SealTypes
  <2>2. EncodedLength(sizes[New]) \in Nat
    BY EncodingIsStart DEF SizeTypes
  <2>3. Len(file) \in Nat /\ Len(file) <= EncodedLength(sizes[New])
    BY <2>1, <2>2, OutLength
  <2>4. \A k \in 1 .. Len(file) : file[k] = EncodedByte(New, sizes[New], k)
    BY <2>1, <2>3, StartIsSeq
  <2>. WITNESS New \in {Old, New}
  <2>. QED  BY <2>1, <2>3, <2>4
<1>. QED  BY <1>1, <1>2

(* The initial states. *)
LEMMA InitInv ==
  ASSUME Init
  PROVE  IInv
<1>1. SizeTypes
  BY StreamAssumption, OldNew DEF Init, SizeTypes
<1>2. /\ put = "new" /\ get = "read" /\ got = <<>>
      /\ file = Encoding(Old, sizes[Old])
      /\ sealAt = "idle" /\ sealRoom = 0 /\ taken = 0 /\ sealSeq = 0
      /\ sealFinal = FALSE /\ packetOffset = 0 /\ out = <<>>
      /\ openAt = "idle" /\ openRoom = 0 /\ ref = 0 /\ used = 0 /\ openSeq = 0
      /\ openFinal = FALSE /\ dataOffset = 0 /\ plain = <<>>
  BY DEF Init, Enc!Init, Dec!Init, Dec!NoStream
<1>3. Len(<<>>) = 0 /\ Start(New, sizes[New], 0) = <<>>
  BY DEF Start
<1>4. SealInv
  <2>1. OutIsStart
    BY <1>2, <1>3, SizesArePositive DEF OutIsStart, Unsent
  <2>2. SealTypes
    BY <1>2, <1>3 DEF SealTypes
  <2>3. ByteAhead /\ PacketHeld /\ SealSteps
    BY <1>2 DEF ByteAhead, PacketHeld, SealSteps
  <2>. QED  BY <2>1, <2>2, <2>3 DEF SealInv
<1>5. FileIsStart /\ DoneWhole /\ PhaseTypes
  <2>1. file = Whole(Old)
    BY <1>1, <1>2, EncodingIsStart DEF Whole, SizeTypes
  <2>. QED  BY <1>2, <2>1 DEF FileIsStart, DoneWhole, PhaseTypes
<1>6. GotBytes
  BY <1>2, <1>3 DEF GotBytes
<1>7. OpenInv
  <2>1. UsedPackets
    BY <1>2, <1>3, SizesArePositive DEF UsedPackets
  <2>2. OpenTypes
    BY <1>2, <1>3 DEF OpenTypes
  <2>3. NotYet /\ Nothing /\ PlainIsStart /\ DataHeld /\ OpenSteps /\ WholeOpens
    BY <1>2 DEF NotYet, Nothing, PlainIsStart, DataHeld, OpenSteps, WholeOpens
  <2>. QED  BY <2>1, <2>2, <2>3 DEF OpenInv
<1>. QED  BY <1>1, <1>4, <1>5, <1>6, <1>7 DEF IInv

(* One read of the file, whichever value it holds by then.                 *)
LEMMA ReadFileKeeps ==
  ASSUME IInv, ReadFile
  PROVE  GotBytes' /\ OpenInv'
<1>1. PICK n \in Len(got) + 1 .. Len(file) : got' = got \o SubSeq(file, Len(got) + 1, n)
  BY DEF ReadFile
<1>2. get = "read" /\ UNCHANGED <<sizes, file, put, get, sealing, opening>>
  BY DEF ReadFile
<1>3. PICK v \in {Old, New} :
        /\ Len(file) \in Nat
        /\ Len(file) <= EncodedLength(sizes[v])
        /\ \A k \in 1 .. Len(file) : file[k] = EncodedByte(v, sizes[v], k)
  BY FileGenuine DEF IInv
<1>4. Len(got) \in Nat /\ got \in Seq(FileBytes) /\ EncodedLength(sizes[v]) \in Nat
  BY GotIsSeq, EncodingIsStart DEF IInv, GotBytes, SizeTypes
<1>5. n \in Nat /\ n > Len(got) /\ n <= Len(file)
  BY <1>1, <1>3, <1>4
<1>6. \A k \in Len(got) + 1 .. n : k \in 1 .. Len(file) /\ k \in Nat
  BY <1>3, <1>4, <1>5
<1>7. \A k \in Len(got) + 1 .. n :
        file[k] = EncodedByte(v, sizes[v], k) /\ file[k] \in FileBytes
  BY <1>3, <1>6 DEF FileBytes, Bytes
<1>8. PICK part : part = SubSeq(file, Len(got) + 1, n)
  OBVIOUS
<1>9. /\ part \in Seq(FileBytes)
      /\ Len(part) = n - Len(got)
      /\ \A i \in 1 .. n - Len(got) : part[i] = file[Len(got) + i]
  <2>1. Len(got) + 1 \in Int /\ n \in Int /\ Len(got) + 1 <= n
    BY <1>4, <1>5
  <2>2. /\ part \in Seq(FileBytes)
        /\ Len(part) = IF Len(got) + 1 <= n THEN n - (Len(got) + 1) + 1 ELSE 0
        /\ \A i \in 1 .. n - (Len(got) + 1) + 1 : part[i] = file[(Len(got) + 1) + i - 1]
    BY <1>7, <1>8, <2>1, SubSeqProperties
  <2>3. n - (Len(got) + 1) + 1 = n - Len(got)
    BY <1>4, <1>5
  <2>4. \A i \in 1 .. n - Len(got) : (Len(got) + 1) + i - 1 = Len(got) + i
    BY <1>4
  <2>. QED  BY <2>1, <2>2, <2>3, <2>4
<1>10. /\ got' \in Seq(FileBytes) /\ Len(got') = Len(got) + Len(part)
       /\ \A i \in 1 .. Len(got) + Len(part) :
            got'[i] = IF i <= Len(got) THEN got[i] ELSE part[i - Len(got)]
  BY <1>1, <1>4, <1>8, <1>9, ConcatProperties
<1>11. Len(got') = n
  BY <1>4, <1>5, <1>9, <1>10
<1>12. \A k \in 1 .. n : \E w \in {Old, New} :
         k <= EncodedLength(sizes[w]) /\ got'[k] = EncodedByte(w, sizes[w], k)
  <2>. TAKE k \in 1 .. n
  <2>1. CASE k <= Len(got)
    <3>1. k \in 1 .. Len(got) /\ got'[k] = got[k]
      BY <1>4, <1>5, <1>10, <1>11, <2>1
    <3>. QED  BY <3>1 DEF IInv, GotBytes
  <2>2. CASE k > Len(got)
    <3>1. /\ k \in Len(got) + 1 .. n /\ k - Len(got) \in 1 .. n - Len(got)
          /\ Len(got) + (k - Len(got)) = k /\ k <= EncodedLength(sizes[v])
      BY <1>3, <1>4, <1>5, <2>2
    <3>2. got'[k] = part[k - Len(got)]
      BY <1>4, <1>5, <1>10, <1>11, <2>2
    <3>3. got'[k] = EncodedByte(v, sizes[v], k)
      BY <1>7, <1>9, <3>1, <3>2
    <3>. QED  BY <3>1, <3>3
  <2>. QED  BY <1>4, <1>5, <2>1, <2>2
<1>13. GotBytes'
  <2>1. Len(got') \in Nat /\ got' = [k \in 1 .. Len(got') |-> got'[k]]
    BY <1>5, <1>10, <1>11, LenProperties
  <2>. QED  BY <1>2, <1>11, <1>12, <2>1 DEF GotBytes
<1>14. OpenInv'
  <2>1. UNCHANGED <<openAt, openRoom, ref, used, openSeq, openFinal, data, dataOffset, plain>>
    BY <1>2 DEF opening
  <2>2. UsedPackets'
    BY <1>2, <1>5, <1>11, <2>1 DEF IInv, OpenInv, NotYet, UsedPackets
  <2>3. /\ OpenTypes' /\ NotYet' /\ Nothing' /\ PlainIsStart' /\ DataHeld' /\ OpenSteps'
    BY <1>2, <2>1 DEF IInv, OpenInv, OpenTypes, NotYet, Nothing, PlainIsStart, Held,
                      DataHeld, OpenSteps
  <2>4. WholeOpens'
    BY <1>2 DEF WholeOpens
  <2>. QED  BY <2>2, <2>3, <2>4 DEF OpenInv
<1>. QED  BY <1>13, <1>14

(* Only Decrypt touches what the promise is about.                         *)
LEMMA StepKeeps ==
  ASSUME IInv, [Next]_vars
  PROVE  IInv' /\ [Promise!Next]_Promise!vars
<1>. USE DEF IInv
<1>1. ASSUME UNCHANGED <<sizes, got, get, opening>>
      PROVE  SizeTypes' /\ GotBytes' /\ OpenInv' /\ UNCHANGED Promise!vars
  <2>1. SizeTypes' /\ GotBytes'
    BY <1>1 DEF SizeTypes, GotBytes
  <2>2. OpenInv'
    BY <1>1 DEF opening, OpenInv, OpenTypes, NotYet, UsedPackets, Nothing, PlainIsStart,
                Held, DataHeld, OpenSteps, WholeOpens, Whole
  <2>3. UNCHANGED Promise!vars
    BY <1>1 DEF opening, Promise!vars
  <2>. QED  BY <2>1, <2>2, <2>3
<1>2. ASSUME UNCHANGED <<sizes, sealing>>
      PROVE  SealInv'
  BY <1>2 DEF sealing, SealInv, SealTypes, ByteAhead, PacketHeld, OutIsStart, Unsent, SealSteps
<1>3. Len(out) \in Nat /\ out = Start(New, sizes[New], Len(out))
  BY DEF SealInv, SealTypes, OutIsStart
<1>4. CASE Truncate
  <2>1. /\ file' = <<>> /\ put' = "copy" /\ UNCHANGED <<sizes, get, got, sealing, opening>>
    BY <1>4 DEF Truncate
  <2>2. FileIsStart'
    <3>1. Len(<<>>) = 0 /\ Start(New, sizes[New], 0) = <<>>
      BY DEF Start
    <3>. QED  BY <1>3, <2>1, <3>1 DEF FileIsStart, sealing
  <2>3. DoneWhole' /\ PhaseTypes'
    BY <2>1 DEF DoneWhole, PhaseTypes
  <2>. QED  BY <1>1, <1>2, <2>1, <2>2, <2>3
<1>5. CASE Encrypt
  <2>1. put = "copy" /\ Enc!Next /\ UNCHANGED <<sizes, file, put, get, got, opening>>
    BY <1>5 DEF Encrypt
  <2>2. SealInv' /\ Len(out) <= Len(out')
    BY <2>1, SealKeeps
  <2>3. FileIsStart'
    <3>1. Len(out') \in Nat
      BY <2>2 DEF SealInv, SealTypes
    <3>. QED  BY <1>3, <2>1, <2>2, <3>1 DEF FileIsStart
  <2>4. DoneWhole' /\ PhaseTypes'
    BY <2>1 DEF DoneWhole, PhaseTypes
  <2>. QED  BY <1>1, <2>1, <2>2, <2>3, <2>4
<1>6. CASE Write
  <2>1. PICK n \in Len(file) + 1 .. Len(out) : file' = SubSeq(out, 1, n)
    BY <1>6 DEF Write
  <2>2. /\ put = "copy" /\ UNCHANGED <<sizes, put, get, got, sealing, opening>>
    BY <1>6 DEF Write
  <2>3. n \in 0 .. Len(out)
    BY <1>3, <2>1, <2>2 DEF FileIsStart
  <2>4. file' = Start(New, sizes[New], n)
    BY <1>3, <2>1, <2>3, StartOfStart
  <2>5. FileIsStart'
    <3>1. Len(file') = n
      BY <2>3, <2>4, StartIsSeq
    <3>. QED  BY <2>2, <2>3, <2>4, <3>1 DEF FileIsStart, sealing
  <2>6. DoneWhole' /\ PhaseTypes'
    BY <2>2 DEF DoneWhole, PhaseTypes
  <2>. QED  BY <1>1, <1>2, <2>2, <2>5, <2>6
<1>7. CASE Copied \/ Stop
  <2>1. /\ put = "copy"
        /\ put' = "stopped" \/ (put' = "done" /\ sealAt = "eof" /\ file = out)
        /\ UNCHANGED <<sizes, file, get, got, sealing, opening>>
    BY <1>7 DEF Copied, Stop
  <2>2. FileIsStart'
    BY <2>1 DEF FileIsStart, sealing
  <2>3. DoneWhole' /\ PhaseTypes'
    BY <2>1 DEF DoneWhole, PhaseTypes, sealing
  <2>. QED  BY <1>1, <1>2, <2>1, <2>2, <2>3
<1>8. CASE ReadFile
  <2>1. UNCHANGED <<sizes, file, put, get, sealing, opening>>
    BY <1>8 DEF ReadFile
  <2>2. SizeTypes' /\ PhaseTypes' /\ FileIsStart' /\ DoneWhole'
    BY <2>1 DEF SizeTypes, PhaseTypes, FileIsStart, DoneWhole, Whole, sealing
  <2>3. UNCHANGED Promise!vars
    BY <2>1 DEF Promise!vars, opening
  <2>. QED  BY <1>2, <1>8, <2>1, <2>2, <2>3, ReadFileKeeps
<1>9. CASE ReadAll
  <2>1. /\ get = "read" /\ get' = "decrypt"
        /\ UNCHANGED <<sizes, file, put, got, sealing, opening>>
    BY <1>9 DEF ReadAll
  <2>2. SizeTypes' /\ PhaseTypes' /\ FileIsStart' /\ DoneWhole' /\ GotBytes'
    BY <2>1 DEF SizeTypes, PhaseTypes, FileIsStart, DoneWhole, Whole, GotBytes, sealing
  <2>3. openAt = "idle" /\ ref = 0 /\ ~openFinal
    BY <2>1 DEF OpenInv, NotYet
  <2>4. OpenInv'
    BY <2>1, <2>3 DEF opening, OpenInv, OpenTypes, NotYet, UsedPackets, Nothing, PlainIsStart,
                      Held, DataHeld, OpenSteps, WholeOpens
  <2>5. UNCHANGED Promise!vars
    BY <2>1 DEF Promise!vars, opening
  <2>. QED  BY <1>2, <2>1, <2>2, <2>4, <2>5
<1>10. CASE Decrypt
  <2>1. /\ get = "decrypt" /\ Dec!Next /\ UNCHANGED <<sizes, file, put, get, sealing>>
    BY <1>10 DEF Decrypt
  <2>2. OpenInv' /\ got' = got /\ [Promise!Next]_Promise!vars
    BY <2>1, OpenKeeps
  <2>3. SizeTypes' /\ PhaseTypes' /\ FileIsStart' /\ DoneWhole' /\ GotBytes'
    BY <2>1, <2>2 DEF SizeTypes, PhaseTypes, FileIsStart, DoneWhole, Whole, GotBytes, sealing
  <2>. QED  BY <1>2, <2>1, <2>2, <2>3
<1>11. CASE UNCHANGED vars
  <2>1. UNCHANGED <<sizes, file, put, get, got, sealing, opening>>
    BY <1>11 DEF vars
  <2>2. FileIsStart' /\ DoneWhole' /\ PhaseTypes'
    BY <2>1 DEF FileIsStart, DoneWhole, PhaseTypes, Whole, sealing
  <2>. QED  BY <1>1, <1>2, <2>1, <2>2
<1>. QED
  BY <1>4, <1>5, <1>6, <1>7, <1>8, <1>9, <1>10, <1>11 DEF Next, PutNext, GetNext
-----------------------------------------------------------------------------
(* The invariant holds: bytes keep their places from the value to the      *)
(* caller of Get (secure.go:63-316, internal.go:96-165).                   *)
THEOREM StreamInvariant == Spec => []IInv
<1>1. Init => IInv
  BY InitInv
<1>2. IInv /\ [Next]_vars => IInv'
  BY StepKeeps
<1>. QED  BY <1>1, <1>2, PTL DEF Spec

(* What the encryptor has returned is the start of the encoding, for every *)
(* value, every size of payload, header and tag, and every slices.         *)
THEOREM StreamIsFaithful == Spec => []EncodingFaithful
<1>1. IInv => EncodingFaithful
  <2>. SUFFICES ASSUME IInv
                PROVE  EncodingFaithful
    OBVIOUS
  <2>1. /\ Encoding(New, sizes[New]) = Start(New, sizes[New], EncodedLength(sizes[New]))
        /\ EncodedLength(sizes[New]) \in Nat
    BY EncodingIsStart DEF IInv, SizeTypes
  <2>2. Len(out) \in Nat /\ out = Start(New, sizes[New], Len(out))
    BY DEF IInv, SealInv, SealTypes, OutIsStart
  <2>3. /\ Len(out) <= EncodedLength(sizes[New])
        /\ sealAt = "eof" => Len(out) = EncodedLength(sizes[New])
    BY OutLength DEF IInv
  <2>4. Len(out) \in 0 .. EncodedLength(sizes[New])
    BY <2>1, <2>2, <2>3
  <2>5. SubSeq(Start(New, sizes[New], EncodedLength(sizes[New])), 1, Len(out))
          = Start(New, sizes[New], Len(out))
    BY <2>1, <2>4, StartOfStart
  <2>6. Len(Encoding(New, sizes[New])) = EncodedLength(sizes[New])
    BY <2>1, StartIsSeq
  <2>. QED  BY <2>1, <2>2, <2>3, <2>5, <2>6 DEF EncodingFaithful
<1>. QED  BY <1>1, StreamInvariant, PTL

(* The value that was put comes back whole, whatever the slices.           *)
THEOREM StreamRoundTrips == Spec => []RoundTrip
<1>1. IInv => RoundTrip
  <2>. DEFINE v == IF put = "new" THEN Old ELSE New
  <2>. SUFFICES ASSUME IInv, put \in {"new", "done"}, get = "decrypt", got = file, file # <<>>
                PROVE  openAt # "error" /\ (openAt = "eof" => plain = Value(v, sizes[v]))
    BY DEF RoundTrip
  <2>1. v \in {Old, New} /\ sizes[v] \in Nat
    BY DEF IInv, SizeTypes
  <2>2. file = Whole(v)
    <3>1. CASE put = "new"
      BY <3>1 DEF IInv, FileIsStart
    <3>2. CASE put = "done"
      <4>1. sealAt = "eof" /\ file = out
        BY <3>2 DEF IInv, DoneWhole
      <4>2. Len(out) = EncodedLength(sizes[New])
        BY <4>1, OutLength DEF IInv
      <4>3. out = Start(New, sizes[New], Len(out))
        BY DEF IInv, SealInv, OutIsStart
      <4>. QED  BY <3>2, <4>1, <4>2, <4>3 DEF Whole
    <3>. QED  BY <3>1, <3>2
  <2>3. sizes[v] > 0
    <3>1. SUFFICES ASSUME sizes[v] = 0
                   PROVE  FALSE
      BY <2>1
    <3>2. file = Start(v, 0, 0)
      BY <2>2, <3>1, NoPackets DEF Whole
    <3>. QED  BY <3>2 DEF Start
  <2>4. openAt # "error" /\ ref \in {0, v}
    BY <2>1, <2>2, <2>3 DEF IInv, OpenInv, WholeOpens
  <2>5. ASSUME openAt = "eof"
        PROVE  plain = Value(v, sizes[v])
    <3>1. dataOffset = 0 /\ openFinal
      BY <2>5 DEF IInv, OpenInv, OpenSteps
    <3>2. ref = v /\ ref # 0
      BY <2>4, <3>1 DEF IInv, OpenInv, Nothing
    <3>3. plain = Value(ref, Len(plain)) /\ Len(plain) + 0 = sizes[ref]
      BY <3>1, <3>2 DEF IInv, OpenInv, PlainIsStart, Held
    <3>4. Len(plain) \in Nat
      BY DEF IInv, OpenInv, OpenTypes
    <3>. QED  BY <3>2, <3>3, <3>4
  <2>. QED  BY <2>4, <2>5
<1>. QED  BY <1>1, StreamInvariant, PTL

(* Every behaviour of the stream is one of the promise.                    *)
THEOREM StreamImplementsDelivery == Spec => ImplementsDelivery
<1>1. Init => Promise!Init
  BY DEF Init, Dec!Init, Promise!Init
<1>2. IInv /\ [Next]_vars => [Promise!Next]_Promise!vars
  BY StepKeeps
<1>. QED
  BY <1>1, <1>2, StreamInvariant, PTL DEF Spec, ImplementsDelivery, Promise!Spec
=============================================================================
