----------------------------- MODULE Decryptor -----------------------------
(***************************************************************************)
(* The decryptor of pkg/file/secure.go: an io.Reader over the bytes of a   *)
(* file, which Get has read into memory.  Each packet is opened straight   *)
(* into the caller's p when p can hold any payload, and else in d.buffer,  *)
(* from where the rest is handed out by later calls.                       *)
(***************************************************************************)
EXTENDS Packets

CONSTANT Buffers      \* the lengths of p that Read is called with

VARIABLES
  cipher,      \* the bytes of the file
  used,        \* how many of them have been read
  at,          \* where Read is; idle, or eof or error when it is over
  room,        \* bytes left in p
  ref,         \* the stream of d.header, or NoStream
  seq,         \* d.sequenceNumber
  finalized,
  data,        \* d.buffer.Data(), the payload of a packet
  offset,      \* d.offset
  plain        \* what the calls of Read have returned so far

vars == <<cipher, used, at, room, ref, seq, finalized, data, offset, plain>>

NoStream == 0

Init ==
  /\ used = 0
  /\ at = "idle"
  /\ room = 0
  /\ ref = NoStream
  /\ seq = 0
  /\ finalized = FALSE
  /\ data = <<>>
  /\ offset = 0
  /\ plain = <<>>

(* A call of Read. *)
Read ==
  /\ at = "idle"
  /\ \E n \in Buffers : room' = n
  /\ at' = IF offset > 0 THEN "drain" ELSE "fill"
  /\ UNCHANGED <<cipher, used, ref, seq, finalized, data, offset, plain>>

(* d.offset > 0: the rest of the payload in d.buffer comes first. *)
Drain ==
  /\ at = "drain"
  /\ LET remaining == Len(data) - offset
         count == Lesser(room, remaining)
     IN  /\ plain' = plain \o SubSeq(data, offset + 1, offset + count)
         /\ offset' = IF room < remaining THEN offset + count ELSE 0
         /\ room' = room - count
         /\ at' = IF room < remaining THEN "idle" ELSE "fill"
  /\ UNCHANGED <<cipher, used, ref, seq, finalized, data>>

Return ==
  /\ at = "fill"
  /\ room = 0
  /\ at' = "idle"
  /\ UNCHANGED <<cipher, used, room, ref, seq, finalized, data, offset, plain>>

(* What io.ReadFull(d.reader, d.buffer) gets. *)
Burst == SubSeq(cipher, used + 1, Lesser(Len(cipher), used + MaxBufferSize))

(* Mutant of EndOfStream: Read returns no byte and no error. *)
EndSilently ==
  /\ at = "fill"
  /\ room > 0
  /\ Burst = <<>>
  /\ at' = IF finalized THEN "eof" ELSE "idle"
  /\ UNCHANGED <<cipher, used, room, ref, seq, finalized, data, offset, plain>>

(* io.EOF: an error unless the final packet has been seen. *)
EndOfStream ==
  /\ at = "fill"
  /\ room > 0
  /\ Burst = <<>>
  /\ at' = IF finalized THEN "eof" ELSE "error"
  /\ UNCHANGED <<cipher, used, room, ref, seq, finalized, data, offset, plain>>

(* Mutant of Opens: neither the stream nor the sequence number is looked   *)
(* at.                                                                     *)
OpensAny ==
  /\ ~finalized
  /\ Len(Burst) > HeaderSize + TagSize
  /\ LET p == HeaderOf(Burst)
     IN  /\ Len(Burst) = PacketLength(p)
         /\ p.final \/ PayloadLength(p) = MaxPayloadSize
         /\ Burst = PacketBytes(p)

(* metadata: the checks of a packet before and by cipher.Open. *)
Opens ==
  /\ ~finalized
  /\ Len(Burst) > HeaderSize + TagSize
  /\ LET p == HeaderOf(Burst)
     IN  /\ Len(Burst) = PacketLength(p)
         /\ p.final \/ PayloadLength(p) = MaxPayloadSize
         /\ ref \in {NoStream, p.stream}
         /\ seq = p.seq
         /\ Burst = PacketBytes(p)

Rejects ==
  /\ at = "fill"
  /\ room > 0
  /\ Burst # <<>>
  /\ ~Opens
  /\ at' = "error"
  /\ UNCHANGED <<cipher, used, room, ref, seq, finalized, data, offset, plain>>

Open ==
  /\ Burst # <<>>
  /\ Opens
  /\ used' = used + Len(Burst)
  /\ ref' = HeaderOf(Burst).stream
  /\ finalized' = HeaderOf(Burst).final
  /\ seq' = seq + 1

OpenToCaller ==
  /\ at = "fill"
  /\ room >= MaxPayloadSize
  /\ Open
  /\ plain' = plain \o Payload(HeaderOf(Burst))
  /\ room' = room - PayloadLength(HeaderOf(Burst))
  /\ UNCHANGED <<cipher, at, data, offset>>

(* The call returns, even if the payload leaves some room. *)
OpenToBuffer ==
  /\ at = "fill"
  /\ room \in 1 .. MaxPayloadSize - 1
  /\ Open
  /\ data' = Payload(HeaderOf(Burst))
  /\ plain' = plain \o SubSeq(data', 1, Lesser(room, Len(data')))
  /\ offset' = IF room < Len(data') THEN room ELSE 0
  /\ room' = 0
  /\ at' = "idle"
  /\ UNCHANGED cipher

Next ==
  \/ Read \/ Drain \/ Return \/ EndOfStream \/ Rejects
  \/ OpenToCaller \/ OpenToBuffer
=============================================================================
