----------------------------- MODULE Encryptor -----------------------------
(***************************************************************************)
(* The encryptor of pkg/file/secure.go: an io.Reader over the value of an  *)
(* entry.  It is always one byte ahead of the packet it seals, so that it  *)
(* knows which packet is the last.  A call of Read fills the caller's p    *)
(* with what is left of the packet in e.buffer, then with whole packets    *)
(* sealed straight into p, then with the start of one sealed in e.buffer.  *)
(* The reader is a bytes.Buffer and gives no error but io.EOF.             *)
(***************************************************************************)
EXTENDS Packets

CONSTANTS
  Stream,    \* the stream's random value
  Buffers    \* the lengths of p that Read is called with

VARIABLES
  size,       \* length of the value
  at,         \* where Read is; idle between calls, eof when it is over
  room,       \* bytes left in p
  taken,      \* bytes read from e.reader; the last of them is e.lastByte
  seq,        \* e.sequenceNumber
  finalized,
  buffer,     \* the packet in e.buffer
  offset,     \* e.offset
  out         \* what the calls of Read have returned so far

vars == <<size, at, room, taken, seq, finalized, buffer, offset, out>>

NoPacket == [stream |-> 0, seq |-> 0, first |-> 1, last |-> 0, final |-> FALSE]

Init ==
  /\ at = "idle"
  /\ room = 0
  /\ taken = 0
  /\ seq = 0
  /\ finalized = FALSE
  /\ buffer = NoPacket
  /\ offset = 0
  /\ out = <<>>

(* firstRead on an empty value: EOF at once, and not a single packet. *)
ReadNothing ==
  /\ at = "idle"
  /\ size = 0
  /\ finalized' = TRUE
  /\ at' = "eof"
  /\ UNCHANGED <<size, room, taken, seq, buffer, offset, out>>

(* A call of Read; the first one takes one byte ahead. *)
Read ==
  /\ at = "idle"
  /\ size > 0
  /\ \E n \in Buffers : room' = n
  /\ taken' = IF taken = 0 THEN 1 ELSE taken
  /\ at' = IF offset > 0 THEN "drain" ELSE "fill"
  /\ UNCHANGED <<size, seq, finalized, buffer, offset, out>>

(* Mutant of Drain: what did not fit is forgotten. *)
DrainOnce ==
  /\ at = "drain"
  /\ LET remaining == PacketLength(buffer) - offset
         count == Lesser(room, remaining)
     IN  /\ out' = out \o SubSeq(PacketBytes(buffer), offset + 1, offset + count)
         /\ offset' = 0
         /\ room' = room - count
         /\ at' = IF room < remaining THEN "idle" ELSE "fill"
  /\ UNCHANGED <<size, taken, seq, finalized, buffer>>

(* e.offset > 0: the rest of the packet in e.buffer comes first. *)
Drain ==
  /\ at = "drain"
  /\ LET remaining == PacketLength(buffer) - offset
         count == Lesser(room, remaining)
     IN  /\ out' = out \o SubSeq(PacketBytes(buffer), offset + 1, offset + count)
         /\ offset' = IF room < remaining THEN offset + count ELSE 0
         /\ room' = room - count
         /\ at' = IF room < remaining THEN "idle" ELSE "fill"
  /\ UNCHANGED <<size, taken, seq, finalized, buffer>>

(* The last packet has been sealed before. *)
AfterFinal ==
  /\ at = "fill"
  /\ finalized
  /\ at' = "eof"
  /\ UNCHANGED <<size, room, taken, seq, finalized, buffer, offset, out>>

(* Bytes that io.ReadFull gets after e.lastByte. *)
Ahead == Lesser(MaxPayloadSize, size - taken)

(* Mutant of Sealed: the end of the value is not noticed when it is the    *)
(* end of a packet.                                                        *)
SealedLate ==
  LET last == size < taken + MaxPayloadSize - 1
  IN  [stream |-> Stream, seq |-> seq, first |-> taken,
       last |-> IF last THEN size ELSE taken + MaxPayloadSize - 1, final |-> last]

(* seal: the next packet is the last one iff io.ReadFull hits the end.     *)
Sealed ==
  LET last == Ahead < MaxPayloadSize
  IN  [stream |-> Stream, seq |-> seq, first |-> taken,
       last |-> IF last THEN size ELSE taken + MaxPayloadSize - 1, final |-> last]

Seal ==
  /\ seq' = seq + 1
  /\ taken' = taken + Ahead
  /\ finalized' = Sealed.final

(* There is room for any packet: it is sealed into p. *)
SealToCaller ==
  /\ at = "fill"
  /\ ~finalized
  /\ room >= MaxBufferSize
  /\ Seal
  /\ out' = out \o PacketBytes(Sealed)
  /\ room' = room - PacketLength(Sealed)
  /\ at' = IF Sealed.final THEN "eof" ELSE "fill"
  /\ UNCHANGED <<size, buffer, offset>>

(* There may not be: it is sealed in e.buffer.  When the last packet fits  *)
(* with room to spare Read ends the stream in the same call.               *)
SealToBuffer ==
  /\ at = "fill"
  /\ ~finalized
  /\ room \in 1 .. MaxBufferSize - 1
  /\ Seal
  /\ buffer' = Sealed
  /\ LET whole == Sealed.final /\ room > PacketLength(Sealed)
         count == Lesser(room, PacketLength(Sealed))
     IN  /\ out' = out \o SubSeq(PacketBytes(Sealed), 1, count)
         /\ offset' = IF whole THEN 0 ELSE count
         /\ room' = room - count
         /\ at' = IF whole THEN "eof" ELSE "idle"
  /\ UNCHANGED size

Return ==
  /\ at = "fill"
  /\ ~finalized
  /\ room = 0
  /\ at' = "idle"
  /\ UNCHANGED <<size, room, taken, seq, finalized, buffer, offset, out>>

Next ==
  \/ ReadNothing \/ Read \/ Drain \/ AfterFinal
  \/ SealToCaller \/ SealToBuffer \/ Return
=============================================================================
