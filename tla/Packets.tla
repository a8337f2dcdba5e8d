------------------------------ MODULE Packets ------------------------------
(***************************************************************************)
(* The format of an encrypted stream (pkg/file/helper.go and the seal and  *)
(* metadata methods of secure.go).  A stream is cut into packets; a packet *)
(* is a header, a payload of at most MaxPayloadSize bytes and a tag.  The  *)
(* cipher is taken as ideal: a run of bytes opens if and only if it is a   *)
(* packet, whole, with the sequence number that is expected.  A packet is  *)
(* named by what it seals: the stream (its random value), the sequence     *)
(* number that goes into its nonce, the positions of its payload in the    *)
(* value and the final flag.  A byte of a packet is its place in it.       *)
(***************************************************************************)
EXTENDS Integers, Sequences

CONSTANTS
  MaxPayloadSize,  \* 2^16 in the code
  HeaderSize,      \* 16
  TagSize          \* 16

ASSUME PacketAssumption ==
  /\ MaxPayloadSize \in Nat \ {0}
  /\ HeaderSize \in Nat \ {0}
  /\ TagSize \in Nat

MaxBufferSize == HeaderSize + MaxPayloadSize + TagSize

Lesser(a, b) == IF a < b THEN a ELSE b

(* Header.GetLength *)
PayloadLength(p) == p.last - p.first + 1

(* Buffer.GetLength *)
PacketLength(p) == HeaderSize + TagSize + PayloadLength(p)

PacketBytes(p) == [k \in 1 .. PacketLength(p) |-> <<p, k>>]

(* Buffer.Data, once the packet has been opened *)
Payload(p) == [k \in 1 .. PayloadLength(p) |-> <<p.stream, p.first + k - 1>>]

(* Buffer.Header of the bytes read from a stream: the packet the first of  *)
(* them belongs to.  A header that is torn does not open anyway.           *)
HeaderOf(bytes) == bytes[1][1]
-----------------------------------------------------------------------------
(* The encoding both ends must agree on, as a function of the value.       *)

Value(stream, size) == [k \in 1 .. size |-> <<stream, k>>]

NumPackets(size) == (size + MaxPayloadSize - 1) \div MaxPayloadSize

PacketAt(stream, size, n) ==
  [stream |-> stream, seq |-> n, first |-> n * MaxPayloadSize + 1,
   last |-> Lesser((n + 1) * MaxPayloadSize, size),
   final |-> n = NumPackets(size) - 1]

(* All packets but the last are full. *)
Encoding(stream, size) ==
  [k \in 1 .. size + NumPackets(size) * (HeaderSize + TagSize) |->
     <<PacketAt(stream, size, (k - 1) \div MaxBufferSize), ((k - 1) % MaxBufferSize) + 1>>]
=============================================================================
