-------------------------- MODULE MCSecureStream --------------------------
(* A small instance of SecureStream for TLC: a packet is a byte of header  *)
(* and up to three of payload; the tag is one more byte that only opens a  *)
(* whole packet, and has length zero here.                                 *)
EXTENDS SecureStream
=============================================================================
