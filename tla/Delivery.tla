------------------------------ MODULE Delivery ------------------------------
(***************************************************************************)
(* What reading an encrypted file promises: bytes of one value, from its   *)
(* first byte on and in order, and a clean end only when the value is      *)
(* whole.  It may fail at any time instead.                                *)
(***************************************************************************)
EXTENDS Integers, Sequences

CONSTANT Streams   \* the values the file may hold

VARIABLES
  sizes,     \* their lengths
  text,      \* what has been delivered
  end        \* open, eof or error

vars == <<sizes, text, end>>

Init == text = <<>> /\ end = "open"

Deliver ==
  /\ end = "open"
  /\ UNCHANGED <<sizes, end>>
  /\ \E s \in Streams : \E n \in Len(text) + 1 .. sizes[s] :
       /\ text' = [k \in 1 .. n |-> <<s, k>>]
       /\ text = SubSeq(text', 1, Len(text))

End ==
  /\ end = "open"
  /\ \E s \in Streams : text = [k \in 1 .. sizes[s] |-> <<s, k>>]
  /\ text # <<>>
  /\ end' = "eof"
  /\ UNCHANGED <<sizes, text>>

Fail ==
  /\ end = "open"
  /\ end' = "error"
  /\ UNCHANGED <<sizes, text>>

Next == Deliver \/ End \/ Fail

Spec == Init /\ [][Next]_vars
=============================================================================
