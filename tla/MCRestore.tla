----------------------------- MODULE MCRestore -----------------------------
(* Small instances of Restore for TLC.                                     *)
EXTENDS Restore

(* The hash the code gives to every file.                                  *)
OneHash == [f \in 1 .. NumFiles |-> 7]
=============================================================================
