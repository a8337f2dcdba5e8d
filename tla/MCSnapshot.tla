----------------------------- MODULE MCSnapshot -----------------------------
(* Small instances of Snapshot for TLC.                                    *)
EXTENDS Snapshot

(* hashstructure sees no exported field in an *os.File, so that every file *)
(* gets the same hash.                                                     *)
OneHash == [f \in 1 .. NumFiles |-> 7]
=============================================================================
