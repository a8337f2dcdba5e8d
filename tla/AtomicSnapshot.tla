--------------------------- MODULE AtomicSnapshot ---------------------------
(***************************************************************************)
(* What Multipart.Snapshot promises its caller: the entities are fixed by  *)
(* one walk of the root; entities may be dropped while the snapshot runs;  *)
(* then either the snapshot commits, in one step and with exactly one      *)
(* section for every chunk of the entities that are left, or it fails and  *)
(* nothing is committed.  If the disk may cut a write short (Cuts), it can *)
(* also lose the commit, which is then reported all the same.              *)
(***************************************************************************)
EXTENDS Chunking

CONSTANTS NumFiles, MaxSize, Cuts

VARIABLES
  phase,      \* start, running, committed, lost or failed
  size,       \* the size each entity is listed with
  committed   \* pairs of a chunk and the number of times it is recorded

vars == <<phase, size, committed>>

File == 1 .. NumFiles

Init ==
  /\ phase = "start"
  /\ size = [f \in File |-> 0]
  /\ committed = {}

Begin ==
  /\ phase = "start"
  /\ phase' = "running"
  /\ size' \in [File -> 0 .. MaxSize]
  /\ UNCHANGED committed

Drop(f) ==
  /\ phase = "running"
  /\ size' = [size EXCEPT ![f] = 0]
  /\ UNCHANGED <<phase, committed>>

Commit ==
  /\ phase = "running"
  /\ phase' = "committed"
  /\ committed' = UNION {{<<<<f, i>>, 1>> : i \in 0 .. NumChunks(size[f]) - 1} :
                           f \in File}
  /\ UNCHANGED size

Lose ==
  /\ Cuts
  /\ phase = "running"
  /\ phase' = "lost"
  /\ UNCHANGED <<size, committed>>

Fail ==
  /\ phase \in {"start", "running"}
  /\ phase' = "failed"
  /\ UNCHANGED <<size, committed>>

Next == Begin \/ (\E f \in File : Drop(f)) \/ Commit \/ Lose \/ Fail

Spec == Init /\ [][Next]_vars
=============================================================================
