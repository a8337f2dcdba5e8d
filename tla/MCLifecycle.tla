---------------------------- MODULE MCLifecycle ----------------------------
(* A small instance of Lifecycle for TLC: one source file of one or two    *)
(* chunks, or two of one chunk, which all look alike to the hash; two      *)
(* tags, two snapshots and as many restores as one likes.                  *)
EXTENDS Lifecycle, TLC

CONSTANTS t1, t2

Tags == {t1, t2}
OneOrTwo == {<<1, 0>>, <<3, 0>>, <<1, 1>>}

(* Tags are interchangeable. *)
Symmetry == Permutations(Tags)
=============================================================================
