----------------------------- MODULE MCStorage -----------------------------
(* Small instances of Storage for TLC.                                     *)
EXTENDS Storage, TLC

CONSTANTS c1, c2, k1, k2, k3

Clients == {c1, c2}
OneClient == {c1}
Keys    == {k1, k2, k3}
OneKey  == {k1}

(* k2 lies in the directory above that of k1. *)
Paths    == (k1 :> <<1, 2>>) @@ (k2 :> <<1>>) @@ (k3 :> <<1>>)
OnePath  == k1 :> <<1, 2>>
AfterInit == {"put", "get", "delete", "list"}
AllOps    == AfterInit \cup {"init"}

(* Clients are interchangeable. *)
Symmetry == Permutations(Clients)

(* What a call has asked for and found no longer matters when it has       *)
(* returned and its worker has ended: no step reads it, and of the         *)
(* properties only EveryCallReturns does, which no run with this view has. *)
Present(i) == i \in Outstanding \/ \E c \in Client : call[c] = i

View ==
  <<ready, once, issued, call, pc, worker, lockVars, disk,
    [i \in Call |-> IF Present(i)
                    THEN <<kind[i], key[i], blank[i], outcome[i], file[i], node[i]>>
                    ELSE <<>>]>>
=============================================================================
