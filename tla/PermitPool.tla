----------------------------- MODULE PermitPool -----------------------------
(***************************************************************************)
(* internal/permitpool: a buffered channel used as a counting semaphore.   *)
(* Acquire sends into the channel and blocks while the buffer is full,     *)
(* Release receives from it and blocks while the buffer is empty.  The     *)
(* users of a pool INSTANCE this module over their own variable.           *)
(***************************************************************************)
EXTENDS Integers

CONSTANT Requested      \* the argument of WithPermits, an integer

VARIABLE sem            \* number of values buffered in the channel

DefaultPermits == 128   \* used by New when fewer than one permit is asked for

(* cap(sem), as New makes the channel *)
Permits == IF Requested < 1 THEN DefaultPermits ELSE Requested

New == sem = 0

(* Mutant of Acquire: the buffer has no bound. *)
AcquireUnbounded == sem' = sem + 1

Acquire == sem < Permits /\ sem' = sem + 1

Release == sem > 0 /\ sem' = sem - 1

TypeOK == sem \in 0 .. Permits
=============================================================================
