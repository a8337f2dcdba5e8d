----------------------------- MODULE BlobStore -----------------------------
(***************************************************************************)
(* What pkg/file promises the callers of Put, Get, Delete and List: a map  *)
(* from keys to values on which every call takes effect in one step        *)
(* between its invocation and its return, and which survives a crash       *)
(* except for the keys that were being put.  A value is named by the call  *)
(* that put it, and putting nothing is the same as deleting.  Of an error  *)
(* that a Get or a List meets its caller learns nothing: a Get returns no  *)
(* value and a List no names, which only a key that the disk cannot read   *)
(* (Flaky) excuses.                                                        *)
(***************************************************************************)
EXTENDS Integers

CONSTANTS Client, Key, Path, BadKey, MaxCalls, Flaky

None   == 0     \* nothing is stored under the key
Broken == -1    \* a crash interrupted a Put; nothing can be read
Value  == {None, Broken} \cup 1 .. MaxCalls
Kind   == {"put", "get", "delete", "list"}

Done   == [ok |-> TRUE, value |-> None, names |-> {}]
Failed == [Done EXCEPT !.ok = FALSE]

VARIABLES
  store,   \* the map
  request  \* the call of each client: kind, key, value, done, result, and
           \* whether a file it may list has been removed meanwhile

vars == <<store, request>>

Idle == [kind |-> "none"]

Init ==
  /\ store = [k \in Key |-> None]
  /\ request = [c \in Client |-> Idle]

NewRequest == [kind : Kind, key : Key, value : Value \ {Broken}, done : {FALSE},
               result : {Done}, disturbed : {FALSE}]

Invoke(c) ==
  /\ request[c] = Idle
  /\ request'[c] \in NewRequest
  /\ request' = [request EXCEPT ![c] = request'[c]]
  /\ UNCHANGED store

Answered(c, result) ==
  [request[c] EXCEPT !.done = TRUE, !.result = result, !.disturbed = FALSE]

Answers(c, result) == request' = [request EXCEPT ![c] = Answered(c, result)]

Open(c, kind) == request[c].kind = kind /\ ~request[c].done

Put(c) ==
  /\ Open(c, "put")
  /\ \/ Answers(c, Done) /\ store' = [store EXCEPT ![request[c].key] = request[c].value]
     \/ Answers(c, Failed) /\ UNCHANGED store

Get(c) ==
  /\ Open(c, "get")
  /\ LET value == store[request[c].key]
     IN  \/ Answers(c, IF value = Broken THEN Done ELSE [Done EXCEPT !.value = value])
         \/ request[c].key \in Flaky /\ Answers(c, Done)
  /\ UNCHANGED store

(* What cannot be read is never returned, and is removed by some Get.  A   *)
(* List of its directory may have come across it.                          *)
GetRemoves(c) ==
  /\ Open(c, "get")
  /\ store[request[c].key] = Broken
  /\ store' = [store EXCEPT ![request[c].key] = None]
  /\ \E lists \in SUBSET {d \in Client : Open(d, "list")
                                       /\ Path[request[d].key] = Path[request[c].key]} :
       request' = [d \in Client |-> IF d = c THEN Answered(c, Done)
                                   ELSE IF d \in lists THEN [request[d] EXCEPT !.disturbed = TRUE]
                                   ELSE request[d]]

Delete(c) ==
  /\ Open(c, "delete")
  /\ \/ Answers(c, Done) /\ store' = [store EXCEPT ![request[c].key] = None]
     \/ Answers(c, Failed) /\ UNCHANGED store

(* The removal stands; what comes after it has met a disk error. *)
CleanUpFails(c) ==
  /\ request[c] # Idle
  /\ request[c].kind = "delete" /\ request[c].done
  /\ request[c].key \in Flaky
  /\ Answers(c, Failed)
  /\ UNCHANGED store

(* All the keys of a directory, or none if that fails. *)
List(c) ==
  /\ Open(c, "list")
  /\ \/ Answers(c, [Done EXCEPT !.names =
             IF request[c].key \in BadKey \/ request[c].disturbed THEN {}
             ELSE {k \in Key : store[k] # None /\ Path[k] = Path[request[c].key]}])
     \/ request[c].key \in Flaky /\ Answers(c, Done)
  /\ UNCHANGED store

Return(c) ==
  /\ request[c] # Idle
  /\ request[c].done
  /\ request' = [request EXCEPT ![c] = Idle]
  /\ UNCHANGED store

(* Only the keys of the Puts in progress can change. *)
Crash ==
  /\ request' = [c \in Client |-> Idle]
  /\ store' \in [Key -> Value]
  /\ \A k \in Key : store'[k] \in
       {store[k]} \cup UNION {{Broken, request[c].value} :
                    c \in {d \in Client : request[d].kind = "put" /\ request[d].key = k}}

ClientStep(c) ==
  \/ Invoke(c) \/ Put(c) \/ Get(c) \/ GetRemoves(c) \/ Delete(c) \/ CleanUpFails(c)
  \/ List(c) \/ Return(c)

(* A step of a client is one that changes its own request. *)
Next ==
  \/ \E c \in Client : request'[c] # request[c] /\ ClientStep(c)
  \/ Crash

Spec == Init /\ [][Next]_vars
=============================================================================
