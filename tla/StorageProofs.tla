--------------------------- MODULE StorageProofs ---------------------------
(***************************************************************************)
(* Storage: the inductive invariant IInv, and from it type correctness,    *)
(* OnePutAtATime, GetReturnsCurrent and, with encryption,                  *)
(* GetReturnsOwnKey; and while no call is cancelled also WriterAlone,      *)
(* GetRemovesNoEntry and DeleteCleansUp.  All of it for every set of       *)
(* clients and keys, every tree of directories, every pool, any number of  *)
(* calls and, unless said otherwise, every set of faults.                  *)
(***************************************************************************)
EXTENDS Storage, FiniteSetTheorems, TLAPS

(* A client in a call has a call that was issued. *)
CallsIssued ==
  \A c \in Client : pc[c] # "idle" =>
    call[c] \in Call /\ call[c] <= issued /\ kind[call[c]] \in Kind

(* A call that was not issued has left no trace. *)
UnissuedUntouched ==
  \A i \in Call : i > issued =>
    /\ kind[i] = "none"
    /\ worker[i] = "off"
    /\ file[i] = None
    /\ outcome[i].value = None

(* stateLock: its holders, and that a writer is its only holder. *)
LockHeld == lock = {c \in Client : pc[c] \in {"select", "unlock"}}

LockExclusive ==
  \A c, d \in lock : c # d => ~Writes(call[c])

(* The worker of a call that cannot be cancelled has its caller waiting,   *)
(* and that caller holds the lock.                                         *)
Held(i) == \E c \in Client : pc[c] = "select" /\ call[c] = i

WorkersHeld ==
  \A i \in Outstanding :
    "cancel" \notin Faults \/ kind[i] \in {"init", "put"} => Held(i)

(* What a worker can rely on when it comes to a step. *)
WorkersReady ==
  \A i \in Call :
    /\ worker[i] \in {"tell_read", "read"} => file[i] # None
    /\ worker[i] = "write" => file[i] # None
    /\ worker[i] \in {"write", "sync", "tell_stat", "stat"} => kind[i] = "put"
    /\ worker[i] = "rmdir" => node[i] > 0

(* n was created, or written, by a Put under key k. *)
PutUnder(n, k) == kind[n] = "put" /\ key[n] = k

(* An entry, an open file and the bytes of a file belong to one key. *)
EntriesKeyed == \A k \in Key : entry[k] # None => PutUnder(entry[k], k)
FilesKeyed   == \A i \in Call : file[i] # None => PutUnder(file[i], key[i])
DataKeyed    == \A n \in Call : data[n] \in Call =>
                  kind[n] = "put" /\ PutUnder(data[n], key[n])

(* ... and with encryption so does what was read. *)
ValuesKeyed ==
  \A i \in Call : outcome[i].value # None =>
    /\ Encrypted => outcome[i].value \in Call
    /\ outcome[i].value \in Call => PutUnder(outcome[i].value, key[i])

IInv ==
  /\ TypeOK
  /\ CallsIssued
  /\ UnissuedUntouched
  /\ LockHeld
  /\ LockExclusive
  /\ WorkersHeld
  /\ WorkersReady
  /\ EntriesKeyed
  /\ FilesKeyed
  /\ DataKeyed
  /\ ValuesKeyed
-----------------------------------------------------------------------------
(* The steps of a worker in which the disk fails it. *)
DiskFails(i) == StatForGetFails(i) \/ GetFails(i) \/ DeleteFails(i) \/ ListFails(i)

(* A client goes on, or the context of its call ends. *)
CallStep(c) == Cancelled(c) \/ ClientStep(c)

(* Which step follows which.                                               *)

LEMMA AfterLogSteps ==
  \A s \in DOMAIN AfterLog :
    /\ AfterLog[s] \in Steps \ {"off", "gone", "leaked", "write", "sync", "tell_stat", "rmdir",
                               "tell_read", "tell_purge"}
    /\ s \notin {"off", "gone", "leaked"}
    /\ AfterLog[s] = "read" => s = "tell_read"
    /\ AfterLog[s] = "stat" => s = "tell_stat"
    /\ AfterLog[s] = "purge" => s = "tell_purge"
    /\ AfterLog[s] = "look" => s = "tell_look"
    /\ AfterLog[s] = "answer" => s = "tell_missing"
  BY DEF AfterLog, Steps

LEMMA FirstSteps ==
  \A k \in Kind :
    FirstStep[k] \in Steps \ {"off", "gone", "leaked", "write", "sync", "tell_stat", "stat",
                             "rmdir", "tell_read", "read", "tell_purge", "purge", "tell_look",
                             "look", "answer"}
  BY DEF FirstStep, Steps, Kind

(* A step of a worker changes the place of that worker only; the worker    *)
(* has work before it and is not gone after it.                            *)
Moving(s) == s \in Steps \ {"off", "gone", "leaked"}

LEMMA WorkerMoves ==
  ASSUME TypeOK, NEW i \in Call, WorkerStep(i)
  PROVE  /\ UNCHANGED clients
         /\ Moving(worker[i]) /\ Moving(worker'[i])
         /\ worker' = [worker EXCEPT ![i] = worker'[i]]
<1>. USE DEF TypeOK, Does, Answers, Moving, Steps
<1>1. CASE Log(i)
  <2>1. worker[i] \in DOMAIN AfterLog /\ worker' = [worker EXCEPT ![i] = AfterLog[worker[i]]]
        /\ UNCHANGED clients
    BY <1>1 DEF Log
  <2>2. worker'[i] = AfterLog[worker[i]]
    BY <2>1
  <2>. QED  BY <2>1, <2>2, AfterLogSteps
<1>2. CASE Reject(i)
  <2>1. worker[i] \in DOMAIN AfterLog /\ worker' = [worker EXCEPT ![i] = "answer"]
        /\ UNCHANGED clients
    BY <1>2 DEF Reject
  <2>2. worker'[i] = "answer"
    BY <2>1
  <2>. QED  BY <2>1, <2>2, AfterLogSteps
<1>3. CASE SetUp(i) \/ MkdirAll(i) \/ OpenForPut(i) \/ PutFails(i)
  BY <1>3 DEF SetUp, MkdirAll, OpenForPut, PutFails
<1>4. CASE WriteSome(i) \/ Write(i) \/ WriteStopsEarly(i) \/ Sync(i)
  BY <1>4 DEF WriteSome, Write, WriteStopsEarly, Sync
<1>5. CASE Stat(i) \/ Purge(i) \/ StatForGet(i) \/ OpenForGet(i) \/ Read(i)
  BY <1>5 DEF Stat, Purge, StatForGet, OpenForGet, Read
<1>6. CASE Unlink(i) \/ CleanedUp(i) \/ Look(i) \/ Rmdir(i)
  BY <1>6 DEF Unlink, CleanedUp, Look, Rmdir
<1>7. CASE Readdir(i) \/ StatAll(i) \/ DiskFails(i)
  BY <1>7 DEF Readdir, StatAll, DiskFails, StatForGetFails, GetFails, DeleteFails,
     ListFails
<1>. QED  BY <1>1, <1>2, <1>3, <1>4, <1>5, <1>6, <1>7 DEF WorkerStep, DiskFails

(* A step that Asks names the next call. *)
LEMMA AsksNext ==
  ASSUME TypeOK, NEW c \in Client, Asks(c)
  PROVE  /\ pc[c] = "idle"
         /\ issued' = issued + 1 /\ issued' \in Call
         /\ kind' \in [Call -> Kind \cup {"none"}]
         /\ key' \in [Call -> Key]
         /\ blank' \in [Call -> BOOLEAN]
         /\ kind'[issued'] \in Kind \ {"init"}
         /\ \A i \in Call : i # issued' => kind'[i] = kind[i] /\ key'[i] = key[i]
<1>1. issued' = issued + 1 /\ issued' \in Call /\ pc[c] = "idle"
  BY StorageAssumption DEF Asks, TypeOK, Call
<1>2. PICK what \in Ops \ {"init"}, k \in Key, b \in BOOLEAN :
        /\ kind' = [kind EXCEPT ![issued'] = what]
        /\ key' = [key EXCEPT ![issued'] = k]
        /\ blank' = [blank EXCEPT ![issued'] = b]
  BY DEF Asks
<1>3. what \in Kind
  BY StorageAssumption
<1>. QED  BY <1>1, <1>2, <1>3 DEF TypeOK

(* What a directory contains has names. *)
LEMMA NamesType ==
  ASSUME TypeOK, NEW dir
  PROVE  Names(dir) \subseteq Key \cup Dirs
  BY DEF Names, TypeOK

LEMMA PoolType ==
  ASSUME TypeOK
  PROVE  /\ sem \in 0 .. Pool!Permits
         /\ Pool!Permits \in Nat
  BY StorageAssumption DEF TypeOK, Pool!TypeOK, Pool!Permits, Pool!DefaultPermits
-----------------------------------------------------------------------------
(* The types.                                                              *)

Results == [ok : BOOLEAN, value : Call \cup {None, Torn, Empty}, names : SUBSET (Key \cup Dirs)]

LEMMA ResultTypes ==
  /\ Done \in Results /\ Failed \in Results
  /\ \A v \in Call \cup {None, Torn, Empty} : [Done EXCEPT !.value = v] \in Results
  /\ \A n \in SUBSET (Key \cup Dirs) : [Done EXCEPT !.names = n] \in Results
  BY DEF Results, Done, Failed

(* The variables that the clients own. *)
ClientTypes ==
  /\ ready \in BOOLEAN
  /\ once \in BOOLEAN
  /\ issued \in 0 .. MaxCalls
  /\ call \in [Client -> Call \cup {None}]
  /\ pc \in [Client -> {"idle", "acquire", "lock", "select", "unlock", "release"}]
  /\ kind \in [Call -> Kind \cup {"none"}]
  /\ key \in [Call -> Key]
  /\ blank \in [Call -> BOOLEAN]
  /\ ended \in [Call -> {"open", "answered", "cancelled", "crashed"}]
  /\ sem \in 0 .. Pool!Permits
  /\ lock \subseteq Client

(* ... and those that the workers own. *)
WorkerTypes ==
  /\ outcome \in [Call -> Results]
  /\ worker \in [Call -> Steps]
  /\ file \in [Call -> Call \cup {None}]
  /\ node \in [Call -> Nat]
  /\ tree \subseteq Dirs
  /\ entry \in [Key -> Call \cup {None}]
  /\ data \in [Call -> Call \cup {Empty, Torn}]

LEMMA TypesSplit == TypeOK <=> ClientTypes /\ WorkerTypes
  BY DEF TypeOK, ClientTypes, WorkerTypes, Results, Pool!TypeOK

LEMMA InitTypes == Init => TypeOK
<1>. SUFFICES ASSUME Init PROVE ClientTypes /\ WorkerTypes
  BY TypesSplit
<1>1. (CHOOSE k \in Key : TRUE) \in Key
  BY StorageAssumption
<1>2. sem = 0 /\ Pool!Permits \in Nat
  BY StorageAssumption DEF Init, Pool!New, Pool!Permits, Pool!DefaultPermits
<1>3. ClientTypes
  BY <1>1, <1>2, StorageAssumption DEF Init, ClientTypes
<1>4. WorkerTypes
  BY ResultTypes DEF Init, WorkerTypes, Steps
<1>. QED  BY <1>3, <1>4

LEMMA WorkerStepTypes ==
  ASSUME IInv, NEW i \in Call, WorkerStep(i)
  PROVE  TypeOK'
<1>. USE DEF IInv
<1>0. /\ TypeOK /\ UNCHANGED clients
      /\ worker' \in [Call -> Steps]
  <2>1. worker' = [worker EXCEPT ![i] = worker'[i]] /\ Moving(worker'[i])
    BY WorkerMoves
  <2>2. worker'[i] \in Steps
    BY <2>1 DEF Moving
  <2>. QED  BY <2>1, <2>2, WorkerMoves DEF TypeOK
<1>1. ClientTypes'
  BY <1>0 DEF ClientTypes, TypeOK, clients, asked, lockVars, Pool!TypeOK,
     Pool!Permits, Pool!DefaultPermits
<1>2. WorkerTypes
  BY <1>0, TypesSplit
<1>. SUFFICES WorkerTypes'
  BY <1>1 DEF TypeOK, ClientTypes, WorkerTypes, Results, Pool!TypeOK,
     Pool!Permits, Pool!DefaultPermits
<1>3. ASSUME UNCHANGED <<file, node, disk>>, outcome' \in [Call -> Results]
      PROVE  WorkerTypes'
  BY <1>0, <1>2, <1>3 DEF WorkerTypes, disk
<1>4. ASSUME UNCHANGED <<outcome, node, tree>>,
             entry' \in [Key -> Call \cup {None}],
             data' \in [Call -> Call \cup {Empty, Torn}],
             file' \in [Call -> Call \cup {None}]
      PROVE  WorkerTypes'
  BY <1>0, <1>2, <1>4 DEF WorkerTypes
<1>5. ASSUME UNCHANGED <<file, data>>,
             outcome' \in [Call -> Results], node' \in [Call -> Nat], tree' \subseteq Dirs,
             entry' \in [Key -> Call \cup {None}]
      PROVE  WorkerTypes'
  BY <1>0, <1>2, <1>5 DEF WorkerTypes
<1>6. CASE Log(i) \/ Reject(i) \/ SetUp(i) \/ PutFails(i) \/ WriteStopsEarly(i) \/ Sync(i)
           \/ Stat(i) \/ StatForGet(i) \/ StatAll(i) \/ DiskFails(i) \/ CleanedUp(i)
  <2>1. UNCHANGED <<file, node, disk>>
    BY <1>6 DEF Log, Reject, SetUp, PutFails, WriteStopsEarly, Sync, Stat,
       StatForGet, StatAll, DiskFails, StatForGetFails, GetFails, DeleteFails,
       ListFails, CleanedUp
  <2>2. outcome' = outcome \/ outcome' = [outcome EXCEPT ![i] = Done]
        \/ outcome' = [outcome EXCEPT ![i] = Failed]
    BY <1>6 DEF Log, Reject, SetUp, PutFails, WriteStopsEarly, Sync, Stat,
       StatForGet, StatAll, DiskFails, StatForGetFails, GetFails, DeleteFails,
       ListFails, CleanedUp, Answers
  <2>3. outcome' \in [Call -> Results]
    BY <1>2, <2>2, ResultTypes DEF WorkerTypes
  <2>. QED  BY <1>3, <2>1, <2>3
<1>7. CASE Readdir(i) \/ Read(i)
  <2>1. UNCHANGED <<file, node, disk>>
    BY <1>7 DEF Readdir, Read
  <2>2. CASE Readdir(i)
    <3>1. outcome' = outcome
          \/ outcome' = [outcome EXCEPT ![i] = [Done EXCEPT !.names = Names(Path[key[i]])]]
      BY <2>2 DEF Readdir
    <3>2. Names(Path[key[i]]) \in SUBSET (Key \cup Dirs)
      BY <1>0, NamesType
    <3>3. [Done EXCEPT !.names = Names(Path[key[i]])] \in Results
      BY <3>2, ResultTypes
    <3>4. outcome' \in [Call -> Results]
      BY <1>2, <3>1, <3>3 DEF WorkerTypes
    <3>. QED  BY <1>3, <2>1, <3>4
  <2>3. CASE Read(i)
    <3>1. worker[i] = "read"
      BY <2>3 DEF Read, Answers, Does
    <3>2. file[i] \in Call
      BY <1>2, <3>1 DEF WorkersReady, WorkerTypes
    <3>3. data[file[i]] \in Call \cup {None, Torn, Empty}
      BY <1>2, <3>2 DEF WorkerTypes
    <3>4. [Done EXCEPT !.value = data[file[i]]] \in Results
      BY <3>3, ResultTypes
    <3>5. outcome' = [outcome EXCEPT ![i] = Failed]
          \/ outcome' = [outcome EXCEPT ![i] = [Done EXCEPT !.value = data[file[i]]]]
      BY <2>3 DEF Read, Answers
    <3>6. outcome' \in [Call -> Results]
      BY <1>2, <3>4, <3>5, ResultTypes DEF WorkerTypes
    <3>. QED  BY <1>3, <2>1, <3>6
  <2>. QED  BY <1>7, <2>2, <2>3
<1>8. CASE OpenForPut(i)
  <2>1. key[i] \in Key
    BY <1>0 DEF TypeOK
  <2>. DEFINE inode == IF entry[key[i]] = None THEN i ELSE entry[key[i]]
  <2>2. inode \in Call
    BY <1>2, <2>1 DEF WorkerTypes
  <2>3. /\ entry' = [entry EXCEPT ![key[i]] = inode]
        /\ data' = [data EXCEPT ![inode] = Empty]
        /\ file' = [file EXCEPT ![i] = inode]
        /\ UNCHANGED <<outcome, node, tree>>
    BY <1>8 DEF OpenForPut
  <2>. HIDE DEF inode
  <2>4. /\ entry' \in [Key -> Call \cup {None}]
        /\ data' \in [Call -> Call \cup {Empty, Torn}]
        /\ file' \in [Call -> Call \cup {None}]
    BY <1>2, <2>2, <2>3 DEF WorkerTypes
  <2>. QED  BY <1>4, <2>3, <2>4
<1>9. CASE WriteSome(i) \/ Write(i)
  <2>1. UNCHANGED <<outcome, node, tree, entry, file>>
    BY <1>9 DEF WriteSome, Write
  <2>2. data' \in [Call -> Call \cup {Empty, Torn}]
    BY <1>2, <1>9 DEF WriteSome, Write, WorkerTypes
  <2>. QED  BY <1>2, <1>4, <2>1, <2>2 DEF WorkerTypes
<1>10. CASE OpenForGet(i)
  <2>1. entry[key[i]] \in Call \cup {None}
    BY <1>0 DEF TypeOK
  <2>2. UNCHANGED <<outcome, node, disk>> /\ file' = [file EXCEPT ![i] = entry[key[i]]]
    BY <1>10 DEF OpenForGet
  <2>. QED  BY <1>2, <1>4, <2>1, <2>2 DEF WorkerTypes, disk
<1>11. CASE MkdirAll(i)
  <2>1. key[i] \in Key
    BY <1>0 DEF TypeOK
  <2>2. tree' \subseteq Dirs /\ UNCHANGED <<outcome, file, node, entry, data>>
    BY <1>2, <1>11, <2>1 DEF MkdirAll, WorkerTypes, Dirs
  <2>. QED  BY <1>2, <1>5, <2>2 DEF WorkerTypes
<1>12. CASE Purge(i)
  <2>1. UNCHANGED <<outcome, file, node, tree, data>> /\ entry' = [entry EXCEPT ![key[i]] = None]
    BY <1>12 DEF Purge
  <2>. QED  BY <1>2, <1>5, <2>1 DEF WorkerTypes
<1>13. CASE Unlink(i)
  <2>1. UNCHANGED <<outcome, file, tree, data>> /\ entry' = [entry EXCEPT ![key[i]] = None]
        /\ node' = [node EXCEPT ![i] = Len(Path[key[i]])]
    BY <1>13 DEF Unlink
  <2>2. Len(Path[key[i]]) \in Nat
    BY <1>0, StorageAssumption DEF TypeOK
  <2>. QED  BY <1>2, <1>5, <2>1, <2>2 DEF WorkerTypes
<1>14. CASE Look(i)
  <2>1. node' = node \/ (node[i] > 0 /\ node' = [node EXCEPT ![i] = node[i] - 1])
    BY <1>14 DEF Look, Upwards
  <2>2. UNCHANGED <<outcome, file, disk>>
    BY <1>14 DEF Look
  <2>3. node' \in [Call -> Nat]
    BY <1>2, <2>1 DEF WorkerTypes
  <2>. QED  BY <1>2, <1>5, <2>2, <2>3 DEF WorkerTypes, disk
<1>15. CASE Rmdir(i)
  <2>1. worker[i] = "rmdir"
    BY <1>15 DEF Rmdir, Does, Answers
  <2>2. node[i] > 0
    BY <2>1 DEF WorkersReady
  <2>3. node' = node \/ node' = [node EXCEPT ![i] = node[i] - 1]
    BY <1>15 DEF Rmdir, Upwards
  <2>4. node' \in [Call -> Nat]
    BY <1>2, <2>2, <2>3 DEF WorkerTypes
  <2>5. tree' \subseteq Dirs /\ UNCHANGED <<file, entry, data>>
    BY <1>2, <1>15 DEF Rmdir, WorkerTypes
  <2>6. outcome' = outcome \/ outcome' = [outcome EXCEPT ![i] = Failed]
    BY <1>15 DEF Rmdir, Answers
  <2>7. outcome' \in [Call -> Results]
    BY <1>2, <2>6, ResultTypes DEF WorkerTypes
  <2>. QED  BY <1>2, <1>5, <2>4, <2>5, <2>7 DEF WorkerTypes
<1>. QED  BY <1>6, <1>7, <1>8, <1>9, <1>10, <1>11, <1>12, <1>13, <1>14,
             <1>15 DEF WorkerStep, DiskFails

LEMMA ClientStepTypes ==
  ASSUME IInv, NEW c \in Client,
         Invoke(c) \/ Refuse(c) \/ CallInit(c) \/ CallStep(c)
  PROVE  TypeOK'
<1>. USE DEF IInv
<1>0. TypeOK /\ ClientTypes /\ WorkerTypes
  BY TypesSplit
<1>. SUFFICES ClientTypes' /\ WorkerTypes'
  BY DEF TypeOK, ClientTypes, WorkerTypes, Results, Pool!TypeOK, Pool!Permits,
     Pool!DefaultPermits
<1>1. ASSUME UNCHANGED <<outcome, worker, file, node, disk>>
      PROVE  WorkerTypes'
  BY <1>0, <1>1 DEF WorkerTypes, disk
<1>2. Pool!Permits' = Pool!Permits /\ Pool!Permits \in Nat
  BY <1>0, PoolType DEF Pool!Permits, Pool!DefaultPermits
<1>3. CASE Invoke(c)
  <2>1. Asks(c)
    BY <1>3 DEF Invoke
  <2>2. ClientTypes'
    BY <1>0, <1>2, <1>3, <2>1, AsksNext DEF Invoke, ClientTypes, Call, lockVars
  <2>. QED  BY <1>1, <1>3, <2>2 DEF Invoke
<1>4. CASE Refuse(c)
  <2>1. Asks(c)
    BY <1>4 DEF Refuse
  <2>2. ClientTypes'
    BY <1>0, <1>2, <1>4, <2>1, AsksNext DEF Refuse, ClientTypes, Call, lockVars
  <2>3. WorkerTypes'
    BY <1>0, <1>4, ResultTypes DEF Refuse, WorkerTypes, disk
  <2>. QED  BY <2>2, <2>3
<1>5. CASE CallInit(c)
  <2>1. issued' \in Call /\ issued' \in 0 .. MaxCalls
    BY <1>0, <1>5, StorageAssumption DEF CallInit, ClientTypes, Call
  <2>2. ClientTypes'
    BY <1>0, <1>2, <1>5, <2>1 DEF CallInit, Goes, ClientTypes, Kind, lockVars
  <2>. QED  BY <1>1, <1>5, <2>2 DEF CallInit
<1>6. CASE Lock(c)
  <2>1. call[c] \in Call /\ kind[call[c]] \in Kind
    BY <1>6 DEF CallsIssued, Lock, Goes
  <2>2. FirstStep[kind[call[c]]] \in Steps /\ "gone" \in Steps
    BY <2>1, FirstSteps DEF Steps
  <2>3. worker' \in [Call -> Steps]
    BY <1>0, <1>6, <2>2 DEF Lock, StartWorker, WorkerTypes
  <2>4. once' \in BOOLEAN /\ UNCHANGED <<ready, issued, call, asked, ended, outcome, file, node, sem, disk>>
    BY <1>0, <1>6 DEF Lock, StartWorker, ClientTypes
  <2>5. ClientTypes'
    BY <1>0, <1>2, <1>6, <2>4 DEF Lock, Goes, ClientTypes, asked
  <2>. QED  BY <1>0, <2>3, <2>4, <2>5 DEF WorkerTypes, disk
<1>7. CASE Answered(c) \/ Initialized(c)
  <2>1. worker' \in [Call -> Steps] /\ UNCHANGED <<outcome, file, node, disk>>
    BY <1>0, <1>7 DEF Answered, Initialized, WorkerTypes, Steps
  <2>2. ready' \in BOOLEAN
    <3>1. CASE Answered(c)
      BY <1>0, <3>1 DEF Answered, ClientTypes
    <3>2. CASE Initialized(c)
      <4>1. kind[call[c]] # "none" /\ call[c] \in Call
        BY <3>2 DEF Initialized, Goes, CallsIssued
      <4>2. outcome[call[c]].ok \in BOOLEAN
        BY <1>0, <4>1 DEF WorkerTypes, Results
      <4>. QED  BY <1>0, <3>2, <4>2 DEF Initialized, ClientTypes
    <3>. QED  BY <1>7, <3>1, <3>2
  <2>3. ClientTypes'
    BY <1>0, <1>2, <1>7, <2>2 DEF Answered, Initialized, Goes, ClientTypes, asked,
       lockVars
  <2>. QED  BY <1>0, <2>1, <2>3 DEF WorkerTypes, disk
<1>8. CASE Acquire(c) \/ Cancelled(c) \/ Unlock(c) \/ Release(c)
  <2>1. UNCHANGED <<outcome, worker, file, node, disk>>
    BY <1>8 DEF Acquire, Cancelled, Unlock, Release
  <2>2. ClientTypes'
    <3>1. CASE Acquire(c)
      BY <1>0, <1>2, <3>1 DEF Acquire, Goes, ClientTypes, asked, Pool!Acquire
    <3>2. CASE Cancelled(c)
      BY <1>0, <1>2, <3>2 DEF Cancelled, Goes, ClientTypes, asked, lockVars
    <3>3. CASE Unlock(c)
      BY <1>0, <1>2, <3>3 DEF Unlock, Goes, ClientTypes, asked
    <3>4. CASE Release(c)
      BY <1>0, <1>2, <3>4 DEF Release, Goes, ClientTypes, asked, Pool!Release
    <3>. QED  BY <1>8, <3>1, <3>2, <3>3, <3>4
  <2>. QED  BY <1>1, <2>1, <2>2
<1>. QED  BY <1>3, <1>4, <1>5, <1>6, <1>7, <1>8 DEF CallStep, ClientStep

LEMMA CrashTypes ==
  ASSUME IInv, Crash
  PROVE  TypeOK'
<1>0. ClientTypes /\ WorkerTypes
  BY TypesSplit DEF IInv
<1>1. Pool!Permits' = Pool!Permits /\ Pool!Permits \in Nat
  BY PoolType DEF IInv, Pool!Permits, Pool!DefaultPermits
<1>2. ended' \in [Call -> {"open", "answered", "cancelled", "crashed"}]
  BY <1>0 DEF Crash, ClientTypes
<1>3. ClientTypes'
  BY <1>0, <1>1, <1>2, StorageAssumption DEF Crash, ClientTypes, asked
<1>4. WorkerTypes'
  BY <1>0, ResultTypes DEF Crash, WorkerTypes, disk, Steps
<1>. QED  BY <1>3, <1>4 DEF TypeOK, ClientTypes, WorkerTypes, Results, Pool!TypeOK,
          Pool!Permits, Pool!DefaultPermits
-----------------------------------------------------------------------------
(* The calls, the lock, the workers and the keys.                          *)

(* All of the invariant but the types. *)
Rest ==
  /\ CallsIssued
  /\ UnissuedUntouched
  /\ LockHeld
  /\ LockExclusive
  /\ WorkersHeld
  /\ WorkersReady
  /\ EntriesKeyed
  /\ FilesKeyed
  /\ DataKeyed
  /\ ValuesKeyed

LEMMA InitRest == Init => Rest
  BY DEF Init, Rest, CallsIssued, UnissuedUntouched, LockHeld, LockExclusive,
     WorkersHeld, WorkersReady, EntriesKeyed, FilesKeyed, DataKeyed, ValuesKeyed,
     Outstanding, None, Empty, Call, Done

(* After a crash nothing goes on, and the disk is as it was. *)
LEMMA CrashRest ==
  ASSUME IInv, Crash
  PROVE  Rest'
<1>. USE DEF IInv
<1>1. /\ call' = [c \in Client |-> None] /\ pc' = [c \in Client |-> "idle"]
      /\ worker' = [i \in Call |-> "off"] /\ file' = [i \in Call |-> None]
      /\ outcome' = [i \in Call |-> Done] /\ lock' = {}
      /\ UNCHANGED <<issued, kind, key, entry, data>>
  BY DEF Crash, asked, disk
<1>2. CallsIssued' /\ UnissuedUntouched'
  BY <1>1 DEF CallsIssued, UnissuedUntouched, Done
<1>3. LockHeld' /\ LockExclusive'
  BY <1>1 DEF LockHeld, LockExclusive
<1>4. WorkersHeld' /\ WorkersReady'
  BY <1>1 DEF WorkersHeld, WorkersReady, Outstanding
<1>5. EntriesKeyed' /\ DataKeyed'
  BY <1>1 DEF EntriesKeyed, DataKeyed, PutUnder
<1>6. FilesKeyed' /\ ValuesKeyed'
  BY <1>1 DEF FilesKeyed, ValuesKeyed, Done
<1>. QED  BY <1>2, <1>3, <1>4, <1>5, <1>6 DEF Rest

(* A new call takes a number that nothing refers to. *)
LEMMA AskRest ==
  ASSUME IInv, NEW c \in Client, Invoke(c) \/ Refuse(c) \/ CallInit(c)
  PROVE  Rest'
<1>. USE DEF IInv
<1>. DEFINE n == issued'
<1>1. /\ pc[c] = "idle"
      /\ n = issued + 1 /\ n \in Call
      /\ kind'[n] \in Kind
      /\ \A i \in Call : i # n => kind'[i] = kind[i] /\ key'[i] = key[i]
      /\ UNCHANGED <<lock, worker, file, node, entry, data>>
  <2>1. CASE Invoke(c) \/ Refuse(c)
    BY <2>1, AsksNext DEF Invoke, Refuse, disk, lockVars
  <2>2. CASE CallInit(c)
    BY <2>2, StorageAssumption DEF CallInit, Goes, TypeOK, Call, Kind, disk,
       lockVars
  <2>. QED  BY <2>1, <2>2
<1>2. issued \in Nat /\ \A i \in Call : i \in Nat
  BY StorageAssumption DEF TypeOK, Call
<1>3. \/ call' = [call EXCEPT ![c] = n] /\ pc' \in {[pc EXCEPT ![c] = "acquire"],
                                                   [pc EXCEPT ![c] = "lock"]}
      \/ call' = call /\ pc' = pc
  BY DEF Invoke, Refuse, CallInit, Goes
<1>4. \A d \in Client : d # c => call'[d] = call[d] /\ pc'[d] = pc[d]
  BY <1>3 DEF TypeOK
<1>5. \/ call'[c] = n /\ pc'[c] \in {"acquire", "lock"}
      \/ call'[c] = call[c] /\ pc'[c] = "idle"
  BY <1>1, <1>3 DEF TypeOK
<1>6. outcome' = outcome \/ outcome' = [outcome EXCEPT ![n] = Failed]
  BY DEF Invoke, Refuse, CallInit
<1>. HIDE DEF n
<1>7. \A i \in Call : outcome'[i].value = outcome[i].value
  BY <1>1, <1>2, <1>6 DEF TypeOK, UnissuedUntouched, Failed, Done
<1>8. /\ \A i \in Call : kind[i] # "none" => i # n
      /\ worker[n] = "off" /\ file[n] = None /\ outcome[n].value = None
  BY <1>1, <1>2 DEF UnissuedUntouched
<1>9. CallsIssued'
  <2>1. issued' = n
    BY DEF n
  <2>2. \A d \in Client : pc[d] # "idle" =>
          call[d] \in Call /\ call[d] <= n /\ call[d] # n /\ kind[call[d]] \in Kind
    BY <1>1, <1>2 DEF CallsIssued
  <2>3. \A d \in Client : d # c /\ pc'[d] # "idle" =>
          call'[d] \in Call /\ call'[d] <= n /\ kind'[call'[d]] \in Kind
    BY <1>1, <1>4, <2>2
  <2>4. pc'[c] # "idle" => call'[c] = n /\ kind'[call'[c]] \in Kind
    BY <1>1, <1>5
  <2>5. n <= n
    BY <1>1, <1>2
  <2>. QED  BY <1>1, <2>1, <2>3, <2>4, <2>5 DEF CallsIssued
<1>10. UnissuedUntouched'
  <2>1. \A i \in Call : i > issued' => i > issued /\ i # n
    BY <1>1, <1>2 DEF n
  <2>2. \A i \in Call : i > issued' =>
          kind[i] = "none" /\ worker[i] = "off" /\ file[i] = None /\ outcome[i].value = None
    BY <2>1 DEF UnissuedUntouched
  <2>. QED  BY <1>1, <1>7, <2>1, <2>2 DEF UnissuedUntouched
<1>11. LockHeld'
  BY <1>1, <1>4, <1>5 DEF LockHeld
<1>12. \A d \in lock : d \in Client /\ d # c /\ call[d] \in Call /\ call[d] # n
  BY <1>1, <1>2 DEF LockHeld, CallsIssued
<1>13. LockExclusive'
  <2>1. lock' = lock /\ \A d \in lock : Writes(call[d])' = Writes(call[d])
    BY <1>1, <1>4, <1>12 DEF Writes
  <2>. QED  BY <2>1, <1>4, <1>12 DEF LockExclusive
<1>14. WorkersHeld'
  <2>1. Outstanding' = Outstanding /\ n \notin Outstanding
    BY <1>1, <1>8 DEF Outstanding
  <2>2. \A i \in Call : Held(i) => Held(i)'
    BY <1>1, <1>4 DEF Held
  <2>3. \A i \in Outstanding : kind'[i] = kind[i] /\ i \in Call
    BY <1>1, <2>1 DEF Outstanding
  <2>. QED  BY <2>1, <2>2, <2>3 DEF WorkersHeld
<1>15. WorkersReady'
  BY <1>1, <1>8 DEF WorkersReady
<1>16. ASSUME NEW i, NEW k, i \in Call, PutUnder(i, k)
       PROVE  PutUnder(i, k)'
  BY <1>1, <1>8, <1>16 DEF PutUnder
<1>17. EntriesKeyed'
  BY <1>1, <1>16 DEF EntriesKeyed, TypeOK
<1>18. ASSUME NEW i \in Call
       PROVE  (file[i] # None => PutUnder(file[i], key[i]))'
  <2>1. CASE i = n
    BY <1>1, <1>8, <2>1
  <2>2. CASE i # n
    BY <1>1, <1>16, <2>2 DEF FilesKeyed, TypeOK, PutUnder
  <2>. QED  BY <2>1, <2>2
<1>19. ASSUME NEW m \in Call, data[m] \in Call
       PROVE  kind'[m] = "put" /\ kind'[data[m]] = "put" /\ key'[data[m]] = key'[m]
  <2>1. kind[m] = "put" /\ kind[data[m]] = "put" /\ key[data[m]] = key[m]
    BY <1>19 DEF DataKeyed, PutUnder
  <2>2. m # n /\ data[m] # n
    BY <1>8, <1>19, <2>1
  <2>. QED  BY <1>1, <1>19, <2>1, <2>2
<1>20. DataKeyed'
  BY <1>1, <1>19 DEF DataKeyed, PutUnder
<1>21. ASSUME NEW i \in Call, outcome[i].value \in Call
       PROVE  kind'[outcome[i].value] = "put" /\ key'[outcome[i].value] = key'[i]
  <2>1. outcome[i].value # None
    BY <1>21 DEF Call, None
  <2>2. i # n
    BY <1>8, <2>1
  <2>3. kind[outcome[i].value] = "put" /\ key[outcome[i].value] = key[i]
    BY <1>21, <2>1 DEF ValuesKeyed, PutUnder
  <2>. QED  BY <1>1, <1>8, <1>21, <2>2, <2>3
<1>22. ValuesKeyed'
  BY <1>7, <1>21 DEF ValuesKeyed, PutUnder
<1>. QED  BY <1>9, <1>10, <1>11, <1>13, <1>14, <1>15, <1>17, <1>18, <1>20, <1>22
          DEF Rest, FilesKeyed

(* The keys belong together as long as neither what is asked nor the disk  *)
(* nor what was read changes.                                              *)
LEMMA KeysStay ==
  ASSUME IInv, UNCHANGED <<kind, key, file, entry, data, outcome>>
  PROVE  EntriesKeyed' /\ FilesKeyed' /\ DataKeyed' /\ ValuesKeyed'
  BY DEF IInv, EntriesKeyed, FilesKeyed, DataKeyed, ValuesKeyed, PutUnder

(* A call goes on. *)
LEMMA ClientRest ==
  ASSUME IInv, NEW c \in Client, CallStep(c)
  PROVE  Rest'
<1>. USE DEF IInv
<1>. DEFINE n == call[c]
<1>1. /\ UNCHANGED <<issued, kind, key, file, entry, data, outcome>>
      /\ pc[c] # "idle"
      /\ pc' \in [Client -> {"idle", "acquire", "lock", "select", "unlock", "release"}]
      /\ \A d \in Client : d # c => pc'[d] = pc[d] /\ call'[d] = call[d]
      /\ pc'[c] # "idle" => call'[c] = n
  BY DEF CallStep, ClientStep, Acquire, Lock, Answered, Initialized, Cancelled,
     Unlock, Release, Goes, asked, disk, lockVars, TypeOK
<1>2. n \in Call /\ n <= issued /\ kind[n] \in Kind
  BY <1>1 DEF CallsIssued
<1>. HIDE DEF n
<1>3. /\ worker' = worker \/ worker' = [worker EXCEPT ![n] = worker'[n]]
      /\ worker'[n] = worker[n] \/ worker'[n] \in {"gone", "leaked"}
           \/ (Lock(c) /\ worker'[n] = FirstStep[kind[n]])
  BY <1>2 DEF CallStep, ClientStep, Acquire, Lock, StartWorker, Answered,
     Initialized, Cancelled, Unlock, Release, TypeOK, n
<1>4. \A i \in Call : i # n => worker'[i] = worker[i]
  BY <1>2, <1>3 DEF TypeOK
<1>5. CallsIssued'
  BY <1>1, <1>2 DEF CallsIssued
<1>6. UnissuedUntouched'
  <2>1. \A i \in Call : i > issued => i # n
    BY <1>2, StorageAssumption DEF TypeOK, Call
  <2>. QED  BY <1>1, <1>4, <2>1 DEF UnissuedUntouched
<1>7. LockHeld'
  <2>1. CASE Lock(c)
    <3>1. lock' = lock \cup {c} /\ pc'[c] = "select"
      BY <2>1 DEF Lock, Goes, TypeOK
    <3>. QED  BY <1>1, <3>1 DEF LockHeld
  <2>2. CASE Unlock(c)
    <3>1. lock' = lock \ {c} /\ pc'[c] \in {"idle", "release"}
      BY <2>2 DEF Unlock, Goes, TypeOK
    <3>. QED  BY <1>1, <3>1 DEF LockHeld
  <2>3. CASE Acquire(c) \/ Answered(c) \/ Initialized(c) \/ Cancelled(c) \/ Release(c)
    <3>1. lock' = lock /\ (pc[c] \in {"select", "unlock"} <=> pc'[c] \in {"select", "unlock"})
      BY <2>3 DEF Acquire, Answered, Initialized, Cancelled, Release, Goes, TypeOK,
         lockVars
    <3>. QED  BY <1>1, <3>1 DEF LockHeld
  <2>. QED  BY <2>1, <2>2, <2>3 DEF CallStep, ClientStep
<1>8. LockExclusive'
  <2>1. \A d \in Client : pc'[d] \in {"select", "unlock"} => Writes(call[d])' = Writes(call[d])
    BY <1>1 DEF Writes, n
  <2>2. CASE Lock(c)
    <3>1. /\ lock' = lock \cup {c}
          /\ Writes(n) => lock = {}
          /\ ~Writes(n) => \A d \in lock : ~Writes(call[d])
      BY <2>2 DEF Lock, n
    <3>2. \A d \in lock' : Writes(call[d])' = Writes(call[d])
      BY <1>7, <2>1 DEF LockHeld
    <3>3. ASSUME NEW d \in lock', NEW e \in lock', d # e
          PROVE  ~Writes(call[d])
      BY <3>1, <3>3 DEF LockExclusive, n
    <3>. QED  BY <3>2, <3>3 DEF LockExclusive
  <2>3. CASE ~Lock(c)
    <3>1. lock' \subseteq lock
      BY <2>3 DEF CallStep, ClientStep, Acquire, Answered, Initialized, Cancelled,
         Unlock, Release, lockVars
    <3>2. \A d \in lock' : Writes(call[d])' = Writes(call[d])
      BY <1>7, <2>1 DEF LockHeld
    <3>. QED  BY <3>1, <3>2 DEF LockExclusive
  <2>. QED  BY <2>2, <2>3
<1>9. WorkersHeld'
  <2>. SUFFICES ASSUME NEW i \in Call, i \in Outstanding',
                       "cancel" \notin Faults \/ kind[i] \in {"init", "put"}
                PROVE  Held(i)'
    BY <1>1 DEF WorkersHeld, Outstanding
  <2>1. CASE i = n
    <3>1. CASE Lock(c)
      <4>1. pc'[c] = "select" /\ call'[c] = n
        BY <3>1 DEF Lock, Goes, TypeOK, n
      <4>. QED  BY <2>1, <4>1 DEF Held
    <3>2. CASE Answered(c) \/ Initialized(c)
      <4>1. worker'[n] \in {"gone", "leaked"}
        BY <1>2, <3>2 DEF Answered, Initialized, TypeOK, n
      <4>. QED  BY <2>1, <4>1 DEF Outstanding
    <3>3. CASE Acquire(c) \/ Cancelled(c) \/ Unlock(c) \/ Release(c)
      <4>1. worker' = worker
        BY <3>3 DEF Acquire, Cancelled, Unlock, Release
      <4>2. PICK d \in Client : pc[d] = "select" /\ call[d] = i
        BY <4>1 DEF WorkersHeld, Outstanding, Held
      <4>3. d # c
        <5>1. CASE Cancelled(c)
          BY <2>1, <5>1 DEF Cancelled, n
        <5>2. CASE ~Cancelled(c)
          BY <3>3, <4>2, <5>2 DEF Acquire, Unlock, Release, Goes
        <5>. QED  BY <5>1, <5>2
      <4>. QED  BY <1>1, <4>2, <4>3 DEF Held
    <3>. QED  BY <3>1, <3>2, <3>3 DEF CallStep, ClientStep
  <2>2. CASE i # n
    <3>1. PICK d \in Client : pc[d] = "select" /\ call[d] = i
      BY <1>4, <2>2 DEF WorkersHeld, Outstanding, Held
    <3>2. d # c
      BY <2>2, <3>1 DEF n
    <3>. QED  BY <1>1, <3>1, <3>2 DEF Held
  <2>. QED  BY <2>1, <2>2
<1>10. WorkersReady'
  <2>1. UNCHANGED <<file, kind>> /\ UNCHANGED node
    BY <1>1 DEF CallStep, ClientStep, Acquire, Lock, Answered, Initialized,
       Cancelled, Unlock, Release
  <2>2. worker'[n] = worker[n] \/ worker'[n] \notin {"tell_read", "read", "write", "sync",
                                                   "tell_stat", "stat", "rmdir"}
    BY <1>2, <1>3, FirstSteps
  <2>. QED  BY <1>2, <1>4, <2>1, <2>2 DEF WorkersReady
<1>. QED  BY <1>1, <1>5, <1>6, <1>7, <1>8, <1>9, <1>10, KeysStay DEF Rest
-----------------------------------------------------------------------------
(* A step of a worker.                                                     *)

(* What a step of worker i does to the files and to what was read. *)
LEMMA WorkerFrame ==
  ASSUME TypeOK, NEW i \in Call, WorkerStep(i)
  PROVE  /\ \A j \in Call : j # i => /\ worker'[j] = worker[j]
                                   /\ file'[j] = file[j]
                                   /\ node'[j] = node[j]
                                   /\ outcome'[j] = outcome[j]
         /\ UNCHANGED <<issued, call, pc, kind, key, lock>>
<1>1. /\ file' = file \/ OpenForPut(i) \/ OpenForGet(i)
      /\ node' = node \/ Unlink(i) \/ Look(i) \/ Rmdir(i)
  <2>1. CASE OpenForPut(i) \/ OpenForGet(i)
    BY <2>1 DEF OpenForPut, OpenForGet
  <2>2. CASE Unlink(i) \/ Look(i) \/ Rmdir(i)
    BY <2>2 DEF Unlink, Look, Rmdir
  <2>3. CASE Log(i) \/ Reject(i) \/ SetUp(i) \/ MkdirAll(i) \/ PutFails(i) \/ WriteSome(i)
             \/ Write(i) \/ WriteStopsEarly(i) \/ Sync(i)
    BY <2>3 DEF Log, Reject, SetUp, MkdirAll, PutFails, WriteSome, Write,
       WriteStopsEarly, Sync
  <2>4. CASE Stat(i) \/ Purge(i) \/ StatForGet(i) \/ Read(i) \/ CleanedUp(i) \/ Readdir(i)
             \/ StatAll(i) \/ DiskFails(i)
    BY <2>4 DEF Stat, Purge, StatForGet, Read, CleanedUp, Readdir, StatAll,
       DiskFails, StatForGetFails, GetFails, DeleteFails, ListFails
  <2>. QED  BY <2>1, <2>2, <2>3, <2>4 DEF WorkerStep, DiskFails
<1>2. \A j \in Call : j # i => file'[j] = file[j]
  BY <1>1 DEF OpenForPut, OpenForGet, TypeOK
<1>3. \A j \in Call : j # i => node'[j] = node[j]
  BY <1>1 DEF Unlink, Look, Rmdir, Upwards, TypeOK
<1>4. outcome' = outcome \/ outcome' = [outcome EXCEPT ![i] = outcome'[i]]
  BY DEF WorkerStep, Log, Reject, SetUp, MkdirAll, OpenForPut, PutFails, WriteSome,
     Write, WriteStopsEarly, Sync, Stat, Purge, StatForGet, OpenForGet, Read,
     Unlink, CleanedUp, Look, Rmdir, Readdir, StatAll, DiskFails, StatForGetFails,
     GetFails, DeleteFails, ListFails, Answers, TypeOK
<1>5. \A j \in Call : j # i => outcome'[j] = outcome[j]
  BY <1>4 DEF TypeOK
<1>6. \A j \in Call : j # i => worker'[j] = worker[j]
  BY WorkerMoves DEF TypeOK
<1>. QED  BY <1>2, <1>3, <1>5, <1>6, WorkerMoves DEF clients, asked, lockVars

(* A worker comes to these steps only from the ones before them. *)
LEMMA WorkerReadyStep ==
  ASSUME IInv, NEW i \in Call, WorkerStep(i)
  PROVE  WorkersReady'
<1>. USE DEF IInv
<1>. DEFINE Ready == /\ worker[i] \in {"tell_read", "read"} => file[i] # None
                     /\ worker[i] = "write" => file[i] # None
                     /\ worker[i] \in {"write", "sync", "tell_stat", "stat"} => kind[i] = "put"
                     /\ worker[i] = "rmdir" => node[i] > 0
<1>1. \A j \in Call : j # i => worker'[j] = worker[j] /\ file'[j] = file[j] /\ node'[j] = node[j]
  BY WorkerFrame
<1>2. kind' = kind
  BY WorkerFrame
<1>. SUFFICES Ready'
  BY <1>1, <1>2 DEF WorkersReady
<1>. USE DEF Does, Answers, TypeOK
<1>3. CASE Log(i)
  <2>1. /\ worker[i] \in DOMAIN AfterLog /\ worker'[i] = AfterLog[worker[i]] /\ file' = file
    BY <1>3 DEF Log
  <2>. QED  BY <1>2, <2>1, AfterLogSteps DEF WorkersReady
<1>4. CASE OpenForPut(i)
  <2>1. entry[key[i]] \in Call \cup {None} /\ None \notin Call
    BY DEF None, Call
  <2>2. /\ worker'[i] = "write" /\ kind[i] = "put"
        /\ file'[i] = IF entry[key[i]] = None THEN i ELSE entry[key[i]]
    BY <1>4 DEF OpenForPut
  <2>. QED  BY <1>2, <2>1, <2>2
<1>5. CASE OpenForGet(i)
  BY <1>5 DEF OpenForGet
<1>6. CASE WriteSome(i)
  BY <1>2, <1>6 DEF WriteSome, WorkersReady
<1>7. CASE Look(i)
  BY <1>7 DEF Look
<1>8. CASE Write(i) \/ WriteStopsEarly(i) \/ Sync(i)
  <2>1. kind[i] = "put" /\ worker'[i] \in {"sync", "tell_stat", "answer"}
    BY <1>8 DEF Write, WriteStopsEarly, Sync, WorkersReady
  <2>. QED  BY <1>2, <2>1
<1>10. CASE Reject(i) \/ SetUp(i) \/ MkdirAll(i) \/ PutFails(i) \/ Stat(i) \/ Purge(i)
  BY <1>10 DEF Reject, SetUp, MkdirAll, PutFails, Stat, Purge
<1>9. CASE StatForGet(i) \/ Read(i) \/ Unlink(i) \/ CleanedUp(i) \/ Rmdir(i) \/ Readdir(i)
           \/ StatAll(i) \/ DiskFails(i)
  BY <1>9 DEF StatForGet, Read, Unlink, CleanedUp, Rmdir, Readdir, StatAll,
     DiskFails, StatForGetFails, GetFails, DeleteFails, ListFails
<1>. QED  BY <1>3, <1>4, <1>5, <1>6, <1>7, <1>8, <1>9, <1>10 DEF WorkerStep,
             DiskFails

(* What one key names, holds and returns stays of that key. *)
LEMMA WorkerKeysStep ==
  ASSUME IInv, NEW i \in Call, WorkerStep(i)
  PROVE  EntriesKeyed' /\ FilesKeyed' /\ DataKeyed' /\ ValuesKeyed'
<1>. USE DEF IInv
<1>0. /\ UNCHANGED <<kind, key>> /\ key[i] \in Key
      /\ \A n, k : PutUnder(n, k)' = PutUnder(n, k)
      /\ None \notin Call /\ Empty \notin Call /\ Torn \notin Call
  <2>1. UNCHANGED <<kind, key>>
    BY WorkerFrame
  <2>2. key[i] \in Key
    BY DEF TypeOK
  <2>3. None \notin Call /\ Empty \notin Call /\ Torn \notin Call
    BY DEF None, Empty, Torn, Call
  <2>. QED  BY <2>1, <2>2, <2>3 DEF PutUnder
<1>1. ASSUME UNCHANGED <<file, entry, data>>,
             \A j \in Call : outcome'[j].value \in {None, outcome[j].value}
      PROVE  EntriesKeyed' /\ FilesKeyed' /\ DataKeyed' /\ ValuesKeyed'
  BY <1>0, <1>1 DEF EntriesKeyed, FilesKeyed, DataKeyed, ValuesKeyed, PutUnder
<1>2. ASSUME outcome' = outcome
      PROVE  ValuesKeyed'
  BY <1>0, <1>2 DEF ValuesKeyed, PutUnder
<1>3. CASE Reject(i) \/ SetUp(i) \/ PutFails(i) \/ WriteStopsEarly(i) \/ Stat(i) \/ StatAll(i) \/ DiskFails(i)
           \/ Readdir(i) \/ Log(i) \/ Sync(i) \/ StatForGet(i) \/ CleanedUp(i) \/ Look(i)
           \/ MkdirAll(i) \/ Rmdir(i)
  <2>1. UNCHANGED <<file, entry, data>>
    BY <1>3 DEF Reject, SetUp, PutFails, WriteStopsEarly, Stat, StatAll, DiskFails,
       StatForGetFails, GetFails, DeleteFails, ListFails, Readdir, Log, Sync,
       StatForGet, CleanedUp, Look, MkdirAll, Rmdir, disk
  <2>2. \/ outcome' = outcome
        \/ outcome' = [outcome EXCEPT ![i] = Done]
        \/ outcome' = [outcome EXCEPT ![i] = Failed]
        \/ outcome' = [outcome EXCEPT ![i] = [Done EXCEPT !.names = Names(Path[key[i]])]]
    BY <1>3 DEF Reject, SetUp, PutFails, WriteStopsEarly, Stat, StatAll, DiskFails,
       StatForGetFails, GetFails, DeleteFails, ListFails, Readdir, Log, Sync,
       StatForGet, CleanedUp, Look, MkdirAll, Rmdir, Answers
  <2>3. /\ Done.value = None /\ Failed.value = None
        /\ \A names : [Done EXCEPT !.names = names].value = None
    BY DEF Done, Failed
  <2>4. \A j \in Call : outcome'[j].value \in {None, outcome[j].value}
    <3>1. \A j \in Call : outcome'[j] \in
            {outcome[j], Done, Failed, [Done EXCEPT !.names = Names(Path[key[i]])]}
      BY <2>2 DEF TypeOK
    <3>. QED  BY <2>3, <3>1
  <2>. QED  BY <1>1, <2>1, <2>4
<1>4. CASE OpenForPut(i)
  <2>. DEFINE inode == IF entry[key[i]] = None THEN i ELSE entry[key[i]]
  <2>1. /\ entry' = [entry EXCEPT ![key[i]] = inode]
        /\ data' = [data EXCEPT ![inode] = Empty]
        /\ file' = [file EXCEPT ![i] = inode]
        /\ kind[i] = "put" /\ outcome' = outcome
    BY <1>4 DEF OpenForPut
  <2>2. PutUnder(inode, key[i]) /\ inode \in Call
    BY <1>0, <2>1 DEF EntriesKeyed, PutUnder, TypeOK
  <2>. HIDE DEF inode
  <2>3. EntriesKeyed'
    BY <1>0, <2>1, <2>2 DEF EntriesKeyed, PutUnder, TypeOK
  <2>4. FilesKeyed'
    BY <1>0, <2>1, <2>2 DEF FilesKeyed, PutUnder, TypeOK
  <2>5. DataKeyed'
    BY <1>0, <2>1, <2>2 DEF DataKeyed, PutUnder, TypeOK
  <2>. QED  BY <1>2, <2>1, <2>3, <2>4, <2>5
<1>5. CASE WriteSome(i) \/ Write(i)
  <2>1. worker[i] = "write"
    BY <1>5 DEF WriteSome, Write, Does
  <2>2. file[i] \in Call /\ kind[i] = "put" /\ PutUnder(file[i], key[i])
    BY <2>1 DEF WorkersReady, FilesKeyed, TypeOK
  <2>3. /\ UNCHANGED <<outcome, file, entry>>
        /\ data'[file[i]] \in {Torn, Empty, i}
        /\ \A n \in Call \ {file[i]} : data'[n] = data[n]
    <3>1. data \in [Call -> Call \cup {Empty, Torn}]
      BY DEF TypeOK
    <3>2. CASE WriteSome(i)
      BY <2>2, <3>1, <3>2 DEF WriteSome
    <3>3. CASE Write(i)
      BY <2>2, <3>1, <3>3 DEF Write
    <3>. QED  BY <1>5, <3>2, <3>3
  <2>4. EntriesKeyed' /\ FilesKeyed'
    BY <1>0, <2>3 DEF EntriesKeyed, FilesKeyed, PutUnder
  <2>5. DataKeyed'
    BY <1>0, <2>2, <2>3 DEF DataKeyed, PutUnder
  <2>. QED  BY <1>2, <2>3, <2>4, <2>5
<1>6. CASE Purge(i) \/ Unlink(i)
  <2>1. /\ UNCHANGED <<outcome, file, data>>
        /\ entry' = [entry EXCEPT ![key[i]] = None]
    BY <1>6 DEF Purge, Unlink
  <2>2. EntriesKeyed'
    BY <1>0, <2>1 DEF EntriesKeyed, PutUnder, TypeOK
  <2>3. FilesKeyed' /\ DataKeyed'
    BY <1>0, <2>1 DEF FilesKeyed, DataKeyed, PutUnder
  <2>. QED  BY <1>2, <2>1, <2>2, <2>3
<1>7. CASE OpenForGet(i)
  <2>1. UNCHANGED <<outcome, entry, data>> /\ file' = [file EXCEPT ![i] = entry[key[i]]]
    BY <1>7 DEF OpenForGet, disk
  <2>2. FilesKeyed'
    BY <1>0, <2>1 DEF FilesKeyed, EntriesKeyed, PutUnder, TypeOK
  <2>3. EntriesKeyed' /\ DataKeyed'
    BY <1>0, <2>1 DEF EntriesKeyed, DataKeyed, PutUnder
  <2>. QED  BY <1>2, <2>1, <2>2, <2>3
<1>8. CASE Read(i)
  <2>. DEFINE bytes == data[file[i]]
  <2>1. worker[i] = "read" /\ UNCHANGED <<file, entry, data>>
        /\ outcome' = [outcome EXCEPT ![i] = IF Encrypted /\ bytes \notin Call THEN Failed
                                             ELSE [Done EXCEPT !.value = bytes]]
    BY <1>8 DEF Read, Answers, Does, disk
  <2>2. file[i] \in Call /\ PutUnder(file[i], key[i])
    BY <2>1 DEF WorkersReady, FilesKeyed, TypeOK
  <2>3. bytes \in Call => PutUnder(bytes, key[i])
    BY <2>2 DEF DataKeyed, PutUnder
  <2>. HIDE DEF bytes
  <2>4. Failed.value = None /\ [Done EXCEPT !.value = bytes].value = bytes
    BY DEF Failed, Done
  <2>5. outcome'[i].value = IF Encrypted /\ bytes \notin Call THEN None ELSE bytes
    BY <2>1, <2>4 DEF TypeOK
  <2>6. \A j \in Call : j # i => outcome'[j] = outcome[j]
    BY WorkerFrame
  <2>7. ValuesKeyed'
    BY <1>0, <2>3, <2>5, <2>6 DEF ValuesKeyed, PutUnder
  <2>8. EntriesKeyed' /\ FilesKeyed' /\ DataKeyed'
    BY <1>0, <2>1 DEF EntriesKeyed, FilesKeyed, DataKeyed, PutUnder
  <2>. QED  BY <2>7, <2>8
<1>. QED  BY <1>3, <1>4, <1>5, <1>6, <1>7, <1>8 DEF WorkerStep, DiskFails

LEMMA WorkerRest ==
  ASSUME IInv, NEW i \in Call, WorkerStep(i)
  PROVE  Rest'
<1>. USE DEF IInv
<1>1. /\ Moving(worker[i]) /\ Moving(worker'[i])
      /\ UNCHANGED <<issued, call, pc, kind, key, lock>>
      /\ \A j \in Call : j # i => /\ worker'[j] = worker[j]
                                /\ file'[j] = file[j]
                                /\ outcome'[j] = outcome[j]
  BY WorkerMoves, WorkerFrame
<1>2. CallsIssued' /\ LockHeld' /\ LockExclusive'
  BY <1>1 DEF CallsIssued, LockHeld, LockExclusive, Writes
<1>3. UnissuedUntouched'
  BY <1>1 DEF UnissuedUntouched, Moving
<1>4. WorkersHeld'
  <2>1. Outstanding' = Outstanding
    BY <1>1 DEF Outstanding, Moving
  <2>2. \A j \in Call : Held(j)' = Held(j)
    BY <1>1 DEF Held
  <2>. QED  BY <1>1, <2>1, <2>2 DEF WorkersHeld, Outstanding
<1>. QED  BY <1>2, <1>3, <1>4, WorkerReadyStep, WorkerKeysStep DEF Rest
-----------------------------------------------------------------------------
LEMMA InitIInv == Init => IInv
  BY InitTypes, InitRest DEF IInv, Rest

LEMMA NextIInv == IInv /\ [Next]_vars => IInv'
<1>. SUFFICES ASSUME IInv, [Next]_vars PROVE TypeOK' /\ Rest'
  BY DEF IInv, Rest
<1>1. ASSUME NEW c \in Client, Invoke(c) \/ Refuse(c) \/ CallInit(c)
      PROVE  TypeOK' /\ Rest'
  BY <1>1, ClientStepTypes, AskRest
<1>2. ASSUME NEW c \in Client, CallStep(c)
      PROVE  TypeOK' /\ Rest'
  BY <1>2, ClientStepTypes, ClientRest
<1>3. ASSUME NEW i \in Call, WorkerStep(i)
      PROVE  TypeOK' /\ Rest'
  BY <1>3, WorkerStepTypes, WorkerRest
<1>4. CASE Crash
  BY <1>4, CrashTypes, CrashRest
<1>5. CASE UNCHANGED vars
  <2>. USE <1>5 DEF IInv, vars, asked, lockVars, disk
  <2>1. TypeOK'
    BY DEF TypeOK, Pool!TypeOK, Pool!Permits, Pool!DefaultPermits
  <2>2. CallsIssued' /\ UnissuedUntouched' /\ LockHeld' /\ LockExclusive'
    BY DEF CallsIssued, UnissuedUntouched, LockHeld, LockExclusive, Writes
  <2>3. WorkersHeld' /\ WorkersReady'
    BY DEF WorkersHeld, WorkersReady, Outstanding, Held
  <2>. QED  BY <2>1, <2>2, <2>3, KeysStay DEF Rest
<1>. QED  BY <1>1, <1>2, <1>3, <1>4, <1>5 DEF Next, CallStep

THEOREM StorageInvariant == Spec => []IInv
  BY InitIInv, NextIInv, PTL DEF Spec
-----------------------------------------------------------------------------
(* What follows from the invariant.                                        *)

(* Every variable of Storage has its type. *)
THEOREM StorageTypeCorrect == Spec => []TypeOK
<1>1. IInv => TypeOK
  BY DEF IInv
<1>. QED  BY <1>1, StorageInvariant, PTL

(* Of two workers whose callers cannot be cancelled neither one writes.    *)
LEMMA HeldExcludes ==
  ASSUME IInv, NEW i \in Outstanding, NEW j \in Outstanding, i # j, Held(i), Held(j)
  PROVE  ~Writes(i) /\ ~Writes(j)
<1>1. PICK c \in Client : pc[c] = "select" /\ call[c] = i
  BY DEF Held
<1>2. PICK d \in Client : pc[d] = "select" /\ call[d] = j
  BY DEF Held
<1>3. c \in lock /\ d \in lock /\ c # d
  BY <1>1, <1>2 DEF IInv, LockHeld
<1>. QED  BY <1>1, <1>2, <1>3 DEF IInv, LockExclusive

(* Whatever is cancelled, whatever fails and wherever the process crashes, *)
(* at most one Put is at work (file.go:115-133).                           *)
THEOREM StoragePutsAlone == Spec => []OnePutAtATime
<1>1. IInv => OnePutAtATime
  <2>. SUFFICES ASSUME IInv PROVE OnePutAtATime
    OBVIOUS
  <2>. DEFINE Puts == {i \in Outstanding : kind[i] = "put"}
  <2>1. ASSUME NEW i \in Puts, NEW j \in Puts
        PROVE  i = j
    <3>1. Held(i) /\ Held(j)
      BY DEF IInv, WorkersHeld
    <3>2. Writes(i)
      BY DEF Writes
    <3>. QED  BY <3>1, <3>2, HeldExcludes
  <2>2. CASE Puts = {}
    BY <2>2, FS_EmptySet DEF OnePutAtATime
  <2>3. CASE Puts # {}
    <3>1. PICK i \in Puts : TRUE
      BY <2>3
    <3>2. Puts = {i}
      BY <2>1, <3>1
    <3>. HIDE DEF Puts
    <3>3. Cardinality(Puts) = 1
      BY <3>2, FS_Singleton
    <3>. QED  BY <3>3 DEF OnePutAtATime, Puts
  <2>. QED  BY <2>2, <2>3
<1>. QED  BY <1>1, StorageInvariant, PTL

(* With encryption, what Get returns is a whole value that was put under   *)
(* the key it asked for (internal.go:127-171).                             *)
GetReturnsOwnKey ==
  \A i \in Call : kind[i] = "get" /\ outcome[i].value # None =>
    outcome[i].value \in Call /\ PutUnder(outcome[i].value, key[i])

THEOREM StorageGetsOwnKey ==
  ASSUME Encrypted
  PROVE  Spec => []GetReturnsOwnKey
<1>1. IInv => GetReturnsOwnKey
  BY DEF IInv, ValuesKeyed, GetReturnsOwnKey, PutUnder
<1>. QED  BY <1>1, StorageInvariant, PTL
-----------------------------------------------------------------------------
(* What holds while no call is cancelled.                                  *)

LEMMA NoCancelAlone ==
  ASSUME "cancel" \notin Faults, IInv
  PROVE  WriterAlone
  BY HeldExcludes DEF IInv, WorkersHeld, WriterAlone

(* While no call is cancelled, a worker that writes has the disk to itself *)
(* (file.go:97-101, 142-146, 193-196, 240-244).                            *)
THEOREM StorageWriterAlone ==
  ASSUME "cancel" \notin Faults
  PROVE  Spec => []WriterAlone
<1>1. IInv => WriterAlone
  BY NoCancelAlone
<1>. QED  BY <1>1, StorageInvariant, PTL

(* Between its look at the size of a file and its removal of it, a Get     *)
(* sees no entry come up.                                                  *)
NoEntry(k) == entry[k] = None \/ data[entry[k]] \notin Call

SawEmpty ==
  \A i \in Call : kind[i] = "get" /\ worker[i] \in {"tell_purge", "purge"} => NoEntry(key[i])

(* The steps of the worker of a Delete. *)
DeleteSteps ==
  \A i \in Call : kind[i] = "delete" =>
    worker[i] \in {"off", "gone", "leaked", "tell_unlink", "unlink", "tell_look", "look", "rmdir",
                   "answer"}

(* cleanupPath has dealt with the directories below the one it is at. *)
Settled(i, n) ==
  ~Exists(Ancestor(key[i], n)) \/ Names(Ancestor(key[i], n)) # {}

CleanedSoFar ==
  \A i \in Call : kind[i] = "delete" /\ worker[i] \in {"tell_look", "look", "rmdir"} =>
    /\ node[i] <= Len(Path[key[i]])
    /\ \A n \in 1 .. Len(Path[key[i]]) : n > node[i] => Settled(i, n)

AloneInv == SawEmpty /\ DeleteSteps /\ CleanedSoFar /\ DeleteCleansUp

LEMMA InitAlone == Init => AloneInv
  BY DEF Init, AloneInv, SawEmpty, DeleteSteps, CleanedSoFar, DeleteCleansUp

(* The clients and a crash leave alone what a worker has found out. *)
LEMMA OthersLeaveFindings ==
  ASSUME IInv,
         \/ \E c \in Client : Invoke(c) \/ Refuse(c) \/ CallInit(c) \/ CallStep(c)
         \/ Crash
         \/ UNCHANGED vars
  PROVE  /\ UNCHANGED disk
         /\ \A i \in Call :
              \/ worker'[i] \in {"off", "gone", "leaked"}
              \/ kind'[i] \in Kind /\ worker'[i] = FirstStep[kind'[i]]
              \/ /\ worker'[i] = worker[i] /\ node'[i] = node[i] /\ outcome'[i] = outcome[i]
                 /\ kind'[i] = kind[i] /\ key'[i] = key[i]
<1>. USE DEF IInv
<1>1. CASE \E c \in Client : Invoke(c) \/ Refuse(c) \/ CallInit(c)
  <2>1. PICK c \in Client : Invoke(c) \/ Refuse(c) \/ CallInit(c)
    BY <1>1
  <2>. DEFINE n == issued'
  <2>2. /\ n = issued + 1 /\ n \in Call
        /\ \A i \in Call : i # n => kind'[i] = kind[i] /\ key'[i] = key[i]
    <3>1. CASE Invoke(c) \/ Refuse(c)
      BY <3>1, AsksNext DEF Invoke, Refuse
    <3>2. CASE CallInit(c)
      BY <3>2, StorageAssumption DEF CallInit, TypeOK, Call
    <3>. QED  BY <2>1, <3>1, <3>2
  <2>3. /\ UNCHANGED <<worker, node, disk>>
        /\ outcome' = outcome \/ outcome' = [outcome EXCEPT ![n] = Failed]
    BY <2>1 DEF Invoke, Refuse, CallInit
  <2>4. worker[n] = "off"
    BY <2>2, StorageAssumption DEF UnissuedUntouched, TypeOK
  <2>. HIDE DEF n
  <2>5. \A i \in Call : i # n => outcome'[i] = outcome[i]
    BY <2>3 DEF TypeOK
  <2>. QED  BY <2>2, <2>3, <2>4, <2>5
<1>2. CASE \E c \in Client : CallStep(c)
  <2>1. PICK c \in Client : CallStep(c)
    BY <1>2
  <2>2. UNCHANGED <<kind, key, node, outcome, disk>>
    BY <2>1 DEF CallStep, ClientStep, Acquire, Lock, Answered, Initialized,
       Cancelled, Unlock, Release, asked
  <2>3. pc[c] # "idle" /\ call[c] \in Call /\ kind[call[c]] \in Kind
    <3>1. pc[c] # "idle"
      BY <2>1 DEF CallStep, ClientStep, Acquire, Lock, Answered, Initialized,
         Cancelled, Unlock, Release, Goes
    <3>. QED  BY <3>1 DEF CallsIssued
  <2>4. /\ worker' = worker \/ worker' = [worker EXCEPT ![call[c]] = worker'[call[c]]]
        /\ worker'[call[c]] \in {worker[call[c]], "gone", "leaked", FirstStep[kind[call[c]]]}
    BY <2>1, <2>3 DEF CallStep, ClientStep, Acquire, Lock, StartWorker, Answered,
       Initialized, Cancelled, Unlock, Release, TypeOK
  <2>5. \A i \in Call : i # call[c] => worker'[i] = worker[i]
    BY <2>3, <2>4 DEF TypeOK
  <2>. QED  BY <2>2, <2>3, <2>4, <2>5
<1>3. CASE Crash
  BY <1>3 DEF Crash
<1>4. CASE UNCHANGED vars
  BY <1>4 DEF vars, asked
<1>. QED  BY <1>1, <1>2, <1>3, <1>4

(* The path of a key has a directory of each length. *)
LEMMA AncestorLength ==
  ASSUME NEW k \in Key, NEW n \in 1 .. Len(Path[k])
  PROVE  /\ Len(Ancestor(k, n)) = n
         /\ Ancestor(k, n) # <<>>
<1>1. Path[k] \in Seq(Nat)
  BY StorageAssumption
<1>2. Len(SubSeq(Path[k], 1, n)) = n
  BY <1>1
<1>3. Len(<<>>) = 0 /\ n # 0
  OBVIOUS
<1>. QED  BY <1>2, <1>3 DEF Ancestor

(* Taking an empty directory away settles it, and unsettles none below it. *)
LEMMA RmdirSettles ==
  ASSUME TypeOK, NEW i \in Call, node[i] \in 1 .. Len(Path[key[i]]), Rmdir(i),
         worker'[i] = "look"
  PROVE  /\ node'[i] = node[i] - 1
         /\ \A n \in 1 .. Len(Path[key[i]]) :
              n >= node[i] /\ (n > node[i] => Settled(i, n)) => Settled(i, n)'
<1>. DEFINE k == key[i]
            m == node[i]
<1>1. /\ tree' = tree \ {Ancestor(k, m)}
      /\ node' = [node EXCEPT ![i] = m - 1]
      /\ UNCHANGED <<key, entry>>
  BY DEF Rmdir, Does, Answers, Upwards, Here, clients, asked, TypeOK
<1>2. k \in Key /\ m \in Nat /\ node'[i] = m - 1 /\ Path[k] \in Seq(Nat)
  BY <1>1, StorageAssumption DEF TypeOK
<1>. SUFFICES ASSUME NEW n \in 1 .. Len(Path[k]), n >= m, n > m => Settled(i, n)
              PROVE  Settled(i, n)'
  BY <1>2
<1>3. /\ Len(Ancestor(k, m)) = m
      /\ Len(Ancestor(k, n)) = n /\ Ancestor(k, n) # <<>>
  BY <1>2, AncestorLength
<1>. DEFINE a == Ancestor(k, n)
<1>4. Settled(i, n)' <=> a \notin tree' \/ Names(a)' # {}
  BY <1>1, <1>3 DEF Settled, Exists, Ancestor
<1>5. CASE n = m
  BY <1>1, <1>4, <1>5
<1>6. CASE n > m
  <2>1. a \notin tree \/ Names(a) # {}
    BY <1>3, <1>6 DEF Settled, Exists
  <2>2. CASE a \notin tree
    BY <1>1, <1>4, <2>2
  <2>3. ASSUME NEW x \in Names(a)
        PROVE  x \in Names(a)'
    <3>1. CASE x \in {j \in Key : Path[j] = a /\ entry[j] # None}
      BY <1>1, <3>1 DEF Names
    <3>2. CASE x \in {d \in tree : Len(d) = Len(a) + 1 /\ SubSeq(d, 1, Len(a)) = a}
      <4>1. x \in tree /\ Len(x) = n + 1 /\ x # Ancestor(k, m)
        BY <1>2, <1>3, <1>6, <3>2
      <4>. QED  BY <1>1, <3>2, <4>1 DEF Names
    <3>. QED  BY <2>3, <3>1, <3>2 DEF Names
  <2>. QED  BY <1>4, <2>1, <2>2, <2>3
<1>. QED  BY <1>2, <1>5, <1>6

(* A step of a worker leaves the findings of the other workers true: one   *)
(* that writes has no other worker beside it.                              *)
LEMMA WorkerLeavesOthers ==
  ASSUME IInv, AloneInv, WriterAlone, NEW i \in Call, WorkerStep(i), NEW j \in Call, j # i
  PROVE  /\ kind[j] = "get" /\ worker[j] \in {"tell_purge", "purge"} => NoEntry(key[j])'
         /\ kind[j] # "delete" \/ worker[j] \in {"off", "gone", "leaked"}
<1>. USE DEF IInv
<1>1. i \in Outstanding
  BY WorkerMoves DEF Outstanding, Moving
<1>2. ASSUME kind[j] = "delete", worker[j] \notin {"off", "gone", "leaked"}
      PROVE  FALSE
  BY <1>1, <1>2 DEF WriterAlone, Outstanding, Writes
<1>3. ASSUME kind[j] = "get", worker[j] \in {"tell_purge", "purge"}
      PROVE  NoEntry(key[j])'
  <2>1. kind[i] # "put"
    BY <1>1, <1>3 DEF WriterAlone, Outstanding, Writes
  <2>2. ~OpenForPut(i) /\ ~WriteSome(i) /\ ~Write(i)
    BY <2>1 DEF OpenForPut, WriteSome, Write, Does, WorkersReady
  <2>3. /\ data' = data
        /\ entry' = entry \/ entry' = [entry EXCEPT ![key[i]] = None]
    <3>1. CASE Log(i) \/ Reject(i) \/ SetUp(i) \/ MkdirAll(i) \/ PutFails(i)
               \/ WriteStopsEarly(i) \/ Sync(i) \/ Stat(i) \/ StatForGet(i) \/ OpenForGet(i)
      BY <3>1 DEF Log, Reject, SetUp, MkdirAll, PutFails, WriteStopsEarly, Sync,
         Stat, StatForGet, OpenForGet, disk
    <3>2. CASE Purge(i) \/ Read(i) \/ Unlink(i) \/ CleanedUp(i) \/ Look(i) \/ Rmdir(i)
               \/ Readdir(i) \/ StatAll(i) \/ DiskFails(i)
      BY <3>2 DEF Purge, Read, Unlink, CleanedUp, Look, Rmdir, Readdir, StatAll,
         DiskFails, StatForGetFails, GetFails, DeleteFails, ListFails, disk
    <3>. QED  BY <2>2, <3>1, <3>2 DEF WorkerStep, DiskFails
  <2>4. NoEntry(key[j])
    BY <1>3 DEF AloneInv, SawEmpty
  <2>5. key' = key /\ key[j] \in Key
    BY WorkerFrame DEF TypeOK
  <2>. QED  BY <2>3, <2>4, <2>5 DEF NoEntry, TypeOK
<1>. QED  BY <1>2, <1>3

(* The worker itself. *)
LEMMA WorkerFindings ==
  ASSUME IInv, AloneInv, NEW i \in Call, WorkerStep(i)
  PROVE  /\ kind[i] = "get" /\ worker'[i] \in {"tell_purge", "purge"} => NoEntry(key[i])'
         /\ kind[i] = "delete" => worker'[i] \in {"tell_unlink", "unlink", "tell_look", "look",
                                                 "rmdir", "answer"}
<1>. USE DEF IInv
<1>1. key' = key /\ kind' = kind
  BY WorkerFrame
<1>2. ASSUME kind[i] = "get", worker'[i] \in {"tell_purge", "purge"}
      PROVE  NoEntry(key[i])'
  <2>1. CASE StatForGet(i)
    <3>1. /\ worker'[i] = "tell_purge" => entry[key[i]] # None /\ data[entry[key[i]]] = Empty
          /\ worker'[i] # "purge"
          /\ UNCHANGED <<entry, data>>
      BY <2>1 DEF StatForGet, Does, disk, TypeOK
    <3>2. Empty \notin Call
      BY DEF Empty, Call
    <3>. QED  BY <1>1, <1>2, <3>1, <3>2 DEF NoEntry
  <2>2. CASE Log(i)
    <3>1. /\ worker[i] \in DOMAIN AfterLog /\ worker'[i] = AfterLog[worker[i]]
          /\ UNCHANGED <<entry, data>>
      BY <2>2 DEF Log, Does, disk, TypeOK
    <3>2. worker[i] = "tell_purge"
      BY <1>2, <3>1, AfterLogSteps
    <3>. QED  BY <1>1, <1>2, <3>1, <3>2 DEF AloneInv, SawEmpty, NoEntry
  <2>3. CASE Stat(i)
    BY <1>2, <2>3 DEF Stat, Does, Answers, WorkersReady, TypeOK
  <2>4. CASE WriteSome(i)
    BY <1>2, <2>4 DEF WriteSome
  <2>5. CASE Reject(i) \/ SetUp(i) \/ MkdirAll(i) \/ OpenForPut(i) \/ PutFails(i) \/ Write(i)
             \/ WriteStopsEarly(i) \/ Sync(i) \/ Purge(i)
    BY <1>2, <2>5 DEF Reject, SetUp, MkdirAll, OpenForPut, PutFails, Write,
       WriteStopsEarly, Sync, Purge, Does, Answers, TypeOK
  <2>6. CASE OpenForGet(i) \/ Read(i) \/ Unlink(i) \/ CleanedUp(i) \/ Look(i) \/ Rmdir(i)
             \/ Readdir(i) \/ StatAll(i) \/ DiskFails(i)
    BY <1>2, <2>6 DEF OpenForGet, Read, Unlink, CleanedUp, Look, Rmdir, Readdir,
       StatAll, DiskFails, StatForGetFails, GetFails, DeleteFails, ListFails, Does,
       Answers, TypeOK
  <2>. QED  BY <2>1, <2>2, <2>3, <2>4, <2>5, <2>6 DEF WorkerStep, DiskFails
<1>3. ASSUME kind[i] = "delete"
      PROVE  worker'[i] \in {"tell_unlink", "unlink", "tell_look", "look", "rmdir", "answer"}
  <2>1. worker[i] \in {"tell_unlink", "unlink", "tell_look", "look", "rmdir", "answer"}
    BY <1>3, WorkerMoves DEF AloneInv, DeleteSteps, Moving
  <2>2. CASE Log(i)
    <3>1. worker[i] \in DOMAIN AfterLog /\ worker'[i] = AfterLog[worker[i]]
      BY <2>2 DEF Log, Does, TypeOK
    <3>2. worker[i] \in {"tell_unlink", "tell_look"}
      BY <2>1, <3>1 DEF AfterLog
    <3>3. AfterLog["tell_unlink"] = "unlink" /\ AfterLog["tell_look"] = "look"
      BY DEF AfterLog
    <3>. QED  BY <3>1, <3>2, <3>3
  <2>3. CASE Unlink(i) \/ CleanedUp(i) \/ Look(i) \/ Rmdir(i) \/ Reject(i)
    BY <2>3 DEF Unlink, CleanedUp, Look, Rmdir, Reject, Does, Answers, TypeOK
  <2>4. CASE SetUp(i) \/ MkdirAll(i) \/ OpenForPut(i) \/ PutFails(i) \/ WriteSome(i) \/ Write(i)
             \/ WriteStopsEarly(i) \/ Sync(i)
    BY <1>3, <2>1, <2>4 DEF SetUp, MkdirAll, OpenForPut, PutFails, WriteSome, Write,
       WriteStopsEarly, Sync, Does, Answers
  <2>5. CASE Stat(i) \/ Purge(i) \/ StatForGet(i) \/ OpenForGet(i) \/ Read(i) \/ Readdir(i)
             \/ StatAll(i) \/ DiskFails(i)
    BY <2>1, <2>5 DEF Stat, Purge, StatForGet, OpenForGet, Read, Readdir, StatAll,
       DiskFails, StatForGetFails, GetFails, DeleteFails, ListFails, Does, Answers, TypeOK
  <2>. QED  BY <2>2, <2>3, <2>4, <2>5 DEF WorkerStep, DiskFails
<1>. QED  BY <1>2, <1>3

(* cleanupPath, step by step. *)
Cleaning(i) ==
  /\ node[i] <= Len(Path[key[i]])
  /\ \A n \in 1 .. Len(Path[key[i]]) : n > node[i] => Settled(i, n)

LEMMA DeleteFindings ==
  ASSUME IInv, AloneInv, NEW i \in Call, kind[i] = "delete", WorkerStep(i)
  PROVE  /\ worker'[i] \in {"tell_look", "look", "rmdir"} => Cleaning(i)'
         /\ worker'[i] = "answer" /\ outcome'[i].ok =>
              \A n \in 1 .. Len(Path[key[i]]) :
                Settled(i, n)' \/ (n < node'[i] /\ ~Exists(Here(i))')
<1>. USE DEF IInv
<1>0. /\ key' = key /\ key[i] \in Key /\ node[i] \in Nat
      /\ Path[key[i]] \in Seq(Nat) /\ Len(Path[key[i]]) \in Nat
  BY WorkerFrame, StorageAssumption DEF TypeOK
<1>1. worker[i] \in {"tell_unlink", "unlink", "tell_look", "look", "rmdir", "answer"}
  BY WorkerMoves DEF AloneInv, DeleteSteps, Moving
<1>2. worker[i] \in {"tell_look", "look", "rmdir"} => Cleaning(i)
  BY DEF AloneInv, CleanedSoFar, Cleaning
<1>3. ASSUME UNCHANGED <<tree, entry>>
      PROVE  \A n : Settled(i, n)' <=> Settled(i, n)
  BY <1>0, <1>3 DEF Settled, Exists, Names, Ancestor
<1>4. CASE Log(i)
  <2>1. /\ worker[i] \in DOMAIN AfterLog /\ worker'[i] = AfterLog[worker[i]]
        /\ UNCHANGED <<node, tree, entry>>
    BY <1>4 DEF Log, Does, disk, TypeOK
  <2>2. worker[i] \in {"tell_unlink", "tell_look"}
    BY <1>1, <2>1 DEF AfterLog
  <2>3. AfterLog["tell_unlink"] = "unlink" /\ AfterLog["tell_look"] = "look"
    BY DEF AfterLog
  <2>. QED  BY <1>0, <1>2, <1>3, <2>1, <2>2, <2>3 DEF Cleaning
<1>5. CASE Reject(i)
  <2>1. worker'[i] = "answer" /\ outcome'[i] = Failed
    BY <1>5 DEF Reject, Answers, Does, TypeOK
  <2>. QED  BY <2>1 DEF Failed
<1>6. CASE Unlink(i)
  <2>1. worker'[i] = "tell_look" /\ node'[i] = Len(Path[key[i]])
    BY <1>6 DEF Unlink, Does, TypeOK
  <2>. QED  BY <1>0, <2>1 DEF Cleaning
<1>7. CASE CleanedUp(i)
  <2>1. /\ worker[i] = "look" /\ worker'[i] = "answer"
        /\ UNCHANGED <<node, tree, entry>>
        /\ node[i] = 0 \/ ~Exists(Here(i))
    BY <1>7 DEF CleanedUp, Does, disk, TypeOK
  <2>2. ASSUME NEW n \in 1 .. Len(Path[key[i]])
        PROVE  Settled(i, n)' \/ (n < node'[i] /\ ~Exists(Here(i))')
    <3>1. CASE n > node[i]
      BY <1>2, <1>3, <2>1, <3>1 DEF Cleaning
    <3>2. CASE n = node[i]
      <4>1. ~Exists(Ancestor(key[i], n))
        BY <2>1, <3>2 DEF Here
      <4>. QED  BY <1>3, <2>1, <4>1 DEF Settled
    <3>3. CASE n < node[i]
      <4>1. ~Exists(Here(i))
        BY <2>1, <3>3
      <4>2. Exists(Here(i))' <=> Exists(Here(i))
        BY <1>0, <2>1 DEF Exists, Here, Ancestor
      <4>. QED  BY <2>1, <3>3, <4>1, <4>2
    <3>. QED  BY <1>0, <3>1, <3>2, <3>3
  <2>. QED  BY <2>1, <2>2
<1>8. CASE Look(i)
  <2>1. /\ worker[i] = "look" /\ worker'[i] \in {"look", "rmdir"}
        /\ UNCHANGED <<tree, entry>>
        /\ \/ node' = node
           \/ Names(Here(i)) # {} /\ node' = [node EXCEPT ![i] = node[i] - 1]
    BY <1>8 DEF Look, Does, Upwards, disk, TypeOK
  <2>2. CASE node' = node
    BY <1>0, <1>2, <1>3, <2>1, <2>2 DEF Cleaning
  <2>3. CASE Names(Here(i)) # {} /\ node' = [node EXCEPT ![i] = node[i] - 1]
    <3>1. node'[i] = node[i] - 1
      BY <2>3 DEF TypeOK
    <3>2. Settled(i, node[i])
      BY <2>3 DEF Settled, Here
    <3>3. ASSUME NEW n \in 1 .. Len(Path[key[i]]), n > node[i] - 1
          PROVE  Settled(i, n)
      <4>1. n = node[i] \/ n > node[i]
        BY <1>0, <3>3
      <4>. QED  BY <1>2, <2>1, <3>2, <4>1 DEF Cleaning
    <3>. QED  BY <1>0, <1>2, <1>3, <2>1, <3>1, <3>3 DEF Cleaning
  <2>. QED  BY <2>1, <2>2, <2>3
<1>9. CASE Rmdir(i)
  <2>1. worker[i] = "rmdir"
    BY <1>9 DEF Rmdir, Does, Answers
  <2>2. node[i] \in 1 .. Len(Path[key[i]])
    BY <1>0, <1>2, <2>1 DEF Cleaning, WorkersReady
  <2>3. CASE worker'[i] = "look"
    <3>1. node'[i] = node[i] - 1
      BY <1>9, <2>2, <2>3, RmdirSettles
    <3>2. ASSUME NEW n \in 1 .. Len(Path[key[i]]), n > node[i] - 1
          PROVE  Settled(i, n)'
      <4>1. n >= node[i] /\ (n > node[i] => Settled(i, n))
        BY <1>0, <1>2, <2>1, <3>2 DEF Cleaning
      <4>. QED  BY <1>9, <2>2, <2>3, <4>1, RmdirSettles
    <3>. QED  BY <1>0, <2>2, <2>3, <3>1, <3>2 DEF Cleaning
  <2>4. CASE worker'[i] # "look"
    <3>1. worker'[i] = "answer" /\ outcome'[i] = Failed
      BY <1>9, <2>4 DEF Rmdir, Does, Answers, TypeOK
    <3>. QED  BY <3>1 DEF Failed
  <2>. QED  BY <2>3, <2>4
<1>10. CASE SetUp(i) \/ MkdirAll(i) \/ OpenForPut(i) \/ PutFails(i) \/ WriteSome(i) \/ Write(i)
            \/ WriteStopsEarly(i) \/ Sync(i)
  BY <1>1, <1>10 DEF SetUp, MkdirAll, OpenForPut, PutFails, WriteSome, Write,
     WriteStopsEarly, Sync, Does, Answers
<1>11. CASE DiskFails(i)
  <2>1. worker'[i] = "answer" /\ outcome'[i] = Failed
    BY <1>1, <1>11 DEF DiskFails, StatForGetFails, GetFails, DeleteFails, ListFails,
       Does, Answers, TypeOK
  <2>. QED  BY <2>1 DEF Failed
<1>12. CASE Stat(i) \/ Purge(i) \/ StatForGet(i) \/ OpenForGet(i) \/ Read(i) \/ Readdir(i)
            \/ StatAll(i)
  BY <1>1, <1>12 DEF Stat, Purge, StatForGet, OpenForGet, Read, Readdir, StatAll,
     Does, Answers
<1>. QED  BY <1>4, <1>5, <1>6, <1>7, <1>8, <1>9, <1>10, <1>11, <1>12 DEF WorkerStep,
             DiskFails

LEMMA NextAlone ==
  ASSUME "cancel" \notin Faults, IInv, AloneInv, [Next]_vars
  PROVE  AloneInv'
<1>. USE DEF IInv
<1>1. WriterAlone
  BY NoCancelAlone
<1>2. ASSUME NEW i \in Call, WorkerStep(i)
      PROVE  AloneInv'
  <2>1. /\ UNCHANGED <<kind, key>>
        /\ \A j \in Call : j # i => /\ worker'[j] = worker[j]
                                  /\ node'[j] = node[j]
                                  /\ outcome'[j] = outcome[j]
    BY <1>2, WorkerFrame
  <2>2. \A j \in Call : j # i =>
          /\ kind[j] = "get" /\ worker[j] \in {"tell_purge", "purge"} => NoEntry(key[j])'
          /\ kind[j] # "delete" \/ worker[j] \in {"off", "gone", "leaked"}
    BY <1>1, <1>2, WorkerLeavesOthers
  <2>3. SawEmpty'
    BY <1>2, <2>1, <2>2, WorkerFindings DEF SawEmpty
  <2>4. DeleteSteps'
    BY <1>2, <2>1, <2>2, WorkerFindings DEF DeleteSteps
  <2>5. CleanedSoFar'
    <3>1. kind[i] = "delete" /\ worker'[i] \in {"tell_look", "look", "rmdir"} => Cleaning(i)'
      BY <1>2, DeleteFindings
    <3>. QED  BY <2>1, <2>2, <3>1 DEF CleanedSoFar, Cleaning
  <2>6. DeleteCleansUp'
    <3>1. kind[i] = "delete" /\ worker'[i] = "answer" /\ outcome'[i].ok =>
            \A n \in 1 .. Len(Path[key[i]]) :
              Settled(i, n)' \/ (n < node'[i] /\ ~Exists(Here(i))')
      BY <1>2, DeleteFindings
    <3>. QED  BY <2>1, <2>2, <3>1 DEF DeleteCleansUp, Settled
  <2>. QED  BY <2>3, <2>4, <2>5, <2>6 DEF AloneInv
<1>3. ASSUME \/ \E c \in Client : Invoke(c) \/ Refuse(c) \/ CallInit(c) \/ CallStep(c)
             \/ Crash
             \/ UNCHANGED vars
      PROVE  AloneInv'
  <2>. DEFINE Same(i) == /\ worker'[i] = worker[i] /\ node'[i] = node[i]
                         /\ outcome'[i] = outcome[i]
                         /\ kind'[i] = kind[i] /\ key'[i] = key[i]
  <2>1. UNCHANGED <<tree, entry, data>>
    BY <1>3, OthersLeaveFindings DEF disk
  <2>2. \A i \in Call :
          Same(i) \/ worker'[i] \in {"off", "gone", "leaked"}
                  \/ (kind'[i] \in Kind /\ worker'[i] = FirstStep[kind'[i]])
    BY <1>3, OthersLeaveFindings
  <2>. DEFINE Found == {"tell_purge", "purge", "tell_look", "look", "rmdir", "answer"}
  <2>3. \A i \in Call : worker'[i] \in Found => Same(i)
    BY <2>2, FirstSteps
  <2>4. SawEmpty'
    BY <2>1, <2>3 DEF AloneInv, SawEmpty, NoEntry
  <2>5. DeleteSteps'
    <3>1. FirstStep["delete"] = "tell_unlink"
      BY DEF FirstStep
    <3>. QED  BY <2>2, <3>1 DEF AloneInv, DeleteSteps
  <2>6. ASSUME NEW i \in Call, Same(i)
        PROVE  \A n : /\ Settled(i, n)' <=> Settled(i, n)
                      /\ Exists(Here(i))' <=> Exists(Here(i))
    BY <2>1, <2>6 DEF Settled, Exists, Names, Ancestor, Here
  <2>7. CleanedSoFar'
    <3>. SUFFICES ASSUME NEW i \in Call, kind'[i] = "delete",
                         worker'[i] \in {"tell_look", "look", "rmdir"}
                  PROVE  Cleaning(i)'
      BY DEF CleanedSoFar, Cleaning
    <3>1. Same(i)
      BY <2>3
    <3>2. Cleaning(i)
      BY <3>1 DEF AloneInv, CleanedSoFar, Cleaning
    <3>3. \A n : Settled(i, n)' <=> Settled(i, n)
      BY <2>6, <3>1
    <3>. QED  BY <3>1, <3>2, <3>3 DEF Cleaning
  <2>8. DeleteCleansUp'
    <3>. SUFFICES ASSUME NEW i \in Call, kind'[i] = "delete", worker'[i] = "answer",
                         outcome'[i].ok,
                         NEW n \in 1 .. Len(Path[key'[i]])
                  PROVE  Settled(i, n)' \/ (n < node'[i] /\ ~Exists(Here(i))')
      BY DEF DeleteCleansUp, Settled
    <3>1. Same(i)
      BY <2>3
    <3>2. Settled(i, n) \/ (n < node[i] /\ ~Exists(Here(i)))
      BY <3>1 DEF AloneInv, DeleteCleansUp, Settled
    <3>3. /\ Settled(i, n)' <=> Settled(i, n)
          /\ Exists(Here(i))' <=> Exists(Here(i))
      BY <2>6, <3>1
    <3>. QED  BY <3>1, <3>2, <3>3
  <2>. QED  BY <2>4, <2>5, <2>7, <2>8 DEF AloneInv
<1>. QED  BY <1>2, <1>3 DEF Next, CallStep

THEOREM StorageAlone ==
  ASSUME "cancel" \notin Faults
  PROVE  Spec => []AloneInv
<1>1. AloneInv /\ IInv /\ [Next]_vars => AloneInv'
  BY NextAlone
<1>. QED  BY InitAlone, <1>1, StorageInvariant, PTL DEF Spec

(* While no call is cancelled, a Delete leaves no empty directory on the   *)
(* path of its key, above one that it did find there (internal.go:266-300).*)
THEOREM StorageDeletesDirs ==
  ASSUME "cancel" \notin Faults
  PROVE  Spec => []DeleteCleansUp
<1>1. AloneInv => DeleteCleansUp
  BY DEF AloneInv
<1>. QED  BY <1>1, StorageAlone, PTL

(* While no call is cancelled, the file that Get removes as "left from     *)
(* some previous FS error" is never an entry (internal.go:114-122).        *)
THEOREM StorageKeepsEntries ==
  ASSUME "cancel" \notin Faults
  PROVE  Spec => GetRemovesNoEntry
<1>1. AloneInv => \A i \in Call :
        kind[i] = "get" /\ worker[i] = "purge" => NoEntry(key[i])
  BY DEF AloneInv, SawEmpty
<1>2. AloneInv /\ [Next]_vars =>
        [\A i \in Call :
           kind[i] = "get" /\ worker[i] = "purge" /\ worker'[i] = "answer"
             => entry[key[i]] = None \/ data[entry[key[i]]] \notin Call]_vars
  BY <1>1 DEF NoEntry
<1>. QED  BY <1>2, StorageAlone, PTL DEF Spec, GetRemovesNoEntry
-----------------------------------------------------------------------------
(* The steps of each kind of worker, whatever is cancelled.                *)

(* Nothing is stored under a key that is rejected. *)
BadKeysEmpty == \A k \in BadKey : entry[k] = None

(* The steps of each kind of worker. *)
StepsOf ==
  [none   |-> {},
   init   |-> {"tell_init", "init", "answer"},
   put    |-> {"tell_mkdir", "mkdir", "tell_open", "open", "write", "sync", "tell_stat", "stat",
               "purge", "answer"},
   get    |-> {"tell_fstat", "fstat", "tell_purge", "purge", "tell_find", "find",
               "tell_missing", "tell_read", "read", "answer"},
   delete |-> {"tell_unlink", "unlink", "tell_look", "look", "rmdir", "answer"},
   list   |-> {"tell_readdir", "readdir", "statall", "tell_missing", "answer"}]

StepFits(i) == worker[i] \in StepsOf[kind[i]]

(* A call with a key that validatePath rejects gets no further. *)
RejectedFirst(i) == Rejected(i) => worker[i] \in {FirstStep[kind[i]], "answer"}

LEMMA StepKinds ==
  ASSUME NEW i \in Call, StepFits(i), kind[i] \in Kind \cup {"none"}
  PROVE  /\ kind[i] \in Kind
         /\ worker[i] \in {"tell_mkdir", "mkdir", "tell_open", "open", "write", "sync", "tell_stat",
                           "stat"} => kind[i] = "put"
         /\ worker[i] \in {"tell_fstat", "fstat", "tell_purge", "tell_find", "find", "tell_read",
                           "read"} => kind[i] = "get"
         /\ worker[i] = "purge" => kind[i] \in {"put", "get"}
         /\ worker[i] \in {"tell_unlink", "unlink", "tell_look", "look", "rmdir"} =>
              kind[i] = "delete"
         /\ worker[i] \in {"tell_readdir", "readdir", "statall"} => kind[i] = "list"
         /\ worker[i] = "tell_missing" => kind[i] \in {"get", "list"}
         /\ worker[i] \in {"tell_init", "init"} => kind[i] = "init"
  BY DEF StepFits, StepsOf, Kind

LEMMA LogFits ==
  \A k \in Kind, s \in DOMAIN AfterLog : s \in StepsOf[k] => AfterLog[s] \in StepsOf[k]
  BY DEF Kind, AfterLog, StepsOf

LEMMA FirstFits ==
  \A k \in Kind : FirstStep[k] \in StepsOf[k]
  BY DEF Kind, FirstStep, StepsOf

LEMMA StepFitsStep ==
  ASSUME IInv, NEW i \in Call, StepFits(i), WorkerStep(i)
  PROVE  StepFits(i)'
<1>. USE DEF IInv
<1>1. kind' = kind /\ kind[i] \in Kind
  BY WorkerFrame, StepKinds DEF TypeOK
<1>. SUFFICES worker'[i] \in StepsOf[kind[i]]
  BY <1>1 DEF StepFits
<1>2. CASE Log(i)
  <2>1. worker[i] \in DOMAIN AfterLog /\ worker'[i] = AfterLog[worker[i]]
    BY <1>2 DEF Log, Does, TypeOK
  <2>. QED  BY <1>1, <2>1, LogFits DEF StepFits
<1>3. CASE Reject(i) \/ SetUp(i)
  <2>1. worker'[i] = "answer"
    BY <1>3 DEF Reject, SetUp, Answers, Does, TypeOK
  <2>. QED  BY <1>1, <2>1 DEF StepsOf, Kind
<1>4. CASE MkdirAll(i) \/ OpenForPut(i) \/ PutFails(i) \/ Write(i) \/ WriteStopsEarly(i)
           \/ Sync(i) \/ Stat(i)
  <2>1. kind[i] = "put"
    BY <1>1, <1>4, StepKinds DEF MkdirAll, OpenForPut, PutFails, Write,
       WriteStopsEarly, Sync, Stat, Does, Answers, TypeOK
  <2>2. worker'[i] \in {"tell_open", "write", "sync", "answer", "tell_stat", "purge"}
    BY <1>4 DEF MkdirAll, OpenForPut, PutFails, Write, WriteStopsEarly, Sync, Stat,
       Does, Answers, TypeOK
  <2>. QED  BY <2>1, <2>2 DEF StepsOf
<1>5. CASE WriteSome(i)
  BY <1>5 DEF WriteSome, StepFits
<1>6. CASE Purge(i)
  <2>1. kind[i] \in {"put", "get"} /\ worker'[i] = "answer"
    BY <1>6, StepKinds DEF Purge, Does, TypeOK
  <2>. QED  BY <2>1 DEF StepsOf
<1>7. CASE StatForGet(i) \/ OpenForGet(i) \/ Read(i)
  <2>1. kind[i] = "get"
    BY <1>1, <1>7, StepKinds DEF StatForGet, OpenForGet, Read, Does, Answers, TypeOK
  <2>2. worker'[i] \in {"tell_purge", "tell_find", "tell_missing", "tell_read", "answer"}
    BY <1>7 DEF StatForGet, OpenForGet, Read, Does, Answers, TypeOK
  <2>. QED  BY <2>1, <2>2 DEF StepsOf
<1>8. CASE Unlink(i) \/ CleanedUp(i) \/ Look(i) \/ Rmdir(i)
  <2>1. kind[i] = "delete"
    BY <1>1, <1>8, StepKinds DEF Unlink, CleanedUp, Look, Rmdir, Does, Answers,
       TypeOK
  <2>2. worker'[i] \in {"tell_look", "look", "rmdir", "answer"}
    BY <1>8 DEF Unlink, CleanedUp, Look, Rmdir, Does, Answers, TypeOK
  <2>. QED  BY <2>1, <2>2 DEF StepsOf
<1>9. CASE Readdir(i) \/ StatAll(i)
  <2>1. kind[i] = "list"
    BY <1>1, <1>9, StepKinds DEF Readdir, StatAll, Does, Answers, TypeOK
  <2>2. worker'[i] \in {"statall", "tell_missing", "answer"}
    BY <1>9 DEF Readdir, StatAll, Does, Answers, TypeOK
  <2>. QED  BY <2>1, <2>2 DEF StepsOf
<1>10. CASE DiskFails(i)
  <2>1. worker'[i] = "answer" \/ (kind[i] = "get" /\ worker'[i] = "tell_find")
    BY <1>10, StepKinds DEF DiskFails, StatForGetFails, GetFails, DeleteFails, ListFails, Does,
       Answers, TypeOK
  <2>. QED  BY <1>1, <2>1 DEF StepsOf, Kind
<1>. QED  BY <1>2, <1>3, <1>4, <1>5, <1>6, <1>7, <1>8, <1>9, <1>10 DEF WorkerStep, DiskFails

LEMMA RejectedFirstStep ==
  ASSUME IInv, NEW i \in Call, StepFits(i), RejectedFirst(i), WorkerStep(i)
  PROVE  RejectedFirst(i)'
<1>. USE DEF IInv
<1>1. UNCHANGED <<key, kind>> /\ kind[i] \in Kind
  BY WorkerFrame, StepKinds DEF TypeOK
<1>. SUFFICES ASSUME Rejected(i)
              PROVE  worker'[i] = "answer"
  BY <1>1 DEF RejectedFirst, Rejected
<1>2. worker[i] \in {"tell_init", "tell_mkdir", "tell_fstat", "tell_unlink", "tell_readdir",
                     "answer"}
  BY <1>1 DEF RejectedFirst, FirstStep, Kind
<1>3. CASE Log(i)
  BY <1>2, <1>3 DEF Log, AfterLog, RejectedFirst
<1>4. CASE Reject(i)
  BY <1>4 DEF Reject, Answers, Does, TypeOK
<1>5. CASE SetUp(i) \/ MkdirAll(i) \/ OpenForPut(i) \/ PutFails(i) \/ WriteSome(i) \/ Write(i)
           \/ WriteStopsEarly(i) \/ Sync(i) \/ Stat(i) \/ Purge(i)
  BY <1>2, <1>5 DEF SetUp, MkdirAll, OpenForPut, PutFails, WriteSome, Write,
     WriteStopsEarly, Sync, Stat, Purge, Does, Answers
<1>6. CASE StatForGet(i) \/ OpenForGet(i) \/ Read(i) \/ Unlink(i) \/ CleanedUp(i) \/ Look(i)
           \/ Rmdir(i) \/ Readdir(i) \/ StatAll(i) \/ DiskFails(i)
  BY <1>2, <1>6 DEF StatForGet, OpenForGet, Read, Unlink, CleanedUp, Look, Rmdir,
     Readdir, StatAll, DiskFails, StatForGetFails, GetFails, DeleteFails, ListFails,
     Does, Answers
<1>. QED  BY <1>3, <1>4, <1>5, <1>6 DEF WorkerStep, DiskFails

LEMMA BadKeysStep ==
  ASSUME IInv, BadKeysEmpty, NEW i \in Call, StepFits(i), RejectedFirst(i), WorkerStep(i)
  PROVE  BadKeysEmpty'
<1>. USE DEF IInv
<1>1. BadKey \subseteq Key /\ key[i] \in Key
  BY StorageAssumption DEF TypeOK
<1>2. CASE OpenForPut(i)
  <2>1. worker[i] = "open" /\ kind[i] = "put"
    BY <1>2 DEF OpenForPut, Does
  <2>2. key[i] \notin BadKey
    BY <2>1 DEF RejectedFirst, Rejected, FirstStep
  <2>3. \E n : entry' = [entry EXCEPT ![key[i]] = n]
    BY <1>2 DEF OpenForPut
  <2>. QED  BY <1>1, <2>2, <2>3 DEF BadKeysEmpty, TypeOK
<1>3. CASE Purge(i) \/ Unlink(i)
  <2>1. entry' = [entry EXCEPT ![key[i]] = None]
    BY <1>3 DEF Purge, Unlink
  <2>. QED  BY <1>1, <2>1 DEF BadKeysEmpty, TypeOK
<1>4. CASE Log(i) \/ Reject(i) \/ SetUp(i) \/ MkdirAll(i) \/ PutFails(i) \/ WriteSome(i)
           \/ Write(i) \/ WriteStopsEarly(i) \/ Sync(i) \/ Stat(i) \/ StatForGet(i)
  BY <1>4 DEF Log, Reject, SetUp, MkdirAll, PutFails, WriteSome, Write,
     WriteStopsEarly, Sync, Stat, StatForGet, disk, BadKeysEmpty
<1>5. CASE OpenForGet(i) \/ Read(i) \/ CleanedUp(i) \/ Look(i) \/ Rmdir(i) \/ Readdir(i)
           \/ StatAll(i) \/ DiskFails(i)
  BY <1>5 DEF OpenForGet, Read, CleanedUp, Look, Rmdir, Readdir, StatAll, DiskFails,
     StatForGetFails, GetFails, DeleteFails, ListFails, disk, BadKeysEmpty
<1>. QED  BY <1>2, <1>3, <1>4, <1>5 DEF WorkerStep, DiskFails
-----------------------------------------------------------------------------
(* What a Get answers with.                                                *)

(* What is read of a file. *)
Contents(n) == IF Encrypted /\ data[n] \notin Call THEN None ELSE data[n]

(* A Get whose caller waits has open, and then answers with, what is under *)
(* its key: no Put is at work beside it.  What the worker of a cancelled   *)
(* call can do is to take the entry away.                                  *)
GetFinds(i) ==
  kind[i] = "get" /\ key[i] \notin Flaky /\ Held(i) /\ entry[key[i]] # None =>
    /\ worker[i] \in {"tell_read", "read"} => file[i] = entry[key[i]]
    /\ worker[i] # "tell_missing"
    /\ worker[i] = "answer" => outcome[i].value = Contents(entry[key[i]])

CurrentInv ==
  /\ BadKeysEmpty
  /\ \A i \in Outstanding : StepFits(i) /\ RejectedFirst(i)
  /\ \A i \in Outstanding : GetFinds(i)

(* The steps a Get's worker takes between its first one and its answer. *)
Finding == {"tell_missing", "tell_read", "read", "answer"}

LEMMA InitCurrent == Init => CurrentInv
  BY StorageAssumption DEF Init, CurrentInv, BadKeysEmpty, Outstanding

(* The worker of a Get, step by step. *)
LEMMA GetFindsStep ==
  ASSUME IInv, BadKeysEmpty, NEW i \in Call, StepFits(i), RejectedFirst(i), GetFinds(i),
         WorkerStep(i)
  PROVE  GetFinds(i)'
<1>. USE DEF IInv
<1>1. /\ UNCHANGED <<key, kind>> /\ key[i] \in Key
      /\ Held(i)' = Held(i)
      /\ \A n : UNCHANGED data => Contents(n)' = Contents(n)
  BY WorkerFrame DEF TypeOK, Held, Contents
<1>. SUFFICES ASSUME kind[i] = "get", key[i] \notin Flaky, Held(i), entry'[key[i]] # None
              PROVE  /\ worker'[i] \in {"tell_read", "read"} => file'[i] = entry'[key[i]]
                     /\ worker'[i] # "tell_missing"
                     /\ worker'[i] = "answer" =>
                          outcome'[i].value = Contents(entry[key[i]])'
  BY <1>1 DEF GetFinds
<1>2. CASE Log(i)
  <2>1. /\ worker[i] \in DOMAIN AfterLog /\ worker'[i] = AfterLog[worker[i]]
        /\ UNCHANGED <<entry, file>>
    BY <1>2 DEF Log, Does, disk, TypeOK
  <2>2. worker[i] # "tell_missing"
    BY <2>1 DEF GetFinds
  <2>3. worker'[i] \notin {"tell_read", "tell_missing", "answer"}
    BY <2>1, <2>2 DEF AfterLog
  <2>4. worker'[i] = "read" => worker[i] = "tell_read"
    BY <2>1, AfterLogSteps
  <2>. QED  BY <2>1, <2>3, <2>4 DEF GetFinds
<1>3. CASE Reject(i)
  <2>1. key[i] \in BadKey /\ UNCHANGED entry
    BY <1>3 DEF Reject, Rejected, disk
  <2>. QED  BY <2>1 DEF BadKeysEmpty
<1>4. CASE StatForGet(i)
  BY <1>4 DEF StatForGet, Does, TypeOK
<1>5. CASE OpenForGet(i)
  BY <1>1, <1>5 DEF OpenForGet, Does, disk, TypeOK
<1>6. CASE Read(i)
  <2>1. /\ worker[i] = "read" /\ worker'[i] = "answer" /\ UNCHANGED <<entry, data>>
        /\ outcome'[i] = IF Encrypted /\ data[file[i]] \notin Call THEN Failed
                         ELSE [Done EXCEPT !.value = data[file[i]]]
    BY <1>6 DEF Read, Answers, Does, disk, TypeOK
  <2>2. file[i] = entry[key[i]]
    BY <2>1 DEF GetFinds
  <2>3. Failed.value = None /\ \A v : [Done EXCEPT !.value = v].value = v
    BY DEF Failed, Done
  <2>. QED  BY <1>1, <2>1, <2>2, <2>3 DEF Contents
<1>7. CASE Purge(i)
  BY <1>1, <1>7 DEF Purge, TypeOK
<1>8. CASE DiskFails(i)
  BY <1>8, StepKinds DEF DiskFails, StatForGetFails, GetFails, DeleteFails, ListFails, Does,
     Answers, TypeOK
<1>9. CASE SetUp(i) \/ MkdirAll(i) \/ OpenForPut(i) \/ PutFails(i) \/ WriteSome(i) \/ Write(i)
           \/ WriteStopsEarly(i) \/ Sync(i) \/ Stat(i)
  BY <1>9, StepKinds DEF SetUp, MkdirAll, OpenForPut, PutFails, WriteSome, Write,
     WriteStopsEarly, Sync, Stat, Does, Answers, TypeOK
<1>10. CASE Unlink(i) \/ CleanedUp(i) \/ Look(i) \/ Rmdir(i) \/ Readdir(i) \/ StatAll(i)
  BY <1>10, StepKinds DEF Unlink, CleanedUp, Look, Rmdir, Readdir, StatAll, Does, Answers, TypeOK
<1>. QED  BY <1>2, <1>3, <1>4, <1>5, <1>6, <1>7, <1>8, <1>9, <1>10 DEF WorkerStep, DiskFails

(* A worker beside a Get that is waited for writes nothing. *)
LEMMA BesideGet ==
  ASSUME IInv, NEW i \in Outstanding, kind[i] = "get", Held(i),
         NEW j \in Call, j # i, StepFits(j), WorkerStep(j)
  PROVE  /\ UNCHANGED data
         /\ \A k \in Key : entry'[k] # None => entry'[k] = entry[k]
<1>. USE DEF IInv
<1>1. j \in Outstanding /\ key[j] \in Key
  BY WorkerMoves DEF Outstanding, Moving, TypeOK
<1>2. kind[j] # "put"
  <2>1. ASSUME kind[j] = "put"
        PROVE  FALSE
    <3>1. Held(j) /\ Writes(j)
      BY <1>1, <2>1 DEF WorkersHeld, Writes
    <3>. QED  BY <1>1, <3>1, HeldExcludes
  <2>. QED  BY <2>1
<1>3. CASE Purge(j) \/ Unlink(j)
  BY <1>1, <1>3 DEF Purge, Unlink, TypeOK
<1>4. CASE OpenForPut(j) \/ WriteSome(j) \/ Write(j)
  BY <1>2, <1>4 DEF OpenForPut, WriteSome, Write, Does, WorkersReady
<1>5. CASE Log(j) \/ Reject(j) \/ SetUp(j) \/ MkdirAll(j) \/ PutFails(j)
           \/ WriteStopsEarly(j) \/ Sync(j) \/ Stat(j) \/ StatForGet(j) \/ OpenForGet(j)
  BY <1>5 DEF Log, Reject, SetUp, MkdirAll, PutFails, WriteStopsEarly, Sync, Stat, StatForGet,
     OpenForGet, disk
<1>6. CASE Read(j) \/ CleanedUp(j) \/ Look(j) \/ Rmdir(j) \/ Readdir(j) \/ StatAll(j)
           \/ DiskFails(j)
  BY <1>6 DEF Read, CleanedUp, Look, Rmdir, Readdir, StatAll, DiskFails, StatForGetFails, GetFails,
     DeleteFails, ListFails, disk
<1>. QED  BY <1>3, <1>4, <1>5, <1>6 DEF WorkerStep, DiskFails

LEMMA WorkerCurrent ==
  ASSUME IInv, CurrentInv, NEW j \in Call, WorkerStep(j)
  PROVE  CurrentInv'
<1>. USE DEF IInv
<1>1. /\ j \in Outstanding /\ Outstanding' = Outstanding /\ Outstanding \subseteq Call
      /\ UNCHANGED <<kind, key, call, pc>>
      /\ \A i \in Call : i # j => /\ worker'[i] = worker[i] /\ file'[i] = file[i]
                                /\ outcome'[i] = outcome[i]
  BY WorkerMoves, WorkerFrame DEF Outstanding, Moving
<1>2. StepFits(j) /\ RejectedFirst(j) /\ GetFinds(j)
  BY <1>1 DEF CurrentInv
<1>3. BadKeysEmpty'
  BY <1>2, BadKeysStep DEF CurrentInv
<1>4. \A i \in Outstanding : StepFits(i)' /\ RejectedFirst(i)'
  <2>1. StepFits(j)' /\ RejectedFirst(j)'
    BY <1>2, StepFitsStep, RejectedFirstStep
  <2>2. \A i \in Outstanding : i # j => StepFits(i)' /\ RejectedFirst(i)'
    BY <1>1 DEF CurrentInv, StepFits, RejectedFirst, Rejected
  <2>. QED  BY <2>1, <2>2
<1>5. GetFinds(j)'
  BY <1>2, GetFindsStep DEF CurrentInv
<1>6. ASSUME NEW i \in Outstanding, i # j
      PROVE  GetFinds(i)'
  <2>. SUFFICES ASSUME kind[i] = "get", key[i] \notin Flaky, Held(i), entry'[key[i]] # None
                PROVE  GetFinds(i)'
    BY <1>1 DEF GetFinds, Held
  <2>1. UNCHANGED data /\ entry'[key[i]] = entry[key[i]]
    BY <1>1, <1>2, <1>6, BesideGet DEF TypeOK
  <2>2. GetFinds(i)
    BY DEF CurrentInv
  <2>3. Contents(entry[key[i]])' = Contents(entry[key[i]])
    BY <1>1, <2>1 DEF Contents
  <2>. QED  BY <1>1, <1>6, <2>1, <2>2, <2>3 DEF GetFinds, Held
<1>. QED  BY <1>1, <1>3, <1>4, <1>5, <1>6 DEF CurrentInv

(* The caller of a worker that is under way was waiting for it before. *)
LEMMA HeldBefore ==
  ASSUME IInv, NEW i \in Call, Held(i)', worker'[i] \in Finding,
         \/ \E c \in Client : Invoke(c) \/ Refuse(c) \/ CallInit(c) \/ CallStep(c)
         \/ Crash
         \/ UNCHANGED vars
  PROVE  Held(i) /\ file'[i] = file[i]
<1>. USE DEF IInv
<1>1. PICK d \in Client : pc'[d] = "select" /\ call'[d] = i
  BY DEF Held
<1>2. CASE Crash
  BY <1>1, <1>2 DEF Crash
<1>3. CASE UNCHANGED vars
  BY <1>1, <1>3 DEF vars, Held
<1>4. ASSUME NEW c \in Client, Invoke(c) \/ Refuse(c) \/ CallInit(c) \/ CallStep(c)
      PROVE  Held(i) /\ file'[i] = file[i]
  <2>1. file' = file
    BY <1>4 DEF Invoke, Refuse, CallInit, CallStep, ClientStep, Acquire, Lock, Answered,
       Initialized, Cancelled, Unlock, Release
  <2>2. CASE d # c
    <3>1. pc'[d] = pc[d] /\ call'[d] = call[d]
      BY <1>4, <2>2 DEF Invoke, Refuse, CallInit, CallStep, ClientStep, Acquire, Lock, Answered,
         Initialized, Cancelled, Unlock, Release, Goes, TypeOK
    <3>. QED  BY <1>1, <2>1, <3>1 DEF Held
  <2>3. CASE d = c
    <3>1. Lock(c)
      BY <1>1, <1>4, <2>3 DEF Invoke, Refuse, CallInit, CallStep, ClientStep, Acquire, Answered,
         Initialized, Cancelled, Unlock, Release, Goes, Asks, TypeOK
    <3>2. call[c] = i /\ kind[i] \in Kind
      BY <1>1, <2>3, <3>1 DEF Lock, Goes, CallsIssued
    <3>3. worker'[i] \in {"gone", FirstStep[kind[i]]}
      BY <3>1, <3>2 DEF Lock, StartWorker, TypeOK
    <3>4. FirstStep[kind[i]] # "tell_missing"
      BY <3>2 DEF FirstStep, Kind
    <3>. QED  BY <3>2, <3>3, <3>4, FirstSteps DEF Finding
  <2>. QED  BY <2>2, <2>3
<1>. QED  BY <1>2, <1>3, <1>4

LEMMA OthersCurrent ==
  ASSUME IInv, CurrentInv,
         \/ \E c \in Client : Invoke(c) \/ Refuse(c) \/ CallInit(c) \/ CallStep(c)
         \/ Crash
         \/ UNCHANGED vars
  PROVE  CurrentInv'
<1>. DEFINE Same(i) == /\ worker'[i] = worker[i] /\ outcome'[i] = outcome[i]
                       /\ kind'[i] = kind[i] /\ key'[i] = key[i]
<1>1. /\ UNCHANGED <<entry, data>>
      /\ \A i \in Call :
           \/ worker'[i] \in {"off", "gone", "leaked"}
           \/ kind'[i] \in Kind /\ worker'[i] = FirstStep[kind'[i]]
           \/ Same(i)
  BY OthersLeaveFindings DEF disk
<1>2. BadKeysEmpty'
  BY <1>1 DEF CurrentInv, BadKeysEmpty
<1>3. ASSUME NEW i \in Call, worker'[i] \notin {"off", "gone", "leaked"}
      PROVE  StepFits(i)' /\ RejectedFirst(i)' /\ GetFinds(i)'
  <2>1. CASE Same(i)
    <3>1. i \in Outstanding
      BY <1>3, <2>1 DEF Outstanding
    <3>2. StepFits(i) /\ RejectedFirst(i) /\ GetFinds(i)
      BY <3>1 DEF CurrentInv
    <3>3. StepFits(i)' /\ RejectedFirst(i)'
      BY <2>1, <3>2 DEF StepFits, RejectedFirst, Rejected
    <3>4. Held(i)' /\ worker'[i] \in Finding => Held(i) /\ file'[i] = file[i]
      BY HeldBefore
    <3>5. GetFinds(i)'
      BY <1>1, <2>1, <3>2, <3>4 DEF GetFinds, Contents, Finding
    <3>. QED  BY <3>3, <3>5
  <2>2. CASE kind'[i] \in Kind /\ worker'[i] = FirstStep[kind'[i]]
    <3>1. StepFits(i)' /\ RejectedFirst(i)'
      BY <2>2, FirstFits DEF StepFits, RejectedFirst
    <3>2. worker'[i] \notin Finding
      <4>1. FirstStep[kind'[i]] # "tell_missing"
        BY <2>2 DEF FirstStep, Kind
      <4>. QED  BY <2>2, <4>1, FirstSteps DEF Finding
    <3>. QED  BY <3>1, <3>2 DEF GetFinds, Finding
  <2>. QED  BY <1>1, <1>3, <2>1, <2>2
<1>4. \A i \in Outstanding' : i \in Call /\ worker'[i] \notin {"off", "gone", "leaked"}
  BY DEF Outstanding
<1>. QED  BY <1>2, <1>3, <1>4 DEF CurrentInv

(* Whatever is cancelled, whichever writes stop early and wherever the     *)
(* process crashes, a Get whose caller still waits for it answers with     *)
(* what is now under its key, if the disk can open and read that           *)
(* (file.go:140-184, internal.go:95-171).                                  *)
THEOREM StorageGetsCurrent == Spec => []GetReturnsCurrent
<1>1. CurrentInv /\ IInv /\ [Next]_vars => CurrentInv'
  BY WorkerCurrent, OthersCurrent DEF Next, CallStep
<1>2. CurrentInv /\ IInv => GetReturnsCurrent
  <2>. SUFFICES ASSUME CurrentInv, IInv, NEW c \in Client, pc[c] = "select",
                       kind[call[c]] = "get", worker[call[c]] = "answer",
                       key[call[c]] \notin Flaky, entry[key[call[c]]] # None
                PROVE  outcome[call[c]].value = Contents(entry[key[call[c]]])
    BY DEF GetReturnsCurrent, Contents
  <2>1. call[c] \in Outstanding /\ Held(call[c])
    BY DEF IInv, CallsIssued, Outstanding, Held
  <2>. QED  BY <2>1 DEF CurrentInv, GetFinds
<1>. QED  BY InitCurrent, <1>1, <1>2, StorageInvariant, PTL DEF Spec
=============================================================================
