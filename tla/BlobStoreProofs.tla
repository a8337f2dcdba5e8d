-------------------------- MODULE BlobStoreProofs --------------------------
(***************************************************************************)
(* Storage implements BlobStore: with encryption, and while no call is     *)
(* cancelled and no write fails, every Put, Get, Delete and List takes     *)
(* effect in one step between its invocation and its return, a crash       *)
(* touches only the keys of the Puts in progress, and a disk error on a    *)
(* key is seen by the calls for that key alone.                            *)
(***************************************************************************)
EXTENDS StorageProofs

(* A call that waits for the lock has no worker yet; one that has let go   *)
(* of it has its answer.                                                   *)
CallPlaces ==
  \A c \in Client :
    /\ pc[c] \in {"acquire", "lock"} =>
         worker[call[c]] = "off" /\ outcome[call[c]] = Done
    /\ pc[c] \in {"unlock", "release"} /\ kind[call[c]] # "init" =>
         worker[call[c]] \in {"gone", "leaked"}
    /\ pc[c] \in {"acquire", "release"} => kind[call[c]] # "init"

CallsDistinct ==
  \A c, d \in Client :
    pc[c] # "idle" /\ pc[d] # "idle" /\ call[c] = call[d] => c = d

FreshOutcome == \A i \in Call : i > issued => outcome[i] = Done

(* Every entry lies in a directory that is there. *)
TreeHolds == \A k \in Key : entry[k] # None => Exists(Path[k])

(* Before it answers a worker has found nothing, but for the names that a  *)
(* List is about to look at: Get removes some of them, nothing adds any.   *)
OutcomeOpen(i) ==
  /\ worker[i] \notin {"answer", "statall"} => outcome[i] = Done
  /\ worker[i] = "statall" =>
       /\ outcome[i].ok /\ outcome[i].value = None
       /\ Names(Path[key[i]]) \subseteq outcome[i].names

(* A Put at work has its file under its key. *)
PutProgress(i) ==
  PutWorks(i) =>
    /\ file[i] # None /\ entry[key[i]] = file[i]
    /\ worker[i] = "write" => data[file[i]] \notin Call
    /\ worker[i] # "write" => data[file[i]] = IF blank[i] THEN Empty ELSE i
    /\ worker[i] = "purge" => blank[i]

(* A Get has the file that is under its key, but for one that another Get  *)
(* has removed as it is no entry.                                          *)
GetProgress(i) ==
  kind[i] = "get" =>
    /\ worker[i] \in {"tell_read", "read"} =>
         entry[key[i]] = file[i] \/ (entry[key[i]] = None /\ data[file[i]] \notin Call)
    /\ worker[i] = "tell_missing" => entry[key[i]] = None

ListProgress(i) ==
  kind[i] = "list" /\ worker[i] = "tell_missing" => ~Exists(Path[key[i]])

(* Nothing comes into a directory between the look into it and its removal. *)
RmdirReady(i) ==
  worker[i] = "rmdir" => Exists(Here(i)) /\ Names(Here(i)) = {}

WorkerInv(i) ==
  /\ StepFits(i)
  /\ OutcomeOpen(i)
  /\ PutProgress(i)
  /\ GetProgress(i)
  /\ ListProgress(i)
  /\ RmdirReady(i)
  /\ RejectedFirst(i)

FInv ==
  /\ CallPlaces
  /\ CallsDistinct
  /\ FreshOutcome
  /\ TreeHolds
  /\ BadKeysEmpty
  /\ \A i \in Outstanding : WorkerInv(i)

(* The faults under which Storage keeps what BlobStore promises. *)
Sound == "cancel" \notin Faults /\ "write" \notin Faults /\ Encrypted
-----------------------------------------------------------------------------
(* The steps of the workers.                                               *)

(* A worker that has just been started. *)
LEMMA FreshWorker ==
  ASSUME NEW i \in Call, kind'[i] \in Kind, worker'[i] = FirstStep[kind'[i]],
         outcome'[i] = Done
  PROVE  WorkerInv(i)'
<1>1. worker'[i] \in Steps \ {"off", "gone", "leaked", "write", "sync", "tell_stat", "stat",
                             "rmdir", "tell_read", "read", "tell_purge", "purge", "tell_look",
                             "look", "answer"}
  BY FirstSteps
<1>2. worker'[i] \notin {"statall", "tell_missing"}
  BY DEF FirstStep, Kind
<1>3. StepFits(i)'
  BY FirstFits DEF StepFits
<1>4. OutcomeOpen(i)' /\ RejectedFirst(i)'
  BY <1>1, <1>2 DEF OutcomeOpen, RejectedFirst
<1>5. PutProgress(i)' /\ GetProgress(i)' /\ ListProgress(i)' /\ RmdirReady(i)'
  BY <1>1, <1>2 DEF PutProgress, PutWorks, GetProgress, ListProgress, RmdirReady
<1>. QED  BY <1>3, <1>4, <1>5 DEF WorkerInv

(* A worker that stays where it is while the disk stays as it is. *)
LEMMA SameWorker ==
  ASSUME NEW i \in Call, WorkerInv(i), UNCHANGED disk,
         worker'[i] = worker[i], node'[i] = node[i], outcome'[i] = outcome[i],
         kind'[i] = kind[i], key'[i] = key[i], blank'[i] = blank[i], file'[i] = file[i]
  PROVE  WorkerInv(i)'
<1>. USE DEF WorkerInv, disk
<1>1. StepFits(i)' /\ RejectedFirst(i)'
  BY DEF StepFits, RejectedFirst, Rejected
<1>2. OutcomeOpen(i)'
  BY DEF OutcomeOpen, Names
<1>3. PutProgress(i)'
  BY DEF PutProgress, PutWorks
<1>4. GetProgress(i)' /\ ListProgress(i)'
  BY DEF GetProgress, ListProgress, Exists
<1>5. RmdirReady(i)'
  BY DEF RmdirReady, Exists, Here, Ancestor, Names
<1>. QED  BY <1>1, <1>2, <1>3, <1>4, <1>5
-----------------------------------------------------------------------------
(* A step of a worker keeps what it relies on.                             *)

LEMMA OutcomeOpenStep ==
  ASSUME IInv, NEW i \in Call, OutcomeOpen(i), WorkerStep(i)
  PROVE  OutcomeOpen(i)'
<1>. USE DEF IInv
<1>1. key' = key
  BY WorkerFrame
<1>2. CASE Log(i)
  <2>1. /\ worker[i] \in DOMAIN AfterLog /\ worker'[i] = AfterLog[worker[i]]
        /\ outcome' = outcome
    BY <1>2 DEF Log, Does, TypeOK
  <2>2. worker[i] \notin {"answer", "statall"} /\ worker'[i] # "statall"
    BY <2>1 DEF AfterLog
  <2>. QED  BY <2>1, <2>2 DEF OutcomeOpen
<1>3. CASE Reject(i) \/ SetUp(i) \/ PutFails(i) \/ Purge(i) \/ Read(i) \/ CleanedUp(i)
           \/ StatAll(i) \/ GetFails(i) \/ DeleteFails(i) \/ ListFails(i)
  <2>1. worker'[i] = "answer"
    BY <1>3 DEF Reject, SetUp, PutFails, Purge, Read, CleanedUp, StatAll, GetFails,
       DeleteFails, ListFails, Answers, Does, TypeOK
  <2>. QED  BY <2>1 DEF OutcomeOpen
<1>4. CASE WriteStopsEarly(i) \/ Stat(i) \/ Rmdir(i)
  <2>1. \/ worker'[i] = "answer"
        \/ /\ worker[i] \notin {"answer", "statall"} /\ worker'[i] # "statall"
           /\ outcome' = outcome
    BY <1>4 DEF WriteStopsEarly, Stat, Rmdir, Answers, Does, TypeOK
  <2>. QED  BY <2>1 DEF OutcomeOpen
<1>5. CASE MkdirAll(i) \/ OpenForPut(i) \/ WriteSome(i) \/ Write(i) \/ Sync(i)
           \/ StatForGet(i) \/ StatForGetFails(i) \/ OpenForGet(i) \/ Unlink(i) \/ Look(i)
  <2>1. /\ worker[i] \notin {"answer", "statall"} /\ worker'[i] # "statall"
        /\ outcome' = outcome
    BY <1>5 DEF MkdirAll, OpenForPut, WriteSome, Write, Sync, StatForGet,
       StatForGetFails, OpenForGet, Unlink, Look, Does, TypeOK
  <2>. QED  BY <2>1 DEF OutcomeOpen
<1>6. CASE Readdir(i)
  <2>1. CASE Exists(Path[key[i]])
    <3>1. /\ worker'[i] = "statall" /\ UNCHANGED disk
          /\ outcome'[i] = [Done EXCEPT !.names = Names(Path[key[i]])]
      BY <1>6, <2>1 DEF Readdir, Does, TypeOK
    <3>2. outcome'[i].ok /\ outcome'[i].value = None /\ outcome'[i].names = Names(Path[key[i]])
      BY <3>1 DEF Done
    <3>3. Names(Path[key[i]])' = Names(Path[key[i]])
      BY <1>1, <3>1 DEF Names, disk
    <3>. QED  BY <3>1, <3>2, <3>3 DEF OutcomeOpen
  <2>2. CASE ~Exists(Path[key[i]])
    <3>1. worker[i] = "readdir" /\ worker'[i] = "tell_missing" /\ outcome' = outcome
      BY <1>6, <2>2 DEF Readdir, Does, TypeOK
    <3>. QED  BY <3>1 DEF OutcomeOpen
  <2>. QED  BY <2>1, <2>2
<1>. QED  BY <1>2, <1>3, <1>4, <1>5, <1>6 DEF WorkerStep

LEMMA PutProgressStep ==
  ASSUME Sound, IInv, NEW i \in Call, StepFits(i), PutProgress(i), WorkerStep(i)
  PROVE  PutProgress(i)'
<1>. USE DEF IInv
<1>1. UNCHANGED <<key, kind, blank>> /\ key[i] \in Key
  BY WorkerMoves DEF clients, asked, TypeOK
<1>. SUFFICES ASSUME PutWorks(i)'
              PROVE  PutProgress(i)'
  BY DEF PutProgress
<1>2. kind[i] = "put" /\ worker'[i] \in {"write", "sync", "tell_stat", "stat", "purge"}
  BY <1>1 DEF PutWorks
<1>3. CASE OpenForPut(i)
  <2>. DEFINE inode == IF entry[key[i]] = None THEN i ELSE entry[key[i]]
  <2>1. inode \in Call /\ inode # None
    BY <1>1 DEF TypeOK, None, Call
  <2>2. /\ entry' = [entry EXCEPT ![key[i]] = inode]
        /\ data' = [data EXCEPT ![inode] = Empty]
        /\ file' = [file EXCEPT ![i] = inode]
        /\ worker'[i] = "write"
    BY <1>3 DEF OpenForPut, Does, TypeOK
  <2>. HIDE DEF inode
  <2>3. entry'[key[i]] = inode /\ data'[inode] = Empty /\ file'[i] = inode
    BY <1>1, <2>1, <2>2 DEF TypeOK
  <2>4. Empty \notin Call
    BY DEF Empty, Call
  <2>. QED  BY <1>1, <2>1, <2>2, <2>3, <2>4 DEF PutProgress
<1>4. CASE WriteSome(i) \/ Write(i)
  <2>1. worker[i] = "write" /\ UNCHANGED <<entry, file>>
    BY <1>4 DEF WriteSome, Write, Does
  <2>2. file[i] # None /\ entry[key[i]] = file[i] /\ file[i] \in Call
    BY <1>2, <2>1 DEF PutProgress, PutWorks, TypeOK
  <2>3. CASE WriteSome(i)
    <3>1. worker'[i] = "write" /\ data'[file[i]] = Torn
      BY <2>1, <2>2, <2>3 DEF WriteSome, TypeOK
    <3>2. Torn \notin Call
      BY DEF Torn, Call
    <3>. QED  BY <1>1, <2>1, <2>2, <3>1, <3>2 DEF PutProgress
  <2>4. CASE Write(i)
    <3>1. worker'[i] = "sync" /\ data'[file[i]] = IF blank[i] THEN Empty ELSE i
      BY <2>1, <2>2, <2>4 DEF Write, Does, TypeOK
    <3>. QED  BY <1>1, <2>1, <2>2, <3>1 DEF PutProgress
  <2>. QED  BY <1>4, <2>3, <2>4
<1>5. CASE Log(i)
  <2>1. /\ worker[i] \in DOMAIN AfterLog /\ worker'[i] = AfterLog[worker[i]]
        /\ UNCHANGED <<entry, data, file>>
    BY <1>5 DEF Log, Does, disk, TypeOK
  <2>2. worker[i] = "tell_stat" /\ worker'[i] = "stat"
    <3>1. worker[i] # "tell_purge"
      BY <1>2, StepKinds DEF TypeOK
    <3>2. worker[i] = "tell_stat"
      BY <1>2, <2>1, <3>1, AfterLogSteps
    <3>. QED  BY <2>1, <3>2 DEF AfterLog
  <2>. QED  BY <1>1, <1>2, <2>1, <2>2 DEF PutProgress, PutWorks
<1>6. CASE Sync(i)
  BY <1>1, <1>2, <1>6 DEF Sync, Does, PutProgress, PutWorks, disk, TypeOK
<1>7. CASE Stat(i)
  <2>1. worker[i] = "stat" /\ UNCHANGED <<entry, data, file>>
    BY <1>7 DEF Stat, Does, Answers, disk
  <2>2. /\ file[i] # None /\ entry[key[i]] = file[i]
        /\ data[file[i]] = IF blank[i] THEN Empty ELSE i
    BY <1>2, <2>1 DEF PutProgress, PutWorks
  <2>3. worker'[i] = "purge" /\ data[file[i]] = Empty
    BY <1>2, <1>7, <2>2 DEF Stat, Does, Answers, TypeOK
  <2>4. i # Empty
    BY DEF Empty, Call
  <2>. QED  BY <1>1, <2>1, <2>2, <2>3, <2>4 DEF PutProgress
<1>8. CASE Reject(i) \/ SetUp(i) \/ PutFails(i) \/ MkdirAll(i) \/ Purge(i) \/ WriteStopsEarly(i)
  BY <1>2, <1>8 DEF Reject, SetUp, PutFails, MkdirAll, Purge, WriteStopsEarly, Does,
     Answers, Sound, TypeOK
<1>9. CASE StatForGet(i) \/ OpenForGet(i) \/ Read(i) \/ Unlink(i) \/ CleanedUp(i) \/ Look(i)
           \/ Rmdir(i) \/ Readdir(i) \/ StatAll(i) \/ DiskFails(i)
  BY <1>2, <1>9 DEF StatForGet, OpenForGet, Read, Unlink, CleanedUp, Look, Rmdir,
     Readdir, StatAll, DiskFails, StatForGetFails, GetFails, DeleteFails, ListFails,
     Does, Answers, TypeOK
<1>. QED  BY <1>3, <1>4, <1>5, <1>6, <1>7, <1>8, <1>9 DEF WorkerStep, DiskFails

LEMMA GetProgressStep ==
  ASSUME IInv, NEW i \in Call, StepFits(i), GetProgress(i), WorkerStep(i)
  PROVE  GetProgress(i)'
<1>. USE DEF IInv
<1>1. UNCHANGED <<key, kind>> /\ key[i] \in Key
  BY WorkerFrame DEF TypeOK
<1>. SUFFICES ASSUME kind[i] = "get"
              PROVE  GetProgress(i)'
  BY <1>1 DEF GetProgress
<1>2. CASE OpenForGet(i)
  <2>1. /\ worker'[i] = IF entry[key[i]] = None THEN "tell_missing" ELSE "tell_read"
        /\ file'[i] = entry[key[i]] /\ UNCHANGED entry
    BY <1>2 DEF OpenForGet, Does, disk, TypeOK
  <2>. QED  BY <1>1, <2>1 DEF GetProgress
<1>3. CASE Log(i)
  <2>1. /\ worker[i] \in DOMAIN AfterLog /\ worker'[i] = AfterLog[worker[i]]
        /\ UNCHANGED <<entry, data, file>>
    BY <1>3 DEF Log, Does, disk, TypeOK
  <2>2. worker'[i] \notin {"tell_read", "tell_missing"}
        /\ (worker'[i] = "read" => worker[i] = "tell_read")
    BY <2>1 DEF AfterLog
  <2>. QED  BY <1>1, <2>1, <2>2 DEF GetProgress
<1>4. CASE Reject(i) \/ SetUp(i) \/ MkdirAll(i) \/ OpenForPut(i) \/ PutFails(i) \/ Write(i)
           \/ WriteStopsEarly(i) \/ Sync(i) \/ Stat(i) \/ Purge(i) \/ StatForGet(i) \/ Read(i)
           \/ Unlink(i) \/ CleanedUp(i)
  <2>1. worker'[i] \notin {"tell_read", "read", "tell_missing"}
    BY <1>4 DEF Reject, SetUp, MkdirAll, OpenForPut, PutFails, Write,
       WriteStopsEarly, Sync, Stat, Purge, StatForGet, Read, Unlink, CleanedUp,
       Does, Answers, TypeOK
  <2>. QED  BY <2>1 DEF GetProgress
<1>5. CASE WriteSome(i)
  BY <1>5, StepKinds DEF WriteSome, TypeOK
<1>6. CASE Look(i) \/ Rmdir(i) \/ Readdir(i) \/ StatAll(i)
  BY <1>6, StepKinds DEF Look, Rmdir, Readdir, StatAll, Does, Answers, TypeOK
<1>7. CASE DiskFails(i)
  <2>1. worker'[i] \in {"answer", "tell_find"}
    BY <1>7 DEF DiskFails, StatForGetFails, GetFails, DeleteFails, ListFails, Does,
       Answers, TypeOK
  <2>. QED  BY <2>1 DEF GetProgress
<1>. QED  BY <1>2, <1>3, <1>4, <1>5, <1>6, <1>7 DEF WorkerStep, DiskFails

LEMMA ListProgressStep ==
  ASSUME IInv, NEW i \in Call, StepFits(i), WorkerStep(i)
  PROVE  ListProgress(i)'
<1>. USE DEF IInv
<1>1. UNCHANGED <<key, kind>> /\ key[i] \in Key
  BY WorkerFrame DEF TypeOK
<1>. SUFFICES ASSUME kind[i] = "list", worker'[i] = "tell_missing"
              PROVE  ~Exists(Path[key[i]])'
  BY <1>1 DEF ListProgress
<1>2. CASE Readdir(i)
  <2>1. ~Exists(Path[key[i]]) /\ UNCHANGED tree
    BY <1>2 DEF Readdir, Does, disk, TypeOK
  <2>. QED  BY <1>1, <2>1 DEF Exists
<1>3. CASE Log(i)
  <2>1. worker[i] \in DOMAIN AfterLog /\ worker'[i] = AfterLog[worker[i]]
    BY <1>3 DEF Log, Does, TypeOK
  <2>. QED  BY <2>1 DEF AfterLog
<1>4. CASE OpenForGet(i) \/ WriteSome(i)
  BY <1>4, StepKinds DEF OpenForGet, WriteSome, Does, TypeOK
<1>5. CASE Reject(i) \/ SetUp(i) \/ MkdirAll(i) \/ OpenForPut(i) \/ PutFails(i) \/ Write(i)
           \/ WriteStopsEarly(i) \/ Sync(i) \/ Stat(i) \/ Purge(i)
  BY <1>5 DEF Reject, SetUp, MkdirAll, OpenForPut, PutFails, Write, WriteStopsEarly,
     Sync, Stat, Purge, Does, Answers, TypeOK
<1>6. CASE StatForGet(i) \/ Read(i) \/ Unlink(i) \/ CleanedUp(i) \/ Look(i) \/ Rmdir(i)
           \/ StatAll(i) \/ DiskFails(i)
  BY <1>6 DEF StatForGet, Read, Unlink, CleanedUp, Look, Rmdir, StatAll, DiskFails,
     StatForGetFails, GetFails, DeleteFails, ListFails, Does, Answers, TypeOK
<1>. QED  BY <1>2, <1>3, <1>4, <1>5, <1>6 DEF WorkerStep, DiskFails

LEMMA RmdirReadyStep ==
  ASSUME IInv, NEW i \in Call, WorkerStep(i)
  PROVE  RmdirReady(i)'
<1>. USE DEF IInv
<1>1. UNCHANGED <<key, kind>> /\ key[i] \in Key
  BY WorkerFrame DEF TypeOK
<1>. SUFFICES ASSUME worker'[i] = "rmdir"
              PROVE  Exists(Here(i))' /\ Names(Here(i))' = {}
  BY DEF RmdirReady
<1>2. CASE Look(i)
  <2>1. /\ Exists(Here(i)) /\ Names(Here(i)) = {}
        /\ UNCHANGED <<node, tree, entry>>
    BY <1>2 DEF Look, Does, disk, TypeOK
  <2>. QED  BY <1>1, <2>1 DEF Exists, Names, Here, Ancestor
<1>3. CASE Log(i)
  <2>1. worker[i] \in DOMAIN AfterLog /\ worker'[i] = AfterLog[worker[i]]
    BY <1>3 DEF Log, Does, TypeOK
  <2>. QED  BY <2>1, AfterLogSteps
<1>4. CASE WriteSome(i)
  BY <1>4 DEF WriteSome
<1>5. CASE Reject(i) \/ SetUp(i) \/ MkdirAll(i) \/ OpenForPut(i) \/ PutFails(i) \/ Write(i)
           \/ WriteStopsEarly(i) \/ Sync(i) \/ Stat(i) \/ Purge(i)
  BY <1>5 DEF Reject, SetUp, MkdirAll, OpenForPut, PutFails, Write, WriteStopsEarly,
     Sync, Stat, Purge, Does, Answers, TypeOK
<1>6. CASE StatForGet(i) \/ OpenForGet(i) \/ Read(i) \/ Unlink(i) \/ CleanedUp(i) \/ Rmdir(i)
           \/ Readdir(i) \/ StatAll(i) \/ DiskFails(i)
  BY <1>6 DEF StatForGet, OpenForGet, Read, Unlink, CleanedUp, Rmdir, Readdir,
     StatAll, DiskFails, StatForGetFails, GetFails, DeleteFails, ListFails, Does,
     Answers, TypeOK
<1>. QED  BY <1>2, <1>3, <1>4, <1>5, <1>6 DEF WorkerStep, DiskFails

-----------------------------------------------------------------------------
(* The other workers.  One that writes has none beside it; a List leaves   *)
(* the disk alone, and so does a Get, but for a file that is no entry.     *)

LEMMA ReaderLeavesDisk ==
  ASSUME IInv, NEW i \in Call, StepFits(i), WorkerStep(i), kind[i] \in {"get", "list"}
  PROVE  \/ UNCHANGED disk
         \/ Purge(i) /\ kind[i] = "get"
<1>. USE DEF IInv
<1>1. CASE Log(i) \/ Reject(i) \/ SetUp(i) \/ PutFails(i) \/ WriteStopsEarly(i) \/ Sync(i)
           \/ Stat(i) \/ StatForGet(i) \/ OpenForGet(i) \/ Read(i) \/ CleanedUp(i) \/ Look(i)
           \/ Readdir(i) \/ StatAll(i) \/ DiskFails(i)
  BY <1>1 DEF Log, Reject, SetUp, PutFails, WriteStopsEarly, Sync, Stat, StatForGet,
     OpenForGet, Read, CleanedUp, Look, Readdir, StatAll, DiskFails,
     StatForGetFails, GetFails, DeleteFails, ListFails
<1>2. CASE MkdirAll(i) \/ OpenForPut(i) \/ WriteSome(i) \/ Write(i) \/ Unlink(i) \/ Rmdir(i)
  BY <1>2, StepKinds DEF MkdirAll, OpenForPut, WriteSome, Write, Unlink, Rmdir,
     Does, Answers, TypeOK
<1>3. CASE Purge(i)
  BY <1>3, StepKinds DEF Purge, Does, TypeOK
<1>. QED  BY <1>1, <1>2, <1>3 DEF WorkerStep, DiskFails

LEMMA PurgedBeside ==
  ASSUME IInv, NEW j \in Call, WorkerInv(j), kind[j] \in {"get", "list"},
         NEW k \in Key, NoEntry(k), entry' = [entry EXCEPT ![k] = None],
         UNCHANGED <<tree, data, kind, key>>,
         worker'[j] = worker[j], node'[j] = node[j], outcome'[j] = outcome[j], file'[j] = file[j]
  PROVE  WorkerInv(j)'
<1>. USE DEF IInv, WorkerInv
<1>1. key[j] \in Key /\ \A h \in Key : entry'[h] = IF h = k THEN None ELSE entry[h]
  BY DEF TypeOK
<1>2. StepFits(j)' /\ RejectedFirst(j)'
  BY DEF StepFits, RejectedFirst, Rejected
<1>3. OutcomeOpen(j)'
  <2>1. Names(Path[key[j]])' \subseteq Names(Path[key[j]])
    BY <1>1 DEF Names
  <2>. QED  BY <2>1 DEF OutcomeOpen
<1>4. PutProgress(j)' /\ RmdirReady(j)'
  BY StepKinds DEF PutProgress, PutWorks, RmdirReady, TypeOK
<1>5. GetProgress(j)'
  <2>. SUFFICES ASSUME kind[j] = "get"
                PROVE  GetProgress(j)'
    BY DEF GetProgress
  <2>1. worker[j] = "tell_missing" => entry'[key[j]] = None
    BY <1>1 DEF GetProgress
  <2>2. ASSUME worker[j] \in {"tell_read", "read"}
        PROVE  entry'[key[j]] = file[j] \/ (entry'[key[j]] = None /\ data[file[j]] \notin Call)
    <3>1. file[j] # None
      BY <2>2 DEF WorkersReady
    <3>2. entry[key[j]] = file[j] \/ (entry[key[j]] = None /\ data[file[j]] \notin Call)
      BY <2>2 DEF GetProgress
    <3>. QED  BY <1>1, <3>1, <3>2 DEF NoEntry
  <2>. QED  BY <2>1, <2>2 DEF GetProgress
<1>6. ListProgress(j)'
  BY DEF ListProgress, Exists
<1>. QED  BY <1>2, <1>3, <1>4, <1>5, <1>6

LEMMA OtherWorkers ==
  ASSUME Sound, IInv, AloneInv, FInv, NEW i \in Call, WorkerStep(i),
         NEW j \in Outstanding, j # i
  PROVE  /\ kind[i] \in {"get", "list"} /\ kind[j] \in {"get", "list"}
         /\ WorkerInv(j)'
<1>. USE DEF IInv
<1>1. i \in Outstanding /\ j \in Call
  BY WorkerMoves DEF Outstanding, Moving
<1>2. StepFits(i) /\ WorkerInv(j) /\ StepFits(j)
  BY <1>1 DEF FInv, WorkerInv
<1>3. ~Writes(i) /\ ~Writes(j)
  BY <1>1, NoCancelAlone DEF WriterAlone, Sound
<1>4. kind[i] \in {"get", "list"} /\ kind[j] \in {"get", "list"}
  BY <1>1, <1>2, <1>3, StepKinds DEF Writes, Kind, TypeOK
<1>5. /\ UNCHANGED <<kind, key, blank>>
      /\ worker'[j] = worker[j] /\ node'[j] = node[j] /\ outcome'[j] = outcome[j]
      /\ file'[j] = file[j]
  <2>1. UNCHANGED <<kind, key, blank>>
    BY WorkerMoves DEF clients, asked
  <2>2. worker'[j] = worker[j] /\ node'[j] = node[j] /\ outcome'[j] = outcome[j]
    BY <1>1, WorkerFrame
  <2>3. file' = file \/ \E n : file' = [file EXCEPT ![i] = n]
    <3>1. CASE Log(i) \/ Reject(i) \/ SetUp(i) \/ MkdirAll(i) \/ PutFails(i) \/ WriteSome(i)
               \/ Write(i) \/ WriteStopsEarly(i) \/ Sync(i) \/ Stat(i) \/ Purge(i)
      BY <3>1 DEF Log, Reject, SetUp, MkdirAll, PutFails, WriteSome, Write,
         WriteStopsEarly, Sync, Stat, Purge
    <3>2. CASE StatForGet(i) \/ Read(i) \/ Unlink(i) \/ CleanedUp(i) \/ Look(i) \/ Rmdir(i)
               \/ Readdir(i) \/ StatAll(i) \/ DiskFails(i)
      BY <3>2 DEF StatForGet, Read, Unlink, CleanedUp, Look, Rmdir, Readdir,
         StatAll, DiskFails, StatForGetFails, GetFails, DeleteFails, ListFails
    <3>3. CASE OpenForPut(i) \/ OpenForGet(i)
      BY <3>3 DEF OpenForPut, OpenForGet
    <3>. QED  BY <3>1, <3>2, <3>3 DEF WorkerStep, DiskFails
  <2>4. file'[j] = file[j]
    BY <1>1, <2>3 DEF TypeOK
  <2>. QED  BY <2>1, <2>2, <2>4
<1>6. CASE UNCHANGED disk
  BY <1>1, <1>2, <1>4, <1>5, <1>6, SameWorker
<1>7. CASE Purge(i) /\ kind[i] = "get"
  <2>1. NoEntry(key[i]) /\ key[i] \in Key
    BY <1>7 DEF Purge, Does, AloneInv, SawEmpty, TypeOK
  <2>2. entry' = [entry EXCEPT ![key[i]] = None] /\ UNCHANGED <<tree, data>>
    BY <1>7 DEF Purge
  <2>. QED  BY <1>1, <1>2, <1>4, <1>5, <2>1, <2>2, PurgedBeside
<1>. QED  BY <1>2, <1>4, <1>6, <1>7, ReaderLeavesDisk
-----------------------------------------------------------------------------
(* A step of a worker.                                                     *)

LEMMA TreeHoldsStep ==
  ASSUME IInv, TreeHolds, NEW i \in Call, WorkerStep(i)
  PROVE  TreeHolds'
<1>. USE DEF IInv
<1>1. UNCHANGED <<key, kind>> /\ key[i] \in Key
  BY WorkerFrame DEF TypeOK
<1>2. ASSUME NEW n, tree \subseteq tree', entry' = entry \/ entry' = [entry EXCEPT ![key[i]] = n],
             n = None \/ Exists(Path[key[i]])
      PROVE  TreeHolds'
  BY <1>1, <1>2 DEF TreeHolds, Exists, TypeOK
<1>3. CASE Log(i) \/ Reject(i) \/ SetUp(i) \/ PutFails(i) \/ WriteStopsEarly(i) \/ Sync(i)
           \/ Stat(i) \/ StatForGet(i) \/ OpenForGet(i) \/ Read(i) \/ CleanedUp(i) \/ Look(i)
           \/ Readdir(i) \/ StatAll(i) \/ DiskFails(i)
  <2>1. UNCHANGED disk
    BY <1>3 DEF Log, Reject, SetUp, PutFails, WriteStopsEarly, Sync, Stat,
       StatForGet, OpenForGet, Read, CleanedUp, Look, Readdir, StatAll, DiskFails,
       StatForGetFails, GetFails, DeleteFails, ListFails
  <2>. QED  BY <2>1 DEF disk, TreeHolds, Exists
<1>4. CASE MkdirAll(i) \/ WriteSome(i) \/ Write(i)
  <2>1. tree \subseteq tree' /\ entry' = entry
    BY <1>4 DEF MkdirAll, WriteSome, Write
  <2>. QED  BY <1>2, <2>1
<1>5. CASE OpenForPut(i)
  <2>1. /\ Exists(Path[key[i]]) /\ tree' = tree
        /\ \E n : entry' = [entry EXCEPT ![key[i]] = n]
    BY <1>5 DEF OpenForPut
  <2>. QED  BY <1>2, <2>1
<1>6. CASE Purge(i) \/ Unlink(i)
  <2>1. tree' = tree /\ entry' = [entry EXCEPT ![key[i]] = None]
    BY <1>6 DEF Purge, Unlink
  <2>. QED  BY <1>2, <2>1
<1>7. CASE Rmdir(i)
  <2>1. /\ entry' = entry
        /\ tree' = tree \/ (tree' = tree \ {Here(i)} /\ Names(Here(i)) = {})
    BY <1>7 DEF Rmdir
  <2>2. \A k \in Key : entry[k] # None => Path[k] \in Names(Here(i)) \/ k \in Names(Path[k])
    BY DEF Names
  <2>. QED  BY <2>1, <2>2 DEF TreeHolds, Exists
<1>. QED  BY <1>3, <1>4, <1>5, <1>6, <1>7 DEF WorkerStep, DiskFails

LEMMA WorkerFInv ==
  ASSUME Sound, IInv, AloneInv, FInv, NEW i \in Call, WorkerStep(i)
  PROVE  FInv'
<1>. USE DEF IInv
<1>1. /\ UNCHANGED <<issued, call, pc, kind, key>>
      /\ i \in Outstanding /\ i <= issued
      /\ \A j \in Call : j # i => worker'[j] = worker[j] /\ outcome'[j] = outcome[j]
      /\ worker[i] \notin {"off", "gone", "leaked"}
  <2>1. UNCHANGED <<issued, call, pc, kind, key>> /\ Moving(worker[i])
    BY WorkerMoves DEF clients, asked
  <2>2. \A j \in Call : j # i => worker'[j] = worker[j] /\ outcome'[j] = outcome[j]
    BY WorkerFrame
  <2>3. worker[i] \notin {"off", "gone", "leaked"}
    BY <2>1 DEF Moving
  <2>4. i <= issued
    BY <2>3, StorageAssumption DEF UnissuedUntouched, TypeOK, Call
  <2>. QED  BY <2>1, <2>2, <2>3, <2>4 DEF Outstanding
<1>2. WorkerInv(i)
  BY <1>1 DEF FInv
<1>3. CallPlaces'
  BY <1>1 DEF FInv, CallPlaces, CallsIssued
<1>4. CallsDistinct' /\ FreshOutcome'
  <2>1. \A j \in Call : j > issued => j # i
    BY <1>1, StorageAssumption DEF TypeOK, Call
  <2>. QED  BY <1>1, <2>1 DEF FInv, CallsDistinct, FreshOutcome
<1>5. TreeHolds' /\ BadKeysEmpty'
  BY <1>2, TreeHoldsStep, BadKeysStep DEF FInv, WorkerInv
<1>6. WorkerInv(i)'
  BY <1>2, StepFitsStep, OutcomeOpenStep, PutProgressStep, GetProgressStep, ListProgressStep,
     RmdirReadyStep, RejectedFirstStep DEF WorkerInv
<1>7. ASSUME NEW j \in Call, j # i, worker'[j] \notin {"off", "gone", "leaked"}
      PROVE  WorkerInv(j)'
  BY <1>1, <1>7, OtherWorkers DEF Outstanding
<1>8. \A j \in Outstanding' : j \in Call /\ worker'[j] \notin {"off", "gone", "leaked"}
  BY DEF Outstanding
<1>. QED  BY <1>3, <1>4, <1>5, <1>6, <1>7, <1>8 DEF FInv
-----------------------------------------------------------------------------
(* A step of a client, or a crash.                                         *)

(* A worker is where it was, is over, or has just been started. *)
Kept(i) ==
  /\ worker'[i] = worker[i] /\ node'[i] = node[i] /\ outcome'[i] = outcome[i]
  /\ kind'[i] = kind[i] /\ key'[i] = key[i] /\ blank'[i] = blank[i] /\ file'[i] = file[i]

Started(i) == kind'[i] \in Kind /\ worker'[i] = FirstStep[kind'[i]] /\ outcome'[i] = Done

LEMMA OthersKeep ==
  ASSUME FInv, UNCHANGED disk,
         \A i \in Call : Kept(i) \/ worker'[i] \in {"off", "gone", "leaked"} \/ Started(i)
  PROVE  /\ TreeHolds' /\ BadKeysEmpty'
         /\ \A i \in Outstanding' : WorkerInv(i)'
<1>1. TreeHolds' /\ BadKeysEmpty'
  BY DEF FInv, TreeHolds, BadKeysEmpty, Exists, disk
<1>2. ASSUME NEW i \in Call, worker'[i] \notin {"off", "gone", "leaked"}
      PROVE  WorkerInv(i)'
  <2>1. CASE Kept(i)
    <3>1. WorkerInv(i)
      BY <1>2, <2>1 DEF FInv, Outstanding, Kept
    <3>. QED  BY <2>1, <3>1, SameWorker DEF Kept
  <2>2. CASE Started(i)
    BY <2>2, FreshWorker DEF Started
  <2>. QED  BY <1>2, <2>1, <2>2
<1>3. \A j \in Outstanding' : j \in Call /\ worker'[j] \notin {"off", "gone", "leaked"}
  BY DEF Outstanding
<1>. QED  BY <1>1, <1>2, <1>3

LEMMA AskFInv ==
  ASSUME IInv, FInv, NEW c \in Client, Invoke(c) \/ Refuse(c) \/ CallInit(c)
  PROVE  FInv'
<1>. USE DEF IInv
<1>. DEFINE n == issued'
<1>1. /\ pc[c] = "idle" /\ n = issued + 1 /\ n \in Call
      /\ \A i \in Call : i # n => kind'[i] = kind[i] /\ key'[i] = key[i] /\ blank'[i] = blank[i]
      /\ Invoke(c) => kind'[n] \in Kind \ {"init"}
  <2>1. CASE Invoke(c) \/ Refuse(c)
    <3>1. Asks(c)
      BY <2>1 DEF Invoke, Refuse
    <3>2. \E b : blank' = [blank EXCEPT ![n] = b]
      BY <3>1 DEF Asks
    <3>3. \A i \in Call : i # n => blank'[i] = blank[i]
      BY <3>1, <3>2, AsksNext DEF TypeOK
    <3>. QED  BY <3>1, <3>3, AsksNext
  <2>2. CASE CallInit(c)
    BY <2>2, StorageAssumption DEF Invoke, CallInit, Goes, TypeOK, Call, Asks
  <2>. QED  BY <2>1, <2>2
<1>2. /\ UNCHANGED <<worker, node, file, disk>>
      /\ outcome' = outcome \/ outcome' = [outcome EXCEPT ![n] = Failed]
  BY DEF Invoke, Refuse, CallInit
<1>3. \/ Invoke(c) /\ call' = [call EXCEPT ![c] = n] /\ pc' = [pc EXCEPT ![c] = "acquire"]
         /\ outcome' = outcome
      \/ call' = [call EXCEPT ![c] = n] /\ pc' = [pc EXCEPT ![c] = "lock"] /\ outcome' = outcome
      \/ call' = call /\ pc' = pc
  BY DEF Invoke, Refuse, CallInit, Goes
<1>. HIDE DEF n
<1>4. worker[n] = "off" /\ outcome[n] = Done /\ n \in Nat /\ issued \in Nat
  BY <1>1, StorageAssumption DEF UnissuedUntouched, FInv, FreshOutcome, TypeOK
<1>5. \A i \in Call : i # n => outcome'[i] = outcome[i]
  BY <1>2 DEF TypeOK
<1>6. \A d \in Client : pc[d] # "idle" => call[d] \in Call /\ call[d] # n
  BY <1>1, <1>4, StorageAssumption DEF CallsIssued, Call
<1>7. /\ \A d \in Client : d # c => pc'[d] = pc[d] /\ call'[d] = call[d]
      /\ pc'[c] = "idle" \/ (call'[c] = n /\ outcome' = outcome
                             /\ (pc'[c] = "lock" \/ (pc'[c] = "acquire" /\ Invoke(c))))
  BY <1>1, <1>3 DEF TypeOK
<1>8. CallPlaces'
  <2>1. ASSUME NEW d \in Client, d # c, pc[d] # "idle"
        PROVE  /\ pc'[d] = pc[d] /\ call'[d] = call[d] /\ kind'[call[d]] = kind[call[d]]
               /\ worker'[call[d]] = worker[call[d]] /\ outcome'[call[d]] = outcome[call[d]]
    BY <1>1, <1>2, <1>5, <1>6, <1>7, <2>1
  <2>2. \A d \in Client : d # c => pc'[d] = pc[d]
    BY <1>7
  <2>3. pc'[c] # "idle" =>
            /\ call'[c] = n /\ worker'[n] = "off" /\ outcome'[n] = Done
            /\ pc'[c] = "lock" \/ (pc'[c] = "acquire" /\ kind'[n] # "init")
    BY <1>1, <1>2, <1>4, <1>7
  <2>. SUFFICES ASSUME NEW d \in Client
                PROVE  /\ pc'[d] \in {"acquire", "lock"} =>
                            worker'[call'[d]] = "off" /\ outcome'[call'[d]] = Done
                       /\ pc'[d] \in {"unlock", "release"} /\ kind'[call'[d]] # "init" =>
                            worker'[call'[d]] \in {"gone", "leaked"}
                       /\ pc'[d] \in {"acquire", "release"} => kind'[call'[d]] # "init"
    BY DEF CallPlaces
  <2>4. CASE d = c
    BY <2>3, <2>4
  <2>5. CASE d # c
    <3>1. CASE pc[d] = "idle"
      BY <2>2, <2>5, <3>1
    <3>2. CASE pc[d] # "idle"
      BY <2>1, <2>5, <3>2 DEF FInv, CallPlaces
    <3>. QED  BY <3>1, <3>2
  <2>. QED  BY <2>4, <2>5
<1>9. CallsDistinct'
  BY <1>6, <1>7 DEF FInv, CallsDistinct
<1>10. FreshOutcome'
  <2>1. \A i \in Call : i > issued' => i > issued /\ i # n
    BY <1>1, <1>4 DEF Call, n
  <2>. QED  BY <1>5, <2>1 DEF FInv, FreshOutcome
<1>11. \A i \in Call : Kept(i) \/ worker'[i] \in {"off", "gone", "leaked"}
  BY <1>1, <1>2, <1>4, <1>5 DEF Kept
<1>. QED  BY <1>2, <1>8, <1>9, <1>10, <1>11, OthersKeep DEF FInv

LEMMA ClientFInv ==
  ASSUME Sound, IInv, FInv, NEW c \in Client, ClientStep(c)
  PROVE  FInv'
<1>. USE DEF IInv
<1>. DEFINE n == call[c]
<1>1. /\ UNCHANGED <<issued, asked, node, file, outcome, disk>>
      /\ pc[c] # "idle"
      /\ \A d \in Client : d # c => pc'[d] = pc[d] /\ call'[d] = call[d]
      /\ pc'[c] # "idle" => call'[c] = n
  BY DEF ClientStep, Acquire, Lock, Answered, Initialized, Cancelled, Unlock,
     Release, Goes, TypeOK
<1>2. n \in Call /\ n <= issued /\ kind[n] \in Kind
  BY <1>1 DEF CallsIssued
<1>. HIDE DEF n
<1>3. \/ worker' = worker /\ (Acquire(c) \/ Unlock(c) \/ Release(c))
      \/ worker' = [worker EXCEPT ![n] = worker'[n]] /\ Lock(c)
         /\ worker'[n] \in {"gone", FirstStep[kind[n]]}
      \/ worker' = [worker EXCEPT ![n] = worker'[n]] /\ (Answered(c) \/ Initialized(c))
         /\ worker'[n] \in {"gone", "leaked"}
  BY <1>2 DEF ClientStep, Acquire, Lock, StartWorker, Answered, Initialized,
     Cancelled, Unlock, Release, TypeOK, n, Sound
<1>4. \A i \in Call : i # n => worker'[i] = worker[i]
  BY <1>2, <1>3 DEF TypeOK
<1>5. \A d \in Client : d # c /\ pc[d] # "idle" => call[d] # n
  BY <1>1 DEF FInv, CallsDistinct, n
<1>6. /\ pc'[c] \in {"acquire", "lock"} => worker' = worker /\ pc[c] = "acquire" /\ pc'[c] = "lock"
      /\ pc'[c] \in {"unlock", "release"} /\ kind[n] # "init" =>
           worker'[n] \in {"gone", "leaked"}
      /\ pc'[c] = "release" => kind[n] # "init"
  <2>1. CASE Acquire(c) \/ Release(c)
    BY <2>1 DEF Acquire, Release, Goes, TypeOK
  <2>2. CASE Unlock(c)
    <3>1. /\ pc[c] = "unlock" /\ worker' = worker
          /\ pc'[c] \in {"idle", "release"} /\ (pc'[c] = "release" => kind[n] # "init")
      BY <2>2 DEF Unlock, Goes, TypeOK, n
    <3>. QED  BY <3>1 DEF FInv, CallPlaces, n
  <2>3. CASE Lock(c)
    BY <2>3 DEF Lock, Goes, TypeOK
  <2>4. CASE Answered(c) \/ Initialized(c)
    <3>1. pc'[c] = "unlock"
      BY <2>4 DEF Answered, Initialized, Goes, TypeOK
    <3>2. worker'[n] \in {"gone", "leaked"}
      BY <1>2, <2>4 DEF Answered, Initialized, TypeOK, n
    <3>. QED  BY <3>1, <3>2
  <2>. QED  BY <1>3, <2>1, <2>2, <2>3, <2>4
<1>7. CallPlaces'
  <2>. SUFFICES ASSUME NEW d \in Client
                PROVE  /\ pc'[d] \in {"acquire", "lock"} =>
                            worker'[call'[d]] = "off" /\ outcome'[call'[d]] = Done
                       /\ pc'[d] \in {"unlock", "release"} /\ kind'[call'[d]] # "init" =>
                            worker'[call'[d]] \in {"gone", "leaked"}
                       /\ pc'[d] \in {"acquire", "release"} => kind'[call'[d]] # "init"
    BY DEF CallPlaces
  <2>1. kind' = kind /\ outcome' = outcome
    BY <1>1 DEF asked
  <2>2. CASE d = c
    <3>1. pc[c] = "acquire" => worker[n] = "off" /\ outcome[n] = Done
      BY DEF FInv, CallPlaces, n
    <3>. QED  BY <1>1, <1>6, <2>1, <2>2, <3>1
  <2>3. CASE d # c
    <3>1. pc'[d] = pc[d] /\ call'[d] = call[d]
      BY <1>1, <2>3
    <3>2. pc[d] # "idle" => call[d] \in Call /\ call[d] # n
      BY <1>5, <2>3 DEF CallsIssued
    <3>. QED  BY <1>4, <2>1, <3>1, <3>2 DEF FInv, CallPlaces
  <2>. QED  BY <2>2, <2>3
<1>8. CallsDistinct'
  BY <1>1, <1>5 DEF FInv, CallsDistinct, n
<1>9. FreshOutcome'
  BY <1>1 DEF FInv, FreshOutcome
<1>10. Kept(n) \/ worker'[n] \in {"off", "gone", "leaked"} \/ Started(n)
  <2>1. CASE worker' = worker
    BY <1>1, <2>1 DEF Kept, asked
  <2>2. CASE Lock(c)
    <3>1. outcome[n] = Done
      BY <2>2 DEF Lock, Goes, FInv, CallPlaces, n
    <3>. QED  BY <1>1, <1>2, <1>3, <2>2, <3>1 DEF Started, Lock, Acquire, Unlock,
                 Release, Answered, Initialized, Goes, asked
  <2>3. CASE Answered(c) \/ Initialized(c)
    BY <1>3, <2>1, <2>2, <2>3
  <2>. QED  BY <1>3, <2>1, <2>2, <2>3
<1>11. \A i \in Call : Kept(i) \/ worker'[i] \in {"off", "gone", "leaked"} \/ Started(i)
  BY <1>1, <1>4, <1>10 DEF Kept, asked
<1>. QED  BY <1>1, <1>7, <1>8, <1>9, <1>11, OthersKeep DEF FInv

LEMMA CrashFInv ==
  ASSUME IInv, FInv, Crash
  PROVE  FInv'
<1>1. /\ pc' = [c \in Client |-> "idle"] /\ worker' = [i \in Call |-> "off"]
      /\ outcome' = [i \in Call |-> Done] /\ UNCHANGED disk
  BY DEF Crash
<1>2. CallPlaces' /\ CallsDistinct' /\ FreshOutcome'
  BY <1>1 DEF CallPlaces, CallsDistinct, FreshOutcome
<1>3. \A i \in Call : worker'[i] \in {"off", "gone", "leaked"}
  BY <1>1
<1>. QED  BY <1>1, <1>2, <1>3, OthersKeep DEF FInv

LEMMA InitFInv == Init => FInv
  BY StorageAssumption DEF Init, FInv, CallPlaces, CallsDistinct, FreshOutcome,
     TreeHolds, BadKeysEmpty, Outstanding

LEMMA NextFInv ==
  ASSUME Sound, IInv, AloneInv, FInv, [Next]_vars
  PROVE  FInv'
<1>1. CASE UNCHANGED vars
  <2>1. \A i \in Call : Kept(i)
    BY <1>1 DEF vars, asked, Kept
  <2>2. UNCHANGED disk
    BY <1>1 DEF vars
  <2>3. CallPlaces' /\ CallsDistinct' /\ FreshOutcome'
    BY <1>1 DEF vars, asked, FInv, CallPlaces, CallsDistinct, FreshOutcome
  <2>. QED  BY <2>1, <2>2, <2>3, OthersKeep DEF FInv
<1>2. \A c \in Client : ~Cancelled(c)
  BY DEF Sound, Cancelled
<1>. QED  BY <1>1, <1>2, WorkerFInv, AskFInv, ClientFInv, CrashFInv DEF Next

(* What the workers rely on holds in every reachable state (file.go:91-282,*)
(* internal.go:21-300).                                                    *)
THEOREM BlobStoreInvariant ==
  ASSUME Sound
  PROVE  Spec => []FInv
<1>1. "cancel" \notin Faults
  BY DEF Sound
<1>2. Spec => []AloneInv
  BY <1>1, StorageAlone
<1>3. IInv /\ AloneInv /\ FInv /\ [Next]_vars => FInv'
  BY NextFInv
<1>. QED  BY InitFInv, <1>2, <1>3, StorageInvariant, PTL DEF Spec
-----------------------------------------------------------------------------
(* The map behind the state: what is stored.                               *)

(* What is on the disk under a key. *)
DiskValue(k) ==
  IF entry[k] = None THEN None
  ELSE IF data[entry[k]] \in Call THEN data[entry[k]]
  ELSE -1

(* At most one Put is at work. *)
LEMMA PutAlone ==
  ASSUME IInv, NEW i \in Call, NEW j \in Call, PutWorks(i), PutWorks(j)
  PROVE  i = j
<1>1. kind[i] = "put" /\ kind[j] = "put" /\ i \in Outstanding /\ j \in Outstanding
  BY DEF PutWorks, Outstanding
<1>2. Held(i) /\ Held(j) /\ Writes(i)
  BY <1>1 DEF IInv, WorkersHeld, Writes
<1>. QED  BY <1>1, <1>2, HeldExcludes DEF Outstanding

LEMMA StoredNow ==
  ASSUME NEW i \in Call, \A j \in Call : PutWorks(j) => j = i, NEW k \in Key
  PROVE  StoredUnder(k) = IF PutWorks(i) /\ key[i] = k THEN PutValue(i) ELSE DiskValue(k)
<1>1. CASE PutWorks(i) /\ key[i] = k
  <2>. DEFINE j == CHOOSE n \in Call : PutWorks(n) /\ key[n] = k
  <2>1. j = i
    BY <1>1
  <2>2. StoredUnder(k) = PutValue(j)
    BY <1>1 DEF StoredUnder
  <2>. QED  BY <1>1, <2>1, <2>2
<1>2. CASE ~(PutWorks(i) /\ key[i] = k)
  BY <1>2 DEF StoredUnder, DiskValue
<1>. QED  BY <1>1, <1>2

LEMMA StoredNext ==
  ASSUME NEW i \in Call, \A j \in Call : PutWorks(j)' => j = i, NEW k \in Key
  PROVE  StoredUnder(k)' = IF PutWorks(i)' /\ key'[i] = k THEN PutValue(i)' ELSE DiskValue(k)'
<1>1. CASE PutWorks(i)' /\ key'[i] = k
  <2>. DEFINE j == CHOOSE n \in Call : PutWorks(n)' /\ key'[n] = k
  <2>1. j = i
    BY <1>1
  <2>2. StoredUnder(k)' = IF kind'[j] = "put" /\ ~blank'[j] THEN j ELSE None
    BY <1>1 DEF StoredUnder, PutValue
  <2>3. PutValue(i)' = IF kind'[i] = "put" /\ ~blank'[i] THEN i ELSE None
    BY DEF PutValue
  <2>. QED  BY <1>1, <2>1, <2>2, <2>3
<1>2. CASE ~(PutWorks(i)' /\ key'[i] = k)
  BY <1>2 DEF StoredUnder, DiskValue
<1>. QED  BY <1>1, <1>2

StoreStays == \A k \in Key : StoredUnder(k)' = StoredUnder(k)

(* A step of a client keeps the map. *)
LEMMA ClientStore ==
  ASSUME IInv, UNCHANGED <<entry, data>>,
         \A j \in Call : PutWorks(j)' <=> PutWorks(j),
         \A j \in Call : PutWorks(j) => key'[j] = key[j] /\ PutValue(j)' = PutValue(j)
  PROVE  StoreStays
<1>1. \A k \in Key : DiskValue(k)' = DiskValue(k)
  BY DEF DiskValue
<1>2. CASE \E i \in Call : PutWorks(i)
  <2>1. PICK i \in Call : PutWorks(i)
    BY <1>2
  <2>2. \A j \in Call : PutWorks(j) => j = i
    BY <2>1, PutAlone
  <2>. QED  BY <1>1, <2>1, <2>2, StoredNow, StoredNext DEF StoreStays
<1>3. CASE ~ \E i \in Call : PutWorks(i)
  BY <1>1, <1>3 DEF StoreStays, StoredUnder, DiskValue
<1>. QED  BY <1>2, <1>3

(* Beside a worker that takes a step no Put is at work. *)
LEMMA WorkerStore ==
  ASSUME Sound, IInv, AloneInv, FInv, NEW i \in Call, WorkerStep(i), NEW k \in Key
  PROVE  /\ StoredUnder(k) = IF PutWorks(i) /\ key[i] = k THEN PutValue(i) ELSE DiskValue(k)
         /\ StoredUnder(k)' = IF PutWorks(i)' /\ key[i] = k THEN PutValue(i) ELSE DiskValue(k)'
<1>1. UNCHANGED <<kind, key, blank>>
  BY WorkerMoves DEF IInv, clients, asked
<1>2. \A j \in Call : PutWorks(j) => j = i
  BY OtherWorkers DEF PutWorks, Outstanding
<1>3. \A j \in Call : PutWorks(j)' => j = i
  <2>1. \A j \in Call : j # i => worker'[j] = worker[j]
    BY WorkerFrame DEF IInv
  <2>. QED  BY <1>1, <1>2, <2>1 DEF PutWorks
<1>4. PutValue(i)' = PutValue(i)
  BY <1>1 DEF PutValue
<1>. QED  BY <1>1, <1>2, <1>3, <1>4, StoredNow, StoredNext
-----------------------------------------------------------------------------
(* ... and what the clients ask for.                                       *)

LEMMA RequestNow ==
  ASSUME NEW c \in Client, NEW i, call[c] = i
  PROVE  RequestOf(c) = IF pc[c] = "idle" \/ kind[i] = "init" THEN [kind |-> "none"]
                        ELSE Request(i)
  BY DEF RequestOf

LEMMA RequestNext ==
  ASSUME NEW c \in Client, NEW i, call'[c] = i
  PROVE  RequestOf(c)' = IF pc'[c] = "idle" \/ kind'[i] = "init" THEN [kind |-> "none"]
                         ELSE Request(i)'
  BY DEF RequestOf

LEMMA RequestStays ==
  ASSUME NEW i \in Call, kind'[i] = kind[i], key'[i] = key[i], blank'[i] = blank[i],
         TakenEffect(i)' <=> TakenEffect(i), TakenEffect(i) => outcome'[i] = outcome[i],
         Disturbed(i)' <=> Disturbed(i)
  PROVE  Request(i)' = Request(i)
<1>1. PutValue(i)' = PutValue(i)
  BY DEF PutValue
<1>2. TakenEffect(i) => Seen(i)' = Seen(i)
  BY DEF Seen, Writes
<1>3. TakenEffect(i)' = TakenEffect(i)
  BY Zenon DEF TakenEffect
<1>4. Disturbed(i)' = Disturbed(i)
  BY Zenon DEF Disturbed
<1>. QED  BY <1>1, <1>2, <1>3, <1>4 DEF Request

(* The one client that waits for a worker. *)
LEMMA Caller ==
  ASSUME Sound, IInv, FInv, NEW i \in Call, WorkerStep(i)
  PROVE  \E c \in Client :
           /\ pc[c] = "select" /\ call[c] = i
           /\ \A d \in Client : d # c /\ pc[d] # "idle" => call[d] \in Call /\ call[d] # i
<1>1. i \in Outstanding
  BY WorkerMoves DEF IInv, Outstanding, Moving
<1>2. PICK c \in Client : pc[c] = "select" /\ call[c] = i
  BY <1>1 DEF Sound, IInv, WorkersHeld, Held
<1>. QED  BY <1>2 DEF IInv, CallsIssued, FInv, CallsDistinct

(* The names of a List stay as they are unless a Get removes a file. *)
GetPurges(i) == Purge(i) /\ kind[i] = "get" /\ entry[key[i]] # None

LEMMA OtherRequests ==
  ASSUME Sound, IInv, AloneInv, FInv, NEW i \in Call, WorkerStep(i), NEW j \in Call, j # i
  PROVE  /\ kind'[j] = kind[j] /\ key'[j] = key[j] /\ blank'[j] = blank[j]
         /\ worker'[j] = worker[j] /\ outcome'[j] = outcome[j]
         /\ ~GetPurges(i) => Request(j)' = Request(j)
<1>1. /\ UNCHANGED <<kind, key, blank>>
      /\ worker'[j] = worker[j] /\ outcome'[j] = outcome[j]
  BY WorkerMoves, WorkerFrame DEF IInv, clients, asked
<1>2. TakenEffect(j)' <=> TakenEffect(j)
  BY <1>1 DEF TakenEffect, PutWorks
<1>3. ASSUME ~GetPurges(i)
      PROVE  Disturbed(j)' <=> Disturbed(j)
  <2>1. CASE j \in Outstanding
    <3>1. /\ kind[i] \in {"get", "list"} /\ i \in Outstanding
      BY <2>1, OtherWorkers, WorkerMoves DEF IInv, Moving, Outstanding
    <3>2. StepFits(i)
      BY <3>1 DEF FInv, WorkerInv
    <3>3. UNCHANGED disk \/ (Purge(i) /\ kind[i] = "get")
      BY <3>1, <3>2, ReaderLeavesDisk
    <3>4. UNCHANGED <<tree, entry>>
      BY <1>3, <3>3 DEF GetPurges, Purge, disk, IInv, TypeOK
    <3>. QED  BY <1>1, <3>4 DEF Disturbed, Names
  <2>2. CASE j \notin Outstanding
    BY <1>1, <2>2 DEF Disturbed, Outstanding
  <2>. QED  BY <2>1, <2>2
<1>. QED  BY <1>1, <1>2, <1>3, RequestStays
-----------------------------------------------------------------------------
(* The steps of the abstract map, in terms of what is stored and asked.    *)

OthersAsk(c) == \A d \in Client : d # c => RequestOf(d)' = RequestOf(d)

AnswersNow(c, result) ==
  \E what, at, value, done, before, was :
    /\ RequestOf(c) = [kind |-> what, key |-> at, value |-> value, done |-> done,
                       result |-> before, disturbed |-> was]
    /\ RequestOf(c)' = [kind |-> what, key |-> at, value |-> value, done |-> TRUE,
                        result |-> result, disturbed |-> FALSE]

Asked(c, what) == RequestOf(c).kind = what /\ ~RequestOf(c).done

(* What EXCEPT makes of a request, ... *)
LEMMA AnsweredIs ==
  ASSUME NEW c \in Client, NEW result,
         NEW what, NEW at, NEW value, NEW done, NEW before, NEW was,
         RequestOf(c) = [kind |-> what, key |-> at, value |-> value, done |-> done,
                         result |-> before, disturbed |-> was]
  PROVE  Blob!Answered(c, result) = [kind |-> what, key |-> at, value |-> value, done |-> TRUE,
                                     result |-> result, disturbed |-> FALSE]
<1>1. PICK yes, no : yes = TRUE /\ no = FALSE
  OBVIOUS
<1>. DEFINE rec(d, x, w) == [kind |-> what, key |-> at, value |-> value, done |-> d,
                             result |-> x, disturbed |-> w]
<1>2. [rec(done, before, was) EXCEPT !.done = yes] = rec(yes, before, was)
  OBVIOUS
<1>3. [rec(yes, before, was) EXCEPT !.result = result] = rec(yes, result, was)
  OBVIOUS
<1>4. [rec(yes, result, was) EXCEPT !.disturbed = no] = rec(yes, result, no)
  OBVIOUS
<1>5. [rec(done, before, was) EXCEPT !.done = yes, !.result = result, !.disturbed = no]
        = [[[rec(done, before, was) EXCEPT !.done = yes] EXCEPT !.result = result]
             EXCEPT !.disturbed = no]
  OBVIOUS
<1>6. [rec(done, before, was) EXCEPT !.done = yes, !.result = result, !.disturbed = no]
        = rec(yes, result, no)
  BY <1>2, <1>3, <1>4, <1>5, Zenon
<1>7. RequestOf(c) = rec(done, before, was)
  OBVIOUS
<1>. HIDE DEF rec
<1>8. Blob!Answered(c, result) = [rec(done, before, was) EXCEPT !.done = yes, !.result = result,
                                                              !.disturbed = no]
  BY <1>1, <1>7 DEF Blob!Answered
<1>. QED  BY <1>1, <1>6, <1>8 DEF rec

(* ... and of an outcome, field by field. *)
LEMMA SetOk ==
  \A ok, value, names, x :
    [[ok |-> ok, value |-> value, names |-> names] EXCEPT !.ok = x]
      = [ok |-> x, value |-> value, names |-> names]
  OBVIOUS

LEMMA SetValue ==
  \A ok, value, names, x :
    [[ok |-> ok, value |-> value, names |-> names] EXCEPT !.value = x]
      = [ok |-> ok, value |-> x, names |-> names]
  OBVIOUS

LEMMA SetNames ==
  \A ok, value, names, x :
    [[ok |-> ok, value |-> value, names |-> names] EXCEPT !.names = x]
      = [ok |-> ok, value |-> value, names |-> x]
  OBVIOUS

(* The results that differ from Done in one field. *)
LEMMA DoneExcept ==
  /\ Failed = [ok |-> FALSE, value |-> None, names |-> {}]
  /\ \A v : [Done EXCEPT !.value = v] = [ok |-> TRUE, value |-> v, names |-> {}]
  /\ \A n : [Done EXCEPT !.names = n] = [ok |-> TRUE, value |-> None, names |-> n]
<1>1. Failed = [ok |-> FALSE, value |-> None, names |-> {}]
  <2>1. PICK no : no = FALSE
    OBVIOUS
  <2>2. [Done EXCEPT !.ok = no] = [ok |-> no, value |-> None, names |-> {}]
    BY SetOk DEF Done
  <2>. QED  BY <2>1, <2>2 DEF Failed
<1>2. \A v : [Done EXCEPT !.value = v] = [ok |-> TRUE, value |-> v, names |-> {}]
  BY SetValue, Zenon DEF Done
<1>3. \A n : [Done EXCEPT !.names = n] = [ok |-> TRUE, value |-> None, names |-> n]
  BY SetNames, Zenon DEF Done
<1>. QED  BY <1>1, <1>2, <1>3

LEMMA SameResults ==
  /\ Blob!Done = Done /\ Blob!Failed = Failed
  /\ \A v : [Blob!Done EXCEPT !.value = v] = [Done EXCEPT !.value = v]
  /\ \A n : [Blob!Done EXCEPT !.names = n] = [Done EXCEPT !.names = n]
  BY DEF Blob!Done, Blob!Failed, Blob!None, Done, Failed, None

LEMMA BlobStutters ==
  ASSUME StoreStays, \A c \in Client : RequestOf(c)' = RequestOf(c)
  PROVE  UNCHANGED Blob!vars
  BY DEF StoreStays, Blob!vars

LEMMA BlobAnswers ==
  ASSUME NEW c \in Client, NEW result, AnswersNow(c, result), OthersAsk(c)
  PROVE  Blob!Answers(c, result)
<1>1. RequestOf(c)' = Blob!Answered(c, result)
  BY AnsweredIs DEF AnswersNow
<1>. QED  BY <1>1 DEF OthersAsk, Blob!Answers

LEMMA SameStore ==
  ASSUME StoreStays
  PROVE  UNCHANGED [k \in Key |-> StoredUnder(k)]
  BY DEF StoreStays

LEMMA BlobPuts ==
  ASSUME NEW c \in Client, Asked(c, "put"), AnswersNow(c, Done), OthersAsk(c),
         RequestOf(c).key \in Key,
         \A k \in Key : StoredUnder(k)' = IF k = RequestOf(c).key THEN RequestOf(c).value
                                          ELSE StoredUnder(k)
  PROVE  Blob!Put(c)
<1>1. Blob!Answers(c, Blob!Done)
  BY BlobAnswers, SameResults
<1>2. Blob!Open(c, "put")
  BY DEF Asked, Blob!Open
<1>. QED  BY <1>1, <1>2 DEF Blob!Put

LEMMA BlobPutFails ==
  ASSUME NEW c \in Client, Asked(c, "put"), AnswersNow(c, Failed), OthersAsk(c), StoreStays
  PROVE  Blob!Put(c)
<1>1. Blob!Answers(c, Blob!Failed)
  BY BlobAnswers, SameResults
<1>2. Blob!Open(c, "put")
  BY DEF Asked, Blob!Open
<1>. QED  BY <1>1, <1>2, SameStore DEF Blob!Put

LEMMA BlobGets ==
  ASSUME NEW c \in Client, Asked(c, "get"), OthersAsk(c), StoreStays,
         RequestOf(c).key \in Key,
         NEW value, StoredUnder(RequestOf(c).key) = value,
         AnswersNow(c, IF value = -1 THEN Done ELSE [Done EXCEPT !.value = value])
  PROVE  Blob!Get(c)
<1>1. Blob!Answers(c, IF value = Blob!Broken THEN Blob!Done ELSE [Blob!Done EXCEPT !.value = value])
  <2>1. Blob!Broken = -1
    BY DEF Blob!Broken
  <2>. QED  BY <2>1, BlobAnswers, SameResults
<1>2. Blob!Open(c, "get")
  BY DEF Asked, Blob!Open
<1>. QED  BY <1>1, <1>2, SameStore DEF Blob!Get

(* Of an error of the disk the callers of Get and List learn nothing. *)
LEMMA BlobGetFails ==
  ASSUME NEW c \in Client, Asked(c, "get"), AnswersNow(c, Done), OthersAsk(c), StoreStays,
         RequestOf(c).key \in Flaky
  PROVE  Blob!Get(c)
<1>1. Blob!Answers(c, Blob!Done)
  BY BlobAnswers, SameResults
<1>2. Blob!Open(c, "get")
  BY DEF Asked, Blob!Open
<1>. QED  BY <1>1, <1>2, SameStore DEF Blob!Get

LEMMA BlobListFails ==
  ASSUME NEW c \in Client, Asked(c, "list"), AnswersNow(c, Done), OthersAsk(c), StoreStays,
         RequestOf(c).key \in Flaky
  PROVE  Blob!List(c)
<1>1. Blob!Answers(c, Blob!Done)
  BY BlobAnswers, SameResults
<1>2. Blob!Open(c, "list")
  BY DEF Asked, Blob!Open
<1>. QED  BY <1>1, <1>2, SameStore DEF Blob!List

LEMMA BlobDeletes ==
  ASSUME NEW c \in Client, Asked(c, "delete"), AnswersNow(c, Done), OthersAsk(c),
         RequestOf(c).key \in Key,
         \A k \in Key : StoredUnder(k)' = IF k = RequestOf(c).key THEN None ELSE StoredUnder(k)
  PROVE  Blob!Delete(c)
<1>1. Blob!Answers(c, Blob!Done)
  BY BlobAnswers, SameResults
<1>2. Blob!Open(c, "delete") /\ Blob!None = None
  BY DEF Asked, Blob!Open, Blob!None, None
<1>. QED  BY <1>1, <1>2 DEF Blob!Delete

LEMMA BlobDeleteFails ==
  ASSUME NEW c \in Client, Asked(c, "delete"), AnswersNow(c, Failed), OthersAsk(c), StoreStays
  PROVE  Blob!Delete(c)
<1>1. Blob!Answers(c, Blob!Failed)
  BY BlobAnswers, SameResults
<1>2. Blob!Open(c, "delete")
  BY DEF Asked, Blob!Open
<1>. QED  BY <1>1, <1>2, SameStore DEF Blob!Delete

LEMMA BlobCleanUpFails ==
  ASSUME NEW c \in Client, RequestOf(c).kind = "delete", RequestOf(c).done,
         AnswersNow(c, Failed), OthersAsk(c), StoreStays, RequestOf(c).key \in Flaky
  PROVE  Blob!CleanUpFails(c)
<1>1. Blob!Answers(c, Blob!Failed)
  BY BlobAnswers, SameResults
<1>2. RequestOf(c) # Blob!Idle
  BY DEF Blob!Idle
<1>. QED  BY <1>1, <1>2, SameStore DEF Blob!CleanUpFails

LEMMA BlobLists ==
  ASSUME NEW c \in Client, Asked(c, "list"), OthersAsk(c), StoreStays,
         NEW names, AnswersNow(c, [Done EXCEPT !.names = names]),
         names = IF RequestOf(c).key \in BadKey \/ RequestOf(c).disturbed THEN {}
                 ELSE {k \in Key : StoredUnder(k) # None /\ Path[k] = Path[RequestOf(c).key]}
  PROVE  Blob!List(c)
<1>1. Blob!Answers(c, [Blob!Done EXCEPT !.names = names])
  BY BlobAnswers, SameResults
<1>2. Blob!Open(c, "list") /\ Blob!None = None
  BY DEF Asked, Blob!Open, Blob!None, None
<1>3. {k \in Key : [h \in Key |-> StoredUnder(h)][k] # None /\ Path[k] = Path[RequestOf(c).key]}
        = {k \in Key : StoredUnder(k) # None /\ Path[k] = Path[RequestOf(c).key]}
  OBVIOUS
<1>. QED  BY <1>1, <1>2, <1>3, SameStore DEF Blob!List

LEMMA BlobGetRemoves ==
  ASSUME NEW c \in Client, Asked(c, "get"), AnswersNow(c, Done),
         RequestOf(c).key \in Key, StoredUnder(RequestOf(c).key) = -1,
         \A k \in Key : StoredUnder(k)' = IF k = RequestOf(c).key THEN None ELSE StoredUnder(k),
         \A d \in Client : d # c =>
           \/ RequestOf(d)' = RequestOf(d)
           \/ /\ Asked(d, "list") /\ Path[RequestOf(d).key] = Path[RequestOf(c).key]
              /\ RequestOf(d)' = [RequestOf(d) EXCEPT !.disturbed = TRUE]
  PROVE  Blob!GetRemoves(c)
<1>. DEFINE lists == {d \in Client : /\ Blob!Open(d, "list")
                                     /\ Path[RequestOf(d).key] = Path[RequestOf(c).key]
                                     /\ RequestOf(d)' = [RequestOf(d) EXCEPT !.disturbed = TRUE]}
            req == [d \in Client |-> RequestOf(d)]
<1>1. \A d \in Client : Blob!Open(d, "list") <=> Asked(d, "list")
  BY DEF Blob!Open, Asked
<1>2. \A d \in Client : RequestOf(d)' =
        IF d = c THEN Blob!Answered(c, Blob!Done)
        ELSE IF d \in lists THEN [RequestOf(d) EXCEPT !.disturbed = TRUE] ELSE RequestOf(d)
  <2>1. RequestOf(c)' = Blob!Answered(c, Blob!Done)
    BY SameResults, AnsweredIs DEF AnswersNow
  <2>. QED  BY <1>1, <2>1
<1>3. lists \in SUBSET {d \in Client : /\ Blob!Open(d, "list")
                                       /\ Path[req[d].key] = Path[req[c].key]}
  OBVIOUS
<1>4. Blob!Open(c, "get") /\ Blob!Broken = -1 /\ Blob!None = None
  BY DEF Asked, Blob!Open, Blob!Broken, Blob!None, None
<1>5. [k \in Key |-> StoredUnder(k)]' =
        [[k \in Key |-> StoredUnder(k)] EXCEPT ![req[c].key] = Blob!None]
  BY <1>4
<1>6. req' = [d \in Client |-> IF d = c THEN Blob!Answered(c, Blob!Done)
                                ELSE IF d \in lists THEN [req[d] EXCEPT !.disturbed = TRUE]
                                ELSE req[d]]
  BY <1>2
<1>7. [k \in Key |-> StoredUnder(k)][req[c].key] = Blob!Broken
  BY <1>4
<1>. HIDE DEF lists
<1>. QED  BY <1>3, <1>4, <1>5, <1>6, <1>7 DEF Blob!GetRemoves

LEMMA BlobReturns ==
  ASSUME NEW c \in Client, RequestOf(c).kind # "none", RequestOf(c).done,
         RequestOf(c)' = [kind |-> "none"], OthersAsk(c), StoreStays
  PROVE  Blob!Return(c)
<1>1. RequestOf(c) # Blob!Idle /\ Blob!Idle = [kind |-> "none"]
  BY DEF Blob!Idle
<1>. QED  BY <1>1, SameStore DEF Blob!Return, OthersAsk

LEMMA BlobInvokes ==
  ASSUME NEW c \in Client, RequestOf(c) = [kind |-> "none"],
         NEW what \in {"put", "get", "delete", "list"}, NEW k \in Key, NEW v \in {None} \cup Call,
         RequestOf(c)' = [kind |-> what, key |-> k, value |-> v, done |-> FALSE, result |-> Done,
                          disturbed |-> FALSE],
         OthersAsk(c), StoreStays
  PROVE  Blob!Invoke(c)
<1>1. what \in Blob!Kind /\ v \in Blob!Value \ {Blob!Broken} /\ Blob!Idle = [kind |-> "none"]
  BY StorageAssumption DEF Blob!Kind, Blob!Value, Blob!Broken, Blob!None, Blob!Idle,
     None, Call
<1>. DEFINE req == [d \in Client |-> RequestOf(d)]
            new == [kind |-> what, key |-> k, value |-> v, done |-> FALSE, result |-> Blob!Done,
                    disturbed |-> FALSE]
<1>2. RequestOf(c)' = new
  BY SameResults
<1>3. new \in Blob!NewRequest
  BY <1>1 DEF Blob!NewRequest
<1>. HIDE DEF new
<1>4. req' = [req EXCEPT ![c] = new]
  <2>1. \A d \in Client : RequestOf(d)' = IF d = c THEN new ELSE RequestOf(d)
    BY <1>2 DEF OthersAsk
  <2>. QED  BY <2>1
<1>5. req[c] = Blob!Idle /\ req'[c] = new
  BY <1>1, <1>2
<1>. HIDE DEF req
<1>6. req[c] = Blob!Idle /\ req'[c] \in Blob!NewRequest /\ req' = [req EXCEPT ![c] = req'[c]]
  BY <1>3, <1>4, <1>5
<1>. QED  BY <1>6, SameStore DEF Blob!Invoke, req

(* A step of a client of the map changes its request, or nothing at all. *)
LEMMA BlobSteps ==
  ASSUME NEW c \in Client, Blob!ClientStep(c)
  PROVE  [Blob!Next]_Blob!vars
<1>. DEFINE req == [d \in Client |-> RequestOf(d)]
            st == [k \in Key |-> StoredUnder(k)]
<1>. SUFFICES ASSUME req'[c] = req[c]
              PROVE  UNCHANGED <<st, req>>
  BY DEF Blob!Next, Blob!vars
<1>1. req[c] = Blob!Idle \/ \E i : req[c] = Request(i)
  BY DEF RequestOf, Blob!Idle
<1>2. ASSUME NEW result, NEW what, Blob!Open(c, what), what # "none",
             req'[c] = Blob!Answered(c, result)
      PROVE  FALSE
  <2>1. req[c].kind = what /\ ~req[c].done
    BY <1>2 DEF Blob!Open
  <2>2. req[c] # Blob!Idle
    BY <1>2, <2>1 DEF Blob!Idle
  <2>3. PICK i : req[c] = Request(i)
    BY <1>1, <2>2
  <2>4. Blob!Answered(c, result) = [kind |-> kind[i], key |-> key[i], value |-> PutValue(i),
                                    done |-> TRUE, result |-> result, disturbed |-> FALSE]
    BY <2>3, AnsweredIs DEF Request
  <2>. QED  BY <1>2, <2>1, <2>4
<1>3. CASE Blob!Put(c) \/ Blob!Get(c) \/ Blob!Delete(c) \/ Blob!List(c) \/ Blob!GetRemoves(c)
  <2>1. \E what \in {"put", "get", "delete", "list"} : Blob!Open(c, what)
    BY <1>3 DEF Blob!Put, Blob!Get, Blob!Delete, Blob!List, Blob!GetRemoves
  <2>2. \E result : req'[c] = Blob!Answered(c, result)
    BY <1>3 DEF Blob!Put, Blob!Get, Blob!Delete, Blob!List, Blob!GetRemoves, Blob!Answers
  <2>. QED  BY <1>2, <2>1, <2>2
<1>4. CASE Blob!CleanUpFails(c)
  BY <1>4 DEF Blob!CleanUpFails, Blob!Answers
<1>5. CASE Blob!Invoke(c)
  <2>1. req[c] = Blob!Idle /\ req'[c] \in Blob!NewRequest
    BY <1>5 DEF Blob!Invoke
  <2>. QED  BY <2>1 DEF Blob!Idle, Blob!NewRequest, Blob!Kind
<1>6. CASE Blob!Return(c)
  BY <1>6 DEF Blob!Return
<1>. QED  BY <1>3, <1>4, <1>5, <1>6 DEF Blob!ClientStep

LEMMA BlobCrashes ==
  ASSUME \A c \in Client : RequestOf(c)' = [kind |-> "none"],
         \A k \in Key : StoredUnder(k)' \in Call \cup {None, -1},
         \A k \in Key :
           \/ StoredUnder(k)' = StoredUnder(k)
           \/ \E c \in Client : /\ RequestOf(c).kind = "put" /\ RequestOf(c).key = k
                                /\ StoredUnder(k)' \in {-1, RequestOf(c).value}
  PROVE  Blob!Crash
<1>. DEFINE req == [d \in Client |-> RequestOf(d)]
            st == [k \in Key |-> StoredUnder(k)]
<1>1. req' = [c \in Client |-> Blob!Idle]
  BY DEF Blob!Idle
<1>2. st' \in [Key -> Blob!Value]
  BY StorageAssumption DEF Blob!Value, Blob!None, Blob!Broken, Call, None
<1>3. ASSUME NEW k \in Key
      PROVE  st'[k] \in {st[k]} \cup UNION {{Blob!Broken, req[c].value} :
                          c \in {d \in Client : req[d].kind = "put" /\ req[d].key = k}}
  <2>1. st'[k] = StoredUnder(k)' /\ st[k] = StoredUnder(k)
    OBVIOUS
  <2>2. CASE StoredUnder(k)' = StoredUnder(k)
    BY <2>1, <2>2
  <2>3. ASSUME NEW c \in Client, RequestOf(c).kind = "put", RequestOf(c).key = k,
               StoredUnder(k)' \in {-1, RequestOf(c).value}
        PROVE  st'[k] \in UNION {{Blob!Broken, req[e].value} :
                            e \in {d \in Client : req[d].kind = "put" /\ req[d].key = k}}
    <3>1. c \in {d \in Client : req[d].kind = "put" /\ req[d].key = k}
      BY <2>3
    <3>2. st'[k] \in {Blob!Broken, req[c].value}
      BY <2>1, <2>3 DEF Blob!Broken
    <3>. QED  BY <3>1, <3>2
  <2>. QED  BY <2>2, <2>3
<1>. QED  BY <1>1, <1>2, <1>3 DEF Blob!Crash
-----------------------------------------------------------------------------
(* What the steps of the workers are in the map.                           *)

(* Client c is the one that waits for the worker of call i. *)
Calls(c, i) ==
  /\ c \in Client /\ pc[c] = "select" /\ call[c] = i
  /\ \A d \in Client : d # c /\ pc[d] # "idle" => call[d] \in Call /\ call[d] # i

(* What a step of a worker may rely on. *)
Working(c, i) == Sound /\ IInv /\ AloneInv /\ FInv /\ WorkerStep(i) /\ Calls(c, i)

LEMMA WorkingFacts ==
  ASSUME NEW c, NEW i \in Call, Working(c, i)
  PROVE  /\ UNCHANGED <<call, pc, kind, key, blank>>
         /\ WorkerInv(i) /\ i \in Outstanding
         /\ key[i] \in Key /\ kind[i] \in Kind /\ blank[i] \in BOOLEAN
         /\ worker[i] \in Steps \ {"off", "gone", "leaked"}
         /\ worker'[i] \in Steps \ {"off", "gone", "leaked"}
<1>1. UNCHANGED <<call, pc, kind, key, blank>> /\ Moving(worker[i]) /\ Moving(worker'[i])
  BY WorkerMoves DEF Working, IInv, clients, asked
<1>2. i \in Outstanding
  BY <1>1 DEF Outstanding, Moving
<1>3. WorkerInv(i)
  BY <1>2 DEF Working, FInv
<1>4. key[i] \in Key /\ kind[i] \in Kind \cup {"none"} /\ blank[i] \in BOOLEAN
  BY DEF Working, IInv, TypeOK
<1>5. kind[i] \in Kind
  BY <1>3, <1>4, StepKinds DEF WorkerInv
<1>. QED  BY <1>1, <1>2, <1>3, <1>4, <1>5 DEF Moving

LEMMA WorkerRequests ==
  ASSUME NEW c, NEW i \in Call, Working(c, i)
  PROVE  /\ kind[i] # "init" => RequestOf(c) = Request(i) /\ RequestOf(c)' = Request(i)'
         /\ kind[i] = "init" => RequestOf(c)' = RequestOf(c)
         /\ ~GetPurges(i) => OthersAsk(c)
<1>1. UNCHANGED <<call, pc, kind>>
  BY WorkingFacts
<1>2. c \in Client /\ pc[c] = "select" /\ call[c] = i
  BY DEF Working, Calls
<1>3. kind[i] # "init" => RequestOf(c) = Request(i) /\ RequestOf(c)' = Request(i)'
  BY <1>1, <1>2, RequestNow, RequestNext
<1>4. kind[i] = "init" => RequestOf(c)' = RequestOf(c)
  BY <1>1, <1>2, RequestNow, RequestNext
<1>5. ASSUME ~GetPurges(i), NEW d \in Client, d # c
      PROVE  RequestOf(d)' = RequestOf(d)
  <2>. PICK j : j = call[d]
    OBVIOUS
  <2>1. RequestOf(d) = IF pc[d] = "idle" \/ kind[j] = "init" THEN [kind |-> "none"] ELSE Request(j)
    BY RequestNow
  <2>2. RequestOf(d)' = IF pc[d] = "idle" \/ kind[j] = "init" THEN [kind |-> "none"]
                        ELSE Request(j)'
    BY <1>1, RequestNext
  <2>3. pc[d] # "idle" => j \in Call /\ j # i
    BY <1>5 DEF Working, Calls
  <2>4. pc[d] # "idle" => Request(j)' = Request(j)
    BY <1>5, <2>3, OtherRequests DEF Working
  <2>. QED  BY <2>1, <2>2, <2>4
<1>. QED  BY <1>3, <1>4, <1>5 DEF OthersAsk

(* A step that is not seen. *)
LEMMA WorkerStutters ==
  ASSUME NEW c, NEW i \in Call, Working(c, i), ~GetPurges(i), StoreStays,
         kind[i] = "init" \/ Request(i)' = Request(i)
  PROVE  UNCHANGED Blob!vars
<1>1. RequestOf(c)' = RequestOf(c) /\ OthersAsk(c)
  BY WorkerRequests
<1>. QED  BY <1>1, BlobStutters DEF OthersAsk

(* The step in which a call takes effect. *)
LEMMA WorkerAnswers ==
  ASSUME NEW c, NEW i \in Call, Working(c, i), kind[i] # "init",
         ~TakenEffect(i), TakenEffect(i)', ~Disturbed(i)'
  PROVE  /\ c \in Client
         /\ Asked(c, kind[i]) /\ AnswersNow(c, Seen(i)')
         /\ RequestOf(c).key = key[i] /\ RequestOf(c).value = PutValue(i)
         /\ RequestOf(c).disturbed = Disturbed(i)
<1>1. UNCHANGED <<kind, key, blank>>
  BY WorkingFacts
<1>2. RequestOf(c) = Request(i) /\ RequestOf(c)' = Request(i)'
  BY WorkerRequests
<1>3. Request(i) = [kind |-> kind[i], key |-> key[i], value |-> PutValue(i), done |-> FALSE,
                    result |-> Done, disturbed |-> Disturbed(i)]
  <2>1. TakenEffect(i) = FALSE
    BY Zenon DEF TakenEffect
  <2>. QED  BY <2>1 DEF Request
<1>4. Request(i)' = [kind |-> kind[i], key |-> key[i], value |-> PutValue(i), done |-> TRUE,
                     result |-> Seen(i)', disturbed |-> FALSE]
  <2>1. TakenEffect(i)' = TRUE /\ Disturbed(i)' = FALSE
    BY Zenon DEF TakenEffect, Disturbed
  <2>2. PutValue(i)' = PutValue(i)
    BY <1>1 DEF PutValue
  <2>. QED  BY <1>1, <2>1, <2>2 DEF Request
<1>5. AnswersNow(c, Seen(i)')
  BY <1>2, <1>3, <1>4 DEF AnswersNow
<1>6. /\ c \in Client
      /\ RequestOf(c).kind = kind[i] /\ RequestOf(c).done = FALSE
      /\ RequestOf(c).key = key[i] /\ RequestOf(c).value = PutValue(i)
      /\ RequestOf(c).disturbed = Disturbed(i)
  BY <1>2, <1>3 DEF Working, Calls
<1>. QED  BY <1>5, <1>6 DEF Asked

(* A call that has taken effect and fails nevertheless. *)
LEMMA WorkerAnswersAgain ==
  ASSUME NEW c, NEW i \in Call, Working(c, i), kind[i] # "init",
         TakenEffect(i), TakenEffect(i)', ~Disturbed(i), ~Disturbed(i)'
  PROVE  /\ c \in Client
         /\ RequestOf(c).kind = kind[i] /\ RequestOf(c).done
         /\ RequestOf(c).key = key[i]
         /\ AnswersNow(c, Seen(i)')
<1>1. UNCHANGED <<kind, key, blank>>
  BY WorkingFacts
<1>2. RequestOf(c) = Request(i) /\ RequestOf(c)' = Request(i)'
  BY WorkerRequests
<1>3. Request(i) = [kind |-> kind[i], key |-> key[i], value |-> PutValue(i), done |-> TRUE,
                    result |-> Seen(i), disturbed |-> FALSE]
  <2>1. TakenEffect(i) = TRUE /\ Disturbed(i) = FALSE
    BY Zenon DEF TakenEffect, Disturbed
  <2>. QED  BY <2>1 DEF Request
<1>4. Request(i)' = [kind |-> kind[i], key |-> key[i], value |-> PutValue(i), done |-> TRUE,
                     result |-> Seen(i)', disturbed |-> FALSE]
  <2>1. TakenEffect(i)' = TRUE /\ Disturbed(i)' = FALSE
    BY Zenon DEF TakenEffect, Disturbed
  <2>2. PutValue(i)' = PutValue(i)
    BY <1>1 DEF PutValue
  <2>. QED  BY <1>1, <2>1, <2>2 DEF Request
<1>5. AnswersNow(c, Seen(i)')
  BY <1>2, <1>3, <1>4 DEF AnswersNow
<1>6. /\ c \in Client /\ RequestOf(c).kind = kind[i] /\ RequestOf(c).done
      /\ RequestOf(c).key = key[i]
  BY <1>2, <1>3 DEF Working, Calls
<1>. QED  BY <1>5, <1>6

(* What the caller of a call that has taken effect will see. *)
LEMMA SeenNext ==
  ASSUME NEW i
  PROVE  /\ outcome'[i] = Done => Seen(i)' = Done
         /\ outcome'[i] = Failed => Seen(i)' = IF Writes(i)' THEN Failed ELSE Done
         /\ \A v : outcome'[i] = [Done EXCEPT !.value = v] => Seen(i)' = [Done EXCEPT !.value = v]
         /\ \A n : outcome'[i] = [Done EXCEPT !.names = n] =>
              Seen(i)' = [Done EXCEPT !.names = {k \in Key : k \in n}]
<1>1. Seen(i)' = IF Writes(i)' \/ outcome'[i].ok
                 THEN [outcome'[i] EXCEPT !.names = {k \in Key : k \in outcome'[i].names}]
                 ELSE Done
  BY DEF Seen
<1>2. ASSUME NEW ok, NEW v, NEW n, ok = TRUE, outcome'[i] = [ok |-> ok, value |-> v, names |-> n]
      PROVE  Seen(i)' = [ok |-> ok, value |-> v, names |-> {k \in Key : k \in n}]
  <2>1. outcome'[i].ok /\ outcome'[i].names = n
    BY <1>2
  <2>2. [[ok |-> ok, value |-> v, names |-> n] EXCEPT !.names = {k \in Key : k \in n}]
          = [ok |-> ok, value |-> v, names |-> {k \in Key : k \in n}]
    BY SetNames, Zenon
  <2>. QED  BY <1>1, <1>2, <2>1, <2>2, Zenon
<1>3. {k \in Key : k \in {}} = {}
  OBVIOUS
<1>4. outcome'[i] = Done => Seen(i)' = Done
  BY <1>2, <1>3, Zenon DEF Done
<1>5. outcome'[i] = Failed => Seen(i)' = IF Writes(i)' THEN Failed ELSE Done
  <2>1. PICK no : no = FALSE
    OBVIOUS
  <2>2. Failed = [ok |-> no, value |-> None, names |-> {}] /\ ~Failed.ok /\ Failed.names = {}
    BY <2>1, DoneExcept
  <2>3. [Failed EXCEPT !.names = {}] = Failed
    BY <2>2, SetNames, Zenon
  <2>. QED  BY <1>1, <1>3, <2>2, <2>3, Zenon
<1>6. ASSUME NEW v, outcome'[i] = [Done EXCEPT !.value = v]
      PROVE  Seen(i)' = [Done EXCEPT !.value = v]
  <2>1. outcome'[i] = [ok |-> TRUE, value |-> v, names |-> {}]
    BY <1>6, DoneExcept, Zenon
  <2>2. Seen(i)' = [ok |-> TRUE, value |-> v, names |-> {}]
    BY <1>2, <1>3, <2>1, Zenon
  <2>. QED  BY <2>2, DoneExcept, Zenon
<1>7. ASSUME NEW n, outcome'[i] = [Done EXCEPT !.names = n]
      PROVE  Seen(i)' = [Done EXCEPT !.names = {k \in Key : k \in n}]
  <2>1. outcome'[i] = [ok |-> TRUE, value |-> None, names |-> n]
    BY <1>7, DoneExcept, Zenon
  <2>2. Seen(i)' = [ok |-> TRUE, value |-> None, names |-> {k \in Key : k \in n}]
    BY <1>2, <2>1, Zenon
  <2>. QED  BY <2>2, DoneExcept, Zenon
<1>. QED  BY <1>4, <1>5, <1>6, <1>7, Zenon

(* The steps that leave what is stored: all but those of a Put that opens, *)
(* writes or ends, and the removals.                                       *)
LEMMA DiskKeeps ==
  ASSUME NEW c, NEW i \in Call, Working(c, i), UNCHANGED <<entry, data>>,
         PutWorks(i)' <=> PutWorks(i)
  PROVE  StoreStays
<1>1. ASSUME NEW k \in Key
      PROVE  StoredUnder(k)' = StoredUnder(k)
  <2>1. DiskValue(k)' = DiskValue(k)
    BY DEF DiskValue
  <2>. QED  BY <2>1, WorkerStore DEF Working
<1>. QED  BY <1>1 DEF StoreStays

(* Only what is under the key of a file changes with it. *)
LEMMA OtherKeys ==
  ASSUME IInv, NEW h \in Key, NEW n \in Call, PutUnder(n, h),
         \A m \in Call : m # n => data'[m] = data[m],
         NEW k \in Key, k # h, entry'[k] = entry[k]
  PROVE  DiskValue(k)' = DiskValue(k)
<1>1. entry[k] # None => entry[k] # n /\ entry[k] \in Call
  BY DEF IInv, TypeOK, EntriesKeyed, PutUnder
<1>. QED  BY <1>1 DEF DiskValue
-----------------------------------------------------------------------------
(* Init and Put.                                                           *)

LEMMA InitWorkerMaps ==
  ASSUME NEW c, NEW i \in Call, Working(c, i), kind[i] = "init"
  PROVE  UNCHANGED Blob!vars
<1>1. StepFits(i) /\ worker[i] \in {"tell_init", "init", "answer"}
  BY WorkingFacts DEF WorkerInv, StepFits, StepsOf
<1>2. UNCHANGED <<entry, data, kind>>
  <2>1. Log(i) \/ Reject(i) \/ SetUp(i)
    BY <1>1 DEF Working, WorkerStep, MkdirAll, OpenForPut, PutFails, WriteSome,
       Write, WriteStopsEarly, Sync, Stat, Purge, StatForGet, OpenForGet, Read,
       Unlink, CleanedUp, Look, Rmdir, Readdir, StatAll, DiskFails, StatForGetFails,
       GetFails, DeleteFails, ListFails, Does, Answers
  <2>. QED  BY <2>1, WorkingFacts DEF Log, Reject, SetUp, disk
<1>3. StoreStays
  BY <1>2, DiskKeeps DEF PutWorks
<1>. QED  BY <1>3, WorkerStutters DEF GetPurges

LEMMA PutSteps ==
  ASSUME NEW c, NEW i \in Call, Working(c, i), kind[i] = "put"
  PROVE  \/ Log(i) \/ Reject(i) \/ MkdirAll(i) \/ OpenForPut(i) \/ PutFails(i) \/ WriteSome(i)
         \/ Write(i) \/ Sync(i) \/ Stat(i) \/ Purge(i)
<1>1. StepFits(i) /\ worker[i] \in StepsOf["put"]
  BY WorkingFacts DEF WorkerInv, StepFits
<1>2. "write" \notin Faults
  BY DEF Working, Sound
<1>. QED  BY <1>1, <1>2 DEF Working, WorkerStep, SetUp, WriteStopsEarly, StatForGet,
             OpenForGet, Read, Unlink, CleanedUp, Look, Rmdir, Readdir, StatAll,
             DiskFails, StatForGetFails, GetFails, DeleteFails, ListFails, Does,
             Answers, StepsOf

(* Only its key changes with what a Put writes. *)
LEMMA PutTouches ==
  ASSUME NEW c, NEW i \in Call, Working(c, i), kind[i] = "put",
         OpenForPut(i) \/ WriteSome(i) \/ Write(i) \/ Purge(i), NEW k \in Key, k # key[i]
  PROVE  DiskValue(k)' = DiskValue(k)
<1>. USE DEF Working, IInv
<1>1. key[i] \in Key
  BY WorkingFacts
<1>2. CASE OpenForPut(i)
  <2>. DEFINE n == IF entry[key[i]] = None THEN i ELSE entry[key[i]]
  <2>1. n \in Call /\ PutUnder(n, key[i])
    BY <1>1 DEF TypeOK, EntriesKeyed, PutUnder
  <2>2. entry' = [entry EXCEPT ![key[i]] = n] /\ data' = [data EXCEPT ![n] = Empty]
    BY <1>2 DEF OpenForPut
  <2>. HIDE DEF n
  <2>3. entry'[k] = entry[k] /\ \A m \in Call : m # n => data'[m] = data[m]
    BY <2>2 DEF TypeOK
  <2>. QED  BY <1>1, <2>1, <2>3, OtherKeys
<1>3. CASE WriteSome(i) \/ Write(i)
  <2>1. file[i] # None /\ file[i] \in Call /\ PutUnder(file[i], key[i])
    BY <1>3 DEF WriteSome, Write, Does, WorkersReady, FilesKeyed, TypeOK
  <2>2. entry' = entry /\ \A m \in Call : m # file[i] => data'[m] = data[m]
    BY <1>3, <2>1 DEF WriteSome, Write, TypeOK
  <2>. QED  BY <1>1, <2>1, <2>2, OtherKeys
<1>4. CASE Purge(i)
  <2>1. entry'[k] = entry[k] /\ data' = data
    BY <1>1, <1>4 DEF Purge, TypeOK
  <2>. QED  BY <2>1 DEF DiskValue
<1>. QED  BY <1>2, <1>3, <1>4

(* Where a Put is, and what it has found, in each step. *)
LEMMA PutPlaces ==
  ASSUME NEW c, NEW i \in Call, Working(c, i), kind[i] = "put"
  PROVE  /\ PutWorks(i) <=> worker[i] \in {"write", "sync", "tell_stat", "stat", "purge"}
         /\ PutWorks(i)' <=> worker'[i] \in {"write", "sync", "tell_stat", "stat", "purge"}
         /\ TakenEffect(i) <=> PutWorks(i) \/ worker[i] = "answer"
         /\ TakenEffect(i)' <=> PutWorks(i)' \/ worker'[i] = "answer"
         /\ ~Disturbed(i) /\ ~Disturbed(i)' /\ ~GetPurges(i) /\ Writes(i)'
<1>1. kind'[i] = "put" /\ worker[i] \notin {"gone", "leaked"} /\ worker'[i] \notin {"gone", "leaked"}
  BY WorkingFacts
<1>. QED  BY <1>1 DEF PutWorks, TakenEffect, Disturbed, GetPurges, Writes

(* The steps of a Put that are not seen. *)
LEMMA PutQuiet ==
  ASSUME NEW c, NEW i \in Call, Working(c, i), kind[i] = "put",
         TakenEffect(i)' <=> TakenEffect(i), TakenEffect(i) => outcome'[i] = outcome[i],
         StoreStays
  PROVE  UNCHANGED Blob!vars
<1>1. UNCHANGED <<kind, key, blank>>
  BY WorkingFacts
<1>2. Request(i)' = Request(i)
  BY <1>1, PutPlaces, RequestStays
<1>. QED  BY <1>2, PutPlaces, WorkerStutters

LEMMA PutWorkerMaps ==
  ASSUME NEW c, NEW i \in Call, Working(c, i), kind[i] = "put"
  PROVE  Blob!Put(c) \/ UNCHANGED Blob!vars
<1>. USE DEF Working, IInv
<1>1. /\ key[i] \in Key /\ blank[i] \in BOOLEAN /\ UNCHANGED <<kind, key, blank>>
      /\ PutProgress(i) /\ OutcomeOpen(i) /\ StepFits(i)
  BY WorkingFacts DEF WorkerInv
<1>2. CASE Log(i)
  <2>1. /\ worker[i] \in DOMAIN AfterLog /\ worker'[i] = AfterLog[worker[i]]
        /\ UNCHANGED <<entry, data, outcome>>
    BY <1>2 DEF Log, Does, disk, TypeOK
  <2>2. worker[i] \in {"tell_mkdir", "tell_open", "tell_stat"}
    BY <1>1, <2>1 DEF StepFits, StepsOf, AfterLog
  <2>3. \/ worker[i] \in {"tell_mkdir", "tell_open"} /\ worker'[i] \in {"mkdir", "open"}
        \/ worker[i] = "tell_stat" /\ worker'[i] = "stat"
    BY <2>1, <2>2 DEF AfterLog
  <2>4. StoreStays /\ (TakenEffect(i)' <=> TakenEffect(i))
    BY <2>1, <2>3, PutPlaces, DiskKeeps
  <2>. QED  BY <2>1, <2>4, PutQuiet
<1>3. CASE MkdirAll(i) \/ Sync(i)
  <2>1. /\ \/ worker[i] = "mkdir" /\ worker'[i] = "tell_open"
           \/ worker[i] = "sync" /\ worker'[i] = "tell_stat"
        /\ UNCHANGED <<entry, data, outcome>>
    BY <1>3 DEF MkdirAll, Sync, Does, disk, TypeOK
  <2>2. StoreStays /\ (TakenEffect(i)' <=> TakenEffect(i))
    BY <2>1, PutPlaces, DiskKeeps
  <2>. QED  BY <2>1, <2>2, PutQuiet
<1>4. CASE Reject(i) \/ PutFails(i)
  <2>1. /\ worker[i] \in {"tell_mkdir", "mkdir", "open"} /\ worker'[i] = "answer"
        /\ outcome'[i] = Failed /\ UNCHANGED <<entry, data>>
    BY <1>1, <1>4 DEF Reject, PutFails, Answers, Does, disk, TypeOK, Sound,
       FirstStep
  <2>2. StoreStays /\ ~TakenEffect(i) /\ TakenEffect(i)' /\ OthersAsk(c)
    BY <2>1, PutPlaces, DiskKeeps, WorkerRequests
  <2>3. Seen(i)' = Failed
    BY <2>1, PutPlaces, SeenNext
  <2>4. c \in Client /\ Asked(c, "put") /\ AnswersNow(c, Failed)
    BY <2>2, <2>3, PutPlaces, WorkerAnswers
  <2>. QED  BY <2>2, <2>4, BlobPutFails
<1>5. CASE OpenForPut(i)
  <2>1. worker[i] = "open" /\ worker'[i] = "write" /\ outcome' = outcome
    BY <1>5 DEF OpenForPut, Does, TypeOK
  <2>2. PutWorks(i)' /\ ~PutWorks(i) /\ ~TakenEffect(i) /\ TakenEffect(i)' /\ OthersAsk(c)
    BY <2>1, PutPlaces, WorkerRequests
  <2>3. Seen(i)' = Done
    BY <1>1, <2>1, SeenNext DEF OutcomeOpen
  <2>4. /\ c \in Client /\ Asked(c, "put") /\ AnswersNow(c, Done)
        /\ RequestOf(c).key = key[i] /\ RequestOf(c).value = PutValue(i)
    BY <2>2, <2>3, PutPlaces, WorkerAnswers
  <2>5. \A k \in Key : StoredUnder(k)' = IF k = key[i] THEN PutValue(i) ELSE StoredUnder(k)
    BY <1>1, <1>5, <2>2, WorkerStore, PutTouches
  <2>. QED  BY <1>1, <2>2, <2>4, <2>5, BlobPuts
<1>6. CASE WriteSome(i) \/ Write(i)
  <2>1. worker[i] = "write" /\ worker'[i] \in {"write", "sync"} /\ outcome' = outcome
    BY <1>6 DEF WriteSome, Write, Does, TypeOK
  <2>2. PutWorks(i) /\ PutWorks(i)' /\ (TakenEffect(i)' <=> TakenEffect(i))
    BY <2>1, PutPlaces
  <2>3. StoreStays
    BY <1>6, <2>2, WorkerStore, PutTouches DEF StoreStays
  <2>. QED  BY <2>1, <2>2, <2>3, PutQuiet
<1>7. CASE Stat(i)
  <2>1. worker[i] = "stat" /\ UNCHANGED <<entry, data>>
    BY <1>7 DEF Stat, Does, Answers, disk
  <2>2. PutWorks(i) /\ TakenEffect(i)
    BY <2>1, PutPlaces
  <2>3. /\ entry[key[i]] # None
        /\ data[entry[key[i]]] = IF blank[i] THEN Empty ELSE i
    BY <1>1, <2>1, <2>2 DEF PutProgress
  <2>4. i # Empty
    BY DEF Empty, Call
  <2>5. worker'[i] = (IF blank[i] THEN "purge" ELSE "answer") /\ outcome' = outcome
    BY <1>7, <2>3, <2>4 DEF Stat, Does, TypeOK
  <2>6. TakenEffect(i)'
    BY <2>5, PutPlaces
  <2>7. StoreStays
    <3>1. CASE blank[i]
      BY <2>1, <2>2, <2>5, <3>1, PutPlaces, DiskKeeps
    <3>2. CASE ~blank[i]
      <4>1. ~PutWorks(i)'
        BY <2>5, <3>2, PutPlaces
      <4>2. PutValue(i) = i /\ DiskValue(key[i]) = i
        BY <2>3, <3>2 DEF PutValue, DiskValue
      <4>3. \A k \in Key : DiskValue(k)' = DiskValue(k)
        BY <2>1 DEF DiskValue
      <4>. QED  BY <1>1, <2>2, <4>1, <4>2, <4>3, WorkerStore DEF StoreStays
    <3>. QED  BY <3>1, <3>2
  <2>. QED  BY <2>2, <2>5, <2>6, <2>7, PutQuiet
<1>8. CASE Purge(i)
  <2>1. worker[i] = "purge" /\ worker'[i] = "answer" /\ outcome' = outcome
        /\ entry'[key[i]] = None
    BY <1>1, <1>8 DEF Purge, Does, TypeOK
  <2>2. PutWorks(i) /\ ~PutWorks(i)' /\ TakenEffect(i) /\ TakenEffect(i)'
    BY <2>1, PutPlaces
  <2>3. PutValue(i) = None /\ DiskValue(key[i])' = None
    BY <1>1, <2>1, <2>2 DEF PutProgress, PutValue, DiskValue
  <2>4. StoreStays
    BY <1>1, <1>8, <2>2, <2>3, WorkerStore, PutTouches DEF StoreStays
  <2>. QED  BY <2>1, <2>2, <2>4, PutQuiet
<1>. QED  BY <1>2, <1>3, <1>4, <1>5, <1>6, <1>7, <1>8, PutSteps
-----------------------------------------------------------------------------
(* Get.                                                                    *)

LEMMA GetSteps ==
  ASSUME NEW c, NEW i \in Call, Working(c, i), kind[i] = "get"
  PROVE  \/ Log(i) \/ Reject(i) \/ StatForGet(i) \/ StatForGetFails(i) \/ OpenForGet(i)
         \/ Read(i) \/ GetFails(i) \/ Purge(i)
<1>1. StepFits(i) /\ worker[i] \in StepsOf["get"]
  BY WorkingFacts DEF WorkerInv, StepFits
<1>. QED  BY <1>1 DEF Working, WorkerStep, SetUp, MkdirAll, OpenForPut, PutFails,
             WriteSome, Write, WriteStopsEarly, Sync, Stat, Unlink, CleanedUp, Look,
             Rmdir, Readdir, StatAll, DeleteFails, ListFails, Does, Answers, StepsOf

LEMMA GetPlaces ==
  ASSUME NEW c, NEW i \in Call, Working(c, i), kind[i] = "get"
  PROVE  /\ ~PutWorks(i) /\ ~PutWorks(i)'
         /\ TakenEffect(i) <=> worker[i] = "answer"
         /\ TakenEffect(i)' <=> worker'[i] = "answer"
         /\ ~Disturbed(i) /\ ~Disturbed(i)' /\ ~Writes(i)'
<1>1. kind'[i] = "get" /\ worker[i] \notin {"gone", "leaked"} /\ worker'[i] \notin {"gone", "leaked"}
  BY WorkingFacts
<1>. QED  BY <1>1 DEF PutWorks, TakenEffect, Disturbed, Writes

(* Get removes a file that is no entry. *)
LEMMA GetRemovesMaps ==
  ASSUME NEW c, NEW i \in Call, Working(c, i), kind[i] = "get", GetPurges(i)
  PROVE  Blob!GetRemoves(c)
<1>. USE DEF Working, IInv
<1>1. /\ key[i] \in Key /\ OutcomeOpen(i)
      /\ UNCHANGED <<call, pc, kind, key, blank>>
  BY WorkingFacts DEF WorkerInv
<1>2. /\ worker[i] = "purge" /\ worker'[i] = "answer" /\ UNCHANGED <<outcome, tree, data>>
      /\ entry' = [entry EXCEPT ![key[i]] = None] /\ entry[key[i]] # None
  BY DEF GetPurges, Purge, Does, TypeOK
<1>3. Seen(i)' = Done
  BY <1>2, <1>1, SeenNext DEF OutcomeOpen
<1>4. /\ c \in Client /\ Asked(c, "get") /\ AnswersNow(c, Done)
      /\ RequestOf(c).key = key[i]
  BY <1>2, <1>3, GetPlaces, WorkerAnswers
<1>5. DiskValue(key[i]) = -1
  <2>1. NoEntry(key[i])
    BY <1>2 DEF AloneInv, SawEmpty
  <2>. QED  BY <1>2, <2>1 DEF NoEntry, DiskValue
<1>6. \A k \in Key : DiskValue(k)' = IF k = key[i] THEN None ELSE DiskValue(k)
  BY <1>1, <1>2 DEF DiskValue, TypeOK
<1>7. \A k \in Key : StoredUnder(k) = DiskValue(k) /\ StoredUnder(k)' = DiskValue(k)'
  BY GetPlaces, WorkerStore
<1>8. ASSUME NEW d \in Client, d # c
      PROVE  \/ RequestOf(d)' = RequestOf(d)
             \/ /\ Asked(d, "list") /\ Path[RequestOf(d).key] = Path[key[i]]
                /\ RequestOf(d)' = [RequestOf(d) EXCEPT !.disturbed = TRUE]
  <2>. PICK j : j = call[d]
    OBVIOUS
  <2>1. RequestOf(d) = IF pc[d] = "idle" \/ kind[j] = "init" THEN [kind |-> "none"] ELSE Request(j)
    BY RequestNow
  <2>2. RequestOf(d)' = IF pc[d] = "idle" \/ kind[j] = "init" THEN [kind |-> "none"]
                        ELSE Request(j)'
    BY <1>1, RequestNext
  <2>3. CASE pc[d] = "idle" \/ kind[j] = "init"
    BY <2>1, <2>2, <2>3
  <2>4. CASE ~(pc[d] = "idle" \/ kind[j] = "init")
    <3>1. j \in Call /\ j # i
      BY <1>8, <2>4 DEF Calls
    <3>2. /\ kind'[j] = kind[j] /\ key'[j] = key[j] /\ blank'[j] = blank[j]
          /\ worker'[j] = worker[j] /\ outcome'[j] = outcome[j]
      BY <3>1, OtherRequests
    <3>3. TakenEffect(j)' <=> TakenEffect(j)
      BY <3>2 DEF TakenEffect, PutWorks
    <3>4. CASE Disturbed(j)' <=> Disturbed(j)
      <4>1. Request(j)' = Request(j)
        BY <3>1, <3>2, <3>3, <3>4, RequestStays
      <4>. QED  BY <2>1, <2>2, <4>1
    <3>5. CASE Disturbed(j) /\ ~Disturbed(j)'
      <4>1. Names(Path[key[j]])' \subseteq Names(Path[key[j]])
        <5>1. \A k \in Key : entry'[k] # None => entry[k] # None
          BY <1>1, <1>2 DEF TypeOK
        <5>. QED  BY <1>2, <3>2, <5>1 DEF Names
      <4>. QED  BY <3>2, <3>5, <4>1 DEF Disturbed
    <3>6. CASE ~Disturbed(j) /\ Disturbed(j)'
      <4>1. kind[j] = "list" /\ worker[j] = "statall" /\ key[j] \in Key
        BY <3>1, <3>2, <3>6 DEF Disturbed, TypeOK
      <4>2. Path[key[j]] = Path[key[i]]
        <5>1. Names(Path[key[j]])' # Names(Path[key[j]])
          BY <3>2, <3>6 DEF Disturbed
        <5>2. \A k \in Key : k # key[i] => entry'[k] = entry[k]
          BY <1>1, <1>2 DEF TypeOK
        <5>. QED  BY <1>2, <3>2, <5>1, <5>2 DEF Names
      <4>3. ~TakenEffect(j)
        BY <4>1 DEF TakenEffect, PutWorks
      <4>4. Request(j) = [kind |-> "list", key |-> key[j], value |-> PutValue(j), done |-> FALSE,
                          result |-> Done, disturbed |-> FALSE]
        <5>1. TakenEffect(j) = FALSE /\ Disturbed(j) = FALSE
          BY <3>6, <4>3, Zenon DEF TakenEffect, Disturbed
        <5>. QED  BY <4>1, <5>1 DEF Request
      <4>5. Request(j)' = [kind |-> "list", key |-> key[j], value |-> PutValue(j), done |-> FALSE,
                           result |-> Done, disturbed |-> TRUE]
        <5>1. TakenEffect(j)' = FALSE /\ Disturbed(j)' = TRUE
          BY <3>3, <3>6, <4>3, Zenon DEF TakenEffect, Disturbed
        <5>2. PutValue(j)' = PutValue(j)
          BY <3>2 DEF PutValue
        <5>. QED  BY <3>2, <4>1, <5>1, <5>2 DEF Request
      <4>6. RequestOf(d) = Request(j) /\ RequestOf(d)' = Request(j)'
        BY <2>1, <2>2, <2>4
      <4>7. RequestOf(d)' = [RequestOf(d) EXCEPT !.disturbed = TRUE]
        <5>1. PICK yes, no, what, at, value, before :
                /\ yes = TRUE /\ no = FALSE /\ before = Done
                /\ what = "list" /\ at = key[j] /\ value = PutValue(j)
          OBVIOUS
        <5>. DEFINE r == [kind |-> what, key |-> at, value |-> value, done |-> no,
                          result |-> before, disturbed |-> no]
                    s == [kind |-> what, key |-> at, value |-> value, done |-> no,
                          result |-> before, disturbed |-> yes]
        <5>2. s = [r EXCEPT !.disturbed = yes]
          OBVIOUS
        <5>3. RequestOf(d) = r /\ RequestOf(d)' = s
          BY <4>4, <4>5, <4>6, <5>1
        <5>. HIDE DEF r, s
        <5>4. RequestOf(d)' = [RequestOf(d) EXCEPT !.disturbed = yes]
          BY <5>2, <5>3, Zenon
        <5>. QED  BY <5>1, <5>4
      <4>8. RequestOf(d).kind = "list" /\ RequestOf(d).done = FALSE /\ RequestOf(d).key = key[j]
        BY <4>4, <4>6
      <4>. QED  BY <4>2, <4>7, <4>8 DEF Asked
    <3>. QED  BY <3>4, <3>5, <3>6
  <2>. QED  BY <2>3, <2>4
<1>9. /\ StoredUnder(key[i]) = -1
      /\ \A k \in Key : StoredUnder(k)' = IF k = key[i] THEN None ELSE StoredUnder(k)
  BY <1>1, <1>5, <1>6, <1>7
<1>. QED  BY <1>1, <1>4, <1>8, <1>9, BlobGetRemoves

LEMMA GetWorkerMaps ==
  ASSUME NEW c, NEW i \in Call, Working(c, i), kind[i] = "get"
  PROVE  Blob!Get(c) \/ Blob!GetRemoves(c) \/ UNCHANGED Blob!vars
<1>. USE DEF Working, IInv
<1>1. /\ key[i] \in Key /\ UNCHANGED <<kind, key, blank>>
      /\ GetProgress(i) /\ OutcomeOpen(i) /\ StepFits(i)
  BY WorkingFacts DEF WorkerInv
(* The map has the value of the disk, and a Get answers with it. *)
<1>2. ASSUME UNCHANGED <<entry, data>>
      PROVE  StoreStays /\ StoredUnder(key[i]) = DiskValue(key[i])
  BY <1>1, <1>2, GetPlaces, DiskKeeps, WorkerStore
<1>3. ASSUME UNCHANGED <<entry, data>>, ~GetPurges(i), worker[i] # "answer", worker'[i] = "answer",
             NEW value, DiskValue(key[i]) = value,
             Seen(i)' = IF value = -1 THEN Done ELSE [Done EXCEPT !.value = value]
      PROVE  Blob!Get(c)
  <2>1. ~TakenEffect(i) /\ TakenEffect(i)' /\ OthersAsk(c)
    BY <1>3, GetPlaces, WorkerRequests
  <2>2. /\ c \in Client /\ Asked(c, "get") /\ AnswersNow(c, Seen(i)')
        /\ RequestOf(c).key = key[i]
    BY <2>1, GetPlaces, WorkerAnswers
  <2>. QED  BY <1>1, <1>2, <1>3, <2>1, <2>2, BlobGets
<1>4. [Done EXCEPT !.value = None] = Done /\ None # -1
  <2>1. [Done EXCEPT !.value = None] = Done
    BY DoneExcept, Zenon DEF Done
  <2>. QED  BY <2>1 DEF None
<1>5. CASE Log(i)
  <2>1. /\ worker[i] \in DOMAIN AfterLog /\ worker'[i] = AfterLog[worker[i]]
        /\ UNCHANGED <<entry, data, outcome>> /\ worker[i] # "purge"
    BY <1>5 DEF Log, Does, disk, TypeOK, AfterLog
  <2>2. ~GetPurges(i)
    BY <2>1 DEF GetPurges, Purge, Does
  <2>3. CASE worker[i] = "tell_missing"
    <3>1. worker'[i] = "answer" /\ entry[key[i]] = None /\ outcome'[i] = Done
      BY <1>1, <2>1, <2>3 DEF AfterLog, GetProgress, OutcomeOpen
    <3>2. DiskValue(key[i]) = None /\ Seen(i)' = Done
      BY <3>1, SeenNext DEF DiskValue
    <3>. QED  BY <1>3, <1>4, <2>1, <2>2, <2>3, <3>1, <3>2
  <2>4. CASE worker[i] # "tell_missing"
    <3>1. worker[i] # "answer" /\ worker'[i] # "answer"
      BY <2>1, <2>4, AfterLogSteps DEF AfterLog
    <3>2. Request(i)' = Request(i)
      BY <1>1, <3>1, GetPlaces, RequestStays
    <3>. QED  BY <1>2, <2>1, <2>2, <3>2, WorkerStutters
  <2>. QED  BY <2>3, <2>4
<1>6. CASE StatForGet(i) \/ StatForGetFails(i) \/ OpenForGet(i)
  <2>1. /\ worker[i] \in {"fstat", "find"} /\ UNCHANGED <<entry, data, outcome>>
        /\ worker'[i] \in {"tell_purge", "tell_find", "tell_missing", "tell_read"}
    BY <1>6 DEF StatForGet, StatForGetFails, OpenForGet, Does, disk, TypeOK
  <2>2. ~GetPurges(i)
    BY <2>1 DEF GetPurges, Purge, Does
  <2>3. Request(i)' = Request(i)
    BY <1>1, <2>1, GetPlaces, RequestStays
  <2>. QED  BY <1>2, <2>1, <2>2, <2>3, WorkerStutters
<1>7. CASE Reject(i)
  <2>1. /\ worker[i] = "tell_fstat" /\ worker'[i] = "answer" /\ outcome'[i] = Failed
        /\ UNCHANGED <<entry, data>> /\ key[i] \in BadKey
    BY <1>7 DEF Reject, Rejected, Answers, Does, disk, TypeOK, FirstStep
  <2>2. ~GetPurges(i)
    BY <2>1 DEF GetPurges, Purge, Does
  <2>3. DiskValue(key[i]) = None
    BY <2>1 DEF DiskValue, FInv, BadKeysEmpty
  <2>4. Seen(i)' = Done
    BY <2>1, GetPlaces, SeenNext
  <2>. QED  BY <1>3, <1>4, <2>1, <2>2, <2>3, <2>4
<1>8. CASE Read(i)
  <2>. DEFINE bytes == data[file[i]]
  <2>1. /\ worker[i] = "read" /\ worker'[i] = "answer" /\ UNCHANGED <<entry, data>>
        /\ outcome'[i] = IF bytes \notin Call THEN Failed ELSE [Done EXCEPT !.value = bytes]
    BY <1>8 DEF Read, Answers, Does, disk, TypeOK, Sound
  <2>2. ~GetPurges(i)
    BY <2>1 DEF GetPurges, Purge, Does
  <2>3. Seen(i)' = IF bytes \notin Call THEN Done ELSE [Done EXCEPT !.value = bytes]
    BY <2>1, GetPlaces, SeenNext
  <2>4. file[i] # None
    BY <2>1 DEF WorkersReady
  <2>5. CASE entry[key[i]] = file[i]
    <3>1. DiskValue(key[i]) = IF bytes \in Call THEN bytes ELSE -1
      BY <2>4, <2>5 DEF DiskValue
    <3>2. -1 \notin Call
      BY DEF Call
    <3>. QED  BY <1>3, <2>1, <2>2, <2>3, <3>1, <3>2
  <2>6. CASE entry[key[i]] = None /\ bytes \notin Call
    <3>1. DiskValue(key[i]) = None
      BY <2>6 DEF DiskValue
    <3>. QED  BY <1>3, <1>4, <2>1, <2>2, <2>3, <2>6, <3>1
  <2>. QED  BY <1>1, <2>1, <2>5, <2>6 DEF GetProgress
<1>9. CASE Purge(i)
  <2>1. CASE entry[key[i]] # None
    BY <1>9, <2>1, GetRemovesMaps DEF GetPurges
  <2>2. CASE entry[key[i]] = None
    <3>1. worker[i] = "purge" /\ worker'[i] = "answer" /\ UNCHANGED <<entry, data, outcome>>
      BY <1>1, <1>9, <2>2 DEF Purge, Does, TypeOK
    <3>2. DiskValue(key[i]) = None /\ Seen(i)' = Done
      BY <1>1, <2>2, <3>1, SeenNext DEF DiskValue, OutcomeOpen
    <3>3. ~GetPurges(i)
      BY <2>2 DEF GetPurges
    <3>. QED  BY <1>3, <1>4, <3>1, <3>2, <3>3
  <2>. QED  BY <2>1, <2>2
<1>10. CASE GetFails(i)
  <2>1. /\ worker[i] \in {"find", "read"} /\ worker'[i] = "answer" /\ outcome'[i] = Failed
        /\ UNCHANGED <<entry, data>> /\ key[i] \in Flaky
    BY <1>10 DEF GetFails, Answers, Does, disk, TypeOK
  <2>2. ~GetPurges(i)
    BY <2>1 DEF GetPurges, Purge, Does
  <2>3. ~TakenEffect(i) /\ TakenEffect(i)' /\ OthersAsk(c) /\ StoreStays
    BY <1>2, <2>1, <2>2, GetPlaces, WorkerRequests
  <2>4. Seen(i)' = Done
    BY <2>1, GetPlaces, SeenNext
  <2>5. /\ c \in Client /\ Asked(c, "get") /\ AnswersNow(c, Done)
        /\ RequestOf(c).key \in Flaky
    BY <2>1, <2>3, <2>4, GetPlaces, WorkerAnswers
  <2>. QED  BY <2>3, <2>5, BlobGetFails
<1>. QED  BY <1>5, <1>6, <1>7, <1>8, <1>9, <1>10, GetSteps
-----------------------------------------------------------------------------
(* Delete.                                                                 *)

LEMMA DeleteWorkerSteps ==
  ASSUME NEW c, NEW i \in Call, Working(c, i), kind[i] = "delete"
  PROVE  \/ Log(i) \/ Reject(i) \/ Unlink(i) \/ CleanedUp(i) \/ Look(i) \/ Rmdir(i)
         \/ DeleteFails(i)
<1>1. StepFits(i) /\ worker[i] \in StepsOf["delete"]
  BY WorkingFacts DEF WorkerInv, StepFits
<1>. QED  BY <1>1 DEF Working, WorkerStep, SetUp, MkdirAll, OpenForPut, PutFails,
             WriteSome, Write, WriteStopsEarly, Sync, Stat, Purge, StatForGet,
             StatForGetFails, OpenForGet, Read, GetFails, Readdir, StatAll, ListFails,
             Does, Answers, StepsOf

LEMMA DeletePlaces ==
  ASSUME NEW c, NEW i \in Call, Working(c, i), kind[i] = "delete"
  PROVE  /\ ~PutWorks(i) /\ ~PutWorks(i)'
         /\ TakenEffect(i) <=> worker[i] \in {"tell_look", "look", "rmdir", "answer"}
         /\ TakenEffect(i)' <=> worker'[i] \in {"tell_look", "look", "rmdir", "answer"}
         /\ ~Disturbed(i) /\ ~Disturbed(i)' /\ ~GetPurges(i) /\ Writes(i)'
<1>1. kind'[i] = "delete" /\ worker[i] \notin {"gone", "leaked"}
      /\ worker'[i] \notin {"gone", "leaked"}
  BY WorkingFacts
<1>. QED  BY <1>1 DEF PutWorks, TakenEffect, Disturbed, GetPurges, Writes

LEMMA DeleteWorkerMaps ==
  ASSUME NEW c, NEW i \in Call, Working(c, i), kind[i] = "delete"
  PROVE  Blob!Delete(c) \/ Blob!CleanUpFails(c) \/ UNCHANGED Blob!vars
<1>. USE DEF Working, IInv
<1>1. /\ key[i] \in Key /\ UNCHANGED <<kind, key, blank>>
      /\ OutcomeOpen(i) /\ StepFits(i) /\ RmdirReady(i)
  BY WorkingFacts DEF WorkerInv
<1>2. ASSUME UNCHANGED <<entry, data, outcome>>, TakenEffect(i)' <=> TakenEffect(i)
      PROVE  UNCHANGED Blob!vars
  <2>1. StoreStays
    BY <1>2, DeletePlaces, DiskKeeps
  <2>2. Request(i)' = Request(i)
    BY <1>1, <1>2, DeletePlaces, RequestStays
  <2>. QED  BY <2>1, <2>2, DeletePlaces, WorkerStutters
<1>3. CASE Log(i)
  <2>1. /\ worker[i] \in DOMAIN AfterLog /\ worker'[i] = AfterLog[worker[i]]
        /\ UNCHANGED <<entry, data, outcome>>
    BY <1>3 DEF Log, Does, disk, TypeOK
  <2>2. worker[i] \in {"tell_unlink", "tell_look"}
    BY <1>1, <2>1 DEF StepFits, StepsOf, AfterLog
  <2>3. \/ worker[i] = "tell_unlink" /\ worker'[i] = "unlink"
        \/ worker[i] = "tell_look" /\ worker'[i] = "look"
    BY <2>1, <2>2 DEF AfterLog
  <2>. QED  BY <1>2, <2>1, <2>3, DeletePlaces
<1>4. CASE Reject(i)
  <2>1. /\ worker[i] = "tell_unlink" /\ worker'[i] = "answer" /\ outcome'[i] = Failed
        /\ UNCHANGED <<entry, data>>
    BY <1>4 DEF Reject, Answers, Does, disk, TypeOK, FirstStep
  <2>2. StoreStays /\ ~TakenEffect(i) /\ TakenEffect(i)' /\ OthersAsk(c)
    BY <2>1, DeletePlaces, DiskKeeps, WorkerRequests
  <2>3. Seen(i)' = Failed
    BY <2>1, DeletePlaces, SeenNext
  <2>4. c \in Client /\ Asked(c, "delete") /\ AnswersNow(c, Failed)
    BY <2>2, <2>3, DeletePlaces, WorkerAnswers
  <2>. QED  BY <2>2, <2>4, BlobDeleteFails
<1>5. CASE Unlink(i)
  <2>1. /\ worker[i] = "unlink" /\ worker'[i] = "tell_look" /\ UNCHANGED <<outcome, data>>
        /\ entry' = [entry EXCEPT ![key[i]] = None]
    BY <1>5 DEF Unlink, Does, TypeOK
  <2>2. ~TakenEffect(i) /\ TakenEffect(i)' /\ OthersAsk(c)
    BY <2>1, DeletePlaces, WorkerRequests
  <2>3. Seen(i)' = Done
    BY <1>1, <2>1, SeenNext DEF OutcomeOpen
  <2>4. /\ c \in Client /\ Asked(c, "delete") /\ AnswersNow(c, Done)
        /\ RequestOf(c).key = key[i]
    BY <2>2, <2>3, DeletePlaces, WorkerAnswers
  <2>5. \A k \in Key : DiskValue(k)' = IF k = key[i] THEN None ELSE DiskValue(k)
    BY <1>1, <2>1 DEF DiskValue, TypeOK
  <2>6. \A k \in Key : StoredUnder(k)' = IF k = key[i] THEN None ELSE StoredUnder(k)
    BY <2>5, DeletePlaces, WorkerStore
  <2>7. /\ RequestOf(c).key \in Key
        /\ \A k \in Key : StoredUnder(k)' = IF k = RequestOf(c).key THEN None ELSE StoredUnder(k)
    BY <1>1, <2>4, <2>6, Zenon
  <2>. QED  BY <2>2, <2>4, <2>7, BlobDeletes, Zenon
<1>6. CASE CleanedUp(i) \/ Look(i) \/ Rmdir(i)
  <2>1. /\ worker[i] \in {"look", "rmdir"} /\ worker'[i] \in {"look", "rmdir", "answer"}
        /\ UNCHANGED <<entry, data, outcome>>
    <3>1. worker \in [Call -> Steps]
      BY DEF TypeOK
    <3>2. CASE CleanedUp(i)
      BY <3>1, <3>2 DEF CleanedUp, Does, disk
    <3>3. CASE Look(i)
      BY <3>1, <3>3 DEF Look, Does, disk
    <3>4. CASE Rmdir(i)
      <4>1. worker[i] = "rmdir"
        BY <3>4 DEF Rmdir, Answers, Does
      <4>2. Exists(Here(i)) /\ Names(Here(i)) = {}
        BY <1>1, <4>1 DEF RmdirReady
      <4>3. Does(i, "rmdir", "look") /\ UNCHANGED <<outcome, entry, data>>
        BY <3>4, <4>2, Zenon DEF Rmdir
      <4>. QED  BY <3>1, <4>3 DEF Does
    <3>. QED  BY <1>6, <3>2, <3>3, <3>4
  <2>. QED  BY <1>2, <2>1, DeletePlaces
<1>7. CASE DeleteFails(i)
  <2>1. /\ worker[i] \in {"unlink", "look", "rmdir"} /\ worker'[i] = "answer"
        /\ outcome'[i] = Failed /\ UNCHANGED <<entry, data>> /\ key[i] \in Flaky
    BY <1>7 DEF DeleteFails, Answers, Does, disk, TypeOK
  <2>2. StoreStays /\ TakenEffect(i)' /\ OthersAsk(c)
    BY <2>1, DeletePlaces, DiskKeeps, WorkerRequests
  <2>3. Seen(i)' = Failed
    BY <2>1, DeletePlaces, SeenNext
  <2>4. CASE worker[i] = "unlink"
    <3>1. ~TakenEffect(i)
      BY <2>4, DeletePlaces
    <3>2. c \in Client /\ Asked(c, "delete") /\ AnswersNow(c, Failed)
      BY <2>2, <2>3, <3>1, DeletePlaces, WorkerAnswers
    <3>. QED  BY <2>2, <3>2, BlobDeleteFails
  <2>5. CASE worker[i] # "unlink"
    <3>1. TakenEffect(i)
      BY <2>1, <2>5, DeletePlaces
    <3>2. /\ c \in Client /\ RequestOf(c).kind = "delete" /\ RequestOf(c).done
          /\ AnswersNow(c, Failed) /\ RequestOf(c).key = key[i]
      BY <2>2, <2>3, <3>1, DeletePlaces, WorkerAnswersAgain
    <3>. QED  BY <2>1, <2>2, <3>2, BlobCleanUpFails
  <2>. QED  BY <2>4, <2>5
<1>. QED  BY <1>3, <1>4, <1>5, <1>6, <1>7, DeleteWorkerSteps
-----------------------------------------------------------------------------
(* List.                                                                   *)

LEMMA ListSteps ==
  ASSUME NEW c, NEW i \in Call, Working(c, i), kind[i] = "list"
  PROVE  Log(i) \/ Reject(i) \/ Readdir(i) \/ StatAll(i) \/ ListFails(i)
<1>1. StepFits(i) /\ worker[i] \in StepsOf["list"]
  BY WorkingFacts DEF WorkerInv, StepFits
<1>. QED  BY <1>1 DEF Working, WorkerStep, SetUp, MkdirAll, OpenForPut, PutFails,
             WriteSome, Write, WriteStopsEarly, Sync, Stat, Purge, StatForGet,
             StatForGetFails, OpenForGet, Read, GetFails, Unlink, CleanedUp, Look,
             Rmdir, DeleteFails, Does, Answers, StepsOf

LEMMA ListPlaces ==
  ASSUME NEW c, NEW i \in Call, Working(c, i), kind[i] = "list"
  PROVE  /\ ~PutWorks(i) /\ ~PutWorks(i)'
         /\ TakenEffect(i) <=> worker[i] = "answer"
         /\ TakenEffect(i)' <=> worker'[i] = "answer"
         /\ ~GetPurges(i) /\ ~Writes(i)'
<1>1. kind'[i] = "list" /\ worker[i] \notin {"gone", "leaked"}
      /\ worker'[i] \notin {"gone", "leaked"}
  BY WorkingFacts
<1>. QED  BY <1>1 DEF PutWorks, TakenEffect, GetPurges, Writes

(* The keys that a directory contains. *)
LEMMA KeysOf ==
  ASSUME IInv, NEW dir
  PROVE  {k \in Key : k \in Names(dir)} = {k \in Key : entry[k] # None /\ Path[k] = dir}
<1>1. \A k \in Key : k \notin tree
  <2>1. ASSUME NEW h \in Key, NEW n \in 1 .. Len(Path[h])
        PROVE  Ancestor(h, n) \in Seq(Nat)
    <3>1. Path[h] \in Seq(Nat)
      BY StorageAssumption
    <3>. QED  BY <3>1 DEF Ancestor
  <2>2. Dirs \subseteq Seq(Nat)
    BY <2>1 DEF Dirs, Ancestors
  <2>3. tree \subseteq Dirs
    BY DEF IInv, TypeOK
  <2>. QED  BY <2>2, <2>3, StorageAssumption
<1>. QED  BY <1>1 DEF Names

LEMMA ListWorkerMaps ==
  ASSUME NEW c, NEW i \in Call, Working(c, i), kind[i] = "list"
  PROVE  Blob!List(c) \/ UNCHANGED Blob!vars
<1>. USE DEF Working, IInv
<1>. DEFINE dir == Path[key[i]]
            found == {k \in Key : entry[k] # None /\ Path[k] = dir}
<1>1. /\ key[i] \in Key /\ UNCHANGED <<kind, key, blank>>
      /\ OutcomeOpen(i) /\ StepFits(i) /\ ListProgress(i) /\ RejectedFirst(i)
  BY WorkingFacts DEF WorkerInv
<1>2. ASSUME UNCHANGED <<entry, data>>
      PROVE  StoreStays /\ {k \in Key : StoredUnder(k) # None /\ Path[k] = dir} = found
  <2>1. StoreStays
    BY <1>2, ListPlaces, DiskKeeps
  <2>2. \A k \in Key : DiskValue(k) # None <=> entry[k] # None
    BY DEF DiskValue, None, Call
  <2>3. \A k \in Key : StoredUnder(k) # None <=> entry[k] # None
    BY <2>2, ListPlaces, WorkerStore
  <2>. QED  BY <2>1, <2>3
(* Without a name there may be nothing to list, and an error shows none. *)
<1>3. ASSUME UNCHANGED <<entry, data>>, worker[i] # "answer", worker'[i] = "answer",
             NEW names, names = IF key[i] \in BadKey \/ Disturbed(i) THEN {} ELSE found,
             Seen(i)' = [Done EXCEPT !.names = names]
      PROVE  Blob!List(c)
  <2>1. ~Disturbed(i)'
    BY <1>3 DEF Disturbed
  <2>2. ~TakenEffect(i) /\ TakenEffect(i)' /\ OthersAsk(c)
    BY <1>3, ListPlaces, WorkerRequests
  <2>3. /\ c \in Client /\ Asked(c, "list") /\ AnswersNow(c, Seen(i)')
        /\ RequestOf(c).key = key[i] /\ RequestOf(c).disturbed = Disturbed(i)
    BY <2>1, <2>2, WorkerAnswers
  <2>4. names = IF RequestOf(c).key \in BadKey \/ RequestOf(c).disturbed THEN {}
                ELSE {k \in Key : StoredUnder(k) # None /\ Path[k] = Path[RequestOf(c).key]}
    BY <1>2, <1>3, <2>3
  <2>. QED  BY <1>2, <1>3, <2>2, <2>3, <2>4, BlobLists
<1>4. [Done EXCEPT !.names = {}] = Done
  BY DoneExcept, Zenon DEF Done
<1>5. CASE Readdir(i) \/ (Log(i) /\ worker[i] # "tell_missing")
  <2>1. /\ UNCHANGED <<tree, entry, data>>
        /\ worker[i] \notin {"answer", "statall"} /\ worker'[i] # "answer"
        /\ worker'[i] = "statall" => outcome'[i].names = Names(dir)
    <3>1. CASE Readdir(i)
      BY <1>1, <3>1 DEF Readdir, Does, disk, TypeOK, Done
    <3>2. CASE Log(i) /\ worker[i] # "tell_missing"
      BY <3>2 DEF Log, Does, disk, TypeOK, AfterLog
    <3>. QED  BY <1>5, <3>1, <3>2
  <2>2. Names(dir)' = Names(dir)
    BY <1>1, <2>1 DEF Names
  <2>3. ~Disturbed(i) /\ ~Disturbed(i)'
    BY <2>1, <2>2 DEF Disturbed
  <2>4. Request(i)' = Request(i)
    BY <1>1, <2>1, <2>3, ListPlaces, RequestStays
  <2>. QED  BY <1>2, <2>1, <2>4, ListPlaces, WorkerStutters
<1>6. CASE Log(i) /\ worker[i] = "tell_missing"
  <2>1. worker'[i] = "answer" /\ outcome'[i] = Done /\ UNCHANGED <<entry, data>>
    BY <1>1, <1>6 DEF Log, Does, disk, TypeOK, AfterLog, OutcomeOpen
  <2>2. ~Exists(dir)
    BY <1>6 , <1>1 DEF ListProgress
  <2>3. found = {}
    BY <2>2 DEF FInv, TreeHolds
  <2>4. Seen(i)' = Done
    BY <2>1, SeenNext
  <2>. HIDE DEF found
  <2>. QED  BY <1>3, <1>4, <1>6, <2>1, <2>3, <2>4
<1>7. CASE Reject(i)
  <2>1. /\ worker[i] = "tell_readdir" /\ worker'[i] = "answer" /\ outcome'[i] = Failed
        /\ UNCHANGED <<entry, data>> /\ key[i] \in BadKey
    BY <1>7 DEF Reject, Rejected, Answers, Does, disk, TypeOK, FirstStep
  <2>2. Seen(i)' = Done
    BY <2>1, ListPlaces, SeenNext
  <2>. QED  BY <1>3, <1>4, <2>1, <2>2
<1>8. CASE StatAll(i)
  <2>. DEFINE names == outcome[i].names
  <2>1. /\ worker[i] = "statall" /\ worker'[i] = "answer" /\ UNCHANGED <<entry, data>>
        /\ outcome'[i] = IF names \subseteq Names(dir) THEN outcome[i] ELSE Failed
    BY <1>8 DEF StatAll, Does, Answers, disk, TypeOK
  <2>2. /\ outcome[i].ok /\ outcome[i].value = None /\ Names(dir) \subseteq names
    BY <1>1, <2>1 DEF OutcomeOpen
  <2>3. key[i] \notin BadKey
    BY <1>1, <2>1 DEF RejectedFirst, Rejected, FirstStep
  <2>4. CASE names \subseteq Names(dir)
    <3>1. ~Disturbed(i)
      BY <2>4 DEF Disturbed
    <3>2. names = Names(dir)
      BY <2>2, <2>4
    <3>3. outcome[i] = [Done EXCEPT !.names = Names(dir)]
      <4>1. outcome[i] \in Results /\ outcome[i].ok \in BOOLEAN
        BY TypesSplit DEF WorkerTypes, Results
      <4>2. outcome[i] = [ok |-> outcome[i].ok, value |-> outcome[i].value,
                          names |-> outcome[i].names]
        BY <4>1 DEF Results
      <4>3. outcome[i].ok = TRUE
        BY <2>2, <4>1
      <4>4. outcome[i] = [ok |-> TRUE, value |-> None, names |-> Names(dir)]
        BY <2>2, <3>2, <4>2, <4>3, Zenon
      <4>. QED  BY <4>4, DoneExcept, Zenon
    <3>4. Seen(i)' = [Done EXCEPT !.names = {k \in Key : k \in Names(dir)}]
      BY <2>1, <2>4, <3>3, SeenNext
    <3>5. {k \in Key : k \in Names(dir)} = found
      BY KeysOf
    <3>. HIDE DEF found
    <3>6. Seen(i)' = [Done EXCEPT !.names = found]
      BY <3>4, <3>5
    <3>. QED  BY <1>3, <2>1, <2>3, <3>1, <3>6
  <2>5. CASE ~(names \subseteq Names(dir))
    <3>1. Disturbed(i)
      BY <2>1, <2>5 DEF Disturbed
    <3>2. Seen(i)' = Done
      BY <2>1, <2>5, ListPlaces, SeenNext
    <3>. QED  BY <1>3, <1>4, <2>1, <3>1, <3>2
  <2>. QED  BY <2>4, <2>5
<1>9. CASE ListFails(i)
  <2>1. /\ worker[i] \in {"readdir", "statall"} /\ worker'[i] = "answer"
        /\ outcome'[i] = Failed /\ UNCHANGED <<entry, data>> /\ key[i] \in Flaky
    BY <1>9 DEF ListFails, Answers, Does, disk, TypeOK
  <2>2. ~Disturbed(i)'
    BY <2>1 DEF Disturbed
  <2>3. StoreStays /\ ~TakenEffect(i) /\ TakenEffect(i)' /\ OthersAsk(c)
    BY <1>2, <2>1, ListPlaces, WorkerRequests
  <2>4. Seen(i)' = Done
    BY <2>1, ListPlaces, SeenNext
  <2>5. /\ c \in Client /\ Asked(c, "list") /\ AnswersNow(c, Done)
        /\ RequestOf(c).key \in Flaky
    BY <2>1, <2>2, <2>3, <2>4, WorkerAnswers
  <2>. QED  BY <2>3, <2>5, BlobListFails
<1>. QED  BY <1>5, <1>6, <1>7, <1>8, <1>9, ListSteps

(* Every step of a worker is one of the map, or is not seen. *)
LEMMA WorkerMaps ==
  ASSUME Sound, IInv, AloneInv, FInv, NEW i \in Call, WorkerStep(i)
  PROVE  [Blob!Next]_Blob!vars
<1>1. PICK c \in Client : Working(c, i)
  BY Caller DEF Working, Calls
<1>2. kind[i] \in Kind
  BY <1>1, WorkingFacts
<1>3. \/ UNCHANGED Blob!vars
      \/ Blob!Put(c) \/ Blob!Get(c) \/ Blob!GetRemoves(c) \/ Blob!Delete(c)
      \/ Blob!CleanUpFails(c) \/ Blob!List(c)
  BY <1>1, <1>2, InitWorkerMaps, PutWorkerMaps, GetWorkerMaps, DeleteWorkerMaps, ListWorkerMaps
     DEF Kind
<1>4. c \in Client
  BY <1>1 DEF Working, Calls
<1>. QED  BY <1>3, <1>4, BlobSteps DEF Blob!ClientStep
-----------------------------------------------------------------------------
(* What the steps of the clients are in the map.                           *)

(* A call whose worker, if it moves at all, does not take effect now. *)
SameCall(j) ==
  /\ kind'[j] = kind[j] /\ key'[j] = key[j] /\ blank'[j] = blank[j]
  /\ outcome'[j] = outcome[j]
  /\ \/ worker'[j] = worker[j]
     \/ worker[j] = "off" /\ worker'[j] \in {"gone", FirstStep[kind[j]]}
     \/ worker[j] = "answer" /\ worker'[j] \in {"gone", "leaked"}

LEMMA SameCallWorks ==
  ASSUME NEW j \in Call, SameCall(j), kind[j] \in Kind \cup {"none"}
  PROVE  /\ PutWorks(j)' <=> PutWorks(j)
         /\ PutValue(j)' = PutValue(j)
<1>1. PutWorks(j)' <=> PutWorks(j)
  <2>1. kind[j] = "put" => FirstStep[kind[j]] = "tell_mkdir"
    BY DEF FirstStep
  <2>. QED  BY <2>1 DEF SameCall, PutWorks
<1>. QED  BY <1>1 DEF SameCall, PutValue

LEMMA SameCallRequest ==
  ASSUME NEW j \in Call, SameCall(j), UNCHANGED disk, kind[j] \in Kind \ {"init"},
         worker[j] = "off" => worker'[j] # "gone"
  PROVE  Request(j)' = Request(j)
<1>1. FirstStep[kind[j]] \in {"tell_mkdir", "tell_fstat", "tell_unlink", "tell_readdir"}
  BY DEF FirstStep, Kind
<1>2. TakenEffect(j)' <=> TakenEffect(j)
  <2>1. CASE worker'[j] = worker[j]
    BY <2>1 DEF SameCall, TakenEffect, PutWorks
  <2>2. CASE worker[j] = "off" /\ worker'[j] = FirstStep[kind[j]]
    BY <1>1, <2>2 DEF TakenEffect, PutWorks
  <2>3. CASE worker[j] = "answer" /\ worker'[j] \in {"gone", "leaked"}
    BY <2>3 DEF TakenEffect
  <2>. QED  BY <2>1, <2>2, <2>3 DEF SameCall
<1>3. Disturbed(j)' <=> Disturbed(j)
  <2>1. CASE worker'[j] = worker[j]
    BY <2>1 DEF SameCall, Disturbed, Names, disk
  <2>2. CASE worker'[j] # worker[j]
    BY <1>1, <2>2 DEF SameCall, Disturbed
  <2>. QED  BY <2>1, <2>2
<1>. QED  BY <1>2, <1>3, RequestStays DEF SameCall

(* The step of a client that asks for something leaves the others alone. *)
LEMMA OthersStay ==
  ASSUME IInv, NEW c \in Client, UNCHANGED disk,
         \A d \in Client : d # c => pc'[d] = pc[d] /\ call'[d] = call[d],
         \A d \in Client : d # c /\ pc[d] # "idle" =>
           /\ SameCall(call[d])
           /\ worker'[call[d]] = worker[call[d]]
  PROVE  OthersAsk(c)
<1>1. ASSUME NEW d \in Client, d # c
      PROVE  RequestOf(d)' = RequestOf(d)
  <2>. PICK j : j = call[d]
    OBVIOUS
  <2>1. RequestOf(d) = IF pc[d] = "idle" \/ kind[j] = "init" THEN [kind |-> "none"] ELSE Request(j)
    BY RequestNow
  <2>2. pc'[d] = pc[d] /\ call'[d] = j
    BY <1>1
  <2>3. RequestOf(d)' = IF pc[d] = "idle" \/ kind'[j] = "init" THEN [kind |-> "none"]
                        ELSE Request(j)'
    BY <2>2, RequestNext
  <2>4. CASE pc[d] = "idle"
    BY <2>1, <2>3, <2>4
  <2>5. CASE pc[d] # "idle"
    <3>1. j \in Call /\ kind[j] \in Kind /\ SameCall(j) /\ worker'[j] = worker[j]
      BY <1>1, <2>5 DEF IInv, CallsIssued
    <3>2. kind'[j] = kind[j]
      BY <3>1 DEF SameCall
    <3>3. kind[j] # "init" => Request(j)' = Request(j)
      BY <3>1, SameCallRequest
    <3>. QED  BY <2>1, <2>3, <3>2, <3>3
  <2>. QED  BY <2>4, <2>5
<1>. QED  BY <1>1 DEF OthersAsk

LEMMA AskMaps ==
  ASSUME IInv, FInv, NEW c \in Client, Invoke(c) \/ Refuse(c) \/ CallInit(c)
  PROVE  Blob!Invoke(c) \/ UNCHANGED Blob!vars
<1>. USE DEF IInv
<1>. PICK n : n = issued'
  OBVIOUS
<1>1. /\ pc[c] = "idle" /\ n = issued + 1 /\ n \in Call
      /\ \A i \in Call : i # n => kind'[i] = kind[i] /\ key'[i] = key[i] /\ blank'[i] = blank[i]
      /\ ~CallInit(c) => kind'[n] \in Kind \ {"init"} /\ key'[n] \in Key
  <2>1. CASE Invoke(c) \/ Refuse(c)
    <3>1. Asks(c)
      BY <2>1 DEF Invoke, Refuse
    <3>2. \A i \in Call : i # n => blank'[i] = blank[i]
      BY <3>1 DEF Asks, TypeOK
    <3>. QED  BY <2>1, <3>1, <3>2, AsksNext
  <2>2. CASE CallInit(c)
    BY <2>2, StorageAssumption DEF CallInit, Goes, TypeOK, Call
  <2>. QED  BY <2>1, <2>2
<1>2. /\ UNCHANGED <<worker, entry, data, disk>>
      /\ \A d \in Client : d # c => pc'[d] = pc[d] /\ call'[d] = call[d]
      /\ \A i \in Call : i # n => outcome'[i] = outcome[i]
  BY DEF Invoke, Refuse, CallInit, Goes, TypeOK, disk
<1>3. n > issued /\ worker[n] = "off" /\ outcome[n] = Done
  <2>1. n > issued
    BY <1>1 DEF TypeOK
  <2>. QED  BY <1>1, <2>1 DEF UnissuedUntouched, FInv, FreshOutcome
<1>4. \A i \in Call : i # n => SameCall(i)
  BY <1>1, <1>2 DEF SameCall
<1>5. OthersAsk(c)
  <2>1. \A d \in Client : pc[d] # "idle" => call[d] \in Call /\ call[d] # n
    BY <1>1, <1>3 DEF CallsIssued, TypeOK
  <2>. QED  BY <1>2, <1>4, <2>1, OthersStay
<1>6. StoreStays
  <2>1. \A j \in Call : j # n => (PutWorks(j)' <=> PutWorks(j)) /\ PutValue(j)' = PutValue(j)
                                 /\ key'[j] = key[j]
    BY <1>1, <1>4, SameCallWorks DEF TypeOK
  <2>2. ~PutWorks(n) /\ ~PutWorks(n)'
    BY <1>2, <1>3 DEF PutWorks
  <2>. QED  BY <1>2, <2>1, <2>2, ClientStore
<1>7. RequestOf(c) = [kind |-> "none"]
  BY <1>1 DEF RequestOf
<1>8. CASE Invoke(c)
  <2>1. pc'[c] = "acquire" /\ call'[c] = n
    BY <1>8 DEF Invoke, TypeOK
  <2>2. outcome' = outcome
    BY <1>8 DEF Invoke
  <2>3. kind'[n] \in {"put", "get", "delete", "list"} /\ key'[n] \in Key
    <3>1. ~CallInit(c)
      BY <2>1 DEF CallInit, Goes, TypeOK
    <3>. QED  BY <1>1, <3>1 DEF Kind
  <2>4. RequestOf(c)' = Request(n)'
    BY <2>1, <2>3, RequestNext
  <2>5. TakenEffect(n)' = FALSE /\ Disturbed(n)' = FALSE
    <3>1. worker'[n] = "off"
      BY <1>2, <1>3
    <3>2. ~TakenEffect(n)' /\ ~Disturbed(n)'
      BY <3>1 DEF TakenEffect, PutWorks, Disturbed
    <3>. QED  BY <3>2, Zenon DEF TakenEffect, Disturbed
  <2>6. PutValue(n)' \in {None} \cup Call
    BY <1>1 DEF PutValue
  <2>7. Request(n)' = [kind |-> kind'[n], key |-> key'[n], value |-> PutValue(n)', done |-> FALSE,
                       result |-> Done, disturbed |-> FALSE]
    BY <2>5 DEF Request
  <2>. QED  BY <1>5, <1>6, <1>7, <2>3, <2>4, <2>6, <2>7, BlobInvokes
<1>9. CASE Refuse(c) \/ CallInit(c)
  <2>1. pc'[c] = "idle" \/ (call'[c] = n /\ kind'[n] = "init")
    BY <1>1, <1>9 DEF Refuse, CallInit, TypeOK
  <2>2. RequestOf(c)' = [kind |-> "none"]
    BY <2>1 DEF RequestOf
  <2>. QED  BY <1>5, <1>6, <1>7, <2>2, BlobStutters DEF OthersAsk
<1>. QED  BY <1>8, <1>9

LEMMA ClientMaps ==
  ASSUME Sound, IInv, FInv, NEW c \in Client, ClientStep(c)
  PROVE  Blob!Return(c) \/ UNCHANGED Blob!vars
<1>. USE DEF IInv
<1>. PICK n : n = call[c]
  OBVIOUS
<1>1. /\ UNCHANGED <<kind, key, blank, outcome, entry, data, disk>>
      /\ pc[c] # "idle"
      /\ \A d \in Client : d # c => pc'[d] = pc[d] /\ call'[d] = call[d]
  BY DEF ClientStep, Acquire, Lock, Answered, Initialized, Cancelled, Unlock,
     Release, Goes, TypeOK, asked, disk
<1>2. n \in Call /\ kind[n] \in Kind
  BY <1>1 DEF CallsIssued
<1>3. \A d \in Client : d # c /\ pc[d] # "idle" => call[d] # n /\ call[d] \in Call
  BY <1>1 DEF FInv, CallsDistinct, CallsIssued
<1>4. /\ \A i \in Call : i # n => worker'[i] = worker[i]
      /\ \/ worker'[n] = worker[n]
         \/ worker[n] = "off" /\ worker'[n] \in {"gone", FirstStep[kind[n]]}
         \/ worker[n] = "answer" /\ worker'[n] \in {"gone", "leaked"}
      /\ worker[n] = "off" /\ worker'[n] = "gone" => kind[n] = "init"
  <2>1. CASE Acquire(c) \/ Unlock(c) \/ Release(c)
    BY <2>1 DEF Acquire, Unlock, Release
  <2>2. CASE Lock(c)
    <3>1. pc[c] = "lock" /\ StartWorker(n)
      BY <2>2 DEF Lock, Goes
    <3>2. worker[n] = "off"
      BY <3>1 DEF FInv, CallPlaces
    <3>3. FirstStep[kind[n]] # "gone"
      BY <1>2, FirstSteps
    <3>. QED  BY <1>2, <3>1, <3>2, <3>3 DEF StartWorker, TypeOK
  <2>3. CASE Answered(c) \/ Initialized(c)
    BY <1>2, <2>3 DEF Answered, Initialized, TypeOK
  <2>. QED  BY <2>1, <2>2, <2>3 DEF ClientStep, Cancelled, Sound
<1>5. \A i \in Call : SameCall(i)
  BY <1>1, <1>4 DEF SameCall
<1>6. StoreStays
  <2>1. \A j \in Call : (PutWorks(j)' <=> PutWorks(j)) /\ PutValue(j)' = PutValue(j)
    BY <1>5, SameCallWorks DEF TypeOK
  <2>. QED  BY <1>1, <2>1, ClientStore
<1>7. OthersAsk(c)
  BY <1>1, <1>3, <1>4, <1>5, OthersStay
<1>8. RequestOf(c) = IF kind[n] = "init" THEN [kind |-> "none"] ELSE Request(n)
  BY <1>1, RequestNow
<1>9. CASE pc'[c] # "idle"
  <2>1. call'[c] = n
    BY <1>9 DEF ClientStep, Acquire, Lock, Answered, Initialized, Cancelled, Unlock,
       Release, Goes, TypeOK
  <2>2. RequestOf(c)' = IF kind[n] = "init" THEN [kind |-> "none"] ELSE Request(n)'
    BY <1>1, <1>9, <2>1, RequestNext
  <2>3. kind[n] # "init" => Request(n)' = Request(n)
    BY <1>1, <1>2, <1>4, <1>5, SameCallRequest
  <2>. QED  BY <1>6, <1>7, <1>8, <2>2, <2>3, BlobStutters DEF OthersAsk
<1>10. CASE pc'[c] = "idle"
  <2>1. RequestOf(c)' = [kind |-> "none"]
    BY <1>10 DEF RequestOf
  <2>2. CASE kind[n] = "init"
    BY <1>6, <1>7, <1>8, <2>1, <2>2, BlobStutters DEF OthersAsk
  <2>3. CASE kind[n] # "init"
    <3>1. pc[c] \in {"unlock", "release"}
      BY <1>10, <2>3 DEF ClientStep, Acquire, Lock, Answered, Initialized,
         Cancelled, Unlock, Release, Goes, TypeOK
    <3>2. worker[n] \in {"gone", "leaked"}
      BY <2>3, <3>1 DEF FInv, CallPlaces
    <3>3. TakenEffect(n)
      BY <3>2 DEF TakenEffect
    <3>4. Request(n).kind # "none" /\ Request(n).done
      BY <1>2, <3>3 DEF Request, Kind
    <3>. QED  BY <1>6, <1>7, <1>8, <2>1, <2>3, <3>4, BlobReturns
  <2>. QED  BY <2>2, <2>3
<1>. QED  BY <1>9, <1>10

LEMMA CrashMaps ==
  ASSUME IInv, FInv, Crash
  PROVE  Blob!Crash
<1>. USE DEF IInv
<1>1. /\ pc' = [c \in Client |-> "idle"] /\ worker' = [i \in Call |-> "off"]
      /\ UNCHANGED <<entry, data>>
  BY DEF Crash, disk
<1>2. \A c \in Client : RequestOf(c)' = [kind |-> "none"]
  BY <1>1 DEF RequestOf
<1>3. \A k \in Key : StoredUnder(k)' = DiskValue(k)
  <2>1. \A i \in Call : ~PutWorks(i)'
    BY <1>1 DEF PutWorks
  <2>. QED  BY <1>1, <2>1 DEF StoredUnder, DiskValue
<1>4. \A k \in Key : DiskValue(k) \in Call \cup {None, -1}
  BY DEF DiskValue
<1>5. ASSUME NEW k \in Key
      PROVE  \/ StoredUnder(k)' = StoredUnder(k)
             \/ \E c \in Client : /\ RequestOf(c).kind = "put" /\ RequestOf(c).key = k
                                  /\ StoredUnder(k)' \in {-1, RequestOf(c).value}
  <2>1. CASE \E i \in Call : PutWorks(i) /\ key[i] = k
    <3>1. PICK i \in Call : PutWorks(i) /\ key[i] = k
      BY <2>1
    <3>2. kind[i] = "put" /\ i \in Outstanding
      BY <3>1 DEF PutWorks, Outstanding
    <3>3. PICK c \in Client : pc[c] = "select" /\ call[c] = i
      BY <3>2 DEF WorkersHeld, Held
    <3>4. RequestOf(c) = Request(i)
      BY <3>2, <3>3, RequestNow
    <3>5. RequestOf(c).kind = "put" /\ RequestOf(c).key = k /\ RequestOf(c).value = PutValue(i)
      BY <3>1, <3>2, <3>4 DEF Request
    <3>6. DiskValue(k) \in {-1, PutValue(i)}
      <4>1. PutProgress(i)
        BY <3>2 DEF FInv, WorkerInv
      <4>2. Empty \notin Call
        BY DEF Empty, Call
      <4>. QED  BY <3>1, <3>2, <4>1, <4>2 DEF PutProgress, DiskValue, PutValue
    <3>. QED  BY <1>3, <3>5, <3>6
  <2>2. CASE ~ \E i \in Call : PutWorks(i) /\ key[i] = k
    BY <1>3, <2>2 DEF StoredUnder, DiskValue
  <2>. QED  BY <2>1, <2>2
<1>. QED  BY <1>2, <1>3, <1>4, <1>5, BlobCrashes

LEMMA InitMaps == Init => Blob!Init
<1>. SUFFICES ASSUME Init PROVE Blob!Init
  OBVIOUS
<1>1. \A k \in Key : StoredUnder(k) = Blob!None
  BY DEF Init, StoredUnder, PutWorks, None, Blob!None
<1>2. \A c \in Client : RequestOf(c) = Blob!Idle
  BY DEF Init, RequestOf, Blob!Idle
<1>. QED  BY <1>1, <1>2 DEF Blob!Init

LEMMA NextMaps ==
  ASSUME Sound, IInv, AloneInv, FInv, [Next]_vars
  PROVE  [Blob!Next]_Blob!vars
<1>1. CASE \E c \in Client : Invoke(c) \/ Refuse(c) \/ CallInit(c) \/ Cancelled(c) \/ ClientStep(c)
  <2>1. PICK c \in Client : Invoke(c) \/ Refuse(c) \/ CallInit(c) \/ ClientStep(c)
    BY <1>1 DEF Cancelled, Sound
  <2>2. Blob!Invoke(c) \/ Blob!Return(c) \/ UNCHANGED Blob!vars
    BY <2>1, AskMaps, ClientMaps
  <2>. QED  BY <2>2, BlobSteps DEF Blob!ClientStep
<1>2. CASE \E i \in Call : WorkerStep(i)
  BY <1>2, WorkerMaps
<1>3. CASE Crash
  BY <1>3, CrashMaps DEF Blob!Next
<1>4. CASE UNCHANGED vars
  <2>1. \A k \in Key : StoredUnder(k)' = StoredUnder(k)
    BY <1>4 DEF vars, asked, disk, StoredUnder, PutWorks, PutValue
  <2>2. \A c \in Client : RequestOf(c)' = RequestOf(c)
    BY <1>4 DEF vars, asked, disk, RequestOf, Request, PutValue, TakenEffect,
       PutWorks, Seen, Writes, Disturbed, Names
  <2>. QED  BY <2>1, <2>2, BlobStutters DEF StoreStays
<1>. QED  BY <1>1, <1>2, <1>3, <1>4 DEF Next

(* With encryption, and while no call is cancelled and no write fails, the *)
(* callers of Put, Get, Delete and List see a map on which each of their   *)
(* calls takes effect at once, between its invocation and its return; a    *)
(* crash changes nothing but what was being put.  The disk may fail to     *)
(* open, read or remove the files and directories of the Flaky keys: of    *)
(* such a key a Get may say that nothing is stored and a List show no      *)
(* names, and a Put and a Delete report the error, the Delete even when    *)
(* the file has gone (file.go:91-282, internal.go:21-300).                 *)
THEOREM StorageImplementsBlobStore ==
  ASSUME Sound
  PROVE  Spec => ImplementsBlobStore
<1>1. "cancel" \notin Faults
  BY DEF Sound
<1>2. Spec => []AloneInv
  BY <1>1, StorageAlone
<1>3. IInv /\ AloneInv /\ FInv /\ [Next]_vars => [Blob!Next]_Blob!vars
  BY NextMaps
<1>. QED  BY <1>2, <1>3, InitMaps, BlobStoreInvariant, StorageInvariant, PTL
          DEF Spec, ImplementsBlobStore, Blob!Spec
=============================================================================
