------------------------------ MODULE Storage ------------------------------
(***************************************************************************)
(* pkg/file: Init, Put, Get, Delete and List (file.go) and the workers     *)
(* they start (internal.go).  A call takes a permit (Init does not) and    *)
(* stateLock, starts a worker goroutine and then selects: it receives log  *)
(* lines on logCh, which all workers share, its worker's answer, and,      *)
(* except in Init and Put, the end of its context.  A worker sends a log   *)
(* line before each thing it does to the disk and blocks until some call   *)
(* receives it.                                                            *)
(*                                                                         *)
(* A call is named by its number, and so is the file (inode) that a Put    *)
(* creates and the value it writes.  A directory is the sequence of the    *)
(* names that lead to it from b.path, which is <<>> and always there.  Log *)
(* lines sent one after the other with nothing between them are one.       *)
(***************************************************************************)
EXTENDS Integers, FiniteSets, Sequences

CONSTANTS
  Client,     \* goroutines that use the Storage
  Key,        \* entry keys
  Path,       \* the directory that each key lies in
  BadKey,     \* those that validatePath rejects
  Ops,        \* the operations that are called
  AtStart,    \* b.initialized at the start: FALSE, TRUE when Init is left out, or both
  Requested,  \* permits asked for the pool; New asks for 1
  Encrypted,  \* WithEncryption was given; Multipart always does
  MaxCalls,   \* bound on the number of calls
  Flaky,      \* keys on whose path the disk may fail to open, read or remove
  Faults      \* the environment faults this instance has

Call      == 1 .. MaxCalls
Kind      == {"init", "put", "get", "delete", "list"}
FaultKind == {"cancel", "init", "write", "crash"}

ASSUME StorageAssumption ==
  /\ Key # {} /\ \A k \in Key : k \notin Seq(Nat)
  /\ Path \in [Key -> Seq(Nat)]
  /\ BadKey \subseteq Key
  /\ Ops \subseteq Kind
  /\ AtStart \subseteq BOOLEAN
  /\ Requested \in Int
  /\ Encrypted \in BOOLEAN
  /\ MaxCalls \in Nat
  /\ Flaky \subseteq Key
  /\ Faults \subseteq FaultKind

None  == 0     \* no file, no call, nothing read
Torn  == -1    \* some of the bytes of a value
Empty == -2    \* a file of size zero

VARIABLES
  ready,    \* b.initialized
  once,     \* b.Once has been used
  issued,   \* calls made so far
  call,     \* the call each client is in, or None
  pc,       \* where each client is in it
  kind, key, blank,   \* what each call asks for; blank: its Value is empty
  ended,    \* how each call ended
  outcome,  \* what its worker found
  worker,   \* where the worker of each call is
  file,     \* the inode it has open
  node,     \* the loop variable of its cleanupPath
  sem,      \* b.permitPool
  lock,     \* the clients that hold b.stateLock
  tree,     \* the directories that exist
  entry,    \* the inode each key names, or None
  data      \* the bytes of each inode

asked  == <<kind, key, blank>>
lockVars == <<sem, lock>>
disk   == <<tree, entry, data>>
vars   == <<ready, once, issued, call, pc, asked, ended, outcome, worker, file, node,
            lockVars, disk>>

Pool == INSTANCE PermitPool

Steps == {"off", "tell_init", "init", "tell_mkdir", "mkdir", "tell_open", "open", "write", "sync",
          "tell_stat", "stat", "purge", "tell_fstat", "fstat", "tell_purge", "find", "tell_find",
          "tell_missing", "tell_read", "read", "tell_unlink", "unlink", "tell_look",
          "look", "rmdir", "tell_readdir", "readdir", "statall", "answer", "gone", "leaked"}

FirstStep == [init |-> "tell_init", put |-> "tell_mkdir", get |-> "tell_fstat",
              delete |-> "tell_unlink", list |-> "tell_readdir"]

(* What a worker does when its log line has been received. *)
AfterLog == [tell_init |-> "init", tell_mkdir |-> "mkdir", tell_open |-> "open", tell_stat |-> "stat",
             tell_fstat |-> "fstat", tell_purge |-> "purge", tell_find |-> "find",
             tell_missing |-> "answer", tell_read |-> "read",
             tell_unlink |-> "unlink", tell_look |-> "look",
             tell_readdir |-> "readdir"]

Done   == [ok |-> TRUE, value |-> None, names |-> {}]
Failed == [Done EXCEPT !.ok = FALSE]

Init ==
  /\ ready \in AtStart
  /\ once = ready
  /\ issued = 0
  /\ call = [c \in Client |-> None]
  /\ pc = [c \in Client |-> "idle"]
  /\ kind = [i \in Call |-> "none"]
  /\ key = [i \in Call |-> CHOOSE k \in Key : TRUE]
  /\ blank = [i \in Call |-> FALSE]
  /\ ended = [i \in Call |-> "open"]
  /\ outcome = [i \in Call |-> Done]
  /\ worker = [i \in Call |-> "off"]
  /\ file = [i \in Call |-> None]
  /\ node = [i \in Call |-> 0]
  /\ Pool!New
  /\ lock = {}
  /\ tree = {}
  /\ entry = [k \in Key |-> None]
  /\ data = [i \in Call |-> Empty]
-----------------------------------------------------------------------------
(* The calling goroutines (file.go).                                       *)

Goes(c, from, to) == pc[c] = from /\ pc' = [pc EXCEPT ![c] = to]

(* A new call by client c. *)
Asks(c) ==
  /\ issued < MaxCalls
  /\ pc[c] = "idle"
  /\ issued' = issued + 1
  /\ \E what \in Ops \ {"init"}, k \in Key, b \in BOOLEAN :
       /\ b => what = "put"
       /\ kind' = [kind EXCEPT ![issued'] = what]
       /\ key' = [key EXCEPT ![issued'] = k]
       /\ blank' = [blank EXCEPT ![issued'] = b]

Invoke(c) ==
  /\ ready
  /\ Asks(c)
  /\ call' = [call EXCEPT ![c] = issued']
  /\ pc' = [pc EXCEPT ![c] = "acquire"]
  /\ UNCHANGED <<ready, once, ended, outcome, worker, file, node, lockVars, disk>>

(* b.initialized, which is read without the lock, is not set yet. *)
Refuse(c) ==
  /\ ~ready
  /\ Asks(c)
  /\ ended' = [ended EXCEPT ![issued'] = "answered"]
  /\ outcome' = [outcome EXCEPT ![issued'] = Failed]
  /\ UNCHANGED <<ready, once, call, pc, worker, file, node, lockVars, disk>>

(* Init, which takes no permit. *)
CallInit(c) ==
  /\ "init" \in Ops
  /\ issued < MaxCalls
  /\ Goes(c, "idle", "lock")
  /\ issued' = issued + 1
  /\ call' = [call EXCEPT ![c] = issued']
  /\ kind' = [kind EXCEPT ![issued'] = "init"]
  /\ UNCHANGED <<ready, once, key, blank, ended, outcome, worker, file, node, lockVars, disk>>

Acquire(c) ==
  /\ Goes(c, "acquire", "lock")
  /\ Pool!Acquire
  /\ UNCHANGED <<ready, once, node, issued, call, asked, ended, outcome, worker, file, lock, disk>>

Writes(i) == kind[i] \in {"init", "put", "delete"}

(* go b.Do(...): only the first Init of the process gets a worker that     *)
(* answers; the function of a later one is never called.                   *)
StartWorker(i) ==
  /\ worker' = [worker EXCEPT ![i] = IF kind[i] = "init" /\ once THEN "gone"
                                     ELSE FirstStep[kind[i]]]
  /\ once' = (once \/ kind[i] = "init")

(* Mutant of Lock: no call waits for another one. *)
LockShared(c) ==
  /\ Goes(c, "lock", "select")
  /\ lock' = lock \cup {c}
  /\ StartWorker(call[c])
  /\ UNCHANGED <<ready, issued, call, asked, ended, outcome, file, node, sem, disk>>

(* stateLock.Lock() for Init, Put and Delete, RLock() for Get and List;    *)
(* then the worker is started.                                             *)
Lock(c) ==
  /\ Goes(c, "lock", "select")
  /\ IF Writes(call[c]) THEN lock = {} ELSE \A d \in lock : ~Writes(call[d])
  /\ lock' = lock \cup {c}
  /\ StartWorker(call[c])
  /\ UNCHANGED <<ready, issued, call, asked, ended, outcome, file, node, sem, disk>>

(* case on errCh, entryCh or outCh.  Put and Delete take the only thing    *)
(* their worker sends; the workers of Get and List send the error as well, *)
(* which nobody receives: they stay where they are and the error is lost.  *)
Answered(c) ==
  /\ Goes(c, "select", "unlock")
  /\ kind[call[c]] # "init"
  /\ worker[call[c]] = "answer"
  /\ worker' = [worker EXCEPT ![call[c]] =
                  IF Writes(call[c]) THEN "gone" ELSE "leaked"]
  /\ ended' = [ended EXCEPT ![call[c]] = "answered"]
  /\ UNCHANGED <<ready, once, issued, call, asked, outcome, file, node, lockVars, disk>>

(* case on errCh in Init, which sets b.initialized if there is no error.   *)
Initialized(c) ==
  /\ Goes(c, "select", "unlock")
  /\ kind[call[c]] = "init"
  /\ worker[call[c]] = "answer"
  /\ worker' = [worker EXCEPT ![call[c]] = "gone"]
  /\ ended' = [ended EXCEPT ![call[c]] = "answered"]
  /\ ready' = (ready \/ outcome[call[c]].ok)
  /\ UNCHANGED <<once, issued, call, asked, outcome, file, node, lockVars, disk>>

(* Mutant of Cancelled: Put listens to its context as well. *)
CancelledAny(c) ==
  /\ "cancel" \in Faults
  /\ Goes(c, "select", "unlock")
  /\ ended' = [ended EXCEPT ![call[c]] = "cancelled"]
  /\ UNCHANGED <<ready, once, node, issued, call, asked, outcome, worker, file, lockVars, disk>>

(* case <-ctx.Done(), which Init and Put do not have: the worker goes on. *)
Cancelled(c) ==
  /\ "cancel" \in Faults
  /\ Goes(c, "select", "unlock")
  /\ kind[call[c]] \notin {"init", "put"}
  /\ ended' = [ended EXCEPT ![call[c]] = "cancelled"]
  /\ UNCHANGED <<ready, once, node, issued, call, asked, outcome, worker, file, lockVars, disk>>

Unlock(c) ==
  /\ pc[c] = "unlock"
  /\ IF kind[call[c]] = "init"
     THEN Goes(c, "unlock", "idle") /\ call' = [call EXCEPT ![c] = None]
     ELSE Goes(c, "unlock", "release") /\ UNCHANGED call
  /\ lock' = lock \ {c}
  /\ UNCHANGED <<ready, once, node, issued, asked, ended, outcome, worker, file, sem, disk>>

(* Mutant of Release: the permit is given back twice. *)
ReleaseTwice(c) ==
  /\ Goes(c, "release", "idle")
  /\ sem' = sem - 2
  /\ call' = [call EXCEPT ![c] = None]
  /\ UNCHANGED <<ready, once, node, issued, asked, ended, outcome, worker, file, lock, disk>>

(* Mutant of Release: the permit is kept. *)
ReleaseNothing(c) ==
  /\ Goes(c, "release", "idle")
  /\ call' = [call EXCEPT ![c] = None]
  /\ UNCHANGED <<ready, once, node, issued, asked, ended, outcome, worker, file, lockVars, disk>>

Release(c) ==
  /\ Goes(c, "release", "idle")
  /\ Pool!Release
  /\ call' = [call EXCEPT ![c] = None]
  /\ UNCHANGED <<ready, once, node, issued, asked, ended, outcome, worker, file, lock, disk>>
-----------------------------------------------------------------------------
(* The workers (internal.go).                                              *)

clients == <<ready, once, issued, call, pc, asked, ended, lockVars>>

Does(i, step, next) == worker[i] = step /\ worker' = [worker EXCEPT ![i] = next]

Answers(i, step, result) ==
  Does(i, step, "answer") /\ outcome' = [outcome EXCEPT ![i] = result]

Listening == \E c \in Client : pc[c] = "select"

Rejected(i) == kind[i] # "init" /\ key[i] \in BadKey

(* b.logCh <- ...: any call that selects may receive it. *)
Log(i) ==
  /\ worker[i] \in DOMAIN AfterLog
  /\ Listening
  /\ ~(worker[i] = FirstStep[kind[i]] /\ Rejected(i))
  /\ Does(i, worker[i], AfterLog[worker[i]])
  /\ UNCHANGED <<clients, outcome, file, node, disk>>

(* validatePath; in List the key is the prefix. *)
Reject(i) ==
  /\ worker[i] # "off"
  /\ worker[i] \in DOMAIN AfterLog
  /\ worker[i] = FirstStep[kind[i]]
  /\ Listening
  /\ Rejected(i)
  /\ Answers(i, worker[i], Failed)
  /\ UNCHANGED <<clients, file, node, disk>>

(* The worker of Init: without a path it makes a temporary directory, what *)
(* may fail.                                                               *)
SetUp(i) ==
  /\ \/ Answers(i, "init", Done)
     \/ "init" \in Faults /\ Answers(i, "init", Failed)
  /\ UNCHANGED <<clients, file, node, disk>>

(* The first n directories on the path of a key. *)
Ancestor(k, n) == SubSeq(Path[k], 1, n)
Ancestors(k)   == {Ancestor(k, n) : n \in 1 .. Len(Path[k])}

(* os.MkdirAll *)
MkdirAll(i) ==
  /\ Does(i, "mkdir", "tell_open")
  /\ tree' = tree \cup Ancestors(key[i])
  /\ UNCHANGED <<clients, outcome, file, node, entry, data>>

Exists(dir) == dir = <<>> \/ dir \in tree

(* os.OpenFile(O_CREATE|O_TRUNC|O_WRONLY): an existing file keeps its      *)
(* inode.                                                                  *)
OpenForPut(i) ==
  /\ kind[i] = "put"
  /\ Exists(Path[key[i]])
  /\ Does(i, "open", "write")
  /\ LET inode == IF entry[key[i]] = None THEN i ELSE entry[key[i]] IN
       /\ entry' = [entry EXCEPT ![key[i]] = inode]
       /\ data' = [data EXCEPT ![inode] = Empty]
       /\ file' = [file EXCEPT ![i] = inode]
  /\ UNCHANGED <<clients, outcome, node, tree>>

PutFails(i) ==
  /\ \/ key[i] \in Flaky /\ worker[i] \in {"mkdir", "open"}
     \/ "write" \in Faults /\ worker[i] \in {"sync", "stat"}
     \/ worker[i] = "open" /\ ~Exists(Path[key[i]])
  /\ kind[i] = "put"
  /\ Answers(i, worker[i], Failed)
  /\ UNCHANGED <<clients, file, node, disk>>

(* io.CopyBuffer writes the bytes piece by piece ... *)
WriteSome(i) ==
  /\ worker[i] = "write"
  /\ ~blank[i]
  /\ data[file[i]] # Torn
  /\ data' = [data EXCEPT ![file[i]] = Torn]
  /\ UNCHANGED <<clients, outcome, worker, file, node, tree, entry>>

(* ... to the last one. *)
Write(i) ==
  /\ Does(i, "write", "sync")
  /\ data' = [data EXCEPT ![file[i]] = IF blank[i] THEN Empty ELSE i]
  /\ UNCHANGED <<clients, outcome, file, node, tree, entry>>

(* The copy stops early, for instance because the disk is full.  Without   *)
(* encryption its error is returned; with encryption it goes to a variable *)
(* that nobody reads, and Put goes on.                                     *)
WriteStopsEarly(i) ==
  /\ "write" \in Faults
  /\ IF Encrypted
     THEN Does(i, "write", "sync") /\ UNCHANGED outcome
     ELSE Answers(i, "write", Failed)
  /\ UNCHANGED <<clients, file, node, disk>>

(* f.Sync() *)
Sync(i) ==
  /\ Does(i, "sync", "tell_stat")
  /\ UNCHANGED <<clients, outcome, file, node, disk>>

(* Mutant of Stat: the file is removed whatever its size. *)
StatAlwaysPurges(i) ==
  /\ IF entry[key[i]] = None THEN Answers(i, "stat", Failed)
     ELSE Does(i, "stat", "purge") /\ UNCHANGED outcome
  /\ UNCHANGED <<clients, file, node, disk>>

(* os.Stat(fullPath) *)
Stat(i) ==
  /\ LET inode == entry[key[i]] IN
       IF inode = None THEN Answers(i, "stat", Failed)
       ELSE Does(i, "stat", IF data[inode] = Empty THEN "purge" ELSE "answer")
              /\ UNCHANGED outcome
  /\ UNCHANGED <<clients, file, node, disk>>

(* os.Remove of a file of size zero, in Put and in Get, errors ignored. *)
Purge(i) ==
  /\ Does(i, "purge", "answer")
  /\ entry' = [entry EXCEPT ![key[i]] = None]
  /\ UNCHANGED <<clients, outcome, file, node, tree, data>>

(* Mutant of StatForGet: the size is not looked at. *)
StatForGetPurges(i) ==
  /\ Does(i, "fstat", IF entry[key[i]] # None THEN "tell_purge" ELSE "tell_find")
  /\ UNCHANGED <<clients, outcome, file, node, disk>>

(* os.Stat in Get *)
StatForGet(i) ==
  /\ LET inode == entry[key[i]] IN
       Does(i, "fstat", IF inode # None /\ data[inode] = Empty
                        THEN "tell_purge" ELSE "tell_find")
  /\ UNCHANGED <<clients, outcome, file, node, disk>>

(* An error of that os.Stat is ignored. *)
StatForGetFails(i) ==
  /\ key[i] \in Flaky
  /\ Does(i, "fstat", "tell_find")
  /\ UNCHANGED <<clients, outcome, file, node, disk>>

(* os.Open in Get *)
OpenForGet(i) ==
  /\ Does(i, "find", IF entry[key[i]] = None THEN "tell_missing" ELSE "tell_read")
  /\ file' = [file EXCEPT ![i] = entry[key[i]]]
  /\ UNCHANGED <<clients, outcome, node, disk>>

(* Read the file and, with encryption, decrypt it: bytes that are not a    *)
(* whole value do not authenticate and give an error instead of an entry.  *)
Read(i) ==
  /\ LET bytes == data[file[i]] IN
       Answers(i, "read", IF Encrypted /\ bytes \notin Call THEN Failed
                          ELSE [Done EXCEPT !.value = bytes])
  /\ UNCHANGED <<clients, file, node, disk>>

(* os.Open fails, and not because there is no file, or a read does. *)
GetFails(i) ==
  /\ key[i] \in Flaky
  /\ worker[i] \in {"find", "read"}
  /\ Answers(i, worker[i], Failed)
  /\ UNCHANGED <<clients, file, node, disk>>

(* What a directory contains: keys and directories. *)
Names(dir) ==
  {k \in Key : Path[k] = dir /\ entry[k] # None}
    \cup {d \in tree : Len(d) = Len(dir) + 1 /\ SubSeq(d, 1, Len(dir)) = dir}

(* os.Remove in Delete; the file may not be there. *)
Unlink(i) ==
  /\ Does(i, "unlink", "tell_look")
  /\ entry' = [entry EXCEPT ![key[i]] = None]
  /\ node' = [node EXCEPT ![i] = Len(Path[key[i]])]
  /\ UNCHANGED <<clients, outcome, file, tree, data>>

(* cleanupPath: the directory it has come to, the deepest one first.       *)
Here(i) == Ancestor(key[i], node[i])

Upwards(i) == node' = [node EXCEPT ![i] = node[i] - 1]

(* The loop is over, or it finds a directory that is missing. *)
CleanedUp(i) ==
  /\ node[i] = 0 \/ ~Exists(Here(i))
  /\ Does(i, "look", "answer")
  /\ UNCHANGED <<clients, outcome, file, node, disk>>

(* Look into the directory; the loop goes on above one that is not empty ... *)
Look(i) ==
  /\ node[i] > 0
  /\ Exists(Here(i))
  /\ IF Names(Here(i)) = {} THEN Does(i, "look", "rmdir") /\ UNCHANGED node
     ELSE Does(i, "look", "look") /\ Upwards(i)
  /\ UNCHANGED <<clients, outcome, file, disk>>

(* Mutant of Rmdir: only the deepest directory is looked at. *)
RmdirOnce(i) ==
  /\ IF Exists(Here(i)) /\ Names(Here(i)) = {}
     THEN /\ Does(i, "rmdir", "answer")
          /\ tree' = tree \ {Here(i)}
          /\ Upwards(i)
          /\ UNCHANGED outcome
     ELSE Answers(i, "rmdir", Failed) /\ UNCHANGED <<node, tree>>
  /\ UNCHANGED <<clients, file, entry, data>>

(* ... and one that was empty is removed. *)
Rmdir(i) ==
  /\ IF Exists(Here(i)) /\ Names(Here(i)) = {}
     THEN /\ Does(i, "rmdir", "look")
          /\ tree' = tree \ {Here(i)}
          /\ Upwards(i)
          /\ UNCHANGED outcome
     ELSE Answers(i, "rmdir", Failed) /\ UNCHANGED <<node, tree>>
  /\ UNCHANGED <<clients, file, entry, data>>

(* os.Remove of the file fails; or cleanupPath cannot open, read or remove *)
(* a directory, and the file has gone.                                     *)
DeleteFails(i) ==
  /\ key[i] \in Flaky
  /\ \/ worker[i] \in {"unlink", "rmdir"}
     \/ worker[i] = "look" /\ node[i] > 0
  /\ Answers(i, worker[i], Failed)
  /\ UNCHANGED <<clients, file, node, disk>>

(* os.Open and Readdirnames in List; the prefix is the directory of the    *)
(* key ...                                                                 *)
Readdir(i) ==
  /\ IF Exists(Path[key[i]])
     THEN /\ Does(i, "readdir", "statall")
          /\ outcome' = [outcome EXCEPT ![i] = [Done EXCEPT !.names = Names(Path[key[i]])]]
     ELSE Does(i, "readdir", "tell_missing") /\ UNCHANGED outcome
  /\ UNCHANGED <<clients, file, node, disk>>

(* ... and os.Stat of each name: one that has gone makes an error. *)
StatAll(i) ==
  /\ IF outcome[i].names \subseteq Names(Path[key[i]])
     THEN Does(i, "statall", "answer") /\ UNCHANGED outcome
     ELSE Answers(i, "statall", Failed)
  /\ UNCHANGED <<clients, file, node, disk>>

(* os.Open, Readdirnames or os.Stat fails. *)
ListFails(i) ==
  /\ key[i] \in Flaky
  /\ worker[i] \in {"readdir", "statall"}
  /\ Answers(i, worker[i], Failed)
  /\ UNCHANGED <<clients, file, node, disk>>
-----------------------------------------------------------------------------
(* The process stops and a new one opens the same directory; a file that   *)
(* was being written is left with some of its bytes, or none.              *)
Crash ==
  /\ "crash" \in Faults
  /\ \E i \in Call : worker[i] \notin {"off", "gone", "leaked"}
  /\ ready' \in AtStart
  /\ once' = ready'
  /\ call' = [c \in Client |-> None]
  /\ pc' = [c \in Client |-> "idle"]
  /\ ended' = [i \in Call |-> IF i <= issued /\ ended[i] = "open" THEN "crashed"
                              ELSE ended[i]]
  /\ worker' = [i \in Call |-> "off"]
  /\ file' = [i \in Call |-> None]
  /\ node' = [i \in Call |-> 0]
  /\ outcome' = [i \in Call |-> Done]
  /\ sem' = 0
  /\ lock' = {}
  /\ UNCHANGED <<issued, asked, disk>>

ClientStep(c) ==
  Acquire(c) \/ Lock(c) \/ Answered(c) \/ Initialized(c) \/ Unlock(c) \/ Release(c)

WorkerStep(i) ==
  \/ Log(i) \/ Reject(i) \/ SetUp(i)
  \/ MkdirAll(i) \/ OpenForPut(i) \/ PutFails(i)
  \/ WriteSome(i) \/ Write(i) \/ WriteStopsEarly(i) \/ Sync(i)
  \/ Stat(i) \/ Purge(i)
  \/ StatForGet(i) \/ StatForGetFails(i) \/ OpenForGet(i) \/ Read(i) \/ GetFails(i)
  \/ Unlink(i) \/ CleanedUp(i) \/ Look(i) \/ Rmdir(i) \/ DeleteFails(i)
  \/ Readdir(i) \/ StatAll(i) \/ ListFails(i)

Next ==
  \/ \E c \in Client : Invoke(c) \/ Refuse(c) \/ CallInit(c) \/ Cancelled(c) \/ ClientStep(c)
  \/ \E i \in Call : WorkerStep(i)
  \/ Crash

Spec == Init /\ [][Next]_vars

(* Goroutines that can run are eventually scheduled; nobody has to call,   *)
(* to cancel or to crash.                                                  *)
Fairness ==
  /\ \A c \in Client : WF_vars(ClientStep(c))
  /\ \A i \in Call : WF_vars(WorkerStep(i))

FairSpec == Spec /\ Fairness
-----------------------------------------------------------------------------
(* What the storage promises.                                              *)

Outstanding == {i \in Call : worker[i] \notin {"off", "gone", "leaked"}}

(* What the caller sees, directories left out: Get and List lose the error *)
(* of their worker.                                                        *)
Seen(i) == IF Writes(i) \/ outcome[i].ok
           THEN [outcome[i] EXCEPT !.names = {k \in Key : k \in outcome[i].names}]
           ELSE Done

Dirs == UNION {Ancestors(k) : k \in Key}

(* Every variable has its type. *)
TypeOK ==
  /\ ready \in BOOLEAN
  /\ once \in BOOLEAN
  /\ issued \in 0 .. MaxCalls
  /\ call \in [Client -> Call \cup {None}]
  /\ pc \in [Client -> {"idle", "acquire", "lock", "select", "unlock", "release"}]
  /\ kind \in [Call -> Kind \cup {"none"}]
  /\ key \in [Call -> Key]
  /\ blank \in [Call -> BOOLEAN]
  /\ ended \in [Call -> {"open", "answered", "cancelled", "crashed"}]
  /\ outcome \in [Call -> [ok : BOOLEAN, value : Call \cup {None, Torn, Empty}, names : SUBSET (Key \cup Dirs)]]
  /\ worker \in [Call -> Steps]
  /\ file \in [Call -> Call \cup {None}]
  /\ node \in [Call -> Nat]
  /\ Pool!TypeOK
  /\ lock \subseteq Client
  /\ tree \subseteq Dirs
  /\ entry \in [Key -> Call \cup {None}]
  /\ data \in [Call -> Call \cup {Empty, Torn}]

(* A worker that writes has the disk to itself: no call it could disturb   *)
(* is outstanding with it (file.go:97-101, 142-146, 193-196, 240-244).     *)
WriterAlone ==
  \A i, j \in Outstanding : i # j => ~Writes(i) /\ ~Writes(j)

(* Put has no case for ctx.Done(), so that whatever is cancelled there is  *)
(* at most one Put at work and no two of them mix their bytes in one file  *)
(* (file.go:115-133).                                                      *)
OnePutAtATime ==
  Cardinality({i \in Outstanding : kind[i] = "put"}) <= 1

(* A file of size zero "may be left from some previous FS error": "no      *)
(* entry will ever be zero length" (internal.go:114-116).  So the file     *)
(* that Get removes is never an entry.                                     *)
GetRemovesNoEntry ==
  [][\A i \in Call :
       kind[i] = "get" /\ worker[i] = "purge" /\ worker'[i] = "answer"
         => entry[key[i]] = None \/ data[entry[key[i]]] \notin Call]_vars

(* A Put whose file "was empty after writing to it" is an error            *)
(* (internal.go:87-90): a Put of some bytes that returns without an error  *)
(* has not left its file empty.                                            *)
EmptyFileIsAnError ==
  [][\A i \in Call :
       kind[i] = "put" /\ ~blank[i] /\ worker[i] = "stat" /\ worker'[i] # "stat"
         => worker'[i] # "purge"]_vars

(* A Get whose caller still waits for it answers with what is now under    *)
(* its key, whatever the workers that cancelled calls left behind do       *)
(* beside it: they can take the entry away, and then the answer may be     *)
(* the old one, but what is there is neither missed nor read in part       *)
(* (file.go:140-184, internal.go:95-171).                                  *)
GetReturnsCurrent ==
  \A c \in Client : LET i == call[c]
                       inode == entry[key[i]] IN
    (/\ pc[c] = "select" /\ kind[i] = "get" /\ worker[i] = "answer"
     /\ key[i] \notin Flaky
     /\ inode # None)
      => outcome[i].value = IF Encrypted /\ data[inode] \notin Call THEN None
                            ELSE data[inode]

(* While no call is cancelled, a Delete leaves no empty directory on the   *)
(* path of its key, above one that it did find there: cleanupPath goes     *)
(* through all of them (internal.go:266-300).                              *)
DeleteCleansUp ==
  \A i \in Call : kind[i] = "delete" /\ worker[i] = "answer" /\ outcome[i].ok =>
    \A n \in 1 .. Len(Path[key[i]]) :
      \/ ~Exists(Ancestor(key[i], n))
      \/ Names(Ancestor(key[i], n)) # {}
      \/ (n < node[i] /\ ~Exists(Here(i)))

InitTwice == \E i \in Call : kind[i] = "init" /\ worker[i] = "gone" /\ ended[i] = "open"

(* Every call returns: its worker's log lines and answer are received, the *)
(* lock and the permit come back (file.go:34-282).  Init must be called    *)
(* once: a second one waits for ever for the answer that sync.Once does    *)
(* not let its worker send, and keeps the lock (file.go:43-69).            *)
EveryCallReturns ==
  \A c \in Client : pc[c] # "idle" ~> pc[c] = "idle" \/ InitTwice
-----------------------------------------------------------------------------
(* The map this implements while no call is cancelled.                     *)

(* A Put takes effect when it opens its file, as nobody can look before it *)
(* has written it; a Delete when it removes its file.                      *)
PutWorks(i) == kind[i] = "put" /\ worker[i] \in {"write", "sync", "tell_stat", "stat", "purge"}

TakenEffect(i) ==
  \/ worker[i] \in {"answer", "gone", "leaked"}
  \/ PutWorks(i)
  \/ kind[i] = "delete" /\ worker[i] \in {"tell_look", "look", "rmdir"}

PutValue(i) == IF kind[i] = "put" /\ ~blank[i] THEN i ELSE None

StoredUnder(k) ==
  IF \E i \in Call : PutWorks(i) /\ key[i] = k
  THEN PutValue(CHOOSE i \in Call : PutWorks(i) /\ key[i] = k)
  ELSE IF entry[k] = None THEN None
  ELSE IF data[entry[k]] \in Call THEN data[entry[k]]
  ELSE -1

(* A name that a List has read has gone; it is about to find out. *)
Disturbed(i) ==
  kind[i] = "list" /\ worker[i] = "statall" /\ ~(outcome[i].names \subseteq Names(Path[key[i]]))

Request(i) ==
  [kind |-> kind[i], key |-> key[i], value |-> PutValue(i), done |-> TakenEffect(i),
   result |-> IF TakenEffect(i) THEN Seen(i) ELSE Done, disturbed |-> Disturbed(i)]

RequestOf(c) ==
  IF pc[c] = "idle" \/ kind[call[c]] = "init" THEN [kind |-> "none"] ELSE Request(call[c])

Blob == INSTANCE BlobStore WITH
  store   <- [k \in Key |-> StoredUnder(k)],
  request <- [c \in Client |-> RequestOf(c)]

(* Every call takes effect at once, between its invocation and its return, *)
(* and a crash can only touch the keys of the Puts in progress.  A disk    *)
(* error on a key is seen by the calls for that key alone (file.go:90-282, *)
(* internal.go:20-300).                                                    *)
ImplementsBlobStore == Blob!Spec
=============================================================================
