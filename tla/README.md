# Verification of File-Ingestion

File-Ingestion takes a snapshot of the files under a directory: it cuts each file into chunks, stores
the chunks in an encrypted store on disk, and can restore the files from them. These modules model its
concurrent core in TLA+. TLC checks them on small instances, and TLAPS proves nearly all of their safety
properties, the three refinements included, for every instance.

## 1. The system

| Component | State | Operations | Interacts with |
|---|---|---|---|
| `Multipart` (`multipart.go`, `operation.go`) | root, chunk size, `wg`, `permitpool`, `stateLock`, the storage | `New`, `Snapshot` (`NewMetadata`, `split`), `Restore` (`merge`) | one goroutine per file and one per chunk; waits on `wg`, takes permits, calls `disk.Put`/`disk.Get` |
| Sections (`pkg/section`) | start, end, size, number, hash | `New`, `Data`, `Merge` | read from and written to open files; listed in `SnapshotMetadata.ChunkMap` |
| `SnapshotMetadata` | entities, `ChunkMap` | built in memory by `Snapshot`, put under the tag at its end | the commit record that `Restore` reads |
| `Storage` (`pkg/file/file.go`, `internal.go`) | path, `logCh`, `stateLock`, its own permit pool, the directory tree | `Init`, `Put`, `Get`, `Delete`, `List` | each call starts a worker goroutine and selects on its answer, the shared log channel and (not in `Init` and `Put`) its context |
| Encrypted stream (`pkg/file/secure.go`, `helper.go`) | sequence number, look-ahead byte, final flag | encryptor and decryptor `Read` | between a worker and its file |
| Permit pool (`internal/permitpool`) | a buffered channel | `New`, `Acquire`, `Release` | one in each `Multipart`, one in each `Storage` |
| File entities (`pkg/filewrapper`) | path, size, time, mode, hash | `New`, orders, metadata restore | entities of a snapshot |
| Options, command line, samples, JSON, uuid, version, utils | none that lasts | parsing, formatting | call the above once |

What is hard in it:

* **Concurrency.** The caller of `Snapshot`, a goroutine per file and a goroutine per chunk meet at a wait
  group to which a goroutine adds while the caller may already wait, at a pool they block on after adding,
  and at a mutex around an append. `Restore` has the same shape.
* **Ordering.** The metadata must be put after everything it names, and `Restore` must verify after the
  last write.
* **Failure.** Reads, opens and Puts fail; an encrypted `Put` loses the error of its copy and returns nil
  with a file in part; a `Get` and a `List` lose every error of theirs; `log.Fatal` ends the process from any
  goroutine; sources change under the snapshot; the process crashes.
* **Cancellation.** A cancelled `Get`, `Delete` or `List` returns its lock and permit while its worker,
  blocked on the log channel, wakes up in the middle of a later call.
* **Reuse.** What a snapshot and a restore write lies below the root that the next snapshot walks, and the
  chunks of a tag that is used again are overwritten under the commit record that names them.
* **Streams.** The encryptor is a byte ahead of what it seals, both ends keep what does not fit into the
  caller's slice, and a file may be torn, or overwritten while it is read.
* **Limits.** Open handles, permits, the last chunk of a file.

What makes each part correct, in a sentence each: `Snapshot` commits exactly the chunks of its entities or
nothing, and only a write that the disk cut short unnoticed is missing; `Restore` puts every byte back or fails; `Storage` is an atomic map; a `Storage` call always
returns; a stream that is read is the value that was put, or an error; a tag is restored as its snapshot
found it, whatever came after; the pool bounds the goroutines at work and gets its permits back; the sections tile the file.
The hazards behind these are listed in `PROJECT.json`, each at its line.

## 2. The modules

| Module | Models | Role |
|---|---|---|
| `Chunking` | the arithmetic of `split`, `section.New` | pure operators |
| `ChunkingProofs` | | the sections tile the file, for every size |
| `PermitPool` | `internal/permitpool` | instantiated over a variable of its user |
| `Snapshot` | `Multipart.Snapshot`, `split`, `NewMetadata` | detailed specification |
| `AtomicSnapshot` | what a snapshot promises | abstract specification, implemented by `Snapshot` |
| `SnapshotProofs` | | inductive invariant and theorems |
| `Restore` | `Multipart.Restore`, `merge`, `Section.Merge` | detailed specification |
| `RestoreProofs` | | inductive invariant and theorems |
| `Lifecycle` | the commands one after the other on one root, composed of `Chunking`, the keys of `split` and the lookup of `merge` | detailed specification of what reaches the disk |
| `LifecycleProofs` | | what each step does to the files; inductive invariant and theorems |
| `Storage` | `Init`, `Put`, `Get`, `Delete`, `List` and their workers | detailed specification |
| `StorageProofs` | | two inductive invariants, for all faults and without cancellation, and theorems |
| `BlobStore` | the map that `Storage` promises | abstract specification, implemented by `Storage` |
| `BlobStoreProofs` | | a third invariant, and the refinement of `BlobStore` |
| `Packets` | the format of `helper.go` and the reference encoding | pure operators |
| `PacketProofs` | | lemmas about the format, for every packet, header and tag size |
| `Encryptor`, `Decryptor` | the two `Read` methods of `secure.go` | components |
| `SecureStream` | the copies of `PutInternal` and `GetInternal` around them, and the file between | composes the two |
| `Delivery` | what reading an encrypted file promises | abstract specification, implemented by `SecureStream` |
| `SecureStreamProofs` | | inductive invariant, theorems, and the refinement of `Delivery` |
| `MCSnapshot`, `MCRestore`, `MCLifecycle`, `MCStorage`, `MCSecureStream` | | constants for TLC |

Definitions whose comment begins with "Mutant of" are deliberate errors. They belong to no specification;
each replaces the definition it names to show that a property can fail.

### Snapshot

`main` is the program counter of the calling goroutine, `split[f]` that of the goroutine of file `f`,
`writer[c]` that of the goroutine of chunk `c = <<file, number>>`. `cursor`, `idx`, `value`, `seen` are
their local variables (`seen` is the slice that `append` has read and not yet written back). `chunkMap`,
`lock`, `wg`, `sem` are the shared memory; `stored`, `chunkMeta` and `metadata` are the disk. Every wait
(`wg.Wait`, `Acquire`, `Lock`) is a guard, and every blocking point or access to shared state separates
two actions. The deferred calls run last in, first out: a writer counts itself off before it gives its
permit back.

Abstractions. The bytes of a chunk are their number, since an error can only make them fewer.
`disk.Put` is two steps (create, copy), with nothing of `Storage` in it: without cancellation the storage
serialises its calls, as `MCStorage` checks; the contexts of the command line are never cancelled. Errors of
`Put` are in twice: those that it returns ("put"), and those of a copy that stopped early, which an encrypted `Put`
loses (`internal.go:57-65`, "write"). In the second case `WriteChunkShort`, `PutChunkMetaShort` and `PutMetadataShort` go on
as after a success and leave a file that cannot be read, or none; `cut` names these files. If the commit record is
one of them, `Snapshot` returns nil with nothing committed, which is `Lose` of `AtomicSnapshot`. An
entity that is not a regular file is walked with size zero, because both loops skip it in the same way.
The key of a chunk holds its path and number, so a chunk is its own key within one snapshot. The hash under
which `ChunkMap` files a section is the constant `FileHash`, and all instances use one hash for all files:
`hashstructure` looks at exported fields only and `os.File` has none.

### Restore

Written in the same way: `main`, `merge[f]` for each merge goroutine and its loop index `pos`, `part[<<f, k>>]`
for the goroutine that merges the k-th section listed for `f`, and `written[f]`, the positions of the
destination that hold the byte they should. The initial states are what a complete `Snapshot` leaves on disk, for
all sizes up to the bound: `chunkMap`, which nothing changes, lists the sections of the files of each hash in
any order, as the writers of `Snapshot` append them. The key of a chunk holds a hash of the section's start, end, size and number,
so a section of another file is found only if the file has an equal one (`IsStored`). The metadata, the
destinations, the Gets of chunks and the writes at any moment may fail; after an early return (`OpenFails`) the
merges go on and meet destinations that have been closed.

### Storage

A call is a number. `pc[c]` is where client `c` is in its call, `worker[i]` where the worker of call `i` is. A
step named `tell_...` is a worker blocked on `logCh`: it proceeds when any client is in its select loop,
whichever call that client is in (`Listening`). Log lines with nothing between them are merged into one.
Files are inodes: `entry` names them, `data` holds what is in them, and an open file (`file`) stays open
when its name is removed. A Put names the value it writes and the inode it creates. A directory is the sequence of names on
its path; `tree` is the set of those that exist, which `Put` creates from the top and `cleanupPath` removes
from the bottom, looking into one and removing it in two steps (`Look`, `Rmdir`); `node` is its loop variable. The refinement of `BlobStore`
lets a Put take effect when it opens its file, as nobody can look before it has written it, and a Delete
when it removes its file. A List takes effect when it has looked at the last of its names. Here the map had to
promise less than first written: a Get may remove an empty file that a crash left while a List goes through
its names, and as the error of that `os.Stat` is lost (`internal.go:244`) the List then returns no name at
all. `BlobStore` marks such a List `disturbed`, and only such a one may come back empty.

A crash is the end of the process, not of the machine: what was written stays. `AtStart` says whether a
process starts before `Init`, after it, or both: `ready` is `b.initialized` and `once` the `sync.Once`, which runs
the worker of the first `Init` only and leaves the later ones without one that answers.

The disk may fail on the path of the keys in `Flaky`: every `os.MkdirAll`, `os.OpenFile`, `os.Stat`, `os.Open`, read,
`Readdirnames` and `os.Remove` that the workers of these keys make may return an error that is not absence (`PutFails`,
`StatForGetFails`, `GetFails`, `DeleteFails`, `ListFails`), but for the `os.Remove` of an empty file, whose error
is ignored and which is taken to succeed. The caller of a `Get` or `List` receives the nil entry first and then
returns (`file.go:157-166`), so that the key looks absent; the abstract map gives such answers for `Flaky` keys and
for no other, and lets a `Delete` report an error after its file has gone (`CleanUpFails`). Errors of
`f.Sync` and of the stat after it are in the fault "write".

### SecureStream

One value lies in the file as an earlier `Put` left it; a second `Put` truncates the file and copies an
`Encryptor` into it, with a `Get` that copies the file into memory and then a `Decryptor` out of it at any
time. `Storage` keeps a `Put` and a `Get` apart by a lock, but the worker of a cancelled `Get` holds none. A byte
of a stream is the packet it belongs to and its place in it, and a packet is named by what it seals: stream,
sequence number, positions and final flag. This makes the cipher ideal: bytes open if and only if they are a
whole packet of the expected stream and number. `room` is what is left of the slice of the current call, and
`at` where the call is in its `Read`: `drain` for the packet left by the last call, `fill` for the two loops.
The lengths of the slices are free, since `io.CopyBuffer` hands the copy to `ReadFrom` of its destination.
`d.finalized` is set before the packet is authenticated, which makes no difference as nobody reads on after
an error. The sequence number does not wrap: a stream would need 2^48 bytes. An empty value has no packet,
its file is empty and `Put` removes it. `Delivery` is the contract that `Storage` uses in `Read`.

### Lifecycle

What a command does between two writes is left to `Snapshot` and `Restore`; kept is what is on the disk. `files`
maps paths below the root to files, a file being its size and a name for its bytes (a source file in its
n-th version, the data of a section of a file, the record of a snapshot, a merge of chunks). A snapshot
walks what is there, stores the chunks of each file in order and different files in any order, and commits; a
crash ends it between two Puts or tears the file of one. A restore looks every section of `ChunkMap` up under the path of every
entity, as all share one hash, and writes the merged files; if anything it needs is missing or torn the
process exits with some files removed or begun. Of a snapshot whose tag was used before, the walk finds
chunks and outputs that it is going to overwrite; the bytes it reads of them are not told apart. Which
`WriteAt` comes last where sections overlap is free. An interrupted restore leaves all of its destinations
in part or none, which are files of one byte. `MaxSize` bounds the sources that are walked. Hash equality of sections is equality of number and bounds.

## 3. The runs

All runs but `MCLifecycle` set `CHECK_DEADLOCK FALSE`: each instance ends when the call (or the bounded number
of calls) is over. That nothing blocks before is checked by the liveness properties. In `MCLifecycle` a
restore is always possible between snapshots.

| Run | Instance | Shows |
|---|---|---|
| `MCSnapshot` | 2 files of 0 to 5 bytes, chunks of 2, one permit, no faults | type and inductive invariant; `MetadataComplete`, `SuccessMeansStored`, `EveryByteOnce`, `SectionsInOrder`; `RecordedOnce`; `WaitGroupCounts`, `PermitsHeldByWriters`, `NoAddDuringWait`, `QuietAfterWait`; `SnapshotEnds`, `PermitsReturned`; `ImplementsAtomicSnapshot` |
| `MCSnapshotFaults` | 2 files of no or one byte, chunks of 1, two permits, 3 handles, every fault, writes cut short included | `MetadataComplete`, `RecordedOnce`, `SnapshotEnds`, `ImplementsAtomicSnapshot` |
| `MCSnapshotReadError` | a read may fail | **violated** `SuccessMeansStored` |
| `MCSnapshotHandles` | 2 handles | **violated** `NoFileDropped` |
| `MCRestore` | 2 files of 0 to 4 bytes with one hash, one permit, failing metadata, opens, Gets and writes | `RestoredExactly`, `QuietAfterWait`, `RestoreEnds` |
| `MCRestoreSharedHash` | the same without faults | **violated** `SoundSnapshotRestores` |
| `MCLifecycle` | 2 source files, of one or two chunks and of none, or of one each; 2 tags, 2 snapshots, 1 change, crashes, any number of restores | `RestoredAsSeen`, `OnlyFromOwnTag`, `StaysRestorable`, no deadlock |
| `MCSecureStream` | packets of 1 byte of header and up to 3 of payload, values of 0, 3 and 7 bytes, slices of 1 and 5; the `Put` stops anywhere | `EncodingFaithful`, `RoundTrip`, `BothEnd`, `ImplementsDelivery` |
| `MCStorage` | 2 clients, 2 permits, 3 calls, 3 keys: one, one in the directory above, on whose path the disk may fail, and a rejected one; crashes | `WriterAlone`, `DeleteCleansUp`, `GetRemovesNoEntry`, `ImplementsBlobStore` |
| `MCStorageCancel` | 1 client, 1 permit, 3 calls with `Init`, in a fresh process and after `Init`, 1 key, contexts end, copies stop early, `Init` fails | `OnePutAtATime`, `GetReturnsCurrent`, `EveryCallReturns` |
| `MCStorageOrphan` | 2 calls, contexts end | **violated** `GetRemovesNoEntry` |
| `MCStorageDiskFull` | 1 call, copies stop early | **violated** `EmptyFileIsAnError` |

Bounds and why they are enough. Two files and up to three chunks per file give every pair of goroutines
that can meet: two splits, a split and a writer of its own or of another file, two writers of one file
and of two, and the caller with each. Sizes run over all remainders of the chunk size, empty files and
files of a single chunk included. One permit is what the code asks for; two make the mutex matter. With faults the files have one chunk each, so
that two writers of one hash still meet at `ChunkMap`; chunks of several sizes with every fault exceed five minutes. Three
storage calls give a call before, a call during, and one that finds what both left; with cancellation an
`Init`, a call whose worker survives and one that meets it. For this one client is enough, since its cancelled
calls leave workers that run beside its next calls, and two clients with three calls exceed five minutes; live
calls that overlap, and wait for one another's lock and permits, are in `MCStorage`, for their safety. That two
live calls never block each other for ever is not model-checked: every call but `Init` takes the permit before the
lock, `Init` takes the lock alone, and `EveryCallReturns` shows that the holder gives both back. Two keys at different depths give directories
that are emptied, shared and refilled. Slices of one byte stop in every place of a packet, and slices of a packet
and a byte (`room` then takes every smaller value) take the paths straight into the caller's slice; the
values are empty, one full packet, and two full packets with a short one. Two snapshots give a tag used twice,
two tags in either order, and one that crashed followed by one that did not and walks its remains. `MaxCalls` bounds the calls, `MaxSize` and `Sizes` the
sizes, `MaxOpen` the handles, `MaxEdits` the changes and `MaxSnapshots` the snapshots; nothing else is
bounded. Clients of `MCStorage` and tags of `MCLifecycle` are symmetric, and these two check no liveness. `MCStorage` has
a `VIEW`: states that differ only in what calls that are over had asked for and found are one, as no step and none of
its properties reads that.

Fairness. Each goroutine's steps are weakly fair, since the Go scheduler runs every goroutine that can
proceed; no goroutine is favoured, and cancellations and crashes need never happen: the end of a context
(`Cancelled`) is not a step of `ClientStep`, so no call of `Storage` is saved by it. Weak fairness
suffices where several goroutines wait for one channel or mutex, because each one that passes leaves
for good (the number of chunks and of calls is finite). For `Storage` the callers need never call again; after a second
`Init` nothing is promised (`EveryCallReturns`). In `SecureStream` the loops of `Put` and of `Get` are weakly
fair, as each is a goroutine that waits for nothing but the disk; the stop is not.

What the violations show:

* `MCSnapshotReadError` (`operation.go:115`): the error of reading a chunk is dropped; the snapshot
  succeeds and a chunk is missing.
* `MCSnapshotHandles` (`operation.go:45-52`): sources are closed only when `Snapshot` returns, so that with
  many files the rest of them are dropped as if they were directories.
* `MCRestoreSharedHash` (`filewrapper/file.go:40`): a snapshot of two files of different sizes cannot be
  restored.
* `MCStorageOrphan` (`internal.go:114-122`): the worker of a cancelled `Get` removes what a later `Put`
  stored.
* `MCStorageDiskFull` (`internal.go:63, 87-93`): a `Put` that wrote nothing returns no error.

## 4. The proofs

Every theorem is about all values of the constants within the assumptions that the modules name. These are types
and signs: a positive chunk size (`New` replaces zero by 8 MiB), a positive packet payload and header, that no
slice given to `Read` is empty, that a key is not a directory and `NoTag` not a tag. Where a theorem needs more
it says so in its `ASSUME`, and the run that drops the hypothesis is named below. None of the properties is
inductive; each `IInv` below is, and is proved by one lemma for each of its parts or groups of parts, with one
step for each action. TLC was used to find the
strengthening: each was first checked, in a near form, on the instances of the runs.

### Snapshot (`ChunkingProofs`, `SnapshotProofs`)

`NumChunksBounds`, and `SectionsTile`: every byte of a file is in exactly one section. `Invariance` proves
`Spec => []IInv`, and from it `TypeCorrect`, `WaitGroupCorrect`, `AppendsCorrect`,
`CommitCorrect` (`MetadataComplete`), `EveryByteOnceCorrect`, `PermitsCorrect` (`PermitsHeldByWriters`), the action properties
`NoAddDuringWaitCorrect` and `QuietCorrect` (`QuietAfterWait`), and `Refinement` (`ImplementsAtomicSnapshot`). The argument needs

1. `WaitGroupCounts`: `wg` is the number of splits plus the number of writers that are pending, started
   or about to be (`Pending`). Every `Add` comes before what it counts can end;
2. hence `QuietInv`: when `Wait` has returned there is no split and no pending writer, and none can
   start, since only a split starts writers and only the loop over the entities starts splits;
3. `SplitInv` and `WriterInv`: a split that is done has started the writer of every chunk of its file, so
   that with 2. every chunk of every listed file has a writer, and that writer is past its append;
4. `LockInv`: between its read and its write of `ChunkMap` a writer is alone, so `RecordedOnce` is kept, and
   `DiskInv`: a writer past its Puts has left its bytes and its `.metadata` on disk, or the disk has cut one of
   them short (`cut`) and its Put said nothing;
5. `CommitInv`: the metadata on disk is what was in memory when the caller put it, and nothing changes it
   afterwards.

The rest builds on `IInv`:

* when `wg` is zero, both sets it counts are empty, so nobody is left to add to it (`NoAddDuringWait`), and by
  `QuietInv` nobody to append or to write a chunk (`QuietAfterWait`);
* a chunk is in flight from the step that takes its permit, at which `WriterInv` says it was not, to the
  step that gives the permit back (`PermitsHeldByWriters`);
* `RecordedIsAll`: when the caller puts the metadata, the sections `ChunkMap` names are exactly the chunks
  below each file's number of chunks, once each, so that `PutMetadata` is `Commit` of `AtomicSnapshot`, `PutMetadataShort` its `Lose`, and
  with `SectionsTile` each byte is in one of them (`EveryByteOnce`);
  `Walk` is `Begin`, `OpenFails` is `Drop`, every error and crash before the commit is `Fail`, and all other
  steps are stutters (`Refinement`);
* `SuccessCorrect` (`SuccessMeansStored`) assumes that no file shrinks, no read fails and no write is cut short;
  failing walks, opens and Puts, and crashes, are in. By
  `SourceInv` a file has the size the walk found, and what was read of a chunk is its whole section
  (`ReadsWholeSection`). `MCSnapshotReadError` shows what one failed read does, and `MCStorageDiskFull` the Put that is cut short;
* `OrderCorrect` (`SectionsInOrder`) assumes a pool of one permit. There is then one chunk in flight at most
  (`OneInFlight`), and it comes after every chunk of its file that has given its permit back (`OrderInv`).

### Restore (`RestoreProofs`)

`RestoreIsExact` (`RestoredExactly`), `RestoreIsQuiet` (`QuietAfterWait`) and `RestoreTypeCorrect`, for every hash
function, shared hashes included, every order of `ChunkMap` and every fault. As in `Snapshot` the wait group
counts the merges and parts at work (`WgCounts`), so that nothing runs once `Wait` has returned; a merge that
is done has started a part for each section of its list (`ListFollowed`, `PartsStarted`), a part goes on only if
its chunk was there (`PartsStored`), and a destination holds exactly what its parts have written
(`WrittenByParts`). The sections of a file are in the list of its hash (`ListsComplete`) and tile it
(`SectionsTile`), hence no byte is missing.

### Storage (`StorageProofs`, `BlobStoreProofs`)

Under every fault and cancellation: `StorageTypeCorrect`; `StoragePutsAlone` (`OnePutAtATime`), as a Put at
work has its caller waiting and that caller holds the lock alone (`WorkersHeld`, `LockExclusive`);
`StorageGetsOwnKey`, a fact of `StorageProofs` that no run repeats, as an inode and what was written into it
belong to one key (`EntriesKeyed`, `FilesKeyed`, `DataKeyed`) and a value that is read does too (`ValuesKeyed`). This
one assumes encryption, which `Multipart` always sets; without it the bytes of a torn file are returned as they are.
`StorageGetsCurrent` (`GetReturnsCurrent`): from the step in which a Get that is waited for reads its file to its
answer nobody puts under its key, as its caller holds the lock, and a worker that a cancelled call left can only remove the
name (`CurrentInv`).

While no context ends (`"cancel" \notin Faults`): `StorageWriterAlone`, `StorageDeletesDirs` (`DeleteCleansUp`) and
`StorageKeepsEntries` (`GetRemovesNoEntry`). All workers then have their caller waiting. `AloneInv` says what a
worker may go on believing between two of its steps: that the file a Get saw empty is no entry, and that the
directories `cleanupPath` has passed are gone or not empty. `MCStorageOrphan` shows that cancellation breaks
the last of the three.

`StorageImplementsBlobStore` (`ImplementsBlobStore`) assumes encryption, no cancellation and no write that stops
early; crashes are in, and disk errors on the `Flaky` keys, which only the calls for these keys see. The last hypothesis is needed because the error of such a write is
lost (`MCStorageDiskFull`) and a Put that stored nothing answers like one that did. `BlobStoreInvariant` proves

1. `CallPlaces`, `CallsDistinct`, `FreshOutcome`: which client waits for which worker, so that each step of a
   worker belongs to the request of one client;
2. `TreeHolds`, `BadKeysEmpty`: every entry lies in a directory that exists, and none under a rejected key, so that a
   List of a directory that is missing and a Get of a bad key may answer that there is nothing;
3. `WorkerInv` of every worker: its step fits its kind, it has found nothing before it answers, a Put has its own
   file under its key, a Get has the file that is under its key or that another Get has removed, a Delete
   removes a directory that is still empty; only a Flaky key excuses a Get, a List or a Delete that failed. That the workers beside it keep this is `OtherWorkers`: two
   workers meet only if both are of a Get or a List, and these change nothing but what a Get removes.

Then, for each operation, each step of its worker is one of the abstract map or not seen: `OpenForPut`
puts, `Unlink` deletes, the last step of a Get or a List takes what the map holds, `Purge` of a Get is
`GetRemoves`, and a crash leaves under each key what is on the disk, which differs from the map only where a Put is
at work.

### Encrypted stream (`PacketProofs`, `SecureStreamProofs`)

`StreamIsFaithful` (`EncodingFaithful`), `StreamRoundTrips` (`RoundTrip`) and `StreamImplementsDelivery`, for every
packet size, every two values and every sequence of slices. The encryptor is one byte ahead of the packet it seals
next (`ByteAhead`), so that what it has given out is the start of the encoding of its value (`OutIsStart`). The
file is at every moment the start of one of the two encodings (`FileIsStart`); what a Get has copied may mix
both, but byte k of it is byte k of one of them (`GotBytes`). A run of these bytes that opens is a packet,
whole, and its first byte says which: the next one in place, of the value that it is from. So what is delivered is
the start of one value, and all of it when the final packet was seen. The format is cut and put together by
lemmas of `PacketProofs` (`StartGrows`, `PacketPart`, `ByteOfPacket`).

### Lifecycle (`LifecycleProofs`)

`LifecycleRestores` (`RestoredAsSeen`), `LifecycleKeepsTagsApart` (`OnlyFromOwnTag`) and `LifecycleStaysRestorable`
(`StaysRestorable`), for any tags, sources, sizes, and number of snapshots, changes, crashes and restores. A Snapshot
that runs still finds on disk what its walk saw, but for files of its own tag (`JobSees`); a chunk that can
be read holds a section of something seen for its tag (`ChunksSeen`), and the commit record of a tag used
once lists what was seen, all of it (`MetadataSeen`). A tag never used has left no trace (`UnusedTags`), so
that the two hold when its Snapshot begins. The first two properties are parts of `IInv`.

### Only model-checked

* Liveness, which the prover does not do: `SnapshotEnds`, `PermitsReturned`, `RestoreEnds`, `EveryCallReturns`,
  `BothEnd`.
* The five violations, each a counterexample that TLC finds.

## 5. Not modelled

* In `Lifecycle`, writes that are cut short without ending the process: `Snapshot` has them (`cut`), and a tag whose
  record or chunks are among them is as one that crashed. That the removal of an empty file fails.
* Sources that grow while they are read. Tags that contain a separator, whose keys can fall into the directories of
  another tag (`operation.go:64, 109`). Two processes on one root.
* That the walk itself may block: `filewrapper.New` opens every entity to hash it, named pipes included
  (`filewrapper/file.go:38`). File names: one that contains two dots in a row makes `Put` fail
  (`internal.go:311`), which is the fault "put".
* The names `List` returns (it strips a leading `_` that `expandPath` no longer adds), and `Delete` of the
  empty key.
* The cipher itself, and streams so long that the sequence number wraps.
* `NewMetadataLegacy` and `listEntities`, which nobody calls; the orders of `pkg/filewrapper` they use.
* The setters of `options.go`, among them that `Option` after `New` can set a chunk size of zero.
* The flags of the command line, the sample generator, JSON, uuid, version and formatting helpers: no state.
* What `Restore` prints of hashes and sizes after the merge; it compares nothing.

## 6. Plan

In this order:

1. done: `Chunking`, `PermitPool`, `Snapshot` with `AtomicSnapshot`, their proofs; `Storage` with `BlobStore`;
   `Restore`.
2. done: `Lifecycle`; `SecureStream` with `Encryptor`, `Decryptor` and `Delivery`; `Init` and nested directories
   in `Storage`.
3. done: the safety properties of `Snapshot`, `Restore`, `Storage`, `SecureStream` and `Lifecycle` as theorems, with
   the refinements of `AtomicSnapshot`, `BlobStore` and `Delivery`.
4. Proof left: that the keys of `Lifecycle` make of a `Snapshot` on a fresh tag a `Commit` of
   `AtomicSnapshot`.
