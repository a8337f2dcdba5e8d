------------------------------ MODULE Snapshot ------------------------------
(***************************************************************************)
(* Multipart.Snapshot (operation.go): the calling goroutine walks the root,*)
(* opens each file and starts one split goroutine per file; each split     *)
(* cuts its file into chunks and starts one writer goroutine per chunk,    *)
(* which stores the chunk and its metadata and appends the section to      *)
(* ChunkMap under stateLock.  The caller waits on s.wg and then stores the *)
(* snapshot metadata, which is the commit record of the snapshot.          *)
(*                                                                         *)
(* disk.Put of a file is one step here, and two for the bytes of a chunk:  *)
(* without cancellation the storage serialises its operations (module      *)
(* Storage).  With encryption Put loses the error of a write: it returns   *)
(* nil and has left a file that cannot be read, or none.  A file that is   *)
(* not regular is skipped by Snapshot and by Restore exactly as an empty   *)
(* one, so it is walked with size 0.                                       *)
(***************************************************************************)
EXTENDS Chunking, FiniteSets, Sequences

CONSTANTS
  NumFiles,    \* number of entities the walk finds
  MaxSize,     \* bound on the size of a walked file
  FileHash,    \* filewrapper.New: the hash recorded for each file
  Requested,   \* permits asked for the pool; New asks for 1
  MaxOpen,     \* file handles the process may hold at once
  Faults       \* the environment faults this instance has

File      == 1 .. NumFiles                        \* in the order of the walk
MaxChunks == NumChunks(MaxSize)
Chunk     == File \X (0 .. MaxChunks - 1)         \* file and section number
Hash      == {FileHash[f] : f \in File}
FaultKind == {"walk", "open", "read", "truncate", "put", "write", "crash"}

ASSUME SnapshotAssumption ==
  /\ NumFiles \in Nat
  /\ MaxSize \in Nat
  /\ FileHash \in [File -> Int]
  /\ Requested \in Int
  /\ MaxOpen \in Nat
  /\ Faults \subseteq FaultKind

Free       == <<0, 0>>    \* no goroutine holds stateLock
ReadFailed == -1          \* c.Data() returned nil and left c.Hash empty
Record     == <<0, 1>>    \* the snapshot metadata among the files in cut
NoMetadata == [size |-> <<>>, chunkMap |-> <<>>]

VARIABLES
  main,      \* where the goroutine that called Snapshot is
  cursor,    \* next entity of the loop over md.Entities
  size,      \* Size of each entity in md.Entities
  src,       \* bytes each file holds right now
  split,     \* the split goroutine of each file
  idx,       \* its loop variable i
  value,     \* bytes of each chunk read into memory, or ReadFailed
  writer,    \* the goroutine that stores each chunk
  seen,      \* ChunkMap[fw.Hash] as that goroutine read it
  chunkMap,  \* metadata.ChunkMap
  lock,      \* holder of s.stateLock
  wg,        \* counter of s.wg
  sem,       \* s.permitpool
  stored,    \* bytes that can be read of each chunk on disk, 0 where there is none
  chunkMeta, \* chunks whose .metadata file is on disk
  metadata,  \* the snapshot metadata on disk
  cut        \* chunks with a file, and Record, that a Put left in part

disk == <<stored, chunkMeta, metadata, cut>>
vars == <<main, cursor, size, src, split, idx, value, writer, seen, chunkMap,
          lock, wg, sem, disk>>

Pool == INSTANCE PermitPool

HashOf(c)   == FileHash[c[1]]
Returned    == main \in {"ok", "error"}
Exited      == main = "exit"          \* log.Fatal or a crash: nothing runs
Least(a, b) == IF a < b THEN a ELSE b

(* The sources stay open until Snapshot returns ("defer osfile.Close()" in *)
(* the loop); a Put holds its file open while it writes.                   *)
Handles ==
  IF Returned THEN 0
  ELSE Cardinality({f \in File : split[f] # "none"})
         + Cardinality({c \in Chunk : writer[c] = "write"})

HandleFree == Handles < MaxOpen

SplitStates  == {"none", "read", "acquire", "done"}
WriterStates == {"none", "data", "write", "meta", "lock", "load", "store", "done",
                 "release", "gone"}

Init ==
  /\ main = "walk"
  /\ cursor = 1
  /\ size = [f \in File |-> 0]
  /\ src = [f \in File |-> 0]
  /\ split = [f \in File |-> "none"]
  /\ idx = [f \in File |-> 0]
  /\ value = [c \in Chunk |-> 0]
  /\ writer = [c \in Chunk |-> "none"]
  /\ seen = [c \in Chunk |-> <<>>]
  /\ chunkMap = [h \in Hash |-> <<>>]
  /\ lock = Free
  /\ wg = 0
  /\ Pool!New
  /\ stored = [c \in Chunk |-> 0]
  /\ chunkMeta = {}
  /\ metadata = NoMetadata
  /\ cut = {}
-----------------------------------------------------------------------------
(* The goroutine that called Snapshot.                                     *)

(* NewMetadata: one walk of the root fixes the entities and their sizes. *)
Walk ==
  /\ main = "walk"
  /\ \E sizes \in [File -> 0 .. MaxSize] : size' = sizes /\ src' = sizes
  /\ main' = "open"
  /\ UNCHANGED <<cursor, split, idx, value, writer, seen, chunkMap, lock, wg,
                 sem, disk>>

WalkFails ==
  /\ "walk" \in Faults
  /\ main = "walk"
  /\ main' = "error"
  /\ UNCHANGED <<cursor, size, src, split, idx, value, writer, seen, chunkMap,
                 lock, wg, sem, disk>>

AtEntity == main = "open" /\ cursor \in File

(* !v.IsFile() || v.Size == 0 *)
SkipEntity ==
  /\ AtEntity
  /\ size[cursor] = 0
  /\ cursor' = cursor + 1
  /\ UNCHANGED <<main, size, src, split, idx, value, writer, seen, chunkMap,
                 lock, wg, sem, disk>>

(* os.OpenFile failed: the entity stays in the metadata with size 0. *)
OpenFails ==
  /\ "open" \in Faults \/ ~HandleFree
  /\ AtEntity
  /\ size[cursor] > 0
  /\ size' = [size EXCEPT ![cursor] = 0]
  /\ cursor' = cursor + 1
  /\ UNCHANGED <<main, src, split, idx, value, writer, seen, chunkMap, lock,
                 wg, sem, disk>>

(* Mutant of StartSplit: s.wg.Add(1) is left to the goroutine, too late. *)
StartSplitNoAdd ==
  /\ AtEntity
  /\ HandleFree
  /\ size[cursor] > 0
  /\ split' = [split EXCEPT ![cursor] = "read"]
  /\ cursor' = cursor + 1
  /\ UNCHANGED <<main, size, src, idx, value, writer, seen, chunkMap, lock, wg,
                 sem, disk>>

(* s.wg.Add(1); go s.split(...) *)
StartSplit ==
  /\ AtEntity
  /\ HandleFree
  /\ size[cursor] > 0
  /\ wg' = wg + 1
  /\ split' = [split EXCEPT ![cursor] = "read"]
  /\ cursor' = cursor + 1
  /\ UNCHANGED <<main, size, src, idx, value, writer, seen, chunkMap, lock,
                 sem, disk>>

StartWait ==
  /\ main = "open"
  /\ cursor \notin File
  /\ main' = "wait"
  /\ UNCHANGED <<cursor, size, src, split, idx, value, writer, seen, chunkMap,
                 lock, wg, sem, disk>>

(* Mutant of WaitReturns: one goroutine is not waited for. *)
WaitReturnsEarly ==
  /\ main = "wait"
  /\ wg <= 1
  /\ main' = "put"
  /\ UNCHANGED <<cursor, size, src, split, idx, value, writer, seen, chunkMap,
                 lock, wg, sem, disk>>

(* s.wg.Wait() *)
WaitReturns ==
  /\ main = "wait"
  /\ wg = 0
  /\ main' = "put"
  /\ UNCHANGED <<cursor, size, src, split, idx, value, writer, seen, chunkMap,
                 lock, wg, sem, disk>>

PutMetadata ==
  /\ main = "put"
  /\ HandleFree
  /\ metadata' = [size |-> size, chunkMap |-> chunkMap]
  /\ main' = "ok"
  /\ UNCHANGED <<cursor, size, src, split, idx, value, writer, seen, chunkMap,
                 lock, wg, sem, stored, chunkMeta, cut>>

(* The disk takes a part of the record, and Put returns nil. *)
PutMetadataShort ==
  /\ "write" \in Faults
  /\ main = "put"
  /\ HandleFree
  /\ cut' = cut \cup {Record}
  /\ main' = "ok"
  /\ UNCHANGED <<cursor, size, src, split, idx, value, writer, seen, chunkMap,
                 lock, wg, sem, stored, chunkMeta, metadata>>

PutMetadataFails ==
  /\ "put" \in Faults \/ ~HandleFree
  /\ main = "put"
  /\ main' = "error"
  /\ UNCHANGED <<cursor, size, src, split, idx, value, writer, seen, chunkMap,
                 lock, wg, sem, disk>>
-----------------------------------------------------------------------------
(* The split goroutine of file f.                                          *)

MoreChunks(f) == idx[f] < NumChunks(size[f])

(* Mutant of Readable: the section reader stops one byte early. *)
ReadableShort(f, i) ==
  {IF src[f] <= Offset(i) THEN 0
   ELSE Least(SectionSize(size[f], i), src[f] - Offset(i)) - 1}

(* What c.Data() can leave in memory for chunk i of file f: the section    *)
(* reader stops at the end of the file as it is now, and an I/O error is   *)
(* dropped by "value, _ := c.Data()".                                      *)
Readable(f, i) ==
  {IF src[f] <= Offset(i) THEN 0
   ELSE Least(SectionSize(size[f], i), src[f] - Offset(i))}
    \cup (IF "read" \in Faults THEN {ReadFailed} ELSE {})

(* Read one section and, before blocking on the pool, s.wg.Add(1). *)
ReadChunk(f) ==
  /\ ~Exited
  /\ split[f] = "read"
  /\ MoreChunks(f)
  /\ \E v \in Readable(f, idx[f]) : value' = [value EXCEPT ![<<f, idx[f]>>] = v]
  /\ wg' = wg + 1
  /\ split' = [split EXCEPT ![f] = "acquire"]
  /\ UNCHANGED <<main, cursor, size, src, idx, writer, seen, chunkMap, lock,
                 sem, disk>>

(* Mutant of StartWriter: no permit is taken. *)
StartWriterNoPermit(f) ==
  /\ ~Exited
  /\ split[f] = "acquire"
  /\ writer' = [writer EXCEPT ![<<f, idx[f]>>] = "data"]
  /\ idx' = [idx EXCEPT ![f] = @ + 1]
  /\ split' = [split EXCEPT ![f] = "read"]
  /\ UNCHANGED <<main, cursor, size, src, value, seen, chunkMap, lock, wg, sem,
                 disk>>

(* s.permitpool.Acquire(); go func() {...}(); i++ *)
StartWriter(f) ==
  /\ ~Exited
  /\ split[f] = "acquire"
  /\ Pool!Acquire
  /\ writer' = [writer EXCEPT ![<<f, idx[f]>>] = "data"]
  /\ idx' = [idx EXCEPT ![f] = @ + 1]
  /\ split' = [split EXCEPT ![f] = "read"]
  /\ UNCHANGED <<main, cursor, size, src, value, seen, chunkMap, lock, wg,
                 disk>>

(* Mutant of SplitReturns: the deferred s.wg.Done() is missing. *)
SplitReturnsNoDone(f) ==
  /\ ~Exited
  /\ split[f] = "read"
  /\ ~MoreChunks(f)
  /\ split' = [split EXCEPT ![f] = "done"]
  /\ UNCHANGED <<main, cursor, size, src, idx, value, writer, seen, chunkMap,
                 lock, wg, sem, disk>>

(* The loop is over: the deferred s.wg.Done() runs. *)
SplitReturns(f) ==
  /\ ~Exited
  /\ split[f] = "read"
  /\ ~MoreChunks(f)
  /\ wg' = wg - 1
  /\ split' = [split EXCEPT ![f] = "done"]
  /\ UNCHANGED <<main, cursor, size, src, idx, value, writer, seen, chunkMap,
                 lock, sem, disk>>
-----------------------------------------------------------------------------
(* The writer goroutine of chunk c.                                        *)

Moves(c, from, to) ==
  /\ ~Exited
  /\ writer[c] = from
  /\ writer' = [writer EXCEPT ![c] = to]

(* disk.Put of the bytes creates or truncates the chunk file ... *)
OpenChunk(c) ==
  /\ HandleFree
  /\ Moves(c, "data", "write")
  /\ stored' = IF value[c] = ReadFailed THEN stored
               ELSE [stored EXCEPT ![c] = 0]
  /\ UNCHANGED <<main, cursor, size, src, split, idx, value, seen, chunkMap,
                 lock, wg, sem, chunkMeta, metadata, cut>>

(* ... and copies the bytes.  It removes the file again when there was     *)
(* nothing to write, and without a hash the key names the directory of the *)
(* chunk, so that no chunk file is written.                                *)
WriteChunk(c) ==
  /\ Moves(c, "write", "meta")
  /\ stored' = IF value[c] = ReadFailed THEN stored
               ELSE [stored EXCEPT ![c] = value[c]]
  /\ UNCHANGED <<main, cursor, size, src, split, idx, value, seen, chunkMap,
                 lock, wg, sem, chunkMeta, metadata, cut>>

(* The disk takes a part of the bytes, and Put returns nil. *)
WriteChunkShort(c) ==
  /\ "write" \in Faults
  /\ value[c] > 0
  /\ Moves(c, "write", "meta")
  /\ cut' = cut \cup {c}
  /\ UNCHANGED <<main, cursor, size, src, split, idx, value, seen, chunkMap,
                 lock, wg, sem, stored, chunkMeta, metadata>>

(* disk.Put of the section as JSON. *)
PutChunkMeta(c) ==
  /\ HandleFree
  /\ Moves(c, "meta", "lock")
  /\ chunkMeta' = chunkMeta \cup {c}
  /\ UNCHANGED <<main, cursor, size, src, split, idx, value, seen, chunkMap,
                 lock, wg, sem, stored, metadata, cut>>

PutChunkMetaShort(c) ==
  /\ "write" \in Faults
  /\ HandleFree
  /\ Moves(c, "meta", "lock")
  /\ cut' = cut \cup {c}
  /\ UNCHANGED <<main, cursor, size, src, split, idx, value, seen, chunkMap,
                 lock, wg, sem, stored, chunkMeta, metadata>>

(* Either Put returns an error: log.Fatal ends the process. *)
PutFails(c) ==
  /\ ~Exited
  /\ \/ "put" \in Faults /\ writer[c] \in {"data", "write", "meta"}
     \/ ~HandleFree /\ writer[c] \in {"data", "meta"}
  /\ main' = "exit"
  /\ UNCHANGED <<cursor, size, src, split, idx, value, writer, seen, chunkMap,
                 lock, wg, sem, disk>>

(* Mutant of LockState: stateLock is not waited for. *)
LockStateUnlocked(c) ==
  /\ Moves(c, "lock", "load")
  /\ lock' = c
  /\ UNCHANGED <<main, cursor, size, src, split, idx, value, seen, chunkMap,
                 wg, sem, disk>>

LockState(c) ==
  /\ Moves(c, "lock", "load")
  /\ lock = Free
  /\ lock' = c
  /\ UNCHANGED <<main, cursor, size, src, split, idx, value, seen, chunkMap,
                 wg, sem, disk>>

(* The append is a read of ChunkMap[fw.Hash] ... *)
LoadSections(c) ==
  /\ Moves(c, "load", "store")
  /\ seen' = [seen EXCEPT ![c] = chunkMap[HashOf(c)]]
  /\ UNCHANGED <<main, cursor, size, src, split, idx, value, chunkMap, lock,
                 wg, sem, disk>>

(* Mutant of StoreSections: the slice is made anew instead of appended to. *)
StoreSectionsFresh(c) ==
  /\ Moves(c, "store", "done")
  /\ chunkMap' = [chunkMap EXCEPT ![HashOf(c)] = Append(<<>>, c)]
  /\ seen' = [seen EXCEPT ![c] = <<>>]
  /\ lock' = Free
  /\ UNCHANGED <<main, cursor, size, src, split, idx, value, wg, sem, disk>>

(* ... and a write, after which stateLock is unlocked. *)
StoreSections(c) ==
  /\ Moves(c, "store", "done")
  /\ chunkMap' = [chunkMap EXCEPT ![HashOf(c)] = Append(seen[c], c)]
  /\ seen' = [seen EXCEPT ![c] = <<>>]
  /\ lock' = Free
  /\ UNCHANGED <<main, cursor, size, src, split, idx, value, wg, sem, disk>>

(* The deferred calls run last in, first out: s.wg.Done(), ... *)
WriterDone(c) ==
  /\ Moves(c, "done", "release")
  /\ wg' = wg - 1
  /\ UNCHANGED <<main, cursor, size, src, split, idx, value, seen, chunkMap,
                 lock, sem, disk>>

(* Mutant of WriterReleases: the permit is kept. *)
WriterReleasesNothing(c) ==
  /\ Moves(c, "release", "gone")
  /\ UNCHANGED <<main, cursor, size, src, split, idx, value, seen, chunkMap,
                 lock, wg, sem, disk>>

(* ... then s.permitpool.Release(). *)
WriterReleases(c) ==
  /\ Moves(c, "release", "gone")
  /\ Pool!Release
  /\ UNCHANGED <<main, cursor, size, src, split, idx, value, seen, chunkMap,
                 lock, wg, disk>>
-----------------------------------------------------------------------------
(* The environment.                                                        *)

(* Another process shortens a file after the walk has recorded its size. *)
Truncate(f) ==
  /\ "truncate" \in Faults
  /\ main \notin {"walk", "ok", "error", "exit"}
  /\ \E n \in 0 .. MaxSize : n < src[f] /\ src' = [src EXCEPT ![f] = n]
  /\ UNCHANGED <<main, cursor, size, split, idx, value, writer, seen,
                 chunkMap, lock, wg, sem, disk>>

Crash ==
  /\ "crash" \in Faults
  /\ ~Exited
  /\ ~Returned
  /\ main' = "exit"
  /\ UNCHANGED <<cursor, size, src, split, idx, value, writer, seen, chunkMap,
                 lock, wg, sem, disk>>

(* The process has ended, or Snapshot has returned and every goroutine it  *)
(* started is gone.                                                        *)
Finished ==
  \/ Exited
  \/ /\ Returned
     /\ \A f \in File : split[f] \in {"none", "done"}
     /\ \A c \in Chunk : writer[c] \in {"none", "gone"}

MainStep ==
  \/ Walk \/ WalkFails \/ SkipEntity \/ OpenFails \/ StartSplit
  \/ StartWait \/ WaitReturns \/ PutMetadata \/ PutMetadataShort \/ PutMetadataFails

SplitStep(f) == ReadChunk(f) \/ StartWriter(f) \/ SplitReturns(f)

WriterStep(c) ==
  \/ OpenChunk(c) \/ WriteChunk(c) \/ WriteChunkShort(c)
  \/ PutChunkMeta(c) \/ PutChunkMetaShort(c) \/ PutFails(c)
  \/ LockState(c) \/ LoadSections(c) \/ StoreSections(c) \/ WriterDone(c)
  \/ WriterReleases(c)

Next ==
  \/ MainStep
  \/ \E f \in File : SplitStep(f) \/ Truncate(f)
  \/ \E c \in Chunk : WriterStep(c)
  \/ Crash

Spec == Init /\ [][Next]_vars

(* Every goroutine that can run is eventually scheduled. *)
Fairness ==
  /\ WF_vars(MainStep)
  /\ \A f \in File : WF_vars(SplitStep(f))
  /\ \A c \in Chunk : WF_vars(WriterStep(c))

FairSpec == Spec /\ Fairness
-----------------------------------------------------------------------------
(* What a snapshot promises.                                               *)

(* The goroutines s.wg counts: a split until it returns, the writer split  *)
(* is about to start, and a writer until its deferred Done.                *)
Pending ==
  {c \in Chunk : \/ writer[c] \in WriterStates \ {"none", "release", "gone"}
                 \/ split[c[1]] = "acquire" /\ idx[c[1]] = c[2]}

Splitting == {f \in File : split[f] \in {"read", "acquire"}}

InFlight == {c \in Chunk : writer[c] \notin {"none", "gone"}}

Times(c, sections) == Cardinality({k \in DOMAIN sections : sections[k] = c})

(* The chunks the entities of a snapshot are cut into. *)
ChunksOf(sizes) == {c \in Chunk : c[2] < NumChunks(sizes[c[1]])}

BytesOf(c) == IF value[c] = ReadFailed THEN 0 ELSE value[c]

(* Every variable has its type: the counters stay in their ranges, lock    *)
(* names a goroutine, and only sections of files with a hash are recorded  *)
(* under it.                                                               *)
TypeOK ==
  /\ main \in {"walk", "open", "wait", "put", "ok", "error", "exit"}
  /\ cursor \in 1 .. NumFiles + 1
  /\ size \in [File -> 0 .. MaxSize]
  /\ src \in [File -> 0 .. MaxSize]
  /\ split \in [File -> SplitStates]
  /\ idx \in [File -> 0 .. MaxChunks]
  /\ value \in [Chunk -> {ReadFailed} \cup 0 .. ChunkSize]
  /\ writer \in [Chunk -> WriterStates]
  /\ seen \in [Chunk -> Seq(Chunk)]
  /\ chunkMap \in [Hash -> Seq(Chunk)]
  /\ lock \in Chunk \cup {Free}
  /\ wg \in Nat
  /\ Pool!TypeOK
  /\ stored \in [Chunk -> 0 .. ChunkSize]
  /\ chunkMeta \subseteq Chunk
  /\ metadata \in [size : [File -> 0 .. MaxSize], chunkMap : [Hash -> Seq(Chunk)]]
                  \cup {NoMetadata}
  /\ cut \subseteq Chunk \cup {Record}

(* The snapshot metadata is the commit record (operation.go:56-67): once   *)
(* it is on disk, ChunkMap names every chunk of every file it lists        *)
(* exactly once, and the bytes that were read of it and its .metadata are  *)
(* on disk, but for a file of which the disk took a part and Put said      *)
(* nothing (internal.go:57-65).                                            *)
MetadataComplete ==
  metadata # NoMetadata =>
    \A c \in ChunksOf(metadata.size) :
      /\ Times(c, metadata.chunkMap[HashOf(c)]) = 1
      /\ c \notin cut => stored[c] = BytesOf(c) /\ c \in chunkMeta

(* A snapshot that reports success has every byte of every file it lists   *)
(* on disk ("takes a snapshot of files in a directory and split them into  *)
(* chunks", splitter.go:30).                                               *)
SuccessMeansStored ==
  main = "ok" =>
    \A c \in ChunksOf(size) : stored[c] = SectionSize(size[c[1]], c[2])

(* What the comment on a failed open supposes ("could not open file ...    *)
(* possibly is a dir...", operation.go:45): no regular file that the walk  *)
(* found with bytes in it is dropped.                                      *)
NoFileDropped ==
  \A f \in File : f < cursor /\ src[f] > 0 => size[f] > 0

(* No append to ChunkMap is lost or repeated (operation.go:147-152): a     *)
(* section is under the hash of its file once when its writer has left the *)
(* critical section, and not at all before.                                *)
RecordedOnce ==
  \A c \in Chunk :
    Times(c, chunkMap[HashOf(c)]) =
      IF writer[c] \in {"done", "release", "gone"} THEN 1 ELSE 0

(* s.wg counts exactly the goroutines that are still to call Done, so that *)
(* Wait cannot return before the last append (operation.go:51, 76, 129,    *)
(* 133) and no Done makes the counter negative, which would panic.         *)
WaitGroupCounts == wg = Cardinality(Splitting) + Cardinality(Pending)

(* A permit of s.permitpool is held by each writer in flight and by nobody *)
(* else, so the pool bounds the writers and no Release can block on an     *)
(* empty channel (operation.go:130, 132).                                  *)
PermitsHeldByWriters == sem = Cardinality(InFlight)

(* The recorded sections cut each file without a gap or an overlap: every  *)
(* byte of it is in exactly one of them (operation.go:81-104).             *)
EveryByteOnce ==
  metadata # NoMetadata =>
    \A f \in File : \A b \in 0 .. metadata.size[f] - 1 :
      LET sections == metadata.chunkMap[FileHash[f]]
          Holds(k) == /\ sections[k][1] = f
                      /\ LET s == Section(metadata.size[f], sections[k][2])
                         IN  s.start <= b /\ b < s.end
      IN  Cardinality({k \in DOMAIN sections : Holds(k)}) = 1

(* With the single permit New asks for, a writer gives its permit back     *)
(* after its append, so each file's sections are recorded in their order   *)
(* in the file, whatever other files share its hash.                       *)
SectionsInOrder ==
  \A h \in Hash : \A j, k \in DOMAIN chunkMap[h] :
    (j < k /\ chunkMap[h][j][1] = chunkMap[h][k][1])
      => chunkMap[h][j][2] < chunkMap[h][k][2]

(* s.wg.Add with the counter at zero while Wait blocks is a misuse of      *)
(* sync.WaitGroup: the counter, once zero, is final (operation.go:51, 56,  *)
(* 129).                                                                   *)
NoAddDuringWait == [][main = "wait" /\ wg = 0 => wg' = 0]_vars

Waited == main \in {"put", "ok", "error"}

(* EncodeJSON reads ChunkMap without stateLock (operation.go:58), so that  *)
(* all appends must be over: once Wait has returned, and when Snapshot has *)
(* returned, none of its goroutines touches ChunkMap or a chunk on disk.   *)
QuietAfterWait ==
  [][Waited => UNCHANGED <<chunkMap, stored, chunkMeta>>]_vars

(* Every Snapshot call returns or ends the process, and every goroutine it *)
(* started ends too: neither the wait group nor the pool nor the mutex can *)
(* block one of them for ever.                                             *)
SnapshotEnds == <>Finished

(* The pool is shared by all calls on the Multipart; a call that returned  *)
(* without an error eventually leaves it as it found it, although Wait may *)
(* return before the last Release (the deferred calls run Done first).     *)
PermitsReturned == main = "ok" ~> sem = 0
-----------------------------------------------------------------------------
(* The inductive invariant behind MetadataComplete, in named parts.        *)

(* The loop has passed exactly the files before cursor, each is empty or   *)
(* has a split, and a split has started the writers of the chunks below    *)
(* its index.                                                              *)
SplitInv ==
  /\ main = "walk" => cursor = 1
  /\ main \in {"wait", "put", "ok"} => cursor = NumFiles + 1
  /\ \A f \in File :
       /\ f >= cursor => split[f] = "none"
       /\ f < cursor /\ split[f] = "none" => size[f] = 0
       /\ split[f] = "none" => idx[f] = 0
       /\ split[f] = "read" => idx[f] <= NumChunks(size[f])
       /\ split[f] = "acquire" => idx[f] < NumChunks(size[f])
       /\ split[f] = "done" => idx[f] = NumChunks(size[f])

WriterInv == \A c \in Chunk : writer[c] = "none" <=> c[2] >= idx[c[1]]

(* Wait returned only when nothing was left to wait for. *)
QuietInv == Waited => Splitting = {} /\ Pending = {}

(* The holder of stateLock is alone between its read and its write. *)
LockInv ==
  \A c \in Chunk :
    /\ lock = c <=> writer[c] \in {"load", "store"}
    /\ writer[c] = "store" => seen[c] = chunkMap[HashOf(c)]

(* A Put that returned nil has stored its file, or left it in part. *)
DiskInv ==
  /\ \A c \in Chunk :
       /\ writer[c] \in {"none", "data", "write"} => stored[c] = 0
       /\ writer[c] \notin {"none", "data", "write"} => stored[c] = BytesOf(c) \/ c \in cut
       /\ writer[c] \notin {"none", "data", "write", "meta"} => c \in chunkMeta \/ c \in cut
  /\ "write" \notin Faults => cut = {}

CommitInv ==
  /\ metadata # NoMetadata =>
       main = "ok" /\ metadata = [size |-> size, chunkMap |-> chunkMap]
  /\ Record \in cut => main = "ok" /\ metadata = NoMetadata

(* Everything MetadataComplete rests on holds together after every step    *)
(* of operation.go:22-157.                                                 *)
IInv ==
  /\ TypeOK
  /\ SplitInv
  /\ WriterInv
  /\ WaitGroupCounts
  /\ QuietInv
  /\ LockInv
  /\ RecordedOnce
  /\ DiskInv
  /\ CommitInv
-----------------------------------------------------------------------------
(* The atomic snapshot this implements.                                    *)

Committed ==
  IF metadata = NoMetadata THEN {}
  ELSE {<<c, Times(c, metadata.chunkMap[HashOf(c)])>> : c \in
          {d \in Chunk : Times(d, metadata.chunkMap[HashOf(d)]) > 0}}

Phase ==
  IF main = "walk" THEN "start"
  ELSE IF main \in {"open", "wait", "put"} THEN "running"
  ELSE IF main = "ok" THEN (IF Record \in cut THEN "lost" ELSE "committed")
  ELSE "failed"

Abstract == INSTANCE AtomicSnapshot WITH
  phase <- Phase, committed <- Committed, Cuts <- "write" \in Faults

(* Seen through Phase and Committed, Snapshot is AtomicSnapshot: all the   *)
(* goroutines together commit every chunk exactly once, in one step, or    *)
(* commit nothing (operation.go:22-157), and that is not reported as a     *)
(* success unless the disk cut the commit record short.                    *)
ImplementsAtomicSnapshot == Abstract!Spec
=============================================================================
