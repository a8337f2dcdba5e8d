------------------------------ MODULE Restore ------------------------------
(***************************************************************************)
(* Multipart.Restore (operation.go): the calling goroutine reads the       *)
(* metadata of a snapshot, creates a destination for each file and starts  *)
(* one merge goroutine per file; each merge starts one goroutine per       *)
(* section that chunkMap lists under the hash of its file, which gets the  *)
(* chunk from the storage and writes it at its place.  The caller waits on *)
(* s.wg and then opens every restored file to print its hash and size.     *)
(*                                                                         *)
(* The initial states are what one Snapshot leaves on disk (module         *)
(* Snapshot).  The key of a chunk is made of the path of its file, its     *)
(* number and a hash of its start, end and size (pkg/section).             *)
(***************************************************************************)
EXTENDS Chunking, FiniteSets, Sequences, SequencesExt

CONSTANTS
  NumFiles,    \* number of entities in the metadata
  MaxSize,     \* bound on the size of a file
  FileHash,    \* filewrapper.New: the hash recorded for each file
  Requested,   \* permits asked for the pool; New asks for 1
  Faults       \* the environment faults this instance has

Entity    == 1 .. NumFiles                     \* in the order of the metadata
MaxChunks == NumChunks(MaxSize)
Hash      == {FileHash[f] : f \in Entity}
Position  == 1 .. NumFiles * MaxChunks          \* in a list of chunkMap
Part      == Entity \X Position                \* one section merged into a file
FaultKind == {"tag", "open", "get", "write"}

ASSUME RestoreAssumption ==
  /\ NumFiles \in Nat
  /\ MaxSize \in Nat
  /\ FileHash \in [Entity -> Int]
  /\ Requested \in Int
  /\ Faults \subseteq FaultKind

VARIABLES
  size,      \* Size of each entity in the metadata
  chunkMap,  \* ChunkMap in the metadata: the sections under each hash
  main,      \* where the goroutine that called Restore is
  cursor,    \* next entity of the loop it is in
  merge,     \* the merge goroutine of each entity
  pos,       \* the next section of its loop
  part,      \* the goroutine that merges each section
  written,   \* the positions of each destination that hold their byte
  wg,        \* counter of s.wg
  sem        \* s.permitpool

vars == <<size, chunkMap, main, cursor, merge, pos, part, written, wg, sem>>

Pool == INSTANCE PermitPool

(* The sections a Snapshot records under a hash: those of every file that  *)
(* has the hash.  Section <<g, i>> is number i of file g.                  *)
Listed(hash) ==
  {c \in Entity \X (0 .. MaxChunks - 1) :
     FileHash[c[1]] = hash /\ c[2] < NumChunks(size[c[1]])}

(* The orders in which a Snapshot can have appended them: with the one     *)
(* permit of New the sections of one file follow each other; with more any *)
(* order is allowed here.                                                  *)
Lists(hash) ==
  {list \in SetToSeqs(Listed(hash)) :
     Pool!Permits > 1 \/
     \A j, k \in DOMAIN list :
       j < k /\ list[j][1] = list[k][1] => list[j][2] < list[k][2]}

SectionAt(hash, k) ==
  LET c == chunkMap[hash][k] IN Section(size[c[1]], c[2])

(* Mutant of SectionOf: the goroutine captures the variable of the loop.   *)
SectionCaptured(f, k) ==
  LET n == Len(chunkMap[FileHash[f]])
  IN  SectionAt(FileHash[f], IF pos[f] > n THEN n ELSE pos[f])

(* go func(sec) {...}(v) gives the goroutine its own section. *)
SectionOf(f, k) == SectionAt(FileHash[f], k)

(* There is a chunk under the key of section s of file f. *)
IsStored(f, s) == s \in Sections(size[f])

Exited   == main = "exit"              \* log.Fatal or a panic: nothing runs
Returned == main \in {"ok", "error"}

Init ==
  /\ size \in [Entity -> 0 .. MaxSize]
  /\ chunkMap \in {map \in [Hash -> UNION {Lists(h) : h \in Hash}] :
                     \A h \in Hash : map[h] \in Lists(h)}
  /\ main = "get"
  /\ cursor = 1
  /\ merge = [f \in Entity |-> "none"]
  /\ pos = [f \in Entity |-> 1]
  /\ part = [p \in Part |-> "none"]
  /\ written = [f \in Entity |-> {}]
  /\ wg = 0
  /\ Pool!New
-----------------------------------------------------------------------------
(* The goroutine that called Restore.                                      *)

GetMetadata ==
  /\ main = "get"
  /\ main' = "open"
  /\ UNCHANGED <<size, chunkMap, cursor, merge, pos, part, written, wg, sem>>

(* disk.Get or DecodeJSON returns an error. *)
TagFails ==
  /\ "tag" \in Faults
  /\ main = "get"
  /\ main' = "error"
  /\ UNCHANGED <<size, chunkMap, cursor, merge, pos, part, written, wg, sem>>

(* disk.Get returns nil and no error for a tag that is not there, and      *)
(* result.Value is a nil dereference.                                      *)
NoSuchTag ==
  /\ "tag" \in Faults
  /\ main = "get"
  /\ main' = "exit"
  /\ UNCHANGED <<size, chunkMap, cursor, merge, pos, part, written, wg, sem>>

(* !v.IsFile() || v.Size == 0, in both loops *)
SkipEntity ==
  /\ main \in {"open", "verify"}
  /\ cursor \in Entity
  /\ size[cursor] = 0
  /\ cursor' = cursor + 1
  /\ UNCHANGED <<size, chunkMap, main, merge, pos, part, written, wg, sem>>

(* os.OpenFile(O_CREATE|O_TRUNC); s.wg.Add(1); go s.merge(...) *)
StartMerge ==
  /\ main = "open"
  /\ cursor \in Entity
  /\ size[cursor] > 0
  /\ written' = [written EXCEPT ![cursor] = {}]
  /\ merge' = [merge EXCEPT ![cursor] = "next"]
  /\ wg' = wg + 1
  /\ cursor' = cursor + 1
  /\ UNCHANGED <<size, chunkMap, main, pos, part, sem>>

(* Restore returns at once; the merges it has started go on, and the       *)
(* deferred Close calls take their destinations away.                      *)
OpenFails ==
  /\ "open" \in Faults
  /\ main = "open"
  /\ cursor \in Entity
  /\ size[cursor] > 0
  /\ main' = "error"
  /\ UNCHANGED <<size, chunkMap, cursor, merge, pos, part, written, wg, sem>>

StartWait ==
  /\ main = "open"
  /\ cursor \notin Entity
  /\ main' = "wait"
  /\ UNCHANGED <<size, chunkMap, cursor, merge, pos, part, written, wg, sem>>

(* Mutant of WaitReturns: one goroutine is not waited for. *)
WaitReturnsEarly ==
  /\ main = "wait"
  /\ wg <= 1
  /\ main' = "verify"
  /\ cursor' = 1
  /\ UNCHANGED <<size, chunkMap, merge, pos, part, written, wg, sem>>

(* s.wg.Wait() *)
WaitReturns ==
  /\ main = "wait"
  /\ wg = 0
  /\ main' = "verify"
  /\ cursor' = 1
  /\ UNCHANGED <<size, chunkMap, merge, pos, part, written, wg, sem>>

(* The hashes and sizes are printed, and not compared. *)
Verify ==
  /\ main = "verify"
  /\ cursor \in Entity
  /\ size[cursor] > 0
  /\ cursor' = cursor + 1
  /\ UNCHANGED <<size, chunkMap, main, merge, pos, part, written, wg, sem>>

VerifyFails ==
  /\ "open" \in Faults
  /\ main = "verify"
  /\ cursor \in Entity
  /\ size[cursor] > 0
  /\ main' = "exit"
  /\ UNCHANGED <<size, chunkMap, cursor, merge, pos, part, written, wg, sem>>

Return ==
  /\ main = "verify"
  /\ cursor \notin Entity
  /\ main' = "ok"
  /\ UNCHANGED <<size, chunkMap, cursor, merge, pos, part, written, wg, sem>>
-----------------------------------------------------------------------------
(* The merge goroutine of file f.                                          *)

MoreSections(f) == pos[f] <= Len(chunkMap[FileHash[f]])

(* s.wg.Add(1), before blocking on the pool *)
NextSection(f) ==
  /\ ~Exited
  /\ merge[f] = "next"
  /\ MoreSections(f)
  /\ merge' = [merge EXCEPT ![f] = "acquire"]
  /\ wg' = wg + 1
  /\ UNCHANGED <<size, chunkMap, main, cursor, pos, part, written, sem>>

(* s.permitpool.Acquire(); go func(sec) {...}(v) *)
StartPart(f) ==
  /\ ~Exited
  /\ merge[f] = "acquire"
  /\ Pool!Acquire
  /\ part' = [part EXCEPT ![<<f, pos[f]>>] = "get"]
  /\ pos' = [pos EXCEPT ![f] = @ + 1]
  /\ merge' = [merge EXCEPT ![f] = "next"]
  /\ UNCHANGED <<size, chunkMap, main, cursor, written, wg>>

(* The deferred s.wg.Done() *)
MergeReturns(f) ==
  /\ ~Exited
  /\ merge[f] = "next"
  /\ ~MoreSections(f)
  /\ merge' = [merge EXCEPT ![f] = "done"]
  /\ wg' = wg - 1
  /\ UNCHANGED <<size, chunkMap, main, cursor, pos, part, written, sem>>
-----------------------------------------------------------------------------
(* The goroutine that merges section k of the list into file f.            *)

Moves(f, k, from, to) ==
  /\ ~Exited
  /\ part[<<f, k>>] = from
  /\ part' = [part EXCEPT ![<<f, k>>] = to]

(* s.disk.Get *)
GetChunk(f, k) ==
  /\ Moves(f, k, "get", "write")
  /\ IsStored(f, SectionOf(f, k))
  /\ UNCHANGED <<size, chunkMap, main, cursor, merge, pos, written, wg, sem>>

(* There is no such chunk, or the storage lost its error: log.Fatal. *)
ChunkMissing(f, k) ==
  /\ ~Exited
  /\ part[<<f, k>>] = "get"
  /\ "get" \in Faults \/ ~IsStored(f, SectionOf(f, k))
  /\ main' = "exit"
  /\ UNCHANGED <<size, chunkMap, cursor, merge, pos, part, written, wg, sem>>

(* c.Merge: WriteAt(bytes, sec.Start) *)
WriteAt(f, k) ==
  /\ ~Returned
  /\ Moves(f, k, "write", "done")
  /\ LET s == SectionOf(f, k)
     IN  written' = [written EXCEPT ![f] = @ \cup (s.start .. s.end - 1)]
  /\ UNCHANGED <<size, chunkMap, main, cursor, merge, pos, wg, sem>>

(* The disk is full, or Restore has returned and closed the destination:   *)
(* log.Fatal.                                                              *)
WriteAtFails(f, k) ==
  /\ ~Exited
  /\ "write" \in Faults \/ Returned
  /\ part[<<f, k>>] = "write"
  /\ main' = "exit"
  /\ UNCHANGED <<size, chunkMap, cursor, merge, pos, part, written, wg, sem>>

(* Last in, first out: s.wg.Done(), ... *)
PartDone(f, k) ==
  /\ Moves(f, k, "done", "release")
  /\ wg' = wg - 1
  /\ UNCHANGED <<size, chunkMap, main, cursor, merge, pos, written, sem>>

(* Mutant of PartReleases: the permit is kept. *)
PartKeepsPermit(f, k) ==
  /\ Moves(f, k, "release", "gone")
  /\ UNCHANGED <<size, chunkMap, main, cursor, merge, pos, written, wg, sem>>

(* ... then s.permitpool.Release() *)
PartReleases(f, k) ==
  /\ Moves(f, k, "release", "gone")
  /\ Pool!Release
  /\ UNCHANGED <<size, chunkMap, main, cursor, merge, pos, written, wg>>
-----------------------------------------------------------------------------
MainStep ==
  \/ GetMetadata \/ TagFails \/ NoSuchTag \/ SkipEntity \/ StartMerge \/ OpenFails
  \/ StartWait \/ WaitReturns \/ Verify \/ VerifyFails \/ Return

MergeStep(f) == NextSection(f) \/ StartPart(f) \/ MergeReturns(f)

PartStep(f, k) ==
  \/ GetChunk(f, k) \/ ChunkMissing(f, k) \/ WriteAt(f, k) \/ WriteAtFails(f, k)
  \/ PartDone(f, k) \/ PartReleases(f, k)

Next ==
  \/ MainStep
  \/ \E f \in Entity : MergeStep(f)
  \/ \E f \in Entity, k \in Position : PartStep(f, k)

Spec == Init /\ [][Next]_vars

(* Every goroutine that can run is eventually scheduled. *)
Fairness ==
  /\ WF_vars(MainStep)
  /\ \A f \in Entity : WF_vars(MergeStep(f))
  /\ \A f \in Entity, k \in Position : WF_vars(PartStep(f, k))

FairSpec == Spec /\ Fairness
-----------------------------------------------------------------------------
(* What a restore promises.                                                *)

Merging == {f \in Entity : merge[f] \in {"next", "acquire"}}
Working == {p \in Part : part[p] \notin {"none", "gone"}}

(* Every variable has its type. *)
TypeOK ==
  /\ size \in [Entity -> 0 .. MaxSize]
  /\ chunkMap \in [Hash -> Seq(Entity \X (0 .. MaxChunks - 1))]
  /\ main \in {"get", "open", "wait", "verify", "ok", "error", "exit"}
  /\ cursor \in 1 .. NumFiles + 1
  /\ merge \in [Entity -> {"none", "next", "acquire", "done"}]
  /\ pos \in [Entity -> 1 .. NumFiles * MaxChunks + 1]
  /\ part \in [Part -> {"none", "get", "write", "done", "release", "gone"}]
  /\ written \in [Entity -> SUBSET (0 .. MaxSize - 1)]
  /\ wg \in Nat
  /\ Pool!TypeOK

(* A Restore that returns without an error has put every byte of every     *)
(* file of the snapshot at its place, and no other (operation.go:180-240,  *)
(* 242-296): the wait covers all parts, and no part is left out or read    *)
(* twice in place of another.                                              *)
RestoredExactly ==
  main = "ok" => \A f \in Entity : written[f] = 0 .. size[f] - 1

(* Once Wait has returned, no goroutine of the Restore touches a file any  *)
(* more: what is verified is what stays (operation.go:215-239).            *)
QuietAfterWait ==
  [][(main \in {"verify", "ok"}) => UNCHANGED written]_vars

(* "restores a snapshot from chunks" (splitter.go:75): with a sound disk,  *)
(* no snapshot makes the process end in log.Fatal.                         *)
SoundSnapshotRestores == ~Exited

(* Restore returns or ends the process, and it stays so that no merge and  *)
(* no part that it has started is left behind, also by an early return     *)
(* (operation.go:190-201, 251-252), and after a success the permits are    *)
(* back.                                                                   *)
RestoreEnds ==
  <>[](\/ Exited
       \/ Returned /\ Merging = {} /\ Working = {} /\ (main = "ok" => sem = 0))
=============================================================================
