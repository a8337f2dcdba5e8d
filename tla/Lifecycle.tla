----------------------------- MODULE Lifecycle -----------------------------
(***************************************************************************)
(* The life of one root directory: the commands snapshot and restore of    *)
(* cmd/commands/splitter.go, run one after the other on it, with changes   *)
(* of the source files in between and crashes in the middle of a snapshot. *)
(* Everything a command writes lies below the root as well, so the walk of *)
(* the next Snapshot finds it: the chunks and their metadata, the metadata *)
(* of snapshots and the restored files.                                    *)
(*                                                                         *)
(* Inside a command only what reaches the disk is kept: a Snapshot stores  *)
(* the chunks of each file in order and those of different files in any    *)
(* order (module Snapshot), a Put takes effect at once or is torn by a     *)
(* crash (module Storage), and all files share one hash, as hashstructure  *)
(* makes the same of every open file (module Restore).  A tag has no path  *)
(* separator.                                                              *)
(***************************************************************************)
EXTENDS Chunking, FiniteSets, Sequences

CONSTANTS
  Source,       \* the source files below the root
  Sizes,        \* the sizes they may have, taken together
  MaxSize,      \* the largest of them; a size is an int64 in the code
  Tag,          \* tags given to the commands
  Overhead,     \* bytes that encryption adds to what Put writes
  JSONSize,     \* length of the JSON of a section and of a snapshot
  MaxEdits,     \* bound on the changes of source files
  MaxSnapshots  \* bound on the snapshots taken

(* Stands for no tag; a tag of that name has another one here. *)
NoTag == "none"

ASSUME LifecycleAssumption ==
  /\ MaxSize \in Nat
  /\ Sizes \subseteq [Source -> 0 .. MaxSize]
  /\ Overhead \in Nat \ {0}
  /\ JSONSize \in Nat \ {0}
  /\ MaxEdits \in Nat
  /\ MaxSnapshots \in Nat
  /\ NoTag \notin Tag

(* The paths below the root: a source file, and what is written for a tag. *)
SourcePath(f)      == <<"source", f>>
AboutPath(t, p, s) == <<"about", t, p, s>>
MetadataPath(t)    == <<"metadata", t>>
OutPath(t, p)      == <<"out", t, p>>

(* Mutant of ChunkPath: the key of a chunk has no tag. *)
SharedPath(t, p, s) == <<"chunk", 0, p, s>>

(* .chunks, the tag, the path of the file, the number and the hash.        *)
ChunkPath(t, p, s) == <<"chunk", t, p, s>>

(* A file is its size and what it is, which names all of its bytes. *)
File(size, is) == [size |-> size, is |-> is]

(* What a Put leaves that a crash interrupts. *)
TornFiles == {File(0, <<"empty">>), File(1, <<"torn">>)}

VARIABLES
  files,    \* the files below the root, by path
  edits,    \* changes made to source files
  taken,    \* the tags of all Snapshots started, in order
  job,      \* the Snapshot that runs: its tag, the files it walked, and for
            \* each the number of chunks stored
  seen,     \* for each tag, all <<path, file>> its Snapshots have walked
  restored  \* the tag of the last command, if it was a Restore and returned

vars == <<files, edits, taken, job, seen, restored>>

NoJob == [tag |-> NoTag]

UpperBound(ends) == CHOOSE n \in ends \cup {0} : \A m \in ends : m <= n

(* The files after some new ones have been written. *)
Written(new) ==
  [p \in DOMAIN files \cup DOMAIN new |-> IF p \in DOMAIN new THEN new[p] ELSE files[p]]

Put(path, file) == Written([p \in {path} |-> file])

Init ==
  /\ \E size \in Sizes :
       files = [p \in {SourcePath(f) : f \in Source} |-> File(size[p[2]], <<"source", p[2], 0>>)]
  /\ edits = 0
  /\ taken = <<>>
  /\ job = NoJob
  /\ seen = [t \in Tag |-> {}]
  /\ restored = NoTag
-----------------------------------------------------------------------------
(* Between commands a source file changes. *)
Edit ==
  /\ job = NoJob
  /\ edits < MaxEdits
  /\ edits' = edits + 1
  /\ \E f \in Source, size \in Sizes :
       /\ \A g \in Source \ {f} : size[g] = files[SourcePath(g)].size
       /\ files' = Put(SourcePath(f), File(size[f], <<"source", f, edits'>>))
  /\ restored' = NoTag
  /\ UNCHANGED <<taken, job, seen>>

(* NewMetadata: the walk takes every file; empty ones are skipped later. *)
Walked == {p \in DOMAIN files : files[p].size > 0}

StartSnapshot(t) ==
  /\ job = NoJob
  /\ Len(taken) < MaxSnapshots
  /\ taken' = Append(taken, t)
  /\ job' = [tag |-> t, size |-> [p \in Walked |-> files[p].size],
             stored |-> [p \in Walked |-> 0]]
  /\ seen' = [seen EXCEPT ![t] = @ \cup {<<p, files[p]>> : p \in Walked}]
  /\ restored' = NoTag
  /\ UNCHANGED <<files, edits>>

Pending == {p \in DOMAIN job.size : job.stored[p] < NumChunks(job.size[p])}

NextSection(p) == Section(job.size[p], job.stored[p])

(* What c.Data() gets.  A Snapshot whose tag has been used before also     *)
(* walks files that it is going to write, and may read one before, while   *)
(* or after it does: such bytes are not told apart.                        *)
Data(p, s) ==
  <<"data", IF p[1] # "source" /\ p[2] = job.tag THEN <<"own">> ELSE files[p].is, s>>

(* The chunk and its metadata, which one goroutine puts while it holds the *)
(* only permit.                                                            *)
ChunkFiles(p, s) ==
  LET key   == ChunkPath(job.tag, p, s)
      about == AboutPath(job.tag, p, s)
  IN  [k \in {key, about} |-> IF k = key THEN File(s.size + Overhead, Data(p, s))
                              ELSE File(JSONSize + Overhead, <<"json">>)]

StoreChunk(p) ==
  /\ p \in Pending
  /\ files' = Written(ChunkFiles(p, NextSection(p)))
  /\ job' = [job EXCEPT !.stored[p] = @ + 1]
  /\ UNCHANGED <<edits, taken, seen, restored>>

(* Entities and ChunkMap, all of it under the one hash. *)
Metadata ==
  [size |-> job.size, sections |-> UNION {Sections(job.size[p]) : p \in DOMAIN job.size}]

(* Mutant of Commit: the metadata does not wait for the chunks. *)
CommitEarly ==
  /\ job # NoJob
  /\ files' = Put(MetadataPath(job.tag),
                  File(JSONSize + Overhead,
                       <<"entities",
                         [size |-> job.size,
                          sections |-> UNION {{Section(job.size[p], i) : i \in 0 .. job.stored[p] - 1} :
                                                p \in DOMAIN job.size}]>>))
  /\ job' = NoJob
  /\ restored' = NoTag
  /\ UNCHANGED <<edits, taken, seen>>

(* s.wg.Wait() has returned: the metadata is put. *)
Commit ==
  /\ job # NoJob
  /\ Pending = {}
  /\ files' = Put(MetadataPath(job.tag), File(JSONSize + Overhead, <<"entities", Metadata>>))
  /\ job' = NoJob
  /\ restored' = NoTag
  /\ UNCHANGED <<edits, taken, seen>>

(* The process dies; the Put it is in tears its file, or has not begun.    *)
Crash ==
  /\ job # NoJob
  /\ \/ UNCHANGED files
     \/ \E p \in Pending, torn \in TornFiles :
          LET s == NextSection(p)
          IN  \/ files' = Put(ChunkPath(job.tag, p, s), torn)
              \/ files' = Written([ChunkFiles(p, s) EXCEPT ![AboutPath(job.tag, p, s)] = torn])
     \/ /\ Pending = {}
        /\ \E torn \in TornFiles : files' = Put(MetadataPath(job.tag), torn)
  /\ job' = NoJob
  /\ restored' = NoTag
  /\ UNCHANGED <<edits, taken, seen>>
-----------------------------------------------------------------------------
(* disk.Get gives an entry: the file is there and whole. *)
Readable(path) == path \in DOMAIN files /\ files[path] \notin TornFiles

Entities(t) == DOMAIN files[MetadataPath(t)].is[2].size
ChunkMap(t) == files[MetadataPath(t)].is[2].sections

(* merge looks for every section in ChunkMap under the path of every file. *)
Needed(t) ==
  {ChunkPath(t, p, s) : p \in Entities(t), s \in ChunkMap(t)}

Restorable(t) == Readable(MetadataPath(t)) /\ \A key \in Needed(t) : Readable(key)

(* Two sections that overlap have the same start; the one that is merged   *)
(* last wins, and the order of ChunkMap is any.                            *)
LastMerged(sections) ==
  LET starts == {s.start : s \in sections}
  IN  {last \in [starts -> sections] : \A x \in starts : last[x].start = x}

(* The file that the chunks of p give, by the start of each section.       *)
Merged(t, p, last) == <<"merged", [x \in DOMAIN last |-> files[ChunkPath(t, p, last[x])].is]>>

EndOf(sections) == UpperBound({s.end : s \in sections})

Restore(t) ==
  /\ job = NoJob
  /\ Restorable(t)
  /\ \E last \in LastMerged(ChunkMap(t)) :
       files' = Written([q \in {OutPath(t, p) : p \in Entities(t)} |->
                           File(EndOf(ChunkMap(t)), Merged(t, q[3], last))])
  /\ restored' = t
  /\ UNCHANGED <<edits, taken, job, seen>>

(* A missing tag or chunk, or one that does not decrypt, ends the process  *)
(* (a nil dereference or log.Fatal).  Get has removed the empty files it   *)
(* has met, and the destinations are there in part, or not yet.            *)
RestoreExits(t) ==
  /\ job = NoJob
  /\ ~Restorable(t)
  /\ LET open == Readable(MetadataPath(t))
         met  == {MetadataPath(t)} \cup IF open THEN Needed(t) ELSE {}
         outs == IF open THEN {OutPath(t, p) : p \in Entities(t)} ELSE {}
     IN  \E gone \in SUBSET {p \in met \cap DOMAIN files : files[p].size = 0},
            made \in {{}, outs} :
           LET new == Written([q \in made |-> File(1, <<"part">>)])
           IN  files' = [p \in DOMAIN new \ gone |-> new[p]]
  /\ restored' = NoTag
  /\ UNCHANGED <<edits, taken, job, seen>>
-----------------------------------------------------------------------------
Next ==
  \/ Edit \/ Commit \/ Crash
  \/ \E t \in Tag : StartSnapshot(t) \/ Restore(t) \/ RestoreExits(t)
  \/ job # NoJob /\ \E p \in Pending : StoreChunk(p)

Spec == Init /\ [][Next]_vars
-----------------------------------------------------------------------------
Uses(t) == Cardinality({i \in 1 .. Len(taken) : taken[i] = t})

(* What a file is when each of its sections is in its place. *)
Intact(file, out) ==
  /\ out.size = file.size
  /\ out.is[2] = [x \in {s.start : s \in Sections(file.size)} |->
                    <<"data", file.is, Section(file.size, x \div ChunkSize)>>]

(* A Restore that ends without an error, of a tag that was given to one    *)
(* Snapshot only, has brought back each file as that Snapshot found it,    *)
(* whatever other snapshots, crashes, restores and changes of the sources  *)
(* came after (operation.go:63-73, 109-128, 160-241, 253-259).             *)
RestoredAsSeen ==
  \A t \in Tag : restored = t /\ Uses(t) = 1 =>
    \A x \in seen[t] :
      OutPath(t, x[1]) \in DOMAIN files /\ Intact(x[2], files[OutPath(t, x[1])])

(* A tag that was used again may give a mixture, as the chunks under its   *)
(* keys are those of the last Snapshot that came to write them, committed  *)
(* or not; but every section of a source file that Restore brings back is  *)
(* one that some Snapshot of that tag has seen there (operation.go:109-119,*)
(* 253-259).                                                               *)
OnlyFromOwnTag ==
  \A t \in Tag, f \in Source :
    LET out == OutPath(t, SourcePath(f))
    IN  restored = t /\ SourcePath(f) \in Entities(t) =>
          \A x \in DOMAIN files[out].is[2] :
            \E y \in seen[t] : y[1] = SourcePath(f) /\ files[out].is[2][x][2] = y[2].is

(* What can be restored stays so while no Snapshot of its tag runs: other  *)
(* snapshots, their crashes and failing restores do not touch what it      *)
(* needs (operation.go:109-119; internal.go:114-125).                      *)
StaysRestorable ==
  [][\A t \in Tag : Restorable(t) /\ ~(job # NoJob /\ job.tag = t) => Restorable(t)']_vars
=============================================================================
