-------------------------- MODULE LifecycleProofs --------------------------
(***************************************************************************)
(* Lifecycle: what each command and each crash can do to the files below   *)
(* the root, the inductive invariant IInv, and from them StaysRestorable,  *)
(* OnlyFromOwnTag and RestoredAsSeen, for every set of sources and tags,   *)
(* every chunk size and any number of snapshots, crashes, restores and     *)
(* changes.                                                                *)
(***************************************************************************)
EXTENDS Lifecycle, ChunkingProofs, FiniteSetTheorems, SequenceTheorems, WellFoundedInduction

(* No file is larger: not a source, a chunk, a metadata or a restored file. *)
Largest == MaxSize + ChunkSize + Overhead + JSONSize

IsFile(file) == file = File(file.size, file.is) /\ file.size \in 0 .. Largest

(* Written for tag t. *)
Own(t, path) == path[1] # "source" /\ path[2] = t

(* The shape of the Snapshot that runs. *)
JobForm ==
  job # NoJob =>
    /\ job = [tag |-> job.tag, size |-> job.size, stored |-> job.stored]
    /\ job.tag \in Tag
    /\ job.size \in [DOMAIN job.size -> 1 .. Largest]
    /\ job.stored \in [DOMAIN job.size -> Nat]

TypeOK ==
  /\ \A q \in DOMAIN files : IsFile(files[q])
  /\ taken \in Seq(Tag)
  /\ seen = [t \in Tag |-> seen[t]]
  /\ JobForm
  /\ \A t \in Tag : \A y \in seen[t] :
       y = <<y[1], y[2]>> /\ IsFile(y[2]) /\ y[2].size # 0
  /\ restored \in Tag \cup {NoTag}

(* While a Snapshot runs, no Restore is the last command. *)
JobLast == job # NoJob => restored = NoTag /\ Uses(job.tag) # 0

(* A tag that no Snapshot has used yet has left no trace. *)
UnusedTags ==
  \A t \in Tag : Uses(t) = 0 =>
    /\ seen[t] = {}
    /\ \A q \in DOMAIN files : ~Own(t, q)

(* What a Snapshot is still to read is as its walk found it, but for files *)
(* under its own tag, which it can have walked only if an earlier one had  *)
(* that tag.                                                               *)
JobSees ==
  job # NoJob =>
    \A p \in DOMAIN job.size :
      IF Own(job.tag, p) THEN Uses(job.tag) # 1
      ELSE /\ p \in DOMAIN files
           /\ <<p, files[p]>> \in seen[job.tag]
           /\ files[p].size = job.size[p]

(* Nothing else was seen for a tag that is used once. *)
SeenByJob ==
  job # NoJob /\ Uses(job.tag) = 1 =>
    \A y \in seen[job.tag] : y[1] \in DOMAIN job.size /\ y[2].size = job.size[y[1]]

SeenOnce ==
  \A t \in Tag : Uses(t) = 1 =>
    \A y, z \in seen[t] : y[1] = z[1] => y = z

(* Chunk q is that section of a file that a Snapshot of q's tag has seen   *)
(* under the path in q.                                                    *)
ChunkOf(q, is, y) ==
  y[1] = q[3] /\ q[4] \in Sections(y[2].size) /\ is = <<"data", y[2].is, q[4]>>

ChunkSeen(q, is) ==
  IF Own(q[2], q[3]) THEN Uses(q[2]) # 1
  ELSE \E y \in seen[q[2]] : ChunkOf(q, is, y)

ChunksSeen ==
  \A q \in DOMAIN files :
    q[1] = "chunk" /\ files[q] \notin TornFiles => q[2] \in Tag /\ ChunkSeen(q, files[q].is)

(* Every commit record that can be read was built by Metadata. *)
MetadataForm ==
  \A t \in Tag : Readable(MetadataPath(t)) => \A s \in ChunkMap(t) : s.end \in 0 .. Largest

(* The commit record of a tag that is used once lists what was seen.       *)
MetadataSeen ==
  \A t \in Tag : Uses(t) = 1 /\ Readable(MetadataPath(t)) =>
    /\ ~(job # NoJob /\ job.tag = t)
    /\ Entities(t) = {y[1] : y \in seen[t]}
    /\ ChunkMap(t) = UNION {Sections(y[2].size) : y \in seen[t]}

IInv ==
  /\ TypeOK
  /\ JobLast
  /\ UnusedTags
  /\ JobSees
  /\ SeenByJob
  /\ SeenOnce
  /\ ChunksSeen
  /\ MetadataForm
  /\ MetadataSeen
  /\ OnlyFromOwnTag
  /\ RestoredAsSeen
-----------------------------------------------------------------------------
(* Operators.                                                              *)

LEMMA WrittenIs ==
  ASSUME NEW new
  PROVE  /\ DOMAIN Written(new) = DOMAIN files \cup DOMAIN new
         /\ \A p \in DOMAIN files \cup DOMAIN new :
              Written(new)[p] = IF p \in DOMAIN new THEN new[p] ELSE files[p]
  BY DEF Written

LEMMA FileIs ==
  ASSUME NEW size \in 0 .. Largest, NEW is
  PROVE  IsFile(File(size, is)) /\ File(size, is).size = size /\ File(size, is).is = is
  BY DEF IsFile, File

LEMMA LargestIs ==
  /\ Largest \in Nat
  /\ \A n \in 0 .. MaxSize : n \in 0 .. Largest
  /\ \A n \in 0 .. ChunkSize : n + Overhead \in 0 .. Largest
  /\ JSONSize + Overhead \in 0 .. Largest
  /\ 0 \in 0 .. Largest /\ 1 \in 0 .. Largest
  BY LifecycleAssumption, ChunkSizeAssumption DEF Largest

LEMMA TornIsFile ==
  \A torn \in TornFiles : IsFile(torn)
  BY FileIs, LargestIs DEF TornFiles

(* The paths differ in their kind and in their tag. *)
LEMMA PathsAre ==
  ASSUME NEW t, NEW p, NEW s, NEW f
  PROVE  /\ ChunkPath(t, p, s)[1] = "chunk" /\ ChunkPath(t, p, s)[2] = t
         /\ ChunkPath(t, p, s)[3] = p /\ ChunkPath(t, p, s)[4] = s
         /\ AboutPath(t, p, s)[1] = "about" /\ AboutPath(t, p, s)[2] = t
         /\ MetadataPath(t)[1] = "metadata" /\ MetadataPath(t)[2] = t
         /\ OutPath(t, p)[1] = "out" /\ OutPath(t, p)[2] = t /\ OutPath(t, p)[3] = p
         /\ SourcePath(f)[1] = "source"
  BY DEF ChunkPath, AboutPath, MetadataPath, OutPath, SourcePath

LEMMA JobTagged ==
  ASSUME NEW t \in Tag
  PROVE  t # NoTag /\ NoJob.tag = NoTag
  BY LifecycleAssumption DEF NoJob

LEMMA UsesIs ==
  ASSUME NEW t \in Tag, taken \in Seq(Tag)
  PROVE  Uses(t) \in Nat /\ IsFiniteSet({i \in 1 .. Len(taken) : taken[i] = t})
<1>1. IsFiniteSet(1 .. Len(taken))
  BY FS_Interval
<1> QED
  BY <1>1, FS_Subset, FS_CardinalityType DEF Uses

(* A Snapshot is one more use of its tag. *)
LEMMA UsesOneMore ==
  ASSUME NEW t \in Tag, NEW u \in Tag, taken \in Seq(Tag), taken' = Append(taken, u)
  PROVE  /\ Uses(t)' = IF t = u THEN Uses(t) + 1 ELSE Uses(t)
         /\ Uses(t) \in Nat
<1> DEFINE at == {i \in 1 .. Len(taken) : taken[i] = t}
           n  == Len(taken) + 1
<1>1. /\ Len(taken') = n
      /\ \A i \in 1 .. n : taken'[i] = IF i = n THEN u ELSE taken[i]
      /\ n \in Nat
      /\ Len(taken) \in Nat
  BY AppendProperties
<1>2. {i \in 1 .. Len(taken') : taken'[i] = t} = IF t = u THEN at \cup {n} ELSE at
  BY <1>1
<1>3. n \notin at
  BY <1>1
<1>4. IsFiniteSet(at) /\ Uses(t) \in Nat /\ Uses(t) = Cardinality(at)
  BY UsesIs DEF Uses
<1>5. Cardinality(at \cup {n}) = Cardinality(at) + 1
  BY <1>3, <1>4, FS_AddElement
<1>6. Uses(t)' = Cardinality({i \in 1 .. Len(taken') : taken'[i] = t})
  BY DEF Uses
<1> QED
  BY <1>2, <1>4, <1>5, <1>6

(* The end of a set of sections is the largest of their ends. *)
LEMMA UpperBoundIs ==
  ASSUME NEW ends, NEW max \in Nat, ends \subseteq 0 .. max
  PROVE  /\ UpperBound(ends) \in 0 .. max
         /\ \A m \in ends : m <= UpperBound(ends)
         /\ UpperBound(ends) \in ends \cup {0}
<1> DEFINE all  == ends \cup {0}
           left == {max - e : e \in all}
<1>1. left \subseteq Nat /\ left # {}
  OBVIOUS
<1>2. PICK x \in left : \A y \in left : ~ (<<y, x>> \in OpToRel(<, Nat))
  BY <1>1, WFMin, NatLessThanWellFounded
<1>3. \A y \in left : x <= y
  <2> SUFFICES ASSUME NEW y \in left
               PROVE  ~(y < x)
    BY <1>1
  <2>1. x \in Nat /\ y \in Nat
    BY <1>1
  <2>2. y < x => <<y, x>> \in OpToRel(<, Nat)
    BY <2>1, Zenon DEF OpToRel
  <2> QED
    BY <1>2, <2>2, Zenon
<1>4. PICK e \in all : x = max - e
  BY <1>2
<1>5. \A m \in all : m <= e
  BY <1>3, <1>4
<1>6. \A m \in ends : m <= e
  BY <1>5
<1>7. /\ UpperBound(ends) \in all
      /\ \A m \in ends : m <= UpperBound(ends)
  BY <1>4, <1>6 DEF UpperBound
<1> HIDE DEF left
<1>8. all \subseteq 0 .. max /\ all = ends \cup {0}
  OBVIOUS
<1> QED
  BY <1>7, <1>8

(* A section of a file is told by where it starts. *)
LEMMA SectionIs ==
  ASSUME NEW size \in Nat, NEW s \in Sections(size)
  PROVE  /\ s = Section(size, s.start \div ChunkSize)
         /\ s.size \in 1 .. ChunkSize
         /\ s.end \in 0 .. size
<1>1. PICK i \in 0 .. NumChunks(size) - 1 : s = Section(size, i)
  BY DEF Sections
<1>2. NumChunks(size) \in Nat /\ i \in Nat
  BY NumChunksBounds
<1>3. /\ s.start = i * ChunkSize
      /\ s.size = SectionSize(size, i)
      /\ s.end = Offset(i) + SectionSize(size, i)
  BY <1>1 DEF Section, Offset
<1>4. (i * ChunkSize) \div ChunkSize = i
  BY <1>2, ChunkSizeAssumption
<1>5. s.size \in 1 .. ChunkSize
  BY <1>2, <1>3, SectionSizeBounds
<1>6. s.end = IF i = NumChunks(size) - 1 THEN size ELSE Offset(i + 1)
  BY <1>3, SectionEnds
<1>7. CASE i = NumChunks(size) - 1
  BY <1>1, <1>3, <1>4, <1>5, <1>6, <1>7
<1>8. CASE i # NumChunks(size) - 1
  <2> DEFINE n == NumChunks(size)
  <2>1. i + 1 <= n - 1
    BY <1>2, <1>8
  <2>2. (i + 1) * ChunkSize <= (n - 1) * ChunkSize
    BY <1>2, <2>1, ChunkSizeAssumption
  <2>3. (n - 1) * ChunkSize = n * ChunkSize - ChunkSize
    BY <1>2, ChunkSizeAssumption
  <2>4. n * ChunkSize < size + ChunkSize /\ n * ChunkSize \in Nat
    BY <1>2, NumChunksBounds, ChunkSizeAssumption
  <2>5. (i + 1) * ChunkSize \in Nat
    BY <1>2, ChunkSizeAssumption
  <2>6. (i + 1) * ChunkSize <= size
    BY <2>2, <2>3, <2>4, <2>5, ChunkSizeAssumption
  <2>7. s.end = (i + 1) * ChunkSize
    BY <1>6, <1>8 DEF Offset
  <2> QED
    BY <1>1, <1>3, <1>4, <1>5, <2>5, <2>6, <2>7
<1> QED
  BY <1>7, <1>8

(* The last section ends where the file ends. *)
LEMMA EndOfSections ==
  ASSUME NEW size \in Nat \ {0}
  PROVE  EndOf(Sections(size)) = size
<1> DEFINE n    == NumChunks(size)
           last == Section(size, n - 1)
           ends == {s.end : s \in Sections(size)}
<1>1. n \in Nat /\ n # 0
  BY NumChunksBounds, NumChunksZero
<1>2. last \in Sections(size)
  BY <1>1 DEF Sections
<1>3. last.end = size
  BY <1>1, SectionEnds DEF Section
<1>4. size \in ends /\ ends \subseteq 0 .. size
  BY <1>2, <1>3, SectionIs
<1> HIDE DEF ends
<1>5. /\ UpperBound(ends) \in 0 .. size
      /\ \A m \in ends : m <= UpperBound(ends)
  BY <1>4, UpperBoundIs
<1>6. UpperBound(ends) = size
  BY <1>4, <1>5
<1> QED
  BY <1>6 DEF EndOf, ends
-----------------------------------------------------------------------------
(* What each step does to the files.                                       *)

Changed ==
  {q \in DOMAIN files \cup DOMAIN files' :
     ~(q \in DOMAIN files /\ q \in DOMAIN files' /\ files'[q] = files[q])}

LEMMA NotChanged ==
  ASSUME NEW q, q \notin Changed
  PROVE  /\ q \in DOMAIN files <=> q \in DOMAIN files'
         /\ q \in DOMAIN files => files'[q] = files[q]
  BY DEF Changed

LEMMA PutChanges ==
  ASSUME NEW path, NEW file, files' = Put(path, file)
  PROVE  Changed \subseteq {path} /\ path \in DOMAIN files' /\ files'[path] = file
<1> DEFINE new == [p \in {path} |-> file]
<1>1. files' = Written(new)
  BY DEF Put
<1>2. DOMAIN new = {path} /\ new[path] = file
  OBVIOUS
<1> HIDE DEF new
<1> QED
  BY <1>1, <1>2, WrittenIs DEF Changed

LEMMA EditChanges ==
  ASSUME Edit
  PROVE  \A q \in Changed : q[1] = "source" /\ q \in DOMAIN files' /\ IsFile(files'[q])
<1>1. PICK f \in Source, size \in Sizes :
        files' = Put(SourcePath(f), File(size[f], <<"source", f, edits'>>))
  BY DEF Edit
<1>2. size[f] \in 0 .. MaxSize
  BY LifecycleAssumption
<1>3. IsFile(File(size[f], <<"source", f, edits'>>))
  BY <1>2, FileIs, LargestIs
<1>4. /\ Changed \subseteq {SourcePath(f)}
      /\ SourcePath(f) \in DOMAIN files'
      /\ files'[SourcePath(f)] = File(size[f], <<"source", f, edits'>>)
  BY <1>1, PutChanges
<1> QED
  BY <1>3, <1>4, PathsAre

(* A chunk with its section and bytes, as StoreChunk writes it. *)
Stored(q, file) ==
  /\ q[3] \in DOMAIN job.size
  /\ q[4] \in Sections(job.size[q[3]])
  /\ file.is = Data(q[3], q[4])

(* What StoreChunk and a crash may have written. *)
ByJob(q) ==
  /\ q \in DOMAIN files'
  /\ Own(job.tag, q)
  /\ IsFile(files'[q])
  /\ files'[q] \notin TornFiles =>
       /\ q[1] # "metadata"
       /\ q[1] = "chunk" => Stored(q, files'[q])

LEMMA PendingSection ==
  ASSUME JobForm, job # NoJob, NEW p \in Pending
  PROVE  /\ p \in DOMAIN job.size
         /\ NextSection(p) \in Sections(job.size[p])
         /\ NextSection(p).size \in 0 .. ChunkSize
<1>1. /\ p \in DOMAIN job.size
      /\ job.size[p] \in 1 .. Largest
      /\ job.stored[p] \in Nat
      /\ job.stored[p] < NumChunks(job.size[p])
  BY DEF JobForm, Pending
<1>2. job.size[p] \in Nat
  BY <1>1, LargestIs
<1>3. NumChunks(job.size[p]) \in Nat
  BY <1>2, NumChunksBounds
<1>4. job.stored[p] \in 0 .. NumChunks(job.size[p]) - 1
  BY <1>1, <1>3
<1>5. NextSection(p) \in Sections(job.size[p])
  BY <1>4 DEF Sections, NextSection
<1>6. NextSection(p).size \in 1 .. ChunkSize
  BY <1>2, <1>5, SectionIs
<1> QED
  BY <1>1, <1>5, <1>6

(* The two files of a chunk, the second of which may be torn. *)
LEMMA ChunkFilesAre ==
  ASSUME JobForm, job # NoJob, NEW p \in Pending,
         NEW key, key = ChunkPath(job.tag, p, NextSection(p)),
         NEW about, about = AboutPath(job.tag, p, NextSection(p)),
         NEW new, DOMAIN new = {key, about},
         new[key] = ChunkFiles(p, NextSection(p))[key],
         \/ new[about] \in TornFiles
         \/ new[about] = ChunkFiles(p, NextSection(p))[about],
         files' = Written(new)
  PROVE  \A q \in Changed : ByJob(q)
<1> DEFINE s == NextSection(p)
           n == s.size + Overhead
<1>1. /\ p \in DOMAIN job.size
      /\ s \in Sections(job.size[p])
      /\ n \in 0 .. Largest
  BY PendingSection, LargestIs
<1>2. /\ key[1] = "chunk" /\ key[2] = job.tag /\ key[3] = p /\ key[4] = s
      /\ about[1] = "about" /\ about[2] = job.tag
      /\ key # about
  BY PathsAre
<1>3. /\ ChunkFiles(p, s)[key] = File(n, Data(p, s))
      /\ ChunkFiles(p, s)[about] = File(JSONSize + Overhead, <<"json">>)
  BY <1>2 DEF ChunkFiles
<1>4. new[key] = File(n, Data(p, s)) /\ IsFile(new[about])
  BY <1>3, FileIs, LargestIs, TornIsFile
<1> HIDE DEF s, n
<1>5. IsFile(new[key]) /\ new[key].is = Data(p, s)
  BY <1>1, <1>4, FileIs
<1>6. Changed \subseteq {key, about}
  BY WrittenIs, ZenonT(60) DEF Changed
<1>7. /\ key \in DOMAIN files' /\ about \in DOMAIN files'
      /\ files'[key] = new[key] /\ files'[about] = new[about]
  BY WrittenIs
<1>8. ByJob(key)
  BY <1>1, <1>2, <1>5, <1>7 DEF ByJob, Own, Stored
<1>9. ByJob(about)
  BY <1>2, <1>4, <1>7 DEF ByJob, Own
<1> QED
  BY <1>6, <1>8, <1>9

LEMMA StoreChunkChanges ==
  ASSUME JobForm, job # NoJob, NEW p \in Pending, StoreChunk(p)
  PROVE  \A q \in Changed : ByJob(q)
<1> DEFINE key   == ChunkPath(job.tag, p, NextSection(p))
           about == AboutPath(job.tag, p, NextSection(p))
           new   == ChunkFiles(p, NextSection(p))
<1>1. DOMAIN new = {key, about}
  BY DEF ChunkFiles
<1>2. files' = Written(new)
  BY DEF StoreChunk
<1> HIDE DEF key, about, new
<1> QED
  BY <1>1, <1>2, ChunkFilesAre DEF key, about, new

LEMMA TornChanges ==
  ASSUME NEW path, Own(job.tag, path), NEW torn \in TornFiles, files' = Put(path, torn)
  PROVE  \A q \in Changed : ByJob(q)
  BY PutChanges, TornIsFile DEF ByJob

LEMMA CrashChanges ==
  ASSUME JobForm, Crash
  PROVE  \A q \in Changed : ByJob(q)
<1>0. job # NoJob
  BY DEF Crash
<1>1. CASE UNCHANGED files
  BY <1>1 DEF Changed
<1>2. CASE \E p \in Pending, torn \in TornFiles :
             files' = Put(ChunkPath(job.tag, p, NextSection(p)), torn)
  <2>1. PICK p \in Pending, torn \in TornFiles :
          files' = Put(ChunkPath(job.tag, p, NextSection(p)), torn)
    BY <1>2
  <2>2. Own(job.tag, ChunkPath(job.tag, p, NextSection(p)))
    BY PathsAre DEF Own
  <2> QED
    BY <2>1, <2>2, TornChanges
<1>3. CASE \E p \in Pending, torn \in TornFiles :
             files' = Written([ChunkFiles(p, NextSection(p)) EXCEPT
                                 ![AboutPath(job.tag, p, NextSection(p))] = torn])
  <2>1. PICK p \in Pending, torn \in TornFiles :
             files' = Written([ChunkFiles(p, NextSection(p)) EXCEPT
                                 ![AboutPath(job.tag, p, NextSection(p))] = torn])
    BY <1>3
  <2> DEFINE key   == ChunkPath(job.tag, p, NextSection(p))
             about == AboutPath(job.tag, p, NextSection(p))
             both  == ChunkFiles(p, NextSection(p))
             new   == [both EXCEPT ![about] = torn]
  <2>2. key # about
    BY PathsAre
  <2>3. DOMAIN both = {key, about} /\ both = [k \in {key, about} |-> both[k]]
    BY DEF ChunkFiles
  <2> HIDE DEF key, about, both
  <2>4. DOMAIN new = {key, about} /\ new[key] = both[key] /\ new[about] = torn
    BY <2>2, <2>3
  <2>5. files' = Written(new)
    BY <2>1 DEF key, about, both
  <2> HIDE DEF new
  <2> QED
    BY <1>0, <2>4, <2>5, ChunkFilesAre DEF key, about, both
<1>4. CASE \E torn \in TornFiles : files' = Put(MetadataPath(job.tag), torn)
  BY <1>4, TornChanges, PathsAre DEF Own
<1> QED
  BY <1>1, <1>2, <1>3, <1>4 DEF Crash

(* The commit record. *)
LEMMA CommitChanges ==
  ASSUME Commit
  PROVE  /\ MetadataPath(job.tag) \in DOMAIN files'
         /\ files'[MetadataPath(job.tag)] = File(JSONSize + Overhead, <<"entities", Metadata>>)
         /\ IsFile(files'[MetadataPath(job.tag)])
         /\ Changed \subseteq {MetadataPath(job.tag)}
<1>1. files' = Put(MetadataPath(job.tag), File(JSONSize + Overhead, <<"entities", Metadata>>))
  BY DEF Commit
<1> QED
  BY <1>1, PutChanges, FileIs, LargestIs

LEMMA RestoreChanges ==
  ASSUME NEW t \in Tag, MetadataForm, Restore(t)
  PROVE  /\ Readable(MetadataPath(t))
         /\ \A q \in Changed :
              /\ q \in DOMAIN files'
              /\ q[1] = "out" /\ q[2] = t
              /\ IsFile(files'[q])
<1>1. Readable(MetadataPath(t))
  BY DEF Restore, Restorable
<1>2. PICK last : files' = Written([q \in {OutPath(t, p) : p \in Entities(t)} |->
                              File(EndOf(ChunkMap(t)), Merged(t, q[3], last))])
  BY DEF Restore
<1>3. EndOf(ChunkMap(t)) \in 0 .. Largest
  BY <1>1, UpperBoundIs, LargestIs DEF MetadataForm, EndOf
<1> DEFINE new == [q \in {OutPath(t, p) : p \in Entities(t)} |->
                     File(EndOf(ChunkMap(t)), Merged(t, q[3], last))]
<1>4. \A q \in DOMAIN new : q[1] = "out" /\ q[2] = t /\ IsFile(new[q])
  <2> SUFFICES ASSUME NEW p \in Entities(t)
               PROVE  LET q == OutPath(t, p)
                      IN  q[1] = "out" /\ q[2] = t /\ IsFile(new[q])
    OBVIOUS
  <2>1. new[OutPath(t, p)] = File(EndOf(ChunkMap(t)), Merged(t, OutPath(t, p)[3], last))
    OBVIOUS
  <2> QED
    BY <1>3, <2>1, FileIs, PathsAre
<1>5. files' = Written(new)
  BY <1>2
<1> HIDE DEF new
<1>6. Changed \subseteq DOMAIN new
  BY <1>5, WrittenIs, ZenonT(60) DEF Changed
<1> QED
  BY <1>1, <1>4, <1>5, <1>6, WrittenIs

LEMMA ExitChanges ==
  ASSUME NEW t \in Tag, RestoreExits(t)
  PROVE  \A q \in Changed :
           /\ q[2] = t
           /\ q \notin DOMAIN files' => q[1] \in {"chunk", "metadata"}
           /\ q \in DOMAIN files' =>
                q[1] = "out" /\ IsFile(files'[q]) /\ MetadataPath(t) \in DOMAIN files
<1> DEFINE open == Readable(MetadataPath(t))
           met  == {MetadataPath(t)} \cup IF open THEN Needed(t) ELSE {}
           outs == IF open THEN {OutPath(t, p) : p \in Entities(t)} ELSE {}
<1>1. PICK gone \in SUBSET {p \in met \cap DOMAIN files : files[p].size = 0},
           made \in {{}, outs} :
        LET new == Written([q \in made |-> File(1, <<"part">>)])
        IN  files' = [p \in DOMAIN new \ gone |-> new[p]]
  BY DEF RestoreExits
<1> DEFINE part == [q \in made |-> File(1, <<"part">>)]
           new  == Written(part)
<1>2. files' = [p \in DOMAIN new \ gone |-> new[p]]
  BY <1>1
<1>3. \A q \in met : q[2] = t /\ q[1] \in {"chunk", "metadata"}
  BY PathsAre DEF Needed
<1>4. \A q \in made : q[2] = t /\ q[1] = "out" /\ open
  <2>1. \A q \in outs : open /\ \E p \in Entities(t) : q = OutPath(t, p)
    OBVIOUS
  <2> HIDE DEF outs, open
  <2> QED
    BY <2>1, PathsAre
<1>5. gone \subseteq met /\ open => MetadataPath(t) \in DOMAIN files
  BY DEF Readable
<1>6. DOMAIN part = made /\ \A q \in made : part[q] = File(1, <<"part">>)
  OBVIOUS
<1>7. IsFile(File(1, <<"part">>))
  BY FileIs, LargestIs
<1> HIDE DEF met, outs, open, part
<1>8. /\ DOMAIN new = DOMAIN files \cup made
      /\ \A q \in DOMAIN files \cup made :
           new[q] = IF q \in made THEN part[q] ELSE files[q]
  BY <1>6, WrittenIs
<1> HIDE DEF new
<1>9. DOMAIN files' = DOMAIN new \ gone /\ \A q \in DOMAIN files' : files'[q] = new[q]
  BY <1>2
<1>10. Changed \subseteq made \cup gone
  BY <1>8, <1>9 DEF Changed
<1>11. gone \subseteq met
  BY <1>1
<1>12. \A q \in gone : q[2] = t /\ q[1] \in {"chunk", "metadata"} /\ q \notin DOMAIN files'
  BY <1>3, <1>9, <1>11
<1>13. \A q \in made : q \notin gone /\ q \in DOMAIN files' /\ files'[q] = part[q]
  BY <1>4, <1>8, <1>9, <1>12
<1> QED
  BY <1>4, <1>5, <1>6, <1>7, <1>10, <1>11, <1>12, <1>13 DEF open
-----------------------------------------------------------------------------
(* What can be read, and what can be restored.                             *)

LEMMA ReadableStays ==
  ASSUME NEW q, q \notin Changed
  PROVE  Readable(q)' <=> Readable(q)
  BY NotChanged DEF Readable

(* A commit record that is not changed says what it said. *)
LEMMA RecordStays ==
  ASSUME NEW t, MetadataPath(t) \notin Changed, Readable(MetadataPath(t))
  PROVE  Entities(t)' = Entities(t) /\ ChunkMap(t)' = ChunkMap(t)
<1>1. files'[MetadataPath(t)] = files[MetadataPath(t)]
  BY NotChanged DEF Readable
<1> QED
  BY <1>1 DEF Entities, ChunkMap

LEMMA RestorableStays ==
  ASSUME NEW t, Restorable(t),
         \A q \in Changed : q[1] \in {"chunk", "metadata"} => q[2] # t
  PROVE  Restorable(t)'
<1>1. MetadataPath(t) \notin Changed /\ Readable(MetadataPath(t))
  BY PathsAre DEF Restorable
<1>2. Readable(MetadataPath(t))'
  BY <1>1, ReadableStays
<1>3. Needed(t)' = Needed(t)
  BY <1>1, RecordStays DEF Needed
<1>4. ASSUME NEW key \in Needed(t)
      PROVE  Readable(key)'
  <2>1. Readable(key)
    BY DEF Restorable
  <2>2. key[1] = "chunk" /\ key[2] = t
    BY PathsAre DEF Needed
  <2> QED
    BY <2>1, <2>2, ReadableStays
<1> QED
  BY <1>2, <1>3, <1>4 DEF Restorable

(* Which files a step can change: only the Snapshot of a tag writes chunks *)
(* and commit records of it, and of these only a Restore that fails for    *)
(* want of one of them removes any.                                        *)
LEMMA StepChanges ==
  ASSUME JobForm, MetadataForm, Next, NEW t \in Tag,
         NEW q \in Changed, q[1] \in {"chunk", "metadata"}, q[2] = t
  PROVE  (job # NoJob /\ job.tag = t) \/ RestoreExits(t)
<1>1. CASE Edit
  BY <1>1, EditChanges
<1>2. CASE Commit
  BY <1>2, CommitChanges, PathsAre DEF Commit
<1>3. CASE Crash
  BY <1>3, CrashChanges DEF ByJob, Own, Crash
<1>4. ASSUME NEW u \in Tag, StartSnapshot(u)
      PROVE  FALSE
  BY <1>4 DEF StartSnapshot, Changed
<1>5. ASSUME NEW u \in Tag, Restore(u)
      PROVE  FALSE
  BY <1>5, RestoreChanges
<1>6. ASSUME NEW u \in Tag, RestoreExits(u)
      PROVE  RestoreExits(t)
  BY <1>6, ExitChanges
<1>7. ASSUME job # NoJob, NEW p \in Pending, StoreChunk(p)
      PROVE  job.tag = t
  BY <1>7, StoreChunkChanges DEF ByJob, Own
<1> QED
  BY <1>1, <1>2, <1>3, <1>4, <1>5, <1>6, <1>7 DEF Next

LEMMA StaysRestorableStep ==
  ASSUME JobForm, MetadataForm, [Next]_vars, NEW t \in Tag,
         Restorable(t), ~(job # NoJob /\ job.tag = t)
  PROVE  Restorable(t)'
<1>1. CASE UNCHANGED vars
  <2>1. Changed = {}
    BY <1>1 DEF Changed, vars
  <2> QED
    BY <2>1, RestorableStays
<1>2. CASE Next
  <2>1. ~RestoreExits(t)
    BY DEF RestoreExits
  <2> QED
    BY <1>2, <2>1, StepChanges, RestorableStays
<1> QED
  BY <1>1, <1>2
-----------------------------------------------------------------------------
(* Type correctness.                                                       *)

LEMMA FilesTyped ==
  ASSUME TypeOK, MetadataForm, Next
  PROVE  \A q \in DOMAIN files' : IsFile(files'[q])
<1>1. SUFFICES ASSUME NEW q \in Changed, q \in DOMAIN files'
               PROVE  IsFile(files'[q])
  BY NotChanged DEF TypeOK
<1>2. JobForm
  BY DEF TypeOK
<1>3. CASE Edit
  BY <1>1, <1>3, EditChanges
<1>4. CASE Commit
  BY <1>1, <1>4, CommitChanges
<1>5. CASE Crash
  BY <1>1, <1>2, <1>5, CrashChanges DEF ByJob
<1>6. ASSUME NEW u \in Tag, StartSnapshot(u)
      PROVE  FALSE
  BY <1>1, <1>6 DEF StartSnapshot, Changed
<1>7. ASSUME NEW u \in Tag, Restore(u)
      PROVE  IsFile(files'[q])
  BY <1>1, <1>7, RestoreChanges
<1>8. ASSUME NEW u \in Tag, RestoreExits(u)
      PROVE  IsFile(files'[q])
  BY <1>1, <1>8, ExitChanges
<1>9. ASSUME job # NoJob, NEW p \in Pending, StoreChunk(p)
      PROVE  IsFile(files'[q])
  BY <1>1, <1>2, <1>9, StoreChunkChanges DEF ByJob
<1> QED
  BY <1>3, <1>4, <1>5, <1>6, <1>7, <1>8, <1>9 DEF Next

(* What a Snapshot starts with. *)
LEMMA StartIs ==
  ASSUME TypeOK, NEW t \in Tag, StartSnapshot(t)
  PROVE  /\ job' # NoJob
         /\ job' = [tag |-> t, size |-> job'.size, stored |-> job'.stored]
         /\ DOMAIN job'.size = Walked
         /\ \A p \in Walked : /\ p \in DOMAIN files
                              /\ job'.size[p] = files[p].size
                              /\ files[p].size \in 1 .. Largest
                              /\ IsFile(files[p])
         /\ job'.size \in [Walked -> 1 .. Largest]
         /\ job'.stored \in [Walked -> Nat]
         /\ seen' = [seen EXCEPT ![t] = @ \cup {<<p, files[p]>> : p \in Walked}]
         /\ files' = files /\ restored' = NoTag /\ taken' = Append(taken, t)
<1>1. /\ job' = [tag |-> t, size |-> [p \in Walked |-> files[p].size],
                 stored |-> [p \in Walked |-> 0]]
      /\ seen' = [seen EXCEPT ![t] = @ \cup {<<p, files[p]>> : p \in Walked}]
      /\ files' = files /\ restored' = NoTag /\ taken' = Append(taken, t)
  BY DEF StartSnapshot
<1>2. \A p \in Walked : p \in DOMAIN files /\ IsFile(files[p]) /\ files[p].size \in 1 .. Largest
  BY LargestIs DEF Walked, TypeOK, IsFile
<1>3. job'.tag = t /\ t # NoJob.tag
  BY <1>1, JobTagged
<1> QED
  BY <1>1, <1>2, <1>3

LEMMA StoreIs ==
  ASSUME JobForm, job # NoJob, NEW p \in Pending, StoreChunk(p)
  PROVE  /\ job' # NoJob
         /\ job' = [tag |-> job'.tag, size |-> job'.size, stored |-> job'.stored]
         /\ job'.tag = job.tag /\ job'.size = job.size
         /\ job'.stored \in [DOMAIN job.size -> Nat]
         /\ taken' = taken /\ seen' = seen /\ restored' = restored
<1>1. /\ job' = [job EXCEPT !.stored[p] = @ + 1]
      /\ taken' = taken /\ seen' = seen /\ restored' = restored
  BY DEF StoreChunk
<1>2. /\ job = [tag |-> job.tag, size |-> job.size, stored |-> job.stored]
      /\ job.tag \in Tag
      /\ job.stored \in [DOMAIN job.size -> Nat]
      /\ p \in DOMAIN job.size
  BY DEF JobForm, Pending
<1>3. job' = [tag |-> job.tag, size |-> job.size,
              stored |-> [job.stored EXCEPT ![p] = @ + 1]]
  BY <1>1, <1>2
<1>4. job'.tag # NoJob.tag
  BY <1>2, <1>3, JobTagged
<1> QED
  BY <1>1, <1>2, <1>3, <1>4

LEMMA TypeStep ==
  ASSUME TypeOK, MetadataForm, [Next]_vars
  PROVE  TypeOK'
<1>1. CASE UNCHANGED vars
  BY <1>1 DEF vars, TypeOK, JobForm
<1>2. CASE Next
  <2> DEFINE Saw(t) == \A y \in seen[t] : y = <<y[1], y[2]>> /\ IsFile(y[2]) /\ y[2].size # 0
  <2>1. \A q \in DOMAIN files' : IsFile(files'[q])
    BY <1>2, FilesTyped
  <2>2. CASE Edit \/ Commit \/ Crash \/ \E t \in Tag : Restore(t) \/ RestoreExits(t)
    <3>1. /\ taken' = taken /\ seen' = seen /\ restored' \in Tag \cup {NoTag}
          /\ job' = NoJob
      BY <2>2 DEF Edit, Commit, Crash, Restore, RestoreExits
    <3> QED
      BY <2>1, <3>1 DEF TypeOK, JobForm
  <2>3. ASSUME NEW t \in Tag, StartSnapshot(t)
        PROVE  TypeOK'
    <3>1. /\ taken' \in Seq(Tag)
          /\ restored' \in Tag \cup {NoTag}
      <4>1. taken \in Seq(Tag)
        BY DEF TypeOK
      <4>2. taken' = Append(taken, t) /\ restored' = NoTag
        BY <2>3, StartIs
      <4> QED
        BY <4>1, <4>2, AppendProperties
    <3>2. JobForm'
      BY <2>3, StartIs DEF JobForm
    <3>3. seen' = [u \in Tag |-> seen'[u]]
      BY <2>3, StartIs DEF TypeOK
    <3>4. ASSUME NEW u \in Tag
          PROVE  Saw(u)'
      <4>1. Saw(u)
        BY DEF TypeOK
      <4>2. \A y \in seen'[u] : y \in seen[u] \/ \E p \in Walked : y = <<p, files[p]>>
        BY <2>3, StartIs DEF TypeOK
      <4>3. \A p \in Walked : IsFile(files[p]) /\ files[p].size # 0
        BY <2>3, StartIs
      <4> QED
        BY <4>1, <4>2, <4>3
    <3> QED
      BY <2>1, <3>1, <3>2, <3>3, <3>4 DEF TypeOK
  <2>4. ASSUME job # NoJob, NEW p \in Pending, StoreChunk(p)
        PROVE  TypeOK'
    <3>1. JobForm
      BY DEF TypeOK
    <3>2. JobForm'
      BY <2>4, <3>1, StoreIs DEF JobForm
    <3>3. taken' = taken /\ seen' = seen /\ restored' = restored
      BY <2>4, <3>1, StoreIs
    <3> QED
      BY <2>1, <3>2, <3>3 DEF TypeOK
  <2> QED
    BY <1>2, <2>2, <2>3, <2>4 DEF Next
<1> QED
  BY <1>1, <1>2
-----------------------------------------------------------------------------
(* The uses of a tag, and what a Snapshot sees.                            *)

LEMMA UsesStay ==
  ASSUME NEW t, taken' = taken
  PROVE  Uses(t)' = Uses(t)
  BY DEF Uses

(* A step other than StartSnapshot leaves taken and seen alone. *)
LEMMA StepIs ==
  ASSUME TypeOK, Next
  PROVE  \/ \E t \in Tag : StartSnapshot(t)
         \/ taken' = taken /\ seen' = seen
  BY DEF Next, Edit, Commit, Crash, Restore, RestoreExits, StoreChunk

LEMMA UsesStep ==
  ASSUME TypeOK, Next, NEW t \in Tag
  PROVE  /\ Uses(t) \in Nat /\ Uses(t)' \in Nat
         /\ Uses(t)' = Uses(t) \/ (StartSnapshot(t) /\ Uses(t)' = Uses(t) + 1)
         /\ seen[t] \subseteq seen'[t]
         /\ seen'[t] = seen[t] \/ StartSnapshot(t)
<1>1. taken \in Seq(Tag) /\ seen = [u \in Tag |-> seen[u]]
  BY DEF TypeOK
<1>2. Uses(t) \in Nat
  BY <1>1, UsesIs
<1>3. CASE taken' = taken /\ seen' = seen
  BY <1>2, <1>3, UsesStay
<1>4. ASSUME NEW u \in Tag, StartSnapshot(u)
      PROVE  /\ Uses(t)' = IF t = u THEN Uses(t) + 1 ELSE Uses(t)
             /\ seen'[t] = IF t = u THEN seen[t] \cup {<<p, files[p]>> : p \in Walked} ELSE seen[t]
  BY <1>1, <1>4, UsesOneMore, StartIs
<1>5. CASE \E u \in Tag : StartSnapshot(u)
  <2>1. PICK u \in Tag : StartSnapshot(u)
    BY <1>5
  <2>2. CASE t = u
    <3>1. Uses(t)' = Uses(t) + 1 /\ seen[t] \subseteq seen'[t]
      BY <1>4, <2>1, <2>2
    <3>2. StartSnapshot(t)
      BY <2>1, <2>2
    <3> QED
      BY <1>2, <3>1, <3>2
  <2>3. CASE t # u
    <3>1. Uses(t)' = Uses(t) /\ seen'[t] = seen[t]
      BY <1>4, <2>1, <2>3
    <3> QED
      BY <1>2, <3>1
  <2> QED
    BY <2>2, <2>3
<1> QED
  BY <1>3, <1>5, StepIs

LEMMA JobLastStep ==
  ASSUME TypeOK, JobLast, [Next]_vars
  PROVE  JobLast'
<1>1. CASE UNCHANGED vars
  BY <1>1 DEF vars, JobLast, Uses
<1>2. CASE Next
  <2>1. CASE Edit \/ Commit \/ Crash \/ \E t \in Tag : Restore(t) \/ RestoreExits(t)
    BY <2>1 DEF Edit, Commit, Crash, Restore, RestoreExits, JobLast
  <2>2. ASSUME NEW t \in Tag, StartSnapshot(t)
        PROVE  JobLast'
    <3>1. taken \in Seq(Tag) /\ taken' = Append(taken, t)
      BY <2>2, StartIs DEF TypeOK
    <3>2. Uses(t)' # 0
      BY <3>1, UsesOneMore
    <3>3. job'.tag = t /\ restored' = NoTag
      BY <2>2, StartIs
    <3> QED
      BY <3>2, <3>3 DEF JobLast
  <2>3. ASSUME job # NoJob, NEW p \in Pending, StoreChunk(p)
        PROVE  JobLast'
    <3>1. /\ job'.tag = job.tag /\ taken' = taken /\ restored' = restored
      BY <2>3, StoreIs DEF TypeOK
    <3> QED
      BY <2>3, <3>1 DEF JobLast, Uses
  <2> QED
    BY <1>2, <2>1, <2>2, <2>3 DEF Next
<1> QED
  BY <1>1, <1>2

LEMMA UnusedStep ==
  ASSUME TypeOK, MetadataForm, JobLast, UnusedTags, [Next]_vars
  PROVE  UnusedTags'
<1>1. CASE UNCHANGED vars
  BY <1>1 DEF vars, UnusedTags, Uses
<1>2. CASE Next
  <2> SUFFICES ASSUME NEW t \in Tag, Uses(t)' = 0
               PROVE  seen'[t] = {} /\ \A q \in DOMAIN files' : ~Own(t, q)
    BY DEF UnusedTags
  <2>1. (Uses(t) = 0 /\ ~StartSnapshot(t)) \/ Uses(t) + 1 = 0
    <3>1. /\ Uses(t) \in Nat
          /\ Uses(t)' = Uses(t) \/ (StartSnapshot(t) /\ Uses(t)' = Uses(t) + 1)
      BY <1>2, UsesStep
    <3>2. StartSnapshot(t) => Uses(t)' = Uses(t) + 1
      BY StartIs, UsesOneMore DEF TypeOK
    <3> QED
      BY <3>1, <3>2
  <2>2. Uses(t) = 0 /\ ~StartSnapshot(t)
    BY <1>2, <2>1, UsesStep
  <2>3. seen'[t] = {}
    BY <1>2, <2>2, UsesStep DEF UnusedTags
  <2>4. \A q \in DOMAIN files : ~Own(t, q)
    BY <2>2 DEF UnusedTags
  <2>5. MetadataPath(t) \notin DOMAIN files
    BY <2>4, PathsAre DEF Own
  <2>6. job # NoJob => job.tag # t
    BY <2>2 DEF JobLast
  <2>7. ASSUME NEW q \in Changed, q \in DOMAIN files'
        PROVE  ~Own(t, q)
    <3>1. CASE Edit
      BY <2>7, <3>1, EditChanges DEF Own
    <3>2. CASE Commit
      BY <2>6, <2>7, <3>2, CommitChanges, PathsAre DEF Own, Commit
    <3>3. CASE Crash
      BY <2>6, <2>7, <3>3, CrashChanges DEF Own, ByJob, Crash, TypeOK
    <3>4. ASSUME NEW u \in Tag, StartSnapshot(u)
          PROVE  FALSE
      BY <2>7, <3>4 DEF StartSnapshot, Changed
    <3>5. ASSUME NEW u \in Tag, Restore(u)
          PROVE  q[2] = u /\ u # t
      BY <2>5, <2>7, <3>5, RestoreChanges DEF Readable
    <3>6. ASSUME NEW u \in Tag, RestoreExits(u)
          PROVE  q[2] = u /\ u # t
      BY <2>5, <2>7, <3>6, ExitChanges
    <3>7. ASSUME job # NoJob, NEW p \in Pending, StoreChunk(p)
          PROVE  ~Own(t, q)
      BY <2>6, <2>7, <3>7, StoreChunkChanges DEF Own, ByJob, TypeOK
    <3> QED
      BY <1>2, <3>1, <3>2, <3>3, <3>4, <3>5, <3>6, <3>7 DEF Next, Own
  <2> QED
    BY <2>3, <2>4, <2>7, NotChanged
<1> QED
  BY <1>1, <1>2

(* The first Snapshot of a tag has seen what it walked, and walked nothing *)
(* that was written for the tag.                                           *)
LEMMA FirstUse ==
  ASSUME TypeOK, UnusedTags, NEW t \in Tag, StartSnapshot(t), Uses(t)' = 1
  PROVE  /\ Uses(t) = 0
         /\ seen'[t] = {<<p, files[p]>> : p \in Walked}
         /\ \A q \in DOMAIN files : ~Own(t, q)
<1>1. Uses(t) = 0
  BY StartIs, UsesOneMore DEF TypeOK
<1> QED
  BY <1>1, StartIs DEF UnusedTags, TypeOK

LEMMA JobSeesStep ==
  ASSUME TypeOK, UnusedTags, JobSees, [Next]_vars
  PROVE  JobSees'
<1>1. CASE UNCHANGED vars
  BY <1>1 DEF vars, JobSees, Uses
<1>2. CASE Next
  <2>1. CASE Edit \/ Commit \/ Crash \/ \E t \in Tag : Restore(t) \/ RestoreExits(t)
    BY <2>1 DEF Edit, Commit, Crash, Restore, RestoreExits, JobSees
  <2>2. ASSUME NEW t \in Tag, StartSnapshot(t)
        PROVE  JobSees'
    <3>1. /\ job'.tag = t /\ DOMAIN job'.size = Walked /\ files' = files
          /\ \A p \in Walked : p \in DOMAIN files /\ job'.size[p] = files[p].size
          /\ \A p \in Walked : <<p, files[p]>> \in seen'[t]
      BY <2>2, StartIs DEF TypeOK
    <3>2. \A p \in Walked : Own(t, p) => Uses(t)' # 1
      BY <2>2, <3>1, FirstUse
    <3> QED
      BY <3>1, <3>2 DEF JobSees
  <2>3. ASSUME job # NoJob, NEW p \in Pending, StoreChunk(p)
        PROVE  JobSees'
    <3>1. /\ job'.tag = job.tag /\ job'.size = job.size /\ taken' = taken /\ seen' = seen
      BY <2>3, StoreIs DEF TypeOK
    <3>2. \A q \in Changed : Own(job.tag, q)
      BY <2>3, StoreChunkChanges DEF ByJob, TypeOK
    <3>3. \A q \in DOMAIN files : ~Own(job.tag, q) => q \in DOMAIN files' /\ files'[q] = files[q]
      BY <3>2, NotChanged
    <3>4. Uses(job.tag)' = Uses(job.tag)
      BY <3>1 DEF Uses
    <3> QED
      BY <2>3, <3>1, <3>3, <3>4 DEF JobSees, Own
  <2> QED
    BY <1>2, <2>1, <2>2, <2>3 DEF Next
<1> QED
  BY <1>1, <1>2

LEMMA SeenByJobStep ==
  ASSUME TypeOK, UnusedTags, SeenByJob, [Next]_vars
  PROVE  SeenByJob'
<1>1. CASE UNCHANGED vars
  BY <1>1 DEF vars, SeenByJob, Uses
<1>2. CASE Next
  <2>1. CASE Edit \/ Commit \/ Crash \/ \E t \in Tag : Restore(t) \/ RestoreExits(t)
    BY <2>1 DEF Edit, Commit, Crash, Restore, RestoreExits, SeenByJob
  <2>2. ASSUME NEW t \in Tag, StartSnapshot(t)
        PROVE  SeenByJob'
    <3>1. /\ job'.tag = t /\ DOMAIN job'.size = Walked
          /\ \A p \in Walked : job'.size[p] = files[p].size
      BY <2>2, StartIs
    <3>2. Uses(t)' = 1 => \A y \in seen'[t] : y[1] \in Walked /\ y[2].size = files[y[1]].size
      BY <2>2, FirstUse
    <3> QED
      BY <3>1, <3>2 DEF SeenByJob
  <2>3. ASSUME job # NoJob, NEW p \in Pending, StoreChunk(p)
        PROVE  SeenByJob'
    <3>1. /\ job'.tag = job.tag /\ job'.size = job.size /\ taken' = taken /\ seen' = seen
      BY <2>3, StoreIs DEF TypeOK
    <3> QED
      BY <2>3, <3>1 DEF SeenByJob, Uses
  <2> QED
    BY <1>2, <2>1, <2>2, <2>3 DEF Next
<1> QED
  BY <1>1, <1>2

LEMMA SeenOnceStep ==
  ASSUME TypeOK, UnusedTags, SeenOnce, [Next]_vars
  PROVE  SeenOnce'
<1>1. CASE UNCHANGED vars
  BY <1>1 DEF vars, SeenOnce, Uses
<1>2. CASE Next
  <2> SUFFICES ASSUME NEW t \in Tag, Uses(t)' = 1
               PROVE  \A y, z \in seen'[t] : y[1] = z[1] => y = z
    BY DEF SeenOnce
  <2>1. CASE StartSnapshot(t)
    BY <2>1, FirstUse
  <2>2. CASE ~StartSnapshot(t)
    BY <1>2, <2>2, UsesStep DEF SeenOnce
  <2> QED
    BY <2>1, <2>2
<1> QED
  BY <1>1, <1>2
-----------------------------------------------------------------------------
(* The chunks on disk.                                                     *)

LEMMA SeenStays ==
  ASSUME TypeOK, UnusedTags, Next, NEW q \in DOMAIN files, q[1] = "chunk", q[2] \in Tag,
         NEW is, ChunkSeen(q, is)
  PROVE  ChunkSeen(q, is)'
<1>1. /\ seen[q[2]] \subseteq seen'[q[2]]
      /\ Uses(q[2]) \in Nat /\ Uses(q[2])' \in Nat
      /\ Uses(q[2])' = Uses(q[2]) \/ Uses(q[2])' = Uses(q[2]) + 1
  BY UsesStep
<1>2. CASE Own(q[2], q[3])
  <2>1. Uses(q[2]) # 1
    BY <1>2 DEF ChunkSeen
  <2>2. Own(q[2], q)
    BY DEF Own
  <2>3. Uses(q[2]) # 0
    BY <2>2 DEF UnusedTags
  <2>4. Uses(q[2])' # 1
    BY <1>1, <2>1, <2>3
  <2> QED
    BY <1>2, <2>4 DEF ChunkSeen, Own
<1>3. CASE ~Own(q[2], q[3])
  <2>1. PICK y \in seen[q[2]] : ChunkOf(q, is, y)
    BY <1>3 DEF ChunkSeen
  <2>2. y \in seen'[q[2]]
    BY <1>1
  <2> QED
    BY <1>3, <2>1, <2>2 DEF ChunkSeen
<1> QED
  BY <1>2, <1>3

(* A chunk that StoreChunk, or a crash in it, has written. *)
LEMMA NewChunkSeen ==
  ASSUME TypeOK, JobSees, job # NoJob, taken' = taken, seen' = seen,
         NEW q \in Changed, ByJob(q), q[1] = "chunk", files'[q] \notin TornFiles
  PROVE  q[2] \in Tag /\ ChunkSeen(q, files[q].is)'
<1> DEFINE p == q[3]
<1>1. /\ q[2] = job.tag /\ job.tag \in Tag
      /\ p \in DOMAIN job.size
      /\ q[4] \in Sections(job.size[p])
      /\ files'[q].is = Data(p, q[4])
  BY DEF ByJob, Own, Stored, TypeOK, JobForm
<1>2. Uses(q[2])' = Uses(job.tag)
  BY <1>1 DEF Uses
<1>3. CASE Own(job.tag, p)
  BY <1>1, <1>2, <1>3 DEF JobSees, ChunkSeen
<1>4. CASE ~Own(job.tag, p)
  <2>1. <<p, files[p]>> \in seen[job.tag] /\ files[p].size = job.size[p]
    BY <1>1, <1>4 DEF JobSees
  <2>2. files'[q].is = <<"data", files[p].is, q[4]>>
    BY <1>1, <1>4 DEF Data, Own
  <2> DEFINE y == <<p, files[p]>>
  <2>3. ChunkOf(q, files'[q].is, y)
    BY <1>1, <2>1, <2>2 DEF ChunkOf
  <2>4. y \in seen'[q[2]]
    BY <1>1, <2>1
  <2> QED
    BY <1>1, <1>4, <2>3, <2>4 DEF ChunkSeen
<1> QED
  BY <1>3, <1>4

LEMMA ChunksSeenStep ==
  ASSUME TypeOK, MetadataForm, UnusedTags, JobSees, ChunksSeen, [Next]_vars
  PROVE  ChunksSeen'
<1>1. CASE UNCHANGED vars
  BY <1>1 DEF vars, ChunksSeen, ChunkSeen, Uses
<1>2. CASE Next
  <2> SUFFICES ASSUME NEW q \in DOMAIN files', q[1] = "chunk", files'[q] \notin TornFiles
               PROVE  q[2] \in Tag /\ ChunkSeen(q, files[q].is)'
    BY DEF ChunksSeen
  <2>1. CASE q \notin Changed
    <3>1. q \in DOMAIN files /\ files'[q] = files[q]
      BY <2>1, NotChanged
    <3>2. PICK is : is = files[q].is
      OBVIOUS
    <3>3. q[2] \in Tag /\ ChunkSeen(q, is)
      BY <3>1, <3>2 DEF ChunksSeen
    <3>4. ChunkSeen(q, is)'
      BY <1>2, <3>1, <3>3, SeenStays
    <3> QED
      BY <3>1, <3>2, <3>3, <3>4
  <2>2. CASE q \in Changed
    <3>1. CASE Edit
      BY <2>2, <3>1, EditChanges
    <3>2. CASE Commit
      BY <2>2, <3>2, CommitChanges, PathsAre
    <3>3. CASE Crash
      BY <2>2, <3>3, CrashChanges, NewChunkSeen DEF Crash, TypeOK
    <3>4. ASSUME NEW u \in Tag, StartSnapshot(u)
          PROVE  FALSE
      BY <2>2, <3>4 DEF StartSnapshot, Changed
    <3>5. ASSUME NEW u \in Tag, Restore(u)
          PROVE  FALSE
      BY <2>2, <3>5, RestoreChanges
    <3>6. ASSUME NEW u \in Tag, RestoreExits(u)
          PROVE  FALSE
      BY <2>2, <3>6, ExitChanges
    <3>7. ASSUME job # NoJob, NEW p \in Pending, StoreChunk(p)
          PROVE  q[2] \in Tag /\ ChunkSeen(q, files[q].is)'
      BY <2>2, <3>7, StoreChunkChanges, NewChunkSeen DEF StoreChunk, TypeOK
    <3> QED
      BY <1>2, <3>1, <3>2, <3>3, <3>4, <3>5, <3>6, <3>7 DEF Next
  <2> QED
    BY <2>1, <2>2
<1> QED
  BY <1>1, <1>2
-----------------------------------------------------------------------------
(* The commit records on disk.                                             *)

(* Only Commit writes a record that can be read. *)
LEMMA NewRecord ==
  ASSUME TypeOK, MetadataForm, Next, NEW t \in Tag,
         MetadataPath(t) \in Changed, Readable(MetadataPath(t))'
  PROVE  Commit /\ t = job.tag
<1> DEFINE q == MetadataPath(t)
<1>1. q[1] = "metadata" /\ q[2] = t /\ q \in DOMAIN files' /\ files'[q] \notin TornFiles
  BY PathsAre DEF Readable
<1> HIDE DEF q
<1>2. q \in Changed
  BY DEF q
<1>3. CASE Edit
  BY <1>1, <1>2, <1>3, EditChanges
<1>4. CASE Commit
  BY <1>1, <1>2, <1>4, CommitChanges, PathsAre
<1>5. CASE Crash
  BY <1>1, <1>2, <1>5, CrashChanges DEF ByJob, TypeOK
<1>6. ASSUME NEW u \in Tag, StartSnapshot(u)
      PROVE  FALSE
  BY <1>2, <1>6 DEF StartSnapshot, Changed
<1>7. ASSUME NEW u \in Tag, Restore(u)
      PROVE  FALSE
  BY <1>1, <1>2, <1>7, RestoreChanges
<1>8. ASSUME NEW u \in Tag, RestoreExits(u)
      PROVE  FALSE
  BY <1>1, <1>2, <1>8, ExitChanges
<1>9. ASSUME job # NoJob, NEW p \in Pending, StoreChunk(p)
      PROVE  FALSE
  BY <1>1, <1>2, <1>9, StoreChunkChanges DEF ByJob, TypeOK
<1> QED
  BY <1>3, <1>4, <1>5, <1>6, <1>7, <1>8, <1>9 DEF Next

LEMMA CommitRecord ==
  ASSUME Commit, NEW t, t = job.tag
  PROVE  /\ Entities(t)' = DOMAIN job.size
         /\ ChunkMap(t)' = UNION {Sections(job.size[p]) : p \in DOMAIN job.size}
<1> DEFINE q == MetadataPath(t)
<1>1. files'[q] = File(JSONSize + Overhead, <<"entities", Metadata>>)
  BY CommitChanges
<1>2. files'[q].is[2] = Metadata
  BY <1>1 DEF File
<1> HIDE DEF q
<1>3. /\ files'[q].is[2].size = job.size
      /\ files'[q].is[2].sections = UNION {Sections(job.size[p]) : p \in DOMAIN job.size}
  BY <1>2 DEF Metadata
<1> QED
  BY <1>3 DEF Entities, ChunkMap, q

LEMMA MetadataFormStep ==
  ASSUME TypeOK, MetadataForm, [Next]_vars
  PROVE  MetadataForm'
<1>1. CASE UNCHANGED vars
  BY <1>1 DEF vars, MetadataForm, Readable, ChunkMap
<1>2. CASE Next
  <2> SUFFICES ASSUME NEW t \in Tag, Readable(MetadataPath(t))'
               PROVE  \A s \in ChunkMap(t)' : s.end \in 0 .. Largest
    BY DEF MetadataForm
  <2>1. CASE MetadataPath(t) \notin Changed
    BY <2>1, ReadableStays, RecordStays DEF MetadataForm
  <2>2. CASE MetadataPath(t) \in Changed
    <3>1. Commit /\ t = job.tag
      BY <1>2, <2>2, NewRecord
    <3>2. ChunkMap(t)' = UNION {Sections(job.size[p]) : p \in DOMAIN job.size}
      BY <3>1, CommitRecord
    <3>3. ASSUME NEW p \in DOMAIN job.size, NEW s \in Sections(job.size[p])
          PROVE  s.end \in 0 .. Largest
      <4>1. job.size[p] \in 1 .. Largest
        BY <3>1 DEF Commit, TypeOK, JobForm
      <4>2. job.size[p] \in Nat /\ Largest \in Nat
        BY <4>1, LargestIs
      <4>3. s.end \in 0 .. job.size[p]
        BY <4>2, SectionIs
      <4> QED
        BY <4>1, <4>2, <4>3
    <3> QED
      BY <3>2, <3>3
  <2> QED
    BY <2>1, <2>2
<1> QED
  BY <1>1, <1>2

LEMMA MetadataSeenStep ==
  ASSUME TypeOK, MetadataForm, JobLast, UnusedTags, JobSees, SeenByJob, MetadataSeen,
         [Next]_vars
  PROVE  MetadataSeen'
<1>1. CASE UNCHANGED vars
  BY <1>1 DEF vars, MetadataSeen, Readable, Entities, ChunkMap, Uses
<1>2. CASE Next
  <2> SUFFICES ASSUME NEW t \in Tag, Uses(t)' = 1, Readable(MetadataPath(t))'
               PROVE  /\ ~(job' # NoJob /\ job'.tag = t)
                      /\ Entities(t)' = {y[1] : y \in seen'[t]}
                      /\ ChunkMap(t)' = UNION {Sections(y[2].size) : y \in seen'[t]}
    BY DEF MetadataSeen
  <2>1. CASE MetadataPath(t) \in Changed
    <3>1. Commit /\ t = job.tag
      BY <1>2, <2>1, NewRecord
    <3>2. job' = NoJob /\ seen' = seen /\ Uses(t) = 1 /\ job # NoJob
      BY <3>1 DEF Commit, Uses
    <3>3. \A p \in DOMAIN job.size : /\ <<p, files[p]>> \in seen[t]
                                     /\ files[p].size = job.size[p]
      BY <3>1, <3>2 DEF JobSees
    <3>4. \A y \in seen[t] : y[1] \in DOMAIN job.size /\ y[2].size = job.size[y[1]]
      BY <3>1, <3>2 DEF SeenByJob
    <3>5. Entities(t)' = {y[1] : y \in seen[t]}
      <4>1. Entities(t)' = DOMAIN job.size
        BY <3>1, CommitRecord
      <4>2. ASSUME NEW p \in DOMAIN job.size
            PROVE  \E y \in seen[t] : p = y[1]
        <5>1. p = <<p, files[p]>>[1]
          OBVIOUS
        <5> QED
          BY <3>3, <5>1
      <4> QED
        BY <3>4, <4>1, <4>2
    <3>6. ChunkMap(t)' = UNION {Sections(y[2].size) : y \in seen[t]}
      <4>1. ChunkMap(t)' = UNION {Sections(job.size[p]) : p \in DOMAIN job.size}
        BY <3>1, CommitRecord
      <4>2. ASSUME NEW p \in DOMAIN job.size
            PROVE  \E y \in seen[t] : Sections(y[2].size) = Sections(job.size[p])
        <5>1. <<p, files[p]>>[2].size = job.size[p]
          BY <3>3
        <5> QED
          BY <3>3, <5>1
      <4>3. ASSUME NEW y \in seen[t]
            PROVE  \E p \in DOMAIN job.size : Sections(y[2].size) = Sections(job.size[p])
        BY <3>4
      <4> QED
        BY <4>1, <4>2, <4>3
    <3> QED
      BY <3>2, <3>5, <3>6
  <2>2. CASE MetadataPath(t) \notin Changed
    <3>1. Readable(MetadataPath(t)) /\ Entities(t)' = Entities(t) /\ ChunkMap(t)' = ChunkMap(t)
      BY <2>2, ReadableStays, RecordStays
    <3>2. ~StartSnapshot(t)
      <4>1. Own(t, MetadataPath(t)) /\ MetadataPath(t) \in DOMAIN files
        BY <3>1, PathsAre DEF Own, Readable
      <4> QED
        BY <4>1, FirstUse
    <3>3. Uses(t) = 1 /\ seen'[t] = seen[t]
      BY <1>2, <3>2, UsesStep
    <3>4. /\ ~(job # NoJob /\ job.tag = t)
          /\ Entities(t)' = {y[1] : y \in seen'[t]}
          /\ ChunkMap(t)' = UNION {Sections(y[2].size) : y \in seen'[t]}
      BY <3>1, <3>3 DEF MetadataSeen
    <3>5. ~(job' # NoJob /\ job'.tag = t)
      <4>1. CASE Edit \/ Commit \/ Crash \/ \E u \in Tag : Restore(u) \/ RestoreExits(u)
        BY <4>1 DEF Edit, Commit, Crash, Restore, RestoreExits
      <4>2. ASSUME NEW u \in Tag, StartSnapshot(u)
            PROVE  job'.tag = u /\ u # t
        BY <3>2, <4>2, StartIs
      <4>3. ASSUME job # NoJob, NEW p \in Pending, StoreChunk(p)
            PROVE  job'.tag # t
        BY <3>4, <4>3, StoreIs DEF TypeOK
      <4> QED
        BY <1>2, <4>1, <4>2, <4>3 DEF Next
    <3> QED
      BY <3>4, <3>5
  <2> QED
    BY <2>1, <2>2
<1> QED
  BY <1>1, <1>2
-----------------------------------------------------------------------------
(* What a Restore brings back.                                             *)

LEMMA RestoredBy ==
  ASSUME JobLast, Next, NEW t \in Tag, restored' = t
  PROVE  Restore(t)
<1>1. t # NoTag
  BY JobTagged
<1>2. CASE Edit \/ Commit \/ Crash \/ \E u \in Tag : StartSnapshot(u) \/ RestoreExits(u)
  BY <1>1, <1>2 DEF Edit, Commit, Crash, StartSnapshot, RestoreExits
<1>3. ASSUME job # NoJob, NEW p \in Pending, StoreChunk(p)
      PROVE  FALSE
  BY <1>1, <1>3 DEF StoreChunk, JobLast
<1>4. ASSUME NEW u \in Tag, Restore(u)
      PROVE  Restore(t)
  BY <1>4 DEF Restore
<1> QED
  BY <1>2, <1>3, <1>4 DEF Next

(* The chunk of section s that is looked up for p. *)
Piece(t, p, s) == files[ChunkPath(t, p, s)]

LEMMA RestoreGives ==
  ASSUME MetadataForm, NEW t \in Tag, Restore(t)
  PROVE  /\ Restorable(t)
         /\ Entities(t)' = Entities(t) /\ ChunkMap(t)' = ChunkMap(t)
         /\ seen' = seen /\ taken' = taken
         /\ \E last \in LastMerged(ChunkMap(t)) : \A p \in Entities(t) :
              /\ OutPath(t, p) \in DOMAIN files'
              /\ files'[OutPath(t, p)] = File(EndOf(ChunkMap(t)), Merged(t, p, last))
<1>1. Restorable(t) /\ Readable(MetadataPath(t)) /\ seen' = seen /\ taken' = taken
  BY DEF Restore, Restorable
<1>2. MetadataPath(t) \notin Changed
  BY RestoreChanges, PathsAre
<1>3. Entities(t)' = Entities(t) /\ ChunkMap(t)' = ChunkMap(t)
  BY <1>1, <1>2, RecordStays
<1>4. PICK last \in LastMerged(ChunkMap(t)) :
        files' = Written([q \in {OutPath(t, p) : p \in Entities(t)} |->
                              File(EndOf(ChunkMap(t)), Merged(t, q[3], last))])
  BY DEF Restore
<1> DEFINE new == [q \in {OutPath(t, p) : p \in Entities(t)} |->
                     File(EndOf(ChunkMap(t)), Merged(t, q[3], last))]
<1>5. ASSUME NEW p \in Entities(t)
      PROVE  /\ OutPath(t, p) \in DOMAIN new
             /\ new[OutPath(t, p)] = File(EndOf(ChunkMap(t)), Merged(t, p, last))
  <2>1. OutPath(t, p)[3] = p
    BY PathsAre
  <2>2. /\ OutPath(t, p) \in DOMAIN new
        /\ new[OutPath(t, p)] = File(EndOf(ChunkMap(t)), Merged(t, OutPath(t, p)[3], last))
    OBVIOUS
  <2> HIDE DEF new
  <2> QED
    BY <2>1, <2>2
<1>6. files' = Written(new)
  BY <1>4
<1> HIDE DEF new
<1>7. ASSUME NEW p \in Entities(t)
      PROVE  /\ OutPath(t, p) \in DOMAIN files'
             /\ files'[OutPath(t, p)] = File(EndOf(ChunkMap(t)), Merged(t, p, last))
  BY <1>5, <1>6, WrittenIs
<1> QED
  BY <1>1, <1>3, <1>7

LEMMA MergedIs ==
  ASSUME NEW t \in Tag, Restorable(t), NEW last \in LastMerged(ChunkMap(t)),
         NEW p \in Entities(t)
  PROVE  /\ Merged(t, p, last)[2] = [x \in DOMAIN last |-> Piece(t, p, last[x]).is]
         /\ DOMAIN last = {s.start : s \in ChunkMap(t)}
         /\ \A x \in DOMAIN last :
              /\ last[x] \in ChunkMap(t) /\ last[x].start = x
              /\ Readable(ChunkPath(t, p, last[x]))
<1>1. /\ DOMAIN last = {s.start : s \in ChunkMap(t)}
      /\ \A x \in DOMAIN last : last[x] \in ChunkMap(t) /\ last[x].start = x
  BY DEF LastMerged
<1>2. \A s \in ChunkMap(t) : Readable(ChunkPath(t, p, s))
  BY DEF Restorable, Needed
<1> QED
  BY <1>1, <1>2 DEF Merged, Piece

(* A chunk that can be read and is not of a file of the tag itself is that *)
(* section of one that was seen.                                           *)
LEMMA PieceSeen ==
  ASSUME ChunksSeen, NEW t \in Tag, NEW p, NEW s, ~Own(t, p) \/ Uses(t) = 1,
         Readable(ChunkPath(t, p, s))
  PROVE  \E y \in seen[t] :
           /\ y[1] = p /\ s \in Sections(y[2].size)
           /\ Piece(t, p, s).is = <<"data", y[2].is, s>>
<1> DEFINE q == ChunkPath(t, p, s)
<1>1. q[1] = "chunk" /\ q[2] = t /\ q[3] = p /\ q[4] = s
  BY PathsAre
<1>2. q \in DOMAIN files /\ files[q] \notin TornFiles
  BY DEF Readable
<1> HIDE DEF q
<1>3. ChunkSeen(q, files[q].is)
  BY <1>1, <1>2 DEF ChunksSeen
<1>4. ~Own(t, p)
  BY <1>1, <1>3 DEF ChunkSeen
<1>5. \E y \in seen[t] : ChunkOf(q, files[q].is, y)
  BY <1>1, <1>3, <1>4 DEF ChunkSeen
<1> QED
  BY <1>1, <1>5 DEF ChunkOf, Piece, q

LEMMA OwnTagStep ==
  ASSUME TypeOK, MetadataForm, JobLast, ChunksSeen, OnlyFromOwnTag, [Next]_vars
  PROVE  OnlyFromOwnTag'
<1>1. CASE UNCHANGED vars
  BY <1>1 DEF vars, OnlyFromOwnTag, Entities
<1>2. CASE Next
  <2> SUFFICES ASSUME NEW t \in Tag, NEW f \in Source, restored' = t,
                      SourcePath(f) \in Entities(t)',
                      NEW x \in DOMAIN files'[OutPath(t, SourcePath(f))].is[2]
               PROVE  \E y \in seen'[t] :
                        /\ y[1] = SourcePath(f)
                        /\ files'[OutPath(t, SourcePath(f))].is[2][x][2] = y[2].is
    BY DEF OnlyFromOwnTag
  <2> DEFINE p == SourcePath(f)
             out == OutPath(t, p)
  <2>1. Restore(t)
    BY <1>2, RestoredBy
  <2>2. Restorable(t) /\ p \in Entities(t) /\ seen' = seen
    BY <2>1, RestoreGives
  <2>3. PICK last \in LastMerged(ChunkMap(t)) :
          files'[out] = File(EndOf(ChunkMap(t)), Merged(t, p, last))
    BY <2>1, <2>2, RestoreGives
  <2>4. ~Own(t, p)
    BY PathsAre DEF Own
  <2> HIDE DEF p, out
  <2>5. files'[out].is[2] = [z \in DOMAIN last |-> Piece(t, p, last[z]).is]
    <3>1. files'[out].is = Merged(t, p, last)
      BY <2>3 DEF File
    <3>2. Merged(t, p, last)[2] = [z \in DOMAIN last |-> Piece(t, p, last[z]).is]
      BY <2>2, MergedIs
    <3> QED
      BY <3>1, <3>2
  <2>6. x \in DOMAIN last /\ files'[out].is[2][x] = Piece(t, p, last[x]).is
    BY <2>5 DEF p, out
  <2>7. Readable(ChunkPath(t, p, last[x]))
    BY <2>2, <2>6, MergedIs
  <2>8. PICK s : s = last[x]
    OBVIOUS
  <2>9. PICK y \in seen[t] : y[1] = p /\ Piece(t, p, s).is = <<"data", y[2].is, s>>
    BY <2>4, <2>7, <2>8, PieceSeen
  <2>10. files'[out].is[2][x][2] = y[2].is
    BY <2>6, <2>8, <2>9
  <2> QED
    BY <2>2, <2>9, <2>10 DEF p, out
<1> QED
  BY <1>1, <1>2

(* Of a tag that is used once, what can be restored lists the sections of  *)
(* every file that was seen, and no others: each is looked up under the    *)
(* path of each file, and is found there only if it is one of that file.   *)
LEMMA OneFileMap ==
  ASSUME ChunksSeen, SeenOnce, MetadataSeen, NEW t \in Tag, Restorable(t), Uses(t) = 1,
         NEW x \in seen[t]
  PROVE  x[1] \in Entities(t) /\ ChunkMap(t) = Sections(x[2].size)
<1>1. /\ Entities(t) = {y[1] : y \in seen[t]}
      /\ ChunkMap(t) = UNION {Sections(y[2].size) : y \in seen[t]}
  BY DEF Restorable, MetadataSeen
<1>2. x[1] \in Entities(t)
  BY <1>1
<1>3. ASSUME NEW s \in ChunkMap(t)
      PROVE  s \in Sections(x[2].size)
  <2>1. Readable(ChunkPath(t, x[1], s))
    BY <1>2 DEF Restorable, Needed
  <2>2. PICK y \in seen[t] : y[1] = x[1] /\ s \in Sections(y[2].size)
    BY <2>1, PieceSeen
  <2> QED
    BY <2>2 DEF SeenOnce
<1> QED
  BY <1>1, <1>2, <1>3

LEMMA AsSeenStep ==
  ASSUME TypeOK, MetadataForm, JobLast, ChunksSeen, SeenOnce, MetadataSeen, RestoredAsSeen,
         [Next]_vars
  PROVE  RestoredAsSeen'
<1>1. CASE UNCHANGED vars
  BY <1>1 DEF vars, RestoredAsSeen, Uses
<1>2. CASE Next
  <2> SUFFICES ASSUME NEW t \in Tag, restored' = t, Uses(t)' = 1, NEW x \in seen'[t]
               PROVE  /\ OutPath(t, x[1]) \in DOMAIN files'
                      /\ Intact(x[2], files'[OutPath(t, x[1])])
    BY DEF RestoredAsSeen
  <2> DEFINE p    == x[1]
             out  == OutPath(t, p)
             size == x[2].size
  <2>1. Restore(t)
    BY <1>2, RestoredBy
  <2>2. Restorable(t) /\ seen' = seen /\ taken' = taken
    BY <2>1, RestoreGives
  <2>3. Uses(t) = 1 /\ x \in seen[t]
    BY <2>2, UsesStay
  <2>4. p \in Entities(t) /\ ChunkMap(t) = Sections(size)
    BY <2>2, <2>3, OneFileMap
  <2>5. size \in Nat \ {0}
    <3>1. size \in 0 .. Largest /\ size # 0 /\ Largest \in Nat
      BY <2>3, LargestIs DEF TypeOK, IsFile
    <3> QED
      BY <3>1
  <2>6. PICK last \in LastMerged(ChunkMap(t)) :
          /\ out \in DOMAIN files'
          /\ files'[out] = File(EndOf(ChunkMap(t)), Merged(t, p, last))
    BY <2>1, <2>4, RestoreGives
  <2> HIDE DEF p, out, size
  <2>7. EndOf(ChunkMap(t)) = size
    BY <2>4, <2>5, EndOfSections
  <2>8. files'[out].size = size /\ files'[out].is[2] = Merged(t, p, last)[2]
    BY <2>6, <2>7 DEF File
  <2>9. /\ Merged(t, p, last)[2] = [z \in DOMAIN last |-> Piece(t, p, last[z]).is]
        /\ DOMAIN last = {s.start : s \in Sections(size)}
        /\ \A z \in DOMAIN last :
             /\ last[z] \in Sections(size) /\ last[z].start = z
             /\ Readable(ChunkPath(t, p, last[z]))
    BY <2>2, <2>4, MergedIs
  <2>10. ASSUME NEW z \in DOMAIN last
         PROVE  Piece(t, p, last[z]).is = <<"data", x[2].is, Section(size, z \div ChunkSize)>>
    <3>1. PICK s : s = last[z]
      OBVIOUS
    <3>2. s = Section(size, z \div ChunkSize)
      BY <2>5, <2>9, <3>1, SectionIs
    <3>3. PICK y \in seen[t] : y[1] = p /\ Piece(t, p, s).is = <<"data", y[2].is, s>>
      BY <2>3, <2>9, <3>1, PieceSeen
    <3>4. y = x
      BY <2>3, <3>3 DEF SeenOnce, p
    <3> QED
      BY <3>1, <3>2, <3>3, <3>4
  <2>11. files'[out].is[2] =
           [z \in {s.start : s \in Sections(size)} |->
              <<"data", x[2].is, Section(size, z \div ChunkSize)>>]
    BY <2>8, <2>9, <2>10
  <2> QED
    BY <2>6, <2>8, <2>11 DEF Intact, p, out, size
<1> QED
  BY <1>1, <1>2
-----------------------------------------------------------------------------
LEMMA InitIInv ==
  ASSUME Init
  PROVE  IInv
<1>1. PICK size \in Sizes :
        files = [p \in {SourcePath(f) : f \in Source} |-> File(size[p[2]], <<"source", p[2], 0>>)]
  BY DEF Init
<1>2. \A q \in DOMAIN files : q[1] = "source" /\ IsFile(files[q])
  <2> SUFFICES ASSUME NEW f \in Source
               PROVE  SourcePath(f)[1] = "source" /\ IsFile(files[SourcePath(f)])
    BY <1>1
  <2>1. size[f] \in 0 .. Largest
    BY LifecycleAssumption, LargestIs
  <2>2. SourcePath(f)[1] = "source" /\ SourcePath(f)[2] = f
    BY DEF SourcePath
  <2>3. files[SourcePath(f)] = File(size[f], <<"source", f, 0>>)
    BY <1>1, <2>2
  <2> QED
    BY <2>1, <2>2, <2>3, FileIs
<1>3. /\ taken = <<>> /\ taken \in Seq(Tag) /\ seen = [t \in Tag |-> {}]
      /\ job = NoJob /\ restored = NoTag
  BY DEF Init
<1>4. \A t \in Tag : Uses(t) = 0
  <2>1. Len(taken) = 0
    BY <1>3
  <2>2. \A t \in Tag : {i \in 1 .. Len(taken) : taken[i] = t} = {}
    BY <2>1
  <2> QED
    BY <2>2, FS_EmptySet DEF Uses
<1>5. \A t \in Tag : MetadataPath(t) \notin DOMAIN files
  BY <1>2, PathsAre
<1>6. TypeOK
  BY <1>2, <1>3 DEF TypeOK, JobForm
<1>7. JobLast /\ JobSees /\ SeenByJob
  BY <1>3 DEF JobLast, JobSees, SeenByJob
<1>8. UnusedTags /\ SeenOnce
  BY <1>2, <1>3, <1>4 DEF UnusedTags, SeenOnce, Own
<1>9. ChunksSeen /\ MetadataForm /\ MetadataSeen
  BY <1>2, <1>5 DEF ChunksSeen, MetadataForm, MetadataSeen, Readable
<1>10. \A t \in Tag : restored # t
  BY <1>3, JobTagged
<1>11. OnlyFromOwnTag /\ RestoredAsSeen
  BY <1>10 DEF OnlyFromOwnTag, RestoredAsSeen
<1> QED
  BY <1>6, <1>7, <1>8, <1>9, <1>11 DEF IInv

(* The inductive invariant: it holds in every reachable state (the         *)
(* commands snapshot and restore of splitter.go over operation.go:51-277). *)
THEOREM LifecycleInvariant == Spec => []IInv
<1>1. IInv /\ [Next]_vars => IInv'
  BY TypeStep, JobLastStep, UnusedStep, JobSeesStep, SeenByJobStep, SeenOnceStep,
     ChunksSeenStep, MetadataFormStep, MetadataSeenStep, OwnTagStep, AsSeenStep DEF IInv
<1> QED
  BY <1>1, InitIInv, PTL DEF Spec

(* A Restore of a tag that was given to one Snapshot only, if it ends      *)
(* without an error, has brought back each file as that Snapshot found it, *)
(* whatever came after (operation.go:63-73, 109-128, 160-241, 253-259).    *)
THEOREM LifecycleRestores == Spec => []RestoredAsSeen
<1>1. IInv => RestoredAsSeen
  BY DEF IInv
<1> QED
  BY <1>1, LifecycleInvariant, PTL

(* Every section of a source file that Restore brings back is one that     *)
(* some Snapshot of that tag has seen there (operation.go:109-119,         *)
(* 253-259).                                                               *)
THEOREM LifecycleKeepsTagsApart == Spec => []OnlyFromOwnTag
<1>1. IInv => OnlyFromOwnTag
  BY DEF IInv
<1> QED
  BY <1>1, LifecycleInvariant, PTL

(* What can be restored stays so while no Snapshot of its tag runs         *)
(* (operation.go:109-119; internal.go:114-125).                            *)
THEOREM LifecycleStaysRestorable == Spec => StaysRestorable
<1> DEFINE Stays ==
      \A t \in Tag : Restorable(t) /\ ~(job # NoJob /\ job.tag = t) => Restorable(t)'
<1>1. IInv /\ [Next]_vars => Stays
  BY StaysRestorableStep DEF IInv, TypeOK
<1>2. IInv /\ [Next]_vars => [Stays]_vars
  BY <1>1
<1> QED
  BY <1>2, LifecycleInvariant, PTL DEF Spec, StaysRestorable
=============================================================================
