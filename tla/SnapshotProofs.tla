--------------------------- MODULE SnapshotProofs ---------------------------
(***************************************************************************)
(* Snapshot: the inductive invariant IInv, and from it the properties of   *)
(* the runs and the refinement of AtomicSnapshot, for every number of      *)
(* files, every size and every hash function.  Except where a theorem      *)
(* assumes more, the pool and the set of faults are arbitrary too.         *)
(***************************************************************************)
EXTENDS Snapshot, ChunkingProofs, FiniteSetTheorems

USE DEF File, MaxChunks, Chunk, Hash

-----------------------------------------------------------------------------
(* The operators the model is built from.                                  *)

(* There are finitely many chunks, so that they can be counted. *)
LEMMA ChunkFinite == IsFiniteSet(Chunk)
<1>1. IsFiniteSet(File)
  BY FS_Interval, SnapshotAssumption
<1>2. IsFiniteSet(0 .. NumChunks(MaxSize) - 1)
  BY FS_Interval, NumChunksBounds, SnapshotAssumption
<1>. QED  BY <1>1, <1>2, FS_Product

(* There are finitely many files. *)
LEMMA FileFinite == IsFiniteSet(File)
  BY FS_Interval, SnapshotAssumption

(* The value of lock that names no goroutine is not a chunk. *)
LEMMA FreeNotChunk == Free \notin Chunk
  BY SnapshotAssumption DEF Free

(* Nor is Record, which stands for the snapshot metadata. *)
LEMMA RecordNotChunk == Record \notin Chunk
  BY SnapshotAssumption DEF Record

(* A chunk below the count of its file is a chunk of the instance. *)
LEMMA BelowCountIsChunk ==
  ASSUME NEW f \in File, NEW s \in 0 .. MaxSize, NEW i \in Nat, i < NumChunks(s)
  PROVE  <<f, i>> \in Chunk
<1>0. s \in Nat /\ MaxSize \in Nat /\ s <= MaxSize
  BY SnapshotAssumption
<1>1. NumChunks(s) <= NumChunks(MaxSize)
  BY <1>0, NumChunksMonotone
<1>2. NumChunks(s) \in Nat /\ NumChunks(MaxSize) \in Nat
  BY <1>0, NumChunksBounds
<1>. QED  BY <1>1, <1>2

(* What c.Data() leaves in memory fits in a chunk. *)
LEMMA ReadableType ==
  ASSUME TypeOK, NEW f \in File, NEW i \in Nat
  PROVE  Readable(f, i) \subseteq {ReadFailed} \cup 0 .. ChunkSize
<1>0. size[f] \in Nat
  BY SnapshotAssumption DEF TypeOK
<1>1. SectionSize(size[f], i) \in 1 .. ChunkSize
  BY <1>0, SectionSizeBounds
<1>2. src[f] \in Nat /\ Offset(i) \in Nat
  BY ChunkSizeAssumption, SnapshotAssumption DEF TypeOK, Offset
<1>. QED  BY <1>1, <1>2, ChunkSizeAssumption DEF Readable, Least

(* Append adds one occurrence of its element and none of another. *)
LEMMA TimesAppend ==
  ASSUME NEW q \in Seq(Chunk), NEW c \in Chunk, NEW d \in Chunk
  PROVE  /\ Times(c, q) \in Nat
         /\ Times(c, Append(q, d)) = Times(c, q) + (IF c = d THEN 1 ELSE 0)
<1>. DEFINE S == {k \in DOMAIN q : q[k] = c}
            T == {k \in DOMAIN Append(q, d) : Append(q, d)[k] = c}
<1>1. /\ Len(q) \in Nat
      /\ DOMAIN q = 1 .. Len(q)
      /\ DOMAIN Append(q, d) = 1 .. Len(q) + 1
      /\ \A k \in 1 .. Len(q) : Append(q, d)[k] = q[k]
      /\ Append(q, d)[Len(q) + 1] = d
  OBVIOUS
<1>2. IsFiniteSet(S) /\ Cardinality(S) \in Nat
  <2>1. IsFiniteSet(1 .. Len(q)) /\ S \in SUBSET (1 .. Len(q))
    BY <1>1, FS_Interval
  <2>. QED  BY <2>1, FS_Subset, FS_CardinalityType
<1>3. CASE c = d
  <2>1. T = S \cup {Len(q) + 1} /\ Len(q) + 1 \notin S
    BY <1>1, <1>3
  <2>. QED  BY <2>1, <1>2, <1>3, FS_AddElement DEF Times
<1>4. CASE c # d
  <2>1. T = S
    BY <1>1, <1>4
  <2>2. Times(c, Append(q, d)) = Times(c, q)
    BY <2>1 DEF Times
  <2>3. Times(c, q) \in Nat
    BY <1>2 DEF Times
  <2>. QED  BY <2>2, <2>3, <1>4
<1>. QED  BY <1>3, <1>4
-----------------------------------------------------------------------------
(* The initial states.                                                     *)

(* Snapshot starts in the invariant. *)
LEMMA InitIInv == Init => IInv
<1>. SUFFICES ASSUME Init PROVE IInv
  OBVIOUS
<1>1. Splitting = {} /\ Pending = {} /\ InFlight = {}
  BY DEF Init, Splitting, Pending, InFlight
<1>2. \A c \in Chunk : HashOf(c) \in Hash
  BY DEF HashOf
<1>3. TypeOK
  <2>1. MaxChunks \in Nat /\ MaxSize \in Nat /\ NumFiles \in Nat
    BY SnapshotAssumption, NumChunksBounds
  <2>2. Pool!TypeOK
    BY SnapshotAssumption DEF Init, Pool!New, Pool!TypeOK,
       Pool!Permits, Pool!DefaultPermits
  <2>3. /\ size \in [File -> 0 .. MaxSize]
        /\ src \in [File -> 0 .. MaxSize]
        /\ idx \in [File -> 0 .. MaxChunks]
        /\ value \in [Chunk -> {ReadFailed} \cup 0 .. ChunkSize]
        /\ stored \in [Chunk -> 0 .. ChunkSize]
    BY <2>1, ChunkSizeAssumption DEF Init
  <2>4. /\ seen \in [Chunk -> Seq(Chunk)]
        /\ chunkMap \in [Hash -> Seq(Chunk)]
    BY DEF Init
  <2>. QED  BY <2>1, <2>2, <2>3, <2>4 DEF Init, TypeOK, SplitStates, WriterStates
<1>4. SplitInv
  BY SnapshotAssumption DEF Init, SplitInv
<1>5. WriterInv
  BY NumChunksBounds, SnapshotAssumption DEF Init, WriterInv
<1>6. WaitGroupCounts
  BY <1>1, FS_EmptySet DEF Init, WaitGroupCounts
<1>7. QuietInv
  BY DEF Init, QuietInv, Waited
<1>8. LockInv
  BY FreeNotChunk DEF Init, LockInv
<1>9. RecordedOnce
  <2>1. ASSUME NEW c \in Chunk  PROVE Times(c, chunkMap[HashOf(c)]) = 0
    <3>1. chunkMap[HashOf(c)] = <<>>
      BY <1>2 DEF Init
    <3>2. {k \in DOMAIN <<>> : <<>>[k] = c} = {}
      OBVIOUS
    <3>. QED  BY <3>1, <3>2, FS_EmptySet DEF Times
  <2>2. \A c \in Chunk : writer[c] = "none"
    BY DEF Init
  <2>. QED  BY <2>1, <2>2 DEF RecordedOnce
<1>10. DiskInv
  BY DEF Init, DiskInv
<1>11. CommitInv
  BY DEF Init, CommitInv
<1>. QED  BY <1>3, <1>4, <1>5, <1>6, <1>7, <1>8, <1>9, <1>10, <1>11 DEF IInv
-----------------------------------------------------------------------------
(* Each part of IInv is preserved by every step.                           *)

(* The chunk a split is working on is a chunk of the instance. *)
LEMMA CurrentChunk ==
  ASSUME TypeOK, NEW f \in File, idx[f] < NumChunks(size[f])
  PROVE  /\ <<f, idx[f]>> \in Chunk
         /\ idx[f] + 1 \in 0 .. MaxChunks
<1>1. size[f] \in 0 .. MaxSize /\ idx[f] \in Nat
  BY NumChunksBounds, SnapshotAssumption DEF TypeOK
<1>2. <<f, idx[f]>> \in Chunk
  BY <1>1, BelowCountIsChunk
<1>3. idx[f] \in 0 .. MaxChunks - 1 /\ MaxChunks \in Nat
  BY <1>2, NumChunksBounds, SnapshotAssumption
<1>. QED  BY <1>2, <1>3

(* The steps of a writer leave the loop and the splits alone. *)
LEMMA WriterStepFrame ==
  ASSUME NEW c \in Chunk, WriterStep(c)
  PROVE  /\ main' = main \/ main' = "exit"
         /\ UNCHANGED <<cursor, size, src, split, idx, value>>
<1>1. CASE OpenChunk(c)  BY <1>1 DEF OpenChunk
<1>2. CASE WriteChunk(c) \/ WriteChunkShort(c)
  BY <1>2 DEF WriteChunk, WriteChunkShort
<1>3. CASE PutChunkMeta(c) \/ PutChunkMetaShort(c)
  BY <1>3 DEF PutChunkMeta, PutChunkMetaShort
<1>4. CASE PutFails(c)  BY <1>4 DEF PutFails
<1>5. CASE LockState(c)  BY <1>5 DEF LockState
<1>6. CASE LoadSections(c)  BY <1>6 DEF LoadSections
<1>7. CASE StoreSections(c)  BY <1>7 DEF StoreSections
<1>8. CASE WriterDone(c)  BY <1>8 DEF WriterDone
<1>9. CASE WriterReleases(c)  BY <1>9 DEF WriterReleases
<1>. QED  BY <1>1, <1>2, <1>3, <1>4, <1>5, <1>6, <1>7, <1>8, <1>9 DEF WriterStep

(* Writers stay below the index of their split. *)
LEMMA WriterInvStep ==
  ASSUME IInv, [Next]_vars
  PROVE  WriterInv'
<1>1. /\ writer \in [Chunk -> WriterStates]
      /\ idx \in [File -> 0 .. MaxChunks]
      /\ MaxChunks \in Nat
      /\ WriterInv
  BY NumChunksBounds, SnapshotAssumption DEF IInv, TypeOK
<1>2. CASE MainStep
  BY <1>2, <1>1 DEF MainStep, Walk, WalkFails, SkipEntity, OpenFails, StartSplit,
     StartWait, WaitReturns, PutMetadata, PutMetadataShort, PutMetadataFails, WriterInv
<1>3. ASSUME NEW f \in File, SplitStep(f)  PROVE WriterInv'
  <2>1. CASE ReadChunk(f) \/ SplitReturns(f)
    BY <2>1, <1>1 DEF ReadChunk, SplitReturns, WriterInv
  <2>2. CASE StartWriter(f)
    <3>1. <<f, idx[f]>> \in Chunk
      <4>1. TypeOK /\ idx[f] < NumChunks(size[f])
        BY <2>2 DEF StartWriter, IInv, SplitInv
      <4>. QED  BY <4>1, CurrentChunk
    <3>2. /\ writer' = [writer EXCEPT ![<<f, idx[f]>>] = "data"]
          /\ idx' = [idx EXCEPT ![f] = @ + 1]
      BY <2>2 DEF StartWriter
    <3>3. ASSUME NEW c \in Chunk
          PROVE  writer'[c] = "none" <=> c[2] >= idx'[c[1]]
      <4>1. CASE c = <<f, idx[f]>>
        BY <4>1, <3>2, <1>1
      <4>2. CASE c[1] # f
        BY <4>2, <3>2, <1>1 DEF WriterInv
      <4>3. CASE c[1] = f /\ c[2] # idx[f]
        BY <4>3, <3>2, <1>1 DEF WriterInv
      <4>. QED  BY <4>1, <4>2, <4>3
    <3>. QED  BY <3>3 DEF WriterInv
  <2>. QED  BY <2>1, <2>2, <1>3 DEF SplitStep
<1>4. ASSUME NEW c \in Chunk, WriterStep(c)  PROVE WriterInv'
  <2>1. idx' = idx
    BY <1>4 DEF WriterStep, OpenChunk, WriteChunk, WriteChunkShort, PutChunkMeta,
       PutChunkMetaShort, PutFails, LockState, LoadSections, StoreSections,
       WriterDone, WriterReleases
  <2>2. \A d \in Chunk : writer'[d] = "none" <=> writer[d] = "none"
    BY <1>4, <1>1 DEF WriterStep, OpenChunk, WriteChunk, WriteChunkShort,
       PutChunkMeta, PutChunkMetaShort, PutFails, LockState, LoadSections,
       StoreSections, WriterDone, WriterReleases, Moves
  <2>. QED  BY <2>1, <2>2, <1>1 DEF WriterInv
<1>5. CASE Crash \/ (\E f \in File : Truncate(f)) \/ UNCHANGED vars
  BY <1>5, <1>1 DEF Crash, Truncate, vars, WriterInv
<1>. QED  BY <1>2, <1>3, <1>4, <1>5 DEF Next

(* The loop over the entities and the splits stay in step. *)
LEMMA SplitInvStep ==
  ASSUME IInv, [Next]_vars
  PROVE  SplitInv'
<1>1. /\ cursor \in 1 .. NumFiles + 1
      /\ NumFiles \in Nat
      /\ split \in [File -> SplitStates]
      /\ idx \in [File -> 0 .. MaxChunks]
      /\ size \in [File -> 0 .. MaxSize]
      /\ MaxChunks \in Nat
      /\ SplitInv
  BY NumChunksBounds, SnapshotAssumption DEF IInv, TypeOK
<1>2. \A n \in 0 .. MaxSize : NumChunks(n) \in Nat
  BY NumChunksBounds, SnapshotAssumption
<1>3. CASE MainStep
  <2>1. CASE Walk
    BY <2>1, <1>1, <1>2 DEF Walk, SplitInv
  <2>2. CASE WalkFails \/ StartWait \/ WaitReturns \/ PutMetadata \/ PutMetadataShort
          \/ PutMetadataFails
    BY <2>2, <1>1 DEF WalkFails, StartWait, WaitReturns, PutMetadata,
       PutMetadataShort, PutMetadataFails, SplitInv
  <2>3. CASE SkipEntity
    BY <2>3, <1>1 DEF SkipEntity, AtEntity, SplitInv
  <2>4. CASE OpenFails
    BY <2>4, <1>1 DEF OpenFails, AtEntity, SplitInv
  <2>5. CASE StartSplit
    BY <2>5, <1>1, <1>2 DEF StartSplit, AtEntity, SplitInv
  <2>. QED  BY <1>3, <2>1, <2>2, <2>3, <2>4, <2>5 DEF MainStep
<1>4. ASSUME NEW f \in File, SplitStep(f)  PROVE SplitInv'
  <2>1. CASE ReadChunk(f)
    BY <2>1, <1>1 DEF ReadChunk, MoreChunks, SplitInv
  <2>2. CASE StartWriter(f)
    <3>1. /\ split[f] = "acquire"
          /\ idx' = [idx EXCEPT ![f] = @ + 1]
          /\ split' = [split EXCEPT ![f] = "read"]
          /\ UNCHANGED <<main, cursor, size>>
      BY <2>2 DEF StartWriter
    <3>2. idx[f] < NumChunks(size[f]) /\ NumChunks(size[f]) \in Nat /\ ~(f >= cursor)
      BY <3>1, <1>1, <1>2 DEF SplitInv
    <3>3. idx'[f] <= NumChunks(size'[f]) /\ split'[f] = "read"
      BY <3>1, <3>2, <1>1
    <3>4. \A g \in File : g # f => idx'[g] = idx[g] /\ split'[g] = split[g]
      BY <3>1, <1>1
    <3>. QED  BY <3>1, <3>2, <3>3, <3>4, <1>1 DEF SplitInv
  <2>3. CASE SplitReturns(f)
    BY <2>3, <1>1, <1>2, SMTT(40) DEF SplitReturns, MoreChunks, SplitInv
  <2>. QED  BY <1>4, <2>1, <2>2, <2>3 DEF SplitStep
<1>5. ASSUME NEW c \in Chunk, WriterStep(c)  PROVE SplitInv'
  <2>1. /\ main' = main \/ main' = "exit"
        /\ UNCHANGED <<cursor, size, split, idx>>
    BY <1>5, WriterStepFrame
  <2>. QED  BY <2>1, <1>1 DEF SplitInv
<1>6. CASE Crash \/ (\E f \in File : Truncate(f)) \/ UNCHANGED vars
  BY <1>6, <1>1 DEF Crash, Truncate, vars, SplitInv
<1>. QED  BY <1>3, <1>4, <1>5, <1>6 DEF Next

(* The goroutines that s.wg counts are finitely many. *)
LEMMA PendingFinite == IsFiniteSet(Pending) /\ IsFiniteSet(Splitting)
<1>1. Pending \in SUBSET Chunk /\ Splitting \in SUBSET File
  BY DEF Pending, Splitting
<1>. QED  BY <1>1, ChunkFinite, FileFinite, FS_Subset

(* wg moves with the goroutines it counts. *)
LEMMA WaitGroupStep ==
  ASSUME IInv, [Next]_vars
  PROVE  WaitGroupCounts'
<1>. DEFINE W == WriterStates \ {"none", "release", "gone"}
<1>1. /\ writer \in [Chunk -> WriterStates]
      /\ split \in [File -> SplitStates]
      /\ idx \in [File -> 0 .. MaxChunks]
      /\ MaxChunks \in Nat
      /\ WriterInv
      /\ wg = Cardinality(Splitting) + Cardinality(Pending)
      /\ Cardinality(Splitting) \in Nat /\ Cardinality(Pending) \in Nat
  BY NumChunksBounds, SnapshotAssumption, PendingFinite, FS_CardinalityType
     DEF IInv, TypeOK, WaitGroupCounts
<1>2. ASSUME wg' = wg, Splitting' = Splitting, Pending' = Pending
      PROVE  WaitGroupCounts'
  BY <1>1, <1>2 DEF WaitGroupCounts
<1>3. CASE UNCHANGED <<wg, split, idx, writer>>
  BY <1>3, <1>2 DEF Splitting, Pending
<1>4. CASE StartSplit
  <2>1. /\ cursor \in File
        /\ split[cursor] = "none"
        /\ wg' = wg + 1
        /\ split' = [split EXCEPT ![cursor] = "read"]
        /\ UNCHANGED <<writer, idx>>
    BY <1>4 DEF StartSplit, AtEntity, IInv, SplitInv, TypeOK
  <2>2. Splitting' = Splitting \cup {cursor} /\ cursor \notin Splitting
    BY <2>1, <1>1 DEF Splitting
  <2>3. Pending' = Pending
    BY <2>1, <1>1 DEF Pending
  <2>4. Cardinality(Splitting') = Cardinality(Splitting) + 1
    BY <2>2, PendingFinite, FS_AddElement
  <2>. QED  BY <2>1, <2>3, <2>4, <1>1 DEF WaitGroupCounts
<1>5. ASSUME NEW f \in File, ReadChunk(f)  PROVE WaitGroupCounts'
  <2>. DEFINE c == <<f, idx[f]>>
  <2>1. /\ split[f] = "read"
        /\ wg' = wg + 1
        /\ split' = [split EXCEPT ![f] = "acquire"]
        /\ UNCHANGED <<writer, idx>>
        /\ c \in Chunk
    BY <1>5, CurrentChunk DEF ReadChunk, MoreChunks, IInv
  <2>2. Splitting' = Splitting
    BY <2>1, <1>1 DEF Splitting
  <2>3. writer[c] = "none"
    BY <2>1, <1>1 DEF WriterInv
  <2>4. Pending' = Pending \cup {c} /\ c \notin Pending
    BY <2>1, <2>3, <1>1 DEF Pending
  <2>5. Cardinality(Pending') = Cardinality(Pending) + 1
    BY <2>4, PendingFinite, FS_AddElement
  <2>. QED  BY <2>1, <2>2, <2>5, <1>1 DEF WaitGroupCounts
<1>6. ASSUME NEW f \in File, StartWriter(f)  PROVE WaitGroupCounts'
  <2>. DEFINE c == <<f, idx[f]>>
  <2>1. /\ split[f] = "acquire"
        /\ split' = [split EXCEPT ![f] = "read"]
        /\ writer' = [writer EXCEPT ![c] = "data"]
        /\ idx' = [idx EXCEPT ![f] = @ + 1]
        /\ wg' = wg
    BY <1>6 DEF StartWriter
  <2>2. c \in Chunk
    BY <2>1, CurrentChunk DEF IInv, SplitInv
  <2>3. Splitting' = Splitting
    BY <2>1, <1>1 DEF Splitting
  <2>4. ASSUME NEW d \in Chunk  PROVE d \in Pending' <=> d \in Pending
    BY <2>1, <2>2, <2>4, <1>1 DEF Pending, WriterStates
  <2>5. Pending' = Pending
    BY <2>4 DEF Pending
  <2>. QED  BY <2>1, <2>3, <2>5, <1>2
<1>7. ASSUME NEW f \in File, SplitReturns(f)  PROVE WaitGroupCounts'
  <2>1. /\ split[f] = "read"
        /\ split' = [split EXCEPT ![f] = "done"]
        /\ wg' = wg - 1
        /\ UNCHANGED <<writer, idx>>
    BY <1>7 DEF SplitReturns
  <2>2. Splitting' = Splitting \ {f} /\ f \in Splitting
    BY <2>1, <1>1 DEF Splitting
  <2>3. Pending' = Pending
    BY <2>1, <1>1 DEF Pending
  <2>4. Cardinality(Splitting') = Cardinality(Splitting) - 1
    BY <2>2, PendingFinite, FS_RemoveElement
  <2>. QED  BY <2>1, <2>3, <2>4, <1>1 DEF WaitGroupCounts
<1>8. ASSUME NEW c \in Chunk, NEW from \in W, NEW to \in W, Moves(c, from, to),
             UNCHANGED <<wg, split, idx>>
      PROVE  WaitGroupCounts'
  <2>1. Splitting' = Splitting
    BY <1>8 DEF Splitting
  <2>2. Pending' = Pending
    BY <1>8, <1>1 DEF Moves, Pending
  <2>. QED  BY <1>8, <2>1, <2>2, <1>2
<1>9. ASSUME NEW c \in Chunk, WriterDone(c)  PROVE WaitGroupCounts'
  <2>1. /\ writer[c] = "done"
        /\ writer' = [writer EXCEPT ![c] = "release"]
        /\ wg' = wg - 1
        /\ UNCHANGED <<split, idx>>
    BY <1>9 DEF WriterDone, Moves
  <2>2. idx[c[1]] # c[2]
    BY <2>1, <1>1 DEF WriterInv
  <2>3. Pending' = Pending \ {c} /\ c \in Pending
    BY <2>1, <2>2, <1>1, SMTT(40) DEF Pending, WriterStates
  <2>4. Splitting' = Splitting
    BY <2>1 DEF Splitting
  <2>5. Cardinality(Pending') = Cardinality(Pending) - 1
    BY <2>3, PendingFinite, FS_RemoveElement
  <2>. QED  BY <2>1, <2>4, <2>5, <1>1 DEF WaitGroupCounts
<1>10. ASSUME NEW c \in Chunk, WriterReleases(c)  PROVE WaitGroupCounts'
  <2>1. /\ writer[c] = "release"
        /\ writer' = [writer EXCEPT ![c] = "gone"]
        /\ UNCHANGED <<wg, split, idx>>
    BY <1>10 DEF WriterReleases, Moves
  <2>2. Pending' = Pending
    BY <2>1, <1>1 DEF Pending
  <2>3. Splitting' = Splitting
    BY <2>1 DEF Splitting
  <2>. QED  BY <2>1, <2>2, <2>3, <1>2
<1>11. ASSUME NEW c \in Chunk, WriterStep(c)  PROVE WaitGroupCounts'
  <2>1. CASE OpenChunk(c)
    BY <2>1, <1>8 DEF OpenChunk, WriterStates
  <2>2. CASE WriteChunk(c) \/ WriteChunkShort(c)
    BY <2>2, <1>8 DEF WriteChunk, WriteChunkShort, WriterStates
  <2>3. CASE PutChunkMeta(c) \/ PutChunkMetaShort(c)
    BY <2>3, <1>8 DEF PutChunkMeta, PutChunkMetaShort, WriterStates
  <2>4. CASE PutFails(c)
    BY <2>4, <1>3 DEF PutFails
  <2>5. CASE LockState(c)
    BY <2>5, <1>8 DEF LockState, WriterStates
  <2>6. CASE LoadSections(c)
    BY <2>6, <1>8 DEF LoadSections, WriterStates
  <2>7. CASE StoreSections(c)
    BY <2>7, <1>8 DEF StoreSections, WriterStates
  <2>. QED
    BY <1>11, <2>1, <2>2, <2>3, <2>4, <2>5, <2>6, <2>7, <1>9, <1>10 DEF WriterStep
<1>12. CASE MainStep
  BY <1>12, <1>3, <1>4 DEF MainStep, Walk, WalkFails, SkipEntity, OpenFails,
     StartWait, WaitReturns, PutMetadata, PutMetadataShort, PutMetadataFails
<1>13. CASE Crash \/ (\E f \in File : Truncate(f)) \/ UNCHANGED vars
  BY <1>13, <1>3 DEF Crash, Truncate, vars
<1>. QED  BY <1>5, <1>6, <1>7, <1>11, <1>12, <1>13 DEF Next, SplitStep

(* wg stays a natural because it counts; the rest of TypeOK moves with its *)
(* own variables.                                                          *)
LEMMA TypeStep ==
  ASSUME IInv, [Next]_vars
  PROVE  TypeOK'
<1>. USE SnapshotAssumption
<1>1. TypeOK
  BY DEF IInv
<1>2. wg' \in Nat
  <2>1. IsFiniteSet(Pending') /\ IsFiniteSet(Splitting')
    <3>1. Pending' \in SUBSET Chunk /\ Splitting' \in SUBSET File
      BY DEF Pending, Splitting
    <3>. QED  BY <3>1, ChunkFinite, FileFinite, FS_Subset
  <2>. QED  BY <2>1, WaitGroupStep, FS_CardinalityType DEF WaitGroupCounts
<1>. DEFINE NothingBad ==
       /\ main' \in {"walk", "open", "wait", "put", "ok", "error", "exit"}
       /\ cursor' \in 1 .. NumFiles + 1
       /\ size' \in [File -> 0 .. MaxSize]
       /\ src' \in [File -> 0 .. MaxSize]
       /\ split' \in [File -> SplitStates]
       /\ idx' \in [File -> 0 .. MaxChunks]
       /\ value' \in [Chunk -> {ReadFailed} \cup 0 .. ChunkSize]
       /\ writer' \in [Chunk -> WriterStates]
     Lists ==
       /\ seen' \in [Chunk -> Seq(Chunk)]
       /\ chunkMap' \in [Hash -> Seq(Chunk)]
     Locks ==
       /\ lock' \in Chunk \cup {Free}
       /\ Pool!TypeOK'
     Disk ==
       /\ stored' \in [Chunk -> 0 .. ChunkSize]
       /\ chunkMeta' \subseteq Chunk
       /\ metadata' \in [size : [File -> 0 .. MaxSize],
                         chunkMap : [Hash -> Seq(Chunk)]] \cup {NoMetadata}
       /\ cut' \subseteq Chunk \cup {Record}
<1>3. ASSUME NothingBad, Lists, Locks, Disk  PROVE TypeOK'
  BY <1>2, <1>3 DEF TypeOK
<1>4. CASE MainStep
  <2>1. CASE Walk
    <3>1. NothingBad
      BY <2>1, <1>1 DEF Walk, TypeOK
    <3>2. Lists /\ Locks /\ Disk
      BY <2>1, <1>1 DEF Walk, TypeOK, Pool!TypeOK, disk
    <3>. QED  BY <3>1, <3>2, <1>3
  <2>2. CASE WalkFails \/ StartWait \/ WaitReturns \/ PutMetadataFails
    <3>1. NothingBad
      BY <2>2, <1>1 DEF WalkFails, StartWait, WaitReturns, PutMetadataFails, TypeOK
    <3>2. Lists /\ Locks /\ Disk
      BY <2>2, <1>1 DEF WalkFails, StartWait, WaitReturns, PutMetadataFails,
         TypeOK, Pool!TypeOK, disk
    <3>. QED  BY <3>1, <3>2, <1>3
  <2>3. CASE SkipEntity \/ OpenFails \/ StartSplit
    <3>1. cursor \in File /\ cursor' = cursor + 1
      BY <2>3 DEF SkipEntity, OpenFails, StartSplit, AtEntity
    <3>2. size' \in [File -> 0 .. MaxSize] /\ split' \in [File -> SplitStates]
      <4>1. CASE SkipEntity
        BY <4>1, <1>1 DEF SkipEntity, TypeOK
      <4>2. CASE OpenFails
        <5>1. size \in [File -> 0 .. MaxSize] /\ split \in [File -> SplitStates]
          BY <1>1 DEF TypeOK
        <5>2. size' = [size EXCEPT ![cursor] = 0] /\ split' = split
          BY <4>2 DEF OpenFails
        <5>3. 0 \in 0 .. MaxSize
          BY SnapshotAssumption
        <5>4. size' \in [File -> 0 .. MaxSize]
          BY <5>1, <5>2, <5>3
        <5>. QED  BY <5>1, <5>2, <5>4
      <4>3. CASE StartSplit
        BY <4>3, <1>1 DEF StartSplit, TypeOK, SplitStates
      <4>. QED  BY <2>3, <4>1, <4>2, <4>3
    <3>. HIDE DEF NothingBad
    <3>4. NothingBad
      <4>1. UNCHANGED <<main, src, idx, value, writer>>
        BY <2>3 DEF SkipEntity, OpenFails, StartSplit
      <4>2. cursor' \in 1 .. NumFiles + 1
        BY <3>1
      <4>. QED  BY <4>1, <4>2, <3>2, <1>1 DEF TypeOK, NothingBad
    <3>3. Lists /\ Locks /\ Disk
      BY <2>3, <1>1 DEF SkipEntity, OpenFails, StartSplit, TypeOK, Pool!TypeOK, disk
    <3>. QED  BY <3>3, <3>4, <1>3
  <2>4. CASE PutMetadata
    <3>1. NothingBad
      BY <2>4, <1>1 DEF PutMetadata, TypeOK
    <3>2. Lists /\ Locks /\ Disk
      BY <2>4, <1>1 DEF PutMetadata, TypeOK, Pool!TypeOK
    <3>. QED  BY <3>1, <3>2, <1>3
  <2>5. CASE PutMetadataShort
    <3>1. NothingBad
      BY <2>5, <1>1 DEF PutMetadataShort, TypeOK
    <3>2. Lists /\ Locks /\ Disk
      BY <2>5, <1>1 DEF PutMetadataShort, TypeOK, Pool!TypeOK
    <3>. QED  BY <3>1, <3>2, <1>3
  <2>. QED  BY <1>4, <2>1, <2>2, <2>3, <2>4, <2>5 DEF MainStep
<1>5. ASSUME NEW f \in File, SplitStep(f)  PROVE TypeOK'
  <2>1. CASE ReadChunk(f)
    <3>1. <<f, idx[f]>> \in Chunk
      BY <2>1, <1>1, CurrentChunk DEF ReadChunk, MoreChunks
    <3>2. idx[f] \in Nat
      BY <3>1
    <3>3. PICK v \in Readable(f, idx[f]) : value' = [value EXCEPT ![<<f, idx[f]>>] = v]
      BY <2>1 DEF ReadChunk
    <3>4. v \in {ReadFailed} \cup 0 .. ChunkSize
      BY <3>2, <3>3, <1>1, ReadableType
    <3>5. value' \in [Chunk -> {ReadFailed} \cup 0 .. ChunkSize]
      BY <3>1, <3>3, <3>4, <1>1 DEF TypeOK
    <3>6. NothingBad
      BY <2>1, <3>5, <1>1 DEF ReadChunk, TypeOK, SplitStates
    <3>7. Lists /\ Locks /\ Disk
      BY <2>1, <1>1 DEF ReadChunk, TypeOK, Pool!TypeOK, disk
    <3>. QED  BY <3>6, <3>7, <1>3
  <2>2. CASE StartWriter(f)
    <3>1. idx[f] + 1 \in 0 .. MaxChunks
      BY <2>2, <1>1, CurrentChunk DEF StartWriter, IInv, SplitInv
    <3>2. NothingBad
      BY <2>2, <3>1, <1>1 DEF StartWriter, TypeOK, SplitStates, WriterStates
    <3>3. sem' \in 0 .. Pool!Permits
      BY <2>2, <1>1, SMTT(40) DEF StartWriter, TypeOK, Pool!TypeOK, Pool!Acquire,
         Pool!Permits, Pool!DefaultPermits
    <3>4. Lists /\ Locks /\ Disk
      BY <2>2, <3>3, <1>1 DEF StartWriter, TypeOK, Pool!TypeOK, disk
    <3>. QED  BY <3>2, <3>4, <1>3
  <2>3. CASE SplitReturns(f)
    <3>1. NothingBad
      BY <2>3, <1>1 DEF SplitReturns, TypeOK, SplitStates
    <3>2. Lists /\ Locks /\ Disk
      BY <2>3, <1>1 DEF SplitReturns, TypeOK, Pool!TypeOK, disk
    <3>. QED  BY <3>1, <3>2, <1>3
  <2>. QED  BY <1>5, <2>1, <2>2, <2>3 DEF SplitStep
<1>6. ASSUME NEW c \in Chunk, WriterStep(c)  PROVE TypeOK'
  <2>1. NothingBad
    <3>1. writer' \in [Chunk -> WriterStates]
      BY <1>6, <1>1, ZenonT(60) DEF WriterStep, OpenChunk, WriteChunk,
         WriteChunkShort, PutChunkMeta, PutChunkMetaShort, PutFails, LockState,
         LoadSections, StoreSections, WriterDone, WriterReleases, Moves, TypeOK,
         WriterStates
    <3>. QED  BY <3>1, <1>6, <1>1, WriterStepFrame DEF TypeOK
  <2>2. CASE OpenChunk(c) \/ WriteChunk(c)
    <3>1. stored' \in [Chunk -> 0 .. ChunkSize]
      <4>0. /\ stored \in [Chunk -> 0 .. ChunkSize]
            /\ value \in [Chunk -> {ReadFailed} \cup 0 .. ChunkSize]
        BY <1>1 DEF TypeOK
      <4>1. /\ stored \in [Chunk -> 0 .. ChunkSize]
            /\ value[c] = ReadFailed \/ value[c] \in 0 .. ChunkSize
            /\ 0 \in 0 .. ChunkSize
        BY <4>0, ChunkSizeAssumption
      <4>2. \/ stored' = stored
            \/ stored' = [stored EXCEPT ![c] = 0]
            \/ stored' = [stored EXCEPT ![c] = value[c]] /\ value[c] # ReadFailed
        BY <2>2 DEF OpenChunk, WriteChunk
      <4>. QED  BY <4>1, <4>2
    <3>2. Lists /\ Locks /\ Disk
      BY <2>2, <3>1, <1>1 DEF OpenChunk, WriteChunk, TypeOK, Pool!TypeOK
    <3>. QED  BY <2>1, <3>2, <1>3
  <2>3. CASE \/ WriteChunkShort(c) \/ PutChunkMeta(c) \/ PutChunkMetaShort(c)
             \/ PutFails(c) \/ WriterDone(c)
    <3>1. Lists /\ Locks /\ Disk
      BY <2>3, <1>1 DEF WriteChunkShort, PutChunkMeta, PutChunkMetaShort, PutFails,
         WriterDone, TypeOK, Pool!TypeOK, disk
    <3>. QED  BY <2>1, <3>1, <1>3
  <2>4. CASE LockState(c) \/ LoadSections(c)
    <3>1. HashOf(c) \in Hash
      BY DEF HashOf
    <3>2. Lists
      BY <2>4, <3>1, <1>1 DEF LockState, LoadSections, TypeOK
    <3>3. Locks /\ Disk
      BY <2>4, <1>1 DEF LockState, LoadSections, TypeOK, Pool!TypeOK, disk
    <3>. QED  BY <2>1, <3>2, <3>3, <1>3
  <2>5. CASE StoreSections(c)
    <3>1. seen[c] \in Seq(Chunk)
      BY <1>1 DEF TypeOK
    <3>2. Append(seen[c], c) \in Seq(Chunk)
      BY <3>1
    <3>3. Lists
      <4>1. /\ seen' = [seen EXCEPT ![c] = <<>>]
            /\ chunkMap' = [chunkMap EXCEPT ![HashOf(c)] = Append(seen[c], c)]
        BY <2>5 DEF StoreSections
      <4>2. <<>> \in Seq(Chunk)
        OBVIOUS
      <4>3. seen' \in [Chunk -> Seq(Chunk)]
        BY <4>1, <4>2, <1>1 DEF TypeOK
      <4>4. chunkMap' \in [Hash -> Seq(Chunk)]
        BY <4>1, <3>2, <1>1 DEF TypeOK
      <4>. QED  BY <4>3, <4>4
    <3>4. Locks /\ Disk
      BY <2>5, <1>1 DEF StoreSections, TypeOK, Pool!TypeOK, disk
    <3>. QED  BY <2>1, <3>3, <3>4, <1>3
  <2>6. CASE WriterReleases(c)
    <3>1. sem' \in 0 .. Pool!Permits
      BY <2>6, <1>1 DEF WriterReleases, TypeOK, Pool!TypeOK, Pool!Release,
         Pool!Permits, Pool!DefaultPermits
    <3>2. Lists /\ Locks /\ Disk
      BY <2>6, <3>1, <1>1 DEF WriterReleases, TypeOK, Pool!TypeOK, disk
    <3>. QED  BY <2>1, <3>2, <1>3
  <2>. QED  BY <1>6, <2>2, <2>3, <2>4, <2>5, <2>6 DEF WriterStep
<1>7. CASE Crash \/ (\E f \in File : Truncate(f)) \/ UNCHANGED vars
  <2>1. NothingBad
    BY <1>7, <1>1, ZenonT(60) DEF Crash, Truncate, vars, TypeOK
  <2>2. Lists /\ Locks /\ Disk
    BY <1>7, <1>1 DEF Crash, Truncate, vars, TypeOK, Pool!TypeOK, disk
  <2>. QED  BY <2>1, <2>2, <1>3
<1>. QED  BY <1>4, <1>5, <1>6, <1>7 DEF Next

(* All that a writer does before its Release, it does before its Done. *)
LEMMA WorkingIsPending ==
  ASSUME NEW c \in Chunk, WriterStep(c), ~WriterReleases(c)
  PROVE  c \in Pending
<1>1. writer[c] \in {"data", "write", "meta", "lock", "load", "store", "done"}
  BY DEF WriterStep, OpenChunk, WriteChunk, WriteChunkShort, PutChunkMeta,
     PutChunkMetaShort, PutFails, LockState, LoadSections, StoreSections, WriterDone,
     Moves
<1>. QED  BY <1>1 DEF Pending, WriterStates

(* Nothing is left to run, but for the Releases, once Wait has returned.   *)
LEMMA QuietStep ==
  ASSUME IInv, [Next]_vars
  PROVE  QuietInv'
<1>1. /\ writer \in [Chunk -> WriterStates]
      /\ split \in [File -> SplitStates]
      /\ idx \in [File -> 0 .. MaxChunks] /\ MaxChunks \in Nat
      /\ QuietInv /\ SplitInv /\ WriterInv
  BY NumChunksBounds, SnapshotAssumption DEF IInv, TypeOK
<1>2. ASSUME UNCHANGED <<split, idx, writer>>, Waited' => Waited
      PROVE  QuietInv'
  BY <1>1, <1>2 DEF QuietInv, Splitting, Pending
<1>3. ASSUME ~Waited'  PROVE QuietInv'
  BY <1>3 DEF QuietInv
<1>4. CASE MainStep
  <2>1. CASE Walk \/ SkipEntity \/ OpenFails \/ StartSplit \/ StartWait
    BY <2>1, <1>3 DEF Walk, SkipEntity, OpenFails, StartSplit, StartWait, AtEntity,
       Waited
  <2>2. CASE WaitReturns
    <3>1. wg = 0 /\ UNCHANGED <<split, idx, writer>>
      BY <2>2 DEF WaitReturns
    <3>2. Cardinality(Splitting) \in Nat /\ Cardinality(Pending) \in Nat
      BY PendingFinite, FS_CardinalityType
    <3>3. Cardinality(Splitting) = 0 /\ Cardinality(Pending) = 0
      BY <3>1, <3>2 DEF IInv, WaitGroupCounts
    <3>4. Splitting = {} /\ Pending = {}
      BY <3>3, PendingFinite, FS_EmptySet
    <3>. QED  BY <3>1, <3>4 DEF QuietInv, Splitting, Pending
  <2>3. CASE PutMetadata \/ PutMetadataShort \/ PutMetadataFails
    BY <2>3, <1>2 DEF PutMetadata, PutMetadataShort, PutMetadataFails, Waited
  <2>4. CASE WalkFails
    <3>1. main = "walk" /\ UNCHANGED <<split, idx, writer>>
      BY <2>4 DEF WalkFails
    <3>2. \A f \in File : split[f] = "none" /\ idx[f] = 0
      BY <3>1, <1>1, SnapshotAssumption DEF SplitInv
    <3>3. \A c \in Chunk : writer[c] = "none" /\ split[c[1]] # "acquire"
      BY <3>2, <1>1 DEF WriterInv
    <3>4. Splitting = {} /\ Pending = {}
      BY <3>2, <3>3 DEF Splitting, Pending
    <3>. QED  BY <3>1, <3>4 DEF QuietInv, Splitting, Pending
  <2>. QED  BY <1>4, <2>1, <2>2, <2>3, <2>4 DEF MainStep
<1>5. ASSUME NEW f \in File, SplitStep(f)  PROVE QuietInv'
  <2>1. split[f] \in {"read", "acquire"} /\ main' = main
    BY <1>5 DEF SplitStep, ReadChunk, StartWriter, SplitReturns
  <2>2. ~Waited
    BY <2>1, <1>1 DEF QuietInv, Splitting
  <2>. QED  BY <2>1, <2>2, <1>3 DEF Waited
<1>6. ASSUME NEW c \in Chunk, WriterStep(c)  PROVE QuietInv'
  <2>1. CASE PutFails(c)
    BY <2>1, <1>3 DEF PutFails, Waited
  <2>2. CASE WriterReleases(c)
    <3>1. /\ writer[c] = "release"
          /\ writer' = [writer EXCEPT ![c] = "gone"]
          /\ UNCHANGED <<main, split, idx>>
      BY <2>2 DEF WriterReleases, Moves
    <3>. QED  BY <3>1, <1>1 DEF QuietInv, Waited, Splitting, Pending
  <2>3. CASE ~PutFails(c) /\ ~WriterReleases(c)
    <3>1. ~Waited
      BY <1>1, <1>6, <2>3, WorkingIsPending DEF QuietInv
    <3>. QED  BY <3>1, <1>3, <1>6, WriterStepFrame DEF Waited
  <2>. QED  BY <2>1, <2>2, <2>3
<1>7. CASE Crash
  BY <1>7, <1>3 DEF Crash, Waited
<1>8. CASE (\E f \in File : Truncate(f)) \/ UNCHANGED vars
  BY <1>8, <1>2 DEF Truncate, vars, Waited
<1>. QED  BY <1>4, <1>5, <1>6, <1>7, <1>8 DEF Next

(* Between its read and its write the holder of stateLock is alone with    *)
(* the list of its hash.                                                   *)
LEMMA LockStep ==
  ASSUME IInv, [Next]_vars
  PROVE  LockInv'
<1>1. /\ writer \in [Chunk -> WriterStates]
      /\ seen \in [Chunk -> Seq(Chunk)]
      /\ chunkMap \in [Hash -> Seq(Chunk)]
      /\ lock \in Chunk \cup {Free}
      /\ LockInv
      /\ \A c \in Chunk : HashOf(c) \in Hash
  BY DEF IInv, TypeOK, HashOf
<1>2. ASSUME UNCHANGED <<lock, seen, chunkMap>>,
             \A c \in Chunk : (writer'[c] # writer[c] =>
               {writer'[c], writer[c]} \cap {"load", "store"} = {})
      PROVE  LockInv'
  BY <1>1, <1>2 DEF LockInv, HashOf
<1>3. CASE UNCHANGED <<lock, seen, chunkMap, writer>>
  BY <1>3, <1>2
<1>4. CASE MainStep
  BY <1>4, <1>3 DEF MainStep, Walk, WalkFails, SkipEntity, OpenFails, StartSplit,
     StartWait, WaitReturns, PutMetadata, PutMetadataShort, PutMetadataFails
<1>5. ASSUME NEW f \in File, SplitStep(f)  PROVE LockInv'
  <2>1. CASE ReadChunk(f) \/ SplitReturns(f)
    BY <2>1, <1>3 DEF ReadChunk, SplitReturns
  <2>2. CASE StartWriter(f)
    <3>1. /\ split[f] = "acquire"
          /\ writer' = [writer EXCEPT ![<<f, idx[f]>>] = "data"]
          /\ UNCHANGED <<lock, seen, chunkMap>>
      BY <2>2 DEF StartWriter
    <3>2. <<f, idx[f]>> \in Chunk
      BY <3>1, CurrentChunk DEF IInv, SplitInv
    <3>3. idx[f] \in Nat
      BY <3>2
    <3>4. writer[<<f, idx[f]>>] = "none"
      BY <3>2, <3>3 DEF IInv, WriterInv
    <3>. QED  BY <3>1, <3>2, <3>4, <1>1, <1>2
  <2>. QED  BY <1>5, <2>1, <2>2 DEF SplitStep
<1>6. ASSUME NEW c \in Chunk, WriterStep(c)  PROVE LockInv'
  <2>1. CASE OpenChunk(c)
    BY <2>1, <1>1, <1>2 DEF OpenChunk, Moves
  <2>2. CASE WriteChunk(c) \/ WriteChunkShort(c)
    BY <2>2, <1>1, <1>2 DEF WriteChunk, WriteChunkShort, Moves
  <2>3. CASE PutChunkMeta(c) \/ PutChunkMetaShort(c)
    BY <2>3, <1>1, <1>2 DEF PutChunkMeta, PutChunkMetaShort, Moves
  <2>4. CASE PutFails(c)
    BY <2>4, <1>3 DEF PutFails
  <2>5. CASE LockState(c)
    <3>1. /\ writer' = [writer EXCEPT ![c] = "load"]
          /\ lock = Free /\ lock' = c
          /\ UNCHANGED <<seen, chunkMap>>
      BY <2>5 DEF LockState, Moves
    <3>2. \A d \in Chunk : writer[d] \notin {"load", "store"}
      BY <3>1, <1>1, FreeNotChunk DEF LockInv
    <3>. QED  BY <3>1, <3>2, <1>1 DEF LockInv
  <2>6. CASE LoadSections(c)
    <3>1. /\ writer[c] = "load"
          /\ writer' = [writer EXCEPT ![c] = "store"]
          /\ seen' = [seen EXCEPT ![c] = chunkMap[HashOf(c)]]
          /\ UNCHANGED <<lock, chunkMap>>
      BY <2>6 DEF LoadSections, Moves
    <3>2. lock = c
      BY <3>1, <1>1 DEF LockInv
    <3>. QED  BY <3>1, <3>2, <1>1 DEF LockInv
  <2>7. CASE StoreSections(c)
    <3>1. /\ writer[c] = "store"
          /\ writer' = [writer EXCEPT ![c] = "done"]
          /\ lock' = Free
      BY <2>7 DEF StoreSections, Moves
    <3>2. lock = c
      BY <3>1, <1>1 DEF LockInv
    <3>3. \A d \in Chunk : writer'[d] \notin {"load", "store"}
      BY <3>1, <3>2, <1>1 DEF LockInv
    <3>. QED  BY <3>1, <3>3, FreeNotChunk DEF LockInv
  <2>8. CASE WriterDone(c)
    BY <2>8, <1>1, <1>2 DEF WriterDone, Moves
  <2>9. CASE WriterReleases(c)
    BY <2>9, <1>1, <1>2 DEF WriterReleases, Moves
  <2>. QED  BY <1>6, <2>1, <2>2, <2>3, <2>4, <2>5, <2>6, <2>7, <2>8, <2>9
            DEF WriterStep
<1>7. CASE Crash \/ (\E f \in File : Truncate(f)) \/ UNCHANGED vars
  BY <1>7, <1>3 DEF Crash, Truncate, vars
<1>. QED  BY <1>4, <1>5, <1>6, <1>7 DEF Next

(* An append made under the lock adds its own section and keeps the rest.  *)
LEMMA RecordedStep ==
  ASSUME IInv, [Next]_vars
  PROVE  RecordedOnce'
<1>. DEFINE Late == {"done", "release", "gone"}
<1>1. /\ writer \in [Chunk -> WriterStates]
      /\ chunkMap \in [Hash -> Seq(Chunk)]
      /\ RecordedOnce
      /\ \A c \in Chunk : HashOf(c) \in Hash
  BY DEF IInv, TypeOK, HashOf
<1>2. ASSUME chunkMap' = chunkMap,
             \A c \in Chunk : writer'[c] \in Late <=> writer[c] \in Late
      PROVE  RecordedOnce'
  BY <1>1, <1>2 DEF RecordedOnce, HashOf, Times
<1>3. CASE UNCHANGED <<chunkMap, writer>>
  BY <1>3, <1>2
<1>4. CASE MainStep
  BY <1>4, <1>3 DEF MainStep, Walk, WalkFails, SkipEntity, OpenFails, StartSplit,
     StartWait, WaitReturns, PutMetadata, PutMetadataShort, PutMetadataFails
<1>5. ASSUME NEW f \in File, SplitStep(f)  PROVE RecordedOnce'
  <2>1. CASE ReadChunk(f) \/ SplitReturns(f)
    BY <2>1, <1>3 DEF ReadChunk, SplitReturns
  <2>2. CASE StartWriter(f)
    <3>1. /\ split[f] = "acquire"
          /\ writer' = [writer EXCEPT ![<<f, idx[f]>>] = "data"]
          /\ chunkMap' = chunkMap
      BY <2>2 DEF StartWriter
    <3>2. <<f, idx[f]>> \in Chunk
      BY <3>1, CurrentChunk DEF IInv, SplitInv
    <3>3. idx[f] \in Nat
      BY <3>2
    <3>4. writer[<<f, idx[f]>>] = "none"
      BY <3>2, <3>3 DEF IInv, WriterInv
    <3>. QED  BY <3>1, <3>2, <3>4, <1>1, <1>2
  <2>. QED  BY <1>5, <2>1, <2>2 DEF SplitStep
<1>6. ASSUME NEW c \in Chunk, WriterStep(c)  PROVE RecordedOnce'
  <2>1. CASE \/ OpenChunk(c) \/ WriteChunk(c) \/ WriteChunkShort(c)
             \/ PutChunkMeta(c) \/ PutChunkMetaShort(c) \/ LockState(c)
             \/ LoadSections(c) \/ WriterDone(c) \/ WriterReleases(c)
    <3>1. /\ chunkMap' = chunkMap
          /\ \E from, to \in WriterStates :
               Moves(c, from, to) /\ (from \in Late <=> to \in Late)
      BY <2>1 DEF OpenChunk, WriteChunk, WriteChunkShort, PutChunkMeta,
         PutChunkMetaShort, LockState, LoadSections, WriterDone, WriterReleases,
         WriterStates
    <3>. QED  BY <3>1, <1>1, <1>2 DEF Moves
  <2>2. CASE PutFails(c)
    BY <2>2, <1>3 DEF PutFails
  <2>3. CASE StoreSections(c)
    <3>1. /\ writer[c] = "store"
          /\ writer' = [writer EXCEPT ![c] = "done"]
          /\ chunkMap' = [chunkMap EXCEPT ![HashOf(c)] = Append(seen[c], c)]
      BY <2>3 DEF StoreSections, Moves
    <3>2. seen[c] = chunkMap[HashOf(c)]
      BY <3>1 DEF IInv, LockInv
    <3>3. ASSUME NEW d \in Chunk
          PROVE  Times(d, chunkMap'[HashOf(d)]) =
                   IF writer'[d] \in Late THEN 1 ELSE 0
      <4>. DEFINE q == chunkMap[HashOf(d)]
      <4>1. q \in Seq(Chunk)
        BY <1>1
      <4>2. Times(d, q) = IF writer[d] \in Late THEN 1 ELSE 0
        BY <1>1 DEF RecordedOnce
      <4>3. CASE HashOf(d) # HashOf(c)
        <5>1. chunkMap'[HashOf(d)] = q /\ writer'[d] = writer[d]
          BY <4>3, <3>1, <1>1
        <5>. QED  BY <5>1, <4>2
      <4>4. CASE HashOf(d) = HashOf(c)
        <5>1. chunkMap'[HashOf(d)] = Append(q, c)
          BY <4>4, <3>1, <3>2, <1>1
        <5>2. Times(d, Append(q, c)) = Times(d, q) + (IF d = c THEN 1 ELSE 0)
          BY <4>1, TimesAppend
        <5>3. CASE d = c
          <6>1. Times(d, q) = 0 /\ writer'[d] = "done"
            BY <5>3, <4>2, <3>1, <1>1
          <6>. QED  BY <6>1, <5>1, <5>2, <5>3
        <5>4. CASE d # c
          <6>1. writer'[d] = writer[d]
            BY <5>4, <3>1, <1>1
          <6>. QED  BY <6>1, <4>2, <5>1, <5>2, <5>4
        <5>. QED  BY <5>3, <5>4
      <4>. QED  BY <4>3, <4>4
    <3>4. \A d \in Chunk : HashOf(d)' = HashOf(d)
      BY DEF HashOf
    <3>. QED  BY <3>3, <3>4 DEF RecordedOnce, HashOf
  <2>. QED  BY <1>6, <2>1, <2>2, <2>3 DEF WriterStep
<1>7. CASE Crash \/ (\E f \in File : Truncate(f)) \/ UNCHANGED vars
  BY <1>7, <1>3 DEF Crash, Truncate, vars
<1>. QED  BY <1>4, <1>5, <1>6, <1>7 DEF Next

(* The disk holds what each writer has written so far. *)
LEMMA DiskStep ==
  ASSUME IInv, [Next]_vars
  PROVE  DiskInv'
<1>1. /\ writer \in [Chunk -> WriterStates]
      /\ stored \in [Chunk -> 0 .. ChunkSize]
      /\ value \in [Chunk -> {ReadFailed} \cup 0 .. ChunkSize]
      /\ chunkMeta \subseteq Chunk
      /\ DiskInv
  BY DEF IInv, TypeOK
<1>2. ASSUME UNCHANGED <<stored, chunkMeta, cut>>,
             \A c \in Chunk : writer'[c] = writer[c],
             \A c \in Chunk : writer[c] # "none" => value'[c] = value[c]
      PROVE  DiskInv'
  BY <1>1, <1>2 DEF DiskInv, BytesOf
<1>3. CASE UNCHANGED <<stored, chunkMeta, cut, writer, value>>
  BY <1>3, <1>2
<1>4. CASE MainStep
  <2>1. CASE PutMetadataShort
    <3>1. /\ UNCHANGED <<stored, chunkMeta, writer, value>>
          /\ cut' = cut \cup {Record}
          /\ "write" \in Faults
      BY <2>1 DEF PutMetadataShort
    <3>. QED  BY <3>1, <1>1 DEF DiskInv, BytesOf
  <2>. QED
    BY <1>4, <1>3, <2>1 DEF MainStep, Walk, WalkFails, SkipEntity, OpenFails,
       StartSplit, StartWait, WaitReturns, PutMetadata, PutMetadataFails, disk
<1>5. ASSUME NEW f \in File, SplitStep(f)  PROVE DiskInv'
  <2>1. CASE SplitReturns(f)
    BY <2>1, <1>3 DEF SplitReturns, disk
  <2>. SUFFICES ASSUME ReadChunk(f) \/ StartWriter(f)  PROVE DiskInv'
    BY <2>1, <1>5 DEF SplitStep
  <2>2. <<f, idx[f]>> \in Chunk
    BY CurrentChunk DEF ReadChunk, StartWriter, MoreChunks, IInv, SplitInv
  <2>3. idx[f] \in Nat
    BY <2>2
  <2>4. writer[<<f, idx[f]>>] = "none"
    BY <2>2, <2>3 DEF IInv, WriterInv
  <2>5. CASE ReadChunk(f)
    <3>1. PICK v : value' = [value EXCEPT ![<<f, idx[f]>>] = v]
      BY <2>5 DEF ReadChunk
    <3>2. UNCHANGED <<stored, chunkMeta, cut, writer>>
      BY <2>5 DEF ReadChunk, disk
    <3>. QED  BY <3>1, <3>2, <2>2, <2>4, <1>1, <1>2
  <2>6. CASE StartWriter(f)
    <3>1. /\ writer' = [writer EXCEPT ![<<f, idx[f]>>] = "data"]
          /\ UNCHANGED <<stored, chunkMeta, cut, value>>
      BY <2>6 DEF StartWriter, disk
    <3>. QED  BY <3>1, <2>2, <2>4, <1>1 DEF DiskInv, BytesOf
  <2>. QED  BY <2>5, <2>6
<1>6. ASSUME NEW c \in Chunk, WriterStep(c)  PROVE DiskInv'
  <2>1. value' = value
    BY <1>6, WriterStepFrame
  <2>2. CASE OpenChunk(c)
    <3>1. /\ writer[c] = "data"
          /\ writer' = [writer EXCEPT ![c] = "write"]
          /\ stored' = stored \/ stored' = [stored EXCEPT ![c] = 0]
          /\ UNCHANGED <<chunkMeta, cut>>
      BY <2>2 DEF OpenChunk, Moves
    <3>. QED  BY <3>1, <2>1, <1>1 DEF DiskInv, BytesOf
  <2>3. CASE WriteChunk(c)
    <3>1. /\ writer[c] = "write"
          /\ writer' = [writer EXCEPT ![c] = "meta"]
          /\ stored' = IF value[c] = ReadFailed THEN stored
                       ELSE [stored EXCEPT ![c] = value[c]]
          /\ UNCHANGED <<chunkMeta, cut>>
      BY <2>3 DEF WriteChunk, Moves
    <3>2. stored[c] = 0
      BY <3>1, <1>1 DEF DiskInv
    <3>3. stored' = [stored EXCEPT ![c] = BytesOf(c)]
      BY <3>1, <3>2, <1>1 DEF BytesOf
    <3>. QED  BY <3>1, <3>3, <2>1, <1>1 DEF DiskInv, BytesOf
  <2>4. CASE PutChunkMeta(c)
    <3>1. /\ writer[c] = "meta"
          /\ writer' = [writer EXCEPT ![c] = "lock"]
          /\ stored' = stored
          /\ chunkMeta' = chunkMeta \cup {c}
          /\ cut' = cut
      BY <2>4 DEF PutChunkMeta, Moves
    <3>. QED  BY <3>1, <2>1, <1>1 DEF DiskInv, BytesOf
  <2>5. CASE PutFails(c)
    BY <2>5, <1>3 DEF PutFails, disk
  <2>6. CASE LockState(c) \/ LoadSections(c) \/ StoreSections(c) \/ WriterDone(c)
             \/ WriterReleases(c)
    <3>1. /\ UNCHANGED <<stored, chunkMeta, cut>>
          /\ \E to \in {"load", "store", "done", "release", "gone"} :
               writer' = [writer EXCEPT ![c] = to]
          /\ writer[c] \in {"lock", "load", "store", "done", "release"}
      BY <2>6 DEF LockState, LoadSections, StoreSections, WriterDone,
         WriterReleases, Moves, disk
    <3>. QED  BY <3>1, <2>1, <1>1 DEF DiskInv, BytesOf
  <2>7. CASE WriteChunkShort(c) \/ PutChunkMetaShort(c)
    <3>1. /\ UNCHANGED <<stored, chunkMeta>>
          /\ \/ writer[c] = "write" /\ writer' = [writer EXCEPT ![c] = "meta"]
             \/ writer[c] = "meta" /\ writer' = [writer EXCEPT ![c] = "lock"]
          /\ cut' = cut \cup {c}
          /\ "write" \in Faults
      BY <2>7 DEF WriteChunkShort, PutChunkMetaShort, Moves
    <3>. QED  BY <3>1, <2>1, <1>1 DEF DiskInv, BytesOf
  <2>. QED  BY <1>6, <2>2, <2>3, <2>4, <2>5, <2>6, <2>7 DEF WriterStep
<1>7. CASE Crash \/ (\E f \in File : Truncate(f)) \/ UNCHANGED vars
  BY <1>7, <1>3 DEF Crash, Truncate, vars, disk
<1>. QED  BY <1>4, <1>5, <1>6, <1>7 DEF Next

(* What PutMetadata wrote stays what the memory holds. *)
LEMMA CommitStep ==
  ASSUME IInv, [Next]_vars
  PROVE  CommitInv'
<1>1. CommitInv /\ QuietInv
  BY DEF IInv
<1>2. ASSUME UNCHANGED <<size, chunkMap, metadata>>,
             Record \in cut' => Record \in cut,
             main' = main \/ main # "ok"
      PROVE  CommitInv'
  BY <1>1, <1>2 DEF CommitInv
<1>3. CASE MainStep
  <2>1. CASE PutMetadata \/ PutMetadataShort
    BY <1>1, <2>1 DEF PutMetadata, PutMetadataShort, CommitInv
  <2>2. CASE Walk \/ OpenFails
    BY <2>2, <1>1 DEF Walk, OpenFails, AtEntity, CommitInv, disk
  <2>3. CASE \/ WalkFails \/ SkipEntity \/ StartSplit \/ StartWait \/ WaitReturns
             \/ PutMetadataFails
    BY <2>3, <1>2 DEF WalkFails, SkipEntity, StartSplit, StartWait, WaitReturns,
       PutMetadataFails, AtEntity, disk
  <2>. QED  BY <1>3, <2>1, <2>2, <2>3 DEF MainStep
<1>4. ASSUME NEW f \in File, SplitStep(f)  PROVE CommitInv'
  BY <1>4, <1>2 DEF SplitStep, ReadChunk, StartWriter, SplitReturns, disk
<1>5. ASSUME NEW c \in Chunk, WriterStep(c)  PROVE CommitInv'
  <2>1. CASE \/ OpenChunk(c) \/ WriteChunk(c) \/ PutChunkMeta(c) \/ LockState(c)
             \/ LoadSections(c) \/ WriterDone(c) \/ WriterReleases(c)
    BY <2>1, <1>2 DEF OpenChunk, WriteChunk, PutChunkMeta, LockState, LoadSections,
       WriterDone, WriterReleases, disk
  <2>2. CASE WriteChunkShort(c) \/ PutChunkMetaShort(c)
    <3>1. cut' = cut \cup {c} /\ UNCHANGED <<size, chunkMap, metadata, main>>
      BY <2>2 DEF WriteChunkShort, PutChunkMetaShort
    <3>. QED  BY <3>1, <1>2, RecordNotChunk
  <2>3. CASE StoreSections(c) \/ PutFails(c)
    <3>1. c \in Pending
      BY <2>3 DEF StoreSections, PutFails, Moves, Pending, WriterStates
    <3>2. main # "ok"
      BY <3>1, <1>1 DEF QuietInv, Waited
    <3>3. UNCHANGED <<metadata, cut>>
      BY <2>3 DEF StoreSections, PutFails, disk
    <3>. QED  BY <3>2, <3>3, <1>1 DEF CommitInv
  <2>. QED  BY <1>5, <2>1, <2>2, <2>3 DEF WriterStep
<1>6. CASE Crash \/ (\E f \in File : Truncate(f)) \/ UNCHANGED vars
  BY <1>6, <1>2 DEF Crash, Truncate, vars, Returned, disk
<1>. QED  BY <1>3, <1>4, <1>5, <1>6 DEF Next
-----------------------------------------------------------------------------
(* IInv holds of every behaviour, under every fault and with writes that   *)
(* Put takes for complete and the disk has cut short (operation.go:22-157, *)
(* internal.go:57-65).                                                     *)
THEOREM Invariance == Spec => []IInv
<1>1. ASSUME IInv, [Next]_vars  PROVE IInv'
  BY <1>1, TypeStep, SplitInvStep, WriterInvStep, WaitGroupStep, QuietStep, LockStep,
     RecordedStep, DiskStep, CommitStep DEF IInv
<1>. QED  BY InitIInv, <1>1, PTL DEF Spec

(* Type correctness: s.wg never goes negative, which would panic, and no   *)
(* counter or index leaves its range (operation.go:22-157).                *)
THEOREM TypeCorrect == Spec => []TypeOK
<1>1. IInv => TypeOK
  BY DEF IInv
<1>. QED  BY Invariance, <1>1, PTL

(* The wait group counts the goroutines that are still to call Done        *)
(* (operation.go:51, 76, 129, 133).                                        *)
THEOREM WaitGroupCorrect == Spec => []WaitGroupCounts
<1>1. IInv => WaitGroupCounts
  BY DEF IInv
<1>. QED  BY Invariance, <1>1, PTL

(* No append to ChunkMap is lost or repeated, whatever the number of       *)
(* permits (operation.go:147-152).                                         *)
THEOREM AppendsCorrect == Spec => []RecordedOnce
<1>1. IInv => RecordedOnce
  BY DEF IInv
<1>. QED  BY Invariance, <1>1, PTL

(* When the metadata is on disk every file has been passed and emptied or  *)
(* split, every split has returned and every writer it started is past its *)
(* append.                                                                 *)
LEMMA CommitMeansComplete == IInv => MetadataComplete
<1>. SUFFICES ASSUME IInv, metadata # NoMetadata, NEW c \in ChunksOf(metadata.size)
              PROVE  /\ Times(c, metadata.chunkMap[HashOf(c)]) = 1
                     /\ c \notin cut => stored[c] = BytesOf(c) /\ c \in chunkMeta
  BY DEF MetadataComplete
<1>1. /\ main = "ok"
      /\ metadata.size = size
      /\ metadata.chunkMap = chunkMap
  BY DEF IInv, CommitInv
<1>2. PICK f \in File, i \in 0 .. MaxChunks - 1 : c = <<f, i>>
  BY DEF ChunksOf
<1>3. c \in Chunk /\ i < NumChunks(size[f]) /\ i \in Nat
  BY <1>1, <1>2 DEF ChunksOf
<1>4. split[f] \notin {"read", "acquire"} /\ c \notin Pending
  BY <1>1 DEF IInv, QuietInv, Waited, Splitting
<1>5. size[f] \in Nat /\ split[f] \in SplitStates /\ writer[c] \in WriterStates
  BY <1>3, SnapshotAssumption DEF IInv, TypeOK
<1>6. size[f] # 0
  BY <1>3, <1>5, NumChunksZero
<1>7. f < cursor
  BY <1>1, SnapshotAssumption DEF IInv, SplitInv
<1>8. split[f] = "done"
  BY <1>4, <1>5, <1>6, <1>7 DEF IInv, SplitInv, SplitStates
<1>9. idx[f] = NumChunks(size[f])
  BY <1>8 DEF IInv, SplitInv
<1>10. writer[c] # "none"
  <2>1. writer[c] = "none" <=> i >= idx[f]
    BY <1>2, <1>3 DEF IInv, WriterInv
  <2>2. NumChunks(size[f]) \in Nat
    BY <1>5, NumChunksBounds
  <2>. QED  BY <2>1, <2>2, <1>3, <1>9
<1>11. writer[c] \in {"release", "gone"}
  BY <1>3, <1>4, <1>5, <1>10 DEF Pending
<1>. QED  BY <1>1, <1>3, <1>11 DEF IInv, DiskInv, RecordedOnce

(* The snapshot metadata is a commit record: everything it names has been  *)
(* recorded exactly once, and stored and described by Puts that returned   *)
(* nil; what is not on disk is a file that such a Put left in part, whose  *)
(* error it lost (operation.go:56-67, internal.go:57-65).                  *)
THEOREM CommitCorrect == Spec => []MetadataComplete
  BY Invariance, CommitMeansComplete, PTL
-----------------------------------------------------------------------------
(* Action properties and the pool.                                         *)

(* Once the wait group is at zero nothing that could add to it is left.    *)
LEMMA ZeroMeansNobody ==
  ASSUME IInv, wg = 0
  PROVE  Splitting = {} /\ Pending = {}
<1>1. Cardinality(Splitting) \in Nat /\ Cardinality(Pending) \in Nat
  BY PendingFinite, FS_CardinalityType
<1>2. Cardinality(Splitting) = 0 /\ Cardinality(Pending) = 0
  BY <1>1 DEF IInv, WaitGroupCounts
<1>. QED  BY <1>2, PendingFinite, FS_EmptySet

(* s.wg is never added to while Wait finds it at zero (operation.go:51,    *)
(* 56, 129).                                                               *)
THEOREM NoAddDuringWaitCorrect == Spec => NoAddDuringWait
<1>1. ASSUME IInv, [Next]_vars, main = "wait", wg = 0  PROVE wg' = 0
  <2>1. Splitting = {} /\ Pending = {}
    BY <1>1, ZeroMeansNobody
  <2>2. CASE MainStep
    BY <1>1, <2>2 DEF MainStep, Walk, WalkFails, SkipEntity, OpenFails, StartSplit,
       StartWait, WaitReturns, PutMetadata, PutMetadataShort, PutMetadataFails, AtEntity
  <2>3. ASSUME NEW f \in File, SplitStep(f)  PROVE FALSE
    BY <2>1, <2>3 DEF SplitStep, ReadChunk, StartWriter, SplitReturns, Splitting
  <2>4. ASSUME NEW c \in Chunk, WriterStep(c)  PROVE wg' = wg
    <3>1. CASE WriterDone(c)
      <4>1. c \in Pending
        BY <3>1 DEF WriterDone, Moves, Pending, WriterStates
      <4>. QED  BY <4>1, <2>1
    <3>2. CASE \/ OpenChunk(c) \/ WriteChunk(c) \/ WriteChunkShort(c)
             \/ PutChunkMeta(c) \/ PutChunkMetaShort(c) \/ PutFails(c)
               \/ LockState(c) \/ LoadSections(c) \/ StoreSections(c)
               \/ WriterReleases(c)
      BY <3>2 DEF OpenChunk, WriteChunk, WriteChunkShort, PutChunkMeta,
         PutChunkMetaShort, PutFails, LockState, LoadSections, StoreSections,
         WriterReleases
    <3>. QED  BY <2>4, <3>1, <3>2 DEF WriterStep
  <2>5. CASE Crash \/ (\E f \in File : Truncate(f)) \/ UNCHANGED vars
    BY <1>1, <2>5 DEF Crash, Truncate, vars
  <2>. QED  BY <1>1, <2>2, <2>3, <2>4, <2>5 DEF Next
<1>. QED  BY Invariance, <1>1, PTL DEF Spec, NoAddDuringWait

(* A permit moves with the writer that holds it. *)
LEMMA PermitStep ==
  ASSUME IInv, PermitsHeldByWriters, [Next]_vars
  PROVE  PermitsHeldByWriters'
<1>1. /\ writer \in [Chunk -> WriterStates]
      /\ InFlight \subseteq Chunk /\ IsFiniteSet(InFlight)
      /\ Cardinality(InFlight) \in Nat
      /\ sem = Cardinality(InFlight)
  <2>1. InFlight \in SUBSET Chunk
    BY DEF InFlight
  <2>. QED  BY <2>1, ChunkFinite, FS_Subset, FS_CardinalityType
            DEF IInv, TypeOK, PermitsHeldByWriters
<1>2. ASSUME sem' = sem, InFlight' = InFlight  PROVE PermitsHeldByWriters'
  BY <1>1, <1>2 DEF PermitsHeldByWriters
<1>3. CASE UNCHANGED <<sem, writer>>
  BY <1>3, <1>2 DEF InFlight
<1>4. ASSUME NEW f \in File, StartWriter(f)  PROVE PermitsHeldByWriters'
  <2>. DEFINE c == <<f, idx[f]>>
  <2>1. /\ split[f] = "acquire"
        /\ writer' = [writer EXCEPT ![c] = "data"]
        /\ sem' = sem + 1
    BY <1>4 DEF StartWriter, Pool!Acquire
  <2>2. c \in Chunk
    BY <2>1, CurrentChunk DEF IInv, SplitInv
  <2>3. writer[c] = "none"
    <3>1. idx[f] \in Nat
      BY NumChunksBounds, SnapshotAssumption DEF IInv, TypeOK
    <3>. QED  BY <2>2, <3>1 DEF IInv, WriterInv
  <2>4. InFlight' = InFlight \cup {c} /\ c \notin InFlight
    BY <2>1, <2>2, <2>3, <1>1 DEF InFlight
  <2>5. Cardinality(InFlight') = Cardinality(InFlight) + 1
    BY <2>4, <1>1, FS_AddElement
  <2>. QED  BY <2>1, <2>5, <1>1 DEF PermitsHeldByWriters
<1>5. ASSUME NEW c \in Chunk, WriterReleases(c)  PROVE PermitsHeldByWriters'
  <2>1. /\ writer[c] = "release"
        /\ writer' = [writer EXCEPT ![c] = "gone"]
        /\ sem' = sem - 1
    BY <1>5 DEF WriterReleases, Moves, Pool!Release
  <2>2. InFlight' = InFlight \ {c} /\ c \in InFlight
    BY <2>1, <1>1 DEF InFlight
  <2>3. Cardinality(InFlight') = Cardinality(InFlight) - 1
    BY <2>2, <1>1, FS_RemoveElement
  <2>. QED  BY <2>1, <2>3, <1>1 DEF PermitsHeldByWriters
<1>6. ASSUME NEW c \in Chunk, NEW a \in WriterStates \ {"none", "gone"},
             NEW b \in WriterStates \ {"none", "gone"}, Moves(c, a, b), sem' = sem
      PROVE  PermitsHeldByWriters'
  <2>1. writer[c] = a /\ writer' = [writer EXCEPT ![c] = b]
    BY <1>6 DEF Moves
  <2>2. InFlight' = InFlight
    BY <2>1, <1>1 DEF InFlight
  <2>. QED  BY <1>6, <2>2, <1>2
<1>7. CASE MainStep
  BY <1>7, <1>3 DEF MainStep, Walk, WalkFails, SkipEntity, OpenFails, StartSplit,
     StartWait, WaitReturns, PutMetadata, PutMetadataShort, PutMetadataFails
<1>8. ASSUME NEW f \in File, SplitStep(f) \/ Truncate(f)  PROVE PermitsHeldByWriters'
  BY <1>8, <1>3, <1>4 DEF SplitStep, ReadChunk, SplitReturns, Truncate
<1>9. ASSUME NEW c \in Chunk, WriterStep(c)  PROVE PermitsHeldByWriters'
  <2>1. CASE PutFails(c)
    BY <2>1, <1>3 DEF PutFails
  <2>2. CASE OpenChunk(c)
    BY <2>2, <1>6 DEF OpenChunk, WriterStates
  <2>3. CASE WriteChunk(c) \/ WriteChunkShort(c)
    BY <2>3, <1>6 DEF WriteChunk, WriteChunkShort, WriterStates
  <2>4. CASE PutChunkMeta(c) \/ PutChunkMetaShort(c)
    BY <2>4, <1>6 DEF PutChunkMeta, PutChunkMetaShort, WriterStates
  <2>5. CASE LockState(c)
    BY <2>5, <1>6 DEF LockState, WriterStates
  <2>6. CASE LoadSections(c)
    BY <2>6, <1>6 DEF LoadSections, WriterStates
  <2>7. CASE StoreSections(c)
    BY <2>7, <1>6 DEF StoreSections, WriterStates
  <2>8. CASE WriterDone(c)
    BY <2>8, <1>6 DEF WriterDone, WriterStates
  <2>. QED  BY <1>9, <1>5, <2>1, <2>2, <2>3, <2>4, <2>5, <2>6, <2>7, <2>8
            DEF WriterStep
<1>10. CASE Crash \/ UNCHANGED vars
  BY <1>10, <1>3 DEF Crash, vars
<1>. QED  BY <1>7, <1>8, <1>9, <1>10 DEF Next

(* Each writer in flight holds one permit and nobody else does, so at most *)
(* as many writers run as the pool has permits (operation.go:130, 132).    *)
THEOREM PermitsCorrect == Spec => []PermitsHeldByWriters
<1>1. Init => PermitsHeldByWriters
  <2>1. Init => InFlight = {}
    BY DEF Init, InFlight
  <2>. QED  BY <2>1, FS_EmptySet DEF Init, PermitsHeldByWriters, Pool!New
<1>. QED  BY Invariance, PermitStep, <1>1, PTL DEF Spec

(* EncodeJSON reads ChunkMap without stateLock (operation.go:58): no       *)
(* goroutine that Snapshot started can still append to it, or write a      *)
(* chunk, once s.wg.Wait has returned.                                     *)
THEOREM QuietCorrect == Spec => QuietAfterWait
<1>1. ASSUME IInv, [Next]_vars, Waited
      PROVE  UNCHANGED <<chunkMap, stored, chunkMeta>>
  <2>1. Splitting = {} /\ Pending = {}
    BY <1>1 DEF IInv, QuietInv
  <2>2. CASE MainStep
    BY <1>1, <2>2 DEF MainStep, Walk, WalkFails, SkipEntity, OpenFails, StartSplit,
       StartWait, WaitReturns, PutMetadata, PutMetadataShort, PutMetadataFails,
       AtEntity, Waited, disk
  <2>3. ASSUME NEW f \in File, SplitStep(f)  PROVE FALSE
    BY <2>1, <2>3 DEF SplitStep, ReadChunk, StartWriter, SplitReturns, Splitting
  <2>4. ASSUME NEW c \in Chunk, WriterStep(c)
        PROVE  UNCHANGED <<chunkMap, stored, chunkMeta>>
    <3>1. WriterReleases(c)
      BY <2>1, <2>4, WorkingIsPending
    <3>. QED  BY <3>1 DEF WriterReleases, disk
  <2>5. CASE Crash \/ (\E f \in File : Truncate(f)) \/ UNCHANGED vars
    BY <2>5 DEF Crash, Truncate, vars, disk
  <2>. QED  BY <1>1, <2>2, <2>3, <2>4, <2>5 DEF Next
<1>. QED  BY Invariance, <1>1, PTL DEF Spec, QuietAfterWait
-----------------------------------------------------------------------------
(* Snapshot implements AtomicSnapshot.                                     *)

(* When Wait has returned, ChunkMap names exactly the chunks of the listed *)
(* entities, each once.                                                    *)
LEMMA RecordedIsAll ==
  ASSUME IInv, main \in {"put", "ok"}, NEW f \in File, NEW i \in 0 .. MaxChunks - 1
  PROVE  Times(<<f, i>>, chunkMap[HashOf(<<f, i>>)]) =
           IF i < NumChunks(size[f]) THEN 1 ELSE 0
<1>. DEFINE c == <<f, i>>
<1>1. c \in Chunk /\ c[1] = f /\ c[2] = i /\ i \in Nat
  OBVIOUS
<1>2. /\ size[f] \in Nat /\ split[f] \in SplitStates /\ writer[c] \in WriterStates
      /\ idx[f] \in Nat
  BY <1>1, NumChunksBounds, SnapshotAssumption DEF IInv, TypeOK
<1>3. split[f] \notin {"read", "acquire"} /\ c \notin Pending
  BY DEF IInv, QuietInv, Waited, Splitting
<1>4. f < cursor
  BY SnapshotAssumption DEF IInv, SplitInv
<1>5. NumChunks(size[f]) \in Nat /\ (NumChunks(size[f]) = 0 <=> size[f] = 0)
  BY <1>2, NumChunksBounds, NumChunksZero
<1>6. idx[f] = NumChunks(size[f])
  <2>1. CASE split[f] = "none"
    BY <2>1, <1>4, <1>5 DEF IInv, SplitInv
  <2>2. CASE split[f] = "done"
    BY <2>2 DEF IInv, SplitInv
  <2>. QED  BY <2>1, <2>2, <1>2, <1>3 DEF SplitStates
<1>7. writer[c] = "none" <=> i >= NumChunks(size[f])
  BY <1>1, <1>6 DEF IInv, WriterInv
<1>8. writer[c] \in {"none", "release", "gone"}
  BY <1>1, <1>2, <1>3 DEF Pending
<1>9. Times(c, chunkMap[HashOf(c)]) =
        IF writer[c] \in {"done", "release", "gone"} THEN 1 ELSE 0
  BY <1>1 DEF IInv, RecordedOnce
<1>. QED  BY <1>1, <1>5, <1>7, <1>8, <1>9

(* What occurs in a sequence occurs in it more than zero times. *)
LEMMA TimesZero ==
  ASSUME NEW S, NEW q \in Seq(S), NEW k \in DOMAIN q
  PROVE  Times(q[k], q) # 0
<1>. DEFINE K == {n \in DOMAIN q : q[n] = q[k]}
<1>1. IsFiniteSet(DOMAIN q)
  BY FS_Interval
<1>2. IsFiniteSet(K)
  BY <1>1, FS_Subset
<1>3. k \in K
  OBVIOUS
<1>. QED  BY <1>2, <1>3, FS_EmptySet DEF Times

(* The sections that a snapshot's metadata has of a file are its chunks,   *)
(* once each, and the chunks of a file tile it.                            *)
LEMMA CommitTiles ==
  ASSUME IInv
  PROVE  EveryByteOnce
<1>. DEFINE q(f) == chunkMap[FileHash[f]]
            Covers(s, b) == s.start <= b /\ b < s.end
            Holds(f, b, k) == q(f)[k][1] = f /\ Covers(Section(size[f], q(f)[k][2]), b)
<1>1. SUFFICES ASSUME metadata # NoMetadata, NEW f \in File, NEW b \in 0 .. size[f] - 1
               PROVE  Cardinality({k \in DOMAIN q(f) : Holds(f, b, k)}) = 1
  BY DEF IInv, CommitInv, EveryByteOnce
<1>2. main = "ok"
  BY <1>1 DEF IInv, CommitInv
<1>3. /\ size[f] \in 0 .. MaxSize /\ size[f] \in Nat
      /\ q(f) \in Seq(Chunk)
  <2>1. size \in [File -> 0 .. MaxSize] /\ chunkMap \in [Hash -> Seq(Chunk)]
    BY DEF IInv, TypeOK
  <2>2. FileHash[f] \in Hash
    BY DEF Hash
  <2>3. MaxSize \in Nat
    BY SnapshotAssumption
  <2>4. size[f] \in 0 .. MaxSize
    BY <2>1
  <2>5. q(f) \in Seq(Chunk)
    BY <2>1, <2>2, Zenon
  <2>6. size[f] \in Nat
    BY <2>3, <2>4
  <2>. QED  BY <2>4, <2>5, <2>6, Zenon
<1>4. NumChunks(size[f]) \in Nat
  BY <1>3, NumChunksBounds
<1>5. PICK j \in 0 .. NumChunks(size[f]) - 1 :
        \A i \in 0 .. NumChunks(size[f]) - 1 : Covers(Section(size[f], i), b) <=> i = j
  BY <1>3, SectionsTile
<1>6. j \in Nat /\ j < NumChunks(size[f]) /\ <<f, j>> \in Chunk
  BY <1>3, <1>4, BelowCountIsChunk
<1>7. ASSUME NEW k \in DOMAIN q(f)
      PROVE  Holds(f, b, k) <=> q(f)[k] = <<f, j>>
  <2>0. q(f)[k] \in Chunk
    <3>. HIDE DEF q
    <3>. QED  BY <1>3
  <2>1. PICK g \in File, i \in 0 .. MaxChunks - 1 : q(f)[k] = <<g, i>>
    BY <2>0
  <2>2. CASE g # f
    BY <2>1, <2>2
  <2>3. CASE g = f
    <3>1. i < NumChunks(size[f])
      <4>1. Times(<<f, i>>, q(f)) # 0
        BY <1>3, <2>1, <2>3, TimesZero DEF Times
      <4>. QED  BY <4>1, <1>2, RecordedIsAll DEF HashOf
    <3>2. i \in 0 .. NumChunks(size[f]) - 1
      BY <3>1, <1>4
    <3>. HIDE DEF Covers
    <3>. QED  BY <2>1, <2>3, <3>2, <1>5
  <2>. QED  BY <2>2, <2>3
<1>8. {k \in DOMAIN q(f) : Holds(f, b, k)} = {k \in DOMAIN q(f) : q(f)[k] = <<f, j>>}
  <2>. HIDE DEF Holds, q
  <2>. QED  BY <1>7
<1>9. Times(<<f, j>>, q(f)) = 1
  BY <1>2, <1>6, RecordedIsAll DEF HashOf
<1>. QED  BY <1>8, <1>9 DEF Times

(* A snapshot that has been committed has every byte of every file in      *)
(* exactly one of the sections it names (operation.go:81-104, 147-152).    *)
THEOREM EveryByteOnceCorrect == Spec => []EveryByteOnce
  BY Invariance, CommitTiles, PTL

(* What PutMetadata commits is what Commit of AtomicSnapshot commits. *)
LEMMA CommitMaps ==
  ASSUME IInv, PutMetadata
  PROVE  Abstract!Commit
<1>. DEFINE T(d) == Times(d, chunkMap[HashOf(d)])
            C == {<<c, T(c)>> : c \in {d \in Chunk : T(d) > 0}}
            A == UNION {{<<<<f, i>>, 1>> : i \in 0 .. NumChunks(size[f]) - 1} : f \in File}
<1>1. /\ main = "put" /\ main' = "ok"
      /\ metadata' = [size |-> size, chunkMap |-> chunkMap]
      /\ size' = size
      /\ Record \notin cut'
  BY DEF PutMetadata, IInv, CommitInv
<1>2. size \in [File -> 0 .. MaxSize] /\ MaxSize \in Nat
  BY SnapshotAssumption DEF IInv, TypeOK
<1>3. ASSUME NEW f \in File, NEW i \in 0 .. MaxChunks - 1
      PROVE  T(<<f, i>>) = IF i < NumChunks(size[f]) THEN 1 ELSE 0
  BY <1>1, RecordedIsAll
<1>4. C = A
  <2>1. ASSUME NEW c \in Chunk, T(c) > 0  PROVE <<c, T(c)>> \in A
    <3>1. PICK f \in File, i \in 0 .. MaxChunks - 1 : c = <<f, i>>
      OBVIOUS
    <3>2. T(c) = 1 /\ i < NumChunks(size[f])
      BY <2>1, <3>1, <1>3
    <3>3. size[f] \in Nat
      BY <1>2
    <3>4. NumChunks(size[f]) \in Nat /\ i \in Nat
      BY <3>3, NumChunksBounds
    <3>5. i \in 0 .. NumChunks(size[f]) - 1
      BY <3>2, <3>4
    <3>. QED  BY <3>1, <3>2, <3>5
  <2>2. ASSUME NEW f \in File, NEW i \in 0 .. NumChunks(size[f]) - 1
        PROVE  <<<<f, i>>, 1>> \in C
    <3>0. size[f] \in Nat
      BY <1>2
    <3>4. NumChunks(size[f]) \in Nat
      BY <3>0, NumChunksBounds
    <3>1. i \in Nat /\ i < NumChunks(size[f])
      BY <3>4
    <3>2. <<f, i>> \in Chunk
      BY <3>1, <1>2, BelowCountIsChunk
    <3>3. T(<<f, i>>) = 1
      BY <3>1, <3>2, <1>3
    <3>. QED  BY <3>2, <3>3
  <2>. HIDE DEF T
  <2>3. C \subseteq A
    BY <2>1
  <2>4. A \subseteq C
    BY <2>2
  <2>. QED  BY <2>3, <2>4
<1>5. Committed' = A
  <2>1. CASE metadata' = NoMetadata
    <3>1. size = <<>>
      BY <2>1, <1>1 DEF NoMetadata
    <3>2. File = {}
      BY <3>1, <1>2
    <3>3. A = {}
      BY <3>2
    <3>. QED  BY <2>1, <3>3 DEF Committed
  <2>2. CASE metadata' # NoMetadata
    BY <2>2, <1>1, <1>4 DEF Committed
  <2>. QED  BY <2>1, <2>2
<1>. QED  BY <1>1, <1>5 DEF Phase, Abstract!Commit, Abstract!NumChunks,
             Abstract!File, NumChunks

(* Committed only changes with the metadata. *)
LEMMA CommittedFrame ==
  ASSUME UNCHANGED metadata
  PROVE  Committed' = Committed
  BY DEF Committed

(* A step that leaves what AtomicSnapshot sees alone is a stutter of it. *)
LEMMA StutterMaps ==
  ASSUME UNCHANGED <<size, metadata>>,
         Record \in cut' <=> Record \in cut,
         \/ main' = main
         \/ main \in {"open", "wait", "put"} /\ main' \in {"open", "wait", "put"}
  PROVE  UNCHANGED Abstract!vars
  BY CommittedFrame DEF Phase, Abstract!vars

(* A step that ends the snapshot without committing it is Fail. *)
LEMMA FailMaps ==
  ASSUME UNCHANGED <<size, metadata>>, main' \in {"error", "exit"},
         main \in {"walk", "open", "wait", "put"}
  PROVE  Abstract!Fail
  BY CommittedFrame DEF Phase, Abstract!Fail

(* A success of which the disk has cut the commit record short is Lose.    *)
LEMMA LoseMaps ==
  ASSUME PutMetadataShort
  PROVE  Abstract!Lose
<1>1. /\ "write" \in Faults
      /\ main = "put" /\ main' = "ok"
      /\ Record \in cut'
      /\ UNCHANGED <<size, metadata>>
  BY DEF PutMetadataShort
<1>. QED  BY <1>1, CommittedFrame DEF Phase, Abstract!Lose

(* Every step of Snapshot is a step of AtomicSnapshot or a stutter. *)
LEMMA StepMaps ==
  ASSUME IInv, [Next]_vars
  PROVE  [Abstract!Next]_(Abstract!vars)
<1>1. CASE MainStep
  <2>1. CASE Walk
    <3>1. Abstract!Begin
      BY <2>1, CommittedFrame DEF Phase, Walk, disk, Abstract!Begin, Abstract!File
    <3>. QED  BY <3>1 DEF Abstract!Next
  <2>2. CASE WalkFails \/ PutMetadataFails
    BY <2>2, FailMaps DEF WalkFails, PutMetadataFails, disk, Abstract!Next
  <2>3. CASE SkipEntity \/ StartSplit \/ StartWait \/ WaitReturns
    BY <2>3, StutterMaps DEF SkipEntity, StartSplit, StartWait, WaitReturns,
       AtEntity, disk
  <2>4. CASE OpenFails
    <3>1. Abstract!Drop(cursor) /\ cursor \in File
      BY <2>4, CommittedFrame DEF Phase, OpenFails, AtEntity, disk, Abstract!Drop
    <3>. QED  BY <3>1 DEF Abstract!Next, Abstract!File
  <2>5. CASE PutMetadata
    BY <2>5, CommitMaps DEF Abstract!Next
  <2>6. CASE PutMetadataShort
    BY <2>6, LoseMaps DEF Abstract!Next
  <2>. QED  BY <1>1, <2>1, <2>2, <2>3, <2>4, <2>5, <2>6 DEF MainStep
<1>2. ASSUME NEW f \in File, SplitStep(f) \/ Truncate(f)
      PROVE  UNCHANGED Abstract!vars
  BY <1>2, StutterMaps DEF SplitStep, ReadChunk, StartWriter, SplitReturns,
     Truncate, disk
<1>3. ASSUME NEW c \in Chunk, WriterStep(c)
      PROVE  [Abstract!Next]_(Abstract!vars)
  <2>1. CASE PutFails(c)
    <3>1. /\ writer[c] \in {"data", "write", "meta"} /\ main # "exit"
          /\ main' = "exit" /\ UNCHANGED <<size, metadata>>
      BY <2>1 DEF PutFails, Exited, disk
    <3>2. c \in Pending
      BY <3>1 DEF Pending, WriterStates
    <3>3. main \in {"walk", "open", "wait", "put"}
      BY <3>1, <3>2 DEF IInv, TypeOK, QuietInv, Waited
    <3>. QED  BY <3>1, <3>3, FailMaps DEF Abstract!Next
  <2>2. CASE \/ OpenChunk(c) \/ WriteChunk(c) \/ PutChunkMeta(c) \/ LockState(c)
             \/ LoadSections(c) \/ StoreSections(c) \/ WriterDone(c) \/ WriterReleases(c)
    BY <2>2, StutterMaps DEF OpenChunk, WriteChunk, PutChunkMeta, LockState,
       LoadSections, StoreSections, WriterDone, WriterReleases, disk
  <2>3. CASE WriteChunkShort(c) \/ PutChunkMetaShort(c)
    <3>1. cut' = cut \cup {c} /\ UNCHANGED <<size, metadata, main>>
      BY <2>3 DEF WriteChunkShort, PutChunkMetaShort
    <3>2. Record \in cut' <=> Record \in cut
      BY <3>1, RecordNotChunk
    <3>. QED  BY <3>1, <3>2, StutterMaps
  <2>. QED  BY <1>3, <2>1, <2>2, <2>3 DEF WriterStep
<1>4. CASE Crash
  <2>1. main \in {"walk", "open", "wait", "put"}
    BY <1>4 DEF Crash, Exited, Returned, IInv, TypeOK
  <2>. QED  BY <1>4, <2>1, FailMaps DEF Crash, disk, Abstract!Next
<1>5. CASE UNCHANGED vars
  BY <1>5, StutterMaps DEF vars, disk
<1>. QED  BY <1>1, <1>2, <1>3, <1>4, <1>5 DEF Next

(* Whatever the schedule and the faults, Snapshot commits every chunk of   *)
(* its entities once in one step, or nothing (operation.go:22-157), and    *)
(* the only way to return no error without a commit is a write of the      *)
(* metadata whose error Put loses (internal.go:57-65).                     *)
THEOREM Refinement == Spec => ImplementsAtomicSnapshot
<1>1. Init => Abstract!Init
  BY DEF Init, Phase, Abstract!Init, Abstract!File, Committed
<1>. QED  BY Invariance, StepMaps, <1>1, PTL DEF Spec, ImplementsAtomicSnapshot,
             Abstract!Spec
-----------------------------------------------------------------------------
(* What a successful snapshot has stored, when the files stay as the walk  *)
(* found them, every read succeeds and the disk takes whole writes.        *)

(* The environment neither shortens a file, nor makes a read fail, nor     *)
(* cuts a write short, whose error Put would lose (internal.go:57-65).     *)
SoundDisk == Faults \cap {"read", "truncate", "write"} = {}

(* A file the snapshot lists has the size it is listed with, and what was  *)
(* read of a chunk is its whole section.                                   *)
SourceInv ==
  /\ \A f \in File : size[f] > 0 => src[f] = size[f]
  /\ \A c \in Chunk :
       \/ writer[c] # "none"
       \/ split[c[1]] = "acquire" /\ idx[c[1]] = c[2]
       => value[c] = SectionSize(size[c[1]], c[2])

(* A section reader on an unchanged file reads the section to its end. *)
LEMMA ReadsWholeSection ==
  ASSUME TypeOK, SourceInv, SoundDisk, NEW f \in File, NEW i \in Nat,
         i < NumChunks(size[f])
  PROVE  Readable(f, i) = {SectionSize(size[f], i)}
<1>. DEFINE n == NumChunks(size[f])
            s == SectionSize(size[f], i)
<1>1. /\ size[f] \in Nat
      /\ n \in Nat
      /\ s \in 1 .. ChunkSize
      /\ Offset(i) \in Nat
  <2>1. size[f] \in Nat
    BY SnapshotAssumption DEF TypeOK
  <2>2. n \in Nat
    BY <2>1, NumChunksBounds
  <2>3. s \in 1 .. ChunkSize
    BY <2>1, SectionSizeBounds
  <2>4. Offset(i) \in Nat
    BY ChunkSizeAssumption DEF Offset
  <2>. QED  BY <2>1, <2>2, <2>3, <2>4
<1>2. size[f] > 0
  BY <1>1, NumChunksZero
<1>3. src[f] = size[f]
  BY <1>2 DEF SourceInv
<1>4. Offset(i) + s = IF i = n - 1 THEN size[f] ELSE Offset(i + 1)
  <2>1. i \in 0 .. n - 1
    BY <1>1
  <2>. QED  BY <1>1, <2>1, SectionEnds
<1>5. Offset(i) + s <= size[f]
  <2>1. CASE i = n - 1
    BY <1>1, <1>4, <2>1
  <2>2. CASE i # n - 1
    <3>1. i + 1 \in 0 .. n - 1 /\ i + 1 \in Nat
      BY <1>1, <2>2
    <3>2. /\ Offset(i + 1) + SectionSize(size[f], i + 1) =
               IF i + 1 = n - 1 THEN size[f] ELSE Offset(i + 2)
          /\ n * ChunkSize < size[f] + ChunkSize
      BY <1>1, <3>1, SectionEnds, NumChunksBounds DEF Offset
    <3>3. (i + 1) * ChunkSize <= (n - 1) * ChunkSize
      BY <1>1, <3>1, ChunkSizeAssumption
    <3>4. (n - 1) * ChunkSize = n * ChunkSize - ChunkSize
      BY <1>1, ChunkSizeAssumption
    <3>. QED  BY <1>1, <1>4, <2>2, <3>2, <3>3, <3>4, ChunkSizeAssumption DEF Offset
  <2>. QED  BY <2>1, <2>2
<1>. QED  BY <1>1, <1>3, <1>5 DEF Readable, Least, SoundDisk

(* No step of the program and no fault but those makes a chunk in      *)
(* memory differ from its section.                                         *)
LEMMA SourceStep ==
  ASSUME SoundDisk, IInv, SourceInv, [Next]_vars
  PROVE  SourceInv'
<1>1. /\ size \in [File -> 0 .. MaxSize]
      /\ src \in [File -> 0 .. MaxSize]
      /\ split \in [File -> SplitStates]
      /\ idx \in [File -> 0 .. MaxChunks]
      /\ writer \in [Chunk -> WriterStates]
      /\ value \in [Chunk -> {ReadFailed} \cup 0 .. ChunkSize]
      /\ MaxChunks \in Nat
      /\ TypeOK /\ SplitInv /\ WriterInv
  BY NumChunksBounds, SnapshotAssumption DEF IInv, TypeOK
<1>2. \A f \in File : split[f] = "none" =>
        \A c \in Chunk : c[1] = f => writer[c] = "none"
  BY <1>1 DEF SplitInv, WriterInv
<1>3. CASE Walk
  <2>1. \A f \in File : split[f] = "none"
    BY <1>1, <1>3, SnapshotAssumption DEF Walk, SplitInv
  <2>2. \A c \in Chunk : writer[c] = "none" /\ split[c[1]] # "acquire"
    BY <1>2, <2>1
  <2>3. size' = src' /\ UNCHANGED <<split, idx, value, writer>>
    BY <1>3 DEF Walk
  <2>. QED  BY <2>2, <2>3 DEF SourceInv
<1>4. CASE OpenFails
  <2>1. /\ cursor \in File
        /\ size' = [size EXCEPT ![cursor] = 0]
        /\ UNCHANGED <<src, split, idx, value, writer>>
    BY <1>4 DEF OpenFails, AtEntity
  <2>2. split[cursor] = "none"
    BY <1>1, <2>1 DEF SplitInv
  <2>3. \A c \in Chunk : c[1] = cursor => writer[c] = "none" /\ split[c[1]] # "acquire"
    BY <1>2, <2>1, <2>2
  <2>4. \A f \in File : f # cursor => size'[f] = size[f]
    BY <1>1, <2>1
  <2>5. size'[cursor] = 0
    BY <1>1, <2>1
  <2>. QED  BY <2>1, <2>3, <2>4, <2>5 DEF SourceInv
<1>5. CASE StartSplit
  <2>1. /\ cursor \in File
        /\ split' = [split EXCEPT ![cursor] = "read"]
        /\ UNCHANGED <<size, src, idx, value, writer>>
    BY <1>5 DEF StartSplit, AtEntity
  <2>2. \A f \in File : split'[f] = "acquire" => split[f] = "acquire"
    BY <1>1, <2>1
  <2>. QED  BY <2>1, <2>2 DEF SourceInv
<1>6. CASE \/ WalkFails \/ SkipEntity \/ StartWait \/ WaitReturns \/ PutMetadata
           \/ PutMetadataShort \/ PutMetadataFails \/ Crash \/ UNCHANGED vars
  BY <1>6 DEF WalkFails, SkipEntity, StartWait, WaitReturns, PutMetadata,
     PutMetadataShort, PutMetadataFails, Crash, vars, SourceInv
<1>7. ASSUME NEW f \in File, ReadChunk(f)  PROVE SourceInv'
  <2>. DEFINE c == <<f, idx[f]>>
  <2>1. /\ idx[f] < NumChunks(size[f])
        /\ split' = [split EXCEPT ![f] = "acquire"]
        /\ UNCHANGED <<size, src, idx, writer>>
    BY <1>7 DEF ReadChunk, MoreChunks
  <2>2. PICK v \in Readable(f, idx[f]) : value' = [value EXCEPT ![c] = v]
    BY <1>7 DEF ReadChunk
  <2>3. c \in Chunk /\ idx[f] \in Nat
    BY <1>1, <2>1, CurrentChunk
  <2>4. v = SectionSize(size[f], idx[f])
    BY <1>1, <2>1, <2>3, ReadsWholeSection
  <2>5. ASSUME NEW d \in Chunk,
               \/ writer'[d] # "none"
               \/ split'[d[1]] = "acquire" /\ idx'[d[1]] = d[2]
        PROVE  value'[d] = SectionSize(size'[d[1]], d[2])
    <3>1. CASE d = c
      BY <1>1, <2>1, <2>2, <2>3, <2>4, <3>1
    <3>2. CASE d # c
      <4>1. \/ writer[d] # "none"
            \/ split[d[1]] = "acquire" /\ idx[d[1]] = d[2]
        BY <1>1, <2>1, <2>5, <3>2
      <4>2. value'[d] = value[d]
        BY <1>1, <2>2, <2>3, <3>2
      <4>. QED  BY <2>1, <4>1, <4>2 DEF SourceInv
    <3>. QED  BY <3>1, <3>2
  <2>. QED  BY <2>1, <2>5 DEF SourceInv
<1>8. ASSUME NEW f \in File, StartWriter(f)  PROVE SourceInv'
  <2>. DEFINE c == <<f, idx[f]>>
  <2>1. /\ split[f] = "acquire"
        /\ writer' = [writer EXCEPT ![c] = "data"]
        /\ idx' = [idx EXCEPT ![f] = @ + 1]
        /\ split' = [split EXCEPT ![f] = "read"]
        /\ UNCHANGED <<size, src, value>>
    BY <1>8 DEF StartWriter
  <2>2. ASSUME NEW d \in Chunk,
               \/ writer'[d] # "none"
               \/ split'[d[1]] = "acquire" /\ idx'[d[1]] = d[2]
        PROVE  \/ writer[d] # "none"
               \/ split[d[1]] = "acquire" /\ idx[d[1]] = d[2]
    <3>1. CASE d[1] = f
      BY <1>1, <2>1, <2>2, <3>1
    <3>2. CASE d[1] # f
      BY <1>1, <2>1, <2>2, <3>2
    <3>. QED  BY <3>1, <3>2
  <2>. QED  BY <2>1, <2>2 DEF SourceInv
<1>9. ASSUME NEW f \in File, SplitReturns(f)  PROVE SourceInv'
  <2>1. /\ split' = [split EXCEPT ![f] = "done"]
        /\ UNCHANGED <<size, src, idx, value, writer>>
    BY <1>9 DEF SplitReturns
  <2>2. \A g \in File : split'[g] = "acquire" => split[g] = "acquire"
    BY <1>1, <2>1
  <2>. QED  BY <2>1, <2>2 DEF SourceInv
<1>10. ASSUME NEW c \in Chunk, WriterStep(c)  PROVE SourceInv'
  <2>1. UNCHANGED <<size, src, split, idx, value>>
    BY <1>10, WriterStepFrame
  <2>2. \A d \in Chunk : writer'[d] # "none" => writer[d] # "none"
    BY <1>10, <1>1 DEF WriterStep, OpenChunk, WriteChunk, WriteChunkShort,
       PutChunkMeta, PutChunkMetaShort, PutFails, LockState, LoadSections,
       StoreSections, WriterDone, WriterReleases, Moves
  <2>. QED  BY <2>1, <2>2 DEF SourceInv
<1>11. ASSUME NEW f \in File, Truncate(f)  PROVE FALSE
  BY <1>11 DEF Truncate, SoundDisk
<1>. QED  BY <1>3, <1>4, <1>5, <1>6, <1>7, <1>8, <1>9, <1>10, <1>11
          DEF Next, MainStep, SplitStep

(* As long as nobody shortens a file, no read fails and no write is cut    *)
(* short, Snapshot reports success only when every byte of every file it   *)
(* lists is on disk (operation.go:22-157), whatever opens, Puts that err   *)
(* and crashes do.  The run MCSnapshotReadError shows what one failed read *)
(* does to it, and MCStorageDiskFull the Put that loses its error.         *)
THEOREM SuccessCorrect ==
  ASSUME SoundDisk
  PROVE  Spec => []SuccessMeansStored
<1>1. Init => SourceInv
  BY DEF Init, SourceInv
<1>2. ASSUME IInv, SourceInv  PROVE SuccessMeansStored
  <2>1. SUFFICES ASSUME main = "ok", NEW c \in ChunksOf(size)
                 PROVE  stored[c] = SectionSize(size[c[1]], c[2])
    BY DEF SuccessMeansStored
  <2>2. PICK f \in File, i \in 0 .. MaxChunks - 1 : c = <<f, i>>
    BY DEF ChunksOf
  <2>3. c \in Chunk /\ i < NumChunks(size[f]) /\ i \in Nat
    BY <2>2 DEF ChunksOf
  <2>4. Times(c, chunkMap[HashOf(c)]) = 1
    BY <1>2, <2>1, <2>2, <2>3, RecordedIsAll
  <2>5. writer[c] \in {"done", "release", "gone"}
    BY <1>2, <2>3, <2>4 DEF IInv, RecordedOnce
  <2>6. stored[c] = BytesOf(c)
    <3>1. cut = {}
      BY <1>2 DEF IInv, DiskInv, SoundDisk
    <3>. QED  BY <1>2, <2>3, <2>5, <3>1 DEF IInv, DiskInv
  <2>7. value[c] = SectionSize(size[f], i)
    BY <1>2, <2>2, <2>3, <2>5 DEF SourceInv
  <2>8. SectionSize(size[f], i) \in 1 .. ChunkSize
    <3>1. size \in [File -> 0 .. MaxSize]
      BY <1>2 DEF IInv, TypeOK
    <3>2. size[f] \in Nat
      BY <3>1, SnapshotAssumption
    <3>. QED  BY <2>3, <3>2, SectionSizeBounds
  <2>. QED  BY <2>2, <2>6, <2>7, <2>8, ChunkSizeAssumption DEF BytesOf, ReadFailed
<1>. QED  BY Invariance, SourceStep, <1>1, <1>2, PTL DEF Spec
-----------------------------------------------------------------------------
(* The order of the sections under the single permit New asks for.         *)

(* A recorded section's writer is past its append, and the writers of a    *)
(* file that have ended worked on earlier sections than the one in flight. *)
OrderInv ==
  /\ \A h \in Hash : \A k \in DOMAIN chunkMap[h] :
       writer[chunkMap[h][k]] \in {"done", "release", "gone"}
  /\ \A c, d \in Chunk :
       (c[1] = d[1] /\ c \in InFlight /\ writer[d] = "gone") => d[2] < c[2]
  /\ SectionsInOrder

(* With one permit two writers are never in flight together. *)
LEMMA OneInFlight ==
  ASSUME TypeOK, PermitsHeldByWriters, Pool!Permits = 1,
         NEW c \in InFlight, NEW d \in InFlight
  PROVE  c = d
<1>1. InFlight \in SUBSET Chunk
  BY DEF InFlight
<1>2. IsFiniteSet(InFlight) /\ Cardinality(InFlight) <= 1
  BY <1>1, ChunkFinite, FS_Subset, SMTT(40) DEF TypeOK, PermitsHeldByWriters,
     Pool!TypeOK
<1>3. {c, d} \in SUBSET InFlight
  OBVIOUS
<1>4. IsFiniteSet({c, d}) /\ Cardinality({c, d}) <= 1
  <2>1. IsFiniteSet({c, d}) /\ Cardinality({c, d}) <= Cardinality(InFlight)
    BY <1>2, <1>3, FS_Subset
  <2>2. Cardinality({c, d}) \in Nat /\ Cardinality(InFlight) \in Nat
    BY <1>2, <2>1, FS_CardinalityType
  <2>. QED  BY <1>2, <2>1, <2>2
<1>5. SUFFICES ASSUME c # d PROVE FALSE
  OBVIOUS
<1>6. IsFiniteSet({c}) /\ Cardinality({c}) = 1
  BY FS_Singleton
<1>7. Cardinality({c} \cup {d}) = 2
  BY <1>5, <1>6, FS_AddElement
<1>8. {c} \cup {d} = {c, d}
  OBVIOUS
<1>. QED  BY <1>4, <1>7, <1>8

(* A split starts its writers in the order of the sections, and the next   *)
(* one only when the last one has given its permit back.                   *)
LEMMA OrderStep ==
  ASSUME Pool!Permits = 1, IInv, PermitsHeldByWriters, OrderInv, [Next]_vars
  PROVE  OrderInv'
<1>1. /\ writer \in [Chunk -> WriterStates]
      /\ idx \in [File -> 0 .. MaxChunks]
      /\ chunkMap \in [Hash -> Seq(Chunk)]
      /\ MaxChunks \in Nat
      /\ TypeOK /\ WriterInv /\ LockInv
  BY NumChunksBounds, SnapshotAssumption DEF IInv, TypeOK
<1>2. \A h \in Hash : \A k \in DOMAIN chunkMap[h] : chunkMap[h][k] \in Chunk
  BY <1>1
<1>3. \A c \in Chunk : HashOf(c) \in Hash
  BY DEF HashOf
<1>4. CASE UNCHANGED <<writer, chunkMap>>
  BY <1>4 DEF OrderInv, SectionsInOrder, InFlight
<1>5. ASSUME NEW c \in Chunk,
             NEW a \in WriterStates \ {"none", "gone"},
             NEW b \in WriterStates \ {"none", "gone"},
             a \in {"done", "release"} => b \in {"done", "release"},
             Moves(c, a, b), chunkMap' = chunkMap
      PROVE  OrderInv'
  <2>1. writer[c] = a /\ writer' = [writer EXCEPT ![c] = b]
    BY <1>5 DEF Moves
  <2>2. /\ InFlight' = InFlight
        /\ \A d \in Chunk : writer'[d] = "gone" <=> writer[d] = "gone"
        /\ \A d \in Chunk : writer[d] \in {"done", "release", "gone"}
                              => writer'[d] \in {"done", "release", "gone"}
    BY <1>1, <1>5, <2>1 DEF InFlight
  <2>. QED  BY <1>2, <1>5, <2>2 DEF OrderInv, SectionsInOrder
<1>6. ASSUME NEW f \in File, StartWriter(f)  PROVE OrderInv'
  <2>. DEFINE c == <<f, idx[f]>>
  <2>1. /\ split[f] = "acquire"
        /\ writer' = [writer EXCEPT ![c] = "data"]
        /\ chunkMap' = chunkMap
        /\ sem < 1
    BY <1>6 DEF StartWriter, Pool!Acquire
  <2>2. c \in Chunk /\ idx[f] \in Nat
    BY <1>1, <2>1, CurrentChunk DEF IInv, SplitInv
  <2>3. writer[c] = "none" /\ \A d \in Chunk : d[1] = f /\ writer[d] # "none" => d[2] < idx[f]
    BY <1>1, <2>2 DEF WriterInv
  <2>4. InFlight' = InFlight \cup {c}
    BY <1>1, <2>1, <2>2 DEF InFlight
  <2>5. \A d \in Chunk : d # c => writer'[d] = writer[d]
    BY <1>1, <2>1, <2>2
  <2>6. writer'[c] = "data"
    BY <1>1, <2>1, <2>2
  <2>7. ASSUME NEW d \in Chunk, NEW e \in Chunk,
               d[1] = e[1], d \in InFlight', writer'[e] = "gone"
        PROVE  e[2] < d[2]
    <3>1. e # c /\ writer[e] = "gone"
      BY <2>5, <2>6, <2>7
    <3>2. CASE d = c
      BY <2>3, <2>7, <3>1, <3>2
    <3>3. CASE d # c
      BY <2>4, <2>7, <3>1, <3>3 DEF OrderInv
    <3>. QED  BY <3>2, <3>3
  <2>8. ASSUME NEW h \in Hash, NEW k \in DOMAIN chunkMap[h]
        PROVE  writer'[chunkMap[h][k]] \in {"done", "release", "gone"}
    BY <1>2, <2>3, <2>5 DEF OrderInv
  <2>. QED  BY <2>1, <2>7, <2>8 DEF OrderInv, SectionsInOrder
<1>7. ASSUME NEW c \in Chunk, WriterReleases(c)  PROVE OrderInv'
  <2>1. /\ writer[c] = "release"
        /\ writer' = [writer EXCEPT ![c] = "gone"]
        /\ chunkMap' = chunkMap
    BY <1>7 DEF WriterReleases, Moves
  <2>2. c \in InFlight
    BY <2>1 DEF InFlight
  <2>3. \A d \in InFlight : d = c
    BY <1>1, <2>2, OneInFlight
  <2>4. InFlight' = {}
    BY <1>1, <2>1, <2>3 DEF InFlight
  <2>5. \A d \in Chunk : writer[d] \in {"done", "release", "gone"}
                           => writer'[d] \in {"done", "release", "gone"}
    BY <1>1, <2>1
  <2>. QED  BY <1>2, <2>1, <2>4, <2>5 DEF OrderInv, SectionsInOrder
<1>8. ASSUME NEW c \in Chunk, StoreSections(c)  PROVE OrderInv'
  <2>. DEFINE q == chunkMap[HashOf(c)]
  <2>1. /\ writer[c] = "store"
        /\ writer' = [writer EXCEPT ![c] = "done"]
        /\ chunkMap' = [chunkMap EXCEPT ![HashOf(c)] = Append(seen[c], c)]
    BY <1>8 DEF StoreSections, Moves
  <2>2. seen[c] = q
    BY <1>1, <2>1 DEF LockInv
  <2>3. c \in InFlight
    BY <2>1 DEF InFlight
  <2>4. \A d \in InFlight : d = c
    BY <1>1, <2>3, OneInFlight
  <2>5. /\ InFlight' = InFlight
        /\ \A d \in Chunk : writer'[d] = "gone" <=> writer[d] = "gone"
        /\ \A d \in Chunk : writer[d] \in {"done", "release", "gone"}
                              => writer'[d] \in {"done", "release", "gone"}
        /\ writer'[c] = "done"
    BY <1>1, <2>1 DEF InFlight
  <2>6. /\ q \in Seq(Chunk)
        /\ Len(q) \in Nat
        /\ DOMAIN q = 1 .. Len(q)
        /\ DOMAIN Append(q, c) = 1 .. Len(q) + 1
        /\ \A k \in 1 .. Len(q) : Append(q, c)[k] = q[k]
        /\ Append(q, c)[Len(q) + 1] = c
    BY <1>1, <1>3, SMTT(40)
  <2>7. ASSUME NEW k \in DOMAIN q  PROVE q[k][1] = c[1] => q[k][2] < c[2]
    <3>1. q[k] \in Chunk /\ writer[q[k]] \in {"done", "release", "gone"}
      BY <1>2, <1>3 DEF OrderInv
    <3>2. q[k] # c
      BY <2>1, <3>1
    <3>3. writer[q[k]] = "gone"
      BY <2>4, <3>1, <3>2 DEF InFlight
    <3>. QED  BY <2>3, <3>1, <3>3 DEF OrderInv
  <2>8. ASSUME NEW h \in Hash
        PROVE  /\ \A k \in DOMAIN chunkMap'[h] :
                    writer'[chunkMap'[h][k]] \in {"done", "release", "gone"}
               /\ \A j, k \in DOMAIN chunkMap'[h] :
                    (j < k /\ chunkMap'[h][j][1] = chunkMap'[h][k][1])
                      => chunkMap'[h][j][2] < chunkMap'[h][k][2]
    <3>1. CASE h # HashOf(c)
      <4>1. chunkMap'[h] = chunkMap[h]
        BY <1>1, <2>1, <3>1
      <4>. QED  BY <1>2, <2>5, <4>1 DEF OrderInv, SectionsInOrder
    <3>2. CASE h = HashOf(c)
      <4>1. chunkMap'[h] = Append(q, c)
        BY <1>1, <1>3, <2>1, <2>2, <3>2
      <4>2. ASSUME NEW k \in 1 .. Len(q) + 1
            PROVE  writer'[Append(q, c)[k]] \in {"done", "release", "gone"}
        <5>1. CASE k = Len(q) + 1
          BY <2>5, <2>6, <5>1
        <5>2. CASE k \in 1 .. Len(q)
          <6>1. q[k] \in Chunk /\ writer[q[k]] \in {"done", "release", "gone"}
            BY <1>2, <1>3, <2>6, <5>2 DEF OrderInv
          <6>2. writer'[q[k]] \in {"done", "release", "gone"}
            BY <2>5, <6>1
          <6>. QED  BY <2>6, <5>2, <6>2
        <5>. QED  BY <2>6, <5>1, <5>2
      <4>3. \A j, k \in 1 .. Len(q) :
               (j < k /\ q[j][1] = q[k][1]) => q[j][2] < q[k][2]
        BY <1>3, <2>6 DEF OrderInv, SectionsInOrder
      <4>4. ASSUME NEW j \in 1 .. Len(q) + 1, NEW k \in 1 .. Len(q) + 1,
                   j < k, Append(q, c)[j][1] = Append(q, c)[k][1]
            PROVE  Append(q, c)[j][2] < Append(q, c)[k][2]
        <5>1. j \in 1 .. Len(q)
          BY <2>6, <4>4
        <5>2. CASE k = Len(q) + 1
          BY <2>6, <2>7, <4>4, <5>1, <5>2
        <5>3. CASE k \in 1 .. Len(q)
          <6>1. q[j][1] = q[k][1]
            BY <2>6, <4>4, <5>1, <5>3
          <6>2. q[j][2] < q[k][2]
            BY <4>4, <4>3, <5>1, <5>3, <6>1
          <6>. QED  BY <2>6, <5>1, <5>3, <6>2
        <5>4. k = Len(q) + 1 \/ k \in 1 .. Len(q)
          BY <2>6
        <5>. QED  BY <5>2, <5>3, <5>4
      <4>5. DOMAIN chunkMap'[h] = 1 .. Len(q) + 1
        BY <2>6, <4>1
      <4>6. \A k \in DOMAIN chunkMap'[h] :
              writer'[chunkMap'[h][k]] \in {"done", "release", "gone"}
        BY <4>1, <4>2, <4>5
      <4>7. \A j, k \in DOMAIN chunkMap'[h] :
              (j < k /\ chunkMap'[h][j][1] = chunkMap'[h][k][1])
                => chunkMap'[h][j][2] < chunkMap'[h][k][2]
        BY <4>1, <4>4, <4>5
      <4>. QED  BY <4>6, <4>7
    <3>. QED  BY <3>1, <3>2
  <2>. QED  BY <2>5, <2>8 DEF OrderInv, SectionsInOrder
<1>9. CASE MainStep
  BY <1>4, <1>9 DEF MainStep, Walk, WalkFails, SkipEntity, OpenFails, StartSplit,
     StartWait, WaitReturns, PutMetadata, PutMetadataShort, PutMetadataFails
<1>10. ASSUME NEW f \in File, SplitStep(f) \/ Truncate(f)  PROVE OrderInv'
  BY <1>4, <1>6, <1>10 DEF SplitStep, ReadChunk, SplitReturns, Truncate
<1>11. ASSUME NEW c \in Chunk, WriterStep(c)  PROVE OrderInv'
  <2>1. CASE PutFails(c)
    BY <1>4, <2>1 DEF PutFails
  <2>2. CASE OpenChunk(c)
    BY <1>5, <2>2 DEF OpenChunk, WriterStates
  <2>3. CASE WriteChunk(c) \/ WriteChunkShort(c)
    BY <1>5, <2>3 DEF WriteChunk, WriteChunkShort, WriterStates
  <2>4. CASE PutChunkMeta(c) \/ PutChunkMetaShort(c)
    BY <1>5, <2>4 DEF PutChunkMeta, PutChunkMetaShort, WriterStates
  <2>5. CASE LockState(c)
    BY <1>5, <2>5 DEF LockState, WriterStates
  <2>6. CASE LoadSections(c)
    BY <1>5, <2>6 DEF LoadSections, WriterStates
  <2>7. CASE WriterDone(c)
    BY <1>5, <2>7 DEF WriterDone, WriterStates
  <2>. QED  BY <1>7, <1>8, <1>11, <2>1, <2>2, <2>3, <2>4, <2>5, <2>6, <2>7
            DEF WriterStep
<1>12. CASE Crash \/ UNCHANGED vars
  BY <1>4, <1>12 DEF Crash, vars
<1>. QED  BY <1>9, <1>10, <1>11, <1>12 DEF Next

(* New asks for one permit, and under one permit the sections of each file *)
(* are recorded in their order in the file, whatever other files share its *)
(* hash (operation.go:129-152).                                            *)
THEOREM OrderCorrect ==
  ASSUME Pool!Permits = 1
  PROVE  Spec => []SectionsInOrder
<1>1. Init => OrderInv /\ PermitsHeldByWriters
  <2>1. Init => InFlight = {}
    BY DEF Init, InFlight
  <2>2. Init => PermitsHeldByWriters
    BY <2>1, FS_EmptySet DEF Init, PermitsHeldByWriters, Pool!New
  <2>3. Init => \A h \in Hash : chunkMap[h] = <<>>
    BY DEF Init
  <2>. QED  BY <2>1, <2>2, <2>3 DEF OrderInv, SectionsInOrder
<1>2. OrderInv => SectionsInOrder
  BY DEF OrderInv
<1>. QED  BY Invariance, PermitStep, OrderStep, <1>1, <1>2, PTL DEF Spec
=============================================================================
