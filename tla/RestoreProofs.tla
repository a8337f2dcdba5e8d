--------------------------- MODULE RestoreProofs ---------------------------
(***************************************************************************)
(* Restore: the inductive invariant IInv, and from it type correctness,    *)
(* RestoredExactly and QuietAfterWait, for every number of files, every    *)
(* size, every hash function, every order of the sections in the metadata, *)
(* every pool and every set of faults.                                     *)
(***************************************************************************)
EXTENDS Restore, ChunkingProofs, FiniteSetTheorems

(* What the counter of s.wg counts: the merges that have not returned,     *)
(* those that have announced a part and wait for its permit, and the parts *)
(* that have not called Done.                                              *)
Announced == {f \in Entity : merge[f] = "acquire"}
Pending   == {p \in Part : part[p] \in {"get", "write", "done"}}

WgCounts ==
  wg = Cardinality(Merging) + Cardinality(Announced) + Cardinality(Pending)

(* Nothing is counted any more once Wait has returned. *)
Waited == main \in {"verify", "ok"} => wg = 0

(* The metadata lists every section once, under the hash of its file. *)
ListsComplete == \A h \in Hash : chunkMap[h] \in SetToSeqs(Listed(h))

(* The first loop starts the merge of each file that is not empty. *)
MergesStarted ==
  /\ main = "get" => cursor = 1
  /\ \A f \in Entity :
       /\ main = "get" => merge[f] = "none"
       /\ main = "open" => (merge[f] # "none" <=> f < cursor /\ size[f] > 0)
       /\ main \in {"wait", "verify", "ok"} => (merge[f] # "none" <=> size[f] > 0)

(* A merge goes through its list from the first section to the last. *)
ListFollowed ==
  \A f \in Entity :
    /\ pos[f] <= Len(chunkMap[FileHash[f]]) + 1
    /\ merge[f] = "none" => pos[f] = 1
    /\ merge[f] = "acquire" => pos[f] <= Len(chunkMap[FileHash[f]])
    /\ merge[f] = "done" => pos[f] > Len(chunkMap[FileHash[f]])

(* There is a part for each section that the loop has passed. *)
PartsStarted ==
  \A f \in Entity, k \in Position : part[<<f, k>>] # "none" <=> k < pos[f]

(* A part that has gone on has found its chunk. *)
PartsStored ==
  \A f \in Entity, k \in Position :
    part[<<f, k>>] \in {"write", "done", "release", "gone"}
      => IsStored(f, SectionOf(f, k))

Wrote == {"done", "release", "gone"}

(* A destination holds what its parts have written. *)
WrittenByParts ==
  \A f \in Entity, b \in 0 .. MaxSize - 1 :
    b \in written[f] <=>
      \E k \in Position : /\ part[<<f, k>>] \in Wrote
                          /\ SectionOf(f, k).start <= b
                          /\ b < SectionOf(f, k).end

IInv ==
  /\ TypeOK
  /\ ListsComplete
  /\ WgCounts
  /\ Waited
  /\ MergesStarted
  /\ ListFollowed
  /\ PartsStarted
  /\ PartsStored
  /\ WrittenByParts
-----------------------------------------------------------------------------
(* The sets the model is built from.                                       *)

LEMMA MaxChunksNat == MaxChunks \in Nat
  BY NumChunksBounds, RestoreAssumption DEF MaxChunks

LEMMA EntityFinite == IsFiniteSet(Entity) /\ Cardinality(Entity) = NumFiles
  BY FS_Interval, RestoreAssumption DEF Entity

LEMMA PartFinite == IsFiniteSet(Part)
<1>1. NumFiles * MaxChunks \in Nat
  BY MaxChunksNat, RestoreAssumption
<1>2. IsFiniteSet(Position)
  BY <1>1, FS_Interval DEF Position
<1>. QED  BY <1>2, EntityFinite, FS_Product DEF Part

(* Of a hash there are at most as many sections as there are positions. *)
LEMMA ListedFinite ==
  ASSUME NEW h
  PROVE  /\ IsFiniteSet(Listed(h))
         /\ Cardinality(Listed(h)) \in Nat
         /\ Cardinality(Listed(h)) <= NumFiles * MaxChunks
<1>. DEFINE N == 0 .. MaxChunks - 1
<1>1. IsFiniteSet(N) /\ Cardinality(N) = MaxChunks
  BY FS_Interval, MaxChunksNat
<1>2. IsFiniteSet(Entity \X N) /\ Cardinality(Entity \X N) = NumFiles * MaxChunks
  BY <1>1, EntityFinite, FS_Product
<1>3. Listed(h) \in SUBSET (Entity \X N)
  BY DEF Listed
<1>. HIDE DEF N
<1>4. IsFiniteSet(Listed(h)) /\ Cardinality(Listed(h)) <= NumFiles * MaxChunks
  BY <1>2, <1>3, FS_Subset
<1>. QED  BY <1>4, FS_CardinalityType

(* A list that holds each section once is a sequence, fits in the          *)
(* positions, and leaves no section out.                                   *)
LEMMA ListHoldsAll ==
  ASSUME NEW h, NEW list \in SetToSeqs(Listed(h))
  PROVE  /\ list \in Seq(Entity \X (0 .. MaxChunks - 1))
         /\ Len(list) \in Nat
         /\ Len(list) <= NumFiles * MaxChunks
         /\ \A k \in 1 .. Len(list) : list[k] \in Listed(h)
         /\ \A c \in Listed(h) : \E k \in 1 .. Len(list) : list[k] = c
<1>. DEFINE n == Cardinality(Listed(h))
            D == 1 .. n
<1>1. n \in Nat /\ n <= NumFiles * MaxChunks /\ IsFiniteSet(Listed(h))
  BY ListedFinite
<1>2. list \in [D -> Listed(h)] /\ \A i, j \in D : i # j => list[i] # list[j]
  BY DEF SetToSeqs
<1>3. Listed(h) \subseteq Entity \X (0 .. MaxChunks - 1)
  BY DEF Listed
<1>4. list \in Injection(D, Listed(h))
  BY <1>2 DEF Injection, IsInjective
<1>5. Cardinality(D) = n
  BY <1>1, FS_Interval
<1>. HIDE DEF n
<1>6. list \in Surjection(D, Listed(h))
  <2>1. Cardinality(D) = Cardinality(Listed(h))
    BY <1>5 DEF n
  <2>. HIDE DEF D
  <2>. QED  BY <1>1, <1>4, <2>1, FS_Injection
<1>7. \A c \in Listed(h) : \E k \in D : list[k] = c
  BY <1>6 DEF Surjection
<1>8. list \in Seq(Listed(h)) /\ Len(list) = n
  BY <1>1, <1>2
<1>9. list \in Seq(Entity \X (0 .. MaxChunks - 1))
  <2>. DEFINE T == Entity \X (0 .. MaxChunks - 1)
  <2>1. \A i \in D : list[i] \in T
    BY <1>2, <1>3
  <2>. HIDE DEF T
  <2>2. list \in [D -> T]
    BY <1>2, <2>1
  <2>3. list \in Seq(T)
    BY <1>1, <2>2
  <2>. QED  BY <2>3 DEF T
<1>. QED  BY <1>1, <1>2, <1>7, <1>8, <1>9

(* The list a merge follows. *)
LEMMA ListOfFile ==
  ASSUME TypeOK, ListsComplete, NEW f \in Entity
  PROVE  LET list == chunkMap[FileHash[f]]
         IN  /\ Len(list) \in Nat
             /\ Len(list) <= NumFiles * MaxChunks
             /\ \A i \in 0 .. NumChunks(size[f]) - 1 :
                  \E k \in 1 .. Len(list) : list[k] = <<f, i>>
<1>1. FileHash[f] \in Hash
  BY DEF Hash
<1>. DEFINE h == FileHash[f]
            list == chunkMap[h]
<1>2. list \in SetToSeqs(Listed(h))
  BY <1>1 DEF ListsComplete
<1>3. size[f] \in Nat /\ size[f] <= MaxSize /\ MaxSize \in Nat
  BY RestoreAssumption DEF TypeOK
<1>4. /\ NumChunks(size[f]) \in Nat
      /\ NumChunks(size[f]) <= MaxChunks
  BY <1>3, NumChunksBounds, NumChunksMonotone DEF MaxChunks
<1>5. \A i \in 0 .. NumChunks(size[f]) - 1 : <<f, i>> \in Listed(h)
  BY <1>4, MaxChunksNat DEF Listed
<1>6. /\ Len(list) \in Nat
      /\ Len(list) <= NumFiles * MaxChunks
      /\ \A c \in Listed(h) : \E k \in 1 .. Len(list) : list[k] = c
  <2>. HIDE DEF h, list
  <2>. QED  BY <1>2, ListHoldsAll
<1>. QED  BY <1>5, <1>6

(* What is under a key of a file is inside the file. *)
LEMMA StoredInside ==
  ASSUME TypeOK, NEW f \in Entity, NEW s, IsStored(f, s)
  PROVE  s.start \in Nat /\ s.end \in Nat /\ s.end <= size[f]
<1>1. size[f] \in Nat
  BY RestoreAssumption DEF TypeOK
<1>2. PICK i \in 0 .. NumChunks(size[f]) - 1 : s = Section(size[f], i)
  BY DEF IsStored, Sections
<1>3. NumChunks(size[f]) \in Nat /\ i \in Nat /\ i <= NumChunks(size[f]) - 1
  BY <1>1, NumChunksBounds
<1>4. s.start = Offset(i) /\ s.end = Offset(i) + SectionSize(size[f], i)
  BY <1>2 DEF Section
<1>5. Offset(i) \in Nat /\ SectionSize(size[f], i) \in Nat
  <2>1. Offset(i) \in Nat
    BY <1>3, ChunkSizeAssumption DEF Offset
  <2>2. SectionSize(size[f], i) \in 1 .. ChunkSize
    BY <1>1, <1>3, SectionSizeBounds
  <2>. QED  BY <2>1, <2>2, ChunkSizeAssumption
<1>6. s.end = IF i = NumChunks(size[f]) - 1 THEN size[f] ELSE Offset(i + 1)
  BY <1>1, <1>4, SectionEnds
<1>7. CASE i = NumChunks(size[f]) - 1
  BY <1>1, <1>4, <1>5, <1>6, <1>7
<1>8. CASE i # NumChunks(size[f]) - 1
  <2>. DEFINE n == NumChunks(size[f])
  <2>1. n * ChunkSize < size[f] + ChunkSize
    BY <1>1, NumChunksBounds
  <2>2. (n - 1) * ChunkSize = n * ChunkSize - ChunkSize
    BY <1>3, ChunkSizeAssumption
  <2>3. i + 1 <= n - 1
    BY <1>3, <1>8
  <2>. HIDE DEF n
  <2>4. (i + 1) * ChunkSize <= (n - 1) * ChunkSize
    BY <2>3, <1>3, ChunkSizeAssumption DEF n
  <2>5. Offset(i + 1) <= size[f]
    <3>1. n * ChunkSize \in Int /\ (i + 1) * ChunkSize \in Int /\ ChunkSize \in Int
      BY <1>3, ChunkSizeAssumption DEF n
    <3>. QED  BY <2>1, <2>2, <2>4, <3>1, <1>1 DEF Offset
  <2>. QED  BY <1>4, <1>5, <1>6, <1>8, <2>5
<1>. QED  BY <1>7, <1>8
-----------------------------------------------------------------------------
(* Facts that several steps of the proof need.                             *)

(* A section that the list still has is at a position. *)
LEMMA InPosition ==
  ASSUME TypeOK, ListsComplete, NEW f \in Entity, pos[f] <= Len(chunkMap[FileHash[f]])
  PROVE  pos[f] \in Position /\ <<f, pos[f]>> \in Part
<1>1. pos[f] \in Nat /\ pos[f] >= 1
  BY RestoreAssumption, MaxChunksNat DEF TypeOK
<1>2. /\ Len(chunkMap[FileHash[f]]) \in Nat
      /\ Len(chunkMap[FileHash[f]]) <= NumFiles * MaxChunks
  BY ListOfFile
<1>3. NumFiles * MaxChunks \in Nat
  BY MaxChunksNat, RestoreAssumption
<1>. QED  BY <1>1, <1>2, <1>3 DEF Position, Part

(* The metadata does not change. *)
LEMMA MetadataStays ==
  ASSUME [Next]_vars
  PROVE  size' = size /\ chunkMap' = chunkMap
<1>1. CASE MainStep
  BY <1>1 DEF MainStep, GetMetadata, TagFails, NoSuchTag, SkipEntity, StartMerge,
     OpenFails, StartWait, WaitReturns, Verify, VerifyFails, Return
<1>2. ASSUME NEW f \in Entity, MergeStep(f)
      PROVE  size' = size /\ chunkMap' = chunkMap
  BY <1>2 DEF MergeStep, NextSection, StartPart, MergeReturns
<1>3. ASSUME NEW f \in Entity, NEW k \in Position, PartStep(f, k)
      PROVE  size' = size /\ chunkMap' = chunkMap
  BY <1>3 DEF PartStep, GetChunk, ChunkMissing, WriteAt, WriteAtFails, PartDone,
     PartReleases, Moves
<1>4. CASE UNCHANGED vars
  BY <1>4 DEF vars
<1>. QED  BY <1>1, <1>2, <1>3, <1>4 DEF Next

(* ... and so the sections do not either. *)
LEMMA SectionsStay ==
  ASSUME size' = size, chunkMap' = chunkMap
  PROVE  /\ \A f, k : SectionOf(f, k)' = SectionOf(f, k)
         /\ \A f, sec : IsStored(f, sec)' = IsStored(f, sec)
         /\ \A h : Listed(h)' = Listed(h)
  BY DEF SectionOf, SectionAt, IsStored, Listed

(* The sets the counter counts are finite. *)
LEMMA CountedFinite ==
  /\ IsFiniteSet(Merging) /\ Cardinality(Merging) \in Nat
  /\ IsFiniteSet(Announced) /\ Cardinality(Announced) \in Nat
  /\ IsFiniteSet(Pending) /\ Cardinality(Pending) \in Nat
<1>1. /\ Merging \in SUBSET Entity
      /\ Announced \in SUBSET Entity
      /\ Pending \in SUBSET Part
  BY DEF Merging, Announced, Pending
<1>2. IsFiniteSet(Merging) /\ IsFiniteSet(Announced) /\ IsFiniteSet(Pending)
  BY <1>1, EntityFinite, PartFinite, FS_Subset
<1>. QED  BY <1>2, FS_CardinalityType

(* With the counter at zero nothing is left to wait for. *)
LEMMA NothingCounted ==
  ASSUME WgCounts, wg = 0
  PROVE  Merging = {} /\ Announced = {} /\ Pending = {}
<1>1. /\ Cardinality(Merging) = 0
      /\ Cardinality(Announced) = 0
      /\ Cardinality(Pending) = 0
  BY CountedFinite DEF WgCounts
<1>. QED  BY <1>1, CountedFinite, FS_EmptySet
-----------------------------------------------------------------------------
(* The invariant holds initially.                                          *)

LEMMA InitIInv == Init => IInv
<1>. SUFFICES ASSUME Init PROVE IInv
  OBVIOUS
<1>1. \A h \in Hash : chunkMap[h] \in SetToSeqs(Listed(h))
  BY DEF Init, Lists
<1>2. \A f \in Entity : FileHash[f] \in Hash
  BY DEF Hash
<1>3. ListsComplete
  BY <1>1 DEF ListsComplete
<1>4. TypeOK
  <2>1. chunkMap \in [Hash -> Seq(Entity \X (0 .. MaxChunks - 1))]
    <3>1. \A h \in Hash : chunkMap[h] \in Seq(Entity \X (0 .. MaxChunks - 1))
      BY <1>1, ListHoldsAll
    <3>2. DOMAIN chunkMap = Hash /\ chunkMap = [h \in Hash |-> chunkMap[h]]
      BY DEF Init
    <3>. QED  BY <3>1, <3>2
  <2>2. sem = 0 /\ Pool!Permits \in Nat
    BY RestoreAssumption DEF Init, Pool!New, Pool!Permits, Pool!DefaultPermits
  <2>3. Pool!TypeOK
    BY <2>2 DEF Pool!TypeOK
  <2>4. NumFiles * MaxChunks \in Nat
    BY MaxChunksNat, RestoreAssumption
  <2>. QED  BY <2>1, <2>3, <2>4, RestoreAssumption DEF Init, TypeOK, Entity
<1>5. \A f \in Entity : Len(chunkMap[FileHash[f]]) \in Nat
  BY <1>3, <1>4, ListOfFile
<1>6. WgCounts /\ Waited
  <2>1. Merging = {} /\ Announced = {} /\ Pending = {}
    BY DEF Init, Merging, Announced, Pending
  <2>2. Cardinality({}) = 0
    BY FS_EmptySet
  <2>. QED  BY <2>1, <2>2 DEF Init, WgCounts, Waited
<1>7. MergesStarted
  BY DEF Init, MergesStarted
<1>8. ListFollowed
  BY <1>5 DEF Init, ListFollowed
<1>9. PartsStarted /\ PartsStored /\ WrittenByParts
  <2>1. \A f \in Entity, k \in Position : part[<<f, k>>] = "none"
    BY DEF Init, Part
  <2>2. \A k \in Position : ~(k < 1)
    BY RestoreAssumption, MaxChunksNat DEF Position
  <2>. QED  BY <2>1, <2>2 DEF Init, PartsStarted, PartsStored, WrittenByParts, Wrote
<1>. QED  BY <1>3, <1>4, <1>6, <1>7, <1>8, <1>9 DEF IInv
-----------------------------------------------------------------------------
(* Every step preserves the invariant.                                     *)

(* The counter and the three sets it counts. *)
LEMMA WgStep ==
  ASSUME IInv, [Next]_vars
  PROVE  WgCounts'
<1>. USE DEF IInv
<1>0. /\ IsFiniteSet(Merging) /\ Cardinality(Merging) \in Nat
      /\ IsFiniteSet(Announced) /\ Cardinality(Announced) \in Nat
      /\ IsFiniteSet(Pending) /\ Cardinality(Pending) \in Nat
  BY CountedFinite
<1>1. ASSUME UNCHANGED <<merge, part, wg>>
      PROVE  WgCounts'
  <2>1. Merging' = Merging /\ Announced' = Announced /\ Pending' = Pending
    BY <1>1 DEF Merging, Announced, Pending
  <2>. QED  BY <1>1, <2>1 DEF WgCounts
<1>2. ASSUME StartMerge
      PROVE  WgCounts'
  <2>1. cursor \in Entity /\ merge[cursor] = "none"
    BY <1>2, RestoreAssumption DEF StartMerge, MergesStarted, Entity
  <2>2. merge' = [merge EXCEPT ![cursor] = "next"] /\ part' = part /\ wg' = wg + 1
    BY <1>2 DEF StartMerge
  <2>3. Merging' = Merging \cup {cursor} /\ cursor \notin Merging
    BY <2>1, <2>2 DEF Merging, TypeOK
  <2>4. Announced' = Announced
    BY <2>1, <2>2 DEF Announced, TypeOK
  <2>5. Pending' = Pending
    BY <2>2 DEF Pending
  <2>6. Cardinality(Merging') = Cardinality(Merging) + 1
    BY <2>3, <1>0, FS_AddElement
  <2>. QED  BY <2>2, <2>4, <2>5, <2>6, <1>0 DEF WgCounts
<1>3. ASSUME NEW f \in Entity, NextSection(f)
      PROVE  WgCounts'
  <2>1. merge[f] = "next" /\ merge' = [merge EXCEPT ![f] = "acquire"]
        /\ part' = part /\ wg' = wg + 1
    BY <1>3 DEF NextSection
  <2>2. Merging' = Merging
    BY <2>1 DEF Merging, TypeOK
  <2>3. Announced' = Announced \cup {f} /\ f \notin Announced
    BY <2>1 DEF Announced, TypeOK
  <2>4. Pending' = Pending
    BY <2>1 DEF Pending
  <2>5. Cardinality(Announced') = Cardinality(Announced) + 1
    BY <2>3, <1>0, FS_AddElement
  <2>. QED  BY <2>1, <2>2, <2>4, <2>5, <1>0 DEF WgCounts
<1>4. ASSUME NEW f \in Entity, StartPart(f)
      PROVE  WgCounts'
  <2>. DEFINE p == <<f, pos[f]>>
  <2>1. merge[f] = "acquire" /\ merge' = [merge EXCEPT ![f] = "next"]
        /\ part' = [part EXCEPT ![p] = "get"] /\ wg' = wg
    BY <1>4 DEF StartPart
  <2>2. pos[f] \in Position /\ p \in Part
    BY <2>1, InPosition DEF ListFollowed
  <2>3. part[p] = "none"
    <3>1. ~(pos[f] < pos[f])
      BY <2>2, RestoreAssumption, MaxChunksNat DEF Position
    <3>. QED  BY <2>2, <3>1 DEF PartsStarted
  <2>. HIDE DEF p
  <2>4. Merging' = Merging
    BY <2>1 DEF Merging, TypeOK
  <2>5. Announced' = Announced \ {f} /\ f \in Announced
    BY <2>1 DEF Announced, TypeOK
  <2>6. Pending' = Pending \cup {p} /\ p \notin Pending
    BY <2>1, <2>2, <2>3 DEF Pending, TypeOK
  <2>7. Cardinality(Announced') = Cardinality(Announced) - 1
    BY <2>5, <1>0, FS_RemoveElement
  <2>8. Cardinality(Pending') = Cardinality(Pending) + 1
    BY <2>6, <1>0, FS_AddElement
  <2>. QED  BY <2>1, <2>4, <2>7, <2>8, <1>0 DEF WgCounts
<1>5. ASSUME NEW f \in Entity, MergeReturns(f)
      PROVE  WgCounts'
  <2>1. merge[f] = "next" /\ merge' = [merge EXCEPT ![f] = "done"]
        /\ part' = part /\ wg' = wg - 1
    BY <1>5 DEF MergeReturns
  <2>2. Merging' = Merging \ {f} /\ f \in Merging
    BY <2>1 DEF Merging, TypeOK
  <2>3. Announced' = Announced
    BY <2>1 DEF Announced, TypeOK
  <2>4. Pending' = Pending
    BY <2>1 DEF Pending
  <2>5. Cardinality(Merging') = Cardinality(Merging) - 1
    BY <2>2, <1>0, FS_RemoveElement
  <2>. QED  BY <2>1, <2>3, <2>4, <2>5, <1>0 DEF WgCounts
<1>6. ASSUME NEW p \in Part, part[p] \in {"get", "write"},
             part' = [part EXCEPT ![p] = "write"] \/ part' = [part EXCEPT ![p] = "done"],
             merge' = merge, wg' = wg
      PROVE  WgCounts'
  <2>1. Merging' = Merging /\ Announced' = Announced
    BY <1>6 DEF Merging, Announced
  <2>2. Pending' = Pending
    BY <1>6 DEF Pending, TypeOK
  <2>. QED  BY <1>6, <2>1, <2>2 DEF WgCounts
<1>7. ASSUME NEW f \in Entity, NEW k \in Position, PartDone(f, k)
      PROVE  WgCounts'
  <2>. DEFINE p == <<f, k>>
  <2>1. part[p] = "done" /\ part' = [part EXCEPT ![p] = "release"]
        /\ merge' = merge /\ wg' = wg - 1 /\ p \in Part
    BY <1>7 DEF PartDone, Moves, Part
  <2>. HIDE DEF p
  <2>2. Merging' = Merging /\ Announced' = Announced
    BY <2>1 DEF Merging, Announced
  <2>3. Pending' = Pending \ {p} /\ p \in Pending
    BY <2>1 DEF Pending, TypeOK
  <2>4. Cardinality(Pending') = Cardinality(Pending) - 1
    BY <2>3, <1>0, FS_RemoveElement
  <2>. QED  BY <2>1, <2>2, <2>4, <1>0 DEF WgCounts
<1>8. ASSUME NEW f \in Entity, NEW k \in Position, PartReleases(f, k)
      PROVE  WgCounts'
  <2>. DEFINE p == <<f, k>>
  <2>1. part[p] = "release" /\ part' = [part EXCEPT ![p] = "gone"]
        /\ merge' = merge /\ wg' = wg /\ p \in Part
    BY <1>8 DEF PartReleases, Moves, Part
  <2>. HIDE DEF p
  <2>2. Merging' = Merging /\ Announced' = Announced
    BY <2>1 DEF Merging, Announced
  <2>3. Pending' = Pending
    BY <2>1 DEF Pending, TypeOK
  <2>. QED  BY <2>1, <2>2, <2>3 DEF WgCounts
<1>9. CASE MainStep
  BY <1>1, <1>2, <1>9 DEF MainStep, GetMetadata, TagFails, NoSuchTag, SkipEntity,
     OpenFails, StartWait, WaitReturns, Verify, VerifyFails, Return
<1>10. ASSUME NEW f \in Entity, NEW k \in Position, PartStep(f, k)
       PROVE  WgCounts'
  <2>1. <<f, k>> \in Part
    BY DEF Part
  <2>2. CASE GetChunk(f, k) \/ WriteAt(f, k)
    BY <1>6, <2>1, <2>2 DEF GetChunk, WriteAt, Moves
  <2>3. CASE ChunkMissing(f, k) \/ WriteAtFails(f, k)
    BY <1>1, <2>3 DEF ChunkMissing, WriteAtFails
  <2>. QED  BY <1>7, <1>8, <1>10, <2>2, <2>3 DEF PartStep
<1>11. CASE UNCHANGED vars
  BY <1>1, <1>11 DEF vars
<1>. QED  BY <1>3, <1>4, <1>5, <1>9, <1>10, <1>11 DEF Next, MergeStep

(* Only WaitReturns leaves the wait, and nothing is counted afterwards. *)
LEMMA WaitedStep ==
  ASSUME IInv, [Next]_vars
  PROVE  Waited'
<1>. USE DEF IInv
<1>1. CASE MainStep
  BY <1>1 DEF MainStep, GetMetadata, TagFails, NoSuchTag, SkipEntity, StartMerge, OpenFails,
     StartWait, WaitReturns, Verify, VerifyFails, Return, Waited
<1>2. ASSUME NEW f \in Entity, MergeStep(f)
      PROVE  Waited'
  <2>1. main' = main /\ f \in Merging
    BY <1>2 DEF MergeStep, NextSection, StartPart, MergeReturns, Merging
  <2>2. main \notin {"verify", "ok"}
    BY <2>1, NothingCounted DEF Waited
  <2>. QED  BY <2>1, <2>2 DEF Waited
<1>3. ASSUME NEW f \in Entity, NEW k \in Position, PartStep(f, k)
      PROVE  Waited'
  <2>1. CASE wg' = wg /\ main' \in {main, "exit"}
    BY <2>1 DEF Waited
  <2>2. CASE PartDone(f, k)
    <3>1. main' = main /\ <<f, k>> \in Pending
      BY <2>2 DEF PartDone, Moves, Pending, Part
    <3>2. main \notin {"verify", "ok"}
      BY <3>1, NothingCounted DEF Waited
    <3>. QED  BY <3>1, <3>2 DEF Waited
  <2>. QED  BY <1>3, <2>1, <2>2 DEF PartStep, GetChunk, ChunkMissing, WriteAt,
          WriteAtFails, PartReleases, Moves
<1>4. CASE UNCHANGED vars
  BY <1>4 DEF vars, Waited
<1>. QED  BY <1>1, <1>2, <1>3, <1>4 DEF Next

(* The loop over the entities. *)
LEMMA MergesStartedStep ==
  ASSUME IInv, [Next]_vars
  PROVE  MergesStarted'
<1>. USE DEF IInv
<1>0. size' = size /\ \A f \in Entity : size[f] \in Nat
  BY MetadataStays, RestoreAssumption DEF TypeOK
<1>1. CASE GetMetadata
  <2>1. \A f \in Entity : ~(f < 1)
    BY RestoreAssumption DEF Entity
  <2>. QED  BY <1>0, <1>1, <2>1 DEF GetMetadata, MergesStarted
<1>2. CASE SkipEntity
  <2>1. main' = main /\ merge' = merge /\ cursor' = cursor + 1 /\ size[cursor] = 0
        /\ cursor \in Entity /\ main \in {"open", "verify"}
    BY <1>2 DEF SkipEntity
  <2>2. \A f \in Entity : size[f] > 0 => (f < cursor + 1 <=> f < cursor)
    BY <2>1 DEF Entity
  <2>. QED  BY <1>0, <2>1, <2>2 DEF MergesStarted
<1>3. CASE StartMerge
  <2>1. main' = main /\ main = "open" /\ cursor' = cursor + 1 /\ size[cursor] > 0
        /\ cursor \in Entity /\ merge' = [merge EXCEPT ![cursor] = "next"]
    BY <1>3 DEF StartMerge
  <2>2. \A f \in Entity : f < cursor + 1 <=> f < cursor \/ f = cursor
    BY <2>1 DEF Entity
  <2>3. \A f \in Entity : merge'[f] = IF f = cursor THEN "next" ELSE merge[f]
    BY <2>1 DEF TypeOK
  <2>. QED  BY <1>0, <2>1, <2>2, <2>3 DEF MergesStarted
<1>4. CASE StartWait
  <2>1. main' = "wait" /\ main = "open" /\ merge' = merge /\ cursor \notin Entity
    BY <1>4 DEF StartWait
  <2>2. \A f \in Entity : f < cursor
    BY <2>1, RestoreAssumption DEF Entity, TypeOK
  <2>. QED  BY <1>0, <2>1, <2>2 DEF MergesStarted
<1>5. CASE TagFails \/ NoSuchTag \/ OpenFails \/ WaitReturns \/ Verify \/ VerifyFails \/ Return
  BY <1>0, <1>5 DEF TagFails, NoSuchTag, OpenFails, WaitReturns, Verify, VerifyFails, Return,
     MergesStarted
<1>6. ASSUME NEW f \in Entity, MergeStep(f)
      PROVE  MergesStarted'
  <2>1. main' = main /\ cursor' = cursor /\ merge[f] # "none"
    BY <1>6 DEF MergeStep, NextSection, StartPart, MergeReturns
  <2>2. \A g \in Entity : merge'[g] = "none" <=> merge[g] = "none"
    BY <1>6 DEF MergeStep, NextSection, StartPart, MergeReturns, TypeOK
  <2>. QED  BY <1>0, <2>1, <2>2 DEF MergesStarted
<1>7. ASSUME NEW f \in Entity, NEW k \in Position, PartStep(f, k)
      PROVE  MergesStarted'
  <2>1. main' \in {main, "exit"} /\ cursor' = cursor /\ merge' = merge
    BY <1>7 DEF PartStep, GetChunk, ChunkMissing, WriteAt, WriteAtFails, PartDone,
       PartReleases, Moves
  <2>. QED  BY <1>0, <2>1 DEF MergesStarted
<1>8. CASE UNCHANGED vars
  BY <1>8 DEF vars, MergesStarted
<1>. QED  BY <1>1, <1>2, <1>3, <1>4, <1>5, <1>6, <1>7, <1>8 DEF Next, MainStep

(* The loop over the sections, and the parts it has started. *)
LEMMA ListFollowedStep ==
  ASSUME IInv, [Next]_vars
  PROVE  ListFollowed' /\ PartsStarted'
<1>. USE DEF IInv
<1>. DEFINE n(f) == Len(chunkMap[FileHash[f]])
<1>0. /\ chunkMap' = chunkMap
      /\ \A f \in Entity : n(f) \in Nat /\ pos[f] \in Nat
  BY MetadataStays, ListOfFile, RestoreAssumption, MaxChunksNat DEF TypeOK
<1>. HIDE DEF n
<1>1. ASSUME UNCHANGED <<merge, pos, part>>
      PROVE  ListFollowed' /\ PartsStarted'
  BY <1>0, <1>1 DEF ListFollowed, PartsStarted
<1>2. CASE StartMerge
  <2>1. merge' = [merge EXCEPT ![cursor] = "next"] /\ pos' = pos /\ part' = part
    BY <1>2 DEF StartMerge
  <2>2. \A f \in Entity : merge'[f] \in {merge[f], "next"}
    BY <2>1 DEF TypeOK
  <2>. QED  BY <1>0, <2>1, <2>2 DEF ListFollowed, PartsStarted
<1>3. ASSUME NEW f \in Entity, NextSection(f)
      PROVE  ListFollowed' /\ PartsStarted'
  <2>1. merge' = [merge EXCEPT ![f] = "acquire"] /\ pos' = pos /\ part' = part
        /\ pos[f] <= n(f)
    BY <1>3 DEF NextSection, MoreSections, n
  <2>2. \A g \in Entity : merge'[g] = IF g = f THEN "acquire" ELSE merge[g]
    BY <2>1 DEF TypeOK
  <2>. QED  BY <1>0, <2>1, <2>2 DEF ListFollowed, PartsStarted, n
<1>4. ASSUME NEW f \in Entity, StartPart(f)
      PROVE  ListFollowed' /\ PartsStarted'
  <2>1. merge[f] = "acquire" /\ merge' = [merge EXCEPT ![f] = "next"]
        /\ pos' = [pos EXCEPT ![f] = @ + 1]
        /\ part' = [part EXCEPT ![<<f, pos[f]>>] = "get"]
    BY <1>4 DEF StartPart
  <2>2. pos[f] <= n(f) /\ <<f, pos[f]>> \in Part
    BY <2>1, InPosition DEF ListFollowed, n
  <2>3. /\ \A g \in Entity : merge'[g] = IF g = f THEN "next" ELSE merge[g]
        /\ \A g \in Entity : pos'[g] = IF g = f THEN pos[f] + 1 ELSE pos[g]
    BY <2>1 DEF TypeOK
  <2>4. ListFollowed'
    BY <1>0, <2>2, <2>3 DEF ListFollowed, n
  <2>5. ASSUME NEW g \in Entity, NEW k \in Position
        PROVE  (part[<<g, k>>] # "none" <=> k < pos[g])'
    <3>1. <<g, k>> \in Part
      BY DEF Part
    <3>2. part'[<<g, k>>] = IF g = f /\ k = pos[f] THEN "get" ELSE part[<<g, k>>]
      BY <2>1, <2>2, <3>1 DEF TypeOK
    <3>3. k \in Nat
      BY RestoreAssumption, MaxChunksNat DEF Position
    <3>4. k < pos[f] + 1 <=> k < pos[f] \/ k = pos[f]
      BY <1>0, <3>3
    <3>. QED  BY <2>3, <3>2, <3>4 DEF PartsStarted
  <2>. QED  BY <2>4, <2>5 DEF PartsStarted
<1>5. ASSUME NEW f \in Entity, MergeReturns(f)
      PROVE  ListFollowed' /\ PartsStarted'
  <2>1. merge' = [merge EXCEPT ![f] = "done"] /\ pos' = pos /\ part' = part
        /\ ~(pos[f] <= n(f))
    BY <1>5 DEF MergeReturns, MoreSections, n
  <2>2. \A g \in Entity : merge'[g] = IF g = f THEN "done" ELSE merge[g]
    BY <2>1 DEF TypeOK
  <2>. QED  BY <1>0, <2>1, <2>2 DEF ListFollowed, PartsStarted, n
<1>6. CASE MainStep
  BY <1>1, <1>2, <1>6 DEF MainStep, GetMetadata, TagFails, NoSuchTag, SkipEntity,
     OpenFails, StartWait, WaitReturns, Verify, VerifyFails, Return
<1>7. ASSUME NEW f \in Entity, NEW k \in Position, PartStep(f, k)
      PROVE  ListFollowed' /\ PartsStarted'
  <2>1. merge' = merge /\ pos' = pos
    BY <1>7 DEF PartStep, GetChunk, ChunkMissing, WriteAt, WriteAtFails, PartDone,
       PartReleases, Moves
  <2>2. <<f, k>> \in Part
    BY DEF Part
  <2>3. \A p \in Part : part'[p] = "none" <=> part[p] = "none"
    BY <1>7, <2>2 DEF PartStep, GetChunk, ChunkMissing, WriteAt, WriteAtFails,
       PartDone, PartReleases, Moves, TypeOK
  <2>4. ListFollowed'
    BY <1>0, <2>1 DEF ListFollowed
  <2>5. PartsStarted'
    BY <2>1, <2>3 DEF PartsStarted, Part
  <2>. QED  BY <2>4, <2>5
<1>8. CASE UNCHANGED vars
  BY <1>1, <1>8 DEF vars
<1>. QED  BY <1>3, <1>4, <1>5, <1>6, <1>7, <1>8 DEF Next, MergeStep

(* A part goes on only with its chunk, and what is stored stays stored. *)
LEMMA PartsStoredStep ==
  ASSUME IInv, [Next]_vars
  PROVE  PartsStored'
<1>. USE DEF IInv
<1>0. size' = size /\ chunkMap' = chunkMap
  BY MetadataStays
<1>1. \A f \in Entity, k \in Position :
        IsStored(f, SectionOf(f, k))' <=> IsStored(f, SectionOf(f, k))
  BY <1>0 DEF IsStored, SectionOf, SectionAt
<1>2. ASSUME part' = part
      PROVE  PartsStored'
  BY <1>1, <1>2 DEF PartsStored
<1>3. ASSUME NEW f \in Entity, StartPart(f)
      PROVE  PartsStored'
  <2>1. part' = [part EXCEPT ![<<f, pos[f]>>] = "get"]
    BY <1>3 DEF StartPart
  <2>2. \A p \in Part : part'[p] \in {part[p], "get"}
    BY <2>1 DEF TypeOK
  <2>. QED  BY <1>1, <2>2 DEF PartsStored, Part
<1>4. ASSUME NEW f \in Entity, NEW k \in Position, PartStep(f, k)
      PROVE  PartsStored'
  <2>1. <<f, k>> \in Part
    BY DEF Part
  <2>2. CASE GetChunk(f, k)
    <3>1. part' = [part EXCEPT ![<<f, k>>] = "write"] /\ IsStored(f, SectionOf(f, k))
      BY <2>2 DEF GetChunk, Moves
    <3>2. \A g \in Entity, j \in Position :
            part'[<<g, j>>] = IF g = f /\ j = k THEN "write" ELSE part[<<g, j>>]
      BY <2>1, <3>1 DEF TypeOK, Part
    <3>. QED  BY <1>1, <3>1, <3>2 DEF PartsStored
  <2>3. CASE WriteAt(f, k) \/ PartDone(f, k) \/ PartReleases(f, k)
    <3>1. /\ part[<<f, k>>] \in {"write", "done", "release", "gone"}
          /\ \A p \in Part \ {<<f, k>>} : part'[p] = part[p]
      BY <2>1, <2>3 DEF WriteAt, PartDone, PartReleases, Moves, TypeOK
    <3>2. IsStored(f, SectionOf(f, k))
      BY <3>1 DEF PartsStored
    <3>. QED  BY <1>1, <3>1, <3>2 DEF PartsStored, Part
  <2>4. CASE ChunkMissing(f, k) \/ WriteAtFails(f, k)
    BY <1>2, <2>4 DEF ChunkMissing, WriteAtFails
  <2>. QED  BY <1>4, <2>2, <2>3, <2>4 DEF PartStep
<1>5. CASE MainStep
  BY <1>2, <1>5 DEF MainStep, GetMetadata, TagFails, NoSuchTag, SkipEntity, StartMerge,
     OpenFails, StartWait, WaitReturns, Verify, VerifyFails, Return
<1>6. CASE UNCHANGED vars
  BY <1>2, <1>6 DEF vars
<1>. QED  BY <1>2, <1>3, <1>4, <1>5, <1>6 DEF Next, MergeStep, NextSection, MergeReturns

(* A destination grows by what a part writes, and is empty before its      *)
(* merge starts.                                                           *)
LEMMA WrittenByPartsStep ==
  ASSUME IInv, [Next]_vars
  PROVE  WrittenByParts'
<1>. USE DEF IInv
<1>0. \A f \in Entity, k \in Position : SectionOf(f, k)' = SectionOf(f, k)
  BY MetadataStays DEF SectionOf, SectionAt
<1>1. ASSUME written' = written,
             \A p \in Part : part'[p] \in Wrote <=> part[p] \in Wrote
      PROVE  WrittenByParts'
  BY <1>0, <1>1 DEF WrittenByParts, Part
<1>2. CASE StartMerge
  <2>1. /\ cursor \in Entity /\ merge[cursor] = "none"
        /\ written' = [written EXCEPT ![cursor] = {}] /\ part' = part
    BY <1>2, RestoreAssumption DEF StartMerge, MergesStarted, Entity
  <2>2. \A f \in Entity : written'[f] = IF f = cursor THEN {} ELSE written[f]
    BY <2>1 DEF TypeOK
  <2>3. \A k \in Position : part[<<cursor, k>>] = "none"
    <3>1. pos[cursor] = 1
      BY <2>1 DEF ListFollowed
    <3>2. \A k \in Position : ~(k < 1)
      BY RestoreAssumption, MaxChunksNat DEF Position
    <3>. QED  BY <2>1, <3>1, <3>2 DEF PartsStarted
  <2>4. ASSUME NEW f \in Entity, NEW b \in 0 .. MaxSize - 1
        PROVE  b \in written'[f] <=>
                 \E k \in Position : /\ part[<<f, k>>] \in Wrote
                                     /\ SectionOf(f, k).start <= b
                                     /\ b < SectionOf(f, k).end
    <3>1. CASE f = cursor
      BY <2>2, <2>3, <3>1 DEF Wrote
    <3>2. CASE f # cursor
      BY <2>2, <3>2 DEF WrittenByParts
    <3>. QED  BY <3>1, <3>2
  <2>. QED  BY <1>0, <2>1, <2>4, SMTT(40) DEF WrittenByParts
<1>3. ASSUME NEW f \in Entity, MergeStep(f)
      PROVE  WrittenByParts'
  <2>1. CASE StartPart(f)
    <3>1. /\ part' = [part EXCEPT ![<<f, pos[f]>>] = "get"] /\ written' = written
          /\ merge[f] = "acquire"
      BY <2>1 DEF StartPart
    <3>2. pos[f] \in Position /\ <<f, pos[f]>> \in Part
      BY <3>1, InPosition DEF ListFollowed
    <3>3. ~(pos[f] < pos[f])
      BY <3>2, RestoreAssumption, MaxChunksNat DEF Position
    <3>4. part[<<f, pos[f]>>] = "none"
      BY <3>2, <3>3 DEF PartsStarted
    <3>5. \A p \in Part : part'[p] \in Wrote <=> part[p] \in Wrote
      BY <3>1, <3>4 DEF TypeOK, Wrote
    <3>. QED  BY <1>1, <3>1, <3>5
  <2>. QED  BY <1>1, <1>3, <2>1 DEF MergeStep, NextSection, MergeReturns
<1>4. ASSUME NEW f \in Entity, NEW k \in Position, PartStep(f, k)
      PROVE  WrittenByParts'
  <2>0. <<f, k>> \in Part
    BY DEF Part
  <2>1. CASE WriteAt(f, k)
    <3>. DEFINE s == SectionOf(f, k)
    <3>1. /\ part[<<f, k>>] = "write" /\ part' = [part EXCEPT ![<<f, k>>] = "done"]
          /\ written' = [written EXCEPT ![f] = @ \cup (s.start .. s.end - 1)]
      BY <2>1 DEF WriteAt, Moves
    <3>2. IsStored(f, s)
      BY <3>1 DEF PartsStored
    <3>. HIDE DEF s
    <3>3. s.start \in Nat /\ s.end \in Nat
      BY <3>2, StoredInside
    <3>4. /\ \A g \in Entity, j \in Position :
               part'[<<g, j>>] = IF g = f /\ j = k THEN "done" ELSE part[<<g, j>>]
          /\ \A g \in Entity : written'[g] =
               IF g = f THEN written[f] \cup (s.start .. s.end - 1) ELSE written[g]
      BY <2>0, <3>1 DEF TypeOK, Part
    <3>5. ASSUME NEW g \in Entity, g # f
          PROVE  \A j \in Position : part'[<<g, j>>] = part[<<g, j>>]
      BY <3>4, <3>5
    <3>6. ASSUME NEW g \in Entity, NEW b \in 0 .. MaxSize - 1, g # f
          PROVE  b \in written'[g] <=>
                   \E j \in Position : /\ part'[<<g, j>>] \in Wrote
                                       /\ SectionOf(g, j).start <= b
                                       /\ b < SectionOf(g, j).end
      BY <3>4, <3>5, <3>6 DEF WrittenByParts
    <3>7. ASSUME NEW b \in 0 .. MaxSize - 1
          PROVE  b \in written'[f] <=>
                   \E j \in Position : /\ part'[<<f, j>>] \in Wrote
                                       /\ SectionOf(f, j).start <= b
                                       /\ b < SectionOf(f, j).end
      <4>1. b \in s.start .. s.end - 1 <=> s.start <= b /\ b < s.end
        BY <3>3, RestoreAssumption
      <4>2. part[<<f, k>>] \notin Wrote /\ "done" \in Wrote
        BY <3>1 DEF Wrote
      <4>3. \A j \in Position : part'[<<f, j>>] \in Wrote
                                <=> j = k \/ part[<<f, j>>] \in Wrote
        BY <3>4, <4>2
      <4>4. b \in written'[f] <=> b \in written[f] \/ b \in s.start .. s.end - 1
        BY <3>4
      <4>. QED  BY <4>1, <4>3, <4>4 DEF WrittenByParts, s
    <3>8. ASSUME NEW g \in Entity, NEW b \in 0 .. MaxSize - 1
          PROVE  b \in written'[g] <=>
                   \E j \in Position : /\ part'[<<g, j>>] \in Wrote
                                       /\ SectionOf(g, j).start <= b
                                       /\ b < SectionOf(g, j).end
      BY <3>6, <3>7
    <3>. QED  BY <1>0, <3>8, ZenonT(60) DEF WrittenByParts
  <2>2. CASE GetChunk(f, k) \/ PartDone(f, k) \/ PartReleases(f, k)
    <3>1. \A p \in Part : part'[p] \in Wrote <=> part[p] \in Wrote
      BY <2>0, <2>2 DEF GetChunk, PartDone, PartReleases, Moves, TypeOK, Wrote
    <3>. QED  BY <1>1, <2>2, <3>1 DEF GetChunk, PartDone, PartReleases
  <2>3. CASE ChunkMissing(f, k) \/ WriteAtFails(f, k)
    BY <1>1, <2>3 DEF ChunkMissing, WriteAtFails
  <2>. QED  BY <1>4, <2>1, <2>2, <2>3 DEF PartStep
<1>5. CASE MainStep
  BY <1>1, <1>2, <1>5 DEF MainStep, GetMetadata, TagFails, NoSuchTag, SkipEntity, OpenFails,
     StartWait, WaitReturns, Verify, VerifyFails, Return
<1>6. CASE UNCHANGED vars
  BY <1>1, <1>6 DEF vars
<1>. QED  BY <1>3, <1>4, <1>5, <1>6 DEF Next

(* The types. *)
LEMMA TypeStep ==
  ASSUME IInv, [Next]_vars
  PROVE  TypeOK'
<1>. USE DEF IInv
<1>0. /\ size' = size /\ chunkMap' = chunkMap
      /\ wg \in Nat /\ NumFiles \in Nat /\ NumFiles * MaxChunks \in Nat
  BY MetadataStays, MaxChunksNat, RestoreAssumption DEF TypeOK
<1>1. Pool!Permits \in Nat
  BY RestoreAssumption DEF Pool!Permits, Pool!DefaultPermits
<1>2. wg' \in Nat
  <2>1. WgCounts'
    BY WgStep
  <2>2. /\ Merging' \in SUBSET Entity /\ Announced' \in SUBSET Entity
        /\ Pending' \in SUBSET Part
    BY DEF Merging, Announced, Pending
  <2>3. /\ Cardinality(Merging') \in Nat /\ Cardinality(Announced') \in Nat
        /\ Cardinality(Pending') \in Nat
    BY <2>2, EntityFinite, PartFinite, FS_Subset, FS_CardinalityType
  <2>. QED  BY <2>1, <2>3 DEF WgCounts
<1>3. CASE MainStep
  <2>1. cursor' \in 1 .. NumFiles + 1
    BY <1>0, <1>3 DEF TypeOK, Entity, MainStep, GetMetadata, TagFails, NoSuchTag, SkipEntity,
       StartMerge, OpenFails, StartWait, WaitReturns, Verify, VerifyFails, Return
  <2>2. /\ main' \in {"get", "open", "wait", "verify", "ok", "error", "exit"}
        /\ pos' = pos /\ part' = part /\ sem' = sem
    BY <1>3 DEF TypeOK, MainStep, GetMetadata, TagFails, NoSuchTag, SkipEntity,
       StartMerge, OpenFails, StartWait, WaitReturns, Verify, VerifyFails, Return
  <2>3. /\ merge' \in [Entity -> {"none", "next", "acquire", "done"}]
        /\ written' \in [Entity -> SUBSET (0 .. MaxSize - 1)]
    BY <1>3 DEF TypeOK, MainStep, GetMetadata, TagFails, NoSuchTag, SkipEntity,
       StartMerge, OpenFails, StartWait, WaitReturns, Verify, VerifyFails, Return
  <2>. QED  BY <1>0, <1>2, <2>1, <2>2, <2>3 DEF TypeOK, Pool!TypeOK, Pool!Permits,
          Pool!DefaultPermits
<1>4. ASSUME NEW f \in Entity, MergeStep(f)
      PROVE  TypeOK'
  <2>1. /\ main' = main /\ cursor' = cursor /\ written' = written
        /\ merge' \in [Entity -> {"none", "next", "acquire", "done"}]
    BY <1>4 DEF MergeStep, NextSection, StartPart, MergeReturns, TypeOK
  <2>2. part' \in [Part -> {"none", "get", "write", "done", "release", "gone"}]
    BY <1>4 DEF MergeStep, NextSection, StartPart, MergeReturns, TypeOK
  <2>4. Pool!TypeOK'
    <3>1. sem \in 0 .. Pool!Permits /\ (sem' = sem \/ (sem < Pool!Permits /\ sem' = sem + 1))
      BY <1>4 DEF MergeStep, NextSection, StartPart, MergeReturns, TypeOK,
         Pool!TypeOK, Pool!Acquire
    <3>2. sem' \in 0 .. Pool!Permits
      BY <1>1, <3>1
    <3>. QED  BY <3>2 DEF Pool!TypeOK, Pool!Permits, Pool!DefaultPermits
  <2>3. pos' \in [Entity -> 1 .. NumFiles * MaxChunks + 1]
    <3>1. CASE StartPart(f)
      <4>1. pos[f] \in Position
        BY <3>1, InPosition DEF StartPart, ListFollowed
      <4>2. pos[f] + 1 \in 1 .. NumFiles * MaxChunks + 1
        BY <1>0, <4>1 DEF Position
      <4>. QED  BY <3>1, <4>2 DEF StartPart, TypeOK
    <3>. QED  BY <1>4, <3>1 DEF MergeStep, NextSection, MergeReturns, TypeOK
  <2>. QED  BY <1>0, <1>2, <2>1, <2>2, <2>3, <2>4 DEF TypeOK
<1>5. ASSUME NEW f \in Entity, NEW k \in Position, PartStep(f, k)
      PROVE  TypeOK'
  <2>1. /\ main' \in {main, "exit"} /\ cursor' = cursor /\ merge' = merge /\ pos' = pos
        /\ part' \in [Part -> {"none", "get", "write", "done", "release", "gone"}]
    BY <1>5 DEF PartStep, GetChunk, ChunkMissing, WriteAt, WriteAtFails, PartDone,
       PartReleases, Moves, TypeOK
  <2>2. Pool!TypeOK'
    BY <1>1, <1>5 DEF PartStep, GetChunk, ChunkMissing, WriteAt, WriteAtFails, PartDone,
       PartReleases, Moves, TypeOK, Pool!TypeOK, Pool!Release, Pool!Permits,
       Pool!DefaultPermits
  <2>3. written' \in [Entity -> SUBSET (0 .. MaxSize - 1)]
    <3>1. CASE WriteAt(f, k)
      <4>. DEFINE s == SectionOf(f, k)
      <4>1. /\ part[<<f, k>>] = "write"
            /\ written' = [written EXCEPT ![f] = @ \cup (s.start .. s.end - 1)]
        BY <3>1 DEF WriteAt, Moves
      <4>2. IsStored(f, s)
        BY <4>1 DEF PartsStored
      <4>. HIDE DEF s
      <4>3. s.start \in Nat /\ s.end \in Nat /\ s.end <= size[f]
        BY <4>2, StoredInside
      <4>4. size[f] \in Nat /\ size[f] <= MaxSize /\ MaxSize \in Nat
        BY RestoreAssumption DEF TypeOK
      <4>5. s.start .. s.end - 1 \subseteq 0 .. MaxSize - 1
        BY <4>3, <4>4
      <4>. QED  BY <4>1, <4>5 DEF TypeOK
    <3>. QED  BY <1>5, <3>1 DEF PartStep, GetChunk, ChunkMissing, WriteAtFails, PartDone,
            PartReleases, TypeOK
  <2>. QED  BY <1>0, <1>2, <2>1, <2>2, <2>3 DEF TypeOK
<1>6. CASE UNCHANGED vars
  BY <1>6 DEF vars, TypeOK, Pool!TypeOK, Pool!Permits, Pool!DefaultPermits
<1>. QED  BY <1>3, <1>4, <1>5, <1>6 DEF Next

(* Listed and with it ListsComplete depend on the metadata only. *)
LEMMA ListsCompleteStep ==
  ASSUME IInv, [Next]_vars
  PROVE  ListsComplete'
<1>1. size' = size /\ chunkMap' = chunkMap
  BY MetadataStays
<1>2. \A h \in Hash : Listed(h)' = Listed(h)
  BY <1>1 DEF Listed
<1>. QED  BY <1>1, <1>2 DEF IInv, ListsComplete, SetToSeqs

LEMMA NextIInv == IInv /\ [Next]_vars => IInv'
  BY TypeStep, ListsCompleteStep, WgStep, WaitedStep, MergesStartedStep,
     ListFollowedStep, PartsStoredStep, WrittenByPartsStep DEF IInv

THEOREM RestoreInvariant == Spec => []IInv
  BY InitIInv, NextIInv, PTL DEF Spec
-----------------------------------------------------------------------------
(* What follows from the invariant.                                        *)

(* Every variable of Restore has its type. *)
THEOREM RestoreTypeCorrect == Spec => []TypeOK
<1>1. IInv => TypeOK
  BY DEF IInv
<1>. QED  BY <1>1, RestoreInvariant, PTL

(* With nothing left to wait for, a merge has started and ended a part for *)
(* each section of its list.                                               *)
LEMMA AllPartsWrote ==
  ASSUME IInv, main = "ok", NEW f \in Entity, size[f] > 0,
         NEW k \in 1 .. Len(chunkMap[FileHash[f]])
  PROVE  k \in Position /\ part[<<f, k>>] \in Wrote
<1>. USE DEF IInv
<1>1. Merging = {} /\ Pending = {}
  BY NothingCounted DEF Waited
<1>2. merge[f] = "done"
  <2>1. merge[f] # "none"
    BY DEF MergesStarted
  <2>2. f \notin Merging
    BY <1>1
  <2>. QED  BY <2>1, <2>2 DEF Merging, TypeOK
<1>3. pos[f] > Len(chunkMap[FileHash[f]])
  BY <1>2 DEF ListFollowed
<1>4. /\ Len(chunkMap[FileHash[f]]) \in Nat
      /\ Len(chunkMap[FileHash[f]]) <= NumFiles * MaxChunks
      /\ NumFiles * MaxChunks \in Nat
      /\ pos[f] \in Nat
  <2>1. /\ Len(chunkMap[FileHash[f]]) \in Nat
        /\ Len(chunkMap[FileHash[f]]) <= NumFiles * MaxChunks
    BY ListOfFile
  <2>2. NumFiles * MaxChunks \in Nat
    BY RestoreAssumption, MaxChunksNat
  <2>3. pos[f] \in Nat
    BY <2>2 DEF TypeOK
  <2>. QED  BY <2>1, <2>2, <2>3
<1>5. k \in Position /\ k < pos[f]
  BY <1>3, <1>4 DEF Position
<1>6. <<f, k>> \in Part /\ part[<<f, k>>] # "none"
  BY <1>5 DEF PartsStarted, Part
<1>7. <<f, k>> \notin Pending
  BY <1>1
<1>. QED  BY <1>5, <1>6, <1>7 DEF Pending, Wrote, TypeOK

(* A destination holds nothing beyond the end of its file. *)
LEMMA WrittenInside ==
  ASSUME IInv, NEW f \in Entity
  PROVE  written[f] \subseteq 0 .. size[f] - 1
<1>. USE DEF IInv
<1>. SUFFICES ASSUME NEW b \in written[f] PROVE b \in 0 .. size[f] - 1
  OBVIOUS
<1>1. b \in 0 .. MaxSize - 1 /\ size[f] \in Nat /\ MaxSize \in Nat
  BY RestoreAssumption DEF TypeOK
<1>2. PICK k \in Position : /\ part[<<f, k>>] \in Wrote
                            /\ SectionOf(f, k).start <= b
                            /\ b < SectionOf(f, k).end
  BY <1>1 DEF WrittenByParts
<1>3. IsStored(f, SectionOf(f, k))
  BY <1>2 DEF PartsStored, Wrote
<1>4. SectionOf(f, k).end \in Nat /\ SectionOf(f, k).end <= size[f]
  BY <1>3, StoredInside
<1>. QED  BY <1>1, <1>2, <1>4

(* A Restore that returns without an error has put every byte of every     *)
(* file at its place, and no other (operation.go:180-240, 242-296).        *)
THEOREM RestoreIsExact == Spec => []RestoredExactly
<1>1. IInv => RestoredExactly
  <2>. SUFFICES ASSUME IInv, main = "ok", NEW f \in Entity
                PROVE  written[f] = 0 .. size[f] - 1
    BY DEF RestoredExactly
  <2>. USE DEF IInv
  <2>1. size[f] \in Nat /\ size[f] <= MaxSize /\ MaxSize \in Nat
    BY RestoreAssumption DEF TypeOK
  <2>2. ASSUME NEW b \in 0 .. size[f] - 1
        PROVE  b \in written[f]
    <3>0. size[f] > 0 /\ b \in 0 .. MaxSize - 1
      BY <2>1
    <3>1. PICK i \in 0 .. NumChunks(size[f]) - 1 :
            Section(size[f], i).start <= b /\ b < Section(size[f], i).end
      BY <2>1, SectionsTile
    <3>2. PICK k \in 1 .. Len(chunkMap[FileHash[f]]) :
            chunkMap[FileHash[f]][k] = <<f, i>>
      BY ListOfFile
    <3>3. SectionOf(f, k) = Section(size[f], i)
      BY <3>2 DEF SectionOf, SectionAt
    <3>4. k \in Position /\ part[<<f, k>>] \in Wrote
      BY <3>0, AllPartsWrote
    <3>. QED  BY <3>0, <3>1, <3>3, <3>4 DEF WrittenByParts
  <2>. QED  BY <2>2, WrittenInside
<1>. QED  BY <1>1, RestoreInvariant, PTL

(* Once Wait has returned, no goroutine of the Restore touches a file any  *)
(* more (operation.go:215-239).                                            *)
THEOREM RestoreIsQuiet == Spec => QuietAfterWait
<1>1. ASSUME IInv, [Next]_vars, main \in {"verify", "ok"}
      PROVE  written' = written
  <2>1. Pending = {}
    BY <1>1, NothingCounted DEF IInv, Waited
  <2>2. ASSUME NEW f \in Entity, NEW k \in Position, WriteAt(f, k)
        PROVE  FALSE
    <3>1. <<f, k>> \in Pending
      BY <2>2 DEF WriteAt, Moves, Pending, Part
    <3>. QED  BY <2>1, <3>1
  <2>3. CASE MainStep
    BY <1>1, <2>3 DEF MainStep, GetMetadata, TagFails, NoSuchTag, SkipEntity, StartMerge,
       OpenFails, StartWait, WaitReturns, Verify, VerifyFails, Return
  <2>4. ASSUME NEW f \in Entity, MergeStep(f)
        PROVE  written' = written
    BY <2>4 DEF MergeStep, NextSection, StartPart, MergeReturns
  <2>5. ASSUME NEW f \in Entity, NEW k \in Position, PartStep(f, k)
        PROVE  written' = written
    BY <2>2, <2>5 DEF PartStep, GetChunk, ChunkMissing, WriteAtFails, PartDone,
       PartReleases
  <2>6. CASE UNCHANGED vars
    BY <2>6 DEF vars
  <2>. QED  BY <1>1, <2>3, <2>4, <2>5, <2>6 DEF Next
<1>2. IInv /\ [Next]_vars => [(main \in {"verify", "ok"}) => UNCHANGED written]_vars
  BY <1>1
<1>. QED  BY <1>2, RestoreInvariant, PTL DEF Spec, QuietAfterWait
=============================================================================
