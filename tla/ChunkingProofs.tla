--------------------------- MODULE ChunkingProofs ---------------------------
(***************************************************************************)
(* Facts about the chunk arithmetic of split, for every chunk size and     *)
(* every file size.                                                        *)
(***************************************************************************)
EXTENDS Chunking, TLAPS

(* The number of chunks is the size over the chunk size, rounded up        *)
(* (operation.go:81).                                                      *)
THEOREM NumChunksBounds ==
  ASSUME NEW size \in Nat
  PROVE  /\ NumChunks(size) \in Nat
         /\ size <= NumChunks(size) * ChunkSize
         /\ NumChunks(size) * ChunkSize < size + ChunkSize
  BY ChunkSizeAssumption DEF NumChunks

(* An empty file has no chunk, any other file has one. *)
LEMMA NumChunksZero ==
  ASSUME NEW size \in Nat
  PROVE  NumChunks(size) = 0 <=> size = 0
<1>1. size = 0 => NumChunks(size) = 0
  BY ChunkSizeAssumption DEF NumChunks
<1>2. NumChunks(size) = 0 => size = 0
  BY NumChunksBounds, ChunkSizeAssumption
<1>. QED  BY <1>1, <1>2

(* A longer file has at least as many chunks. *)
LEMMA NumChunksMonotone ==
  ASSUME NEW m \in Nat, NEW n \in Nat, m <= n
  PROVE  NumChunks(m) <= NumChunks(n)
<1>. DEFINE a == NumChunks(m)
            b == NumChunks(n)
<1>1. a \in Nat /\ b \in Nat /\ a * ChunkSize < m + ChunkSize /\ n <= b * ChunkSize
  BY NumChunksBounds
<1>2. a * ChunkSize < (b + 1) * ChunkSize
  BY <1>1, ChunkSizeAssumption
<1>. HIDE DEF a, b
<1>3. a < b + 1
  BY <1>1, <1>2, ChunkSizeAssumption
<1>. QED  BY <1>1, <1>3 DEF a, b

(* Every chunk has between one and ChunkSize bytes. *)
LEMMA SectionSizeBounds ==
  ASSUME NEW size \in Nat, NEW i \in Nat
  PROVE  SectionSize(size, i) \in 1 .. ChunkSize
<1>1. size % ChunkSize \in 0 .. ChunkSize - 1
  BY ChunkSizeAssumption
<1>. QED  BY <1>1, ChunkSizeAssumption DEF SectionSize

(* Every chunk but the last is followed by the next without a gap or an    *)
(* overlap, and the last one ends where the file ends.                     *)
LEMMA SectionEnds ==
  ASSUME NEW size \in Nat, NEW i \in 0 .. NumChunks(size) - 1
  PROVE  Offset(i) + SectionSize(size, i) =
           IF i = NumChunks(size) - 1 THEN size ELSE Offset(i + 1)
<1>. DEFINE n == NumChunks(size)
            r == size % ChunkSize
            q == size \div ChunkSize
<1>1. n \in Nat /\ size <= n * ChunkSize /\ n * ChunkSize < size + ChunkSize
  BY NumChunksBounds
<1>2. /\ q \in Nat /\ r \in 0 .. ChunkSize - 1
      /\ size = (q * ChunkSize) + r
  BY ChunkSizeAssumption
<1>3. n = IF r = 0 THEN q ELSE q + 1
  <2>. HIDE DEF n, r, q
  <2>1. CASE r = 0
    <3>1. q * ChunkSize <= n * ChunkSize /\ n * ChunkSize < (q + 1) * ChunkSize
      BY <1>1, <1>2, <2>1, ChunkSizeAssumption
    <3>2. q <= n /\ n < q + 1
      BY <3>1, <1>1, <1>2, ChunkSizeAssumption
    <3>. QED  BY <3>2, <2>1, <1>1, <1>2
  <2>2. CASE r # 0
    <3>1. q * ChunkSize < n * ChunkSize /\ n * ChunkSize < (q + 2) * ChunkSize
      BY <1>1, <1>2, <2>2, ChunkSizeAssumption
    <3>2. q < n /\ n < q + 2
      BY <3>1, <1>1, <1>2, ChunkSizeAssumption
    <3>. QED  BY <3>2, <2>2, <1>1, <1>2
  <2>. QED  BY <2>1, <2>2
<1>4. SectionSize(size, i) = IF r # 0 /\ i = n - 1 THEN r ELSE ChunkSize
  BY DEF SectionSize
<1>5. i \in Nat /\ i <= n - 1
  BY <1>1
<1>. HIDE DEF n, r, q
<1>6. CASE i = n - 1
  <2>1. CASE r = 0
    <3>1. (i * ChunkSize) + ChunkSize = q * ChunkSize
      BY <1>3, <1>5, <1>6, <2>1, <1>2, ChunkSizeAssumption
    <3>. QED  BY <3>1, <2>1, <1>6, <1>4, <1>2, ChunkSizeAssumption DEF Offset, n
  <2>2. CASE r # 0
    <3>1. i = q
      BY <1>3, <1>5, <1>6, <2>2, <1>2
    <3>. QED  BY <3>1, <2>2, <1>6, <1>4, <1>2, ChunkSizeAssumption DEF Offset, n
  <2>. QED  BY <2>1, <2>2
<1>7. CASE i # n - 1
  <2>1. SectionSize(size, i) = ChunkSize
    BY <1>4, <1>7
  <2>2. (i * ChunkSize) + ChunkSize = (i + 1) * ChunkSize
    BY <1>5, ChunkSizeAssumption
  <2>. QED  BY <2>1, <2>2, <1>7, <1>5 DEF Offset, n
<1>. QED  BY <1>6, <1>7

(* A section holds a byte exactly when it is the one the offset of the     *)
(* byte over the chunk size names.                                         *)
LEMMA SectionHolds ==
  ASSUME NEW size \in Nat, NEW b \in 0 .. size - 1,
         NEW i \in 0 .. NumChunks(size) - 1
  PROVE  Section(size, i).start <= b /\ b < Section(size, i).end
           <=> i = b \div ChunkSize
<1>. DEFINE j == b \div ChunkSize
            n == NumChunks(size)
<1>1. /\ j \in Nat
      /\ j * ChunkSize <= b
      /\ b < (j + 1) * ChunkSize
  BY ChunkSizeAssumption
<1>2. n \in Nat /\ i \in Nat /\ i <= n - 1 /\ size <= n * ChunkSize
  BY NumChunksBounds
<1>3. Section(size, i).start = i * ChunkSize
  BY DEF Section, Offset
<1>4. Section(size, i).end = IF i = n - 1 THEN size ELSE (i + 1) * ChunkSize
  BY SectionEnds DEF Section, Offset
<1>. HIDE DEF j, n
<1>5. ASSUME i * ChunkSize <= b, b < (i + 1) * ChunkSize  PROVE i = j
  <2>1. i * ChunkSize < (j + 1) * ChunkSize /\ j * ChunkSize < (i + 1) * ChunkSize
    BY <1>1, <1>2, <1>5, ChunkSizeAssumption
  <2>2. i < j + 1 /\ j < i + 1
    BY <2>1, <1>1, <1>2, ChunkSizeAssumption
  <2>. QED  BY <2>2, <1>1, <1>2
<1>6. i = n - 1 => size <= (i + 1) * ChunkSize
  BY <1>2
<1>7. ASSUME Section(size, i).start <= b, b < Section(size, i).end
      PROVE  i = j
  <2>1. b < (i + 1) * ChunkSize
    BY <1>7, <1>4, <1>6, <1>2, ChunkSizeAssumption
  <2>. QED  BY <2>1, <1>7, <1>3, <1>5
<1>8. ASSUME i = j
      PROVE  Section(size, i).start <= b /\ b < Section(size, i).end
  BY <1>8, <1>1, <1>3, <1>4
<1>. QED  BY <1>7, <1>8 DEF j

(* The sections tile the file: every byte of a file of any size is in      *)
(* exactly one of them (operation.go:81-104).                              *)
THEOREM SectionsTile ==
  ASSUME NEW size \in Nat, NEW b \in 0 .. size - 1
  PROVE  \E j \in 0 .. NumChunks(size) - 1 :
           \A i \in 0 .. NumChunks(size) - 1 :
             Section(size, i).start <= b /\ b < Section(size, i).end <=> i = j
<1>. DEFINE j == b \div ChunkSize
            n == NumChunks(size)
<1>1. /\ j \in Nat
      /\ j * ChunkSize <= b
  BY ChunkSizeAssumption
<1>2. n \in Nat /\ size <= n * ChunkSize
  BY NumChunksBounds
<1>3. j \in 0 .. n - 1
  <2>. HIDE DEF j, n
  <2>1. j * ChunkSize < n * ChunkSize
    BY <1>1, <1>2, ChunkSizeAssumption
  <2>2. j < n
    BY <2>1, <1>1, <1>2, ChunkSizeAssumption
  <2>. QED  BY <2>2, <1>1, <1>2
<1>. QED  BY <1>3, SectionHolds
=============================================================================
