------------------------------ MODULE Chunking ------------------------------
(***************************************************************************)
(* The arithmetic with which split cuts a file into sections               *)
(* (operation.go, Multipart.split) and the section record it builds        *)
(* (pkg/section/section.go, New).  Sizes and offsets are int64 in the      *)
(* code; every value here stays below size + ChunkSize, so the width is    *)
(* not reached and the numbers are plain naturals.                         *)
(***************************************************************************)
EXTENDS Integers

CONSTANT ChunkSize      \* s.chunkSize; New replaces 0 by the 8 MiB default

ASSUME ChunkSizeAssumption == ChunkSize \in Nat \ {0}

(* nchunks := int((fileSize + cs - 1) / cs) *)
NumChunks(size) == (size + ChunkSize - 1) \div ChunkSize

(* offset := int64(i) * cs *)
Offset(i) == i * ChunkSize

(* Mutant of SectionSize: every chunk takes the remainder. *)
SectionSizeShort(size, i) ==
  IF size % ChunkSize # 0 THEN size % ChunkSize ELSE ChunkSize

(* The last chunk takes the remainder, if there is one. *)
SectionSize(size, i) ==
  IF size % ChunkSize # 0 /\ i = NumChunks(size) - 1
  THEN size % ChunkSize
  ELSE ChunkSize

(* What section.New records and the snapshot metadata keeps. *)
Section(size, i) ==
  [start |-> Offset(i), end |-> Offset(i) + SectionSize(size, i),
   size |-> SectionSize(size, i), number |-> i]

Sections(size) == {Section(size, i) : i \in 0 .. NumChunks(size) - 1}
=============================================================================
