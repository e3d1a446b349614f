--------------------------- MODULE ChunkerProofs ----------------------------
(***************************************************************************)
(* Proofs about Chunker, for all files, sizes and read lengths.            *)
(***************************************************************************)
EXTENDS Chunker, SequenceTheorems, TLAPS

(* The buffer lies inside the file, and reaches its end once eof is set.    *)
BufferOK ==
    /\ start <= fetched /\ fetched <= file.size
    /\ eof => fetched = file.size
    /\ pc = "done" => eof /\ start = fetched

Inv == TypeOK /\ BufferOK /\ Tiles /\ ContentDefined /\ SizesInBounds

(* A file that is read as far as max_size, or to its end, has the chunk the *)
(* whole file has.                                                          *)
LEMMA ChunkOfBuffer ==
    ASSUME NEW f \in File, NEW s \in Nat, NEW available \in Nat,
           available = f.size - s \/ (available >= MaxSize /\ f.size - s >= MaxSize),
           NEW n, IsChunk(f, s, available, n)
    PROVE  IsChunk(f, s, f.size - s, n)
<1>1. f.size \in Nat BY DEF File
<1>2. Limit(available) = Limit(f.size - s)
  BY <1>1, SizesAssumption DEF Limit
<1>3. Cuts(f, s, available) = Cuts(f, s, f.size - s)
  BY <1>2 DEF Cuts
<1> QED BY <1>2, <1>3 DEF IsChunk

(* What a chunk's length is bounded by.                                     *)
LEMMA ChunkBounds ==
    ASSUME NEW f, NEW s \in Nat, NEW available \in Nat, NEW n \in Nat,
           IsChunk(f, s, available, n)
    PROVE  n <= MaxSize /\ (n > MinSize \/ n = available)
<1>1. CASE n \in Cuts(f, s, available)
  BY <1>1, SizesAssumption DEF Cuts, Limit
<1>2. CASE n = Limit(available)
  BY <1>2, SizesAssumption DEF Limit
<1> QED BY <1>1, <1>2 DEF IsChunk

LEMMA InitInv == Init => Inv
<1> SUFFICES ASSUME Init PROVE Inv
  OBVIOUS
<1>1. file \in File /\ file.size \in Nat
  BY FilesAssumption DEF Init, File
<1>2. chunks = <<>> /\ DOMAIN chunks = {} /\ chunks \in Seq(Chunk)
  BY DEF Init
<1>3. TypeOK BY <1>1, <1>2 DEF Init, TypeOK
<1>6. BufferOK BY <1>1 DEF Init, BufferOK
<1>4. Tiles BY <1>2 DEF Init, Tiles
<1>5. ContentDefined /\ SizesInBounds BY <1>2 DEF ContentDefined, SizesInBounds
<1> QED BY <1>3, <1>4, <1>5, <1>6 DEF Inv

LEMMA CutInv == Inv /\ Cut => Inv'
<1> SUFFICES ASSUME Inv, Cut PROVE Inv'
  OBVIOUS
<1> USE DEF Inv
<1>1. PICK n \in 1..Available :
        /\ IsChunk(file, start, Available, n)
        /\ chunks' = Append(chunks, [offset |-> start, length |-> n])
        /\ start' = start + n
  BY DEF Cut
<1>2. UNCHANGED <<file, fetched, eof, pc>> /\ pc = "next" /\ ~NeedsMore
  BY DEF Cut
<1>3. /\ start \in Nat /\ fetched \in Nat /\ file \in File /\ file.size \in Nat
      /\ chunks \in Seq(Chunk) /\ Available \in Nat /\ n \in Nat \ {0}
  BY <1>1 DEF TypeOK, BufferOK, File, Available
<1> DEFINE c == [offset |-> start, length |-> n]
           k == Len(chunks)
<1>4. c \in Chunk BY <1>3 DEF Chunk
<1>5. /\ chunks' \in Seq(Chunk) /\ Len(chunks') = k + 1 /\ chunks'[k + 1] = c
      /\ \A i \in 1..k : chunks'[i] = chunks[i]
      /\ k \in Nat
  BY <1>1, <1>3, <1>4, AppendProperties
<1>6. /\ DOMAIN chunks' = 1..(k + 1) /\ DOMAIN chunks = 1..k
      /\ chunks = <<>> <=> k = 0
      /\ chunks' # <<>>
  BY <1>3, <1>5, EmptySeq
<1>7. c.offset = start /\ c.length = n /\ End(c) = start + n
  BY DEF End
<1> HIDE DEF c, k
<1>8. TypeOK'
  BY <1>1, <1>2, <1>3, <1>5 DEF TypeOK
<1>9. BufferOK'
  BY <1>1, <1>2, <1>3 DEF BufferOK, Available
<1>10. Tiles'
  <2>1. ASSUME NEW i \in 1..(k + 1)
        PROVE  chunks'[i].offset = IF i = 1 THEN 0 ELSE End(chunks'[i - 1])
    <3>1. CASE i \in 1..k
      <4>1. i # 1 => i - 1 \in 1..k BY <1>5, <3>1
      <4> QED BY <1>5, <1>6, <3>1, <4>1 DEF Tiles
    <3>2. CASE i = k + 1
      <4>1. chunks'[i].offset = start BY <1>5, <1>7, <3>2
      <4>2. k # 0 => k \in 1..k /\ chunks'[k] = chunks[k] BY <1>5
      <4>3. start = IF k = 0 THEN 0 ELSE End(chunks[k]) BY <1>6 DEF Tiles, k
      <4> QED BY <1>5, <3>2, <4>1, <4>2, <4>3
    <3> QED BY <1>5, <3>1, <3>2
  <2>2. start' = End(chunks'[Len(chunks')])
    BY <1>1, <1>5, <1>7
  <2> QED BY <1>2, <1>6, <2>1, <2>2 DEF Tiles
<1>11. IsChunk(file, start, file.size - start, n)
  <2>1. Available = file.size - start \/ (Available >= MaxSize
                                           /\ file.size - start >= MaxSize)
    BY <1>2, <1>3, SizesAssumption DEF NeedsMore, BufferOK, Available
  <2> QED BY <1>1, <1>3, <2>1, ChunkOfBuffer
<1>12. ContentDefined'
  BY <1>2, <1>5, <1>6, <1>7, <1>11 DEF ContentDefined
<1>13. SizesInBounds'
  <2>1. n <= MaxSize /\ (n > MinSize \/ n = file.size - start)
    <3>1. file.size - start \in Nat BY <1>3 DEF BufferOK
    <3> QED BY <1>3, <1>11, <3>1, ChunkBounds
  <2>2. End(c) < file.size => n > MinSize
    BY <1>3, <1>7, <2>1
  <2>3. ASSUME NEW i \in 1..(k + 1)
        PROVE  /\ chunks'[i].length <= MaxSize
               /\ End(chunks'[i]) < file.size => chunks'[i].length > MinSize
    <3>1. CASE i \in 1..k BY <1>5, <1>6, <3>1 DEF SizesInBounds
    <3>2. CASE i = k + 1 BY <1>5, <1>7, <2>1, <2>2, <3>2
    <3> QED BY <1>5, <3>1, <3>2
  <2> QED BY <1>2, <1>6, <2>3 DEF SizesInBounds
<1> QED BY <1>8, <1>9, <1>10, <1>12, <1>13

LEMMA NextInv == Inv /\ [Next]_vars => Inv'
<1> SUFFICES ASSUME Inv, [Next]_vars PROVE Inv'
  OBVIOUS
<1> USE DEF Inv
<1>0. file.size \in Nat BY DEF TypeOK, File
<1>1. CASE Fill
  <2>1. UNCHANGED <<file, start, chunks, pc>> /\ pc = "next" /\ ~eof
    BY <1>1 DEF Fill, NeedsMore
  <2>2. TypeOK' /\ BufferOK'
    <3>1. CASE fetched = file.size
      BY <1>1, <2>1, <3>1 DEF Fill, TypeOK, BufferOK
    <3>2. CASE fetched # file.size
      <4>1. PICK n \in 1..ReadSize : fetched + n <= file.size /\ fetched' = fetched + n
        BY <1>1, <3>2 DEF Fill
      <4>2. UNCHANGED eof BY <1>1, <3>2 DEF Fill
      <4>3. n \in Nat /\ fetched \in Nat /\ start \in Nat
        BY SizesAssumption DEF TypeOK
      <4>4. TypeOK' BY <2>1, <4>1, <4>2, <4>3 DEF TypeOK
      <4>5. BufferOK' BY <1>0, <2>1, <4>1, <4>2, <4>3 DEF BufferOK
      <4> QED BY <4>4, <4>5
    <3> QED BY <3>1, <3>2
  <2> QED BY <2>1, <2>2 DEF Tiles, ContentDefined, SizesInBounds
<1>2. CASE ReadFails
  BY <1>2 DEF ReadFails, TypeOK, BufferOK, Tiles, ContentDefined, SizesInBounds
<1>3. CASE Cut BY <1>3, CutInv
<1>4. CASE Finish
  <2>1. eof /\ start = fetched
    BY <1>4, SizesAssumption DEF Finish, NeedsMore, Available, TypeOK
  <2> QED BY <1>4, <2>1
          DEF Finish, TypeOK, BufferOK, Tiles, ContentDefined, SizesInBounds
<1>5. CASE UNCHANGED vars
  BY <1>5 DEF vars, TypeOK, BufferOK, Tiles, ContentDefined, SizesInBounds
<1> QED BY <1>1, <1>2, <1>3, <1>4, <1>5 DEF Next

(* However the reads are split, the chunks returned tile the file, so that  *)
(* next_chunk loses and repeats nothing.                                    *)
THEOREM ChunksTile == Spec => []Tiles
<1>1. Inv => Tiles BY DEF Inv
<1> QED BY <1>1, InitInv, NextInv, PTL DEF Spec

(* Where next_chunk cuts depends on the file alone, never on the reads: the *)
(* same content yields the same chunks on both sides of a sync.             *)
THEOREM ChunksContentDefined == Spec => []ContentDefined
<1>1. Inv => ContentDefined BY DEF Inv
<1> QED BY <1>1, InitInv, NextInv, PTL DEF Spec

(* Every chunk but the last is longer than min_size, none than max_size.    *)
THEOREM ChunkSizes == Spec => []SizesInBounds
<1>1. Inv => SizesInBounds BY DEF Inv
<1> QED BY <1>1, InitInv, NextInv, PTL DEF Spec
=============================================================================
