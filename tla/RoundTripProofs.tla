-------------------------- MODULE RoundTripProofs ---------------------------
(***************************************************************************)
(* Delta, patch and verify give the new file back: for all files, however  *)
(* they are chunked, and for all limits of buffers and merges.             *)
(***************************************************************************)
EXTENDS RoundTrip, VerifyProofs, SequenceTheorems, WellFoundedInduction

(* Instruction x, applied to the old file, writes the bytes of the new file *)
(* after the first `from` of them, as far as the first `to`.                *)
Writes(x, from, to) ==
    /\ from <= to
    /\ x.op = "Copy" => x.length > 0 /\ x.offset + x.length <= Len(old.bytes)
    /\ Effect(x) = SubSeq(new, from + 1, to)

(* How the instructions s cut up the first n bytes of the new file: the     *)
(* k-th writes what is between the cuts k - 1 and k.                        *)
CutsOf(s, n) ==
    {b \in [0..Len(s) -> 0..Len(new)] :
        /\ b[0] = 0 /\ b[Len(s)] = n
        /\ \A k \in 1..Len(s) : Writes(s[k], b[k - 1], b[k])}

(* While the new file is scanned, the instructions write what was scanned   *)
(* but for the literals.                                                    *)
Scanning ==
    /\ literal = SubSeq(new, pos - Len(literal) + 1, pos) /\ Len(literal) <= pos
    /\ CutsOf(instrs, pos - Len(literal)) # {}
    /\ i = 0 /\ merged = <<>> /\ patch = <<>> /\ at = 0 /\ out = <<>>

(* The merged instructions write what those they replace write.             *)
Optimizing ==
    /\ literal = <<>> /\ patch = <<>> /\ at = 0 /\ out = <<>>
    /\ \E b \in CutsOf(instrs, Len(new)) : CutsOf(merged, b[i]) # {}

(* What was applied of the patch wrote the new file as far as its cut.      *)
Applying ==
    /\ literal = <<>>
    /\ \E b \in CutsOf(patch, Len(new)) : out = SubSeq(new, 1, b[at])

DeltaInv ==
    /\ TypeOK /\ LiteralsBounded /\ old \in Olds
    /\ pc = "scan" => Scanning
    /\ pc = "optimize" => Optimizing
    /\ pc = "apply" => Applying
    /\ pc = "done" => out = new
    /\ pc # "failed"
-----------------------------------------------------------------------------
(* Facts about numbers and sequences.                                       *)

Before == {x \in Nat \X Nat : x[1] < x[2]}

(* A set of numbers has a least one: induction for the proofs below.        *)
LEMMA LeastNumber ==
    ASSUME NEW T, T \subseteq Nat, T # {}
    PROVE  \E m \in T : \A k \in T : m <= k
<1>1. IsWellFoundedOn(Before, Nat)
  BY NatLessThanWellFounded, Zenon DEF Before, OpToRel
<1>2. PICK m \in T : \A k \in T : ~ (<<k, m>> \in Before)
  BY <1>1, WFMin
<1>3. ASSUME NEW k \in T PROVE m <= k
  <2>1. <<k, m>> \in Before <=> k < m
    BY DEF Before
  <2> QED BY <1>2, <2>1
<1> QED BY <1>3

(* Adjacent pieces of a sequence, named by what is before and after them.   *)
LEMMA Adjacent ==
    ASSUME NEW S, NEW s \in Seq(S), NEW x \in Nat, NEW y \in Nat, NEW z \in Nat,
           x <= y, y <= z, z <= Len(s)
    PROVE  /\ SubSeq(s, x + 1, y) \o SubSeq(s, y + 1, z) = SubSeq(s, x + 1, z)
           /\ SubSeq(s, x + 1, y) \in Seq(S)
           /\ Len(SubSeq(s, x + 1, y)) = y - x
<1>1. Len(s) \in Nat
  BY LenProperties
<1>2. x + 1 \in 1..(Len(s) + 1) /\ y \in (x + 1 - 1)..Len(s) /\ z \in y..Len(s)
  BY <1>1
<1>3. SubSeq(s, x + 1, y) \o SubSeq(s, y + 1, z) = SubSeq(s, x + 1, z)
  BY <1>2, ConcatAdjacentSubSeq
<1>4. \A k \in (x + 1)..y : s[k] \in S
  BY <1>1, ElementOfSeq
<1>5. x + 1 \in Int /\ y \in Int
  OBVIOUS
<1>6. /\ SubSeq(s, x + 1, y) \in Seq(S)
      /\ Len(SubSeq(s, x + 1, y)) = IF x + 1 <= y THEN y - (x + 1) + 1 ELSE 0
  BY <1>4, <1>5, SubSeqProperties
<1> QED BY <1>3, <1>6
-----------------------------------------------------------------------------
(* Instructions.                                                            *)

(* One more instruction, and one more cut.                                  *)
LEMMA CutsAppend ==
    ASSUME NEW s \in Seq(Instruction), NEW n \in 0..Len(new), NEW m \in 0..Len(new),
           NEW b \in CutsOf(s, n), NEW x \in Instruction, Writes(x, n, m)
    PROVE  \E c \in CutsOf(Append(s, x), m) : \A k \in 0..Len(s) : c[k] = b[k]
<1>1. Len(s) \in Nat
  BY LenProperties
<1>2. /\ Len(Append(s, x)) = Len(s) + 1
      /\ \A k \in 1..Len(s) : Append(s, x)[k] = s[k]
      /\ Append(s, x)[Len(s) + 1] = x
  BY AppendProperties
<1>3. /\ b \in [0..Len(s) -> 0..Len(new)] /\ b[0] = 0 /\ b[Len(s)] = n
      /\ \A k \in 1..Len(s) : Writes(s[k], b[k - 1], b[k])
  BY DEF CutsOf
<1> DEFINE c == [k \in 0..(Len(s) + 1) |-> IF k <= Len(s) THEN b[k] ELSE m]
<1>4. c \in [0..(Len(s) + 1) -> 0..Len(new)]
  BY <1>1, <1>3
<1>5. c[0] = 0 /\ c[Len(s) + 1] = m /\ \A k \in 0..Len(s) : c[k] = b[k]
  BY <1>1, <1>3
<1>6. ASSUME NEW k \in 1..(Len(s) + 1)
      PROVE  Writes(Append(s, x)[k], c[k - 1], c[k])
  <2>1. CASE k <= Len(s)
    <3>1. k \in 1..Len(s) /\ k - 1 \in 0..Len(s) /\ k \in 0..Len(s)
      BY <1>1, <2>1
    <3> HIDE DEF c
    <3> QED BY <1>2, <1>3, <1>5, <3>1
  <2>2. CASE k = Len(s) + 1
    <3>1. k - 1 = Len(s) /\ Len(s) \in 0..Len(s)
      BY <1>1, <2>2
    <3> HIDE DEF c
    <3> QED BY <1>2, <1>3, <1>5, <2>2, <3>1
  <2> QED BY <1>1, <2>1, <2>2
<1> HIDE DEF c
<1>7. c \in CutsOf(Append(s, x), m)
  BY <1>2, <1>4, <1>5, <1>6 DEF CutsOf
<1> QED BY <1>5, <1>7

(* A literal writes its data.                                               *)
LEMMA LiteralWrites ==
    ASSUME NEW data \in Seq(Byte), NEW n \in Nat, NEW m \in Nat, n <= m,
           data = SubSeq(new, n + 1, m)
    PROVE  Literal(data) \in Instruction /\ Writes(Literal(data), n, m)
BY DEF Literal, Instruction, Writes, Effect

(* A copy writes what it copies.                                            *)
LEMMA CopyWrites ==
    ASSUME NEW o \in Nat, NEW l \in Nat, NEW n \in Nat, NEW m \in Nat, n <= m,
           l > 0, o + l <= Len(old.bytes),
           Slice(o, l) = SubSeq(new, n + 1, m)
    PROVE  Copy(o, l) \in Instruction /\ Writes(Copy(o, l), n, m)
BY DEF Copy, Instruction, Writes, Effect

(* A chunk that the old file has can be copied.                             *)
LEMMA MatchIsCopy ==
    ASSUME TypeOK, old \in Olds, NEW x, Matches(x) # {}
    PROVE  LET c == FirstMatch(x) IN
           /\ c[1] \in Nat /\ c[2] \in Nat /\ c[2] > 0
           /\ c[1] + c[2] <= Len(old.bytes) /\ Slice(c[1], c[2]) = x
<1>1. old.chunks \subseteq Nat \X (Nat \ {0})
  BY DEF TypeOK, OldFile
<1>2. Matches(x) \subseteq old.chunks
  BY DEF Matches
<1> DEFINE T == {c[1] : c \in Matches(x)}
<1>3. T \subseteq Nat /\ T # {}
  BY <1>1, <1>2
<1>4. PICK m \in T : \A k \in T : m <= k
  BY <1>3, LeastNumber
<1>5. \E c \in Matches(x) : \A d \in Matches(x) : c[1] <= d[1]
  BY <1>4
<1>6. FirstMatch(x) \in Matches(x)
  BY <1>5 DEF FirstMatch
<1>7. FirstMatch(x) \in old.chunks /\ Slice(FirstMatch(x)[1], FirstMatch(x)[2]) = x
  BY <1>6 DEF Matches
<1> QED BY <1>1, <1>7, FilesAssumption
-----------------------------------------------------------------------------
(* The optimizer.                                                           *)

(* What a copy of the list holds.                                           *)
LEMMA CopyFields ==
    ASSUME TypeOK, NEW k \in 1..Len(instrs), instrs[k].op = "Copy"
    PROVE  instrs[k].offset \in Nat /\ instrs[k].length \in Nat
<1>1. instrs[k] \in Instruction
  BY ElementOfSeq DEF TypeOK
<1> QED BY <1>1 DEF Instruction

(* A run of copies ends somewhere.                                          *)
LEMMA RunEnds ==
    ASSUME TypeOK, NEW k \in 1..Len(instrs)
    PROVE  RunEnd(k) \in k..Len(instrs) /\ \A m \in (k + 1)..RunEnd(k) : Continues(m)
<1>1. Len(instrs) \in Nat /\ DOMAIN instrs = 1..Len(instrs)
  BY LenProperties DEF TypeOK
<1>2. ~Continues(Len(instrs) + 1)
  BY <1>1 DEF Continues, IsCopy
<1> DEFINE T == {e \in k..Len(instrs) : ~Continues(e + 1)}
<1>3. T \subseteq Nat /\ Len(instrs) \in T
  BY <1>1, <1>2
<1>4. PICK e \in T : \A f \in T : e <= f
  BY <1>3, LeastNumber
<1>5. ASSUME NEW m \in (k + 1)..e PROVE Continues(m)
  <2>1. m - 1 \in k..Len(instrs) /\ ~(e <= m - 1) /\ (m - 1) + 1 = m
    BY <1>1, <1>4
  <2>2. m - 1 \notin T
    BY <1>4, <2>1
  <2> QED BY <2>1, <2>2
<1>6. \E f \in k..Len(instrs) :
          /\ \A m \in (k + 1)..f : Continues(m)
          /\ ~Continues(f + 1)
  BY <1>4, <1>5
<1> QED BY <1>6 DEF RunEnd

(* The copies of a run, merged as far as m, write what they write.          *)
RunWrites(b, k, m) ==
    /\ IsCopy(m) /\ RunLength(k, m) \in Nat /\ RunLength(k, m) > 0
    /\ instrs[k].offset + RunLength(k, m) <= Len(old.bytes)
    /\ b[k - 1] <= b[m]
    /\ Slice(instrs[k].offset, RunLength(k, m)) = SubSeq(new, b[k - 1] + 1, b[m])

LEMMA RunStarts ==
    ASSUME TypeOK, NEW b \in CutsOf(instrs, Len(new)),
           NEW k \in 1..Len(instrs), IsCopy(k)
    PROVE  RunWrites(b, k, k)
<1>1. instrs[k].offset \in Nat /\ instrs[k].length \in Nat /\ instrs[k].op = "Copy"
  BY CopyFields DEF IsCopy
<1>2. Writes(instrs[k], b[k - 1], b[k])
  BY DEF CutsOf
<1>3. RunLength(k, k) = instrs[k].length
  BY <1>1 DEF RunLength
<1>4. /\ b[k - 1] <= b[k] /\ instrs[k].length > 0
      /\ instrs[k].offset + instrs[k].length <= Len(old.bytes)
      /\ Slice(instrs[k].offset, instrs[k].length) = SubSeq(new, b[k - 1] + 1, b[k])
  BY <1>1, <1>2 DEF Writes, Effect
<1> QED BY <1>1, <1>3, <1>4 DEF RunWrites

LEMMA SlicesJoin ==
    ASSUME TypeOK, NEW o \in Nat, NEW r \in Nat, NEW l \in Nat,
           o + r + l <= Len(old.bytes)
    PROVE  Slice(o, r + l) = Slice(o, r) \o Slice(o + r, l)
<1>1. old.bytes \in Seq(Byte)
  BY DEF TypeOK, OldFile
<1>2. SubSeq(old.bytes, o + 1, o + r) \o SubSeq(old.bytes, o + r + 1, o + r + l)
        = SubSeq(old.bytes, o + 1, o + r + l)
  BY <1>1, Adjacent
<1>3. o + (r + l) = o + r + l
  OBVIOUS
<1> QED BY <1>2, <1>3 DEF Slice

LEMMA RunGoesOn ==
    ASSUME TypeOK, NEW b \in CutsOf(instrs, Len(new)),
           NEW k \in 1..Len(instrs), IsCopy(k), NEW m \in (k + 1)..Len(instrs),
           RunWrites(b, k, m - 1), Continues(m)
    PROVE  RunWrites(b, k, m)
<1>1. Len(instrs) \in Nat /\ new \in Seq(Byte) /\ Len(new) \in Nat
      /\ Len(old.bytes) \in Nat
  BY LenProperties DEF TypeOK, OldFile
<1>2. PICK n \in 1..Len(instrs) : n = m - 1
  BY <1>1
<1>3. m \in 1..Len(instrs) /\ m \in 0..Len(instrs) /\ k - 1 \in 0..Len(instrs)
  BY <1>1
<1>4. /\ instrs[m].op = "Copy" /\ instrs[n].op = "Copy" /\ instrs[k].op = "Copy"
      /\ instrs[m].offset = instrs[n].offset + instrs[n].length
  BY <1>2 DEF Continues, IsCopy
<1>5. PICK o \in Nat, p \in Nat, l \in Nat, q \in Nat, h \in Nat :
         /\ o = instrs[k].offset /\ p = instrs[m].offset /\ l = instrs[m].length
         /\ q = instrs[n].offset /\ h = instrs[n].length
  BY <1>3, <1>4, CopyFields
<1>6. RunLength(k, n) = q + h - o /\ RunLength(k, m) = p + l - o /\ p = q + h
  BY <1>4, <1>5 DEF RunLength
<1>7. PICK r \in Nat : r = RunLength(k, n)
  BY <1>2 DEF RunWrites
<1>8. /\ r > 0
      /\ b[k - 1] <= b[n]
      /\ Slice(o, r) = SubSeq(new, b[k - 1] + 1, b[n])
  BY <1>2, <1>5, <1>7 DEF RunWrites
<1>9. o + r = p /\ RunLength(k, m) = r + l
  BY <1>6, <1>7
<1>10. Writes(instrs[m], b[n], b[m])
  BY <1>2, <1>3 DEF CutsOf
<1>11. /\ l > 0 /\ p + l <= Len(old.bytes)
       /\ b[n] <= b[m]
       /\ Slice(p, l) = SubSeq(new, b[n] + 1, b[m])
  BY <1>4, <1>5, <1>10 DEF Writes, Effect
<1>12. PICK x \in 0..Len(new), y \in 0..Len(new), z \in 0..Len(new) :
          x = b[k - 1] /\ y = b[n] /\ z = b[m]
  <2>1. b \in [0..Len(instrs) -> 0..Len(new)]
    BY DEF CutsOf
  <2>2. n \in 0..Len(instrs)
    BY <1>1
  <2>3. b[k - 1] \in 0..Len(new) /\ b[n] \in 0..Len(new) /\ b[m] \in 0..Len(new)
    BY <1>3, <2>1, <2>2
  <2> QED BY <2>3
<1>13. x <= y /\ y <= z
  BY <1>8, <1>11, <1>12
<1>14. x \in Nat /\ y \in Nat /\ z \in Nat /\ z <= Len(new)
  BY <1>1
<1>15. SubSeq(new, x + 1, z) = SubSeq(new, x + 1, y) \o SubSeq(new, y + 1, z)
  BY <1>1, <1>13, <1>14, Adjacent
<1>16. o + r + l <= Len(old.bytes)
  BY <1>9, <1>11
<1>17. Slice(o, r + l) = Slice(o, r) \o Slice(p, l)
  BY <1>9, <1>16, SlicesJoin
<1>18. Slice(o, r + l) = SubSeq(new, x + 1, z)
  BY <1>8, <1>11, <1>12, <1>15, <1>17
<1>19. r + l > 0 /\ o + (r + l) <= Len(old.bytes) /\ x <= z
  <2>1. r > 0 /\ l > 0
    BY <1>8, <1>11
  <2> QED BY <1>1, <1>13, <1>14, <1>16, <2>1
<1>20. IsCopy(m)
  BY DEF Continues
<1>21. RunLength(k, m) \in Nat /\ RunLength(k, m) > 0
  BY <1>9, <1>19
<1>22. b[k - 1] <= b[m]
  BY <1>12, <1>19
<1>23. /\ instrs[k].offset + RunLength(k, m) <= Len(old.bytes)
       /\ Slice(instrs[k].offset, RunLength(k, m)) = SubSeq(new, b[k - 1] + 1, b[m])
  BY <1>5, <1>9, <1>12, <1>18, <1>19
<1> QED BY <1>20, <1>21, <1>22, <1>23 DEF RunWrites

(* The merged copy, from the run's first instruction to its last.           *)
LEMMA MergedWrites ==
    ASSUME TypeOK, NEW b \in CutsOf(instrs, Len(new)),
           NEW k \in 1..Len(instrs), IsCopy(k), NEW e \in k..Len(instrs),
           \A m \in (k + 1)..e : Continues(m)
    PROVE  LET x == Copy(instrs[k].offset, RunLength(k, e)) IN
           x \in Instruction /\ Writes(x, b[k - 1], b[e])
<1>1. Len(instrs) \in Nat /\ Len(new) \in Nat
  BY LenProperties DEF TypeOK
<1> DEFINE T == {m \in k..e : ~RunWrites(b, k, m)}
<1>2. T = {}
  <2> SUFFICES ASSUME T # {} PROVE FALSE
    OBVIOUS
  <2>1. T \subseteq Nat
    BY <1>1
  <2>2. PICK m \in T : \A n \in T : m <= n
    BY <2>1, LeastNumber
  <2>3. m # k
    BY <2>2, RunStarts
  <2>4. m \in (k + 1)..e /\ m \in (k + 1)..Len(instrs) /\ m - 1 \in k..e /\ ~(m <= m - 1)
    BY <1>1, <2>2, <2>3
  <2>5. RunWrites(b, k, m - 1)
    BY <2>2, <2>4
  <2>6. RunWrites(b, k, m)
    BY <2>4, <2>5, RunGoesOn
  <2> QED BY <2>2, <2>6
<1>3. RunWrites(b, k, e)
  <2>1. e \in k..e
    BY <1>1
  <2> QED BY <1>2, <2>1
<1>4. b[k - 1] \in Nat /\ b[e] \in Nat
  BY <1>1 DEF CutsOf
<1>5. instrs[k].offset \in Nat
  BY CopyFields DEF IsCopy
<1> QED BY <1>3, <1>4, <1>5, CopyWrites DEF RunWrites
-----------------------------------------------------------------------------
(* The generator.                                                           *)

Bounded(s) ==
    \A k \in DOMAIN s : s[k].op = "Literal" => Len(s[k].data) < MaxLiteral + MaxChunk

LEMMA BoundedAppend ==
    ASSUME NEW s \in Seq(Instruction), Bounded(s), NEW x \in Instruction,
           x.op = "Literal" => Len(x.data) < MaxLiteral + MaxChunk
    PROVE  Append(s, x) \in Seq(Instruction) /\ Bounded(Append(s, x))
<1>1. Len(s) \in Nat /\ DOMAIN s = 1..Len(s)
  BY LenProperties
<1>2. /\ Append(s, x) \in Seq(Instruction)
      /\ Len(Append(s, x)) = Len(s) + 1
      /\ \A k \in 1..Len(s) : Append(s, x)[k] = s[k]
      /\ Append(s, x)[Len(s) + 1] = x
  BY AppendProperties
<1>3. DOMAIN Append(s, x) = 1..(Len(s) + 1)
  BY <1>2, LenProperties
<1>4. ASSUME NEW k \in 1..(Len(s) + 1), Append(s, x)[k].op = "Literal"
      PROVE  Len(Append(s, x)[k].data) < MaxLiteral + MaxChunk
  <2>1. CASE k \in 1..Len(s)
    BY <1>1, <1>2, <1>4, <2>1 DEF Bounded
  <2>2. CASE k = Len(s) + 1
    BY <1>2, <1>4, <2>2
  <2> QED BY <1>1, <2>1, <2>2
<1> QED BY <1>2, <1>3, <1>4 DEF Bounded

(* A piece of the new file after the literals joins them.                   *)
LEMMA LiteralsGrow ==
    ASSUME DeltaInv, pc = "scan", NEW n \in Nat, pos + n <= Len(new)
    PROVE  /\ literal \o Piece(n) = SubSeq(new, pos - Len(literal) + 1, pos + n)
           /\ literal \o Piece(n) \in Seq(Byte)
           /\ Len(literal \o Piece(n)) = Len(literal) + n
<1>1. /\ new \in Seq(Byte) /\ literal \in Seq(Byte) /\ pos \in Nat
      /\ Len(literal) \in Nat /\ Len(literal) <= pos
      /\ literal = SubSeq(new, pos - Len(literal) + 1, pos)
  BY LenProperties DEF DeltaInv, TypeOK, Scanning
<1>2. PICK p \in Nat : p = pos - Len(literal)
  <2>1. pos \in Nat /\ Len(literal) \in Nat /\ Len(literal) <= pos
    BY <1>1
  <2> QED BY <2>1
<1>3. p <= pos /\ pos + n \in Nat /\ pos <= pos + n
  BY <1>1, <1>2
<1>4. /\ SubSeq(new, p + 1, pos) \o SubSeq(new, pos + 1, pos + n)
           = SubSeq(new, p + 1, pos + n)
      /\ SubSeq(new, p + 1, pos + n) \in Seq(Byte)
      /\ Len(SubSeq(new, p + 1, pos + n)) = (pos + n) - p
  BY <1>1, <1>3, Adjacent
<1>5. literal \o Piece(n) = SubSeq(new, p + 1, pos + n)
  BY <1>1, <1>2, <1>4 DEF Piece
<1>6. (pos + n) - p = Len(literal) + n
  BY <1>1, <1>2
<1> QED BY <1>2, <1>4, <1>5, <1>6

(* A literal of what was scanned since the last instruction, and n more.    *)
LEMMA LiteralsFlushed ==
    ASSUME DeltaInv, pc = "scan", NEW n \in 0..MaxChunk, pos + n <= Len(new)
    PROVE  LET s == Append(instrs, Literal(literal \o Piece(n))) IN
           s \in Seq(Instruction) /\ Bounded(s) /\ CutsOf(s, pos + n) # {}
<1> DEFINE all == literal \o Piece(n)
<1>1. /\ instrs \in Seq(Instruction) /\ Bounded(instrs) /\ pos \in Nat
      /\ Len(literal) \in Nat /\ Len(literal) < MaxLiteral /\ Len(literal) <= pos
      /\ Len(new) \in Nat
      /\ CutsOf(instrs, pos - Len(literal)) # {}
  BY LenProperties DEF DeltaInv, TypeOK, LiteralsBounded, Bounded, Scanning
<1>2. n \in Nat /\ n <= MaxChunk
  BY SizesAssumption
<1>3. /\ all = SubSeq(new, pos - Len(literal) + 1, pos + n)
      /\ all \in Seq(Byte) /\ Len(all) = Len(literal) + n
  BY <1>2, LiteralsGrow
<1>4. PICK p \in Nat : p = pos - Len(literal)
  <2>1. pos \in Nat /\ Len(literal) \in Nat /\ Len(literal) <= pos
    BY <1>1
  <2> QED BY <2>1
<1>5. pos + n \in Nat /\ p <= pos + n /\ p \in 0..Len(new) /\ pos + n \in 0..Len(new)
  BY <1>1, <1>2, <1>4
<1> HIDE DEF all
<1>6. Literal(all) \in Instruction /\ Writes(Literal(all), p, pos + n)
  BY <1>3, <1>4, <1>5, LiteralWrites
<1>7. Len(Literal(all).data) < MaxLiteral + MaxChunk
  <2>1. Literal(all).data = all
    BY DEF Literal
  <2> QED BY <1>1, <1>2, <1>3, <2>1, SizesAssumption
<1>8. Append(instrs, Literal(all)) \in Seq(Instruction)
      /\ Bounded(Append(instrs, Literal(all)))
  BY <1>1, <1>6, <1>7, BoundedAppend
<1>9. PICK b \in CutsOf(instrs, p) : TRUE
  BY <1>1, <1>4
<1>10. CutsOf(Append(instrs, Literal(all)), pos + n) # {}
  BY <1>1, <1>5, <1>6, <1>9, CutsAppend
<1> QED BY <1>8, <1>10 DEF all

(* After a flush the instructions write all that was scanned.               *)
LEMMA FlushedCuts ==
    ASSUME DeltaInv, pc = "scan"
    PROVE  Flushed \in Seq(Instruction) /\ Bounded(Flushed) /\ CutsOf(Flushed, pos) # {}
<1>1. /\ instrs \in Seq(Instruction) /\ Bounded(instrs) /\ pos \in Nat
      /\ literal \in Seq(Byte) /\ pos <= Len(new) /\ Len(new) \in Nat
      /\ CutsOf(instrs, pos - Len(literal)) # {}
      /\ new \in Seq(Byte)
  BY LenProperties DEF DeltaInv, TypeOK, LiteralsBounded, Bounded, Scanning
<1>2. CASE literal = <<>>
  <2>1. pos - Len(literal) = pos
    BY <1>1, <1>2
  <2> QED BY <1>1, <1>2, <2>1 DEF Flushed
<1>3. CASE literal # <<>>
  <2>1. Piece(0) = <<>>
    BY <1>1, SubSeqEmpty DEF Piece
  <2>2. literal \o Piece(0) = literal
    BY <1>1, <2>1, ConcatEmptySeq
  <2>3. 0 \in 0..MaxChunk /\ pos + 0 = pos
    BY <1>1, SizesAssumption
  <2> QED BY <1>1, <1>3, <2>2, <2>3, LiteralsFlushed DEF Flushed
<1> QED BY <1>2, <1>3
-----------------------------------------------------------------------------
(* The steps.                                                               *)

LEMMA InitKeeps == Init => DeltaInv
<1> SUFFICES ASSUME Init PROVE DeltaInv
  OBVIOUS
<1>1. /\ old \in Olds /\ new \in News /\ pos = 0 /\ literal = <<>> /\ instrs = <<>>
      /\ i = 0 /\ merged = <<>> /\ patch = <<>> /\ at = 0 /\ out = <<>> /\ pc = "scan"
  BY DEF Init
<1>2. old \in OldFile /\ new \in Seq(Byte) /\ Len(new) \in Nat
  BY <1>1, FilesAssumption, LenProperties
<1>3. TypeOK
  BY <1>1, <1>2 DEF TypeOK
<1>4. LiteralsBounded
  BY <1>1, SizesAssumption DEF LiteralsBounded
<1>5. SubSeq(new, 0 - Len(literal) + 1, 0) = <<>> /\ Len(literal) = 0
  BY <1>1, SubSeqEmpty
<1> DEFINE b == [k \in 0..0 |-> 0]
<1>6. b \in CutsOf(instrs, 0)
  <2>1. Len(instrs) = 0 /\ b \in [0..0 -> 0..Len(new)] /\ b[0] = 0
    BY <1>1, <1>2
  <2> QED BY <2>1 DEF CutsOf
<1> HIDE DEF b
<1>7. Scanning
  <2>1. pos - Len(literal) = 0 /\ Len(literal) <= pos
    <3>1. pos = 0 /\ Len(literal) = 0
      BY <1>1, <1>5
    <3> QED BY <3>1
  <2> QED BY <1>1, <1>5, <1>6, <2>1 DEF Scanning
<1> QED BY <1>1, <1>3, <1>4, <1>7 DEF DeltaInv

LEMMA ScanKeeps ==
    ASSUME DeltaInv, Scan
    PROVE  DeltaInv'
<1>1. PICK n \in 1..MaxChunk :
         /\ pos + n <= Len(new) /\ pos' = pos + n
         /\ IF Matches(Piece(n)) # {}
            THEN /\ instrs' = Append(Flushed, Copy(FirstMatch(Piece(n))[1],
                                                   FirstMatch(Piece(n))[2]))
                 /\ literal' = <<>>
            ELSE IF Len(literal \o Piece(n)) >= MaxLiteral
            THEN instrs' = Append(instrs, Literal(literal \o Piece(n)))
                 /\ literal' = <<>>
            ELSE literal' = literal \o Piece(n) /\ UNCHANGED instrs
  BY DEF Scan
<1>2. pc = "scan" /\ UNCHANGED <<old, new, i, merged, patch, at, out, pc>>
  BY DEF Scan
<1>3. TypeOK /\ Scanning /\ LiteralsBounded /\ old \in Olds
  BY <1>2 DEF DeltaInv
<1>4. /\ n \in Nat /\ n > 0 /\ n \in 0..MaxChunk /\ pos \in Nat /\ Len(new) \in Nat
      /\ pos' \in 0..Len(new)
  <2>1. pos \in Nat /\ Len(new) \in Nat
    BY <1>3, LenProperties DEF TypeOK
  <2> QED BY <1>1, <2>1, SizesAssumption
(* What every case has to show.                                             *)
<1>5. ASSUME literal' \in Seq(Byte), Len(literal') < MaxLiteral,
             instrs' \in Seq(Instruction), Bounded(instrs'),
             Len(literal') <= pos',
             literal' = SubSeq(new, pos' - Len(literal') + 1, pos'),
             CutsOf(instrs', pos' - Len(literal')) # {}
      PROVE  DeltaInv'
  <2>1. i = 0 /\ merged = <<>> /\ patch = <<>> /\ at = 0 /\ out = <<>>
    BY <1>3 DEF Scanning
  <2>2. Len(instrs') \in Nat
    BY <1>5, LenProperties
  <2>3. TypeOK'
    BY <1>2, <1>3, <1>4, <1>5, <2>1, <2>2 DEF TypeOK
  <2>4. LiteralsBounded'
    BY <1>5 DEF LiteralsBounded, Bounded
  <2>5. CutsOf(instrs, pos - Len(literal))' # {}
    BY <1>2, <1>5 DEF CutsOf, Writes, Effect, Slice
  <2>6. Scanning'
    BY <1>2, <1>5, <2>1, <2>5 DEF Scanning
  <2> QED BY <1>2, <1>3, <2>3, <2>4, <2>6 DEF DeltaInv
<1>6. ASSUME literal' = <<>>
      PROVE  /\ literal' \in Seq(Byte) /\ Len(literal') < MaxLiteral
             /\ Len(literal') <= pos' /\ pos' - Len(literal') = pos'
             /\ literal' = SubSeq(new, pos' - Len(literal') + 1, pos')
  <2>1. Len(literal') = 0
    BY <1>6
  <2>2. PICK q \in Nat : q = pos'
    BY <1>4
  <2>3. q - 0 = q /\ q < q - 0 + 1 /\ q - 0 + 1 \in Int /\ q \in Int /\ 0 <= q
    OBVIOUS
  <2>4. SubSeq(new, q - 0 + 1, q) = <<>>
    BY <2>3, SubSeqEmpty
  <2>5. 0 < MaxLiteral /\ <<>> \in Seq(Byte)
    BY SizesAssumption
  <2> QED BY <1>6, <2>1, <2>2, <2>3, <2>4, <2>5
<1>7. CASE Matches(Piece(n)) # {}
  <2>1. PICK o, l : o = FirstMatch(Piece(n))[1] /\ l = FirstMatch(Piece(n))[2]
    OBVIOUS
  <2>2. o \in Nat /\ l \in Nat /\ l > 0 /\ o + l <= Len(old.bytes)
        /\ Slice(o, l) = SubSeq(new, pos + 1, pos + n)
    BY <1>3, <1>7, <2>1, MatchIsCopy DEF Piece
  <2>3. pos \in 0..Len(new) /\ pos + n \in 0..Len(new) /\ pos <= pos + n
    BY <1>1, <1>4
  <2>4. Copy(o, l) \in Instruction /\ Writes(Copy(o, l), pos, pos + n)
    BY <2>2, <2>3, CopyWrites
  <2>5. Flushed \in Seq(Instruction) /\ Bounded(Flushed) /\ CutsOf(Flushed, pos) # {}
    BY <1>2, FlushedCuts
  <2>6. Copy(o, l).op # "Literal"
    BY DEF Copy
  <2>7. instrs' = Append(Flushed, Copy(o, l)) /\ literal' = <<>>
    BY <1>1, <1>7, <2>1
  <2>8. instrs' \in Seq(Instruction) /\ Bounded(instrs')
    BY <2>4, <2>5, <2>6, <2>7, BoundedAppend
  <2>9. PICK b \in CutsOf(Flushed, pos) : TRUE
    BY <2>5
  <2>10. CutsOf(instrs', pos') # {}
    BY <1>1, <2>3, <2>4, <2>5, <2>7, <2>9, CutsAppend
  <2> QED BY <1>5, <1>6, <2>7, <2>8, <2>10
<1>8. CASE Matches(Piece(n)) = {} /\ Len(literal \o Piece(n)) >= MaxLiteral
  <2>1. instrs' = Append(instrs, Literal(literal \o Piece(n))) /\ literal' = <<>>
    BY <1>1, <1>8
  <2>2. instrs' \in Seq(Instruction) /\ Bounded(instrs') /\ CutsOf(instrs', pos') # {}
    BY <1>1, <1>2, <1>4, <2>1, LiteralsFlushed
  <2> QED BY <1>5, <1>6, <2>1, <2>2
<1>9. CASE Matches(Piece(n)) = {} /\ ~(Len(literal \o Piece(n)) >= MaxLiteral)
  <2>1. literal' = literal \o Piece(n) /\ instrs' = instrs
    BY <1>1, <1>9
  <2>2. /\ literal' = SubSeq(new, pos - Len(literal) + 1, pos')
        /\ literal' \in Seq(Byte) /\ Len(literal') = Len(literal) + n
    BY <1>1, <1>2, <1>4, <2>1, LiteralsGrow
  <2>3. Len(literal) \in Nat /\ Len(literal) <= pos
    BY <1>3, LenProperties DEF TypeOK, Scanning
  <2>4. pos' - Len(literal') = pos - Len(literal) /\ Len(literal') <= pos'
    BY <1>1, <1>4, <2>2, <2>3
  <2>5. Len(literal') < MaxLiteral
    BY <1>4, <1>9, <2>1, <2>2, <2>3, SizesAssumption
  <2>6. instrs \in Seq(Instruction) /\ Bounded(instrs)
        /\ CutsOf(instrs, pos - Len(literal)) # {}
    BY <1>3 DEF TypeOK, LiteralsBounded, Bounded, Scanning
  <2> QED BY <1>5, <2>1, <2>2, <2>4, <2>5, <2>6
<1> QED BY <1>7, <1>8, <1>9

(* Nothing is written by no instructions.                                   *)
LEMMA NoCuts ==
    ASSUME TypeOK
    PROVE  CutsOf(<<>>, 0) # {}
<1>1. Len(new) \in Nat
  BY LenProperties DEF TypeOK
<1> DEFINE b == [k \in 0..0 |-> 0]
<1>2. b \in [0..0 -> 0..Len(new)] /\ b[0] = 0
  BY <1>1
<1> HIDE DEF b
<1>3. Len(<<>>) = 0
  OBVIOUS
<1>4. b \in CutsOf(<<>>, 0)
  BY <1>2, <1>3 DEF CutsOf
<1> QED BY <1>4

LEMMA ScanEndKeeps ==
    ASSUME DeltaInv, ScanEnd
    PROVE  DeltaInv'
<1>1. /\ pc = "scan" /\ pos = Len(new) /\ instrs' = Flushed /\ literal' = <<>>
      /\ UNCHANGED <<old, new, pos, i, merged, at, out>>
      /\ \/ pc' = "apply" /\ patch' = Flushed
         \/ pc' = "optimize" /\ UNCHANGED patch
  BY DEF ScanEnd
<1>2. TypeOK /\ Scanning /\ old \in Olds
  BY <1>1 DEF DeltaInv
<1>3. Flushed \in Seq(Instruction) /\ Bounded(Flushed) /\ CutsOf(Flushed, Len(new)) # {}
  BY <1>1, FlushedCuts
<1>4. i = 0 /\ merged = <<>> /\ patch = <<>> /\ at = 0 /\ out = <<>>
  BY <1>2 DEF Scanning
<1>5. Len(Flushed) \in Nat /\ Len(new) \in Nat /\ new \in Seq(Byte)
  BY <1>2, <1>3, LenProperties DEF TypeOK
<1>6. patch' \in Seq(Instruction) /\ Len(patch') \in Nat
  <2>1. patch' \in Seq(Instruction)
    BY <1>1, <1>2, <1>3 DEF TypeOK
  <2> QED BY <2>1, LenProperties
<1>7. pc' \in {"optimize", "apply"}
  BY <1>1
<1>8. TypeOK'
  BY <1>1, <1>2, <1>3, <1>4, <1>5, <1>6, <1>7 DEF TypeOK
<1>9. LiteralsBounded'
  <2>1. Len(<<>>) = 0 /\ 0 < MaxLiteral
    BY SizesAssumption
  <2> QED BY <1>1, <1>3, <2>1 DEF LiteralsBounded, Bounded
<1>10. PICK b \in CutsOf(Flushed, Len(new)) : TRUE
  BY <1>3
<1>11. b[0] = 0
  BY <1>10 DEF CutsOf
<1>12. CASE pc' = "apply" /\ patch' = Flushed
  <2>1. SubSeq(new, 1, 0) = <<>>
    BY SubSeqEmpty
  <2>2. b \in CutsOf(patch, Len(new))'
    BY <1>1, <1>10, <1>12 DEF CutsOf, Writes, Effect, Slice
  <2>3. Applying'
    BY <1>1, <1>4, <1>11, <2>1, <2>2 DEF Applying
  <2> QED BY <1>1, <1>2, <1>8, <1>9, <1>12, <2>3 DEF DeltaInv
<1>13. CASE pc' = "optimize" /\ UNCHANGED patch
  <2>1. PICK c \in CutsOf(<<>>, 0) : TRUE
    BY <1>2, NoCuts
  <2>2. b \in CutsOf(instrs, Len(new))'
    BY <1>1, <1>10 DEF CutsOf, Writes, Effect, Slice
  <2>3. c \in CutsOf(merged, b[i])'
    BY <1>1, <1>4, <1>11, <2>1 DEF CutsOf, Writes, Effect, Slice
  <2>4. Optimizing'
    BY <1>1, <1>4, <1>13, <2>2, <2>3 DEF Optimizing
  <2> QED BY <1>1, <1>2, <1>8, <1>9, <1>13, <2>4 DEF DeltaInv
<1> QED BY <1>1, <1>12, <1>13

LEMMA OptimizeKeeps ==
    ASSUME DeltaInv, Optimize
    PROVE  DeltaInv'
<1>1. /\ pc = "optimize" /\ i < Len(instrs)
      /\ UNCHANGED <<old, new, pos, literal, instrs, patch, at, out, pc>>
      /\ IF IsCopy(i + 1) /\ RunEnd(i + 1) - i >= MinMerge
         THEN /\ merged' = Append(merged, Copy(instrs[i + 1].offset,
                                               RunLength(i + 1, RunEnd(i + 1))))
              /\ i' = RunEnd(i + 1)
         ELSE merged' = Append(merged, instrs[i + 1]) /\ i' = i + 1
  BY DEF Optimize
<1>2. TypeOK /\ Optimizing /\ LiteralsBounded /\ old \in Olds
  BY <1>1 DEF DeltaInv
<1>3. /\ i \in Nat /\ Len(instrs) \in Nat /\ Len(new) \in Nat
      /\ instrs \in Seq(Instruction) /\ merged \in Seq(Instruction)
  BY <1>2, LenProperties DEF TypeOK
<1>4. PICK b \in CutsOf(instrs, Len(new)) : CutsOf(merged, b[i]) # {}
  BY <1>2 DEF Optimizing
<1>5. PICK k \in 1..Len(instrs) : k = i + 1
  BY <1>1, <1>3
<1>6. b \in [0..Len(instrs) -> 0..Len(new)] /\ b[k - 1] = b[i]
  <2>1. k - 1 = i
    BY <1>3, <1>5
  <2> QED BY <2>1 DEF CutsOf
(* What both cases have to show.                                            *)
<1>7. ASSUME NEW x \in Instruction, NEW e \in k..Len(instrs),
             Writes(x, b[i], b[e]), merged' = Append(merged, x), i' = e
      PROVE  DeltaInv'
  <2>1. b[i] \in 0..Len(new) /\ b[e] \in 0..Len(new)
    BY <1>1, <1>3, <1>5, <1>6
  <2>2. PICK d \in CutsOf(Append(merged, x), b[e]) : TRUE
    <3>1. PICK c \in CutsOf(merged, b[i]) : TRUE
      BY <1>4
    <3> QED BY <1>3, <1>7, <2>1, <3>1, CutsAppend
  <2>3. merged' \in Seq(Instruction)
    BY <1>3, <1>7, AppendProperties
  <2>4. i' \in 0..Len(instrs)
    BY <1>3, <1>7
  <2>5. TypeOK'
    BY <1>1, <1>2, <2>3, <2>4 DEF TypeOK
  <2>6. LiteralsBounded'
    BY <1>1, <1>2 DEF LiteralsBounded
  <2>7. d \in CutsOf(merged, b[i])' /\ b \in CutsOf(instrs, Len(new))'
    BY <1>1, <1>4, <1>7, <2>2 DEF CutsOf, Writes, Effect, Slice
  <2>8. Optimizing'
    BY <1>1, <1>2, <2>7 DEF Optimizing
  <2> QED BY <1>1, <1>2, <2>5, <2>6, <2>8 DEF DeltaInv
<1>8. CASE IsCopy(k) /\ RunEnd(k) - i >= MinMerge
  <2>1. PICK e \in k..Len(instrs) :
           e = RunEnd(k) /\ \A m \in (k + 1)..e : Continues(m)
    BY <1>2, RunEnds
  <2>2. PICK x \in Instruction :
           x = Copy(instrs[k].offset, RunLength(k, e)) /\ Writes(x, b[k - 1], b[e])
    BY <1>2, <1>4, <1>8, <2>1, MergedWrites
  <2>3. merged' = Append(merged, x) /\ i' = e
    BY <1>1, <1>5, <1>8, <2>1, <2>2
  <2> QED BY <1>6, <1>7, <2>2, <2>3
<1>9. CASE ~(IsCopy(k) /\ RunEnd(k) - i >= MinMerge)
  <2>1. merged' = Append(merged, instrs[k]) /\ i' = k
    BY <1>1, <1>5, <1>9
  <2>2. instrs[k] \in Instruction /\ Writes(instrs[k], b[i], b[k])
    BY <1>3, <1>4, <1>6, ElementOfSeq DEF CutsOf
  <2>3. k \in k..Len(instrs)
    BY <1>3
  <2> QED BY <1>7, <2>1, <2>2, <2>3
<1> QED BY <1>8, <1>9

LEMMA OptimizeEndKeeps ==
    ASSUME DeltaInv, OptimizeEnd
    PROVE  DeltaInv'
<1>1. /\ pc = "optimize" /\ i = Len(instrs) /\ patch' = merged /\ pc' = "apply"
      /\ UNCHANGED <<old, new, pos, literal, instrs, i, merged, at, out>>
  BY DEF OptimizeEnd
<1>2. TypeOK /\ Optimizing /\ LiteralsBounded /\ old \in Olds
  BY <1>1 DEF DeltaInv
<1>3. literal = <<>> /\ at = 0 /\ out = <<>>
  BY <1>2 DEF Optimizing
<1>4. PICK b \in CutsOf(instrs, Len(new)) : CutsOf(merged, b[i]) # {}
  BY <1>2 DEF Optimizing
<1>5. b[i] = Len(new)
  BY <1>1 DEF CutsOf
<1>6. merged \in Seq(Instruction) /\ Len(merged) \in Nat
  BY <1>2, LenProperties DEF TypeOK
<1>7. TypeOK'
  BY <1>1, <1>2, <1>3, <1>6 DEF TypeOK
<1>8. LiteralsBounded'
  BY <1>1, <1>2 DEF LiteralsBounded
<1>9. PICK c \in CutsOf(merged, b[i]) : TRUE
  BY <1>4
<1>12. c[0] = 0 /\ c \in CutsOf(patch, Len(new))'
  BY <1>1, <1>5, <1>9 DEF CutsOf, Writes, Effect, Slice
<1>10. SubSeq(new, 1, 0) = <<>>
  BY SubSeqEmpty
<1>11. Applying'
  BY <1>1, <1>3, <1>10, <1>12 DEF Applying
<1> QED BY <1>1, <1>2, <1>7, <1>8, <1>11 DEF DeltaInv

LEMMA ApplyKeeps ==
    ASSUME DeltaInv, Apply
    PROVE  DeltaInv'
<1>1. /\ pc = "apply" /\ at < Len(patch)
      /\ UNCHANGED <<old, new, pos, literal, instrs, i, merged, patch>>
  BY DEF Apply
<1>2. TypeOK /\ Applying /\ LiteralsBounded /\ old \in Olds
  BY <1>1 DEF DeltaInv
<1>3. /\ at \in Nat /\ Len(patch) \in Nat /\ Len(new) \in Nat /\ new \in Seq(Byte)
      /\ patch \in Seq(Instruction)
  BY <1>2, LenProperties DEF TypeOK
<1>4. PICK b \in CutsOf(patch, Len(new)) : out = SubSeq(new, 1, b[at])
  BY <1>2 DEF Applying
<1>5. PICK k \in 1..Len(patch) : k = at + 1
  BY <1>1, <1>3
<1>6. PICK x \in Instruction : x = patch[k]
  BY <1>3, ElementOfSeq
<1>7. /\ b \in [0..Len(patch) -> 0..Len(new)]
      /\ Writes(x, b[k - 1], b[k])
  BY <1>6 DEF CutsOf
<1>8. k - 1 = at /\ at \in 0..Len(patch) /\ k \in 0..Len(patch)
  BY <1>1, <1>3, <1>5
<1>9. PICK from \in 0..Len(new), to \in 0..Len(new) : from = b[at] /\ to = b[k]
  BY <1>7, <1>8
<1>10. Writes(x, from, to)
  BY <1>7, <1>8, <1>9
<1>11. ~(x.op = "Copy" /\ (x.offset >= Len(old.bytes)
                             \/ x.offset + x.length > Len(old.bytes)))
  <2> SUFFICES ASSUME x.op = "Copy"
               PROVE  ~(x.offset >= Len(old.bytes)
                          \/ x.offset + x.length > Len(old.bytes))
    OBVIOUS
  <2>1. x.offset \in Nat /\ x.length \in Nat
    BY DEF Instruction
  <2>2. x.length > 0 /\ x.offset + x.length <= Len(old.bytes)
    BY <1>10 DEF Writes
  <2>3. Len(old.bytes) \in Nat
    BY <1>2, LenProperties DEF TypeOK, OldFile
  <2> QED BY <2>1, <2>2, <2>3
<1>12. at' = k /\ out' = out \o Effect(x) /\ UNCHANGED pc
  BY <1>5, <1>6, <1>11 DEF Apply
<1>13. Effect(x) = SubSeq(new, from + 1, to) /\ from <= to
  BY <1>10 DEF Writes
<1>14. out' = SubSeq(new, 1, to) /\ out' \in Seq(Byte)
  <2>1. /\ SubSeq(new, 0 + 1, from) \o SubSeq(new, from + 1, to) = SubSeq(new, 0 + 1, to)
    BY <1>3, <1>13, Adjacent
  <2>2. SubSeq(new, 0 + 1, to) \in Seq(Byte)
    BY <1>3, Adjacent
  <2>3. 0 + 1 = 1
    OBVIOUS
  <2> QED BY <1>4, <1>9, <1>12, <1>13, <2>1, <2>2, <2>3
<1>15. TypeOK'
  BY <1>1, <1>2, <1>8, <1>12, <1>14 DEF TypeOK
<1>16. LiteralsBounded'
  BY <1>1, <1>2 DEF LiteralsBounded
<1>17. b \in CutsOf(patch, Len(new))'
  BY <1>1 DEF CutsOf, Writes, Effect, Slice
<1>18. Applying'
  BY <1>1, <1>2, <1>9, <1>12, <1>14, <1>17 DEF Applying
<1> QED BY <1>1, <1>2, <1>12, <1>15, <1>16, <1>18 DEF DeltaInv

LEMMA ApplyEndKeeps ==
    ASSUME DeltaInv, ApplyEnd
    PROVE  DeltaInv'
<1>1. /\ pc = "apply" /\ at = Len(patch) /\ pc' = "done"
      /\ UNCHANGED <<old, new, pos, literal, instrs, i, merged, patch, at, out>>
  BY DEF ApplyEnd
<1>2. TypeOK /\ Applying /\ LiteralsBounded /\ old \in Olds
  BY <1>1 DEF DeltaInv
<1>3. PICK b \in CutsOf(patch, Len(new)) : out = SubSeq(new, 1, b[at])
  BY <1>2 DEF Applying
<1>4. b[at] = Len(new)
  BY <1>1 DEF CutsOf
<1>5. new \in Seq(Byte)
  BY <1>2 DEF TypeOK
<1>6. out = new
  BY <1>3, <1>4, <1>5, SubSeqFull
<1>7. TypeOK'
  BY <1>1, <1>2 DEF TypeOK
<1>8. LiteralsBounded'
  BY <1>1, <1>2 DEF LiteralsBounded
<1> QED BY <1>1, <1>2, <1>6, <1>7, <1>8 DEF DeltaInv

LEMMA DeltaStep ==
    ASSUME DeltaInv, [Next]_vars
    PROVE  DeltaInv'
<1>1. CASE UNCHANGED vars
  <2>1. UNCHANGED <<old, new, pos, literal, instrs, i, merged, patch, at, out, pc>>
    BY <1>1 DEF vars
  <2>2. TypeOK' /\ LiteralsBounded'
    BY <2>1 DEF DeltaInv, TypeOK, LiteralsBounded
  <2>3. Scanning => Scanning'
    BY <2>1 DEF Scanning, CutsOf, Writes, Effect, Slice
  <2>4. ASSUME Optimizing PROVE Optimizing'
    <3>1. PICK b \in CutsOf(instrs, Len(new)) : CutsOf(merged, b[i]) # {}
      BY <2>4 DEF Optimizing
    <3>2. PICK c \in CutsOf(merged, b[i]) : TRUE
      BY <3>1
    <3>3. b \in CutsOf(instrs, Len(new))'
      BY <2>1, <3>1 DEF CutsOf, Writes, Effect, Slice
    <3>4. c \in CutsOf(merged, b[i])'
      BY <2>1, <3>2 DEF CutsOf, Writes, Effect, Slice
    <3> QED BY <2>1, <2>4, <3>3, <3>4 DEF Optimizing
  <2>5. Applying => Applying'
    BY <2>1 DEF Applying, CutsOf, Writes, Effect, Slice
  <2> QED BY <2>1, <2>2, <2>3, <2>4, <2>5 DEF DeltaInv
<1> QED BY <1>1, ScanKeeps, ScanEndKeeps, OptimizeKeeps, OptimizeEndKeeps,
           ApplyKeeps, ApplyEndKeeps DEF Next

(* What the invariant says of the properties.                               *)
LEMMA DeltaInvImplies ==
    ASSUME DeltaInv
    PROVE  Recreated /\ PrefixApplied /\ LiteralsBounded /\ TypeOK
<1>1. TypeOK /\ LiteralsBounded /\ pc # "failed"
  BY DEF DeltaInv
<1>2. new \in Seq(Byte) /\ Len(new) \in Nat
  BY <1>1, LenProperties DEF TypeOK
<1>3. Recreated
  BY DEF DeltaInv, Recreated
<1>4. ASSUME NEW n \in 0..Len(new), out = SubSeq(new, 1, n)
      PROVE  PrefixApplied
  <2>1. Len(SubSeq(new, 0 + 1, n)) = n - 0
    BY <1>2, Adjacent
  <2>2. n - 0 = n /\ 0 + 1 = 1 /\ n <= Len(new)
    BY <1>2
  <2>3. Len(out) = n
    BY <1>4, <2>1, <2>2
  <2> QED BY <1>1, <1>4, <2>2, <2>3 DEF PrefixApplied
<1>5. CASE pc \in {"scan", "optimize"}
  <2>1. out = <<>>
    BY <1>5 DEF DeltaInv, Scanning, Optimizing
  <2>2. SubSeq(new, 1, 0) = <<>>
    BY SubSeqEmpty
  <2>3. 0 \in 0..Len(new)
    BY <1>2
  <2> QED BY <1>1, <1>3, <1>4, <2>1, <2>2, <2>3
<1>6. CASE pc = "apply"
  <2>1. PICK b \in CutsOf(patch, Len(new)) : out = SubSeq(new, 1, b[at])
    BY <1>6 DEF DeltaInv, Applying
  <2>2. at \in 0..Len(patch)
    BY <1>1 DEF TypeOK
  <2>3. b[at] \in 0..Len(new)
    BY <2>2 DEF CutsOf
  <2> QED BY <1>1, <1>3, <1>4, <2>1, <2>3
<1>7. CASE pc = "done"
  <2>1. out = new /\ new = SubSeq(new, 1, Len(new))
    BY <1>2, <1>7, SubSeqFull DEF DeltaInv
  <2>2. Len(new) \in 0..Len(new)
    BY <1>2
  <2> QED BY <1>1, <1>3, <1>4, <2>1, <2>2
<1> QED BY <1>1, <1>5, <1>6, <1>7 DEF TypeOK

(* Verification starts when the output is complete, and reads that.         *)
Compared == verdict # "none" => pc = "done" /\ fileB = out

RoundTripInv == DeltaInv /\ VerifyInv /\ Compared

LEMMA RoundTripStep ==
    ASSUME RoundTripInv, [RoundTripNext]_allVars
    PROVE  RoundTripInv'
<1>1. DeltaInv /\ VerifyInv /\ Compared
  BY DEF RoundTripInv
<1>2. CASE Next /\ UNCHANGED verifyVars
  <2>1. DeltaInv'
    BY <1>1, <1>2, DeltaStep
  <2>2. UNCHANGED <<fileA, fileB, offset, short, verdict, mismatch>>
    BY <1>2 DEF verifyVars
  <2>3. VerifyInv'
    BY <1>1, <2>2 DEF VerifyInv, VerifyTypeOK, Agree, EqualIsEqual, DifferIsReal
  <2>4. pc # "done"
    BY <1>2 DEF Next, Scan, ScanEnd, Optimize, OptimizeEnd, Apply, ApplyEnd
  <2>5. Compared'
    BY <1>1, <2>2, <2>4 DEF Compared
  <2> QED BY <2>1, <2>3, <2>5 DEF RoundTripInv
<1>3. CASE Compare
  <2>1. PICK f \in {new, old.bytes} : VerifyStart(f, out)
    BY <1>3 DEF Compare
  <2>2. pc = "done" /\ UNCHANGED vars
    BY <1>3 DEF Compare
  <2>3. DeltaInv'
    BY <1>1, <2>2, DeltaStep
  <2>4. f \in Seq(Octet) /\ out \in Seq(Octet)
    BY <1>1, OctetAssumption DEF DeltaInv, TypeOK, OldFile
  <2>5. VerifyInv'
    BY <2>1, <2>4, StartKeeps
  <2>6. Compared'
    BY <2>1, <2>2 DEF Compared, VerifyStart, vars
  <2> QED BY <2>3, <2>5, <2>6 DEF RoundTripInv
<1>4. CASE VerifyRead /\ UNCHANGED vars
  <2>1. DeltaInv'
    BY <1>1, <1>4, DeltaStep
  <2>2. VerifyInv'
    BY <1>1, <1>4, ReadKeeps
  <2>3. verdict = "reading" /\ fileB' = fileB /\ pc' = pc /\ out' = out
    BY <1>4 DEF VerifyRead, vars
  <2>4. Compared'
    BY <1>1, <2>3 DEF Compared
  <2> QED BY <2>1, <2>2, <2>4 DEF RoundTripInv
<1>5. CASE UNCHANGED allVars
  <2>1. UNCHANGED vars /\ UNCHANGED verifyVars
    BY <1>5 DEF allVars
  <2>2. DeltaInv'
    BY <1>1, <2>1, DeltaStep
  <2>3. VerifyInv'
    BY <1>1, <2>1 DEF verifyVars, VerifyInv, VerifyTypeOK, Agree, EqualIsEqual,
                      DifferIsReal
  <2>4. Compared'
    BY <1>1, <2>1 DEF Compared, vars, verifyVars
  <2> QED BY <2>2, <2>3, <2>4 DEF RoundTripInv
<1> QED BY <1>2, <1>3, <1>4, <1>5 DEF RoundTripNext

LEMMA RoundTripInvariant == RoundTripSpec => []RoundTripInv
<1>1. RoundTripInit => RoundTripInv
  <2> SUFFICES ASSUME Init, VerifyInit PROVE RoundTripInv
    BY DEF RoundTripInit
  <2>1. DeltaInv
    BY InitKeeps
  <2>2. VerifyInv
    BY InitVerifies
  <2>3. Compared
    BY DEF VerifyInit, Compared
  <2> QED BY <2>1, <2>2, <2>3 DEF RoundTripInv
<1>2. RoundTripInv /\ [RoundTripNext]_allVars => RoundTripInv'
  BY RoundTripStep
<1> QED BY <1>1, <1>2, PTL DEF RoundTripSpec
-----------------------------------------------------------------------------
(* Original == Recreated: applying the patch of a new file to the old one   *)
(* yields the new file, for all files and every way to chunk them, with or  *)
(* without optimizer (generate_delta, then apply_patch).                    *)
THEOREM PatchRecreates == RoundTripSpec => []Recreated
<1>1. RoundTripInv => Recreated
  BY DeltaInvImplies DEF RoundTripInv
<1> QED BY <1>1, RoundTripInvariant, PTL

(* At every moment the output is a prefix of the new file, and no           *)
(* instruction of a generated patch fails (apply_instruction).              *)
THEOREM PatchWritesInOrder == RoundTripSpec => []PrefixApplied
<1>1. RoundTripInv => PrefixApplied
  BY DeltaInvImplies DEF RoundTripInv
<1> QED BY <1>1, RoundTripInvariant, PTL

(* Literals never exceed the buffer limit by a chunk (MAX_LITERAL_BUFFER).  *)
THEOREM LiteralsStayBounded == RoundTripSpec => []LiteralsBounded
<1>1. RoundTripInv => LiteralsBounded
  BY DeltaInvImplies DEF RoundTripInv
<1> QED BY <1>1, RoundTripInvariant, PTL

(* Generator, optimizer and applier are type correct.                       *)
THEOREM DeltaTypes == RoundTripSpec => []TypeOK
<1>1. RoundTripInv => TypeOK
  BY DeltaInvImplies DEF RoundTripInv
<1> QED BY <1>1, RoundTripInvariant, PTL

(* What `patch` wrote is never reported by `verify` to differ from the new  *)
(* file, unless a read fell short (verify_files after apply_patch).         *)
THEOREM PatchedVerifies == RoundTripSpec => []RecreatedVerifies
<1>1. RoundTripInv => RecreatedVerifies
  <2> SUFFICES ASSUME RoundTripInv, pc = "done", fileA = new, verdict = "differ", ~short
               PROVE  FALSE
    BY DEF RecreatedVerifies
  <2>1. fileB = fileA
    BY DEF RoundTripInv, Compared, DeltaInv
  <2>2. DifferIsReal
    BY DEF RoundTripInv, VerifyInv
  <2>3. mismatch # {}
    BY <2>1, <2>2 DEF DifferIsReal
  <2>4. PICK k \in 1..Len(fileA) : fileA[k] # fileB[k]
    BY <2>2, <2>3 DEF DifferIsReal
  <2> QED BY <2>1, <2>4
<1> QED BY <1>1, RoundTripInvariant, PTL
=============================================================================
