---------------------------- MODULE VerifyProofs ----------------------------
(* What `verify` reports is true, for all files, buffers and reads.         *)
EXTENDS Verify, TLAPS

(* While the files are read they have the same size, and agree as far as    *)
(* they were compared.                                                      *)
Agree ==
    /\ Len(fileA) = Len(fileB) /\ offset <= Len(fileA)
    /\ \A j \in 1..offset : fileA[j] = fileB[j]

VerifyInv ==
    /\ VerifyTypeOK
    /\ verdict = "reading" => Agree
    /\ EqualIsEqual
    /\ DifferIsReal

(* The numbers of bytes a read returns, and that it need return no less.    *)
LEMMA ReadsBounds ==
    ASSUME VerifyTypeOK, Agree, NEW n \in Reads(fileA), NEW m \in Reads(fileB)
    PROVE  /\ n \in Nat /\ m \in Nat
           /\ n <= Len(fileA) - offset
           /\ n = 0 => offset = Len(fileA)
           /\ n < FullRead(fileA) \/ m < FullRead(fileB) \/ n = m
<1>1. Len(fileA) \in Nat /\ Len(fileB) \in Nat /\ offset \in Nat
  BY DEF VerifyTypeOK
<1>2. Rest(fileA) \in Nat /\ Rest(fileB) = Rest(fileA)
  BY <1>1 DEF Rest, Agree
<1>3. FullRead(fileA) \in Nat /\ FullRead(fileB) = FullRead(fileA)
      /\ FullRead(fileA) <= Rest(fileA)
  BY <1>2, BufferAssumption DEF FullRead
<1>4. CASE Rest(fileA) = 0
  BY <1>1, <1>2, <1>3, <1>4 DEF Reads, Rest
<1>5. CASE Rest(fileA) # 0
  <2>1. n \in 1..FullRead(fileA) /\ m \in 1..FullRead(fileA)
    BY <1>2, <1>3, <1>5 DEF Reads
  <2> QED BY <1>1, <1>2, <1>3, <2>1 DEF Rest
<1> QED BY <1>4, <1>5

LEMMA StartKeeps ==
    ASSUME NEW a \in Seq(Octet), NEW b \in Seq(Octet), VerifyStart(a, b)
    PROVE  VerifyInv'
<1>1. VerifyTypeOK'
  BY DEF VerifyStart, VerifyTypeOK
<1>2. (verdict = "reading" => Agree)'
  BY DEF VerifyStart, Agree
<1>3. EqualIsEqual'
  BY DEF VerifyStart, EqualIsEqual
<1>4. DifferIsReal'
  BY DEF VerifyStart, DifferIsReal
<1> QED BY <1>1, <1>2, <1>3, <1>4 DEF VerifyInv

LEMMA ReadKeeps ==
    ASSUME VerifyInv, VerifyRead
    PROVE  VerifyInv'
<1>1. verdict = "reading" /\ Agree /\ VerifyTypeOK
  BY DEF VerifyInv, VerifyRead
<1>2. PICK n \in Reads(fileA), m \in Reads(fileB) :
         /\ short' = (short \/ n < FullRead(fileA) \/ m < FullRead(fileB))
         /\ IF n # m THEN Found(offset)
            ELSE IF n = 0
            THEN verdict' = "equal" /\ UNCHANGED <<offset, mismatch>>
            ELSE IF Differs(n) THEN \E k \in FirstOf(n) : Found(offset + k - 1)
            ELSE offset' = offset + n /\ UNCHANGED <<verdict, mismatch>>
  BY DEF VerifyRead
<1>3. UNCHANGED <<fileA, fileB>>
  BY DEF VerifyRead
<1>4. /\ n \in Nat /\ m \in Nat /\ n <= Len(fileA) - offset
      /\ n = 0 => offset = Len(fileA)
      /\ n < FullRead(fileA) \/ m < FullRead(fileB) \/ n = m
  BY <1>1, ReadsBounds
<1>5. /\ Len(fileA) \in Nat /\ Len(fileB) = Len(fileA) /\ offset \in Nat
      /\ offset <= Len(fileA)
      /\ \A j \in 1..offset : fileA[j] = fileB[j]
      /\ fileA \in Seq(Octet) /\ fileB \in Seq(Octet)
      /\ mismatch \in SUBSET Nat /\ short \in BOOLEAN
  BY <1>1 DEF VerifyTypeOK, Agree
<1>6. short' \in BOOLEAN
  BY <1>2, <1>5
<1>7. CASE n # m
  <2>1. /\ verdict' = "differ" /\ mismatch' = {offset} /\ offset' = offset
    BY <1>2, <1>7 DEF Found
  <2>2. short' = TRUE
    BY <1>2, <1>4, <1>7
  <2>3. VerifyTypeOK'
    BY <1>3, <1>5, <1>6, <2>1 DEF VerifyTypeOK
  <2> QED BY <2>1, <2>2, <2>3 DEF VerifyInv, EqualIsEqual, DifferIsReal
<1>8. CASE n = m /\ n = 0
  <2>1. /\ verdict' = "equal" /\ mismatch' = mismatch /\ offset' = offset
    BY <1>2, <1>8
  <2>2. fileA = fileB
    BY <1>4, <1>5, <1>8
  <2>3. VerifyTypeOK'
    BY <1>3, <1>5, <1>6, <2>1 DEF VerifyTypeOK
  <2> QED BY <1>3, <2>1, <2>2, <2>3 DEF VerifyInv, EqualIsEqual, DifferIsReal
<1>9. CASE n = m /\ n # 0 /\ Differs(n)
  <2>1. PICK k \in FirstOf(n) : Found(offset + k - 1)
    BY <1>2, <1>9
  <2>2. k \in 1..n /\ Differ(k) /\ \A j \in 1..(k - 1) : ~Differ(j)
    BY <2>1 DEF FirstOf
  <2>3. /\ verdict' = "differ" /\ mismatch' = {offset + k - 1} /\ offset' = offset
    BY <2>1 DEF Found
  <2>4. VerifyTypeOK'
    BY <1>3, <1>4, <1>5, <1>6, <2>2, <2>3 DEF VerifyTypeOK
  <2> DEFINE d == offset + k
  <2>5. d \in 1..Len(fileA) /\ mismatch' = {d - 1} /\ fileA[d] # fileB[d]
    BY <1>4, <1>5, <2>2, <2>3 DEF Differ
  <2>6. \A j \in 1..(d - 1) : fileA[j] = fileB[j]
    <3> SUFFICES ASSUME NEW j \in 1..(d - 1) PROVE fileA[j] = fileB[j]
      OBVIOUS
    <3>1. CASE j <= offset
      BY <1>5, <3>1
    <3>2. CASE j > offset
      <4>1. j - offset \in 1..(k - 1) /\ offset + (j - offset) = j
        BY <1>4, <1>5, <2>2, <3>2
      <4> QED BY <2>2, <4>1 DEF Differ
    <3> QED BY <1>4, <1>5, <2>2, <3>1, <3>2
  <2>7. DifferIsReal'
    BY <1>3, <2>3, <2>5, <2>6 DEF DifferIsReal
  <2> QED BY <2>3, <2>4, <2>7 DEF VerifyInv, EqualIsEqual
<1>10. CASE n = m /\ n # 0 /\ ~Differs(n)
  <2>1. /\ verdict' = "reading" /\ mismatch' = mismatch /\ offset' = offset + n
    BY <1>1, <1>2, <1>10
  <2>2. VerifyTypeOK'
    BY <1>3, <1>4, <1>5, <1>6, <2>1 DEF VerifyTypeOK
  <2>3. \A j \in 1..(offset + n) : fileA[j] = fileB[j]
    <3> SUFFICES ASSUME NEW j \in 1..(offset + n) PROVE fileA[j] = fileB[j]
      OBVIOUS
    <3>1. CASE j <= offset
      BY <1>5, <3>1
    <3>2. CASE j > offset
      <4>1. j - offset \in 1..n /\ offset + (j - offset) = j
        BY <1>4, <1>5, <3>2
      <4> QED BY <1>10, <4>1 DEF Differs, Differ
    <3> QED BY <1>4, <1>5, <3>1, <3>2
  <2>4. Agree'
    BY <1>3, <1>4, <1>5, <2>1, <2>3 DEF Agree
  <2> QED BY <2>1, <2>2, <2>4 DEF VerifyInv, EqualIsEqual, DifferIsReal
<1> QED BY <1>7, <1>8, <1>9, <1>10

LEMMA InitVerifies == VerifyInit => VerifyInv
<1> SUFFICES ASSUME VerifyInit PROVE VerifyInv
  OBVIOUS
<1>1. VerifyTypeOK
  <2>1. fileA \in Seq(Octet) /\ fileB \in Seq(Octet)
    BY DEF VerifyInit
  <2>2. offset \in Nat /\ short \in BOOLEAN
    BY DEF VerifyInit
  <2>3. verdict = "none" /\ mismatch \in SUBSET Nat
    BY DEF VerifyInit
  <2> QED BY <2>1, <2>2, <2>3 DEF VerifyTypeOK
<1>2. verdict = "none"
  BY DEF VerifyInit
<1> QED BY <1>1, <1>2 DEF VerifyInv, EqualIsEqual, DifferIsReal

LEMMA VerifyInvariant == VerifySpec => []VerifyInv
<1>1. VerifyInit => VerifyInv
  BY InitVerifies
<1>2. VerifyInv /\ [VerifyNext]_verifyVars => VerifyInv'
  <2> SUFFICES ASSUME VerifyInv, [VerifyNext]_verifyVars PROVE VerifyInv'
    OBVIOUS
  <2>1. CASE \E a, b \in Seq(Octet) : VerifyStart(a, b)
    BY <2>1, StartKeeps
  <2>2. CASE VerifyRead
    BY <2>2, ReadKeeps
  <2>3. CASE UNCHANGED verifyVars
    BY <2>3 DEF verifyVars, VerifyInv, VerifyTypeOK, Agree, EqualIsEqual, DifferIsReal
  <2> QED BY <2>1, <2>2, <2>3 DEF VerifyNext
<1> QED BY <1>1, <1>2, PTL DEF VerifySpec

(* Files that `verify` reports identical are, for every size of the files   *)
(* and of the buffers, and however the reads are split (verify_files).      *)
THEOREM ReportedEqualAreEqual == VerifySpec => []EqualIsEqual
<1>1. VerifyInv => EqualIsEqual
  BY DEF VerifyInv
<1> QED BY <1>1, VerifyInvariant, PTL

(* Where no read falls short, `verify` reports a difference only where the  *)
(* first one is (verify_files, first_mismatch_offset).                      *)
THEOREM ReportedDifferencesAreReal == VerifySpec => []DifferIsReal
<1>1. VerifyInv => DifferIsReal
  BY DEF VerifyInv
<1> QED BY <1>1, VerifyInvariant, PTL
=============================================================================
