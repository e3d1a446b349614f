------------------------------- MODULE Verify -------------------------------
(***************************************************************************)
(* `r-delta verify` (verify_files): two files, which nobody writes to in   *)
(* the meantime, are read side by side through a buffer each.  A read may  *)
(* return fewer bytes than the buffer holds and the file has.              *)
(***************************************************************************)
EXTENDS Naturals, Sequences

CONSTANTS Octet, BufferSize

ASSUME BufferAssumption == BufferSize \in Nat \ {0}

VARIABLES
    fileA, fileB,  \* the two files
    offset,        \* how many bytes of both were compared
    short,         \* a read returned less than it could (history)
    verdict,       \* "none" yet, "reading", "equal" or "differ"
    mismatch       \* first_mismatch_offset: no offset, or one

verifyVars == <<fileA, fileB, offset, short, verdict, mismatch>>

VerifyTypeOK ==
    /\ fileA \in Seq(Octet) /\ fileB \in Seq(Octet)
    /\ offset \in Nat /\ short \in BOOLEAN
    /\ verdict \in {"none", "reading", "equal", "differ"}
    /\ mismatch \in SUBSET Nat

VerifyInit ==
    /\ fileA = <<>> /\ fileB = <<>> /\ offset = 0 /\ short = FALSE
    /\ verdict = "none" /\ mismatch = {}

(* The files are opened; files of different sizes are not read.             *)
VerifyStart(a, b) ==
    /\ verdict # "reading"
    /\ fileA' = a /\ fileB' = b /\ offset' = 0 /\ short' = FALSE
    /\ verdict' = IF Len(a) = Len(b) THEN "reading" ELSE "differ"
    /\ mismatch' = {}

(* How many bytes the next read may return, and how many it should.         *)
Rest(f) == Len(f) - offset
FullRead(f) == IF Rest(f) < BufferSize THEN Rest(f) ELSE BufferSize
Reads(f) == IF Rest(f) = 0 THEN {0} ELSE 1..FullRead(f)

(* The buffers differ, and where they do so first.                          *)
Differ(k) == fileA[offset + k] # fileB[offset + k]
Differs(n) == \E k \in 1..n : Differ(k)
FirstOf(n) == {k \in 1..n : Differ(k) /\ \A j \in 1..(k - 1) : ~Differ(j)}

Found(k) == verdict' = "differ" /\ mismatch' = {k} /\ UNCHANGED offset

(* Wrong versions of the next action: what was read before is forgotten     *)
(* when an offset is reported, or the shorter read is compared and counted. *)
VerifyReadRelative ==
    /\ verdict = "reading"
    /\ \E n \in Reads(fileA), m \in Reads(fileB) :
         /\ short' = (short \/ n < FullRead(fileA) \/ m < FullRead(fileB))
         /\ IF n # m THEN Found(offset)
            ELSE IF n = 0
            THEN verdict' = "equal" /\ UNCHANGED <<offset, mismatch>>
            ELSE IF Differs(n) THEN \E k \in FirstOf(n) : Found(k - 1)
            ELSE offset' = offset + n /\ UNCHANGED <<verdict, mismatch>>
    /\ UNCHANGED <<fileA, fileB>>
VerifyReadShorter ==
    /\ verdict = "reading"
    /\ \E n \in Reads(fileA), m \in Reads(fileB) :
         /\ short' = (short \/ n < FullRead(fileA) \/ m < FullRead(fileB))
         /\ LET least == IF n < m THEN n ELSE m  most == IF n < m THEN m ELSE n IN
            IF n = 0
            THEN verdict' = "equal" /\ UNCHANGED <<offset, mismatch>>
            ELSE IF Differs(least)
            THEN \E k \in FirstOf(least) : Found(offset + k - 1)
            ELSE offset' = offset + most /\ UNCHANGED <<verdict, mismatch>>
    /\ UNCHANGED <<fileA, fileB>>

(* One turn of the loop: a read of each file.  Different numbers of bytes   *)
(* count as a mismatch, and two empty reads as the end of equal files.      *)
VerifyRead ==
    /\ verdict = "reading"
    /\ \E n \in Reads(fileA), m \in Reads(fileB) :
         /\ short' = (short \/ n < FullRead(fileA) \/ m < FullRead(fileB))
         /\ IF n # m THEN Found(offset)
            ELSE IF n = 0
            THEN verdict' = "equal" /\ UNCHANGED <<offset, mismatch>>
            ELSE IF Differs(n) THEN \E k \in FirstOf(n) : Found(offset + k - 1)
            ELSE offset' = offset + n /\ UNCHANGED <<verdict, mismatch>>
    /\ UNCHANGED <<fileA, fileB>>

VerifyNext ==
    \/ \E a, b \in Seq(Octet) : VerifyStart(a, b)
    \/ VerifyRead

VerifySpec == VerifyInit /\ [][VerifyNext]_verifyVars
-----------------------------------------------------------------------------
(* Safety: files are reported identical only when they are, however their   *)
(* reads are split (verify_files, are_equal).                               *)
EqualIsEqual == verdict = "equal" => fileA = fileB

(* Safety: files are reported different only when they are, and the offset  *)
(* is that of their first difference, unless a read fell short: reads of    *)
(* different lengths are taken for a difference (verify_files,              *)
(* first_mismatch_offset).                                                  *)
DifferIsReal ==
    verdict = "differ" /\ ~short =>
        IF mismatch = {} THEN Len(fileA) # Len(fileB)
        ELSE \E k \in 1..Len(fileA) :
               /\ mismatch = {k - 1} /\ fileA[k] # fileB[k]
               /\ \A j \in 1..(k - 1) : fileA[j] = fileB[j]
=============================================================================
