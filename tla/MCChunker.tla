----------------------------- MODULE MCChunker ------------------------------
(* Every file of up to MaxFile bytes whose zero hashes depend on where the  *)
(* chunk ends, and those that depend on its length.                         *)
EXTENDS Chunker

CONSTANT MaxFile

Zeros(P(_, _)) == {<<s, e>> \in (0..MaxFile) \X (1..MaxFile) : s < e /\ P(s, e)}

SmallFiles ==
    LET ByEnd == {Zeros(LAMBDA s, e : e \in E) : E \in SUBSET (1..MaxFile)}
        ByLength == {Zeros(LAMBDA s, e : e - s = n) : n \in 1..MaxFile}
    IN [size : 0..MaxFile, zeros : ByEnd \cup ByLength]
=============================================================================
