---------------------------- MODULE MCRoundTrip ----------------------------
(* Every pair of files over two bytes of up to MaxOld and MaxNew bytes, and *)
(* every way to chunk them.                                                 *)
EXTENDS RoundTrip

CONSTANTS MaxOld, MaxNew

SeqsUpTo(n) == UNION {[1..m -> Byte] : m \in 0..n}

(* The chunks of a file of n bytes that is cut at the places in cuts.       *)
Chunks(n, cuts) ==
    LET edges == (cuts \cap (0..n)) \cup {0, n} IN
    {<<x, y - x>> : <<x, y>> \in
        {e \in edges \X edges : e[1] < e[2] /\ \A z \in edges : ~(e[1] < z /\ z < e[2])}}

SmallOlds == {[bytes |-> b, chunks |-> Chunks(Len(b), cuts)] :
                b \in SeqsUpTo(MaxOld), cuts \in SUBSET (1..(MaxOld - 1))}
SmallNews == SeqsUpTo(MaxNew)
=============================================================================
