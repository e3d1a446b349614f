----------------------------- MODULE MCFileSync -----------------------------
(* Instances of FileSync for TLC: contents of two and three blocks.         *)
EXTENDS FileSync, TLC

CONSTANTS a, b, c, d

TwoBlocks == {<<a, b>>}
ThreeBlocks == {<<a, b, a>>}
Edited == {<<a, b>>, <<c, d>>}
Shrunk == {<<a, b>>, <<c>>}
Nothing == {NoInode}
Older == {NoInode, <<b, c>>}
OlderThree == {NoInode, <<b, c, a>>}

(* A restriction of the steps: a client runs only beside sessions that have *)
(* not begun or have failed, and resumes what these have left in `.part`.   *)
Starts(s) == cl[s].pc \in ClientEnds /\ cl'[s].pc = "ack"
Resumes ==
    \A s \in Sessions : Starts(s) =>
        \A x \in Sessions \ {s} :
            /\ cl[x].pc \in {"idle", "failed"}
            /\ cl[x].pc = "failed" => SizeOf("part") > 0
RetrySpec == Init /\ [][Next /\ Resumes]_vars

(* No definition tells one session from another.                            *)
SameSessions == Permutations(Sessions)
=============================================================================
