----------------------------- MODULE MCTreeSync -----------------------------
(* Instances of TreeSync for TLC: a directory with a file and a directory   *)
(* with a file.                                                             *)
EXTENDS TreeSync, TLC

CONSTANTS c1, c2, d, dx, de, dey, one, uno, none

FourPaths == <<d, de, dey, dx>>
Parents == (d :> Top) @@ (de :> d) @@ (dey :> de) @@ (dx :> d)
Sizes == (one :> 1) @@ (uno :> 1) @@ (none :> 0)

(* Directories stay directories, and files files.                           *)
SameKinds ==
    [p \in Paths |-> IF p \in {d, de} THEN {Absent, Dir}
                     ELSE IF p = dx THEN {Absent, one, uno} ELSE {Absent, one, none}]

TreeOf(x, y) ==
    [p \in Paths |-> IF p = d THEN Dir ELSE IF p = dx THEN x ELSE IF p = dey THEN y
                     ELSE IF y = Absent THEN Absent ELSE Dir]
(* The users agree on one file; one has another, the other has not.         *)
OneEach == {(c1 :> TreeOf(one, one)) @@ (c2 :> TreeOf(one, Absent))}
FewStores == {NoEntries, TreeOf(uno, none)}
=============================================================================
