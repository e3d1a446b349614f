----------------------------- MODULE MCDirSync ------------------------------
(* Instances of DirSync for TLC: three paths, small and large contents.     *)
EXTENDS DirSync, TLC

CONSTANTS p1, p2, p3, empty, little, little2, big, big2

ThreePaths == <<p1, p2, p3>>

(* In blocks of SMALL_FILE_THRESHOLD / 2: two is no longer small.           *)
Sizes == (empty :> 0) @@ (little :> 1) @@ (little2 :> 1) @@ (big :> 2) @@ (big2 :> 3)

Dirs(C) == [Paths -> C \cup {Absent}]
StoredDirs(C) == [Paths -> {Plain(c) : c \in C} \cup {Absent}]

(* All files small, or all large; what p1 may have, the server has not.     *)
SmallOnes == {empty, little, little2}
LargeOnes == {big, big2}
UniformLocals ==
    {f \in Dirs(SmallOnes) : f[p1] \in {little, Absent}} \cup
    {f \in Dirs(LargeOnes) : f[p1] \in {big, Absent}}
UniformStores ==
    {f \in StoredDirs({little2, big2}) \cup StoredDirs({empty, big2}) :
        f[p1] \in {Plain(big2), Absent}}

(* Small and large files together, against a server with one large file.    *)
MixedLocals == {f \in Dirs({little, big}) : f[p1] # Absent /\ f[p3] # Absent}
MixedStores == {f \in StoredDirs({big2}) : f[p1] = Absent}
=============================================================================
