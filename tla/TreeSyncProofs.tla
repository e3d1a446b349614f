--------------------------- MODULE TreeSyncProofs ---------------------------
(***************************************************************************)
(* TreeSync is type correct, keeps the files all users share, and an       *)
(* undisturbed run mirrors its tree with an exact plan.                    *)
(***************************************************************************)
EXTENDS TreeSync, SequenceTheorems, WellFoundedInduction, NaturalsInduction, TLAPS

(* The entries that the scan of run r is done with.                         *)
Seen(r) == {Order[k] : k \in 1..(r.at - 1)}

(* What the places of a run say about its position, its manifests and its   *)
(* uploads: an entry whose checksum is computed next is one of a file.      *)
Places(r) ==
    /\ r.pc \in {"hash", "srvhash"} => r.at <= Len(Order)
    /\ r.pc = "hash" => r.mine[Order[r.at]] \in Entry
    /\ r.pc = "srvhash" => r.theirs[Order[r.at]] \in Entry
    /\ r.pc = "commit" => r.todo # {}
TypeInv == TypeOK /\ \A c \in Clients : Places(run[c])
-----------------------------------------------------------------------------
Before == {x \in Nat \X Nat : x[1] < x[2]}

(* A set of numbers has a least one: induction for the proofs below.        *)
LEMMA LeastNumber ==
    ASSUME NEW T, T \subseteq Nat, T # {}
    PROVE  \E m \in T : \A k \in T : m <= k
<1>1. IsWellFoundedOn(Before, Nat)
  BY NatLessThanWellFounded, Zenon DEF Before, OpToRel
<1>2. PICK m \in T : \A k \in T : ~ (<<k, m>> \in Before)
  BY <1>1, WFMin
<1>3. ASSUME NEW k \in T PROVE m <= k
  <2>1. <<k, m>> \in Before <=> k < m
    BY DEF Before
  <2> QED BY <1>2, <2>1
<1> QED BY <1>3

(* Every position of Order has a path, every path a position.               *)
LEMMA Positions ==
    /\ DOMAIN Order = 1..Len(Order) /\ Len(Order) \in Nat
    /\ \A k \in 1..Len(Order) : Order[k] \in Paths
    /\ \A p \in Paths : \E k \in 1..Len(Order) : p = Order[k]
<1>1. Order \in Seq(Paths)
  BY OrderAssumption
<1>2. DOMAIN Order = 1..Len(Order) /\ Len(Order) \in Nat
  BY <1>1
<1> QED BY <1>2 DEF Paths

(* First chooses a path of P.                                               *)
LEMMA FirstIn ==
    ASSUME NEW P, P \subseteq Paths, P # {}
    PROVE  First(P) \in P
<1> DEFINE T == {k \in 1..Len(Order) : Order[k] \in P}
<1>1. T \subseteq Nat /\ T # {}
  BY Positions
<1>2. PICK m \in T : \A k \in T : m <= k
  <2> HIDE DEF T
  <2> QED BY <1>1, LeastNumber
<1>3. \A l \in 1..(m - 1) : Order[l] \notin P
  <2>1. m \in Nat /\ m <= Len(Order) /\ Len(Order) \in Nat
    BY Positions
  <2>2. ASSUME NEW l \in 1..(m - 1), Order[l] \in P PROVE FALSE
    <3>1. l \in T
      BY <2>1, <2>2
    <3> QED BY <1>2, <2>1, <3>1
  <2> QED BY <2>2
<1>4. m \in DOMAIN Order /\ Order[m] \in P
  BY Positions
<1>5. \E p \in P : \E k \in DOMAIN Order :
          Order[k] = p /\ \A l \in 1..(k - 1) : Order[l] \notin P
  BY <1>3, <1>4
<1> QED BY <1>5 DEF First
-----------------------------------------------------------------------------
(* Induction on paths: a set that has each path whose directory it has, or  *)
(* which is in no other, has all of them.                                   *)
LEMMA PathInduction ==
    ASSUME NEW T,
           ASSUME NEW p \in Paths, Parent[p] = Top \/ Parent[p] \in T
           PROVE  p \in T
    PROVE  Paths \subseteq T
<1> SUFFICES ASSUME ~ (Paths \subseteq T) PROVE FALSE
  OBVIOUS
<1> DEFINE W == {k \in 1..Len(Order) : Order[k] \notin T}
<1>1. W \subseteq Nat /\ W # {}
  BY Positions
<1>2. PICK m \in W : \A k \in W : m <= k
  <2> HIDE DEF W
  <2> QED BY <1>1, LeastNumber
<1>3. m \in 1..Len(Order) /\ Order[m] \in Paths /\ Order[m] \notin T
  BY Positions
<1>4. Parent[Order[m]] # Top /\ Parent[Order[m]] \notin T
  BY <1>3
<1>5. PICK l \in 1..(m - 1) : Order[l] = Parent[Order[m]]
  BY <1>3, <1>4, Positions, OrderAssumption
<1>6. l \in 1..Len(Order) /\ ~ (m <= l)
  BY <1>3, Positions
<1>7. l \in W
  BY <1>4, <1>5, <1>6
<1> QED BY <1>2, <1>6, <1>7

(* The recursive definition of Above determines it: there is such a         *)
(* function, that of the paths in every set that has the directory of p and *)
(* of each of its members.                                                  *)
LEMMA AboveEquation ==
    ASSUME NEW p \in Paths
    PROVE  Above[p] = IF Parent[p] = Top THEN {} ELSE {Parent[p]} \cup Above[Parent[p]]
<1> DEFINE Closed(S) == \A x \in S : Parent[x] = Top \/ Parent[x] \in S
           Over(q) == {S \in SUBSET Paths : Closed(S) /\ (Parent[q] = Top \/ Parent[q] \in S)}
           F(q) == {x \in Paths : \A S \in Over(q) : x \in S}
           f == [q \in Paths |-> F(q)]
           Up(g, q) == IF Parent[q] = Top THEN {} ELSE {Parent[q]} \cup g[Parent[q]]
<1>1. ASSUME NEW q \in Paths PROVE F(q) = Up(f, q)
  <2>1. CASE Parent[q] = Top
    <3>1. {} \in Over(q)
      BY <2>1
    <3> QED BY <2>1, <3>1
  <2>2. CASE Parent[q] # Top
    <3> DEFINE o == Parent[q]
    <3>1. o \in Paths /\ f[o] = F(o)
      BY <2>2, OrderAssumption
    <3>2. {o} \cup F(o) \subseteq F(q)
      <4>1. o \in F(q)
        BY <2>2, <3>1
      <4>2. ASSUME NEW x \in F(o), NEW S \in Over(q) PROVE x \in S
        <5>1. S \in Over(o)
          BY <2>2
        <5> QED BY <4>2, <5>1
      <4> QED BY <4>1, <4>2
    <3>3. {o} \cup F(o) \in Over(q)
      <4>1. ASSUME NEW x \in F(o), Parent[x] # Top PROVE Parent[x] \in F(o)
        <5>1. Parent[x] \in Paths
          BY <4>1, OrderAssumption
        <5>2. ASSUME NEW S \in Over(o) PROVE Parent[x] \in S
          <6>1. x \in S
            BY <4>1
          <6> QED BY <4>1, <6>1
        <5> QED BY <5>1, <5>2
      <4>2. ASSUME Parent[o] # Top PROVE Parent[o] \in F(o)
        BY <3>1, <4>2, OrderAssumption
      <4>3. {o} \cup F(o) \in SUBSET Paths
        BY <3>1
      <4>4. Closed({o} \cup F(o))
        BY <4>1, <4>2
      <4> QED BY <4>3, <4>4
    <3>4. F(q) \subseteq {o} \cup F(o)
      BY <3>3
    <3>5. F(q) = {o} \cup F(o)
      BY <3>2, <3>4
    <3> QED BY <2>2, <3>1, <3>5
  <2> QED BY <2>1, <2>2
<1>2. f = [q \in Paths |-> Up(f, q)]
  <2> HIDE DEF F, Up
  <2> QED BY <1>1
<1>3. \E g : g = [q \in Paths |-> Up(g, q)]
  <2> HIDE DEF f, Up
  <2> QED BY <1>2
<1>4. Above = CHOOSE g : g = [q \in Paths |-> Up(g, q)]
  BY DEF Above
<1>5. Above = [q \in Paths |-> Up(Above, q)]
  <2> HIDE DEF Up
  <2> QED BY <1>3, <1>4
<1>6. Above[p] = Up(Above, p)
  <2> HIDE DEF Up
  <2> QED BY <1>5
<1> QED BY <1>6

(* What p is in are paths,                                                  *)
LEMMA AboveInPaths == \A p \in Paths : Above[p] \subseteq Paths
<1> DEFINE T == {p \in Paths : Above[p] \subseteq Paths}
<1>1. ASSUME NEW p \in Paths, Parent[p] = Top \/ Parent[p] \in T PROVE p \in T
  BY <1>1, AboveEquation
<1>2. Paths \subseteq T
  <2> HIDE DEF T
  <2> QED BY <1>1, PathInduction
<1> QED BY <1>2

(* and p is in what these are in.                                           *)
LEMMA AboveAbove == \A p \in Paths : \A q \in Above[p] : Above[q] \subseteq Above[p]
<1> DEFINE T == {p \in Paths : \A q \in Above[p] : Above[q] \subseteq Above[p]}
<1>1. ASSUME NEW p \in Paths, Parent[p] = Top \/ Parent[p] \in T PROVE p \in T
  BY <1>1, AboveEquation
<1>2. Paths \subseteq T
  <2> HIDE DEF T
  <2> QED BY <1>1, PathInduction
<1> QED BY <1>2

(* A directory p is in has a child on the way to p.                         *)
LEMMA ChildAbove ==
    \A p \in Paths : \A q \in Above[p] :
        \E r \in Children(q) : r = p \/ r \in Above[p]
<1> DEFINE T == {p \in Paths : \A q \in Above[p] :
                    \E r \in Children(q) : r = p \/ r \in Above[p]}
<1>1. ASSUME NEW p \in Paths, Parent[p] = Top \/ Parent[p] \in T PROVE p \in T
  <2> SUFFICES ASSUME NEW q \in Above[p] PROVE \E r \in Children(q) : r = p \/ r \in Above[p]
    OBVIOUS
  <2>1. Parent[p] # Top /\ Parent[p] \in T /\ Above[p] = {Parent[p]} \cup Above[Parent[p]]
    BY <1>1, AboveEquation
  <2>2. CASE q = Parent[p]
    BY <2>2 DEF Children
  <2>3. CASE q \in Above[Parent[p]]
    <3>1. PICK r \in Children(q) : r = Parent[p] \/ r \in Above[Parent[p]]
      BY <2>1, <2>3
    <3> QED BY <2>1, <3>1
  <2> QED BY <2>1, <2>2, <2>3
<1>2. Paths \subseteq T
  <2> HIDE DEF T
  <2> QED BY <1>1, PathInduction
<1> QED BY <1>2
-----------------------------------------------------------------------------
(* Making the directories a path is in leaves a tree.                       *)
LEMMA DirsTree ==
    ASSUME NEW t, IsTree(t), NEW p \in Paths
    PROVE  IsTree(WithDirs(t, p))
<1> DEFINE u == [q \in Paths |-> IF q \in Above[p] THEN Dir ELSE t[q]]
<1>1. u \in [Paths -> Contents \cup {Absent, Dir}]
  BY DEF IsTree
<1>2. ASSUME NEW q \in Paths, u[q] # Absent, NEW o \in Above[q] PROVE u[o] = Dir
  <2>1. o \in Paths
    BY AboveInPaths
  <2>2. CASE q \in Above[p]
    BY <2>1, <2>2, AboveAbove
  <2>3. CASE q \notin Above[p]
    <3>1. t[o] = Dir
      BY <1>2, <2>3 DEF IsTree
    <3> QED BY <2>1, <3>1
  <2> QED BY <2>2, <2>3
<1> HIDE DEF u
<1>3. IsTree(u)
  BY <1>1, <1>2 DEF IsTree
<1> QED BY <1>3 DEF u, WithDirs

(* So does putting a file in its directory.                                 *)
LEMMA FileTree ==
    ASSUME NEW t, IsTree(t), NEW p \in Paths, NEW n \in Contents,
           t[p] # Dir, \A q \in Above[p] : t[q] = Dir
    PROVE  IsTree([t EXCEPT ![p] = n])
<1> DEFINE u == [t EXCEPT ![p] = n]
<1>1. u \in [Paths -> Contents \cup {Absent, Dir}] /\ t \in [Paths -> Contents \cup {Absent, Dir}]
  BY DEF IsTree
<1>2. ASSUME NEW q \in Paths, u[q] # Absent, NEW o \in Above[q] PROVE u[o] = Dir
  <2>1. o \in Paths
    BY AboveInPaths
  <2>2. t[o] = Dir
    <3>1. CASE q = p
      BY <3>1
    <3>2. CASE q # p
      BY <1>1, <1>2, <3>2 DEF IsTree
    <3> QED BY <3>1, <3>2
  <2> QED BY <1>1, <2>1, <2>2
<1> HIDE DEF u
<1>3. IsTree(u)
  BY <1>1, <1>2 DEF IsTree
<1> QED BY <1>3 DEF u

(* A path is not among the directories it is in;                            *)
LEMMA NotAbove == \A p \in Paths : p \notin Above[p]
<1> DEFINE T == {p \in Paths : p \notin Above[p]}
<1>1. ASSUME NEW p \in Paths, Parent[p] = Top \/ Parent[p] \in T PROVE p \in T
  <2>1. CASE Parent[p] = Top
    BY <2>1, AboveEquation
  <2>2. CASE Parent[p] # Top
    <3>1. Parent[p] \in Paths /\ Parent[p] \notin Above[Parent[p]]
      BY <1>1, <2>2
    <3>2. Above[p] = {Parent[p]} \cup Above[Parent[p]]
      BY <2>2, AboveEquation
    <3>3. SUFFICES ASSUME p \in Above[p] PROVE FALSE
      OBVIOUS
    <3>4. p \in Above[Parent[p]]
      BY <3>1, <3>2, <3>3
    <3>5. Above[p] \subseteq Above[Parent[p]]
      BY <3>1, <3>4, AboveAbove
    <3> QED BY <3>1, <3>2, <3>5
  <2> QED BY <2>1, <2>2
<1>2. Paths \subseteq T
  <2> HIDE DEF T
  <2> QED BY <1>1, PathInduction
<1> QED BY <1>2

(* so an upload, which makes these and puts the file there, keeps a tree.   *)
LEMMA UploadTree ==
    ASSUME NEW t, IsTree(t), NEW p \in Paths, NEW n \in Contents,
           t[p] # Dir, ~Blocked(t, p)
    PROVE  IsTree([WithDirs(t, p) EXCEPT ![p] = n])
<1>1. IsTree(WithDirs(t, p))
  BY DirsTree
<1>2. WithDirs(t, p)[p] = t[p]
  BY NotAbove DEF WithDirs
<1>3. \A q \in Above[p] : WithDirs(t, p)[q] = Dir
  BY AboveInPaths DEF WithDirs
<1> HIDE DEF WithDirs
<1> QED BY <1>1, <1>2, <1>3, FileTree

(* So does removing a file and its directory if that is empty then; all     *)
(* other files stay.                                                        *)
LEMMA RemovedFits ==
    ASSUME NEW t, IsTree(t), NEW p \in Paths
    PROVE  /\ IsTree(Removed(t, p))
           /\ \A q \in Paths : Removed(t, p)[q] \in {t[q], Absent}
           /\ \A q \in Paths \ {p} : IsFile(t[q]) => Removed(t, p)[q] = t[q]
           /\ ~ IsFile(Removed(t, p)[p])
<1> DEFINE u == IF IsFile(t[p]) THEN [t EXCEPT ![p] = Absent] ELSE t
           bare == /\ t[p] # Absent /\ Parent[p] # Top
                   /\ \A q \in Children(Parent[p]) : u[q] = Absent
           v == IF bare THEN [u EXCEPT ![Parent[p]] = Absent] ELSE u
<1>1. Removed(t, p) = v
  BY DEF Removed
<1>2. t \in [Paths -> Contents \cup {Absent, Dir}]
  BY DEF IsTree
<1>3. /\ u \in [Paths -> Contents \cup {Absent, Dir}]
      /\ \A q \in Paths : u[q] = IF q = p /\ IsFile(t[p]) THEN Absent ELSE t[q]
  BY <1>2
<1> HIDE DEF u
<1>4. bare => Parent[p] \in Paths /\ t[Parent[p]] = Dir /\ Parent[p] \in Above[p]
  <2> SUFFICES ASSUME bare PROVE Parent[p] \in Paths /\ t[Parent[p]] = Dir /\ Parent[p] \in Above[p]
    OBVIOUS
  <2>1. Parent[p] \in Paths /\ Parent[p] \in Above[p]
    BY OrderAssumption, AboveEquation
  <2> QED BY <2>1 DEF IsTree
<1>5. /\ v \in [Paths -> Contents \cup {Absent, Dir}]
      /\ \A q \in Paths : v[q] = IF bare /\ q = Parent[p] THEN Absent ELSE u[q]
  <2> HIDE DEF bare
  <2>1. CASE bare
    BY <1>3, <1>4, <2>1, NodesAssumption
  <2>2. CASE ~bare
    BY <1>3, <2>2
  <2> QED BY <2>1, <2>2
<1> HIDE DEF v
<1>6. ASSUME NEW q \in Paths, v[q] # Absent, NEW o \in Above[q] PROVE v[o] = Dir
  <2>1. o \in Paths
    BY AboveInPaths
  <2>2. u[q] # Absent /\ t[q] # Absent
    <3> HIDE DEF bare
    <3> QED BY <1>3, <1>5, <1>6
  <2>3. t[o] = Dir
    BY <2>2 DEF IsTree
  <2>4. u[o] = Dir
    BY <1>3, <2>1, <2>3, NodesAssumption DEF IsFile
  <2>5. ~ (bare /\ o = Parent[p])
    <3> SUFFICES ASSUME bare, o = Parent[p] PROVE FALSE
      OBVIOUS
    <3>1. PICK r \in Children(o) : r = q \/ r \in Above[q]
      BY ChildAbove
    <3>2. u[r] = Absent /\ r \in Paths
      BY <3>1 DEF Children
    <3>3. r # q
      BY <2>2, <3>2
    <3>4. t[r] = Dir
      BY <2>2, <3>1, <3>3 DEF IsTree
    <3> QED BY <1>3, <3>2, <3>4, NodesAssumption DEF IsFile
  <2> HIDE DEF bare
  <2> QED BY <1>5, <2>1, <2>4, <2>5
<1>7. IsTree(v)
  BY <1>5, <1>6 DEF IsTree
<1> HIDE DEF bare
<1>8. \A q \in Paths : v[q] \in {t[q], Absent}
  BY <1>3, <1>5
<1>9. ASSUME NEW q \in Paths \ {p}, IsFile(t[q]) PROVE v[q] = t[q]
  BY <1>3, <1>4, <1>5, <1>9, NodesAssumption DEF IsFile
<1>10. ~ IsFile(v[p])
  BY <1>3, <1>5, NodesAssumption DEF IsFile
<1> QED BY <1>1, <1>7, <1>8, <1>9, <1>10
-----------------------------------------------------------------------------
(* The runs as TypeOK has them.                                             *)
Runs ==
    [pc : Ends \cup {"scan", "hash", "srvscan", "srvhash", "put", "commit"},
     at : 1..(Len(Order) + 1), mine : Manifest, theirs : Manifest,
     plan : [Paths -> {"None", "Send", "Skip", "Delete"}],
     todo : SUBSET Paths, size : Nat, broken : BOOLEAN]

(* A run that waits, starts, uploads next or has ended is a run.            *)
LEMMA IdleRuns ==
    ASSUME NEW pc \in Ends \cup {"scan", "put"}
    PROVE  Idle(pc) \in Runs /\ Places(Idle(pc))
<1>1. 1 \in 1..(Len(Order) + 1)
  BY Positions
<1>2. NoEntries \in Manifest
  BY DEF NoEntries, Manifest
<1>3. NoPlan \in [Paths -> {"None", "Send", "Skip", "Delete"}]
  BY DEF NoPlan
<1> QED BY <1>1, <1>2, <1>3 DEF Idle, Runs, Places, Ends

(* What a scan finds is an entry.                                           *)
LEMMA StatTypes ==
    ASSUME NEW t, IsTree(t), NEW m, NEW p \in Paths
    PROVE  /\ Stat(t, m, p) \in Entry \cup {Absent, Dir}
           /\ Hashes(Stat(t, m, p)) => Stat(t, m, p) \in Entry
<1>1. t[p] \in Contents \cup {Absent, Dir}
  BY DEF IsTree
<1> QED BY <1>1, NodesAssumption DEF Stat, Entry, Hashes, NoSum

(* A run whose scan of the storage failed is a run.                         *)
LEMMA BlindRuns ==
    ASSUME NEW r \in Runs
    PROVE  Blind(r) \in Runs /\ Places(Blind(r))
<1>1. Len(Order) + 1 \in 1..(Len(Order) + 1)
  BY Positions
<1>2. NoEntries \in Manifest
  BY DEF NoEntries, Manifest
<1> QED BY <1>1, <1>2 DEF Blind, Runs, Places

(* A run that TypeInv allows.                                               *)
Sound(r) == r \in Runs /\ Places(r)
(* Replacing a run by another keeps the types.                              *)
LEMMA TypeRun ==
    ASSUME TypeInv, NEW c \in Clients, NEW r, Sound(r), run' = [run EXCEPT ![c] = r]
    PROVE  run' \in [Clients -> Runs] /\ \A x \in Clients : Places(run'[x])
BY DEF TypeInv, TypeOK, Runs, Sound

(* The actions of a run keep its type: a step of a scan,                    *)
LEMMA TypeScan ==
    ASSUME TypeInv, NEW c \in Clients, Scan(c) \/ SrvScan(c)
    PROVE  run' \in [Clients -> Runs] /\ \A x \in Clients : Places(run'[x])
<1> DEFINE r == run[c]
           p == Order[r.at]
<1>1. r \in Runs /\ IsTree(store) /\ IsTree(local[c])
  BY DEF TypeInv, TypeOK, Runs
<1>2. r.at \in 1..Len(Order) /\ r.at + 1 \in 1..(Len(Order) + 1) /\ p \in Paths
  BY <1>1, Positions DEF Scan, SrvScan, Runs
<1>3. CASE Scan(c)
  <2> DEFINE e == Stat(local[c], r.mine, p)
             s == [r EXCEPT !.mine = [r.mine EXCEPT ![p] = e],
                            !.pc = IF Hashes(e) THEN "hash" ELSE "scan",
                            !.at = IF Hashes(e) THEN r.at ELSE r.at + 1]
  <2>1. run' = [run EXCEPT ![c] = s]
    BY <1>3 DEF Scan
  <2>2. e \in Entry \cup {Absent, Dir} /\ (Hashes(e) => e \in Entry)
    BY <1>1, <1>2, StatTypes
  <2> HIDE DEF e
  <2>3. r.mine \in Manifest /\ [r.mine EXCEPT ![p] = e] \in Manifest /\ [r.mine EXCEPT ![p] = e][p] = e
    BY <1>1, <1>2, <2>2 DEF Runs, Manifest
  <2>4. s \in Runs
    BY <1>1, <1>2, <2>3 DEF Runs
  <2>5. Places(s)
    BY <1>1, <1>2, <2>2, <2>3 DEF Places, Runs
  <2> QED BY <2>1, <2>4, <2>5, TypeRun DEF Sound
<1>4. CASE SrvScan(c)
  <2> DEFINE e == Stat(store, r.theirs, p)
             s == [r EXCEPT !.theirs = [r.theirs EXCEPT ![p] = e],
                            !.pc = IF Hashes(e) THEN "srvhash" ELSE "srvscan",
                            !.at = IF Hashes(e) THEN r.at ELSE r.at + 1]
  <2>1. run' = [run EXCEPT ![c] = s]
    BY <1>4 DEF SrvScan
  <2>2. e \in Entry \cup {Absent, Dir} /\ (Hashes(e) => e \in Entry)
    BY <1>1, <1>2, StatTypes
  <2> HIDE DEF e
  <2>3. r.theirs \in Manifest /\ [r.theirs EXCEPT ![p] = e] \in Manifest /\ [r.theirs EXCEPT ![p] = e][p] = e
    BY <1>1, <1>2, <2>2 DEF Runs, Manifest
  <2>4. s \in Runs
    BY <1>1, <1>2, <2>3 DEF Runs
  <2>5. Places(s)
    BY <1>1, <1>2, <2>2, <2>3 DEF Places, Runs
  <2> QED BY <2>1, <2>4, <2>5, TypeRun DEF Sound
<1> QED BY <1>3, <1>4

(* a checksum,                                                              *)
LEMMA TypeHash ==
    ASSUME TypeInv, NEW c \in Clients, Hash(c) \/ SrvHash(c)
    PROVE  run' \in [Clients -> Runs] /\ \A x \in Clients : Places(run'[x])
<1> DEFINE r == run[c]
           p == Order[r.at]
<1>1. r \in Runs /\ Places(r)
  BY DEF TypeInv, TypeOK, Runs
<1>2. r.at \in 1..Len(Order) /\ r.at + 1 \in 1..(Len(Order) + 1) /\ p \in Paths
  BY <1>1, Positions DEF Hash, SrvHash, Runs, Places
<1>3. CASE Hash(c)
  <2> DEFINE m == [r.mine EXCEPT ![p] = [r.mine[p] EXCEPT !.sum = local[c][p]]]
             s == [r EXCEPT !.mine = m, !.pc = "scan", !.at = r.at + 1]
  <2>1. CASE IsFile(local[c][p])
    <3>1. run' = [run EXCEPT ![c] = s]
      BY <1>3, <2>1 DEF Hash
    <3>2. r.mine \in Manifest /\ r.mine[p] \in Entry
      BY <1>1, <1>3 DEF Runs, Places, Hash
    <3>3. [r.mine[p] EXCEPT !.sum = local[c][p]] \in Entry
      BY <2>1, <3>2 DEF Entry, IsFile
    <3>4. m \in Manifest
      BY <1>2, <3>2, <3>3 DEF Manifest
    <3>5. s \in Runs /\ Places(s)
      BY <1>1, <1>2, <3>4 DEF Runs, Places
    <3> QED BY <3>1, <3>5, TypeRun DEF Sound
  <2>2. CASE ~IsFile(local[c][p])
    BY <1>3, <2>2, IdleRuns, TypeRun DEF Hash, Sound, Ends
  <2> QED BY <2>1, <2>2
<1>4. CASE SrvHash(c)
  <2> DEFINE m == [r.theirs EXCEPT ![p] = [r.theirs[p] EXCEPT !.sum = store[p]]]
             s == [r EXCEPT !.theirs = m, !.pc = "srvscan", !.at = r.at + 1]
  <2>1. CASE IsFile(store[p])
    <3>1. run' = [run EXCEPT ![c] = s]
      BY <1>4, <2>1 DEF SrvHash
    <3>2. r.theirs \in Manifest /\ r.theirs[p] \in Entry
      BY <1>1, <1>4 DEF Runs, Places, SrvHash
    <3>3. [r.theirs[p] EXCEPT !.sum = store[p]] \in Entry
      BY <2>1, <3>2 DEF Entry, IsFile
    <3>4. m \in Manifest
      BY <1>2, <3>2, <3>3 DEF Manifest
    <3>5. s \in Runs /\ Places(s)
      BY <1>1, <1>2, <3>4 DEF Runs, Places
    <3> QED BY <3>1, <3>5, TypeRun DEF Sound
  <2>2. CASE ~IsFile(store[p])
    <3>1. run' = [run EXCEPT ![c] = Blind(r)]
      BY <1>4, <2>2 DEF SrvHash
    <3>2. Blind(r) \in Runs /\ Places(Blind(r))
      BY <1>1, BlindRuns
    <3> QED BY <3>1, <3>2, TypeRun DEF Sound
  <2> QED BY <2>1, <2>2
<1> QED BY <1>3, <1>4

(* the steps up to the plan,                                                *)
LEMMA TypePlan ==
    ASSUME TypeInv, NEW c \in Clients, Send(c) \/ SrvScanLoses(c) \/ SrvPlan(c)
    PROVE  run' \in [Clients -> Runs] /\ \A x \in Clients : Places(run'[x])
<1> DEFINE r == run[c]
<1>1. r \in Runs /\ Places(r)
  BY DEF TypeInv, TypeOK, Runs
<1>2. CASE Send(c)
  <2> DEFINE s == [r EXCEPT !.pc = "srvscan", !.at = 1]
  <2>1. run' = [run EXCEPT ![c] = s]
    BY <1>2 DEF Send
  <2>2. 1 \in 1..(Len(Order) + 1)
    BY Positions
  <2>3. s \in Runs
    BY <1>1, <2>2 DEF Runs
  <2>4. Places(s)
    BY <1>1 DEF Runs, Places
  <2> QED BY <2>1, <2>3, <2>4, TypeRun DEF Sound
<1>3. CASE SrvScanLoses(c)
  <2>1. run' = [run EXCEPT ![c] = Blind(r)]
    BY <1>3 DEF SrvScanLoses
  <2>2. Blind(r) \in Runs /\ Places(Blind(r))
    BY <1>1, BlindRuns
  <2> QED BY <2>1, <2>2, TypeRun DEF Sound
<1>4. CASE SrvPlan(c)
  <2>1. PICK plan \in [Paths -> {"None", "Send", "Skip", "Delete"}] :
          run' = [run EXCEPT
                    ![c] = [Idle(IF Chosen(plan, "Send") = {} THEN "ok" ELSE "put")
                              EXCEPT !.plan = plan, !.todo = Chosen(plan, "Send")]]
    BY <1>4 DEF SrvPlan
  <2> DEFINE pc == IF Chosen(plan, "Send") = {} THEN "ok" ELSE "put"
             s == [Idle(pc) EXCEPT !.plan = plan, !.todo = Chosen(plan, "Send")]
  <2>2. pc \in {"ok", "put"} /\ Idle(pc) \in Runs /\ Idle(pc).pc = pc
    <3>1. pc \in {"ok", "put"}
      OBVIOUS
    <3> HIDE DEF pc
    <3>2. Idle(pc) \in Runs
      BY <3>1, IdleRuns DEF Ends
    <3> QED BY <3>1, <3>2 DEF Idle
  <2>3. Chosen(plan, "Send") \in SUBSET Paths
    BY DEF Chosen
  <2>4. s \in Runs /\ Places(s)
    <3> HIDE DEF pc
    <3> QED BY <2>2, <2>3 DEF Runs, Places
  <2> QED BY <2>1, <2>4, TypeRun DEF Sound
<1> QED BY <1>2, <1>3, <1>4

(* an upload, which leaves the server a tree,                               *)
LEMMA TypePut ==
    ASSUME TypeInv, NEW c \in Clients, PutDirs(c) \/ Commit(c)
    PROVE  /\ run' \in [Clients -> Runs] /\ \A x \in Clients : Places(run'[x])
           /\ IsTree(store')
<1> DEFINE r == run[c]
           p == First(r.todo)
           n == local[c][p]
           dropped == [r EXCEPT !.todo = r.todo \ {p}, !.broken = TRUE]
           begun == [r EXCEPT !.pc = "commit", !.size = Length[n]]
           done == [r EXCEPT !.pc = "put", !.todo = r.todo \ {p}, !.size = 0]
<1>1. r \in Runs /\ Places(r) /\ IsTree(store) /\ IsTree(local[c])
  BY DEF TypeInv, TypeOK, Runs
<1>2. r.todo \in SUBSET Paths /\ r.todo # {}
  BY <1>1 DEF Runs, Places, PutDirs, Commit
<1>3. p \in r.todo /\ p \in Paths
  BY <1>2, FirstIn
<1>4. n \in Contents \cup {Absent, Dir}
  BY <1>1, <1>3 DEF IsTree
<1>5. Idle("failed") \in Runs /\ Places(Idle("failed"))
  BY IdleRuns DEF Ends
<1>6. CASE PutDirs(c)
  <2>1. CASE n = Absent
    <3>1. run' = [run EXCEPT ![c] = dropped] /\ store' = store
      BY <1>6, <2>1 DEF PutDirs
    <3>2. dropped \in Runs /\ Places(dropped)
      BY <1>1, <1>2, <1>6 DEF Runs, Places, PutDirs
    <3> QED BY <1>1, <3>1, <3>2, TypeRun DEF Sound
  <2>2. CASE n # Absent /\ (n = Dir \/ Blocked(store, p))
    <3>1. run' = [run EXCEPT ![c] = Idle("failed")] /\ store' = store
      BY <1>6, <2>2 DEF PutDirs
    <3> QED BY <1>1, <1>5, <3>1, TypeRun DEF Sound
  <2>3. CASE n # Absent /\ ~(n = Dir \/ Blocked(store, p))
    <3>1. run' = [run EXCEPT ![c] = begun] /\ store' = WithDirs(store, p)
      BY <1>6, <2>3 DEF PutDirs
    <3>2. Length[n] \in Nat
      BY <1>4, <2>3, NodesAssumption
    <3>3. begun \in Runs /\ Places(begun)
      BY <1>1, <1>2, <3>2 DEF Runs, Places
    <3>4. IsTree(store')
      BY <1>1, <1>3, <3>1, DirsTree
    <3> QED BY <3>1, <3>3, <3>4, TypeRun DEF Sound
  <2> QED BY <2>1, <2>2, <2>3
<1>7. CASE Commit(c)
  <2>1. CASE run' = [run EXCEPT ![c] = Idle("failed")] /\ store' = store
    BY <1>1, <1>5, <2>1, TypeRun DEF Sound
  <2>2. CASE /\ IsFile(n) /\ ~Blocked(store, p) /\ store[p] # Dir
             /\ store' = [WithDirs(store, p) EXCEPT ![p] = n]
             /\ \E s \in {done, Idle("failed")} : run' = [run EXCEPT ![c] = s]
    <3>1. done \in Runs /\ Places(done)
      BY <1>1, <1>2 DEF Runs, Places
    <3>2. IsTree(store')
      BY <1>1, <1>3, <2>2, UploadTree DEF IsFile
    <3>3. PICK s \in {done, Idle("failed")} : run' = [run EXCEPT ![c] = s]
      BY <2>2
    <3>4. Sound(s)
      BY <1>5, <3>1 DEF Sound
    <3> QED BY <3>2, <3>3, <3>4, TypeRun
  <2> QED BY <1>7, <2>1, <2>2 DEF Commit
<1> QED BY <1>6, <1>7

(* and the end of the uploads.                                              *)
LEMMA TypePutEnd ==
    ASSUME TypeInv, NEW c \in Clients, PutEnd(c)
    PROVE  /\ run' \in [Clients -> Runs] /\ \A x \in Clients : Places(run'[x])
           /\ doomed' \in [Clients -> SUBSET Paths]
<1> DEFINE r == run[c]
           s == [Idle("ok") EXCEPT !.plan = r.plan]
<1>1. r \in Runs /\ doomed \in [Clients -> SUBSET Paths]
  BY DEF TypeInv, TypeOK, Runs
<1>2. CASE r.broken
  <2>1. run' = [run EXCEPT ![c] = Idle("failed")] /\ doomed' = doomed
    BY <1>2 DEF PutEnd
  <2>2. Sound(Idle("failed"))
    BY IdleRuns DEF Sound, Ends
  <2> QED BY <1>1, <2>1, <2>2, TypeRun
<1>3. CASE ~r.broken
  <2>1. /\ run' = [run EXCEPT ![c] = s]
        /\ doomed' = [doomed EXCEPT ![c] = @ \cup Chosen(r.plan, "Delete")]
    BY <1>3 DEF PutEnd
  <2>2. Idle("ok") \in Runs /\ Idle("ok").pc = "ok"
    BY IdleRuns DEF Ends, Idle
  <2>3. Sound(s)
    BY <1>1, <2>2 DEF Runs, Places, Sound
  <2>4. doomed' \in [Clients -> SUBSET Paths]
    BY <1>1, <2>1 DEF Chosen
  <2> QED BY <2>1, <2>3, <2>4, TypeRun
<1> QED BY <1>2, <1>3

(* The invariant of the types holds at the start.                           *)
LEMMA TypeInit == Init => TypeInv
<1> SUFFICES ASSUME Init PROVE TypeInv
  OBVIOUS
<1>1. IsTree(store) /\ DOMAIN local = Clients /\ \A c \in Clients : IsTree(local[c])
  BY TreesAssumption DEF Init
<1>2. Sound(Idle("idle"))
  BY IdleRuns DEF Sound, Ends
<1>3. run \in [Clients -> Runs] /\ \A c \in Clients : Places(run[c])
  BY <1>2 DEF Init, Sound
<1> QED BY <1>1, <1>3, NodesAssumption DEF Init, TypeInv, TypeOK, Runs

(* Faults stay within their bound.                                          *)
LEMMA TypeTrouble ==
    ASSUME TypeInv, Trouble
    PROVE  faults' \in 0..MaxFaults
BY NodesAssumption DEF TypeInv, TypeOK, Trouble

(* Every step keeps the types.                                              *)
LEMMA TypeStep == TypeInv /\ [Next]_vars => TypeInv'
<1> SUFFICES ASSUME TypeInv, [Next]_vars PROVE TypeInv'
  OBVIOUS
<1> USE DEF history
<1>1. /\ IsTree(store) /\ \A c \in Clients : IsTree(local[c])
      /\ DOMAIN local = Clients
      /\ run \in [Clients -> Runs] /\ \A c \in Clients : Places(run[c])
      /\ doomed \in [Clients -> SUBSET Paths]
      /\ steady \in [Clients -> BOOLEAN] /\ alone \in [Clients -> BOOLEAN]
      /\ always \subseteq Paths /\ faults \in 0..MaxFaults
  BY DEF TypeInv, TypeOK, Runs
<1>2. ASSUME /\ IsTree(store)' /\ \A c \in Clients : IsTree(local'[c])
             /\ DOMAIN local' = Clients
             /\ run' \in [Clients -> Runs] /\ \A c \in Clients : Places(run'[c])
             /\ doomed' \in [Clients -> SUBSET Paths]
             /\ steady' \in [Clients -> BOOLEAN] /\ alone' \in [Clients -> BOOLEAN]
             /\ always' \subseteq Paths /\ faults' \in 0..MaxFaults
      PROVE  TypeInv'
  BY <1>2 DEF TypeInv, TypeOK, Runs
<1>3. ASSUME NEW c \in Clients, ClStart(c) PROVE TypeInv'
  <2>1. Sound(Idle("scan"))
    BY IdleRuns DEF Sound
  <2>2. run' \in [Clients -> Runs] /\ \A x \in Clients : Places(run'[x])
    BY <1>3, <2>1, TypeRun DEF ClStart
  <2>3. steady' \in [Clients -> BOOLEAN] /\ alone' \in [Clients -> BOOLEAN]
    BY <1>1, <1>3 DEF ClStart
  <2>4. UNCHANGED <<local, store, doomed, always, faults>>
    BY <1>3 DEF ClStart
  <2> QED BY <1>1, <1>2, <2>2, <2>3, <2>4
<1>4. ASSUME NEW c \in Clients, Scan(c) \/ SrvScan(c) PROVE TypeInv'
  <2>1. UNCHANGED <<local, store, doomed, steady, alone, always, faults>>
    BY <1>4 DEF Scan, SrvScan
  <2> QED BY <1>1, <1>2, <1>4, <2>1, TypeScan
<1>5. ASSUME NEW c \in Clients, Hash(c) \/ SrvHash(c) PROVE TypeInv'
  <2>1. UNCHANGED <<local, store, doomed, steady, alone, always, faults>>
    BY <1>5 DEF Hash, SrvHash
  <2> QED BY <1>1, <1>2, <1>5, <2>1, TypeHash
<1>6. ASSUME NEW c \in Clients, Send(c) \/ SrvScanLoses(c) \/ SrvPlan(c) PROVE TypeInv'
  <2>1. UNCHANGED <<local, store, doomed, steady, alone, always, faults>>
    BY <1>6 DEF Send, SrvScanLoses, SrvPlan
  <2> QED BY <1>1, <1>2, <1>6, <2>1, TypePlan
<1>7. ASSUME NEW c \in Clients, PutDirs(c) \/ Commit(c) PROVE TypeInv'
  <2>1. UNCHANGED <<local, doomed, steady, alone, always, faults>>
    BY <1>7 DEF PutDirs, Commit
  <2> QED BY <1>1, <1>2, <1>7, <2>1, TypePut
<1>8. ASSUME NEW c \in Clients, PutEnd(c) PROVE TypeInv'
  <2>1. UNCHANGED <<local, store, steady, alone, always, faults>>
    BY <1>8 DEF PutEnd
  <2> QED BY <1>1, <1>2, <1>8, <2>1, TypePutEnd
<1>9. ASSUME NEW c \in Clients, Delete(c) PROVE TypeInv'
  <2>1. First(doomed[c]) \in Paths
    BY <1>1, <1>9, FirstIn DEF Delete
  <2>2. IsTree(store')
    BY <1>1, <1>9, <2>1, RemovedFits DEF Delete
  <2>3. doomed' \in [Clients -> SUBSET Paths]
    BY <1>1, <1>9 DEF Delete
  <2>4. UNCHANGED <<local, run, steady, alone, always, faults>>
    BY <1>9 DEF Delete
  <2> QED BY <1>1, <1>2, <2>2, <2>3, <2>4
<1>10. ASSUME NEW c \in Clients, Edit(c) PROVE TypeInv'
  <2>1. PICK p \in Paths : \E n \in Nodes[p] : local' = [local EXCEPT ![c][p] = n]
    BY <1>10 DEF Edit
  <2>2. DOMAIN local' = Clients /\ \A x \in Clients \ {c} : local'[x] = local[x]
    BY <1>1, <2>1
  <2>3. \A x \in Clients : IsTree(local'[x])
    BY <1>1, <1>10, <2>2 DEF Edit
  <2>4. steady' \in [Clients -> BOOLEAN] /\ always' \subseteq Paths
    BY <1>1, <1>10 DEF Edit
  <2>5. faults' \in 0..MaxFaults
    BY <1>10, TypeTrouble DEF Edit
  <2>6. UNCHANGED <<store, run, doomed, alone>>
    BY <1>10 DEF Edit
  <2> QED BY <1>1, <1>2, <2>2, <2>3, <2>4, <2>5, <2>6
<1>11. ASSUME NEW c \in Clients, ClDie(c) PROVE TypeInv'
  <2>1. Sound(Idle("failed"))
    BY IdleRuns DEF Sound, Ends
  <2>2. run' \in [Clients -> Runs] /\ \A x \in Clients : Places(run'[x])
    BY <1>11, <2>1, TypeRun DEF ClDie
  <2>3. faults' \in 0..MaxFaults
    BY <1>11, TypeTrouble DEF ClDie
  <2>4. UNCHANGED <<local, store, doomed, steady, alone, always>>
    BY <1>11 DEF ClDie
  <2> QED BY <1>1, <1>2, <2>2, <2>3, <2>4
<1>12. CASE ServerCrash
  <2>1. Sound(Idle("failed"))
    BY IdleRuns DEF Sound, Ends
  <2>2. /\ run' \in [Clients -> Runs]
        /\ \A x \in Clients : run'[x] \in {run[x], Idle("failed")}
    BY <1>1, <1>12, <2>1 DEF ServerCrash, Sound
  <2>3. \A x \in Clients : Places(run'[x])
    BY <1>1, <2>1, <2>2 DEF Sound
  <2>4. doomed' \in [Clients -> SUBSET Paths] /\ alone' \in [Clients -> BOOLEAN]
    BY <1>12 DEF ServerCrash
  <2>5. faults' \in 0..MaxFaults
    BY <1>12, TypeTrouble DEF ServerCrash
  <2>6. UNCHANGED <<local, store, steady, always>>
    BY <1>12 DEF ServerCrash
  <2> QED BY <1>1, <1>2, <2>2, <2>3, <2>4, <2>5, <2>6
<1>13. CASE UNCHANGED vars
  BY <1>1, <1>2, <1>13 DEF vars
<1> QED
  BY <1>3, <1>4, <1>5, <1>6, <1>7, <1>8, <1>9, <1>10, <1>11, <1>12, <1>13
     DEF Next, Step

(* Type correctness: TreeSync keeps its types, and all trees stay trees,    *)
(* however many clients sync, whatever their users edit and whichever empty *)
(* directories are removed (remove_dir, create_dir_all).                    *)
THEOREM TreeTypes == Spec => []TypeOK
<1>1. Init => TypeInv
  BY TypeInit
<1>2. TypeInv /\ [Next]_vars => TypeInv'
  BY TypeStep
<1>3. TypeInv => TypeOK
  BY DEF TypeInv
<1> QED BY <1>1, <1>2, <1>3, PTL DEF Spec
-----------------------------------------------------------------------------
(* Run r does not harm the file at p, which all users have: its manifest    *)
(* lists it, and the directories it is in, as far as the scan has come, and *)
(* its plan does not delete it.                                             *)
Keeps(p, r) ==
    /\ r.plan[p] # "Delete"
    /\ r.pc \in {"scan", "hash"} => \A q \in Seen(r) :
          /\ q \in Above[p] => r.mine[q] = Dir
          /\ q = p => r.mine[p] \in Entry
    /\ r.pc \in {"srvscan", "srvhash"} => r.mine[p] \in Entry

(* The inductive invariant of SharedStay.                                   *)
SharedInv ==
    \A p \in always : \A c \in Clients :
        IsFile(local[c][p]) /\ p \notin doomed[c] /\ Keeps(p, run[c])

(* A scan goes through all paths, a directory before what is in it.         *)
LEMMA SeenPlaces ==
    ASSUME NEW r \in Runs
    PROVE  /\ r.at = 1 => Seen(r) = {}
           /\ r.at > Len(Order) => Paths \subseteq Seen(r)
           /\ r.at <= Len(Order) =>
                /\ Order[r.at] \in Paths
                /\ Parent[Order[r.at]] = Top \/ Parent[Order[r.at]] \in Seen(r)
                /\ \A s \in Runs : s.at = r.at + 1 => Seen(s) = Seen(r) \cup {Order[r.at]}
           /\ \A s \in Runs : s.at = r.at => Seen(s) = Seen(r)
           /\ Seen(r) \subseteq Paths
<1>1. r.at \in 1..(Len(Order) + 1) /\ Len(Order) \in Nat /\ r.at \in Nat
  BY Positions DEF Runs
<1>2. r.at = 1 => Seen(r) = {}
  BY DEF Seen
<1>3. ASSUME r.at > Len(Order) PROVE Paths \subseteq Seen(r)
  <2>1. r.at - 1 = Len(Order)
    BY <1>1, <1>3
  <2> QED BY <2>1, Positions DEF Seen
<1>4. ASSUME r.at <= Len(Order)
      PROVE  /\ Order[r.at] \in Paths
             /\ Parent[Order[r.at]] = Top \/ Parent[Order[r.at]] \in Seen(r)
  <2>1. r.at \in 1..Len(Order)
    BY <1>1, <1>4
  <2>2. Parent[Order[r.at]] = Top \/ \E l \in 1..(r.at - 1) : Order[l] = Parent[Order[r.at]]
    BY <2>1, Positions, OrderAssumption
  <2> QED BY <2>1, <2>2, Positions DEF Seen
<1>5. ASSUME r.at <= Len(Order), NEW s \in Runs, s.at = r.at + 1
      PROVE  Seen(s) = Seen(r) \cup {Order[r.at]}
  <2>1. 1..(s.at - 1) = 1..(r.at - 1) \cup {r.at}
    BY <1>1, <1>5
  <2> QED BY <2>1 DEF Seen
<1>6. ASSUME NEW s \in Runs, s.at = r.at PROVE Seen(s) = Seen(r)
  BY <1>6 DEF Seen
<1>7. Seen(r) \subseteq Paths
  <2>1. ASSUME NEW k \in 1..(r.at - 1) PROVE Order[k] \in Paths
    <3>1. k \in 1..Len(Order)
      BY <1>1
    <3> QED BY <3>1, Positions
  <2> QED BY <2>1 DEF Seen
<1> QED BY <1>2, <1>3, <1>4, <1>5, <1>6, <1>7

(* A run without a plan and a manifest harms nothing.                       *)
LEMMA IdleKeeps ==
    ASSUME NEW pc \in Ends \cup {"scan", "put"}, NEW p \in Paths
    PROVE  Keeps(p, Idle(pc))
<1>1. Idle(pc) \in Runs /\ Idle(pc).at = 1 /\ Idle(pc).pc = pc
  BY IdleRuns DEF Idle
<1>2. Seen(Idle(pc)) = {}
  BY <1>1, SeenPlaces
<1>3. Idle(pc).plan[p] = "None"
  BY DEF Idle, NoPlan
<1> QED BY <1>1, <1>2, <1>3 DEF Keeps, Ends

(* Replacing a run by one that harms as little keeps the invariant.         *)
LEMMA SharedRun ==
    ASSUME TypeInv, SharedInv, NEW c \in Clients, NEW r,
           \A p \in always : Keeps(p, run[c]) => Keeps(p, r),
           run' = [run EXCEPT ![c] = r], UNCHANGED <<local, doomed, always>>
    PROVE  SharedInv'
<1>1. run \in [Clients -> Runs]
  BY DEF TypeInv, TypeOK, Runs
<1>2. ASSUME NEW p \in always, NEW x \in Clients PROVE Keeps(p, run'[x])
  BY <1>1 DEF SharedInv
<1> QED BY <1>2 DEF SharedInv, Keeps

(* What the users share is a file in directories all users have.            *)
LEMMA SharedListed ==
    ASSUME TypeInv, SharedInv, NEW c \in Clients, NEW p \in always
    PROVE  /\ p \in Paths /\ IsFile(local[c][p]) /\ local[c][p] \notin {Absent, Dir}
           /\ \A q \in Above[p] : q \in Paths /\ local[c][q] = Dir /\ ~ IsFile(local[c][q])
<1>1. p \in Paths /\ IsFile(local[c][p]) /\ IsTree(local[c])
  BY DEF TypeInv, TypeOK, SharedInv
<1>2. local[c][p] \notin {Absent, Dir}
  BY <1>1, NodesAssumption DEF IsFile
<1>3. ASSUME NEW q \in Above[p] PROVE q \in Paths /\ local[c][q] = Dir
  BY <1>1, <1>2, AboveInPaths DEF IsTree
<1>4. ~ IsFile(Dir)
  BY NodesAssumption DEF IsFile
<1> QED BY <1>1, <1>2, <1>3, <1>4

(* The actions of a run do no harm: a step of its scan,                     *)
LEMMA SharedScan ==
    ASSUME TypeInv, SharedInv, NEW c \in Clients, Scan(c)
    PROVE  SharedInv'
<1> DEFINE r == run[c]
           o == Order[r.at]
           e == Stat(local[c], r.mine, o)
           m == [r.mine EXCEPT ![o] = e]
           s == [r EXCEPT !.mine = m,
                          !.pc = IF Hashes(e) THEN "hash" ELSE "scan",
                          !.at = IF Hashes(e) THEN r.at ELSE r.at + 1]
<1>1. /\ run' = [run EXCEPT ![c] = s] /\ UNCHANGED <<local, doomed, always>>
      /\ r.pc = "scan" /\ r.at <= Len(Order)
  BY DEF Scan, history
<1>2. run' \in [Clients -> Runs] /\ run \in [Clients -> Runs]
  BY TypeScan DEF TypeInv, TypeOK, Runs
<1>3. r \in Runs /\ s \in Runs /\ r.mine \in Manifest
  BY <1>1, <1>2 DEF Runs
<1>4. /\ o \in Paths /\ (Parent[o] = Top \/ Parent[o] \in Seen(r))
      /\ Seen(s) \subseteq Seen(r) \cup {o}
  <2>1. s.at = IF Hashes(e) THEN r.at ELSE r.at + 1
    BY <1>3 DEF Runs
  <2> HIDE DEF s
  <2> QED BY <1>1, <1>3, <2>1, SeenPlaces
<1>5. /\ m[o] = e /\ \A q \in Paths \ {o} : m[q] = r.mine[q]
      /\ s.mine = m /\ s.plan = r.plan /\ s.pc \in {"scan", "hash"}
  <2> HIDE DEF e
  <2> QED BY <1>3, <1>4 DEF Runs, Manifest
<1> HIDE DEF m, s
<1>6. ASSUME NEW p \in always, Keeps(p, r) PROVE Keeps(p, s)
  <2>1. /\ p \in Paths /\ IsFile(local[c][p]) /\ local[c][p] \notin {Absent, Dir}
        /\ \A q \in Above[p] : q \in Paths /\ local[c][q] = Dir
    BY SharedListed
  <2>2. /\ r.plan[p] # "Delete"
        /\ \A q \in Seen(r) : /\ q \in Above[p] => r.mine[q] = Dir
                              /\ q = p => r.mine[p] \in Entry
    BY <1>1, <1>6 DEF Keeps
  <2>3. o \in Above[p] => Above[o] \subseteq Above[p]
    BY <2>1, AboveAbove
  <2>4. Parent[o] # Top => Parent[o] \in Above[o]
    BY <1>4, AboveEquation
  <2>5. o = p \/ o \in Above[p] => Listed(r.mine, o)
    BY <1>4, <2>2, <2>3, <2>4 DEF Listed
  <2>6. o \in Above[p] => m[o] = Dir
    BY <1>5, <2>1, <2>5, NodesAssumption DEF Stat
  <2>7. o = p => m[o] \in Entry
    <3> SUFFICES ASSUME o = p PROVE e \in Entry
      BY <1>5
    <3>1. e = [size |-> Length[local[c][o]], sum |-> NoSum]
      BY <2>1, <2>5 DEF Stat
    <3> QED BY <2>1, <3>1, NodesAssumption DEF Entry, IsFile
  <2>8. ASSUME NEW q \in Seen(s)
        PROVE  /\ q \in Above[p] => m[q] = Dir
               /\ q = p => m[p] \in Entry
    <3>1. CASE q = o
      BY <2>6, <2>7, <3>1
    <3>2. CASE q # o
      BY <1>4, <1>5, <2>1, <2>2, <3>2
    <3> QED BY <3>1, <3>2
  <2> QED BY <1>5, <2>2, <2>8 DEF Keeps
<1> QED BY <1>1, <1>6, SharedRun

(* a checksum,                                                              *)
LEMMA SharedHash ==
    ASSUME TypeInv, SharedInv, NEW c \in Clients, Hash(c)
    PROVE  SharedInv'
<1> DEFINE r == run[c]
           o == Order[r.at]
           f == [r.mine[o] EXCEPT !.sum = local[c][o]]
           m == [r.mine EXCEPT ![o] = f]
           s == [r EXCEPT !.mine = m, !.pc = "scan", !.at = r.at + 1]
<1>1. /\ r \in Runs /\ r.mine \in Manifest /\ r.pc = "hash" /\ r.at <= Len(Order)
      /\ r.mine[o] \in Entry /\ o \in Paths
  BY SeenPlaces DEF TypeInv, TypeOK, Runs, Places, Hash
<1>2. UNCHANGED <<local, doomed, always>>
  BY DEF Hash, history
<1>3. CASE IsFile(local[c][o])
  <2>1. run' = [run EXCEPT ![c] = s]
    BY <1>1, <1>3 DEF Hash, Runs
  <2>2. run' \in [Clients -> Runs] /\ run \in [Clients -> Runs]
    BY TypeHash DEF TypeInv, TypeOK, Runs
  <2>3. s \in Runs
    BY <2>1, <2>2
  <2>4. Seen(s) = Seen(r) \cup {o}
    <3>1. s.at = r.at + 1
      BY <1>1 DEF Runs
    <3> HIDE DEF s
    <3> QED BY <1>1, <2>3, <3>1, SeenPlaces
  <2>5. f \in Entry
    BY <1>1, <1>3 DEF Entry, IsFile
  <2>6. /\ m[o] = f /\ \A q \in Paths \ {o} : m[q] = r.mine[q]
        /\ s.mine = m /\ s.plan = r.plan /\ s.pc = "scan" /\ Seen(r) \subseteq Paths
    <3> HIDE DEF f
    <3> QED BY <1>1, SeenPlaces DEF Runs, Manifest
  <2> HIDE DEF m, s, f
  <2>7. ASSUME NEW p \in always, Keeps(p, r) PROVE Keeps(p, s)
    <3>1. o \notin Above[p]
      BY <1>3, SharedListed
    <3> QED BY <1>1, <2>4, <2>5, <2>6, <2>7, <3>1 DEF Keeps
  <2> QED BY <1>2, <2>1, <2>7, SharedRun
<1>4. CASE ~ IsFile(local[c][o])
  <2>1. run' = [run EXCEPT ![c] = Idle("failed")]
    BY <1>4 DEF Hash
  <2>2. \A p \in always : Keeps(p, Idle("failed"))
    BY IdleKeeps DEF TypeInv, TypeOK, Ends
  <2> QED BY <1>2, <2>1, <2>2, SharedRun
<1> QED BY <1>3, <1>4

(* a failed scan of the storage,                                            *)
LEMMA BlindKeeps ==
    ASSUME NEW r \in Runs, r.pc \in {"srvscan", "srvhash"}, NEW p \in Paths, Keeps(p, r)
    PROVE  Keeps(p, Blind(r))
BY DEF Blind, Keeps, Runs

(* the scan of the storage and the plan,                                    *)
LEMMA SharedServer ==
    ASSUME TypeInv, SharedInv, NEW c \in Clients,
           Send(c) \/ SrvScan(c) \/ SrvHash(c) \/ SrvScanLoses(c) \/ SrvPlan(c)
    PROVE  SharedInv'
<1> DEFINE r == run[c]
<1>1. r \in Runs /\ always \subseteq Paths
  BY DEF TypeInv, TypeOK, Runs
<1>2. UNCHANGED <<local, doomed, always>>
  BY DEF Send, SrvScan, SrvHash, SrvScanLoses, SrvPlan, history
<1>3. CASE Send(c)
  <2> DEFINE s == [r EXCEPT !.pc = "srvscan", !.at = 1]
  <2>1. run' = [run EXCEPT ![c] = s] /\ r.pc = "scan" /\ r.at > Len(Order)
    BY <1>3 DEF Send
  <2>2. Paths \subseteq Seen(r)
    BY <1>1, <2>1, SeenPlaces
  <2>3. ASSUME NEW p \in always, Keeps(p, r) PROVE Keeps(p, s)
    <3>1. r.plan[p] # "Delete" /\ r.mine[p] \in Entry
      BY <1>1, <2>1, <2>2, <2>3 DEF Keeps
    <3> QED BY <1>1, <3>1 DEF Keeps, Runs
  <2> QED BY <1>2, <2>1, <2>3, SharedRun
<1>4. CASE SrvScan(c)
  <2> DEFINE e == Stat(store, r.theirs, Order[r.at])
             s == [r EXCEPT !.theirs = [r.theirs EXCEPT ![Order[r.at]] = e],
                            !.pc = IF Hashes(e) THEN "srvhash" ELSE "srvscan",
                            !.at = IF Hashes(e) THEN r.at ELSE r.at + 1]
  <2>1. run' = [run EXCEPT ![c] = s] /\ r.pc = "srvscan"
    BY <1>4 DEF SrvScan
  <2>2. s.pc \in {"srvscan", "srvhash"} /\ s.plan = r.plan /\ s.mine = r.mine
    <3> HIDE DEF e
    <3> QED BY <1>1 DEF Runs
  <2> HIDE DEF s
  <2>3. ASSUME NEW p \in always, Keeps(p, r) PROVE Keeps(p, s)
    BY <2>1, <2>2, <2>3 DEF Keeps
  <2> QED BY <1>2, <2>1, <2>3, SharedRun
<1>5. CASE SrvHash(c)
  <2> DEFINE s == [r EXCEPT !.theirs[Order[r.at]].sum = store[Order[r.at]],
                            !.pc = "srvscan", !.at = r.at + 1]
  <2>1. run' = [run EXCEPT ![c] = IF IsFile(store[Order[r.at]]) THEN s ELSE Blind(r)]
        /\ r.pc = "srvhash"
    BY <1>5 DEF SrvHash
  <2>2. s.pc = "srvscan" /\ s.plan = r.plan /\ s.mine = r.mine
    BY <1>1 DEF Runs
  <2> HIDE DEF s
  <2>3. ASSUME NEW p \in always, Keeps(p, r) PROVE Keeps(p, s) /\ Keeps(p, Blind(r))
    <3>1. Keeps(p, Blind(r))
      BY <1>1, <2>1, <2>3, BlindKeeps
    <3> QED BY <2>1, <2>2, <2>3, <3>1 DEF Keeps
  <2> QED BY <1>2, <2>1, <2>3, SharedRun
<1>6. CASE SrvScanLoses(c)
  <2>1. run' = [run EXCEPT ![c] = Blind(r)] /\ r.pc = "srvscan"
    BY <1>6 DEF SrvScanLoses
  <2>2. ASSUME NEW p \in always, Keeps(p, r) PROVE Keeps(p, Blind(r))
    BY <1>1, <2>1, <2>2, BlindKeeps
  <2> QED BY <1>2, <2>1, <2>2, SharedRun
<1>7. CASE SrvPlan(c)
  <2>1. PICK plan \in [Paths -> {"None", "Send", "Skip", "Delete"}] :
          /\ \A p \in Paths : plan[p] \in Decide(r.mine[p], r.theirs[p])
          /\ run' = [run EXCEPT
                    ![c] = [Idle(IF Chosen(plan, "Send") = {} THEN "ok" ELSE "put")
                              EXCEPT !.plan = plan, !.todo = Chosen(plan, "Send")]]
    BY <1>7 DEF SrvPlan
  <2> DEFINE pc == IF Chosen(plan, "Send") = {} THEN "ok" ELSE "put"
             s == [Idle(pc) EXCEPT !.plan = plan, !.todo = Chosen(plan, "Send")]
  <2>2. s.pc \in {"ok", "put"} /\ s.plan = plan
    BY DEF Idle
  <2> HIDE DEF s
  <2>3. ASSUME NEW p \in always, Keeps(p, r) PROVE Keeps(p, s)
    <3>1. r.mine[p] \in Entry
      BY <1>7, <2>3 DEF Keeps, SrvPlan
    <3>2. r.mine[p] \notin {Absent, Dir}
      BY <3>1, EntryAssumption
    <3>3. plan[p] # "Delete"
      BY <1>1, <2>1, <3>2 DEF Decide
    <3> QED BY <2>2, <3>3 DEF Keeps
  <2>4. run' = [run EXCEPT ![c] = s]
    BY <2>1 DEF s
  <2> QED BY <1>2, <2>3, <2>4, SharedRun
<1> QED BY <1>3, <1>4, <1>5, <1>6, <1>7

(* and the uploads with what begins and ends a run.                         *)
LEMMA SharedPut ==
    ASSUME TypeInv, SharedInv, NEW c \in Clients,
           ClStart(c) \/ PutDirs(c) \/ Commit(c) \/ PutEnd(c) \/ ClDie(c)
    PROVE  SharedInv'
<1> DEFINE r == run[c]
<1>1. r \in Runs /\ run \in [Clients -> Runs] /\ always \subseteq Paths
      /\ doomed \in [Clients -> SUBSET Paths]
  BY DEF TypeInv, TypeOK, Runs
<1>2. \A p \in always : \A pc \in Ends \cup {"scan", "put"} : Keeps(p, Idle(pc))
  BY <1>1, IdleKeeps
<1>3. CASE ClStart(c)
  BY <1>2, <1>3, SharedRun DEF ClStart
<1>4. CASE ClDie(c)
  BY <1>2, <1>4, SharedRun DEF ClDie, Ends, history
<1>5. CASE PutDirs(c)
  <2> DEFINE dropped == [r EXCEPT !.todo = @ \ {First(r.todo)}, !.broken = TRUE]
             begun == [r EXCEPT !.pc = "commit", !.size = Length[local[c][First(r.todo)]]]
  <2>1. \E s \in {dropped, begun, Idle("failed")} : run' = [run EXCEPT ![c] = s]
    BY <1>5 DEF PutDirs
  <2>2. r.pc = "put" /\ UNCHANGED <<local, doomed, always>>
    BY <1>5 DEF PutDirs, history
  <2>3. ASSUME NEW p \in always, Keeps(p, r) PROVE Keeps(p, dropped) /\ Keeps(p, begun)
    BY <1>1, <2>2, <2>3 DEF Keeps, Runs
  <2> HIDE DEF dropped, begun
  <2> QED BY <1>2, <2>1, <2>2, <2>3, SharedRun DEF Ends
<1>6. CASE Commit(c)
  <2> DEFINE done == [r EXCEPT !.pc = "put", !.todo = @ \ {First(r.todo)}, !.size = 0]
  <2>1. \E s \in {done, Idle("failed")} : run' = [run EXCEPT ![c] = s]
    BY <1>6 DEF Commit
  <2>2. UNCHANGED <<local, doomed, always>>
    BY <1>6 DEF Commit, history
  <2>3. ASSUME NEW p \in always, Keeps(p, r) PROVE Keeps(p, done)
    BY <1>1, <2>3 DEF Keeps, Runs
  <2> HIDE DEF done
  <2> QED BY <1>2, <2>1, <2>2, <2>3, SharedRun DEF Ends
<1>7. CASE PutEnd(c)
  <2> DEFINE s == [Idle("ok") EXCEPT !.plan = r.plan]
  <2>1. CASE r.broken
    BY <1>2, <1>7, <2>1, SharedRun DEF PutEnd, Ends, history
  <2>2. CASE ~ r.broken
    <3>1. /\ run' = [run EXCEPT ![c] = s] /\ UNCHANGED <<local, always>>
          /\ doomed' = [doomed EXCEPT ![c] = @ \cup Chosen(r.plan, "Delete")]
      BY <1>7, <2>2 DEF PutEnd, history
    <3>2. s.pc = "ok" /\ s.plan = r.plan
      BY DEF Idle
    <3> HIDE DEF s
    <3>3. ASSUME NEW p \in always, NEW x \in Clients
          PROVE  IsFile(local[x][p]) /\ p \notin doomed'[x] /\ Keeps(p, run'[x])
      <4>1. IsFile(local[x][p]) /\ p \notin doomed[x] /\ Keeps(p, run[x]) /\ Keeps(p, r)
        BY DEF SharedInv
      <4>2. Keeps(p, s) /\ p \notin Chosen(r.plan, "Delete")
        BY <3>2, <4>1 DEF Keeps, Chosen
      <4> QED BY <1>1, <3>1, <4>1, <4>2
    <3> QED BY <3>1, <3>3 DEF SharedInv, Keeps
  <2> QED BY <2>1, <2>2
<1> QED BY <1>3, <1>4, <1>5, <1>6, <1>7

(* Every step keeps what the users share safe,                              *)
LEMMA SharedStep == TypeInv /\ SharedInv /\ [Next]_vars => SharedInv'
<1> SUFFICES ASSUME TypeInv, SharedInv, [Next]_vars PROVE SharedInv'
  OBVIOUS
<1>1. /\ run \in [Clients -> Runs] /\ doomed \in [Clients -> SUBSET Paths]
      /\ always \subseteq Paths
  BY DEF TypeInv, TypeOK, Runs
<1>2. ASSUME NEW c \in Clients, Delete(c) PROVE SharedInv'
  <2>1. UNCHANGED <<local, run, always>> /\ \A x \in Clients : doomed'[x] \subseteq doomed[x]
    BY <1>1, <1>2 DEF Delete, history
  <2> QED BY <2>1 DEF SharedInv, Keeps
<1>3. ASSUME NEW c \in Clients, Edit(c) PROVE SharedInv'
  <2>1. UNCHANGED <<run, doomed>> /\ always' \subseteq always
        /\ \A p \in always' : \A x \in Clients : IsFile(local'[x][p])
    BY <1>3 DEF Edit, Had
  <2> QED BY <2>1 DEF SharedInv, Keeps
<1>4. CASE ServerCrash
  <2>1. /\ UNCHANGED <<local, always>>
        /\ \A x \in Clients : doomed'[x] = {} /\ run'[x] \in {run[x], Idle("failed")}
    BY <1>4 DEF ServerCrash
  <2>2. \A p \in always : Keeps(p, Idle("failed"))
    BY <1>1, IdleKeeps DEF Ends
  <2>3. ASSUME NEW p \in always, NEW x \in Clients
        PROVE  IsFile(local[x][p]) /\ p \notin doomed'[x] /\ Keeps(p, run'[x])
    BY <2>1, <2>2 DEF SharedInv
  <2> QED BY <2>1, <2>3 DEF SharedInv, Keeps
<1>5. CASE UNCHANGED vars
  BY <1>5 DEF vars, history, SharedInv, Keeps
<1> QED BY <1>2, <1>3, <1>4, <1>5, SharedScan, SharedHash, SharedServer, SharedPut DEF Next, Step

(* which therefore always is.                                               *)
LEMMA SharedInvariance == Spec => [](TypeInv /\ SharedInv)
<1>1. Init => TypeInv /\ SharedInv
  <2> SUFFICES ASSUME Init PROVE SharedInv
    BY TypeInit
  <2>1. \A p \in always : p \in Paths /\ Had(p)
    BY DEF Init
  <2>2. \A p \in always : Keeps(p, Idle("idle"))
    BY <2>1, IdleKeeps DEF Ends
  <2> QED BY <2>1, <2>2 DEF Init, SharedInv, Had
<1>2. TypeInv /\ SharedInv /\ [Next]_vars => (TypeInv /\ SharedInv)'
  BY TypeStep, SharedStep
<1> QED BY <1>1, <1>2, PTL DEF Spec

(* A file every user has always had does not vanish from the server,        *)
(* however runs, edits, failed scans and stale plans interleave.            *)
THEOREM SharedFilesStay == Spec => SharedStay
<1>1. TypeInv /\ SharedInv /\ [Next]_vars
        => [\A p \in always : IsFile(store[p]) => IsFile(store'[p])]_vars
  <2> SUFFICES ASSUME TypeInv, SharedInv, Next, NEW p \in always, IsFile(store[p])
               PROVE  IsFile(store'[p])
    OBVIOUS
  <2>1. p \in Paths /\ store[p] \notin {Absent, Dir} /\ IsTree(store)
    BY NodesAssumption DEF TypeInv, TypeOK, IsFile
  <2>2. ASSUME NEW c \in Clients, PutDirs(c) PROVE IsFile(store'[p])
    <3>1. CASE UNCHANGED store
      BY <3>1
    <3>2. CASE store' # store
      <4>1. LET o == First(run[c].todo) IN
            ~Blocked(store, o) /\ store' = WithDirs(store, o)
        BY <2>2, <3>2 DEF PutDirs
      <4> QED BY <2>1, <4>1 DEF Blocked, WithDirs
    <3> QED BY <3>1, <3>2
  <2>3. ASSUME NEW c \in Clients, Commit(c) PROVE IsFile(store'[p])
    <3>1. CASE UNCHANGED store
      BY <3>1
    <3>2. CASE store' # store
      <4>1. LET o == First(run[c].todo) IN
            /\ IsFile(local[c][o]) /\ ~Blocked(store, o)
            /\ store' = [WithDirs(store, o) EXCEPT ![o] = local[c][o]]
        BY <2>3, <3>2 DEF Commit
      <4> QED BY <2>1, <4>1 DEF Blocked, WithDirs
    <3> QED BY <3>1, <3>2
  <2>4. ASSUME NEW c \in Clients, Delete(c) PROVE IsFile(store'[p])
    <3>1. doomed[c] \subseteq Paths /\ doomed[c] # {} /\ p \notin doomed[c]
      BY <2>4 DEF Delete, SharedInv, TypeInv, TypeOK
    <3>2. First(doomed[c]) \in Paths /\ First(doomed[c]) # p
      BY <3>1, FirstIn
    <3>3. store'[p] = store[p]
      BY <2>1, <2>4, <3>2, RemovedFits DEF Delete
    <3> QED BY <3>3
  <2>5. CASE UNCHANGED store
    BY <2>5
  <2> QED BY <2>2, <2>3, <2>4, <2>5 DEF Next, Step, ClStart, Scan, Hash, Send, SrvScan,
             SrvHash, SrvScanLoses, SrvPlan, PutEnd, Edit, ClDie, ServerCrash
<1> QED BY <1>1, SharedInvariance, PTL DEF SharedStay, Spec
-----------------------------------------------------------------------------
(* No path is a file in one tree and a directory in another: otherwise a    *)
(* run cannot put the one in place of the other, or skips it.               *)
KindsFixed ==
    /\ \A p \in Paths : Dir \notin Nodes[p] \/ Nodes[p] \subseteq {Absent, Dir}
    /\ \A p \in Paths : \A t \in Stores : t[p] \in Nodes[p] \cup {Absent}
    /\ \A p \in Paths : \A l \in Locals : \A c \in Clients : l[c][p] \in Nodes[p] \cup {Absent}

(* Then this stays so.                                                      *)
KindsKept ==
    \A p \in Paths :
        /\ store[p] \in Nodes[p] \cup {Absent}
        /\ \A c \in Clients : local[c][p] \in Nodes[p] \cup {Absent}

(* The entry that a manifest has for n when it is made undisturbed.         *)
Exact(n) ==
    IF n \in {Absent, Dir} THEN n
    ELSE [size |-> Length[n], sum |-> IF Length[n] > 0 THEN n ELSE NoSum]

(* The scan of run r reads the checksum of the file it is at.               *)
Hashing(r) == r.pc \in {"hash", "srvhash"}

(* The scan of tree t has recorded it exactly in m as far as it has come.   *)
Recorded(t, m, r) ==
    /\ \A q \in Seen(r) : m[q] = Exact(t[q]) \/ (Hashing(r) /\ q = Order[r.at])
    /\ Hashing(r) =>
          LET n == t[Order[r.at]] IN
          IsFile(n) /\ Length[n] > 0 /\ m[Order[r.at]] = [size |-> Length[n], sum |-> NoSum]

(* The plan of run r fits the local tree l and the tree t of the server, of *)
(* which the plan is carried out but for what is in todo.                   *)
Uploading(r, l, t) ==
    \A p \in Paths :
        /\ IsFile(l[p]) => /\ r.plan[p] \in {"Skip", "Send"}
                           /\ p \in r.todo \/ r.broken \/ t[p] = l[p]
                           /\ r.plan[p] = "Skip" => t[p] = l[p]
                           /\ p \in r.todo /\ Length[l[p]] > 0 => t[p] # l[p]
        /\ p \in r.todo => r.plan[p] = "Send"
        /\ IsFile(t[p]) /\ ~ IsFile(l[p]) => r.plan[p] = "Delete"

(* All but the deletions in D is done.                                      *)
Synced(r, l, t, D) ==
    /\ \A p \in Paths : IsFile(l[p]) => t[p] = l[p] /\ p \notin D
    /\ Chosen(r.plan, "Send") # {} =>
          \A p \in Paths : IsFile(t[p]) => IsFile(l[p]) \/ p \in D

(* What holds of a run at each place when nobody edits its tree or uses the *)
(* storage.                                                                 *)
Undisturbed(r, l, t, D) ==
    /\ r.pc \in {"scan", "hash"} => Recorded(l, r.mine, r)
    /\ r.pc \in {"srvscan", "srvhash"} =>
          (\A p \in Paths : r.mine[p] = Exact(l[p])) /\ Recorded(t, r.theirs, r)
    /\ r.pc \in {"put", "commit"} => Uploading(r, l, t)
    /\ r.pc = "ok" => Synced(r, l, t, D)

(* The inductive invariant of Mirrored and PlanIsExact: nobody else is busy *)
(* while a run is alone.                                                    *)
MirrorInv ==
    \A c \in Clients : alone[c] =>
        /\ \A x \in Clients \ {c} : ~ Busy(x)
        /\ run[c].pc \notin Ends => doomed[c] = {}
        /\ steady[c] => Undisturbed(run[c], local[c], store, doomed[c])
-----------------------------------------------------------------------------
(* An exact record stays exact when the scan goes on,                       *)
LEMMA ScanRecords ==
    ASSUME NEW t, IsTree(t), NEW r \in Runs, NEW m \in Manifest,
           r.at <= Len(Order), ~ Hashing(r), Recorded(t, m, r),
           NEW s \in Runs, NEW e, e = Stat(t, m, Order[r.at]),
           s.at = IF Hashes(e) THEN r.at ELSE r.at + 1, Hashing(s) <=> Hashes(e)
    PROVE  Recorded(t, [m EXCEPT ![Order[r.at]] = e], s)
<1> DEFINE o == Order[r.at]
           w == [m EXCEPT ![o] = e]
           n == t[o]
<1>1. /\ o \in Paths /\ (Parent[o] = Top \/ Parent[o] \in Seen(r)) /\ Seen(r) \subseteq Paths
      /\ n \in Contents \cup {Absent, Dir}
  BY SeenPlaces DEF IsTree
<1>2. \A q \in Seen(r) : m[q] = Exact(t[q])
  BY DEF Recorded
<1>3. n # Absent => Listed(m, o)
  <2>1. CASE Parent[o] = Top
    BY <2>1 DEF Listed
  <2>2. CASE Parent[o] # Top /\ n # Absent
    <3>1. Parent[o] \in Above[o] /\ Parent[o] \in Seen(r)
      BY <1>1, <2>2, AboveEquation
    <3>2. t[Parent[o]] = Dir
      BY <1>1, <2>2, <3>1 DEF IsTree
    <3>3. m[Parent[o]] = Dir
      BY <1>2, <3>1, <3>2 DEF Exact
    <3> QED BY <3>3 DEF Listed
  <2> QED BY <2>1, <2>2
<1>4. e = IF n \in {Absent, Dir} THEN n ELSE [size |-> Length[n], sum |-> NoSum]
  BY <1>3 DEF Stat
<1>5. w[o] = e /\ \A q \in Paths \ {o} : w[q] = m[q]
  BY <1>1 DEF Manifest
<1>6. CASE Hashes(e)
  <2>1. IsFile(n) /\ e = [size |-> Length[n], sum |-> NoSum] /\ Length[n] > 0
    <3>1. n \notin {Absent, Dir}
      BY <1>4, <1>6 DEF Hashes
    <3> QED BY <1>1, <1>4, <1>6, <3>1 DEF IsFile, Hashes
  <2>2. s.at = r.at /\ Seen(s) = Seen(r) /\ Hashing(s)
    BY <1>6, SeenPlaces
  <2>3. \A q \in Seen(s) : w[q] = Exact(t[q]) \/ q = o
    BY <1>1, <1>2, <1>5, <2>2
  <2> QED BY <1>5, <2>1, <2>2, <2>3 DEF Recorded
<1>7. CASE ~ Hashes(e)
  <2>1. e = Exact(n)
    <3>1. CASE n \in {Absent, Dir}
      BY <1>4, <3>1 DEF Exact
    <3>2. CASE n \notin {Absent, Dir}
      <4>1. n \in Contents /\ e = [size |-> Length[n], sum |-> NoSum] /\ Length[n] \in Nat
        BY <1>1, <1>4, <3>2, NodesAssumption
      <4>2. e \in Entry /\ e.size = Length[n]
        BY <4>1 DEF Entry
      <4>3. ~ (Length[n] > 0)
        BY <1>7, <4>2, EntryAssumption DEF Hashes
      <4> QED BY <3>2, <4>1, <4>3 DEF Exact
    <3> QED BY <3>1, <3>2
  <2>2. s.at = r.at + 1 /\ Seen(s) = Seen(r) \cup {o} /\ ~ Hashing(s)
    BY <1>7, SeenPlaces
  <2>3. \A q \in Seen(s) : w[q] = Exact(t[q])
    BY <1>1, <1>2, <1>5, <2>1, <2>2
  <2> QED BY <2>2, <2>3 DEF Recorded
<1> QED BY <1>6, <1>7

(* and when a checksum is added to it.                                      *)
LEMMA HashRecords ==
    ASSUME NEW t, IsTree(t), NEW r \in Runs, NEW m \in Manifest,
           r.at <= Len(Order), Hashing(r), Recorded(t, m, r),
           NEW s \in Runs, s.at = r.at + 1, ~ Hashing(s)
    PROVE  Recorded(t, [m EXCEPT ![Order[r.at]] = [@ EXCEPT !.sum = t[Order[r.at]]]], s)
<1> DEFINE o == Order[r.at]
           n == t[o]
           e == [m[o] EXCEPT !.sum = n]
           w == [m EXCEPT ![o] = e]
<1>1. o \in Paths /\ Seen(r) \subseteq Paths /\ Seen(s) = Seen(r) \cup {o}
  BY SeenPlaces
<1>2. IsFile(n) /\ Length[n] > 0 /\ m[o] = [size |-> Length[n], sum |-> NoSum]
  BY DEF Recorded
<1>3. e = Exact(n)
  BY <1>2, NodesAssumption DEF Exact, IsFile
<1>4. w[o] = e /\ \A q \in Paths \ {o} : w[q] = m[q]
  <2> HIDE DEF e
  <2> QED BY <1>1 DEF Manifest
<1>5. \A q \in Seen(s) : w[q] = Exact(t[q])
  <2> HIDE DEF w
  <2> QED BY <1>1, <1>3, <1>4 DEF Recorded
<1> QED BY <1>5 DEF Recorded

(* The trees l and t agree on what is a file and what is a directory.       *)
Alike(l, t) ==
    \A p \in Paths : ~ (IsFile(l[p]) /\ t[p] = Dir) /\ ~ (IsFile(t[p]) /\ l[p] = Dir)

(* The actions diff chooses for exact entries fit the trees.                *)
LEMMA PlanFits ==
    ASSUME NEW l, IsTree(l), NEW t, IsTree(t), Alike(l, t), NEW p \in Paths,
           NEW a, a \in Decide(Exact(l[p]), Exact(t[p]))
    PROVE  /\ IsFile(l[p]) => /\ a \in {"Skip", "Send"}
                              /\ a = "Skip" => t[p] = l[p]
                              /\ a = "Send" /\ Length[l[p]] > 0 => t[p] # l[p]
           /\ IsFile(t[p]) /\ ~ IsFile(l[p]) => a = "Delete"
<1>1. l[p] \in Contents \cup {Absent, Dir} /\ t[p] \in Contents \cup {Absent, Dir}
  BY DEF IsTree
<1>2. ASSUME NEW n \in Contents
      PROVE  /\ Exact(n) \in Entry /\ Exact(n) \notin {Absent, Dir} /\ Length[n] \in Nat
             /\ Exact(n).size = Length[n]
             /\ Exact(n).sum = IF Length[n] > 0 THEN n ELSE NoSum
             /\ n \notin {Absent, Dir, NoSum}
  <2>1. n \notin {Absent, Dir, NoSum} /\ Length[n] \in Nat
    BY NodesAssumption
  <2>2. Exact(n) = [size |-> Length[n], sum |-> IF Length[n] > 0 THEN n ELSE NoSum]
    BY <2>1 DEF Exact
  <2>3. Exact(n) \in Entry
    BY <2>1, <2>2 DEF Entry
  <2> QED BY <2>1, <2>2, <2>3, EntryAssumption
<1>3. Exact(Absent) = Absent /\ Exact(Dir) = Dir /\ Absent # Dir
  BY NodesAssumption DEF Exact
<1>4. CASE IsFile(l[p])
  <2>1. t[p] = Absent \/ IsFile(t[p])
    BY <1>1, <1>4 DEF Alike, IsFile
  <2>2. CASE t[p] = Absent
    BY <1>2, <1>3, <1>4, <2>2, NodesAssumption DEF Decide, IsFile
  <2>3. CASE IsFile(t[p])
    <3> DEFINE m == Exact(l[p])
               s == Exact(t[p])
    <3>1. a \in IF m.size # s.size THEN {"Send"}
                ELSE IF NoSum \in {m.sum, s.sum} THEN {"Skip", "Send"}
                ELSE IF m.sum = s.sum THEN {"Skip"} ELSE {"Send"}
      BY <1>2, <1>4, <2>3 DEF Decide, IsFile
    <3>2. /\ m.size = Length[l[p]] /\ m.sum = IF Length[l[p]] > 0 THEN l[p] ELSE NoSum
          /\ s.size = Length[t[p]] /\ s.sum = IF Length[t[p]] > 0 THEN t[p] ELSE NoSum
          /\ l[p] # NoSum /\ t[p] # NoSum
          /\ Length[l[p]] \in Nat /\ Length[t[p]] \in Nat
      BY <1>2, <1>4, <2>3 DEF IsFile
    <3> HIDE DEF m, s
    <3>3. Length[l[p]] = 0 /\ Length[t[p]] = 0 => l[p] = t[p]
      BY <1>4, <2>3, NodesAssumption DEF IsFile
    <3> QED BY <1>4, <2>3, <3>1, <3>2, <3>3
  <2> QED BY <2>1, <2>2, <2>3
<1>5. CASE ~ IsFile(l[p]) /\ IsFile(t[p])
  <2>1. l[p] = Absent
    BY <1>1, <1>5 DEF Alike, IsFile
  <2> QED BY <1>2, <1>3, <1>5, <2>1 DEF Decide, IsFile
<1> QED BY <1>4, <1>5

(* So does a plan that was made of them.                                    *)
LEMMA PlanUploads ==
    ASSUME NEW l, IsTree(l), NEW t, IsTree(t), Alike(l, t), NEW r \in Runs,
           \A p \in Paths : r.plan[p] \in Decide(Exact(l[p]), Exact(t[p])),
           r.todo = Chosen(r.plan, "Send")
    PROVE  /\ Uploading(r, l, t)
           /\ r.todo = {} => \A D : D = {} => Synced(r, l, t, D)
<1>1. ASSUME NEW p \in Paths
      PROVE  /\ IsFile(l[p]) => /\ r.plan[p] \in {"Skip", "Send"}
                                /\ r.plan[p] = "Skip" => t[p] = l[p]
                                /\ r.plan[p] = "Send" /\ Length[l[p]] > 0 => t[p] # l[p]
             /\ IsFile(t[p]) /\ ~ IsFile(l[p]) => r.plan[p] = "Delete"
  <2> DEFINE a == r.plan[p]
  <2>1. a \in Decide(Exact(l[p]), Exact(t[p]))
    OBVIOUS
  <2> HIDE DEF a
  <2>2. /\ IsFile(l[p]) => /\ a \in {"Skip", "Send"}
                           /\ a = "Skip" => t[p] = l[p]
                           /\ a = "Send" /\ Length[l[p]] > 0 => t[p] # l[p]
        /\ IsFile(t[p]) /\ ~ IsFile(l[p]) => a = "Delete"
    BY <2>1, PlanFits
  <2> QED BY <2>2 DEF a
<1>2. \A p \in Paths : p \in r.todo <=> r.plan[p] = "Send"
  BY DEF Chosen
<1> QED BY <1>1, <1>2 DEF Uploading, Synced

(* Making directories changes nothing about the plan,                       *)
LEMMA DirsUploading ==
    ASSUME NEW l, IsTree(l), NEW t, IsTree(t), NEW r \in Runs, Uploading(r, l, t),
           NEW o \in Paths, l[o] # Absent, ~Blocked(t, o)
    PROVE  Uploading(r, l, WithDirs(t, o))
<1> DEFINE u == [q \in Paths |-> IF q \in Above[o] THEN Dir ELSE t[q]]
<1>1. ~ IsFile(Dir) /\ \A q \in Above[o] : l[q] = Dir
  BY NodesAssumption DEF IsFile, IsTree
<1>2. \A p \in Paths : /\ IsFile(l[p]) => u[p] = t[p]
                       /\ IsFile(u[p]) => IsFile(t[p])
  BY <1>1 DEF Blocked
<1> HIDE DEF u
<1>3. Uploading(r, l, u)
  BY <1>2 DEF Uploading
<1> QED BY <1>3 DEF u, WithDirs

(* and deleting what is left to delete only completes it.                   *)
LEMMA RemovedSynced ==
    ASSUME NEW l, IsTree(l), NEW t, IsTree(t), NEW r, NEW D, D \subseteq Paths,
           NEW o \in D, Synced(r, l, t, D)
    PROVE  Synced(r, l, Removed(t, o), D \ {o})
<1> DEFINE u == Removed(t, o)
<1>1. /\ \A q \in Paths : u[q] \in {t[q], Absent}
      /\ \A q \in Paths \ {o} : IsFile(t[q]) => u[q] = t[q]
      /\ ~ IsFile(u[o])
  BY RemovedFits
<1>2. ~ IsFile(Absent)
  BY NodesAssumption DEF IsFile
<1> HIDE DEF u
<1>3. ASSUME NEW p \in Paths, IsFile(l[p]) PROVE u[p] = l[p] /\ p \notin D \ {o}
  BY <1>1, <1>3 DEF Synced
<1>4. ASSUME Chosen(r.plan, "Send") # {}, NEW p \in Paths, IsFile(u[p])
      PROVE  IsFile(l[p]) \/ p \in D \ {o}
  BY <1>1, <1>2, <1>4 DEF Synced
<1>5. Synced(r, l, u, D \ {o})
  BY <1>3, <1>4 DEF Synced
<1> QED BY <1>5 DEF u
-----------------------------------------------------------------------------
(* Fixed kinds are kept at the start                                        *)
LEMMA KindsInit == ASSUME KindsFixed, Init PROVE KindsKept
BY DEF KindsFixed, Init, KindsKept

(* and by every step,                                                       *)
LEMMA KindsStep == ASSUME TypeInv, KindsKept, [Next]_vars PROVE KindsKept'
<1>1. /\ IsTree(store) /\ \A c \in Clients : IsTree(local[c]) /\ local[c] \in [Paths -> Contents \cup {Absent, Dir}]
      /\ store \in [Paths -> Contents \cup {Absent, Dir}]
      /\ doomed \in [Clients -> SUBSET Paths] /\ run \in [Clients -> Runs]
      /\ DOMAIN local = Clients
  BY DEF TypeInv, TypeOK, Runs, IsTree
<1>2. ASSUME UNCHANGED local, \A p \in Paths : store'[p] \in Nodes[p] \cup {Absent}
      PROVE  KindsKept'
  BY <1>2 DEF KindsKept
<1>3. ASSUME NEW c \in Clients, PutDirs(c) PROVE KindsKept'
  <2> DEFINE o == First(run[c].todo)
  <2>1. UNCHANGED local
    BY <1>3 DEF PutDirs
  <2>2. CASE UNCHANGED store
    BY <2>1, <2>2 DEF KindsKept
  <2>3. CASE store' # store
    <3>1. /\ local[c][o] # Absent
          /\ store' = WithDirs(store, o)
      BY <1>3, <2>3 DEF PutDirs
    <3>2. o \in Paths
      BY <1>1, <1>3, FirstIn DEF PutDirs, Runs
    <3>3. \A q \in Above[o] : q \in Paths /\ local[c][q] = Dir
      BY <1>1, <3>1, <3>2, AboveInPaths DEF IsTree
    <3>4. \A q \in Above[o] : Dir \in Nodes[q] \cup {Absent}
      BY <3>3 DEF KindsKept
    <3> QED BY <1>2, <2>1, <3>1, <3>4 DEF KindsKept, WithDirs
  <2> QED BY <2>2, <2>3
<1>4. ASSUME NEW c \in Clients, Commit(c) PROVE KindsKept'
  <2> DEFINE o == First(run[c].todo)
  <2>1. UNCHANGED local
    BY <1>4 DEF Commit
  <2>2. CASE UNCHANGED store
    BY <2>1, <2>2 DEF KindsKept
  <2>3. CASE store' # store
    <3>1. IsFile(local[c][o]) /\ store' = [WithDirs(store, o) EXCEPT ![o] = local[c][o]]
      BY <1>4, <2>3 DEF Commit
    <3>2. o \in Paths
      BY <1>1, <1>4, FirstIn DEF Commit, TypeInv, Places, Runs
    <3>3. \A q \in Above[o] : q \in Paths /\ local[c][q] = Dir
      BY <1>1, <3>1, <3>2, AboveInPaths, NodesAssumption DEF IsTree, IsFile
    <3>4. \A q \in Above[o] : Dir \in Nodes[q] \cup {Absent}
      BY <3>3 DEF KindsKept
    <3> HIDE DEF o
    <3> QED BY <1>1, <1>2, <2>1, <3>1, <3>2, <3>4 DEF KindsKept, WithDirs
  <2> QED BY <2>2, <2>3
<1>5. ASSUME NEW c \in Clients, Delete(c) PROVE KindsKept'
  <2>1. First(doomed[c]) \in Paths
    BY <1>1, <1>5, FirstIn DEF Delete
  <2>2. \A q \in Paths : store'[q] \in {store[q], Absent}
    BY <1>1, <1>5, <2>1, RemovedFits DEF Delete
  <2> QED BY <1>2, <1>5, <2>2 DEF Delete, KindsKept
<1>6. ASSUME NEW c \in Clients, Edit(c) PROVE KindsKept'
  <2>1. PICK p \in Paths : \E n \in Nodes[p] : local' = [local EXCEPT ![c][p] = n]
    BY <1>6 DEF Edit
  <2>2. PICK n \in Nodes[p] : local' = [local EXCEPT ![c][p] = n]
    BY <2>1
  <2>3. ASSUME NEW q \in Paths, NEW x \in Clients PROVE local'[x][q] \in {local[x][q]} \cup Nodes[q]
    <3>1. CASE x = c
      BY <1>1, <2>2, <3>1
    <3>2. CASE x # c
      BY <1>1, <2>2, <3>2
    <3> QED BY <3>1, <3>2
  <2>4. UNCHANGED store
    BY <1>6 DEF Edit
  <2> QED BY <2>3, <2>4 DEF KindsKept
<1>7. CASE UNCHANGED <<local, store>>
  BY <1>7 DEF KindsKept
<1> QED
  BY <1>3, <1>4, <1>5, <1>6, <1>7
     DEF Next, Step, ClStart, Scan, Hash, Send, SrvScan,
         SrvHash, SrvScanLoses, SrvPlan, PutEnd, ClDie, ServerCrash, vars

(* so that the trees of a client and of the server agree on them.           *)
LEMMA TreesAlike ==
    ASSUME TypeInv, KindsFixed, KindsKept, NEW c \in Clients
    PROVE  Alike(local[c], store)
<1> SUFFICES ASSUME NEW p \in Paths,
                    \/ IsFile(local[c][p]) /\ store[p] = Dir
                    \/ IsFile(store[p]) /\ local[c][p] = Dir
             PROVE  FALSE
  BY DEF Alike
<1>1. Dir \in Nodes[p] \cup {Absent} /\ \E n \in Nodes[p] \cup {Absent} : IsFile(n)
  BY DEF KindsKept
<1>2. Dir \in Nodes[p] /\ \E n \in Nodes[p] : IsFile(n)
  BY <1>1, NodesAssumption DEF IsFile
<1> QED BY <1>2, NodesAssumption DEF KindsFixed, IsFile
-----------------------------------------------------------------------------
(* Going on with run r, tree t of the server and deletions D leaves client  *)
(* c undisturbed.                                                           *)
Steady(c, r, t, D) ==
    alone[c] /\ steady[c] /\ run[c].pc \notin Ends /\ doomed[c] = {}
        /\ Undisturbed(run[c], local[c], store, doomed[c])
        => Undisturbed(r, local[c], t, D)

(* A step of a client that is alone is nobody else's.                       *)
LEMMA MirrorRun ==
    ASSUME TypeInv, MirrorInv, NEW c \in Clients, NEW r,
           run[c].pc \notin Ends, run' = [run EXCEPT ![c] = r],
           UNCHANGED <<local, steady, alone>>,
           UNCHANGED doomed \/ (r.pc \in Ends /\ \A x \in Clients \ {c} : doomed'[x] = doomed[x]),
           Steady(c, r, store', doomed'[c])
    PROVE  MirrorInv'
<1>1. run \in [Clients -> Runs]
  BY DEF TypeInv, TypeOK, Runs
<1>2. Busy(c)
  BY DEF Busy
<1>3. ASSUME NEW x \in Clients, alone[x] PROVE x = c
  BY <1>2, <1>3 DEF MirrorInv
<1>4. ASSUME alone[c]
      PROVE  /\ \A x \in Clients \ {c} : ~ Busy(x)'
             /\ run'[c].pc \notin Ends => doomed'[c] = {}
             /\ steady[c] => Undisturbed(run'[c], local[c], store', doomed'[c])
  <2>1. ASSUME NEW x \in Clients \ {c} PROVE ~ Busy(x)'
    <3>1. ~ Busy(x) /\ run'[x] = run[x] /\ doomed'[x] = doomed[x]
      BY <1>1, <1>4 DEF MirrorInv
    <3> QED BY <3>1 DEF Busy
  <2>2. doomed[c] = {} /\ run'[c] = r
    BY <1>1, <1>4 DEF MirrorInv
  <2>3. steady[c] => Undisturbed(r, local[c], store', doomed'[c])
    BY <1>4, <2>2 DEF MirrorInv, Steady
  <2> QED BY <2>1, <2>2, <2>3
<1> QED BY <1>3, <1>4 DEF MirrorInv

(* A run that failed promises nothing.                                      *)
LEMMA FailedUndisturbed ==
    ASSUME NEW l, NEW t, NEW D PROVE Undisturbed(Idle("failed"), l, t, D)
BY DEF Undisturbed, Idle

(* The actions of a run leave it undisturbed: the scan of its tree,         *)
LEMMA MirrorScan ==
    ASSUME TypeInv, MirrorInv, NEW c \in Clients, Scan(c) \/ Hash(c) \/ Send(c)
    PROVE  MirrorInv'
<1> DEFINE r == run[c]
           o == Order[r.at]
           l == local[c]
<1>1. r \in Runs /\ r.mine \in Manifest /\ IsTree(l) /\ Places(r)
  BY DEF TypeInv, TypeOK, Runs
<1>2. r.pc \notin Ends /\ UNCHANGED <<local, store, doomed, steady, alone>>
  BY DEF Scan, Hash, Send, Ends, history
<1>3. run' \in [Clients -> Runs] /\ run \in [Clients -> Runs]
  BY TypeScan, TypeHash, TypePlan DEF TypeInv, TypeOK, Runs
<1>4. CASE Scan(c)
  <2> DEFINE e == Stat(l, r.mine, o)
             m == [r.mine EXCEPT ![o] = e]
             s == [r EXCEPT !.mine = m,
                            !.pc = IF Hashes(e) THEN "hash" ELSE "scan",
                            !.at = IF Hashes(e) THEN r.at ELSE r.at + 1]
  <2>1. run' = [run EXCEPT ![c] = s] /\ r.pc = "scan" /\ r.at <= Len(Order)
    BY <1>4 DEF Scan
  <2>2. s \in Runs
    BY <1>3, <2>1
  <2>3. /\ s.mine = m /\ s.pc \in {"scan", "hash"}
        /\ s.at = IF Hashes(e) THEN r.at ELSE r.at + 1
        /\ Hashing(s) <=> Hashes(e)
    <3> HIDE DEF e
    <3> QED BY <1>1 DEF Runs, Hashing
  <2> HIDE DEF s
  <2>4. ASSUME Undisturbed(r, l, store, doomed[c]) PROVE Recorded(l, m, s)
    <3>1. Recorded(l, r.mine, r) /\ ~ Hashing(r)
      BY <2>1, <2>4 DEF Undisturbed, Hashing
    <3> QED BY <1>1, <2>1, <2>2, <2>3, <3>1, ScanRecords
  <2>5. Steady(c, s, store', doomed'[c])
    BY <1>2, <2>3, <2>4 DEF Steady, Undisturbed
  <2> QED BY <1>2, <2>1, <2>5, MirrorRun
<1>5. CASE Hash(c)
  <2> DEFINE s0 == [r EXCEPT !.mine[o].sum = l[o], !.pc = "scan", !.at = r.at + 1]
             m == [r.mine EXCEPT ![o] = [@ EXCEPT !.sum = l[o]]]
  <2>1. CASE ~ IsFile(l[o])
    <3>1. run' = [run EXCEPT ![c] = Idle("failed")]
      BY <1>5, <2>1 DEF Hash
    <3>2. Steady(c, Idle("failed"), store', doomed'[c])
      BY FailedUndisturbed DEF Steady
    <3> QED BY <1>2, <3>1, <3>2, MirrorRun
  <2>2. CASE IsFile(l[o])
    <3>1. run' = [run EXCEPT ![c] = s0] /\ r.pc = "hash" /\ r.at <= Len(Order)
      BY <1>1, <1>5, <2>2 DEF Hash, Places
    <3>2. s0 \in Runs
      BY <1>3, <3>1
    <3>3. s0.mine = m /\ s0.pc = "scan" /\ s0.at = r.at + 1 /\ Hashing(r) /\ ~ Hashing(s0)
      BY <1>1, <3>1 DEF Runs, Hashing
    <3> HIDE DEF s0
    <3>4. ASSUME Undisturbed(r, l, store, doomed[c]) PROVE Recorded(l, m, s0)
      <4>1. Recorded(l, r.mine, r)
        BY <3>1, <3>4 DEF Undisturbed
      <4> QED BY <1>1, <3>1, <3>2, <3>3, <4>1, HashRecords
    <3>5. Steady(c, s0, store', doomed'[c])
      BY <1>2, <3>3, <3>4 DEF Steady, Undisturbed
    <3> QED BY <1>2, <3>1, <3>5, MirrorRun
  <2> QED BY <2>1, <2>2
<1>6. CASE Send(c)
  <2> DEFINE s == [r EXCEPT !.pc = "srvscan", !.at = 1]
  <2>1. run' = [run EXCEPT ![c] = s] /\ r.pc = "scan" /\ r.at > Len(Order)
    BY <1>6 DEF Send
  <2>2. s \in Runs
    BY <1>3, <2>1
  <2>3. s.mine = r.mine /\ s.theirs = r.theirs /\ s.pc = "srvscan" /\ s.at = 1
    BY <1>1 DEF Runs
  <2> HIDE DEF s
  <2>4. ASSUME Undisturbed(r, l, store, doomed[c])
        PROVE  (\A p \in Paths : r.mine[p] = Exact(l[p])) /\ Recorded(store, s.theirs, s)
    <3>1. Recorded(l, r.mine, r) /\ ~ Hashing(r)
      BY <2>1, <2>4 DEF Undisturbed, Hashing
    <3>2. \A p \in Paths : r.mine[p] = Exact(l[p])
      BY <1>1, <2>1, <3>1, SeenPlaces DEF Recorded
    <3>3. Seen(s) = {} /\ ~ Hashing(s)
      BY <2>2, <2>3, SeenPlaces DEF Hashing
    <3> QED BY <3>2, <3>3 DEF Recorded
  <2>5. Steady(c, s, store', doomed'[c])
    BY <1>2, <2>3, <2>4 DEF Steady, Undisturbed
  <2> QED BY <1>2, <2>1, <2>5, MirrorRun
<1> QED BY <1>4, <1>5, <1>6

(* that of the storage, which does not fail,                                *)
LEMMA MirrorServer ==
    ASSUME TypeInv, MirrorInv, NEW c \in Clients, SrvScan(c) \/ SrvHash(c) \/ SrvScanLoses(c)
    PROVE  MirrorInv'
<1> DEFINE r == run[c]
           o == Order[r.at]
<1>1. r \in Runs /\ r.theirs \in Manifest /\ IsTree(store) /\ Places(r)
  BY DEF TypeInv, TypeOK, Runs
<1>2. r.pc \notin Ends /\ UNCHANGED <<local, store, doomed, steady, alone>>
  BY DEF SrvScan, SrvHash, SrvScanLoses, Ends, history
<1>3. run' \in [Clients -> Runs] /\ run \in [Clients -> Runs]
  BY TypeScan, TypeHash, TypePlan DEF TypeInv, TypeOK, Runs
<1>4. CASE SrvScan(c)
  <2> DEFINE e == Stat(store, r.theirs, o)
             m == [r.theirs EXCEPT ![o] = e]
             s == [r EXCEPT !.theirs = m,
                            !.pc = IF Hashes(e) THEN "srvhash" ELSE "srvscan",
                            !.at = IF Hashes(e) THEN r.at ELSE r.at + 1]
  <2>1. run' = [run EXCEPT ![c] = s] /\ r.pc = "srvscan" /\ r.at <= Len(Order)
    BY <1>4 DEF SrvScan
  <2>2. s \in Runs
    BY <1>3, <2>1
  <2>3. /\ s.theirs = m /\ s.mine = r.mine /\ s.pc \in {"srvscan", "srvhash"}
        /\ s.at = IF Hashes(e) THEN r.at ELSE r.at + 1
        /\ Hashing(s) <=> Hashes(e)
    <3> HIDE DEF e
    <3> QED BY <1>1 DEF Runs, Hashing
  <2> HIDE DEF s
  <2>4. ASSUME Undisturbed(r, local[c], store, doomed[c])
        PROVE  (\A p \in Paths : r.mine[p] = Exact(local[c][p])) /\ Recorded(store, m, s)
    <3>1. (\A p \in Paths : r.mine[p] = Exact(local[c][p]))
          /\ Recorded(store, r.theirs, r) /\ ~ Hashing(r)
      BY <2>1, <2>4 DEF Undisturbed, Hashing
    <3> QED BY <1>1, <2>1, <2>2, <2>3, <3>1, ScanRecords
  <2>5. Steady(c, s, store', doomed'[c])
    BY <1>2, <2>3, <2>4 DEF Steady, Undisturbed
  <2> QED BY <1>2, <2>1, <2>5, MirrorRun
<1>5. CASE SrvHash(c)
  <2> DEFINE s == [r EXCEPT !.theirs[o].sum = store[o], !.pc = "srvscan", !.at = r.at + 1]
             m == [r.theirs EXCEPT ![o] = [@ EXCEPT !.sum = store[o]]]
  <2>1. run' = [run EXCEPT ![c] = IF IsFile(store[o]) THEN s ELSE Blind(r)]
        /\ r.pc = "srvhash" /\ r.at <= Len(Order) /\ Hashing(r)
    BY <1>1, <1>5 DEF SrvHash, Places, Hashing
  <2>2. s.theirs = m /\ s.mine = r.mine /\ s.pc = "srvscan" /\ s.at = r.at + 1 /\ ~ Hashing(s)
    BY <1>1, <2>1 DEF Runs, Hashing
  <2>3. IsFile(store[o]) => s \in Runs
    BY <1>3, <2>1
  <2> HIDE DEF s
  <2>4. ASSUME Undisturbed(r, local[c], store, doomed[c])
        PROVE  /\ \A p \in Paths : r.mine[p] = Exact(local[c][p])
               /\ Recorded(store, m, s) /\ IsFile(store[o])
    <3>1. (\A p \in Paths : r.mine[p] = Exact(local[c][p])) /\ Recorded(store, r.theirs, r)
      BY <2>1, <2>4 DEF Undisturbed
    <3>2. IsFile(store[o])
      BY <2>1, <3>1 DEF Recorded
    <3>3. Recorded(store, m, s)
      BY <1>1, <2>1, <2>2, <2>3, <3>1, <3>2, HashRecords
    <3> QED BY <3>1, <3>2, <3>3
  <2>5. Steady(c, IF IsFile(store[o]) THEN s ELSE Blind(r), store', doomed'[c])
    BY <1>2, <2>2, <2>4 DEF Steady, Undisturbed
  <2> QED BY <1>2, <2>1, <2>5, MirrorRun
<1>6. CASE SrvScanLoses(c)
  <2>1. PICK x \in Clients \ {c} : run[x].pc = "commit"
    BY <1>6 DEF SrvScanLoses
  <2>2. Busy(x)
    BY <2>1 DEF Busy, Ends
  <2>3. ~ alone[c]
    BY <2>1, <2>2 DEF MirrorInv
  <2>4. Steady(c, Blind(r), store', doomed'[c])
    BY <2>3 DEF Steady
  <2> QED BY <1>2, <1>6, <2>4, MirrorRun DEF SrvScanLoses
<1> QED BY <1>4, <1>5, <1>6
(* the plan,                                                                *)
LEMMA MirrorPlan ==
    ASSUME TypeInv, KindsFixed, KindsKept, MirrorInv, NEW c \in Clients, SrvPlan(c)
    PROVE  MirrorInv'
<1> DEFINE r == run[c]
           l == local[c]
<1>1. r \in Runs /\ IsTree(l) /\ IsTree(store) /\ Alike(l, store)
  BY TreesAlike DEF TypeInv, TypeOK, Runs
<1>2. /\ r.pc = "srvscan" /\ r.at > Len(Order) /\ r.pc \notin Ends
      /\ UNCHANGED <<local, store, doomed, steady, alone>>
  BY DEF SrvPlan, Ends, history
<1>3. PICK plan \in [Paths -> {"None", "Send", "Skip", "Delete"}] :
          /\ \A p \in Paths : plan[p] \in Decide(r.mine[p], r.theirs[p])
          /\ run' = [run EXCEPT
                    ![c] = [Idle(IF Chosen(plan, "Send") = {} THEN "ok" ELSE "put")
                              EXCEPT !.plan = plan, !.todo = Chosen(plan, "Send")]]
  BY DEF SrvPlan
<1> DEFINE pc == IF Chosen(plan, "Send") = {} THEN "ok" ELSE "put"
           s == [Idle(pc) EXCEPT !.plan = plan, !.todo = Chosen(plan, "Send")]
<1>4. s.pc = pc /\ s.plan = plan /\ s.todo = Chosen(s.plan, "Send")
  BY DEF Idle
<1>5. run' = [run EXCEPT ![c] = s]
  BY <1>3
<1>6. s \in Runs
  BY <1>5, TypePlan DEF TypeInv, TypeOK, Runs
<1> HIDE DEF s
<1>7. ASSUME Undisturbed(r, l, store, doomed[c]), doomed[c] = {}
      PROVE  Undisturbed(s, l, store, doomed[c])
  <2>1. /\ \A p \in Paths : r.mine[p] = Exact(l[p])
        /\ Recorded(store, r.theirs, r) /\ ~ Hashing(r)
    BY <1>2, <1>7 DEF Undisturbed, Hashing
  <2>2. \A p \in Paths : r.theirs[p] = Exact(store[p])
    BY <1>1, <1>2, <2>1, SeenPlaces DEF Recorded
  <2>3. \A p \in Paths : s.plan[p] \in Decide(Exact(l[p]), Exact(store[p]))
    BY <1>3, <1>4, <2>1, <2>2
  <2>4. Uploading(s, l, store) /\ (s.todo = {} => Synced(s, l, store, doomed[c]))
    BY <1>1, <1>4, <1>6, <1>7, <2>3, PlanUploads
  <2> QED BY <1>4, <2>4 DEF Undisturbed
<1>8. Steady(c, s, store', doomed'[c])
  BY <1>2, <1>7 DEF Steady
<1> QED BY <1>2, <1>5, <1>8, MirrorRun

(* an upload,                                                               *)
LEMMA MirrorPut ==
    ASSUME TypeInv, MirrorInv, NEW c \in Clients, PutDirs(c) \/ Commit(c)
    PROVE  MirrorInv'
<1> DEFINE r == run[c]
           l == local[c]
           o == First(r.todo)
           failed == Idle("failed")
           dropped == [r EXCEPT !.todo = @ \ {o}, !.broken = TRUE]
           begun == [r EXCEPT !.pc = "commit", !.size = Length[l[o]]]
           done == [r EXCEPT !.pc = "put", !.todo = @ \ {o}, !.size = 0]
<1>1. r \in Runs /\ IsTree(l) /\ IsTree(store) /\ Places(r)
      /\ store \in [Paths -> Contents \cup {Absent, Dir}]
  BY DEF TypeInv, TypeOK, Runs, IsTree
<1>2. /\ r.pc \in {"put", "commit"} /\ r.pc \notin Ends
      /\ UNCHANGED <<local, doomed, steady, alone>>
  BY DEF PutDirs, Commit, Ends, history
<1>3. o \in r.todo /\ o \in Paths
  BY <1>1, FirstIn DEF PutDirs, Commit, Places, Runs
<1>4. Steady(c, failed, store', doomed'[c])
  BY FailedUndisturbed DEF Steady
<1>5. /\ dropped.pc = r.pc /\ dropped.plan = r.plan
      /\ dropped.todo = r.todo \ {o} /\ dropped.broken
      /\ begun.pc = "commit" /\ begun.plan = r.plan
      /\ begun.todo = r.todo /\ begun.broken = r.broken
      /\ done.pc = "put" /\ done.plan = r.plan
      /\ done.todo = r.todo \ {o} /\ done.broken = r.broken
  BY <1>1 DEF Runs
<1>6. Undisturbed(r, l, store, doomed[c]) => Uploading(r, l, store)
  BY <1>2 DEF Undisturbed
<1> HIDE DEF dropped, begun, done, failed
<1>7. CASE PutDirs(c) /\ l[o] = Absent
  <2>1. run' = [run EXCEPT ![c] = dropped] /\ UNCHANGED store
    BY <1>7 DEF PutDirs, dropped
  <2>2. Uploading(r, l, store) => Uploading(dropped, l, store)
    BY <1>5 DEF Uploading
  <2>3. Steady(c, dropped, store', doomed'[c])
    BY <1>2, <1>5, <1>6, <2>1, <2>2 DEF Steady, Undisturbed
  <2> QED BY <1>2, <2>1, <2>3, MirrorRun
<1>8. CASE PutDirs(c) /\ l[o] # Absent /\ UNCHANGED store /\ run' = [run EXCEPT ![c] = failed]
  BY <1>2, <1>4, <1>8, MirrorRun
<1>9. CASE PutDirs(c) /\ l[o] # Absent /\ ~ (run' = [run EXCEPT ![c] = failed] /\ UNCHANGED store)
  <2>1. /\ run' = [run EXCEPT ![c] = begun] /\ ~Blocked(store, o)
        /\ store' = WithDirs(store, o)
    BY <1>9 DEF PutDirs, begun, failed
  <2>2. Uploading(r, l, store) => Uploading(r, l, store')
    BY <1>1, <1>3, <1>9, <2>1, DirsUploading
  <2>3. Uploading(r, l, store') => Uploading(begun, l, store')
    BY <1>5 DEF Uploading
  <2>4. Steady(c, begun, store', doomed'[c])
    BY <1>2, <1>5, <1>6, <2>2, <2>3 DEF Steady, Undisturbed
  <2> QED BY <1>2, <2>1, <2>4, MirrorRun
<1>10. CASE Commit(c) /\ run' = [run EXCEPT ![c] = failed]
  BY <1>2, <1>4, <1>10, MirrorRun
<1>11. CASE Commit(c) /\ run' # [run EXCEPT ![c] = failed]
  <2> DEFINE t == WithDirs(store, o)
  <2>1. /\ IsFile(l[o]) /\ run' = [run EXCEPT ![c] = done] /\ ~Blocked(store, o)
        /\ store' = [t EXCEPT ![o] = l[o]]
    BY <1>11 DEF Commit, done, failed
  <2>2. store'[o] = l[o] /\ \A q \in Paths \ {o} : store'[q] = t[q]
    BY <1>3, <2>1 DEF WithDirs
  <2>3. l[o] # Absent
    BY <2>1, NodesAssumption DEF IsFile
  <2>4. Uploading(r, l, store) => Uploading(r, l, t)
    BY <1>1, <1>3, <2>1, <2>3, DirsUploading
  <2> HIDE DEF t
  <2>5. Uploading(r, l, store) => Uploading(done, l, store')
    <3> SUFFICES ASSUME Uploading(r, l, t), NEW p \in Paths
                 PROVE  /\ IsFile(l[p]) =>
                              /\ r.plan[p] \in {"Skip", "Send"}
                              /\ p \in done.todo \/ r.broken \/ store'[p] = l[p]
                              /\ r.plan[p] = "Skip" => store'[p] = l[p]
                              /\ p \in done.todo /\ Length[l[p]] > 0 => store'[p] # l[p]
                        /\ p \in done.todo => r.plan[p] = "Send"
                        /\ IsFile(store'[p]) /\ ~ IsFile(l[p]) => r.plan[p] = "Delete"
      BY <1>5, <2>4 DEF Uploading
    <3>1. CASE p = o
      BY <1>3, <1>5, <2>1, <2>2, <3>1 DEF Uploading
    <3>2. CASE p # o
      BY <1>5, <2>2, <3>2 DEF Uploading
    <3> QED BY <3>1, <3>2
  <2>6. Steady(c, done, store', doomed'[c])
    BY <1>2, <1>5, <1>6, <2>5 DEF Steady, Undisturbed
  <2> QED BY <1>2, <2>1, <2>6, MirrorRun
<1> QED BY <1>7, <1>8, <1>9, <1>10, <1>11

(* the end of the uploads and of the client,                                *)
LEMMA MirrorEnd ==
    ASSUME TypeInv, MirrorInv, NEW c \in Clients, PutEnd(c) \/ ClDie(c)
    PROVE  MirrorInv'
<1> DEFINE r == run[c]
           l == local[c]
<1>1. r \in Runs /\ doomed \in [Clients -> SUBSET Paths]
  BY DEF TypeInv, TypeOK, Runs
<1>2. r.pc \notin Ends /\ UNCHANGED <<local, store, steady, alone>>
  BY DEF PutEnd, ClDie, Ends, history
<1>3. Steady(c, Idle("failed"), store', doomed'[c])
  BY FailedUndisturbed DEF Steady
<1>4. CASE ClDie(c)
  BY <1>2, <1>3, <1>4, MirrorRun DEF ClDie
<1>5. CASE PutEnd(c) /\ r.broken
  BY <1>2, <1>3, <1>5, MirrorRun DEF PutEnd
<1>6. CASE PutEnd(c) /\ ~ r.broken
  <2> DEFINE s == [Idle("ok") EXCEPT !.plan = r.plan]
             D == doomed[c] \cup Chosen(r.plan, "Delete")
  <2>1. /\ run' = [run EXCEPT ![c] = s] /\ r.pc = "put" /\ r.todo = {}
        /\ doomed' = [doomed EXCEPT ![c] = D]
    BY <1>6 DEF PutEnd
  <2>2. s.pc = "ok" /\ s.pc \in Ends /\ s.plan = r.plan
    BY DEF Idle, Ends
  <2>3. doomed'[c] = D /\ \A x \in Clients \ {c} : doomed'[x] = doomed[x]
    BY <1>1, <2>1
  <2> HIDE DEF s
  <2>4. ASSUME Undisturbed(r, l, store, doomed[c]), doomed[c] = {}
        PROVE  Synced(s, l, store, D)
    <3>1. Uploading(r, l, store)
      BY <2>1, <2>4 DEF Undisturbed
    <3>2. D = Chosen(r.plan, "Delete")
      BY <2>4
    <3>3. \A p \in Paths : p \in D <=> r.plan[p] = "Delete"
      BY <3>2 DEF Chosen
    <3> HIDE DEF D
    <3> QED BY <1>6, <2>1, <3>1, <3>3 DEF Uploading, Synced
  <2>5. Steady(c, s, store', doomed'[c])
    BY <1>2, <2>2, <2>3, <2>4 DEF Steady, Undisturbed
  <2> QED BY <1>2, <2>1, <2>2, <2>3, <2>5, MirrorRun
<1> QED BY <1>4, <1>5, <1>6

(* the start, when nobody else is busy,                                     *)
LEMMA MirrorStart ==
    ASSUME TypeInv, MirrorInv, NEW c \in Clients, ClStart(c)
    PROVE  MirrorInv'
<1>1. run \in [Clients -> Runs] /\ alone' = [x \in Clients |-> x = c /\ \A y \in Clients : ~ Busy(y)]
  BY DEF TypeInv, TypeOK, Runs, ClStart
<1>2. UNCHANGED <<local, store, doomed>> /\ run' = [run EXCEPT ![c] = Idle("scan")]
  BY DEF ClStart
<1>3. ASSUME NEW x \in Clients, alone'[x] PROVE x = c /\ \A y \in Clients : ~ Busy(y)
  BY <1>1, <1>3
<1>4. ASSUME \A y \in Clients : ~ Busy(y)
      PROVE  /\ \A y \in Clients \ {c} : ~ Busy(y)'
             /\ doomed'[c] = {}
             /\ Undisturbed(run'[c], local'[c], store', doomed'[c])
  <2>1. \A y \in Clients \ {c} : ~ Busy(y)'
    BY <1>1, <1>2, <1>4 DEF Busy
  <2>2. doomed'[c] = {}
    BY <1>2, <1>4 DEF Busy
  <2>3. /\ run'[c] = Idle("scan") /\ Idle("scan") \in Runs
        /\ Idle("scan").pc = "scan" /\ Idle("scan").at = 1
    BY <1>1, <1>2, IdleRuns DEF Idle
  <2>4. Seen(Idle("scan")) = {} /\ ~ Hashing(Idle("scan"))
    BY <2>3, SeenPlaces DEF Hashing
  <2> QED BY <2>1, <2>2, <2>3, <2>4 DEF Undisturbed, Recorded, Ends
<1> QED BY <1>3, <1>4 DEF MirrorInv

(* a deletion,                                                              *)
LEMMA MirrorDelete ==
    ASSUME TypeInv, MirrorInv, NEW c \in Clients, Delete(c)
    PROVE  MirrorInv'
<1> DEFINE D == doomed[c]
<1>1. /\ D # {} /\ doomed \in [Clients -> SUBSET Paths] /\ IsTree(store) /\ IsTree(local[c])
      /\ UNCHANGED <<local, run, steady, alone>>
  BY DEF TypeInv, TypeOK, Delete, history
<1>2. /\ store' = Removed(store, First(D)) /\ First(D) \in D
      /\ doomed' = [doomed EXCEPT ![c] = D \ {First(D)}]
  BY <1>1, FirstIn DEF Delete
<1>3. ASSUME NEW x \in Clients, alone[x] PROVE x = c
  BY <1>1, <1>3 DEF MirrorInv, Busy
<1>4. ASSUME alone[c]
      PROVE  /\ \A y \in Clients \ {c} : ~ Busy(y)'
             /\ run'[c].pc \notin Ends => doomed'[c] = {}
             /\ steady[c] => Undisturbed(run'[c], local'[c], store', doomed'[c])
  <2>1. \A y \in Clients \ {c} : ~ Busy(y)'
    BY <1>1, <1>2, <1>4 DEF MirrorInv, Busy
  <2>2. run[c].pc \in Ends
    BY <1>1, <1>4 DEF MirrorInv
  <2>3. doomed'[c] = D \ {First(D)}
    BY <1>1, <1>2
  <2>4. Synced(run[c], local[c], store, D) => Synced(run[c], local[c], store', doomed'[c])
    BY <1>1, <1>2, <2>3, RemovedSynced
  <2>5. steady[c] => Undisturbed(run[c], local[c], store', doomed'[c])
    BY <1>4, <2>2, <2>4 DEF MirrorInv, Undisturbed, Ends
  <2> QED BY <1>1, <2>1, <2>2, <2>5
<1> QED BY <1>1, <1>3, <1>4 DEF MirrorInv

(* and an edit, which ends what is promised to its user.                    *)
LEMMA MirrorEdit ==
    ASSUME TypeInv, MirrorInv, NEW c \in Clients, Edit(c)
    PROVE  MirrorInv'
<1>1. /\ UNCHANGED <<store, run, doomed, alone>> /\ DOMAIN local = Clients
      /\ steady' = [steady EXCEPT ![c] = FALSE] /\ steady \in [Clients -> BOOLEAN]
  BY DEF Edit, TypeInv, TypeOK
<1>2. \A x \in Clients \ {c} : local'[x] = local[x] /\ steady'[x] = steady[x]
  BY <1>1 DEF Edit
<1>3. ~ steady'[c]
  BY <1>1
<1>4. \A x \in Clients : Busy(x)' <=> Busy(x)
  BY <1>1 DEF Busy
<1> QED BY <1>1, <1>2, <1>3, <1>4 DEF MirrorInv

(* Every step keeps the invariant,                                          *)
LEMMA MirrorStep ==
    ASSUME TypeInv, KindsFixed, KindsKept, MirrorInv, [Next]_vars
    PROVE  MirrorInv'
<1>1. CASE ServerCrash
  BY <1>1 DEF ServerCrash, MirrorInv
<1>2. CASE UNCHANGED vars
  BY <1>2 DEF vars, history, MirrorInv, Busy
<1> QED
  BY <1>1, <1>2, MirrorScan, MirrorServer, MirrorPlan, MirrorPut, MirrorEnd, MirrorStart,
     MirrorDelete, MirrorEdit DEF Next, Step

(* which therefore always holds.                                            *)
LEMMA MirrorInvariance ==
    ASSUME KindsFixed PROVE Spec => [](TypeInv /\ KindsKept /\ MirrorInv)
<1>1. Init => TypeInv /\ KindsKept /\ MirrorInv
  BY TypeInit, KindsInit DEF Init, MirrorInv
<1>2. TypeInv /\ KindsKept /\ MirrorInv /\ [Next]_vars => (TypeInv /\ KindsKept /\ MirrorInv)'
  BY TypeStep, KindsStep, MirrorStep
<1> QED BY <1>1, <1>2, PTL DEF Spec

(* A run that ends well while nobody edits the directory or uses the        *)
(* storage leaves the server with every file of the client and, if it had   *)
(* something to send, with no other file.                                   *)
THEOREM TreeMirrored == ASSUME KindsFixed PROVE Spec => []Mirrored
<1>1. TypeInv /\ MirrorInv => Mirrored
  BY DEF MirrorInv, Mirrored, Undisturbed, Synced
<1> QED BY <1>1, MirrorInvariance, PTL

(* A file both sides have alike is not sent again, one that differs is not  *)
(* skipped, if it is not empty and nobody interferes.                       *)
THEOREM PlansExact == ASSUME KindsFixed PROVE Spec => []PlanIsExact
<1>1. TypeInv /\ MirrorInv => PlanIsExact
  <2> SUFFICES ASSUME TypeInv, MirrorInv, NEW c \in Clients, run[c].pc = "put",
                      run[c].todo = Chosen(run[c].plan, "Send"), alone[c], steady[c],
                      NEW p \in Paths, IsFile(local[c][p]), Length[local[c][p]] > 0
               PROVE  run[c].plan[p] = "Skip" <=> store[p] = local[c][p]
    BY DEF PlanIsExact
  <2>1. Uploading(run[c], local[c], store)
    BY DEF MirrorInv, Undisturbed
  <2>2. p \in run[c].todo <=> run[c].plan[p] = "Send"
    BY DEF Chosen
  <2> QED BY <2>1, <2>2 DEF Uploading
<1> QED BY <1>1, MirrorInvariance, PTL
=============================================================================
