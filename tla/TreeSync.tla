------------------------------ MODULE TreeSync ------------------------------
(***************************************************************************)
(* Directory syncs at the level of trees: how manifests are made           *)
(* (Manifest::generate), compared (diff) and applied to `./server_storage` *)
(* (handle_directory_sync), while users edit and other clients sync.       *)
(*                                                                         *)
(* A scan reads one entry at a time, the size of a file before its         *)
(* checksum; the plan is applied one file at a time, from what the file is *)
(* by then; deletions come last, when the client has already been answered.*)
(* Files are small and sent compressed: each replaces the old one with a   *)
(* rename.  DirSync has the streams and the other kinds of upload.         *)
(***************************************************************************)
EXTENDS Naturals, Sequences

CONSTANTS
    Clients,    \* the machines whose users sync a directory
    Order,      \* the paths, sorted: a directory before what is in it
    Parent,     \* Parent[p]: the directory p is in, or Top
    Top,        \* the directory itself (server_storage for the server)
    Contents,   \* what files may contain
    Length,     \* their sizes
    Absent,     \* there is nothing at the path
    Dir,        \* there is a directory at the path
    Nodes,      \* Nodes[p]: what there may be at p
    Locals,     \* the trees the users may have at the start, by client
    Stores,     \* the trees the server may have at the start
    MaxFaults   \* the bound on edits, kills and crashes together

Paths == {Order[k] : k \in DOMAIN Order}
NoSum == <<>>   \* the checksum of an empty file, and of a directory

ASSUME OrderAssumption ==
    /\ Order \in Seq(Paths) /\ Top \notin Paths
    /\ Parent \in [Paths -> Paths \cup {Top}]
    /\ \A k \in DOMAIN Order : Parent[Order[k]] = Top
          \/ \E l \in 1..(k - 1) : Order[l] = Parent[Order[k]]
ASSUME NodesAssumption ==
    /\ Absent # Dir /\ {Absent, Dir, NoSum} \cap Contents = {}
    /\ Length \in [Contents -> Nat]
    /\ \A v, w \in Contents : Length[v] = 0 /\ Length[w] = 0 => v = w
    /\ Nodes \in [Paths -> SUBSET (Contents \cup {Absent, Dir})]
    /\ MaxFaults \in Nat

(* The directories p is in.                                                 *)
Above[p \in Paths] ==
    IF Parent[p] = Top THEN {} ELSE {Parent[p]} \cup Above[Parent[p]]

IsFile(n) == n \in Contents
IsTree(t) ==
    /\ t \in [Paths -> Contents \cup {Absent, Dir}]
    /\ \A p \in Paths : t[p] # Absent => \A q \in Above[p] : t[q] = Dir

ASSUME TreesAssumption ==
    /\ \A t \in Stores : IsTree(t)
    /\ \A l \in Locals : DOMAIN l = Clients /\ \A c \in Clients : IsTree(l[c])

VARIABLES
    local,    \* local[c]: the tree on the machine of c
    store,    \* the server's tree
    run,      \* run[c]: the latest sync-dir of c and the task that serves it
    doomed,   \* doomed[c]: what the task of a run of c has still to delete
    steady,   \* steady[c]: no edit since the run of c began (history)
    alone,    \* alone[c]: nobody else used the storage since then (history)
    always,   \* the files no user has ever been without (history)
    faults    \* how many edits, kills and crashes there were (bounded)

vars == <<local, store, run, doomed, steady, alone, always, faults>>
history == <<steady, alone, always>>

Ends == {"idle", "ok", "failed"}
Entry == [size : Nat, sum : Contents \cup {NoSum}]
ASSUME EntryAssumption == {Absent, Dir} \cap Entry = {}
Manifest == [Paths -> Entry \cup {Absent, Dir}]
NoEntries == [p \in Paths |-> Absent]
NoPlan == [p \in Paths |-> "None"]
Idle(pc) ==
    [pc |-> pc, at |-> 1, mine |-> NoEntries, theirs |-> NoEntries,
     plan |-> NoPlan, todo |-> {}, size |-> 0, broken |-> FALSE]

TypeOK ==
    /\ IsTree(store)
    /\ DOMAIN local = Clients /\ \A c \in Clients : IsTree(local[c])
    /\ run \in [Clients ->
          [pc : Ends \cup {"scan", "hash", "srvscan", "srvhash", "put", "commit"},
           at : 1..(Len(Order) + 1), mine : Manifest, theirs : Manifest,
           plan : [Paths -> {"None", "Send", "Skip", "Delete"}],
           todo : SUBSET Paths, size : Nat, broken : BOOLEAN]]
    /\ doomed \in [Clients -> SUBSET Paths]
    /\ steady \in [Clients -> BOOLEAN] /\ alone \in [Clients -> BOOLEAN]
    /\ always \subseteq Paths
    /\ faults \in 0..MaxFaults

Had(p) == \A c \in Clients : IsFile(local[c][p])

Init ==
    /\ local \in Locals /\ store \in Stores
    /\ run = [c \in Clients |-> Idle("idle")]
    /\ doomed = [c \in Clients |-> {}]
    /\ steady = [c \in Clients |-> TRUE] /\ alone = [c \in Clients |-> FALSE]
    /\ always = {p \in Paths : Had(p)}
    /\ faults = 0
-----------------------------------------------------------------------------
Busy(c) == run[c].pc \notin Ends \/ doomed[c] # {}

(* `r-delta sync-dir` by the user of c, again and again.                    *)
ClStart(c) ==
    /\ run[c].pc \in Ends
    /\ run' = [run EXCEPT ![c] = Idle("scan")]
    /\ steady' = [steady EXCEPT ![c] = TRUE]
    /\ alone' = [x \in Clients |-> x = c /\ \A y \in Clients : ~Busy(y)]
    /\ UNCHANGED <<local, store, doomed, always, faults>>

(* Manifest::generate, which c runs on its directory and then the server on *)
(* its storage: the next entry of tree t, if its directory was listed.  A   *)
(* file of size 0 gets no checksum; for others it is computed next.         *)
Listed(m, p) == Parent[p] = Top \/ m[Parent[p]] = Dir

Stat(t, m, p) ==
    IF ~Listed(m, p) \/ t[p] = Absent THEN Absent
    ELSE IF t[p] = Dir THEN Dir ELSE [size |-> Length[t[p]], sum |-> NoSum]

Hashes(e) == e \notin {Absent, Dir} /\ e.size > 0

Scan(c) ==
    /\ run[c].pc = "scan" /\ run[c].at <= Len(Order)
    /\ LET p == Order[run[c].at]  e == Stat(local[c], run[c].mine, p) IN
       run' = [run EXCEPT ![c].mine[p] = e,
                          ![c].pc = IF Hashes(e) THEN "hash" ELSE "scan",
                          ![c].at = IF Hashes(e) THEN @ ELSE @ + 1]
    /\ UNCHANGED <<local, store, doomed, history, faults>>

(* The checksum is that of the file as it is now; without the file there is *)
(* no manifest, and the run fails.                                          *)
Hash(c) ==
    /\ run[c].pc = "hash"
    /\ LET r == run[c]  p == Order[r.at] IN
       run' = [run EXCEPT
                 ![c] = IF IsFile(local[c][p])
                        THEN [r EXCEPT !.mine[p].sum = local[c][p],
                                       !.pc = "scan", !.at = r.at + 1]
                        ELSE Idle("failed")]
    /\ UNCHANGED <<local, store, doomed, history, faults>>

(* The manifest is sent; the server scans its storage.                      *)
Send(c) ==
    /\ run[c].pc = "scan" /\ run[c].at > Len(Order)
    /\ run' = [run EXCEPT ![c].pc = "srvscan", ![c].at = 1]
    /\ UNCHANGED <<local, store, doomed, history, faults>>

SrvScan(c) ==
    /\ run[c].pc = "srvscan" /\ run[c].at <= Len(Order)
    /\ LET p == Order[run[c].at]  e == Stat(store, run[c].theirs, p) IN
       run' = [run EXCEPT ![c].theirs[p] = e,
                          ![c].pc = IF Hashes(e) THEN "srvhash" ELSE "srvscan",
                          ![c].at = IF Hashes(e) THEN @ ELSE @ + 1]
    /\ UNCHANGED <<local, store, doomed, history, faults>>

(* Without the file there is no manifest, and the storage passes for empty. *)
Blind(r) == [r EXCEPT !.theirs = NoEntries, !.pc = "srvscan", !.at = Len(Order) + 1]
SrvHash(c) ==
    /\ run[c].pc = "srvhash"
    /\ LET r == run[c]  p == Order[r.at] IN
       run' = [run EXCEPT
                 ![c] = IF IsFile(store[p])
                        THEN [r EXCEPT !.theirs[p].sum = store[p],
                                       !.pc = "srvscan", !.at = r.at + 1]
                        ELSE Blind(r)]
    /\ UNCHANGED <<local, store, doomed, history, faults>>

(* The scan meets a `.tmp` of another task, which is gone when it looks.    *)
SrvScanLoses(c) ==
    /\ run[c].pc = "srvscan" /\ run[c].at <= Len(Order)
    /\ \E x \in Clients \ {c} : run[x].pc = "commit"
    /\ run' = [run EXCEPT ![c] = Blind(@)]
    /\ UNCHANGED <<local, store, doomed, history, faults>>
-----------------------------------------------------------------------------
(* Wrong versions of the next definition: the second check is left out, or  *)
(* times are compared before checksums.                                     *)
DecideBySize(m, s) ==
    IF m = Dir THEN {"None"}
    ELSE IF m = Absent THEN IF s \in {Absent, Dir} THEN {"None"} ELSE {"Delete"}
    ELSE IF s \in {Absent, Dir} \/ m.size # s.size THEN {"Send"} ELSE {"Skip"}
DecideByTime(m, s) ==
    IF m = Dir THEN {"None"}
    ELSE IF m = Absent THEN IF s \in {Absent, Dir} THEN {"None"} ELSE {"Delete"}
    ELSE IF s \in {Absent, Dir} \/ m.size # s.size THEN {"Send"} ELSE {"Skip", "Send"}

(* diff: the actions the plan may have for entries m of the client and s of *)
(* the server.  Whatever the client lists is not deleted.  Sizes come first,*)
(* then checksums; entries without one are compared by their times, which   *)
(* may be equal or not.                                                     *)
Decide(m, s) ==
    IF m = Dir THEN {"None"}
    ELSE IF m = Absent THEN IF s \in {Absent, Dir} THEN {"None"} ELSE {"Delete"}
    ELSE IF s = Absent THEN {"Send"}
    ELSE IF s = Dir THEN {"Skip", "Send"}
    ELSE IF m.size # s.size THEN {"Send"}
    ELSE IF NoSum \in {m.sum, s.sum} THEN {"Skip", "Send"}
    ELSE IF m.sum = s.sum THEN {"Skip"} ELSE {"Send"}

Chosen(plan, action) == {p \in Paths : plan[p] = action}

(* Without a file to receive the task ends here, deletions or not.          *)
SrvPlan(c) ==
    /\ run[c].pc = "srvscan" /\ run[c].at > Len(Order)
    /\ \E plan \in [Paths -> {"None", "Send", "Skip", "Delete"}] :
         /\ \A p \in Paths : plan[p] \in Decide(run[c].mine[p], run[c].theirs[p])
         /\ run' = [run EXCEPT
                      ![c] = [Idle(IF Chosen(plan, "Send") = {} THEN "ok" ELSE "put")
                                EXCEPT !.plan = plan,
                                       !.todo = Chosen(plan, "Send")]]
    /\ UNCHANGED <<local, store, doomed, history, faults>>
-----------------------------------------------------------------------------
(* The plan applied.                                                        *)

First(P) == CHOOSE p \in P : \E k \in DOMAIN Order :
                Order[k] = p /\ \A l \in 1..(k - 1) : Order[l] \notin P

(* create_dir_all of the directories p is in, which fails where there is a  *)
(* file.  The wrong version: the directories have to be there already.      *)
WithDirs(t, p) == [q \in Paths |-> IF q \in Above[p] THEN Dir ELSE t[q]]
BlockedUnlessMade(t, p) == \E q \in Above[p] : t[q] # Dir
Blocked(t, p) == \E q \in Above[p] : IsFile(t[q])

(* The client looks at the file; when it is gone that upload fails, and the *)
(* others go on.  The server makes the directories the file is in.          *)
PutDirs(c) ==
    /\ run[c].pc = "put" /\ run[c].todo # {}
    /\ LET p == First(run[c].todo)  n == local[c][p] IN
       IF n = Absent
       THEN /\ run' = [run EXCEPT ![c].todo = @ \ {p}, ![c].broken = TRUE]
            /\ UNCHANGED store
       ELSE IF n = Dir \/ Blocked(store, p)
       THEN run' = [run EXCEPT ![c] = Idle("failed")] /\ UNCHANGED store
       ELSE /\ run' = [run EXCEPT ![c].pc = "commit", ![c].size = Length[n]]
            /\ store' = WithDirs(store, p)
    /\ UNCHANGED <<local, doomed, history, faults>>

(* The file is read, and must still have the size that was announced.  The  *)
(* server makes the directories again, writes the file next to its place    *)
(* and renames it, unless there is a directory in its place, or another     *)
(* task, deleting the last file in one of them, removes it between these    *)
(* calls.  The checksum is then read from the file by name, which another   *)
(* task may have deleted.                                                   *)
Commit(c) ==
    /\ run[c].pc = "commit"
    /\ LET p == First(run[c].todo)  n == local[c][p]
           fits == IsFile(n) /\ Length[n] = run[c].size
           goes == \E x \in Clients : \E q \in doomed[x] : Parent[q] \in Above[p]
       IN
       \/ /\ fits /\ ~Blocked(store, p) /\ store[p] # Dir
          /\ store' = [WithDirs(store, p) EXCEPT ![p] = n]
          /\ \/ run' = [run EXCEPT ![c].pc = "put", ![c].todo = @ \ {p}, ![c].size = 0]
             \/ /\ \E x \in Clients : p \in doomed[x]
                /\ run' = [run EXCEPT ![c] = Idle("failed")]
       \/ /\ ~fits \/ Blocked(store, p) \/ store[p] = Dir \/ goes
          /\ run' = [run EXCEPT ![c] = Idle("failed")] /\ UNCHANGED store
    /\ UNCHANGED <<local, doomed, history, faults>>

(* The wrong version of the next action: what was not sent is deleted.      *)
PutEndDeletesRest(c) ==
    /\ run[c].pc = "put" /\ run[c].todo = {}
    /\ run' = [run EXCEPT ![c] = [Idle("ok") EXCEPT !.plan = run[c].plan]]
    /\ doomed' = [doomed EXCEPT ![c] = Paths \ Chosen(run[c].plan, "Send")]
    /\ UNCHANGED <<local, store, history, faults>>

(* The client ends when its uploads have; the task then deletes, unless it  *)
(* waits in vain for a file whose upload failed.                            *)
PutEnd(c) ==
    /\ run[c].pc = "put" /\ run[c].todo = {}
    /\ IF run[c].broken
       THEN run' = [run EXCEPT ![c] = Idle("failed")] /\ UNCHANGED doomed
       ELSE /\ run' = [run EXCEPT ![c] = [Idle("ok") EXCEPT !.plan = run[c].plan]]
            /\ doomed' = [doomed EXCEPT ![c] = @ \cup Chosen(run[c].plan, "Delete")]
    /\ UNCHANGED <<local, store, history, faults>>

Children(q) == {p \in Paths : Parent[p] = q}

(* The wrong version of the next definition: the directory is removed       *)
(* without a look at what is in it.                                         *)
RemovedUnder(t, p) ==
    [q \in Paths |-> IF q = p \/ q = Parent[p] THEN Absent ELSE t[q]]

(* The tree t after remove_file of p, and remove_dir of the directory that  *)
(* this may have left empty: of that one, not of those above it.            *)
Removed(t, p) ==
    LET u == IF IsFile(t[p]) THEN [t EXCEPT ![p] = Absent] ELSE t IN
    IF t[p] # Absent /\ Parent[p] # Top /\ \A q \in Children(Parent[p]) : u[q] = Absent
    THEN [u EXCEPT ![Parent[p]] = Absent] ELSE u

Delete(c) ==
    /\ doomed[c] # {}
    /\ store' = Removed(store, First(doomed[c]))
    /\ doomed' = [doomed EXCEPT ![c] = @ \ {First(@)}]
    /\ UNCHANGED <<local, run, history, faults>>
-----------------------------------------------------------------------------
(* What may go wrong.                                                       *)
Trouble == faults < MaxFaults /\ faults' = faults + 1

(* The user of c makes, changes or removes one entry.                       *)
Edit(c) ==
    /\ Trouble
    /\ \E p \in Paths : \E n \in Nodes[p] \ {local[c][p]} :
          local' = [local EXCEPT ![c][p] = n]
    /\ IsTree(local'[c])
    /\ steady' = [steady EXCEPT ![c] = FALSE]
    /\ always' = always \cap {p \in Paths : Had(p)'}
    /\ UNCHANGED <<store, run, doomed, alone>>

(* The client is killed, and the task that serves it fails with it.         *)
ClDie(c) ==
    /\ Trouble
    /\ run[c].pc \notin Ends
    /\ run' = [run EXCEPT ![c] = Idle("failed")]
    /\ UNCHANGED <<local, store, doomed, history>>

(* The server is killed: the runs fail and the deletions are forgotten.     *)
ServerCrash ==
    /\ Trouble
    /\ \E c \in Clients : Busy(c)
    /\ run' = [c \in Clients |->
                 IF run[c].pc \in Ends \cup {"scan", "hash"} THEN run[c]
                 ELSE Idle("failed")]
    /\ doomed' = [c \in Clients |-> {}]
    /\ alone' = [c \in Clients |-> FALSE]
    /\ UNCHANGED <<local, store, steady, always>>
-----------------------------------------------------------------------------
Step(c) ==
    \/ Scan(c) \/ Hash(c) \/ Send(c)
    \/ SrvScan(c) \/ SrvHash(c) \/ SrvScanLoses(c) \/ SrvPlan(c)
    \/ PutDirs(c) \/ Commit(c) \/ PutEnd(c)

Next ==
    \/ \E c \in Clients : ClStart(c) \/ Step(c) \/ Delete(c) \/ Edit(c) \/ ClDie(c)
    \/ ServerCrash

Spec == Init /\ [][Next]_vars

(* Users sync again and again, and what can go on does; nobody has to edit, *)
(* to die or to crash.                                                      *)
FairSpec ==
    /\ Spec
    /\ \A c \in Clients : WF_vars(ClStart(c)) /\ WF_vars(Step(c)) /\ WF_vars(Delete(c))
-----------------------------------------------------------------------------
(* Correctness.                                                             *)

(* Safety: a run that ends well while nobody edits the directory or uses    *)
(* the storage leaves the server with every file of the client and, if it   *)
(* had something to send, with no other file (README: mirror).              *)
Mirrored ==
    \A c \in Clients :
        run[c].pc = "ok" /\ alone[c] /\ steady[c] /\ doomed[c] = {} =>
            /\ \A p \in Paths : IsFile(local[c][p]) => store[p] = local[c][p]
            /\ Chosen(run[c].plan, "Send") # {} =>
                  \A p \in Paths : IsFile(store[p]) => IsFile(local[c][p])

(* Safety: a file the two sides had alike, and that is not empty, is not    *)
(* sent again, and one that differs is not skipped (diff's second check).   *)
PlanIsExact ==
    \A c \in Clients :
        run[c].pc = "put" /\ run[c].todo = Chosen(run[c].plan, "Send")
        /\ alone[c] /\ steady[c] =>
            \A p \in Paths :
                IsFile(local[c][p]) /\ Length[local[c][p]] > 0 =>
                    (run[c].plan[p] = "Skip" <=> store[p] = local[c][p])

(* Safety, per step: a file every user has always had does not vanish from  *)
(* the server, however runs, edits and failed scans interleave (a plan      *)
(* deletes only what its client did not list).                              *)
SharedStay ==
    [][\A p \in always : IsFile(store[p]) => IsFile(store'[p])]_vars

(* Liveness: a file all users have and leave alone gets to the server and   *)
(* stays there, although the runs of others make runs fail: by removing the *)
(* directory a file is to be put in, or a file that is being scanned.       *)
SharedArrive ==
    \A p \in Paths : \A v \in Contents :
        <>[](\A c \in Clients : local[c][p] = v) => <>[](store[p] = v)
=============================================================================
