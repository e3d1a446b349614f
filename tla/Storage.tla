------------------------------ MODULE Storage -------------------------------
(***************************************************************************)
(* The syncs of one name (FileSync) while directory syncs of other clients *)
(* use the same `./server_storage`.  handle_directory_sync takes every     *)
(* entry it meets there for a file, `.part` and `.tmp` of other sessions   *)
(* included, and deletes what its own client does not have: by name, some  *)
(* time after it made the plan.                                            *)
(***************************************************************************)
EXTENDS FileSync

(* A directory sync removes an entry, whosever it is by now; who has it     *)
(* open keeps the inode.  There may have been a plan to do so ever since an *)
(* entry of that name was there, and any number of plans, in any order, so  *)
(* nothing but the entry itself is needed for this step.                    *)
SweepDelete(n) ==
    /\ Trouble
    /\ Exists(n)
    /\ dir' = [dir EXCEPT ![n] = NoInode]
    /\ UNCHANGED <<local, steady, cl, net, sv>>
    /\ data' = Kept(data)

StorageNext == Next \/ \E n \in Names : SweepDelete(n)

StorageSpec == Init /\ [][StorageNext]_vars

(* As in FileSync; no entry has to be deleted.                              *)
FairStorageSpec ==
    /\ StorageSpec
    /\ \A s \in Sessions : /\ WF_vars(ClStart(s))
                           /\ WF_vars(ClientStep(s))
                           /\ WF_vars(ServerStep(s))
=============================================================================
