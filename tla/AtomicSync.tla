----------------------------- MODULE AtomicSync -----------------------------
(***************************************************************************)
(* What syncing one file promises.  The stored file is replaced at once by *)
(* the file of a client that is or was syncing, and a client that reports  *)
(* success has had its file stored during that very run.                   *)
(***************************************************************************)
CONSTANTS Sessions, Bases, Modes, Blob(_)

VARIABLES local,   \* local[s]: the user's file on the machine of session s
          mode,    \* mode[s]: the --encrypt flag of the run of s
          status,  \* status[s]: what the user of session s sees of it
          stored   \* what the server holds under the name

vars == <<local, mode, status, stored>>

Status == {"idle", "running", "stored", "ok", "failed"}

Init ==
    /\ mode = [s \in Sessions |-> FALSE]
    /\ status = [s \in Sessions |-> "idle"]
    /\ stored \in Bases

Begin(s) ==
    /\ status[s] \in {"idle", "ok", "failed"}
    /\ status' = [status EXCEPT ![s] = "running"]
    /\ \E e \in Modes : mode' = [mode EXCEPT ![s] = e]
    /\ UNCHANGED <<local, stored>>

(* The commit; a client that gave up does not take back what it sent.       *)
Put(s) ==
    /\ status[s] \in {"running", "failed"}
    /\ stored' = IF mode[s] THEN Blob(local[s]) ELSE local[s]
    /\ status' = [status EXCEPT ![s] = IF @ = "running" THEN "stored" ELSE @]
    /\ UNCHANGED <<local, mode>>

Report(s) ==
    /\ status[s] = "stored"
    /\ status' = [status EXCEPT ![s] = "ok"]
    /\ UNCHANGED <<local, mode, stored>>

Abort(s) ==
    /\ status[s] \in {"running", "stored"}
    /\ status' = [status EXCEPT ![s] = "failed"]
    /\ UNCHANGED <<local, mode, stored>>

Next == \E s \in Sessions : Begin(s) \/ Put(s) \/ Report(s) \/ Abort(s)

Spec == Init /\ [][Next]_vars
=============================================================================
