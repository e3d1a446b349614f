------------------------------ MODULE KeyStore ------------------------------
(***************************************************************************)
(* One key file and the commands that use it: those with --encrypt and     *)
(* encrypt-file, decrypt-file (EncryptionManager::load_or_generate, with   *)
(* or without --key), and keygen (handle_keygen).                          *)
(*                                                                         *)
(* Every command is a process of its own; nothing locks the file.  A step  *)
(* is one system call on it.  A new key is random: one nobody had before.  *)
(***************************************************************************)
EXTENDS Naturals

CONSTANTS
    Procs,      \* the commands that run, one after another in each shell
    Keys,       \* the keys new_random may yield
    Absent,     \* there is no key file
    Torn,       \* there is one that does not hold 64 hex digits
    MaxCrashes  \* the bound on killed commands

ASSUME KeysAssumption == Absent \notin Keys /\ Torn \notin Keys /\ Absent # Torn
ASSUME CrashesAssumption == MaxCrashes \in Nat

VARIABLES
    file,      \* what the key file holds
    pc,        \* pc[p]: where the command of p is
    op,        \* op[p]: which command it is
    held,      \* held[p]: its KeyContext, until it ends
    blobs,     \* the keys of the blobs that were made
    made,      \* the keys that were generated (history)
    saved,     \* the keys the file has held (history)
    raced,     \* two commands both saw that there is no key yet (history)
    wrecked,   \* a creator was killed before it wrote the key (history)
    crashes    \* how many commands were killed (history, bounded)

vars == <<file, pc, op, held, blobs, made, saved, raced, wrecked, crashes>>

Ops == {"default", "decrypt", "given", "keygen"}

TypeOK ==
    /\ file \in Keys \cup {Absent, Torn}
    /\ pc \in [Procs -> {"idle", "look", "load", "create", "write", "use"}]
    /\ op \in [Procs -> Ops]
    /\ held \in [Procs -> Keys \cup {Absent}]
    /\ blobs \subseteq Keys /\ made \subseteq Keys /\ saved \subseteq Keys
    /\ raced \in BOOLEAN /\ wrecked \in BOOLEAN
    /\ crashes \in 0..MaxCrashes

Init ==
    /\ file = Absent
    /\ pc = [p \in Procs |-> "idle"]
    /\ op = [p \in Procs |-> "default"]
    /\ held = [p \in Procs |-> Absent]
    /\ blobs = {} /\ made = {} /\ saved = {}
    /\ raced = FALSE /\ wrecked = FALSE /\ crashes = 0
-----------------------------------------------------------------------------
Goes(p, to) == pc' = [pc EXCEPT ![p] = to] /\ UNCHANGED op

(* The command ends, with success or an error.                              *)
EndsNow(p) ==
    /\ pc' = [pc EXCEPT ![p] = "idle"]
    /\ op' = [op EXCEPT ![p] = "default"]
    /\ held' = [held EXCEPT ![p] = Absent]

Start(p) ==
    /\ pc[p] = "idle"
    /\ pc' = [pc EXCEPT ![p] = "look"]
    /\ \E o \in Ops : op' = [op EXCEPT ![p] = o]
    /\ UNCHANGED <<file, held, blobs, made, saved, raced, wrecked, crashes>>

(* What it sees: others may be about to create the file as well.            *)
Sees(p) == raced' = (raced \/ (file = Absent /\ \E q \in Procs \ {p} : pc[q] = "create"))

(* Wrong version of the next action: keygen does not mind an old file.      *)
LookOver(p) ==
    /\ pc[p] = "look" /\ Sees(p)
    /\ IF op[p] = "keygen" \/ (file = Absent /\ op[p] # "given")
       THEN Goes(p, "create") /\ UNCHANGED held
       ELSE IF file = Absent THEN EndsNow(p)
       ELSE Goes(p, "load") /\ UNCHANGED held
    /\ UNCHANGED <<file, blobs, made, saved, wrecked, crashes>>

(* exists(): keygen refuses to replace a key, --key asks for one, the       *)
(* others create the default one when there is none, decrypt-file too.      *)
Look(p) ==
    /\ pc[p] = "look" /\ Sees(p)
    /\ IF file = Absent
       THEN IF op[p] = "given" THEN EndsNow(p) ELSE Goes(p, "create") /\ UNCHANGED held
       ELSE IF op[p] = "keygen" THEN EndsNow(p) ELSE Goes(p, "load") /\ UNCHANGED held
    /\ UNCHANGED <<file, blobs, made, saved, wrecked, crashes>>

(* Wrong version of the next action: the length is not checked.             *)
LoadUnchecked(p) ==
    /\ pc[p] = "load"
    /\ Goes(p, "use") /\ held' = [held EXCEPT ![p] = file]
    /\ UNCHANGED <<file, blobs, made, saved, raced, wrecked, crashes>>

(* load_from_file takes 64 hex digits and nothing else.                     *)
Load(p) ==
    /\ pc[p] = "load"
    /\ IF file \in Keys
       THEN Goes(p, "use") /\ held' = [held EXCEPT ![p] = file]
       ELSE EndsNow(p)
    /\ UNCHANGED <<file, blobs, made, saved, raced, wrecked, crashes>>

(* new_random: which of the keys nobody had is all the same.                *)
NewKey == CHOOSE k \in Keys \ made : TRUE

(* Wrong version of the next action: the key is used before it is saved.    *)
CreateUnsaved(p) ==
    /\ pc[p] = "create"
    /\ Keys \ made # {}
    /\ held' = [held EXCEPT ![p] = NewKey]
    /\ made' = made \cup {NewKey} /\ blobs' = blobs \cup {NewKey}
    /\ Goes(p, "write")
    /\ file' = Torn
    /\ UNCHANGED <<saved, raced, wrecked, crashes>>

(* A random key, and the open of save_to_file, which creates or truncates.  *)
Create(p) ==
    /\ pc[p] = "create"
    /\ Keys \ made # {}
    /\ held' = [held EXCEPT ![p] = NewKey]
    /\ made' = made \cup {NewKey}
    /\ Goes(p, "write")
    /\ file' = Torn
    /\ UNCHANGED <<blobs, saved, raced, wrecked, crashes>>

(* Wrong version of the next action: the file is not truncated, but         *)
(* appended to, and holds two keys after a second write.                    *)
WriteAppend(p) ==
    /\ pc[p] = "write"
    /\ file' = IF file = Torn THEN held[p] ELSE Torn
    /\ saved' = saved \cup {held[p]}
    /\ IF op[p] = "keygen" THEN EndsNow(p) ELSE Goes(p, "use") /\ UNCHANGED held
    /\ UNCHANGED <<blobs, made, raced, wrecked, crashes>>

(* Its write, at the beginning of the file, whoever wrote there before.     *)
Write(p) ==
    /\ pc[p] = "write"
    /\ file' = held[p] /\ saved' = saved \cup {held[p]}
    /\ IF op[p] = "keygen" THEN EndsNow(p) ELSE Goes(p, "use") /\ UNCHANGED held
    /\ UNCHANGED <<blobs, made, raced, wrecked, crashes>>

(* The key encrypts a file, or decrypts one, which makes no blob.           *)
Use(p) ==
    /\ pc[p] = "use"
    /\ blobs' = IF op[p] = "decrypt" THEN blobs ELSE blobs \cup {held[p]}
    /\ EndsNow(p)
    /\ UNCHANGED <<file, made, saved, raced, wrecked, crashes>>

(* The command is killed; the file stays as it is.                          *)
Crash(p) ==
    /\ crashes < MaxCrashes /\ crashes' = crashes + 1
    /\ pc[p] # "idle"
    /\ EndsNow(p)
    /\ wrecked' = (wrecked \/ pc[p] = "write")
    /\ UNCHANGED <<file, blobs, made, saved, raced>>

Step(p) == Look(p) \/ Load(p) \/ Create(p) \/ Write(p) \/ Use(p)

Next == \E p \in Procs : Start(p) \/ Step(p) \/ Crash(p)

Spec == Init /\ [][Next]_vars
-----------------------------------------------------------------------------
(* Safety: unless two commands both found no key and created one each, the  *)
(* key in the file decrypts every blob, through crashes of any command      *)
(* (get_default_key and handle_keygen create a key only where they saw      *)
(* none, and use it only once it is saved).                                 *)
Recoverable == ~raced => blobs \subseteq {file}

(* Safety: what was encrypted was encrypted with a key the file has held:   *)
(* a command that dies leaves no blob whose key it had only in memory       *)
(* (save_to_file comes before the key is returned).                         *)
UsedWasSaved ==
    /\ blobs \subseteq saved
    /\ \A p \in Procs : pc[p] = "use" => held[p] \in saved

(* Safety: a key file without a key is one being written, unless a creator  *)
(* died there; commands that meet it fail and leave it as it is.            *)
TornIsTransient ==
    file = Torn => wrecked \/ \E p \in Procs : pc[p] = "write"
=============================================================================
