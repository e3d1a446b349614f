--------------------------- MODULE KeyStoreProofs ---------------------------
(* What the key file promises, for any number of commands and crashes.      *)
EXTENDS KeyStore, TLAPS

(* A command that writes or uses a key has one.                             *)
HoldersHold ==
    \A p \in Procs : pc[p] \in {"write", "use"} => held[p] \in Keys

(* A key in the file was saved there.                                       *)
FileSaved == file \in Keys => file \in saved

(* Without a race the file goes from absent, with at most one command about *)
(* to create it, to torn, with nobody but its writer, to the one key that   *)
(* everybody uses.                                                          *)
OneCreator ==
    /\ file = Absent =>
         /\ \A p \in Procs : pc[p] \notin {"write", "use"}
         /\ \A p, q \in Procs : pc[p] = "create" /\ pc[q] = "create" => p = q
         /\ blobs = {}
    /\ file = Torn =>
         /\ \A p \in Procs : pc[p] \notin {"create", "use"}
         /\ \A p, q \in Procs : pc[p] = "write" /\ pc[q] = "write" => p = q
         /\ blobs = {}
    /\ file \in Keys =>
         /\ \A p \in Procs : pc[p] \notin {"create", "write"}
         /\ \A p \in Procs : pc[p] = "use" => held[p] = file
         /\ blobs \subseteq {file}

KeyInv ==
    /\ TypeOK /\ HoldersHold /\ FileSaved /\ UsedWasSaved /\ TornIsTransient
    /\ ~raced => OneCreator
-----------------------------------------------------------------------------
(* The key a creator takes is a key.                                        *)
LEMMA NewKeyIsKey ==
    ASSUME TypeOK, Keys \ made # {}
    PROVE  NewKey \in Keys
<1>1. \E k : k \in Keys \ made
  OBVIOUS
<1> QED BY <1>1 DEF NewKey

(* A command that ends takes nothing with it that the invariant needs.      *)
LEMMA EndKeeps ==
    ASSUME KeyInv, NEW p \in Procs, pc[p] # "write" \/ wrecked', EndsNow(p),
           crashes' \in 0..MaxCrashes, wrecked' \in BOOLEAN, wrecked => wrecked',
           raced' \in BOOLEAN, raced => raced',
           blobs' = blobs \/ (pc[p] = "use" /\ blobs' = blobs \cup {held[p]}),
           UNCHANGED <<file, made, saved>>
    PROVE  KeyInv'
<1>1. /\ TypeOK /\ HoldersHold /\ FileSaved /\ UsedWasSaved /\ TornIsTransient
      /\ ~raced => OneCreator
  BY DEF KeyInv
<1>2. /\ pc' = [pc EXCEPT ![p] = "idle"] /\ held' = [held EXCEPT ![p] = Absent]
      /\ op' = [op EXCEPT ![p] = "default"]
  BY DEF EndsNow
<1>3. blobs' \subseteq Keys /\ blobs' \subseteq saved
  BY <1>1 DEF TypeOK, HoldersHold, UsedWasSaved
<1>4. TypeOK'
  BY <1>1, <1>2, <1>3 DEF TypeOK, Ops
<1>5. HoldersHold' /\ FileSaved'
  BY <1>1, <1>2 DEF TypeOK, HoldersHold, FileSaved
<1>6. UsedWasSaved'
  BY <1>1, <1>2, <1>3 DEF TypeOK, UsedWasSaved
<1>7. TornIsTransient'
  BY <1>1, <1>2 DEF TypeOK, TornIsTransient
<1>8. ASSUME ~raced' PROVE OneCreator'
  <2>1. OneCreator
    BY <1>1, <1>8
  <2>2. file = Absent \/ file = Torn => blobs' = {}
    BY <2>1 DEF OneCreator
  <2>3. file \in Keys => blobs' \subseteq {file}
    BY <2>1 DEF OneCreator
  <2> QED BY <1>1, <1>2, <2>1, <2>2, <2>3 DEF TypeOK, OneCreator
<1> QED BY <1>4, <1>5, <1>6, <1>7, <1>8 DEF KeyInv

LEMMA StartKeeps ==
    ASSUME KeyInv, NEW p \in Procs, Start(p)
    PROVE  KeyInv'
<1>1. /\ TypeOK /\ HoldersHold /\ FileSaved /\ UsedWasSaved /\ TornIsTransient
      /\ ~raced => OneCreator
  BY DEF KeyInv
<1>2. /\ pc[p] = "idle" /\ pc' = [pc EXCEPT ![p] = "look"]
      /\ UNCHANGED <<file, held, blobs, made, saved, raced, wrecked, crashes>>
  BY DEF Start
<1>3. op' \in [Procs -> Ops]
  BY <1>1 DEF Start, TypeOK
<1>4. TypeOK'
  BY <1>1, <1>2, <1>3 DEF TypeOK
<1>5. HoldersHold' /\ FileSaved' /\ UsedWasSaved' /\ TornIsTransient'
  BY <1>1, <1>2 DEF TypeOK, HoldersHold, FileSaved, UsedWasSaved, TornIsTransient
<1>6. ~raced' => OneCreator'
  BY <1>1, <1>2 DEF TypeOK, OneCreator
<1> QED BY <1>4, <1>5, <1>6 DEF KeyInv

LEMMA LookKeeps ==
    ASSUME KeyInv, NEW p \in Procs, Look(p)
    PROVE  KeyInv'
<1>1. /\ TypeOK /\ HoldersHold /\ FileSaved /\ UsedWasSaved /\ TornIsTransient
      /\ ~raced => OneCreator
  BY DEF KeyInv
<1>2. /\ pc[p] = "look"
      /\ raced' = (raced \/ (file = Absent /\ \E q \in Procs \ {p} : pc[q] = "create"))
      /\ UNCHANGED <<file, blobs, made, saved, wrecked, crashes>>
  BY DEF Look, Sees
<1>3. raced' \in BOOLEAN /\ (raced => raced')
  BY <1>1, <1>2 DEF TypeOK
<1>4. CASE EndsNow(p)
  BY <1>1, <1>2, <1>3, <1>4, EndKeeps DEF TypeOK
<1>5. CASE file = Absent /\ Goes(p, "create") /\ UNCHANGED held
  <2>1. pc' = [pc EXCEPT ![p] = "create"] /\ UNCHANGED <<op, held>>
    BY <1>5 DEF Goes
  <2>2. TypeOK'
    BY <1>1, <1>2, <1>3, <2>1 DEF TypeOK
  <2>3. HoldersHold' /\ FileSaved' /\ UsedWasSaved' /\ TornIsTransient'
    BY <1>1, <1>2, <2>1 DEF TypeOK, HoldersHold, FileSaved, UsedWasSaved, TornIsTransient
  <2>4. ~raced' => OneCreator'
    BY <1>1, <1>2, <1>5, <2>1, KeysAssumption DEF TypeOK, OneCreator
  <2> QED BY <2>2, <2>3, <2>4 DEF KeyInv
<1>6. CASE Goes(p, "load") /\ UNCHANGED held
  <2>1. pc' = [pc EXCEPT ![p] = "load"] /\ UNCHANGED <<op, held>>
    BY <1>6 DEF Goes
  <2>2. TypeOK'
    BY <1>1, <1>2, <1>3, <2>1 DEF TypeOK
  <2>3. HoldersHold' /\ FileSaved' /\ UsedWasSaved' /\ TornIsTransient'
    BY <1>1, <1>2, <2>1 DEF TypeOK, HoldersHold, FileSaved, UsedWasSaved, TornIsTransient
  <2>4. ~raced' => OneCreator'
    BY <1>1, <1>2, <1>3, <2>1 DEF TypeOK, OneCreator
  <2> QED BY <2>2, <2>3, <2>4 DEF KeyInv
<1> QED BY <1>4, <1>5, <1>6 DEF Look

LEMMA LoadKeeps ==
    ASSUME KeyInv, NEW p \in Procs, Load(p)
    PROVE  KeyInv'
<1>1. /\ TypeOK /\ HoldersHold /\ FileSaved /\ UsedWasSaved /\ TornIsTransient
      /\ ~raced => OneCreator
  BY DEF KeyInv
<1>2. pc[p] = "load" /\ UNCHANGED <<file, blobs, made, saved, raced, wrecked, crashes>>
  BY DEF Load
<1>3. CASE file \in Keys /\ Goes(p, "use") /\ held' = [held EXCEPT ![p] = file]
  <2>1. pc' = [pc EXCEPT ![p] = "use"] /\ UNCHANGED op
    BY <1>3 DEF Goes
  <2>2. TypeOK'
    BY <1>1, <1>2, <1>3, <2>1 DEF TypeOK
  <2>3. HoldersHold' /\ FileSaved' /\ TornIsTransient'
    BY <1>1, <1>2, <1>3, <2>1, KeysAssumption
    DEF TypeOK, HoldersHold, FileSaved, TornIsTransient
  <2>4. UsedWasSaved'
    BY <1>1, <1>2, <1>3, <2>1 DEF TypeOK, UsedWasSaved, FileSaved
  <2>5. ~raced' => OneCreator'
    BY <1>1, <1>2, <1>3, <2>1, KeysAssumption DEF TypeOK, OneCreator
  <2> QED BY <2>2, <2>3, <2>4, <2>5 DEF KeyInv
<1>4. CASE EndsNow(p)
  BY <1>1, <1>2, <1>4, EndKeeps DEF TypeOK
<1> QED BY <1>3, <1>4 DEF Load

LEMMA CreateKeeps ==
    ASSUME KeyInv, NEW p \in Procs, Create(p)
    PROVE  KeyInv'
<1>1. /\ TypeOK /\ HoldersHold /\ FileSaved /\ UsedWasSaved /\ TornIsTransient
      /\ ~raced => OneCreator
  BY DEF KeyInv
<1>2. /\ pc[p] = "create" /\ pc' = [pc EXCEPT ![p] = "write"] /\ file' = Torn
      /\ held' = [held EXCEPT ![p] = NewKey] /\ made' = made \cup {NewKey}
      /\ UNCHANGED <<op, blobs, saved, raced, wrecked, crashes>>
  BY DEF Create, Goes
<1>3. NewKey \in Keys
  BY <1>1, NewKeyIsKey DEF Create
<1>4. TypeOK'
  BY <1>1, <1>2, <1>3 DEF TypeOK
<1>5. HoldersHold' /\ FileSaved' /\ UsedWasSaved' /\ TornIsTransient'
  BY <1>1, <1>2, <1>3, KeysAssumption
  DEF TypeOK, HoldersHold, FileSaved, UsedWasSaved, TornIsTransient
<1>6. ASSUME ~raced' PROVE OneCreator'
  <2>1. OneCreator /\ file \in Keys \cup {Absent, Torn}
    BY <1>1, <1>2, <1>6 DEF TypeOK
  <2>2. file = Absent
    BY <1>2, <2>1 DEF OneCreator
  <2>3. /\ \A q \in Procs : pc[q] \notin {"write", "use"}
        /\ \A q \in Procs : pc[q] = "create" => p = q
        /\ blobs = {}
    BY <1>2, <2>1, <2>2 DEF OneCreator
  <2> QED BY <1>1, <1>2, <2>3, KeysAssumption DEF TypeOK, OneCreator
<1> QED BY <1>4, <1>5, <1>6 DEF KeyInv

LEMMA WriteKeeps ==
    ASSUME KeyInv, NEW p \in Procs, Write(p)
    PROVE  KeyInv'
<1>1. /\ TypeOK /\ HoldersHold /\ FileSaved /\ UsedWasSaved /\ TornIsTransient
      /\ ~raced => OneCreator
  BY DEF KeyInv
<1>2. /\ pc[p] = "write" /\ file' = held[p] /\ saved' = saved \cup {held[p]}
      /\ UNCHANGED <<blobs, made, raced, wrecked, crashes>>
  BY DEF Write
<1>3. held[p] \in Keys /\ held[p] # Torn /\ held[p] # Absent
  BY <1>1, <1>2, KeysAssumption DEF HoldersHold
<1>4. \/ /\ pc' = [pc EXCEPT ![p] = "idle"] /\ op' = [op EXCEPT ![p] = "default"]
         /\ held' = [held EXCEPT ![p] = Absent]
      \/ pc' = [pc EXCEPT ![p] = "use"] /\ UNCHANGED <<op, held>>
  BY DEF Write, EndsNow, Goes
<1>5. TypeOK'
  BY <1>1, <1>2, <1>3, <1>4 DEF TypeOK, Ops
<1>6. HoldersHold' /\ FileSaved' /\ UsedWasSaved' /\ TornIsTransient'
  BY <1>1, <1>2, <1>3, <1>4
  DEF TypeOK, HoldersHold, FileSaved, UsedWasSaved, TornIsTransient
<1>7. ASSUME ~raced' PROVE OneCreator'
  <2>1. OneCreator /\ file \in Keys \cup {Absent, Torn}
    BY <1>1, <1>2, <1>7 DEF TypeOK
  <2>2. file = Torn
    BY <1>2, <2>1 DEF OneCreator
  <2>3. /\ \A q \in Procs : pc[q] \notin {"create", "use"}
        /\ \A q \in Procs : pc[q] = "write" => p = q
        /\ blobs = {}
    BY <1>2, <2>1, <2>2 DEF OneCreator
  <2> QED BY <1>1, <1>2, <1>3, <1>4, <2>3 DEF TypeOK, OneCreator
<1> QED BY <1>5, <1>6, <1>7 DEF KeyInv

LEMMA UseKeeps ==
    ASSUME KeyInv, NEW p \in Procs, Use(p)
    PROVE  KeyInv'
<1>1. TypeOK
  BY DEF KeyInv
<1>2. /\ pc[p] = "use" /\ EndsNow(p)
      /\ blobs' = blobs \/ blobs' = blobs \cup {held[p]}
      /\ UNCHANGED <<file, made, saved, raced, wrecked, crashes>>
  BY DEF Use
<1> QED BY <1>1, <1>2, EndKeeps DEF TypeOK

LEMMA CrashKeeps ==
    ASSUME KeyInv, NEW p \in Procs, Crash(p)
    PROVE  KeyInv'
<1>1. TypeOK
  BY DEF KeyInv
<1>2. /\ EndsNow(p) /\ crashes < MaxCrashes /\ crashes' = crashes + 1
      /\ wrecked' = (wrecked \/ pc[p] = "write")
      /\ UNCHANGED <<file, blobs, made, saved, raced>>
  BY DEF Crash
<1>3. crashes' \in 0..MaxCrashes
  BY <1>1, <1>2, CrashesAssumption DEF TypeOK
<1>4. wrecked' \in BOOLEAN /\ (wrecked => wrecked') /\ (pc[p] # "write" \/ wrecked')
  BY <1>1, <1>2 DEF TypeOK
<1> QED BY <1>1, <1>2, <1>3, <1>4, EndKeeps DEF TypeOK

LEMMA KeyInvariant == Spec => []KeyInv
<1>1. Init => KeyInv
  <2> SUFFICES ASSUME Init PROVE KeyInv
    OBVIOUS
  <2>1. TypeOK
    <3>1. /\ pc \in [Procs -> {"idle", "look", "load", "create", "write", "use"}]
          /\ op \in [Procs -> Ops] /\ held \in [Procs -> Keys \cup {Absent}]
      BY DEF Init, Ops
    <3>2. blobs \subseteq Keys /\ made \subseteq Keys /\ saved \subseteq Keys
      BY DEF Init
    <3>3. file = Absent /\ raced \in BOOLEAN /\ wrecked \in BOOLEAN
      BY DEF Init
    <3>4. crashes \in 0..MaxCrashes
      BY CrashesAssumption DEF Init
    <3> QED BY <3>1, <3>2, <3>3, <3>4 DEF TypeOK
  <2>2. HoldersHold /\ FileSaved /\ UsedWasSaved /\ TornIsTransient
    BY KeysAssumption DEF Init, HoldersHold, FileSaved, UsedWasSaved, TornIsTransient
  <2>3. OneCreator
    BY KeysAssumption DEF Init, OneCreator
  <2> QED BY <2>1, <2>2, <2>3 DEF KeyInv
<1>2. KeyInv /\ [Next]_vars => KeyInv'
  <2> SUFFICES ASSUME KeyInv, [Next]_vars PROVE KeyInv'
    OBVIOUS
  <2>1. ASSUME NEW p \in Procs, Start(p) PROVE KeyInv'
    BY <2>1, StartKeeps
  <2>2. ASSUME NEW p \in Procs, Look(p) PROVE KeyInv'
    BY <2>2, LookKeeps
  <2>3. ASSUME NEW p \in Procs, Load(p) PROVE KeyInv'
    BY <2>3, LoadKeeps
  <2>4. ASSUME NEW p \in Procs, Create(p) PROVE KeyInv'
    BY <2>4, CreateKeeps
  <2>5. ASSUME NEW p \in Procs, Write(p) PROVE KeyInv'
    BY <2>5, WriteKeeps
  <2>6. ASSUME NEW p \in Procs, Use(p) PROVE KeyInv'
    BY <2>6, UseKeeps
  <2>7. ASSUME NEW p \in Procs, Crash(p) PROVE KeyInv'
    BY <2>7, CrashKeeps
  <2>8. CASE UNCHANGED vars
    BY <2>8 DEF vars, KeyInv, TypeOK, HoldersHold, FileSaved, UsedWasSaved,
                TornIsTransient, OneCreator
  <2> QED BY <2>1, <2>2, <2>3, <2>4, <2>5, <2>6, <2>7, <2>8 DEF Next, Step
<1> QED BY <1>1, <1>2, PTL DEF Spec
-----------------------------------------------------------------------------
(* Every command keeps to the types: a command that goes on to use a key    *)
(* has read one (EncryptionManager, EncryptionKey).                         *)
THEOREM KeyTypes == Spec => []TypeOK
<1>1. KeyInv => TypeOK
  BY DEF KeyInv
<1> QED BY <1>1, KeyInvariant, PTL

(* Unless two commands raced to create the key, the key in the file         *)
(* decrypts every blob that was ever made, for any number of commands and   *)
(* crashes (get_default_key, handle_keygen).                                *)
THEOREM BlobsRecoverable == Spec => []Recoverable
<1>1. KeyInv => Recoverable
  BY DEF KeyInv, TypeOK, OneCreator, Recoverable
<1> QED BY <1>1, KeyInvariant, PTL

(* No command encrypts with a key that was not in the file before, raced or *)
(* not (save_to_file comes first).                                          *)
THEOREM KeysSavedBeforeUse == Spec => []UsedWasSaved
<1>1. KeyInv => UsedWasSaved
  BY DEF KeyInv
<1> QED BY <1>1, KeyInvariant, PTL

(* Only a crash leaves a key file without a key for good (save_to_file).    *)
THEOREM OnlyCrashesTear == Spec => []TornIsTransient
<1>1. KeyInv => TornIsTransient
  BY DEF KeyInv
<1> QED BY <1>1, KeyInvariant, PTL
=============================================================================
