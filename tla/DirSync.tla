------------------------------ MODULE DirSync -------------------------------
(***************************************************************************)
(* One run of `r-delta sync-dir` (handle_sync_dir and sync_single_file in  *)
(* the client, handle_directory_sync in the server).                       *)
(*                                                                         *)
(* The client uploads the files of the plan in parallel: a task opens a    *)
(* bidirectional stream for its messages, and a unidirectional stream for  *)
(* the data when its turn has come.  The server takes both kinds of stream *)
(* in the order they were opened, and nothing else ties a data stream to   *)
(* the messages it belongs to.                                             *)
(*                                                                         *)
(* All tasks are futures of one buffer_unordered: what a task does from    *)
(* one answer of the server to the next is one poll, and so one step.      *)
(***************************************************************************)
EXTENDS Naturals, Sequences, FiniteSets

CONSTANTS
    Order,      \* the paths, in the order of the manifest
    Contents,   \* what files may contain
    Length,     \* their sizes
    Small,      \* SMALL_FILE_THRESHOLD
    Absent,     \* there is no such file
    Hidden,     \* the paths the server's scan passes over (.gitignore)
    Modes,      \* the values the --encrypt flag may have
    Locals,     \* the directories a client may have
    Stores,     \* the directories the server may hold at the start
    Parallel,   \* how many tasks run at a time (50 in the code)
    Faults,     \* the kinds of faults there may be
    MaxFaults   \* the bound on faults

Paths == {Order[i] : i \in DOMAIN Order}

(* A stored file is a content in some form: as it is, compressed, encrypted,*)
(* the bytes of a patch, a patch applied to another file than its base, or  *)
(* cut short.  Data streams carry all but garbled ones.                     *)
Stored ==
    [form : {"plain", "zstd", "blob", "patch", "garbled", "cut"}, of : Contents]
Data ==
    [form : {"plain", "zstd", "blob", "cut"}, of : Contents]
      \cup [form : {"patch"}, of : Contents, base : Stored]
Plain(c) == [form |-> "plain", of |-> c]

ASSUME OrderAssumption == Order \in Seq(Paths) /\ Hidden \subseteq Paths
ASSUME LengthAssumption == Length \in [Contents -> Nat] /\ Small \in Nat
ASSUME DirectoriesAssumption ==
    /\ Absent \notin Contents \cup Stored \cup Paths
    /\ Locals \subseteq [Paths -> Contents \cup {Absent}]
    /\ Stores \subseteq [Paths -> Stored \cup {Absent}]
ASSUME BoundsAssumption ==
    /\ Modes \subseteq BOOLEAN /\ Parallel \in Nat \ {0}
    /\ Faults \subseteq {"die", "crash", "vanish", "unsent", "cut", "blind"}
    /\ MaxFaults \in Nat

VARIABLES
    enc,       \* the --encrypt flag of the run
    local,     \* local[p]: the user's file at p
    manifest,  \* the files the client announced
    queue,     \* the paths whose tasks have not started
    task,      \* task[p]: where the upload of p is
    cpc,       \* where handle_sync_dir is
    bis,       \* the paths whose message streams the server has not accepted
    req,       \* req[p]: the first message on that stream
    rsp,       \* rsp[p]: the answers on it the client has not read
    unis,      \* the data streams the server has not accepted
    plan,      \* plan[p]: the action of the plan for p
    blind,     \* the plan was made without a manifest of the server (history)
    store,     \* store[p]: the server's file at p
    before,    \* store at the start (history)
    spc,       \* where handle_directory_sync is
    cur,       \* the path whose messages the server has accepted
    todo,      \* how many files the server still expects
    faults     \* how many faults there were (history, bounded)

client == <<enc, local, manifest, queue, task, cpc>>
net == <<bis, req, rsp, unis>>
server == <<plan, blind, store, before, spc, cur, todo>>
vars == <<client, net, server, faults>>

Actions == {"None", "SendFull", "SendDelta", "Skip", "Delete"}
Requests ==
    [type : {"Handshake", "Compressed", "Encrypted", "Nothing"}, size : Nat]
Ack(old) == [type |-> "HandshakeAck", old |-> old]
Signatures(base) == [type |-> "Signatures", base |-> base]
VerifyResult == [type |-> "VerifyResult"]
Finished == [type |-> "Finished"]      \* the end of the stream
Answers ==
    {Ack(old) : old \in BOOLEAN} \cup {Signatures(base) : base \in Stored}
      \cup {VerifyResult, Finished}

TaskEnds == {"none", "ok", "failed"}
TaskWaits == {"ack", "signatures", "verify", "verify2"}
ServerEnds == {"done", "failed"}
NoRequest == [type |-> "Handshake", size |-> 0]

TypeOK ==
    /\ enc \in BOOLEAN
    /\ local \in [Paths -> Contents \cup {Absent}]
    /\ manifest \in [Paths -> Contents \cup {Absent}]
    /\ plan \in [Paths -> Actions] /\ blind \in BOOLEAN
    /\ queue \subseteq Paths /\ bis \in Seq(Paths) /\ unis \in Seq(Data)
    /\ task \in [Paths -> TaskEnds \cup TaskWaits]
    /\ cpc \in {"start", "plan", "tasks", "done", "failed"}
    /\ req \in [Paths -> Requests]
    /\ rsp \in [Paths -> Seq(Answers)]
    /\ store \in [Paths -> Stored \cup {Absent}]
    /\ before \in [Paths -> Stored \cup {Absent}]
    /\ spc \in ServerEnds \cup {"manifest", "accept", "data", "write", "delete"}
    /\ cur \in Paths \cup {Absent}
    /\ todo \in 0..Cardinality(Paths)
    /\ faults \in 0..MaxFaults

Init ==
    /\ enc \in Modes
    /\ local \in Locals /\ store \in Stores
    /\ manifest = [p \in Paths |-> Absent] /\ before = store
    /\ plan = [p \in Paths |-> "None"] /\ blind = FALSE
    /\ queue = {} /\ bis = <<>> /\ unis = <<>>
    /\ task = [p \in Paths |-> "none"]
    /\ cpc = "start" /\ spc = "manifest"
    /\ req = [p \in Paths |-> NoRequest]
    /\ rsp = [p \in Paths |-> <<>>]
    /\ cur = Absent /\ todo = 0 /\ faults = 0
-----------------------------------------------------------------------------
(* get_files_to_sync.                                                       *)
Sends(pl) == {p \in Paths : pl[p] \in {"SendFull", "SendDelta"}}
-----------------------------------------------------------------------------
(* The client.                                                              *)

(* It scans the directory and sends the manifest.                           *)
ClManifest ==
    /\ cpc = "start"
    /\ cpc' = "plan" /\ manifest' = local
    /\ UNCHANGED <<enc, local, queue, task, net, server, faults>>

(* It receives the plan.                                                    *)
ClPlan ==
    /\ cpc = "plan" /\ spc \notin {"manifest", "failed"}
    /\ cpc' = "tasks"
    /\ queue' = Sends(plan)
    /\ UNCHANGED <<enc, local, manifest, task, net, server, faults>>

Trouble(kind) ==
    kind \in Faults /\ faults < MaxFaults /\ faults' = faults + 1

Running == {p \in Paths : task[p] \notin TaskEnds}

(* The tasks start in the order of the manifest, Parallel of them at a time.*)
MayStart(p) ==
    /\ cpc = "tasks" /\ p \in queue
    /\ \E k \in DOMAIN Order :
          Order[k] = p /\ \A l \in 1..(k - 1) : Order[l] \notin queue
    /\ Cardinality(Running) < Parallel

(* The first poll of the task of p.  A small file is sent at once; for a    *)
(* large one the task waits for the acknowledgement; a file that is gone    *)
(* fails before any stream is opened.                                       *)
TaskStart(p) ==
    /\ MayStart(p)
    /\ queue' = queue \ {p}
    /\ IF local[p] = Absent
       THEN task' = [task EXCEPT ![p] = "failed"] /\ UNCHANGED <<bis, req, unis>>
       ELSE LET c == local[p]  small == Length[c] < Small IN
            /\ bis' = Append(bis, p)
            /\ req' = [req EXCEPT
                         ![p] = [type |-> IF ~small THEN "Handshake"
                                          ELSE IF enc THEN "Encrypted"
                                          ELSE "Compressed",
                                 size |-> Length[c]]]
            /\ task' = [task EXCEPT ![p] = IF small THEN "verify" ELSE "ack"]
            /\ unis' = IF ~small THEN unis
                       ELSE Append(unis, [form |-> IF enc THEN "blob" ELSE "zstd",
                                          of |-> c])
    /\ UNCHANGED <<enc, local, manifest, cpc, rsp, server, faults>>

(* The same for a small file that is gone once its size was read: a request *)
(* without data, or, as the blob is made before the request, a message      *)
(* stream that ends without one.                                            *)
TaskUnsent(p) ==
    /\ Trouble("unsent")
    /\ MayStart(p) /\ local[p] # Absent /\ Length[local[p]] < Small
    /\ queue' = queue \ {p}
    /\ task' = [task EXCEPT ![p] = "failed"]
    /\ bis' = Append(bis, p)
    /\ req' = [req EXCEPT ![p] = [type |-> IF enc THEN "Nothing" ELSE "Compressed",
                                  size |-> Length[local[p]]]]
    /\ UNCHANGED <<enc, local, manifest, cpc, rsp, unis, server>>

Answered(p, type) == rsp[p] # <<>> /\ Head(rsp[p]).type = type

(* The task of p reads an answer, sends data if there is any, and waits at  *)
(* `at` for the next one.                                                   *)
TaskGoes(p, at, data) ==
    /\ task' = [task EXCEPT ![p] = at]
    /\ rsp' = [rsp EXCEPT ![p] = Tail(@)]
    /\ unis' = unis \o data
    /\ UNCHANGED <<enc, local, manifest, queue, cpc, bis, req, server, faults>>

UploadsAll(p) == ~enc /\ ~(Head(rsp[p]).old /\ plan[p] = "SendDelta")

(* A read fails in the middle of an upload: the data stream is dropped,     *)
(* which ends it like one that is complete.                                 *)
TaskCut(p) ==
    /\ Trouble("cut")
    /\ task[p] = "ack" /\ Answered(p, "HandshakeAck") /\ UploadsAll(p)
    /\ local[p] # Absent
    /\ task' = [task EXCEPT ![p] = "failed"]
    /\ rsp' = [rsp EXCEPT ![p] = Tail(@)]
    /\ unis' = Append(unis, [form |-> "cut", of |-> local[p]])
    /\ UNCHANGED <<enc, local, manifest, queue, cpc, bis, req, server>>

(* The acknowledgement: wait for signatures when the server has the file    *)
(* and the plan says so, else send all of it.  With --encrypt all of it is  *)
(* sent in any case; handle_encrypted_upload then waits for a result, and   *)
(* sync_single_file for another.                                            *)
TaskAck(p) ==
    /\ task[p] = "ack" /\ Answered(p, "HandshakeAck")
    /\ IF local[p] = Absent THEN TaskGoes(p, "failed", <<>>)
       ELSE IF enc
       THEN TaskGoes(p, "verify2", <<[form |-> "blob", of |-> local[p]]>>)
       ELSE IF UploadsAll(p) THEN TaskGoes(p, "verify", <<Plain(local[p])>>)
       ELSE TaskGoes(p, "signatures", <<>>)

TaskSignatures(p) ==
    /\ task[p] = "signatures" /\ Answered(p, "Signatures")
    /\ IF local[p] = Absent THEN TaskGoes(p, "failed", <<>>)
       ELSE TaskGoes(p, "verify", <<[form |-> "patch", of |-> local[p],
                                     base |-> Head(rsp[p]).base]>>)

(* The result, or another message where a result is expected.               *)
TaskVerify(p) ==
    /\ task[p] \in {"verify", "verify2"} /\ rsp[p] # <<>>
    /\ TaskGoes(p, IF ~Answered(p, "VerifyResult") THEN "failed"
                   ELSE IF task[p] = "verify2" THEN "verify" ELSE "ok", <<>>)

(* The server has dropped the connection: at an error, or 50 ms after its   *)
(* last step, a delay in which an answer may (or may not) reach the client. *)
TaskLost(p) ==
    /\ p \in Running
    /\ \/ spc = "failed" /\ UNCHANGED faults
       \/ spc = "done" /\ rsp[p] = <<>> /\ UNCHANGED faults
       \/ spc = "done" /\ rsp[p] # <<>> /\ Trouble("die")
    /\ task' = [task EXCEPT ![p] = "failed"]
    /\ UNCHANGED <<enc, local, manifest, queue, cpc, net, server>>

(* All tasks have ended, whatever came of them; the connection is closed.   *)
ClClose ==
    /\ cpc = "tasks" /\ queue = {} /\ Running = {}
    /\ cpc' = "done"
    /\ UNCHANGED <<enc, local, manifest, queue, task, net, server, faults>>

ClLost ==
    /\ cpc = "plan" /\ spc = "failed"
    /\ cpc' = "failed"
    /\ UNCHANGED <<enc, local, manifest, queue, task, net, server, faults>>

(* The client is killed.                                                    *)
ClDie ==
    /\ Trouble("die")
    /\ cpc \in {"plan", "tasks"}
    /\ cpc' = "failed" /\ queue' = {}
    /\ task' = [p \in Paths |-> IF p \in Running THEN "failed" ELSE task[p]]
    /\ UNCHANGED <<enc, local, manifest, net, server>>

(* A file that is in the manifest is removed before it was sent.            *)
Vanish(p) ==
    /\ Trouble("vanish")
    /\ cpc \in {"plan", "tasks"} /\ local[p] # Absent
    /\ local' = [local EXCEPT ![p] = Absent]
    /\ UNCHANGED <<enc, manifest, queue, task, cpc, net, server>>
-----------------------------------------------------------------------------
(* The server.                                                              *)

(* The plan (diff): what is done with a file the client has as c, or not,   *)
(* and the server as f, or not.  Equal sizes are told apart by checksums,   *)
(* which empty files lack: those are judged by their times.                 *)
Decide(c, f) ==
    IF c = Absent
    THEN IF f = Absent THEN {"None"} ELSE {"Delete"}
    ELSE IF f = Absent THEN {"SendFull"}
    ELSE IF f = Plain(c)
         THEN IF Length[c] = 0 THEN {"Skip", "SendDelta"} ELSE {"Skip"}
         ELSE {"SendDelta"}

(* It receives the manifest, scans its storage and sends the plan; when it  *)
(* expects no file it returns at once.  A scan that fails, as it does when  *)
(* an entry goes away meanwhile, passes for one of an empty storage.        *)
SrvPlan ==
    /\ spc = "manifest" /\ cpc = "plan"
    /\ blind' \in BOOLEAN
    /\ IF blind' THEN Trouble("blind") ELSE UNCHANGED faults
    /\ plan' \in [Paths -> Actions]
    /\ \A p \in Paths :
          plan'[p] \in Decide(manifest[p], IF p \in Hidden \/ blind' THEN Absent
                                          ELSE store[p])
    /\ todo' = Cardinality(Sends(plan'))
    /\ spc' = IF Sends(plan') = {} THEN "done" ELSE "accept"
    /\ UNCHANGED <<client, net, store, before, cur>>

(* Wrong versions of the next action: the newest stream is accepted first,  *)
(* or the signatures are not sent.                                          *)
SrvAcceptLast ==
    /\ spc = "accept" /\ bis # <<>>
    /\ cur' = bis[Len(bis)] /\ bis' = SubSeq(bis, 1, Len(bis) - 1)
    /\ spc' = IF req[bis[Len(bis)]].type = "Nothing" THEN "failed" ELSE "data"
    /\ LET p == bis[Len(bis)]  old == store[p] # Absent IN
       rsp' = IF req[p].type # "Handshake" THEN rsp
              ELSE [rsp EXCEPT ![p] = IF old THEN <<Ack(old), Signatures(store[p])>>
                                      ELSE <<Ack(old)>>]
    /\ UNCHANGED <<client, req, unis, plan, blind, store, before, todo, faults>>
SrvAcceptNoSignatures ==
    /\ spc = "accept" /\ bis # <<>>
    /\ cur' = Head(bis) /\ bis' = Tail(bis)
    /\ spc' = IF req[Head(bis)].type = "Nothing" THEN "failed" ELSE "data"
    /\ LET p == Head(bis) IN
       rsp' = IF req[p].type # "Handshake" THEN rsp
              ELSE [rsp EXCEPT ![p] = <<Ack(store[p] # Absent)>>]
    /\ UNCHANGED <<client, req, unis, plan, blind, store, before, todo, faults>>

(* accept_bi and the first message, without which the run fails; a          *)
(* handshake is acknowledged, and the signatures follow when the file is    *)
(* there.                                                                   *)
SrvAccept ==
    /\ spc = "accept" /\ bis # <<>>
    /\ cur' = Head(bis) /\ bis' = Tail(bis)
    /\ spc' = IF req[Head(bis)].type = "Nothing" THEN "failed" ELSE "data"
    /\ LET p == Head(bis)  old == store[p] # Absent IN
       rsp' = IF req[p].type # "Handshake" THEN rsp
              ELSE [rsp EXCEPT ![p] = IF old THEN <<Ack(old), Signatures(store[p])>>
                                      ELSE <<Ack(old)>>]
    /\ UNCHANGED <<client, req, unis, plan, blind, store, before, todo, faults>>

(* The wrong version: compressed data is stored as it is.                   *)
ReceivedRaw(p, d) == {[form |-> d.form, of |-> d.of]}

(* The files that data d may make when it arrives for p; Absent stands for  *)
(* an error.  A compressed file must decode to the announced size.  After a *)
(* handshake a new file is whatever arrives, an old one expects a patch: a  *)
(* message of another type is skipped there, but the bytes of a file are    *)
(* taken never to read as a message, so all that is no patch is an error.   *)
Received(p, d) ==
    CASE req[p].type = "Encrypted" -> {[form |-> d.form, of |-> d.of]}
      [] req[p].type = "Compressed" ->
           IF d.form = "zstd" /\ Length[d.of] = req[p].size
           THEN {Plain(d.of)} ELSE {Absent}
      [] req[p].type = "Handshake" /\ store[p] = Absent ->
           {[form |-> d.form, of |-> d.of]}
      [] req[p].type = "Handshake" /\ store[p] # Absent ->
           IF d.form # "patch" THEN {Absent}
           ELSE IF d.base = store[p] THEN {Plain(d.of)}
           ELSE {Absent, [form |-> "garbled", of |-> d.of]}

(* The wrong count: a file is counted when accepted and when stored.        *)
NextFileTwice ==
    /\ todo' = todo - 2
    /\ spc' = IF todo = 1 THEN "delete" ELSE "accept"

(* The loop goes on to the next file, or is left when it was the last.      *)
NextFile ==
    /\ todo' = todo - 1
    /\ spc' = IF todo = 1 THEN "delete" ELSE "accept"

ClientGone == cpc \in {"done", "failed"}

(* accept_uni: the next data stream, whosever it is.  The rename of `.tmp`  *)
(* commits the file, then the result is sent, which fails when the client   *)
(* has gone.                                                                *)
SrvData ==
    /\ spc = "data" /\ unis # <<>> /\ req[cur].type # "Encrypted"
    /\ unis' = Tail(unis)
    /\ \E f \in Received(cur, Head(unis)) :
         IF f = Absent
         THEN spc' = "failed" /\ UNCHANGED <<rsp, store, todo>>
         ELSE /\ store' = [store EXCEPT ![cur] = f]
              /\ \/ /\ rsp' = [rsp EXCEPT ![cur] = @ \o <<VerifyResult, Finished>>]
                    /\ NextFile
                 \/ ClientGone /\ spc' = "failed" /\ UNCHANGED <<rsp, todo>>
    /\ UNCHANGED <<client, bis, req, plan, blind, before, cur, faults>>

(* A small encrypted file has no `.tmp`: the file is truncated, the blob is *)
(* written to it, and the stream is ended without a result.                 *)
SrvBlobOpen ==
    /\ spc = "data" /\ unis # <<>> /\ req[cur].type = "Encrypted"
    /\ store' = [store EXCEPT ![cur] = [form |-> "cut", of |-> Head(unis).of]]
    /\ spc' = "write"
    /\ UNCHANGED <<client, net, plan, blind, before, cur, todo, faults>>

SrvBlobWrite ==
    /\ spc = "write"
    /\ unis' = Tail(unis)
    /\ \E f \in Received(cur, Head(unis)) : store' = [store EXCEPT ![cur] = f]
    /\ rsp' = [rsp EXCEPT ![cur] = Append(@, Finished)]
    /\ NextFile
    /\ UNCHANGED <<client, bis, req, plan, blind, before, cur, faults>>

(* The files of the plan to delete, one by one, and the end.                *)
SrvDelete(p) ==
    /\ spc = "delete" /\ plan[p] = "Delete" /\ store[p] # Absent
    /\ store' = [store EXCEPT ![p] = Absent]
    /\ UNCHANGED <<client, net, plan, blind, before, spc, cur, todo, faults>>

(* The wrong end: not all files of the plan are deleted.                    *)
SrvDoneEarly ==
    /\ spc = "delete"
    /\ spc' = "done"
    /\ UNCHANGED <<client, net, plan, blind, store, before, cur, todo, faults>>

SrvDone ==
    /\ spc = "delete" /\ \A p \in Paths : plan[p] = "Delete" => store[p] = Absent
    /\ spc' = "done"
    /\ UNCHANGED <<client, net, plan, blind, store, before, cur, todo, faults>>

(* Wrong versions of the next action: the loop is left, not the handler, or *)
(* an error of accept_uni is not noticed.                                   *)
SrvLostBreaks ==
    /\ spc \in {"manifest", "accept", "data"} /\ ClientGone
    /\ spc' = IF spc = "manifest" THEN "failed" ELSE "delete"
    /\ UNCHANGED <<client, net, plan, blind, store, before, cur, todo, faults>>
SrvLostAccepting ==
    /\ spc \in {"manifest", "accept"} /\ ClientGone
    /\ spc' = "failed"
    /\ UNCHANGED <<client, net, plan, blind, store, before, cur, todo, faults>>

(* Waiting for a stream or a message fails after the client has gone.       *)
SrvLost ==
    /\ spc \in {"manifest", "accept", "data"} /\ ClientGone
    /\ spc' = "failed"
    /\ UNCHANGED <<client, net, plan, blind, store, before, cur, todo, faults>>

(* Each side waits for the other: nothing to read, nobody to start.         *)
MutualWait ==
    /\ cpc = "tasks" /\ Running # {}
    /\ queue = {} \/ Cardinality(Running) = Parallel
    /\ \A p \in Running : rsp[p] = <<>>
    /\ (spc = "accept" /\ bis = <<>>) \/ (spc = "data" /\ unis = <<>>)

(* Neither side sends keep-alives: after 30 idle seconds QUIC drops the     *)
(* connection.                                                              *)
IdleTimeout ==
    /\ MutualWait
    /\ spc' = "failed"
    /\ UNCHANGED <<client, net, plan, blind, store, before, cur, todo, faults>>

ServerCrash ==
    /\ Trouble("crash")
    /\ spc \notin ServerEnds
    /\ spc' = "failed"
    /\ UNCHANGED <<client, net, plan, blind, store, before, cur, todo>>
-----------------------------------------------------------------------------
TaskStep(p) ==
    \/ TaskStart(p) \/ TaskUnsent(p) \/ TaskAck(p) \/ TaskCut(p)
    \/ TaskSignatures(p) \/ TaskVerify(p) \/ TaskLost(p)

ClientStep ==
    \/ ClManifest \/ ClPlan \/ ClClose \/ ClLost
    \/ \E p \in Paths : TaskStep(p)

ServerStep ==
    \/ SrvPlan \/ SrvAccept \/ SrvData \/ SrvBlobOpen \/ SrvBlobWrite
    \/ SrvDone \/ SrvLost
    \/ \E p \in Paths : SrvDelete(p)

Next ==
    \/ ClientStep \/ ServerStep \/ IdleTimeout \/ ClDie \/ ServerCrash
    \/ \E p \in Paths : Vanish(p)

Spec == Init /\ [][Next]_vars

(* Both runtimes poll what is ready, and timers expire; nothing has to go   *)
(* wrong.                                                                   *)
FairSpec ==
    Spec /\ WF_vars(ClientStep) /\ WF_vars(ServerStep) /\ WF_vars(IdleTimeout)
-----------------------------------------------------------------------------
(* Correctness.                                                             *)

(* What the server should hold for p after the run.                         *)
Image(p) ==
    IF manifest[p] = Absent THEN Absent
    ELSE [form |-> IF enc THEN "blob" ELSE "plain", of |-> manifest[p]]

(* Safety: a task that was told the file is verified has its own file       *)
(* stored under its own path (sync_single_file, VerifyResult), although     *)
(* nothing but their order ties data streams to paths.                      *)
VerifiedIsStored == \A p \in Paths : task[p] = "ok" => store[p] = Image(p)

(* Safety: whatever is interrupted and whenever, each path of the server    *)
(* holds what it held before the run or what the client has there; or a     *)
(* truncated file the client could not read to its end, and reports.        *)
Cut(p) == store[p] # Absent /\ store[p].form = "cut" /\ task[p] = "failed"
OldOrNew ==
    cpc = "start" \/ \A p \in Paths : store[p] \in {before[p], Image(p)} \/ Cut(p)

(* Safety: when both sides have finished and no task has failed, the server *)
(* mirrors the directory, deletions included (handle_directory_sync); only  *)
(* deletions are missing, of files that the scan of the storage passed over *)
(* or missed as it failed, or all of them as no file was to be sent.        *)
BothDone == cpc = "done" /\ spc = "done"
Mirrors ==
    BothDone /\ (\A p \in Paths : task[p] # "failed")
        => \A p \in Paths :
              \/ store[p] = Image(p)
              \/ manifest[p] = Absent /\ (blind \/ p \in Hidden \/ Sends(plan) = {})

(* Safety, per step: files are deleted only after every upload of the plan  *)
(* was committed, as far as it came; a run that fails deletes nothing (the  *)
(* loop of uploads comes first, an error leaves handle_directory_sync).     *)
DeletesLast ==
    [][\A p \in Paths :
          store[p] # Absent /\ store'[p] = Absent
              => \A q \in Sends(plan) : store[q] = Image(q) \/ Cut(q)]_vars

(* Safety: without a fault no file of the plan fails.                       *)
NoSpuriousErrors == faults = 0 => \A p \in Paths : task[p] # "failed"

(* Safety: without a fault the two sides never wait for each other until    *)
(* the idle timeout, whichever files the run mixes.                         *)
NoMutualWait == faults = 0 => ~MutualWait

(* Liveness: both sides end, whatever fails: the client never waits for a   *)
(* stream the server does not answer, nor the server for a file that the    *)
(* client could not send.                                                   *)
DirEnds == <>(cpc \in {"done", "failed"}) /\ <>(spc \in ServerEnds)
=============================================================================
