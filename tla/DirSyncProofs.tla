---------------------------- MODULE DirSyncProofs -----------------------------
(***************************************************************************)
(* DirSync is type correct for all directories and faults, and syncs       *)
(* directories whose files are all small or all large as it should.        *)
(***************************************************************************)
EXTENDS DirSync, SequenceTheorems, FiniteSetTheorems, TLAPS

(* What the types rest on: no task is served that has not started, and the  *)
(* server goes on only while it expects files.                              *)
Turns ==
    /\ cpc \in {"start", "plan"} =>
          queue = {} /\ bis = <<>> /\ spc \notin {"data", "write"}
    /\ \A k \in DOMAIN bis : bis[k] \notin queue
    /\ spc \in {"data", "write"} =>
          cur \in Paths \ queue /\ req[cur].type # "Nothing"
    /\ spc = "write" => unis # <<>> /\ req[cur].type = "Encrypted"
    /\ spc \in {"accept", "data", "write"} => todo > 0

TypeInv == TypeOK /\ Turns

(* There are finitely many paths.                                           *)
LEMMA PathsFinite == IsFiniteSet(Paths)
<1>1. Len(Order) \in Nat /\ Order \in [1..Len(Order) -> Paths]
  BY OrderAssumption
<1>2. IsFiniteSet(1..Len(Order))
  BY <1>1, FS_Interval
<1>3. Order \in Surjection(1..Len(Order), Paths)
  BY <1>1 DEF Paths, Surjection
<1> QED BY <1>2, <1>3, FS_Surjection

(* As many files are sent as there are paths, at most.                      *)
LEMMA SendsFinite ==
    ASSUME NEW pl
    PROVE  /\ IsFiniteSet(Sends(pl)) /\ Cardinality(Sends(pl)) \in 0..Cardinality(Paths)
           /\ Cardinality(Sends(pl)) = 0 <=> Sends(pl) = {}
<1>1. Sends(pl) \subseteq Paths
  BY DEF Sends
<1>2. IsFiniteSet(Sends(pl)) /\ Cardinality(Sends(pl)) <= Cardinality(Paths)
  BY <1>1, PathsFinite, FS_Subset
<1> QED BY <1>2, PathsFinite, FS_CardinalityType, FS_EmptySet

(* The invariant of the types holds at the start.                           *)
LEMMA TypeInit == Init => TypeInv
<1> SUFFICES ASSUME Init PROVE TypeInv
  OBVIOUS
<1>1. Cardinality(Paths) \in Nat
  BY PathsFinite, FS_CardinalityType
<1>2. /\ local \in [Paths -> Contents \cup {Absent}]
      /\ store \in [Paths -> Stored \cup {Absent}] /\ before = store
      /\ enc \in BOOLEAN /\ faults \in 0..MaxFaults
  BY DirectoriesAssumption, BoundsAssumption DEF Init
<1>3. /\ rsp \in [Paths -> Seq(Answers)] /\ bis \in Seq(Paths) /\ unis \in Seq(Data)
      /\ queue \subseteq Paths
  BY DEF Init
<1>4. /\ req \in [Paths -> Requests] /\ task \in [Paths -> TaskEnds \cup TaskWaits]
      /\ plan \in [Paths -> Actions] /\ manifest \in [Paths -> Contents \cup {Absent}]
  BY DEF Init, Actions, TaskEnds, TaskWaits, Requests, NoRequest
<1>5. /\ cpc = "start" /\ spc = "manifest" /\ cur = Absent /\ todo = 0
      /\ blind = FALSE
  BY DEF Init
<1>6. before \in [Paths -> Stored \cup {Absent}] /\ todo \in 0..Cardinality(Paths)
  BY <1>1, <1>2, <1>5
<1>7. TypeOK
  BY <1>2, <1>3, <1>4, <1>5, <1>6 DEF TypeOK
<1>8. Turns
  BY DEF Init, Turns
<1> QED BY <1>8, <1>7 DEF TypeInv

(* Faults stay within their bound, and are counted.                         *)
LEMMA TroubleTypes ==
    ASSUME TypeInv, NEW kind, Trouble(kind)
    PROVE  faults' \in 0..MaxFaults /\ faults' # 0
BY BoundsAssumption DEF TypeInv, TypeOK, Trouble

(* A task that reads an answer keeps the types.                             *)
LEMMA TypeTaskGoes ==
    ASSUME TypeInv, NEW p \in Paths, NEW at \in TaskEnds \cup TaskWaits,
           NEW data \in Seq(Data), TaskGoes(p, at, data), rsp[p] # <<>>
    PROVE  TypeInv'
<1>1. TypeOK'
  BY DEF TypeInv, TypeOK, TaskGoes, server, TaskEnds, TaskWaits
<1>2. Turns'
  BY DEF TypeInv, TypeOK, Turns, TaskGoes, server
<1> QED BY <1>1, <1>2 DEF TypeInv

(* A task that starts keeps the types.                                      *)
LEMMA TypeTaskStart ==
    ASSUME TypeInv, NEW p \in Paths, TaskStart(p) \/ TaskUnsent(p)
    PROVE  TypeInv'
<1>1. /\ p \in queue /\ task \in [Paths -> TaskEnds \cup TaskWaits]
      /\ queue' = queue \ {p} /\ cpc = "tasks" /\ cpc' = "tasks"
      /\ UNCHANGED <<enc, local, manifest, rsp, server>>
  BY DEF TypeInv, TypeOK, TaskStart, TaskUnsent, MayStart
<1>2. CASE local[p] = Absent
  <2>1. task' = [task EXCEPT ![p] = "failed"] /\ UNCHANGED <<bis, req, unis, faults>>
    BY <1>2 DEF TaskStart, TaskUnsent
  <2> QED
    BY <1>1, <2>1 DEF TypeInv, TypeOK, Turns, server, TaskEnds, TaskWaits
<1>3. CASE local[p] # Absent
  <2>1. Length[local[p]] \in Nat /\ local[p] \in Contents
    BY <1>3, LengthAssumption DEF TypeInv, TypeOK
  <2>2. PICK r \in Requests : req' = [req EXCEPT ![p] = r]
    BY <1>3, <2>1 DEF TaskStart, TaskUnsent, Requests
  <2>3. unis' = unis \/ \E d \in Data : unis' = Append(unis, d)
    BY <1>3, <2>1 DEF TaskStart, TaskUnsent, Data
  <2>4. \E t \in TaskEnds \cup TaskWaits : task' = [task EXCEPT ![p] = t]
    BY <1>3 DEF TaskStart, TaskUnsent, TaskEnds, TaskWaits
  <2>5. bis' = Append(bis, p) /\ faults' \in 0..MaxFaults
    BY <1>3, TroubleTypes DEF TypeInv, TypeOK, TaskStart, TaskUnsent
  <2>6. unis' \in Seq(Data) /\ bis' \in Seq(Paths)
    <3>1. unis \in Seq(Data) /\ bis \in Seq(Paths)
      BY DEF TypeInv, TypeOK
    <3>2. bis' \in Seq(Paths)
      BY <2>5, <3>1
    <3>3. unis' \in Seq(Data)
      BY <2>3, <3>1
    <3> QED BY <3>2, <3>3
  <2>7. req' \in [Paths -> Requests] /\ task' \in [Paths -> TaskEnds \cup TaskWaits]
    BY <2>2, <2>4 DEF TypeInv, TypeOK
  <2>8. TypeOK'
    BY <1>1, <2>5, <2>6, <2>7 DEF TypeInv, TypeOK, server
  <2>9. Turns'
    BY <1>1, <2>2, <2>3, <2>5 DEF TypeInv, TypeOK, Turns, server
  <2> QED BY <2>8, <2>9 DEF TypeInv
<1> QED BY <1>2, <1>3

(* What is made of the data is a stored file, or an error.                  *)
LEMMA ReceivedTypes ==
    ASSUME TypeInv, spc \in {"data", "write"}, NEW d \in Data
    PROVE  /\ Received(cur, d) \subseteq Stored \cup {Absent}
           /\ req[cur].type = "Encrypted" => Received(cur, d) \subseteq Stored
<1>1. cur \in Paths /\ req[cur].type \in {"Handshake", "Compressed", "Encrypted"}
  BY DEF TypeInv, TypeOK, Turns, Requests
<1>2. d.form \in {"plain", "zstd", "blob", "cut", "patch"} /\ d.of \in Contents
  BY DEF Data
<1>3. /\ [form |-> d.form, of |-> d.of] \in Stored /\ Plain(d.of) \in Stored
      /\ [form |-> "garbled", of |-> d.of] \in Stored
  BY <1>2 DEF Stored, Plain
<1>4. CASE req[cur].type = "Encrypted"
  BY <1>3, <1>4 DEF Received
<1>5. CASE req[cur].type = "Compressed"
  BY <1>3, <1>5 DEF Received
<1>6. CASE req[cur].type = "Handshake"
  BY <1>3, <1>6 DEF Received
<1> QED BY <1>1, <1>4, <1>5, <1>6

(* The server counts down to zero and no further.                           *)
LEMMA NextFileTypes ==
    ASSUME TypeInv, todo > 0, NextFile
    PROVE  /\ todo' \in 0..Cardinality(Paths) /\ spc' \in {"delete", "accept"}
           /\ spc' = "accept" => todo' > 0
<1>1. Cardinality(Paths) \in Nat
  BY PathsFinite, FS_CardinalityType
<1> QED BY <1>1 DEF TypeInv, TypeOK, NextFile

(* Every step keeps the types.                                              *)
LEMMA TypeStep == TypeInv /\ [Next]_vars => TypeInv'
<1> SUFFICES ASSUME TypeInv, [Next]_vars PROVE TypeInv'
  OBVIOUS
<1> USE DEF TypeInv
<1>1. CASE ClManifest
  BY <1>1 DEF ClManifest, TypeOK, Turns, net, server
<1>2. CASE ClPlan
  BY <1>2 DEF ClPlan, TypeOK, Turns, net, server, Sends
<1>3. CASE ClClose \/ ClLost
  BY <1>3 DEF ClClose, ClLost, TypeOK, Turns, net, server
<1>4. CASE ClDie
  <2>1. task' \in [Paths -> TaskEnds \cup TaskWaits]
    BY <1>4 DEF ClDie, TypeOK, TaskEnds
  <2> QED
    BY <1>4, <2>1, TroubleTypes DEF ClDie, TypeOK, Turns, net, server
<1>5. ASSUME NEW p \in Paths, TaskStep(p) PROVE TypeInv'
  <2>1. CASE TaskStart(p) \/ TaskUnsent(p)
    BY <2>1, TypeTaskStart
  <2>2. CASE TaskAck(p)
    <3>1. local[p] # Absent =>
             /\ <<[form |-> "blob", of |-> local[p]]>> \in Seq(Data)
             /\ <<Plain(local[p])>> \in Seq(Data)
      BY DEF TypeOK, Data, Plain
    <3>2. rsp[p] # <<>> /\ <<>> \in Seq(Data)
      BY <2>2 DEF TaskAck, Answered
    <3>3. /\ "failed" \in TaskEnds \cup TaskWaits /\ "verify" \in TaskEnds \cup TaskWaits
          /\ "verify2" \in TaskEnds \cup TaskWaits
          /\ "signatures" \in TaskEnds \cup TaskWaits
      BY DEF TaskEnds, TaskWaits
    <3>4. CASE local[p] = Absent
      BY <2>2, <3>2, <3>3, <3>4, TypeTaskGoes DEF TaskAck
    <3>5. CASE local[p] # Absent /\ enc
      BY <2>2, <3>1, <3>2, <3>3, <3>5, TypeTaskGoes DEF TaskAck
    <3>6. CASE local[p] # Absent /\ ~enc /\ UploadsAll(p)
      BY <2>2, <3>1, <3>2, <3>3, <3>6, TypeTaskGoes DEF TaskAck
    <3>7. CASE local[p] # Absent /\ ~enc /\ ~UploadsAll(p)
      BY <2>2, <3>1, <3>2, <3>3, <3>7, TypeTaskGoes DEF TaskAck
    <3> QED BY <3>4, <3>5, <3>6, <3>7
  <2>3. CASE TaskCut(p)
    <3>1. unis' \in Seq(Data) /\ faults' \in 0..MaxFaults
      BY <2>3, TroubleTypes DEF TaskCut, TypeOK, Data
    <3>2. rsp' \in [Paths -> Seq(Answers)] /\ task' \in [Paths -> TaskEnds \cup TaskWaits]
      BY <2>3 DEF TaskCut, TypeOK, Answered, TaskEnds
    <3>3. TypeOK'
      BY <2>3, <3>1, <3>2 DEF TaskCut, TypeOK, server
    <3>4. Turns'
      <4>1. unis' # <<>>
        <5>1. unis \in Seq(Data) /\ unis' \in Seq(Data)
          BY <3>1 DEF TypeOK
        <5>2. Len(unis') = Len(unis) + 1
          BY <2>3, <5>1 DEF TaskCut
        <5> QED BY <5>1, <5>2
      <4> QED BY <2>3, <4>1 DEF TaskCut, Turns, server
    <3> QED BY <3>3, <3>4
  <2>4. CASE TaskSignatures(p)
    <3>1. Head(rsp[p]) \in Answers /\ Head(rsp[p]).type = "Signatures"
      BY <2>4 DEF TaskSignatures, Answered, TypeOK
    <3>2. Head(rsp[p]).base \in Stored
      BY <3>1 DEF Answers, Ack, Signatures, VerifyResult, Finished
    <3>3. local[p] # Absent =>
             <<[form |-> "patch", of |-> local[p], base |-> Head(rsp[p]).base]>>
               \in Seq(Data)
      BY <3>2 DEF TypeOK, Data
    <3>4. rsp[p] # <<>> /\ <<>> \in Seq(Data)
      BY <2>4 DEF TaskSignatures, Answered
    <3>5. "failed" \in TaskEnds \cup TaskWaits /\ "verify" \in TaskEnds \cup TaskWaits
      BY DEF TaskEnds, TaskWaits
    <3>6. CASE local[p] = Absent
      BY <2>4, <3>4, <3>5, <3>6, TypeTaskGoes DEF TaskSignatures
    <3>7. CASE local[p] # Absent
      BY <2>4, <3>3, <3>4, <3>5, <3>7, TypeTaskGoes DEF TaskSignatures
    <3> QED BY <3>6, <3>7
  <2>5. CASE TaskVerify(p)
    <3>1. \E at \in TaskEnds \cup TaskWaits : TaskGoes(p, at, <<>>)
      BY <2>5 DEF TaskVerify, TaskEnds, TaskWaits
    <3>2. rsp[p] # <<>> /\ <<>> \in Seq(Data)
      BY <2>5 DEF TaskVerify
    <3> QED BY <3>1, <3>2, TypeTaskGoes
  <2>6. CASE TaskLost(p)
    <3>1. faults' \in 0..MaxFaults
      BY <2>6, TroubleTypes DEF TaskLost, TypeOK
    <3> QED
      BY <2>6, <3>1 DEF TaskLost, TypeOK, Turns, net, server, TaskEnds
  <2> QED BY <1>5, <2>1, <2>2, <2>3, <2>4, <2>5, <2>6 DEF TaskStep
<1>6. ASSUME NEW p \in Paths, Vanish(p) PROVE TypeInv'
  BY <1>6, TroubleTypes DEF Vanish, TypeOK, Turns, net, server
<1>7. CASE SrvPlan
  <2>1. faults' \in 0..MaxFaults
    BY <1>7, TroubleTypes DEF SrvPlan, TypeOK
  <2>2. todo' \in 0..Cardinality(Paths) /\ (spc' = "accept" => todo' > 0)
    BY <1>7, SendsFinite DEF SrvPlan
  <2> QED
    BY <1>7, <2>1, <2>2 DEF SrvPlan, TypeOK, Turns, client, net, ServerEnds
<1>8. CASE SrvAccept
  <2>1. Head(bis) \in Paths /\ bis' \in Seq(Paths) /\ Head(bis) \notin queue
    BY <1>8 DEF SrvAccept, TypeOK, Turns
  <2>2. \A k \in DOMAIN bis' : bis'[k] \notin queue
    BY <1>8 DEF SrvAccept, TypeOK, Turns
  <2>3. store[Head(bis)] # Absent =>
           /\ Signatures(store[Head(bis)]) \in Answers
    BY <2>1 DEF TypeOK, Answers
  <2>4. rsp' \in [Paths -> Seq(Answers)]
    <3>1. Ack(store[Head(bis)] # Absent) \in Answers
      BY DEF Answers
    <3> QED BY <1>8, <2>1, <2>3, <3>1 DEF SrvAccept, TypeOK
  <2>5. TypeOK'
    BY <1>8, <2>1, <2>4 DEF SrvAccept, TypeOK, client, ServerEnds
  <2>6. Turns'
    BY <1>8, <2>1, <2>2 DEF SrvAccept, Turns, client
  <2> QED BY <2>5, <2>6
<1>9. CASE SrvData
  <2>1. cur \in Paths /\ Head(unis) \in Data /\ unis' \in Seq(Data) /\ todo > 0
    BY <1>9 DEF SrvData, TypeOK, Turns
  <2>2. PICK f \in Received(cur, Head(unis)) :
           IF f = Absent
           THEN spc' = "failed" /\ UNCHANGED <<rsp, store, todo>>
           ELSE /\ store' = [store EXCEPT ![cur] = f]
                /\ \/ /\ rsp' = [rsp EXCEPT ![cur] = @ \o <<VerifyResult, Finished>>]
                      /\ NextFile
                   \/ ClientGone /\ spc' = "failed" /\ UNCHANGED <<rsp, todo>>
    BY <1>9 DEF SrvData
  <2>3. f \in Stored \cup {Absent}
    BY <1>9, <2>1, ReceivedTypes DEF SrvData
  <2>4. store' \in [Paths -> Stored \cup {Absent}]
    BY <2>2, <2>3 DEF TypeOK
  <2>5. rsp' \in [Paths -> Seq(Answers)]
    <3>1. <<VerifyResult, Finished>> \in Seq(Answers)
      BY DEF Answers
    <3>2. rsp[cur] \o <<VerifyResult, Finished>> \in Seq(Answers)
      BY <2>1, <3>1 DEF TypeOK
    <3> QED BY <2>1, <2>2, <3>2 DEF TypeOK
  <2>6. /\ todo' \in 0..Cardinality(Paths) /\ spc' \in {"delete", "accept", "failed"}
        /\ spc' = "accept" => todo' > 0
    BY <2>1, <2>2, NextFileTypes DEF TypeOK
  <2>7. TypeOK'
    BY <1>9, <2>1, <2>4, <2>5, <2>6 DEF SrvData, TypeOK, client, ServerEnds
  <2>8. Turns'
    BY <1>9, <2>6 DEF SrvData, Turns, client
  <2> QED BY <2>7, <2>8
<1>10. CASE SrvBlobOpen
  <2>1. cur \in Paths /\ Head(unis) \in Data
    BY <1>10 DEF SrvBlobOpen, TypeOK, Turns
  <2>2. [form |-> "cut", of |-> Head(unis).of] \in Stored
    BY <2>1 DEF Data, Stored
  <2> QED
    BY <1>10, <2>1, <2>2 DEF SrvBlobOpen, TypeOK, Turns, client, net
<1>11. CASE SrvBlobWrite
  <2>1. /\ cur \in Paths /\ Head(unis) \in Data /\ unis' \in Seq(Data) /\ todo > 0
        /\ req[cur].type = "Encrypted"
    BY <1>11 DEF SrvBlobWrite, TypeOK, Turns
  <2>2. PICK f \in Received(cur, Head(unis)) : store' = [store EXCEPT ![cur] = f]
    BY <1>11 DEF SrvBlobWrite
  <2>3. f \in Stored
    BY <1>11, <2>1, ReceivedTypes DEF SrvBlobWrite
  <2>4. rsp' \in [Paths -> Seq(Answers)]
    <3>1. rsp[cur] \in Seq(Answers) /\ Finished \in Answers
      BY <2>1 DEF TypeOK, Answers
    <3>2. Append(rsp[cur], Finished) \in Seq(Answers)
      BY <3>1
    <3> QED BY <1>11, <2>1, <3>2 DEF SrvBlobWrite, TypeOK
  <2>5. store' \in [Paths -> Stored \cup {Absent}] /\ rsp' \in [Paths -> Seq(Answers)]
    BY <2>1, <2>2, <2>3, <2>4 DEF TypeOK
  <2>6. /\ todo' \in 0..Cardinality(Paths) /\ spc' \in {"delete", "accept"}
        /\ spc' = "accept" => todo' > 0
    BY <1>11, <2>1, NextFileTypes DEF SrvBlobWrite
  <2>7. TypeOK'
    BY <1>11, <2>1, <2>5, <2>6 DEF SrvBlobWrite, TypeOK, client
  <2>8. Turns'
    BY <1>11, <2>6 DEF SrvBlobWrite, Turns, client
  <2> QED BY <2>7, <2>8
<1>12. ASSUME NEW p \in Paths, SrvDelete(p) PROVE TypeInv'
  BY <1>12 DEF SrvDelete, TypeOK, Turns, client, net
<1>13. CASE SrvDone \/ SrvLost \/ IdleTimeout
  BY <1>13 DEF SrvDone, SrvLost, IdleTimeout, TypeOK, Turns, client, net, ServerEnds
<1>14. CASE ServerCrash
  BY <1>14, TroubleTypes DEF ServerCrash, TypeOK, Turns, client, net, ServerEnds
<1>15. CASE UNCHANGED vars
  BY <1>15 DEF vars, client, net, server, TypeOK, Turns
<1> QED
  BY <1>1, <1>2, <1>3, <1>4, <1>5, <1>6, <1>7, <1>8, <1>9, <1>10, <1>11, <1>12,
     <1>13, <1>14, <1>15 DEF Next, ClientStep, ServerStep

(* Type correctness: DirSync keeps its types for all directories, all       *)
(* plans, any number of tasks and any faults.                               *)
THEOREM DirTypes == Spec => []TypeOK
<1>1. Spec => []TypeInv
  BY TypeInit, TypeStep, PTL DEF Spec
<1> QED BY <1>1, PTL DEF TypeInv

-----------------------------------------------------------------------------
(* Uniform directories.  What is proved from here on is about plain runs in *)
(* which a client's files are all small or all large, and in which no small *)
(* file goes away between its request and its data: in any other run data   *)
(* may be stored under the wrong path.                                      *)
AllSmall(dir) == \A p \in Paths : dir[p] # Absent => Length[dir[p]] < Small
AllLarge(dir) == \A p \in Paths : dir[p] # Absent => ~(Length[dir[p]] < Small)
Uniform ==
    /\ Modes \subseteq {FALSE} /\ "unsent" \notin Faults
    /\ \A dir \in Locals : AllSmall(dir) \/ AllLarge(dir)

(* The server has told the task that its file is stored; its request waits  *)
(* to be accepted; it is the one that is served.                            *)
Told(p) == rsp[p] \in {<<VerifyResult, Finished>>, <<Finished>>}
Open(p) == \E k \in DOMAIN bis : bis[k] = p
Serving(p) == spc = "data" /\ cur = p
Alive == spc # "failed"

(* The request for p, and the plan, made from what was there before.        *)
Request(p) ==
    [type |-> IF Length[manifest[p]] < Small THEN "Compressed" ELSE "Handshake",
     size |-> Length[manifest[p]]]

PlanFits ==
    \A p \in Paths :
       plan[p] \in Decide(manifest[p], IF p \in Hidden \/ blind THEN Absent
                                       ELSE before[p])

(* How the two sides go along with each other.                              *)
Course ==
    /\ enc = FALSE /\ spc # "write"
    /\ \/ AllSmall(local) /\ AllSmall(manifest)
       \/ AllLarge(local) /\ AllLarge(manifest)
    /\ cpc = "start" => spc \in {"manifest", "failed"}
    /\ spc = "manifest" => cpc \in {"start", "plan", "failed"} /\ store = before
    /\ \/ PlanFits
       \/ spc \in {"manifest", "failed"} /\ \A p \in Paths : plan[p] = "None"
    /\ cpc = "start" => \A p \in Paths : manifest[p] = Absent /\ plan[p] = "None"
    /\ cpc \in {"start", "plan"} => unis = <<>> /\ \A p \in Paths : task[p] = "none"
    /\ cpc = "done" => queue = {} /\ Running = {}
    /\ \A k, l \in DOMAIN bis : bis[k] = bis[l] => k = l

(* How far the task of p is, and where its request is.                      *)
Started(p) ==
    /\ cpc # "start" => local[p] \in {manifest[p], Absent}
    /\ p \in queue => p \in Sends(plan) /\ task[p] = "none"
    /\ task[p] = "none" => rsp[p] = <<>> /\ ~Open(p) /\ ~Serving(p)
    /\ task[p] # "none" => p \in Sends(plan) /\ task[p] # "verify2"
    /\ task[p] = "ok" <=> rsp[p] = <<Finished>>
    /\ Open(p) => /\ rsp[p] = <<>> /\ ~Serving(p)
                  /\ task[p] \in {IF Length[manifest[p]] < Small THEN "verify" ELSE "ack",
                                 "failed"}
    /\ Open(p) \/ Serving(p) => req[p] = Request(p)

(* The answers that may be on their way to it.                              *)
Replies(p) ==
    \/ rsp[p] \in {<<>>, <<Ack(FALSE)>>, <<VerifyResult, Finished>>, <<Finished>>}
    \/ \E b \in Stored : rsp[p] \in {<<Ack(TRUE), Signatures(b)>>, <<Signatures(b)>>}

(* What is stored at p: the new file once the task was told so, the old one *)
(* before, while the server lives.  A task that waits is in turn.           *)
Committed(p) ==
    /\ Told(p) => /\ task[p] \in {"verify", "ok", "failed"} /\ p \in Sends(plan)
                  /\ ~Open(p) /\ ~Serving(p)
                  /\ store[p] = Image(p) \/ Cut(p)
    /\ \/ store[p] = before[p]
       \/ plan[p] = "Delete" /\ store[p] = Absent
       \/ p \in Sends(plan) /\ (store[p] = Image(p) \/ Cut(p))
    /\ Alive => /\ p \in Sends(plan) /\ ~Told(p) => store[p] = before[p]
                /\ ~Told(p) /\ ~Serving(p) => rsp[p] = <<>>
                /\ task[p] \in {"ack", "signatures", "verify"} /\ ~Told(p)
                      => Open(p) \/ Serving(p)

(* Small files: the k-th data stream belongs to the k-th request.           *)
Zipped(p) == [form |-> "zstd", of |-> manifest[p]]
Ahead == IF spc = "data" THEN 1 ELSE 0
Paired ==
    /\ Len(unis) = Len(bis) + Ahead
    /\ \A k \in DOMAIN bis : unis[k + Ahead] = Zipped(bis[k])
    /\ spc = "data" => /\ unis[1] = Zipped(cur) /\ rsp[cur] = <<>>
                       /\ task[cur] \in {"verify", "failed"}

(* Large files: there is no data but that of the path served, and it fits   *)
(* what the server has there, or the upload fails.                          *)
Acked(p) ==
    IF store[p] = Absent THEN <<Ack(FALSE)>>
    ELSE <<Ack(TRUE), Signatures(store[p])>>
Patch(p) == [form |-> "patch", of |-> manifest[p], base |-> store[p]]
CutShort(p) == [form |-> "cut", of |-> manifest[p]]
Talk(p) ==
    \/ unis = <<>> /\ rsp[p] = Acked(p) /\ task[p] \in {"ack", "failed"}
    \/ /\ unis = <<>> /\ store[p] # Absent /\ rsp[p] = <<Signatures(store[p])>>
       /\ task[p] \in {"signatures", "failed"}
    \/ unis = <<>> /\ rsp[p] = <<>> /\ task[p] = "failed"
    \/ /\ rsp[p] = <<>> /\ store[p] = Absent
       /\ \/ unis = <<Plain(manifest[p])>> /\ task[p] \in {"verify", "failed"}
          \/ unis = <<CutShort(p)>> /\ task[p] = "failed"
    \/ /\ rsp[p] = <<>> /\ store[p] # Absent
       /\ unis = <<Patch(p)>> /\ task[p] \in {"verify", "failed"}
    \/ /\ store[p] # Absent
       /\ unis \in {<<Plain(manifest[p])>>, <<CutShort(p)>>}
       /\ \/ task[p] = "failed" /\ rsp[p] = <<>>
          \/ /\ task[p] \in {"verify", "failed"} /\ rsp[p] = <<Signatures(store[p])>>
             /\ plan[p] # "SendDelta"
OneByOne ==
    /\ spc # "data" => unis = <<>>
    /\ spc = "data" => Talk(cur)

Streams ==
    Alive => /\ AllSmall(manifest) => Paired
             /\ AllLarge(manifest) => OneByOne

(* The server expects as many files as are not stored yet.                  *)
Unsettled == {p \in Sends(plan) : ~Told(p)}
Counted ==
    /\ spc \in {"accept", "data"} => todo = Cardinality(Unsettled)
    /\ spc \in {"delete", "done"} => Unsettled = {}
    /\ spc = "done" /\ Sends(plan) # {} =>
          \A p \in Paths : plan[p] = "Delete" => store[p] = Absent

DirInv ==
    /\ Course /\ Streams /\ Counted
    /\ \A p \in Paths : Started(p) /\ Replies(p) /\ Committed(p)

-----------------------------------------------------------------------------
(* What is in a sequence with one more element,                             *)
LEMMA AppendFacts ==
    ASSUME NEW S, NEW s \in Seq(S), NEW e \in S
    PROVE  /\ DOMAIN s = 1..Len(s) /\ DOMAIN Append(s, e) = 1..(Len(s) + 1)
           /\ Append(s, e)[Len(s) + 1] = e /\ Len(Append(s, e)) = Len(s) + 1
           /\ \A k \in DOMAIN s : Append(s, e)[k] = s[k]
           /\ Len(s) \in Nat /\ Append(s, e) # <<>>
OBVIOUS

(* and with one less.                                                       *)
LEMMA TailFacts ==
    ASSUME NEW S, NEW s \in Seq(S), s # <<>>
    PROVE  /\ DOMAIN s = 1..Len(s) /\ DOMAIN Tail(s) = 1..(Len(s) - 1)
           /\ Len(Tail(s)) = Len(s) - 1 /\ Head(s) = s[1] /\ Len(s) \in Nat \ {0}
           /\ \A k \in DOMAIN Tail(s) : Tail(s)[k] = s[k + 1]
           /\ Tail(s) \in Seq(S) /\ Head(s) \in S
OBVIOUS

(* What a task finds when it reads an answer, and what is left.             *)
LEMMA Heads ==
    ASSUME NEW p \in Paths, Replies(p), rsp[p] # <<>>
    PROVE  /\ Answered(p, "HandshakeAck") =>
                  \/ rsp[p] = <<Ack(FALSE)>> /\ Tail(rsp[p]) = <<>>
                     /\ Head(rsp[p]).old = FALSE
                  \/ \E b \in Stored :
                        /\ rsp[p] = <<Ack(TRUE), Signatures(b)>>
                        /\ Tail(rsp[p]) = <<Signatures(b)>> /\ Head(rsp[p]).old = TRUE
           /\ Answered(p, "Signatures") =>
                  \E b \in Stored : /\ rsp[p] = <<Signatures(b)>>
                                    /\ Tail(rsp[p]) = <<>> /\ Head(rsp[p]).base = b
           /\ Answered(p, "VerifyResult") =>
                  rsp[p] = <<VerifyResult, Finished>> /\ Tail(rsp[p]) = <<Finished>>
           /\ ~Answered(p, "VerifyResult") =>
                  \/ rsp[p] = <<Finished>>
                  \/ ~Told(p) /\ Tail(rsp[p]) = <<>>
                  \/ ~Told(p) /\ \E b \in Stored : Tail(rsp[p]) = <<Signatures(b)>>
<1>1. CASE rsp[p] = <<Ack(FALSE)>>
  BY <1>1 DEF Answered, Ack, Told, VerifyResult, Finished
<1>2. ASSUME rsp[p] = <<VerifyResult, Finished>>
      PROVE  Head(rsp[p]).type = "VerifyResult" /\ Tail(rsp[p]) = <<Finished>>
  BY <1>2 DEF VerifyResult
<1>3. ASSUME rsp[p] = <<Finished>> PROVE Head(rsp[p]).type = "Finished"
  BY <1>3 DEF Finished
<1>4. ASSUME NEW b \in Stored, rsp[p] = <<Ack(TRUE), Signatures(b)>>
      PROVE  /\ Answered(p, "HandshakeAck") /\ Head(rsp[p]).old = TRUE
             /\ Tail(rsp[p]) = <<Signatures(b)>> /\ Head(rsp[p]).type = "HandshakeAck"
             /\ ~Told(p)
  BY <1>4 DEF Answered, Ack, Told, VerifyResult, Finished
<1>5. ASSUME NEW b \in Stored, rsp[p] = <<Signatures(b)>>
      PROVE  /\ Answered(p, "Signatures") /\ Head(rsp[p]).base = b
             /\ Tail(rsp[p]) = <<>> /\ Head(rsp[p]).type = "Signatures" /\ ~Told(p)
  BY <1>5 DEF Answered, Signatures, Told, VerifyResult, Finished
<1> QED BY <1>1, <1>2, <1>3, <1>4, <1>5 DEF Replies, Answered

(* Answers that tell a task the end are none of the others.                 *)
LEMMA ToldApart ==
    /\ <<>> \notin {<<VerifyResult, Finished>>, <<Finished>>}
    /\ <<VerifyResult, Finished>> # <<Finished>>
    /\ <<Ack(FALSE)>> \notin {<<VerifyResult, Finished>>, <<Finished>>, <<>>}
    /\ \A b : /\ <<Signatures(b)>> \notin {<<VerifyResult, Finished>>, <<Finished>>, <<>>}
              /\ <<Ack(TRUE), Signatures(b)>>
                    \notin {<<VerifyResult, Finished>>, <<Finished>>, <<>>}
BY DEF Ack, Signatures, VerifyResult, Finished

(* Answers before the end differ.                                           *)
LEMMA AnswersApart ==
    \A b, c : /\ <<Ack(FALSE)>> # <<Signatures(b)>>
              /\ <<Ack(FALSE)>> # <<Ack(TRUE), Signatures(b)>>
              /\ <<Ack(TRUE), Signatures(c)>> # <<Signatures(b)>>
              /\ <<Signatures(b)>> # <<>>
              /\ <<Signatures(b)>> = <<Signatures(c)>> => b = c
              /\ <<Ack(TRUE), Signatures(b)>> = <<Ack(TRUE), Signatures(c)>> => b = c
<1>1. \A b, c : Signatures(b) # Ack(c) /\ (Signatures(b) = Signatures(c) => b = c)
  BY DEF Ack, Signatures
<1>2. Ack(TRUE) # Ack(FALSE)
  BY DEF Ack
<1> QED BY <1>1, <1>2

(* What is sent was in the manifest, and the plan says so.                  *)
LEMMA Announced ==
    ASSUME TypeInv, DirInv, NEW p \in Sends(plan)
    PROVE  /\ p \in Paths /\ manifest[p] # Absent /\ manifest[p] \in Contents
           /\ Length[manifest[p]] \in Nat /\ PlanFits /\ plan[p] # "Delete"
           /\ AllSmall(manifest) => Length[manifest[p]] < Small
           /\ AllLarge(manifest) => ~(Length[manifest[p]] < Small)
<1>1. p \in Paths /\ plan[p] \in {"SendFull", "SendDelta"}
  BY DEF Sends
<1>2. PlanFits
  BY <1>1 DEF DirInv, Course
<1>3. manifest[p] # Absent
  BY <1>1, <1>2 DEF PlanFits, Decide
<1> QED
  BY <1>1, <1>2, <1>3, LengthAssumption DEF TypeInv, TypeOK, AllSmall, AllLarge

(* Only the task that is served, of a large file, has answers before the    *)
(* end to read.                                                             *)
LEMMA InTalk ==
    ASSUME TypeInv, DirInv, NEW p \in Paths, Alive, rsp[p] # <<>>, ~Told(p)
    PROVE  Serving(p) /\ p \in Sends(plan) /\ Talk(p) /\ ~AllSmall(manifest) /\ ~Open(p)
<1>1. Started(p) /\ Committed(p) /\ Streams
  BY DEF DirInv
<1>2. Serving(p) /\ ~Open(p) /\ task[p] # "none"
  BY <1>1 DEF Committed, Started
<1>3. Serving(p) /\ p \in Sends(plan) /\ ~Open(p)
  BY <1>1, <1>2 DEF Started
<1>4. ~AllSmall(manifest)
  BY <1>1, <1>3 DEF Streams, Paired, Serving
<1>5. AllLarge(manifest)
  BY <1>4 DEF DirInv, Course
<1> QED BY <1>3, <1>4, <1>5 DEF DirInv, Streams, OneByOne, Serving

(* The task of p reads an answer, of which `rest` is left, and goes to `at`;*)
(* the data it sends is left open.                                          *)
Reads(p, at, rest) ==
    /\ task[p] \in {"ack", "signatures", "verify"} /\ rsp[p] # <<>>
    /\ UNCHANGED <<enc, local, manifest, queue, cpc, bis, req, server>>
    /\ task' = [task EXCEPT ![p] = at] /\ rsp' = [rsp EXCEPT ![p] = rest]
    /\ \/ /\ ~Told(p) /\ at \in {"signatures", "verify", "failed"}
          /\ rest = <<>> \/ \E b \in Stored : rest = <<Signatures(b)>>
       \/ /\ rsp[p] = <<VerifyResult, Finished>>
          /\ at = "ok" /\ rest = <<Finished>>

(* Such a step keeps all of the invariant but what it says of the data.     *)
LEMMA ReadsKeep ==
    ASSUME Uniform, TypeInv, DirInv, NEW p \in Paths, NEW at, NEW rest,
           Reads(p, at, rest)
    PROVE  /\ Course' /\ Counted'
           /\ \A q \in Paths : (Started(q) /\ Replies(q) /\ Committed(q))'
<1>1. /\ task'[p] = at /\ rsp'[p] = rest
      /\ \A q \in Paths \ {p} : task'[q] = task[q] /\ rsp'[q] = rsp[q]
      /\ bis' = bis /\ queue' = queue /\ plan' = plan /\ cpc' = cpc /\ spc' = spc
      /\ cur' = cur /\ store' = store /\ before' = before /\ req' = req /\ todo' = todo
      /\ manifest' = manifest /\ local' = local /\ enc' = enc /\ blind' = blind
  BY DEF TypeInv, TypeOK, server, Reads
<1>2. \A q \in Paths : Told(q)' <=> Told(q)
  BY <1>1, ToldApart DEF Told, Reads
<1>3. task[p] \notin {"none", "ok", "failed"} /\ p \in Sends(plan) /\ ~Open(p)
  BY DEF DirInv, Started, Reads
<1>4. Course'
  <2>1. cpc # "done" /\ cpc \notin {"start", "plan"}
    BY <1>3 DEF DirInv, Course, Running, TaskEnds
  <2> QED BY <1>1, <2>1 DEF DirInv, Course, PlanFits, AllSmall, AllLarge
<1>5. Counted'
  <2>1. Unsettled' = Unsettled
    BY <1>1, <1>2 DEF Unsettled, Sends
  <2> QED BY <1>1, <2>1 DEF DirInv, Counted
<1>6. ASSUME NEW q \in Paths \ {p} PROVE (Started(q) /\ Replies(q) /\ Committed(q))'
  <2>1. q \in Paths /\ task'[q] = task[q] /\ rsp'[q] = rsp[q]
    BY <1>1, <1>6
  <2>2. Started(q)'
    BY <1>1, <2>1 DEF DirInv, Started, Open, Serving, Sends, Request
  <2>3. Replies(q)'
    BY <2>1 DEF DirInv, Replies
  <2>4. Committed(q)'
    BY <1>1, <1>2, <2>1 DEF DirInv, Committed, Open, Serving, Sends, Image, Cut, Alive
  <2> QED BY <2>2, <2>3, <2>4
<1>7. at # "none" /\ at # "verify2" /\ (at = "ok" <=> rest = <<Finished>>)
  BY ToldApart DEF Reads
<1>8. Started(p)'
  BY <1>1, <1>3, <1>7 DEF DirInv, Started, Open, Serving, Sends, Request
<1>9. Replies(p)'
  BY <1>1 DEF Replies, Reads
<1>10. Committed(p)'
  <2>1. /\ Told(p) => at = "ok" /\ store[p] = Image(p)
        /\ store[p] = before[p] \/ store[p] = Image(p)
    BY <1>3, <1>7, ToldApart, Announced DEF DirInv, Committed, Cut, Told, Reads
  <2>2. Alive => /\ p \in Sends(plan) /\ ~Told(p) => store[p] = before[p]
                 /\ ~Told(p) => Serving(p)
    BY InTalk DEF DirInv, Committed, Reads
  <2>3. Told(p) => ~Serving(p)
    BY DEF DirInv, Committed
  <2>4. /\ (Told(p)' <=> Told(p)) /\ (Open(p)' <=> Open(p)) /\ (Serving(p)' <=> Serving(p))
        /\ Sends(plan)' = Sends(plan) /\ Image(p)' = Image(p) /\ (Alive' <=> Alive)
    BY <1>1, <1>2 DEF Open, Serving, Sends, Image, Alive
  <2> QED
    BY <1>1, <1>3, <2>1, <2>2, <2>3, <2>4 DEF Committed
<1> QED BY <1>4, <1>5, <1>6, <1>8, <1>9, <1>10

(* A result, or another message where one is expected.                      *)
LEMMA DirVerify ==
    ASSUME Uniform, TypeInv, DirInv, NEW p \in Paths, TaskVerify(p)
    PROVE  DirInv'
<1>1. /\ task[p] = "verify" /\ rsp[p] # <<>> /\ Replies(p) /\ rsp[p] # <<Finished>>
      /\ task \in [Paths -> TaskEnds \cup TaskWaits] /\ rsp \in [Paths -> Seq(Answers)]
  BY DEF TaskVerify, DirInv, Started, TypeInv, TypeOK
<1>2. PICK at :
         /\ at = IF ~Answered(p, "VerifyResult") THEN "failed" ELSE "ok"
         /\ TaskGoes(p, at, <<>>)
  BY <1>1 DEF TaskVerify
<1>3. /\ UNCHANGED <<enc, local, manifest, queue, cpc, bis, req, server>>
      /\ task' = [task EXCEPT ![p] = at] /\ rsp' = [rsp EXCEPT ![p] = Tail(rsp[p])]
      /\ unis' = unis
  <2>1. unis \in Seq(Data)
    BY DEF TypeInv, TypeOK
  <2> QED BY <1>2, <2>1 DEF TaskGoes
<1>4. \/ /\ ~Told(p) /\ at = "failed"
         /\ Tail(rsp[p]) = <<>> \/ \E b \in Stored : Tail(rsp[p]) = <<Signatures(b)>>
      \/ /\ rsp[p] = <<VerifyResult, Finished>>
         /\ at = "ok" /\ Tail(rsp[p]) = <<Finished>>
  BY <1>1, <1>2, Heads
<1>5. /\ Course' /\ Counted'
      /\ \A q \in Paths : (Started(q) /\ Replies(q) /\ Committed(q))'
  <2>1. Reads(p, at, Tail(rsp[p]))
    BY <1>1, <1>3, <1>4 DEF Reads
  <2> QED BY <2>1, ReadsKeep
<1>6. Streams'
  <2>1. spc' = spc /\ cur' = cur /\ bis' = bis /\ manifest' = manifest /\ store' = store
        /\ plan' = plan
    BY <1>3 DEF server
  <2> SUFFICES ASSUME Alive PROVE Streams'
    BY <2>1 DEF Streams, Alive
  <2>2. CASE Told(p)
    <3>1. ~Serving(p)
      BY <2>2 DEF DirInv, Committed
    <3>2. spc = "data" => rsp'[cur] = rsp[cur] /\ task'[cur] = task[cur]
      BY <1>1, <1>3, <3>1 DEF Serving, TypeInv, TypeOK, Turns
    <3> QED
      BY <1>3, <2>1, <3>2
         DEF DirInv, Streams, Alive, Paired, Ahead, Zipped, OneByOne, Talk, Acked, Patch,
             CutShort, AllSmall, AllLarge
  <2>3. CASE ~Told(p)
    <3>1. Serving(p) /\ Talk(p) /\ ~AllSmall(manifest)
      BY <1>1, <2>3, InTalk
    <3>2. /\ rsp[p] = <<Signatures(store[p])>> /\ store[p] # Absent
          /\ unis \in {<<Plain(manifest[p])>>, <<CutShort(p)>>}
      BY <1>1, <3>1 DEF Talk
    <3>3. rsp'[p] = <<>> /\ task'[p] = "failed"
      BY <1>1, <1>3, <1>4, <2>3, <3>2
    <3>4. Talk(p)'
      BY <1>3, <2>1, <3>2, <3>3 DEF Talk, CutShort
    <3> QED
      BY <2>1, <3>1, <3>4 DEF Streams, OneByOne, AllSmall, Serving
  <2> QED BY <2>2, <2>3
<1> QED BY <1>5, <1>6 DEF DirInv

(* Signatures: a patch on top of the file they are of.                      *)
LEMMA DirSignatures ==
    ASSUME Uniform, TypeInv, DirInv, NEW p \in Paths, TaskSignatures(p)
    PROVE  DirInv'
<1>1. /\ task[p] = "signatures" /\ rsp[p] # <<>> /\ Replies(p)
      /\ task \in [Paths -> TaskEnds \cup TaskWaits] /\ rsp \in [Paths -> Seq(Answers)]
      /\ unis \in Seq(Data) /\ cpc # "start" /\ local[p] \in {manifest[p], Absent}
  BY DEF TaskSignatures, Answered, DirInv, Course, Started, TypeInv, TypeOK
<1>2. PICK b \in Stored :
         /\ rsp[p] = <<Signatures(b)>> /\ Tail(rsp[p]) = <<>> /\ Head(rsp[p]).base = b
  BY <1>1, Heads DEF TaskSignatures
<1>3. ~Told(p)
  BY <1>2, ToldApart DEF Told
<1>4. PICK at, d :
         /\ \/ at = "failed" /\ d = <<>>
            \/ /\ at = "verify"
               /\ d = <<[form |-> "patch", of |-> manifest[p], base |-> b]>>
         /\ TaskGoes(p, at, d)
  BY <1>1, <1>2 DEF TaskSignatures
<1>5. task' = [task EXCEPT ![p] = at] /\ rsp' = [rsp EXCEPT ![p] = <<>>]
  BY <1>2, <1>4 DEF TaskGoes
<1>6. /\ UNCHANGED <<enc, local, manifest, queue, cpc, bis, req, server>>
      /\ unis' = unis \o d
  BY <1>4 DEF TaskGoes
<1>7. Reads(p, at, <<>>)
  BY <1>1, <1>3, <1>4, <1>5, <1>6 DEF Reads
<1>8. /\ Course' /\ Counted'
      /\ \A q \in Paths : (Started(q) /\ Replies(q) /\ Committed(q))'
  BY <1>7, ReadsKeep
<1>9. Streams'
  <2>1. spc' = spc /\ cur' = cur /\ bis' = bis /\ manifest' = manifest /\ store' = store
        /\ plan' = plan
    BY <1>6 DEF server
  <2> SUFFICES ASSUME Alive PROVE Streams'
    BY <2>1 DEF Streams, Alive
  <2>2. Serving(p) /\ Talk(p) /\ ~AllSmall(manifest)
    BY <1>1, <1>3, InTalk
  <2>3. unis = <<>> /\ store[p] # Absent /\ b = store[p]
    <3>1. /\ rsp[p] # Acked(p) /\ rsp[p] # <<>>
      BY <1>2, AnswersApart DEF Acked
    <3> QED BY <1>1, <1>2, <2>2, <3>1, AnswersApart DEF Talk
  <2>4. rsp'[p] = <<>> /\ task'[p] = at /\ unis' = d
    BY <1>1, <1>4, <1>5, <1>6, <2>3
  <2>5. Talk(p)'
    BY <1>4, <1>6, <2>1, <2>3, <2>4 DEF Talk, Patch
  <2> QED
    BY <2>1, <2>2, <2>5 DEF Streams, OneByOne, AllSmall, Serving
<1> QED BY <1>8, <1>9 DEF DirInv

(* A task that reads its acknowledgement goes on, or is cut short.          *)
LEMMA DirAck ==
    ASSUME Uniform, TypeInv, DirInv, NEW p \in Paths, TaskAck(p) \/ TaskCut(p)
    PROVE  DirInv'
<1>1. /\ task[p] = "ack" /\ rsp[p] # <<>> /\ Replies(p) /\ Answered(p, "HandshakeAck")
      /\ task \in [Paths -> TaskEnds \cup TaskWaits] /\ rsp \in [Paths -> Seq(Answers)]
      /\ unis \in Seq(Data) /\ local[p] \in {manifest[p], Absent} /\ enc = FALSE
  BY DEF TaskAck, TaskCut, Answered, DirInv, Course, Started, TypeInv, TypeOK
<1>2. PICK rest : rest = Tail(rsp[p])
  OBVIOUS
<1>3. /\ ~Told(p)
      /\ \/ rsp[p] = <<Ack(FALSE)>> /\ rest = <<>> /\ Head(rsp[p]).old = FALSE
         \/ \E b \in Stored :
               /\ rsp[p] = <<Ack(TRUE), Signatures(b)>> /\ rest = <<Signatures(b)>>
               /\ Head(rsp[p]).old = TRUE
  BY <1>1, <1>2, Heads, ToldApart DEF Told
<1>4. PICK at, d :
         /\ \/ at = "failed" /\ d = <<>>
            \/ at = "failed" /\ d = <<CutShort(p)>> /\ UploadsAll(p)
            \/ at = "verify" /\ d = <<Plain(manifest[p])>> /\ UploadsAll(p)
            \/ at = "signatures" /\ d = <<>> /\ ~UploadsAll(p)
         /\ unis' = unis \o d
         /\ task' = [task EXCEPT ![p] = at] /\ rsp' = [rsp EXCEPT ![p] = rest]
         /\ UNCHANGED <<enc, local, manifest, queue, cpc, bis, req, server>>
  <2>1. CASE TaskAck(p)
    BY <1>1, <1>2, <2>1 DEF TaskAck, TaskGoes
  <2>2. CASE TaskCut(p)
    <3>1. CutShort(p) \in Data /\ unis' = Append(unis, CutShort(p))
      BY <1>1, <2>2 DEF TaskCut, CutShort, Data, TypeInv, TypeOK
    <3>2. unis' = unis \o <<CutShort(p)>>
      BY <1>1, <3>1, AppendIsConcat
    <3> QED BY <1>1, <1>2, <2>2, <3>2 DEF TaskCut
  <2> QED BY <2>1, <2>2
<1>5. Reads(p, at, rest)
  BY <1>1, <1>3, <1>4 DEF Reads
<1>6. /\ Course' /\ Counted'
      /\ \A q \in Paths : (Started(q) /\ Replies(q) /\ Committed(q))'
  BY <1>5, ReadsKeep
<1>7. Streams'
  <2>1. spc' = spc /\ cur' = cur /\ bis' = bis /\ manifest' = manifest /\ store' = store
        /\ plan' = plan
    BY <1>4 DEF server
  <2> SUFFICES ASSUME Alive PROVE Streams'
    BY <2>1 DEF Streams, Alive
  <2>2. Serving(p) /\ Talk(p) /\ ~AllSmall(manifest)
    BY <1>1, <1>3, InTalk
  <2>3. unis = <<>> /\ rsp[p] = Acked(p)
    <3>1. rsp[p] # <<Signatures(store[p])>>
      BY <1>3, AnswersApart
    <3> QED BY <1>1, <2>2, <3>1 DEF Talk
  <2>4. unis' = d /\ task'[p] = at /\ rsp'[p] = rest
    BY <1>1, <1>4, <2>3
  <2>5. /\ store[p] = Absent => rest = <<>> /\ UploadsAll(p)
        /\ store[p] # Absent => /\ rest = <<Signatures(store[p])>>
                                /\ UploadsAll(p) => plan[p] # "SendDelta"
    BY <1>1, <1>3, <2>3, AnswersApart DEF Acked, UploadsAll
  <2>6. Talk(p)'
    BY <1>4, <2>1, <2>4, <2>5 DEF Talk, CutShort, Plain
  <2> QED
    BY <2>1, <2>2, <2>6 DEF Streams, OneByOne, AllSmall, Serving
<1> QED BY <1>6, <1>7 DEF DirInv

(* Tasks of F fail.                                                         *)
Failing(F) ==
    /\ task' = [q \in Paths |-> IF q \in F THEN "failed" ELSE task[q]]
    /\ queue' \subseteq queue /\ cpc # "start" /\ cpc' \in {cpc, "failed"}
    /\ UNCHANGED <<enc, local, manifest, net, server>>

(* That tasks fail keeps the invariant.                                     *)
LEMMA FailingKeeps ==
    ASSUME Uniform, TypeInv, DirInv, NEW F \in SUBSET Running, Failing(F)
    PROVE  DirInv'
<1>1. /\ \A q \in Paths : \/ task'[q] = task[q]
                          \/ task'[q] = "failed" /\ task[q] \notin TaskEnds /\ q \in F
      /\ bis' = bis /\ queue' \subseteq queue /\ cpc' \in {cpc, "failed"}
      /\ rsp' = rsp /\ unis' = unis /\ plan' = plan /\ spc' = spc
      /\ cur' = cur /\ store' = store /\ before' = before /\ req' = req /\ todo' = todo
      /\ manifest' = manifest /\ local' = local /\ enc' = enc /\ blind' = blind
      /\ Running' \subseteq Running
  BY DEF Failing, server, net, Running
<1>2. Course'
  BY <1>1 DEF DirInv, Course, PlanFits, AllSmall, AllLarge, TaskEnds
<1>3. Streams'
  <2>1. spc = "data" => cur \in Paths
    BY DEF TypeInv, Turns
  <2>2. spc = "data" /\ Talk(cur) => Talk(cur)'
    BY <1>1, <2>1 DEF Talk, Acked, Patch, CutShort, TaskEnds
  <2>3. Paired => Paired'
    BY <1>1, <2>1 DEF Paired, Ahead, Zipped
  <2> QED
    BY <1>1, <2>2, <2>3 DEF DirInv, Streams, Alive, OneByOne, AllSmall, AllLarge
<1>4. Counted'
  BY <1>1 DEF DirInv, Counted, Unsettled, Told, Sends
<1>5. ASSUME NEW q \in Paths PROVE (Started(q) /\ Replies(q) /\ Committed(q))'
  <2>1. /\ task'[q] \in {task[q], "failed"}
        /\ task'[q] # task[q] => task[q] \notin TaskEnds
        /\ task'[q] = "none" <=> task[q] = "none"
        /\ task'[q] = "ok" <=> task[q] = "ok"
    BY <1>1 DEF TaskEnds
  <2>2. Replies(q)'
    BY <1>1 DEF DirInv, Replies
  <2>3. Started(q)'
    <3>1. /\ Open(q)' <=> Open(q)
          /\ Serving(q)' <=> Serving(q)
          /\ Sends(plan)' = Sends(plan) /\ Request(q)' = Request(q)
      BY <1>1 DEF Open, Serving, Sends, Request
    <3>2. Started(q) /\ cpc # "start"
      BY DEF DirInv, Failing
    <3> QED BY <1>1, <2>1, <3>1, <3>2 DEF Started
  <2>4. Committed(q)'
    BY <1>1, <2>1 DEF DirInv, Committed, Told, Open, Serving, Sends, Image, Cut, Alive
  <2> QED BY <2>2, <2>3, <2>4
<1> QED BY <1>2, <1>3, <1>4, <1>5 DEF DirInv

(* A client that is killed and a task that loses the connection.            *)
LEMMA DirFailures ==
    ASSUME Uniform, TypeInv, DirInv, ClDie \/ \E p \in Paths : TaskLost(p)
    PROVE  DirInv'
<1>1. CASE ClDie
  <2>1. Failing(Running)
    BY <1>1 DEF ClDie, Failing
  <2> QED BY <2>1, FailingKeeps
<1>2. ASSUME NEW p \in Paths, TaskLost(p) PROVE DirInv'
  <2>1. Failing({p}) /\ {p} \in SUBSET Running
    BY <1>2 DEF TaskLost, Failing, TypeInv, TypeOK, DirInv, Course, Running, TaskEnds
  <2> QED BY <2>1, FailingKeeps
<1> QED BY <1>1, <1>2

(* The other steps of handle_sync_dir.                                      *)
LEMMA DirClient ==
    ASSUME Uniform, TypeInv, DirInv, ClManifest \/ ClPlan \/ ClClose \/ ClLost
    PROVE  DirInv'
<1>1. /\ bis' = bis /\ rsp' = rsp /\ unis' = unis /\ plan' = plan /\ spc' = spc
      /\ cur' = cur /\ store' = store /\ before' = before /\ req' = req /\ todo' = todo
      /\ local' = local /\ enc' = enc /\ blind' = blind /\ task' = task
      /\ \/ manifest' = manifest
         \/ /\ cpc = "start" /\ manifest' = local /\ unis = <<>> /\ bis = <<>>
            /\ spc \in {"manifest", "failed"}
            /\ \A q \in Paths : task[q] = "none" /\ plan[q] = "None"
  BY DEF ClManifest, ClPlan, ClClose, ClLost, net, server, DirInv, Course, TypeInv, Turns
<1>2. Course'
  BY <1>1 DEF ClManifest, ClPlan, ClClose, ClLost, DirInv, Course, PlanFits, AllSmall,
     AllLarge, Running, TypeInv, Turns
<1>3. Streams'
  <2>1. CASE manifest' = manifest
    BY <1>1, <2>1 DEF DirInv, Streams, Alive, Paired, Ahead, Zipped, OneByOne, Talk,
       Acked, Patch, CutShort, AllSmall, AllLarge
  <2>2. CASE manifest' # manifest
    BY <1>1, <2>2 DEF Streams, Paired, Ahead, OneByOne
  <2> QED BY <2>1, <2>2
<1>4. Counted'
  BY <1>1 DEF DirInv, Counted, Unsettled, Told, Sends
<1>5. ASSUME NEW q \in Paths PROVE (Started(q) /\ Replies(q) /\ Committed(q))'
  <2>1. Replies(q)'
    BY <1>1 DEF DirInv, Replies
  <2>2. Started(q)'
    BY <1>1 DEF ClManifest, ClPlan, ClClose, ClLost, DirInv, Course, Started, Open,
       Serving, Sends, Request
  <2>3. Committed(q)'
    <3>1. CASE manifest' = manifest
      BY <1>1, <3>1 DEF DirInv, Committed, Told, Open, Serving, Sends, Image, Cut, Alive
    <3>2. CASE manifest' # manifest
      <4>1. q \notin Sends(plan) /\ task[q] = "none" /\ rsp[q] = <<>>
        BY <1>1, <3>2 DEF DirInv, Started, Sends
      <4> QED
        BY <1>1, <4>1, ToldApart
           DEF DirInv, Committed, Told, Open, Serving, Sends, Alive
    <3> QED BY <3>1, <3>2
  <2> QED BY <2>1, <2>2, <2>3
<1> QED BY <1>2, <1>3, <1>4, <1>5 DEF DirInv

(* A file of the user goes away.                                            *)
LEMMA DirVanish ==
    ASSUME Uniform, TypeInv, DirInv, NEW p \in Paths, Vanish(p)
    PROVE  DirInv'
<1>1. /\ bis' = bis /\ rsp' = rsp /\ unis' = unis /\ plan' = plan /\ spc' = spc
      /\ cur' = cur /\ store' = store /\ before' = before /\ req' = req /\ todo' = todo
      /\ manifest' = manifest /\ enc' = enc /\ blind' = blind /\ task' = task
      /\ cpc' = cpc /\ queue' = queue
      /\ \A q \in Paths : local'[q] \in {local[q], Absent}
  BY DEF Vanish, net, server, TypeInv, TypeOK
<1>2. Course'
  BY <1>1 DEF DirInv, Course, PlanFits, AllSmall, AllLarge, Running
<1>3. Streams'
  BY <1>1 DEF DirInv, Streams, Alive, Paired, Ahead, Zipped, OneByOne, Talk,
     Acked, Patch, CutShort, AllSmall, AllLarge
<1>4. Counted'
  BY <1>1 DEF DirInv, Counted, Unsettled, Told, Sends
<1>5. ASSUME NEW q \in Paths PROVE (Started(q) /\ Replies(q) /\ Committed(q))'
  <2>1. Replies(q)'
    BY <1>1 DEF DirInv, Replies
  <2>2. Started(q)'
    BY <1>1 DEF DirInv, Started, Open, Serving, Sends, Request
  <2>3. Committed(q)'
    BY <1>1 DEF DirInv, Committed, Told, Open, Serving, Sends, Image, Cut, Alive
  <2> QED BY <2>1, <2>2, <2>3
<1> QED BY <1>2, <1>3, <1>4, <1>5 DEF DirInv

(* A task starts: a small file brings its request and its data at once.     *)
LEMMA DirStart ==
    ASSUME Uniform, TypeInv, DirInv, NEW p \in Paths, TaskStart(p)
    PROVE  DirInv'
<1>1. /\ p \in queue /\ cpc = "tasks" /\ cpc' = "tasks" /\ queue' = queue \ {p}
      /\ rsp' = rsp /\ plan' = plan /\ spc' = spc /\ enc = FALSE
      /\ cur' = cur /\ store' = store /\ before' = before /\ todo' = todo
      /\ manifest' = manifest /\ local' = local /\ enc' = enc /\ blind' = blind
  BY DEF TaskStart, MayStart, server, DirInv, Course
<1>2. /\ Started(p) /\ p \in Sends(plan) /\ task[p] = "none" /\ rsp[p] = <<>>
      /\ ~Open(p) /\ ~Serving(p) /\ ~Told(p) /\ local[p] \in {manifest[p], Absent}
  BY <1>1, ToldApart DEF DirInv, Started, Told
<1>3. /\ bis \in Seq(Paths) /\ unis \in Seq(Data) /\ req \in [Paths -> Requests]
      /\ task \in [Paths -> TaskEnds \cup TaskWaits] /\ Len(bis) \in Nat
      /\ manifest[p] \in Contents /\ Length[manifest[p]] \in Nat
  BY <1>2, Announced DEF TypeInv, TypeOK
<1>4. PICK at :
         /\ task' = [task EXCEPT ![p] = at]
         /\ \/ at = "failed" /\ UNCHANGED <<bis, req, unis>>
            \/ /\ at = IF Length[manifest[p]] < Small THEN "verify" ELSE "ack"
               /\ bis' = Append(bis, p) /\ req' = [req EXCEPT ![p] = Request(p)]
               /\ unis' = IF Length[manifest[p]] < Small
                          THEN Append(unis, Zipped(p)) ELSE unis
  <2>1. CASE local[p] = Absent
    BY <2>1 DEF TaskStart
  <2>2. CASE local[p] # Absent
    BY <1>1, <1>2, <2>2 DEF TaskStart, Request, Zipped
  <2> QED BY <2>1, <2>2
<1>5. /\ task'[p] = at /\ at \in {"failed", "verify", "ack"}
      /\ at \in {IF Length[manifest[p]] < Small THEN "verify" ELSE "ack", "failed"}
      /\ \A q \in Paths \ {p} : task'[q] = task[q] /\ req'[q] = req[q]
      /\ at # "failed" => req'[p] = Request(p)
  BY <1>3, <1>4
<1>6. \A q \in Paths : Open(q)' <=> Open(q) \/ (q = p /\ at # "failed")
  <2>1. CASE at = "failed"
    BY <1>4, <2>1 DEF Open
  <2>2. CASE at # "failed"
    <3>1. /\ bis' = Append(bis, p) /\ DOMAIN bis = 1..Len(bis)
          /\ DOMAIN bis' = 1..(Len(bis) + 1) /\ bis'[Len(bis) + 1] = p
          /\ \A k \in DOMAIN bis : bis'[k] = bis[k]
      <4>1. bis' = Append(bis, p)
        BY <1>4, <2>2
      <4> QED BY <1>3, <4>1, AppendFacts
    <3>2. DOMAIN bis' = DOMAIN bis \cup {Len(bis) + 1}
      BY <1>3, <3>1
    <3> QED BY <2>2, <3>1, <3>2 DEF Open
  <2> QED BY <2>1, <2>2
<1>7. Course'
  <2>1. \A k, l \in DOMAIN bis' : bis'[k] = bis'[l] => k = l
    <3>1. CASE at = "failed"
      BY <1>4, <3>1 DEF DirInv, Course
    <3>2. CASE at # "failed"
      <4>1. /\ bis' = Append(bis, p) /\ DOMAIN bis = 1..Len(bis)
            /\ DOMAIN bis' = 1..(Len(bis) + 1) /\ bis'[Len(bis) + 1] = p
            /\ \A k \in DOMAIN bis : bis'[k] = bis[k]
        <5>1. bis' = Append(bis, p)
          BY <1>4, <3>2
        <5> QED BY <1>3, <5>1, AppendFacts
      <4>2. DOMAIN bis' = DOMAIN bis \cup {Len(bis) + 1}
        BY <1>3, <4>1
      <4>3. \A k \in DOMAIN bis : bis[k] # p
        BY <1>2 DEF Open
      <4> QED BY <4>1, <4>2, <4>3 DEF DirInv, Course
    <3> QED BY <3>1, <3>2
  <2> QED BY <1>1, <2>1 DEF DirInv, Course, PlanFits, AllSmall, AllLarge
<1>8. Counted'
  BY <1>1 DEF DirInv, Counted, Unsettled, Told, Sends
<1>9. Streams'
  <2> SUFFICES ASSUME Alive PROVE Streams'
    BY <1>1 DEF Streams, Alive
  <2>1. ASSUME AllSmall(manifest) PROVE Paired'
    <3>1. Paired /\ Length[manifest[p]] < Small
      BY <1>2, <2>1, Announced DEF DirInv, Streams
    <3>2. spc = "data" => cur \in Paths \ {p} /\ task'[cur] = task[cur]
      BY <1>2, <1>5 DEF Serving, TypeInv, Turns
    <3>3. CASE at = "failed"
      BY <1>1, <1>4, <3>1, <3>3, <3>2 DEF Paired, Ahead, Zipped
    <3>4. CASE at # "failed"
      <4>1. Zipped(p) \in Data /\ bis' = Append(bis, p) /\ unis' = Append(unis, Zipped(p))
        BY <1>3, <1>4, <3>1, <3>4 DEF Zipped, Data
      <4>2. /\ DOMAIN bis = 1..Len(bis) /\ DOMAIN bis' = 1..(Len(bis) + 1)
            /\ bis'[Len(bis) + 1] = p /\ \A k \in DOMAIN bis : bis'[k] = bis[k]
            /\ Len(bis') = Len(bis) + 1
        BY <1>3, <4>1, AppendFacts
      <4>3. /\ DOMAIN unis = 1..Len(unis) /\ unis'[Len(unis) + 1] = Zipped(p)
            /\ \A k \in DOMAIN unis : unis'[k] = unis[k]
            /\ Len(unis') = Len(unis) + 1
        BY <1>3, <4>1, AppendFacts
      <4>4. Len(unis) = Len(bis) + Ahead /\ Ahead \in {0, 1} /\ Ahead' = Ahead
            /\ (spc = "data" => Ahead = 1)
        BY <1>1, <3>1 DEF Paired, Ahead
      <4>5. \A k \in DOMAIN bis' : unis'[k + Ahead] = Zipped(bis'[k])
        <5>1. ASSUME NEW k \in DOMAIN bis PROVE unis'[k + Ahead] = Zipped(bis'[k])
          <6>1. k + Ahead \in DOMAIN unis
            BY <1>3, <4>2, <4>3, <4>4
          <6> QED BY <3>1, <4>2, <4>3, <6>1 DEF Paired
        <5>2. DOMAIN bis' = DOMAIN bis \cup {Len(bis) + 1}
          BY <1>3, <4>2
        <5>3. unis'[(Len(bis) + 1) + Ahead] = Zipped(bis'[Len(bis) + 1])
          <6>1. (Len(bis) + 1) + Ahead = Len(unis) + 1
            BY <1>3, <4>4
          <6> QED BY <4>2, <4>3, <6>1
        <5> QED BY <5>1, <5>2, <5>3
      <4>6. spc = "data" => unis'[1] = unis[1]
        <5>1. spc = "data" => 1 \in DOMAIN unis
          BY <1>3, <4>3, <4>4
        <5> QED BY <4>3, <5>1
      <4>7. Len(unis') = Len(bis') + Ahead
        BY <1>3, <4>2, <4>3, <4>4
      <4>8. \A x : Zipped(x)' = Zipped(x)
        BY <1>1 DEF Zipped
      <4> QED BY <1>1, <3>1, <3>2, <4>4, <4>5, <4>6, <4>7, <4>8 DEF Paired
    <3> QED BY <3>3, <3>4
  <2>2. ASSUME AllLarge(manifest) PROVE OneByOne'
    <3>1. OneByOne /\ unis' = unis
      BY <1>2, <1>4, <2>2, Announced DEF DirInv, Streams
    <3>2. spc = "data" => cur \in Paths \ {p}
      BY <1>2 DEF Serving, TypeInv, Turns
    <3> QED
      BY <1>1, <1>5, <3>1, <3>2 DEF OneByOne, Talk, Acked, Patch, CutShort
  <2> QED BY <1>1, <2>1, <2>2 DEF Streams, AllSmall, AllLarge
<1>10. ASSUME NEW q \in Paths PROVE (Started(q) /\ Replies(q) /\ Committed(q))'
  <2>1. Replies(q)'
    BY <1>1 DEF DirInv, Replies
  <2>2. /\ Serving(q)' <=> Serving(q)
        /\ Sends(plan)' = Sends(plan) /\ Request(q)' = Request(q)
        /\ Told(q)' <=> Told(q)
        /\ Image(q)' = Image(q)
        /\ Alive' <=> Alive
    BY <1>1 DEF Serving, Sends, Request, Told, Image, Alive
  <2>3. CASE q # p
    <3>1. /\ Open(q)' <=> Open(q)
          /\ task'[q] = task[q] /\ req'[q] = req[q] /\ (q \in queue' <=> q \in queue)
      BY <1>1, <1>5, <1>6, <2>3
    <3>2. Started(q)'
      BY <1>1, <2>2, <3>1 DEF DirInv, Started
    <3>3. Committed(q)'
      BY <1>1, <2>2, <3>1 DEF DirInv, Committed, Cut
    <3> QED BY <2>1, <3>2, <3>3
  <2>4. CASE q = p
    <3>1. p \notin queue' /\ task'[p] = at /\ (Open(p)' <=> at # "failed")
      BY <1>1, <1>2, <1>5, <1>6
    <3>2. Started(p)'
      BY <1>1, <1>2, <1>5, <2>2, <2>4, <3>1, ToldApart DEF Started
    <3>3. Committed(p)
      BY DEF DirInv
    <3>4. store[p] = before[p] \/ store[p] = Image(p)
      BY <1>2, <3>3, Announced DEF Committed, Cut
    <3>5. Committed(p)'
      BY <1>1, <1>2, <1>5, <2>2, <2>4, <3>1, <3>3, <3>4 DEF Committed
    <3> QED BY <2>1, <2>4, <3>2, <3>5
  <2> QED BY <2>3, <2>4
<1> QED BY <1>7, <1>8, <1>9, <1>10 DEF DirInv

(* The server makes the plan.                                               *)
LEMMA DirPlan ==
    ASSUME Uniform, TypeInv, DirInv, SrvPlan
    PROVE  DirInv'
<1>1. /\ spc = "manifest" /\ cpc = "plan" /\ store = before /\ spc' \in {"done", "accept"}
      /\ bis = <<>> /\ queue = {} /\ unis = <<>> /\ rsp' = rsp /\ unis' = unis
      /\ bis' = bis /\ queue' = queue /\ task' = task /\ cpc' = cpc /\ local' = local
      /\ manifest' = manifest /\ enc' = enc /\ store' = store /\ before' = before
      /\ req' = req
      /\ \A q \in Paths : task[q] = "none" /\ rsp[q] = <<>>
  BY DEF SrvPlan, client, net, DirInv, Course, Started, TypeInv, Turns
<1>2. Course'
  BY <1>1 DEF SrvPlan, DirInv, Course, PlanFits, AllSmall, AllLarge, Running
<1>3. Streams'
  BY <1>1 DEF Streams, Paired, Ahead, OneByOne
<1>4. Unsettled' = Sends(plan')
  BY <1>1, ToldApart DEF Unsettled, Told, Sends
<1>5. Counted'
  BY <1>1, <1>4 DEF SrvPlan, Counted
<1>6. ASSUME NEW q \in Paths PROVE (Started(q) /\ Replies(q) /\ Committed(q))'
  <2>1. Replies(q)'
    BY <1>1 DEF DirInv, Replies
  <2>2. Started(q)'
    BY <1>1 DEF DirInv, Started, Open, Serving
  <2>3. Committed(q)'
    BY <1>1, ToldApart DEF Committed, Told, Serving
  <2> QED BY <2>1, <2>2, <2>3
<1> QED BY <1>2, <1>3, <1>5, <1>6 DEF DirInv

(* The server accepts the oldest request.                                   *)
LEMMA DirAccept ==
    ASSUME Uniform, TypeInv, DirInv, SrvAccept
    PROVE  DirInv'
<1>1. /\ spc = "accept" /\ bis # <<>> /\ bis' = Tail(bis) /\ bis \in Seq(Paths)
      /\ rsp \in [Paths -> Seq(Answers)] /\ store \in [Paths -> Stored \cup {Absent}]
      /\ unis \in Seq(Data)
      /\ queue' = queue /\ task' = task /\ cpc' = cpc /\ local' = local /\ plan' = plan
      /\ manifest' = manifest /\ enc' = enc /\ store' = store /\ before' = before
      /\ blind' = blind /\ req' = req /\ unis' = unis /\ todo' = todo
  BY DEF SrvAccept, client, TypeInv, TypeOK
<1>2. PICK p \in Paths : p = Head(bis) /\ cur' = p
  BY <1>1 DEF SrvAccept
<1>3. /\ DOMAIN bis = 1..Len(bis) /\ DOMAIN bis' = 1..(Len(bis) - 1) /\ p = bis[1]
      /\ Len(bis') = Len(bis) - 1 /\ Len(bis) \in Nat \ {0}
      /\ \A k \in DOMAIN bis' : bis'[k] = bis[k + 1] /\ k + 1 \in DOMAIN bis
      /\ 1 \in DOMAIN bis
  BY <1>1, <1>2, TailFacts
<1>4. /\ Open(p) /\ ~Open(p)'
      /\ \A q \in Paths \ {p} : Open(q)' <=> Open(q)
  <2>1. Open(p)
    BY <1>3 DEF Open
  <2>2. ASSUME NEW k \in DOMAIN bis' PROVE bis'[k] # p
    <3>1. k + 1 \in DOMAIN bis /\ k + 1 # 1
      BY <1>3
    <3> QED BY <1>3, <3>1 DEF DirInv, Course
  <2>3. ASSUME NEW q \in Paths \ {p}, Open(q) PROVE Open(q)'
    <3>1. PICK k \in DOMAIN bis : bis[k] = q
      BY <2>3 DEF Open
    <3>2. k - 1 \in DOMAIN bis' /\ (k - 1) + 1 = k
      BY <1>3, <2>3, <3>1
    <3>3. bis'[k - 1] = q
      BY <1>3, <3>1, <3>2
    <3> QED BY <3>2, <3>3 DEF Open
  <2>4. ASSUME NEW q \in Paths \ {p}, Open(q)' PROVE Open(q)
    BY <1>3, <2>4 DEF Open
  <2> QED BY <2>1, <2>2, <2>3, <2>4 DEF Open
<1>5. /\ rsp[p] = <<>> /\ task[p] \in {"ack", "verify", "failed"} /\ req[p] = Request(p)
      /\ p \in Sends(plan) /\ ~Told(p)
  BY <1>4, ToldApart DEF DirInv, Started, Told
<1>6. /\ manifest[p] \in Contents /\ Length[manifest[p]] \in Nat
      /\ AllSmall(manifest) => Length[manifest[p]] < Small
      /\ AllLarge(manifest) => ~(Length[manifest[p]] < Small)
  BY <1>5, Announced
<1>7. /\ spc' = "data"
      /\ rsp' = IF Length[manifest[p]] < Small THEN rsp
                ELSE [rsp EXCEPT ![p] = Acked(p)]
  <2>1. /\ req[p].type # "Nothing"
        /\ req[p].type # "Handshake" <=> Length[manifest[p]] < Small
    BY <1>5, <1>6 DEF Request
  <2>2. spc' = "data"
    BY <1>2, <2>1 DEF SrvAccept
  <2>3. rsp' = IF Length[manifest[p]] < Small THEN rsp
               ELSE [rsp EXCEPT ![p] = IF store[p] # Absent
                                       THEN <<Ack(store[p] # Absent), Signatures(store[p])>>
                                       ELSE <<Ack(store[p] # Absent)>>]
    BY <1>2, <2>1 DEF SrvAccept
  <2>4. CASE store[p] = Absent
    <3>1. Ack(store[p] # Absent) = Ack(FALSE)
      BY <2>4
    <3> QED BY <2>2, <2>3, <2>4, <3>1 DEF Acked
  <2>5. CASE store[p] # Absent
    <3>1. Ack(store[p] # Absent) = Ack(TRUE)
      BY <2>5
    <3> QED BY <2>2, <2>3, <2>5, <3>1 DEF Acked
  <2> QED BY <2>4, <2>5
<1>8. /\ \A q \in Paths \ {p} : rsp'[q] = rsp[q]
      /\ rsp'[p] = IF Length[manifest[p]] < Small THEN <<>> ELSE Acked(p)
  BY <1>1, <1>5, <1>7
<1>9. rsp'[p] # <<VerifyResult, Finished>> /\ rsp'[p] # <<Finished>>
  BY <1>8, ToldApart DEF Acked
<1>10. Course'
  <2>1. \A k, l \in DOMAIN bis' : bis'[k] = bis'[l] => k = l
    <3> SUFFICES ASSUME NEW k \in DOMAIN bis', NEW l \in DOMAIN bis', bis'[k] = bis'[l]
                 PROVE  k = l
      OBVIOUS
    <3>1. bis[k + 1] = bis[l + 1] /\ k + 1 \in DOMAIN bis /\ l + 1 \in DOMAIN bis
      BY <1>3
    <3>2. k + 1 = l + 1
      BY <3>1 DEF DirInv, Course
    <3> QED BY <1>3, <3>2
  <2>2. cpc \notin {"start", "plan"}
    BY <1>1 DEF TypeInv, Turns
  <2> QED BY <1>1, <1>7, <2>1, <2>2 DEF DirInv, Course, PlanFits, AllSmall, AllLarge, Running
<1>11. \A q \in Paths : Told(q)' <=> Told(q)
  BY <1>5, <1>8, <1>9 DEF Told
<1>12. Counted'
  <2>1. Unsettled' = Unsettled
    BY <1>1, <1>11 DEF Unsettled, Sends
  <2> QED BY <1>1, <1>7, <2>1 DEF DirInv, Counted
<1>13. Streams'
  <2>1. ASSUME AllSmall(manifest) PROVE Paired'
    <3>1. task'[p] \in {"verify", "failed"}
      BY <1>1, <1>4, <1>6, <2>1 DEF DirInv, Started
    <3>2. Paired /\ Ahead = 0 /\ Ahead' = 1 /\ rsp'[p] = <<>>
      BY <1>1, <1>6, <1>7, <1>8, <2>1 DEF DirInv, Streams, Alive, Ahead
    <3>3. /\ Len(unis) = Len(bis) /\ \A k \in DOMAIN bis : unis[k] = Zipped(bis[k])
      BY <1>3, <3>2 DEF Paired
    <3>4. Len(unis) = Len(bis') + 1
      BY <1>3, <3>3
    <3>5. \A x : Zipped(x)' = Zipped(x)
      BY <1>1 DEF Zipped
    <3>6. \A k \in DOMAIN bis' : unis[k + 1] = Zipped(bis'[k])
      BY <1>3, <3>3
    <3> QED BY <1>1, <1>2, <1>3, <1>7, <3>2, <3>3, <3>4, <3>5,
         <3>6, <3>1 DEF Paired
  <2>2. ASSUME AllLarge(manifest) PROVE OneByOne'
    <3>1. unis = <<>> /\ rsp'[p] = Acked(p) /\ task[p] \in {"ack", "failed"}
      <4>1. task[p] # "verify"
        BY <1>4, <1>6, <2>2 DEF DirInv, Started
      <4> QED BY <1>1, <1>5, <1>6, <1>8, <2>2, <4>1 DEF DirInv, Streams, Alive, OneByOne
    <3>2. Talk(p)'
      BY <1>1, <3>1 DEF Talk, Acked
    <3> QED BY <1>2, <1>7, <3>2 DEF OneByOne
  <2> QED BY <1>1, <2>1, <2>2 DEF Streams, AllSmall, AllLarge
<1>14. ASSUME NEW q \in Paths PROVE (Started(q) /\ Replies(q) /\ Committed(q))'
  <2>1. /\ Serving(q)' <=> q = p
        /\ ~Serving(q)
        /\ Sends(plan)' = Sends(plan) /\ Request(q)' = Request(q)
        /\ Told(q)' <=> Told(q)
        /\ Image(q)' = Image(q)
        /\ Alive' /\ Alive
        /\ store'[q] = store[q] /\ before'[q] = before[q] /\ (Cut(q)' <=> Cut(q))
    BY <1>1, <1>2, <1>7, <1>11 DEF Serving, Sends, Request, Image, Alive, Cut
  <2>2. CASE q # p
    <3>1. rsp'[q] = rsp[q] /\ (Open(q)' <=> Open(q))
      BY <1>4, <1>8, <2>2
    <3>2. Started(q)'
      BY <1>1, <2>1, <2>2, <3>1 DEF DirInv, Started
    <3>3. Replies(q)'
      BY <3>1 DEF DirInv, Replies
    <3>4. Committed(q)'
      BY <1>1, <2>1, <2>2, <3>1 DEF DirInv, Committed
    <3> QED BY <3>2, <3>3, <3>4
  <2>3. CASE q = p
    <3>1. Started(p)'
      BY <1>1, <1>4, <1>5, <1>9, <2>1, <2>3 DEF DirInv, Started
    <3>2. Replies(p)'
      BY <1>1, <1>8 DEF Replies, Acked
    <3>3. Committed(p)'
      BY <1>1, <1>4, <1>5, <2>1, <2>3 DEF DirInv, Committed
    <3> QED BY <2>3, <3>1, <3>2, <3>3
  <2> QED BY <2>2, <2>3
<1> QED BY <1>10, <1>12, <1>13, <1>14 DEF DirInv

(* The data that a server takes makes the file of the path it serves, cut   *)
(* short only if the task has failed, or it is refused.                     *)
LEMMA DataFits ==
    ASSUME Uniform, TypeInv, DirInv, spc = "data", unis # <<>>,
           NEW f \in Received(cur, Head(unis))
    PROVE  /\ cur \in Paths /\ cur \in Sends(plan) /\ ~Told(cur) /\ ~Open(cur)
           /\ Len(unis) \in Nat /\ Len(unis) > 0
           /\ AllLarge(manifest) => Tail(unis) = <<>>
           /\ task[cur] # "none" /\ task[cur] # "ok"
           /\ f # Absent => /\ rsp[cur] = <<>> /\ task[cur] \in {"verify", "failed"}
                            /\ \/ f = Plain(manifest[cur])
                               \/ f = CutShort(cur) /\ task[cur] = "failed"
           /\ f = Absent => \/ store[cur] # Absent /\ plan[cur] # "SendDelta"
                            \/ task[cur] = "failed"
<1>1. /\ cur \in Paths /\ unis \in Seq(Data) /\ Len(unis) \in Nat /\ Len(unis) > 0
      /\ Head(unis) = unis[1] /\ Alive
  BY DEF TypeInv, TypeOK, Turns, Alive
<1>2. /\ Started(cur) /\ Committed(cur) /\ Serving(cur) /\ task[cur] # "none"
      /\ req[cur] = Request(cur) /\ ~Told(cur) /\ ~Open(cur) /\ cur \in Sends(plan)
      /\ task[cur] # "ok" /\ task[cur] # "verify2"
  BY <1>1 DEF DirInv, Serving, Started, Committed, Told
<1>3. /\ manifest[cur] \in Contents /\ Length[manifest[cur]] \in Nat
      /\ manifest[cur] # Absent
  BY <1>2, Announced
<1>4. CASE AllSmall(manifest)
  <2>1. /\ Paired /\ Length[manifest[cur]] < Small /\ ~AllLarge(manifest)
    BY <1>1, <1>2, <1>4, Announced DEF DirInv, Streams
  <2>2. unis[1] = Zipped(cur) /\ rsp[cur] = <<>> /\ task[cur] \in {"verify", "failed"}
    BY <2>1 DEF Paired
  <2>3. req[cur].type = "Compressed" /\ req[cur].size = Length[manifest[cur]]
    BY <1>2, <2>1 DEF Request
  <2>4. Received(cur, Head(unis)) = {Plain(manifest[cur])}
    BY <1>1, <2>2, <2>3 DEF Received, Zipped
  <2>5. Plain(manifest[cur]) # Absent
    BY <1>3, DirectoriesAssumption DEF Plain, Stored
  <2> QED BY <1>1, <1>2, <2>1, <2>2, <2>4, <2>5
<1>5. CASE AllLarge(manifest)
  <2>1. Talk(cur) /\ ~(Length[manifest[cur]] < Small)
    BY <1>1, <1>2, <1>5, Announced DEF DirInv, Streams, OneByOne
  <2>2. req[cur].type = "Handshake"
    BY <1>2, <2>1 DEF Request
  <2>3. PICK d : unis = <<d>> /\ d \in {Plain(manifest[cur]), CutShort(cur), Patch(cur)}
    BY <2>1 DEF Talk
  <2>4. Head(unis) = d /\ Tail(unis) = <<>>
    BY <2>3
  <2>5. /\ d = Plain(manifest[cur]) => d.form = "plain" /\ d.of = manifest[cur]
        /\ d = CutShort(cur) => d.form = "cut" /\ d.of = manifest[cur]
        /\ d = Patch(cur) => /\ d.form = "patch" /\ d.of = manifest[cur]
                             /\ d.base = store[cur]
    BY DEF Plain, CutShort, Patch
  <2>6. Plain(manifest[cur]) # Absent /\ CutShort(cur) # Absent
    BY <1>3, DirectoriesAssumption DEF Plain, CutShort, Stored
  <2>7. CASE store[cur] = Absent
    <3>1. rsp[cur] = <<>> /\ task[cur] \in {"verify", "failed"}
          /\ d \in {Plain(manifest[cur]), CutShort(cur)}
          /\ (d = CutShort(cur) => task[cur] = "failed")
      BY <2>1, <2>3, <2>5, <2>7 DEF Talk
    <3>2. Received(cur, Head(unis)) = {[form |-> d.form, of |-> d.of]}
      BY <2>2, <2>4, <2>7 DEF Received
    <3>3. f = d
      BY <2>5, <3>1, <3>2 DEF Plain, CutShort
    <3> QED BY <1>1, <1>2, <2>4, <2>6, <3>1, <3>3
  <2>8. CASE store[cur] # Absent /\ d = Patch(cur)
    <3>1. rsp[cur] = <<>> /\ task[cur] \in {"verify", "failed"}
      BY <2>1, <2>3, <2>5, <2>8 DEF Talk
    <3>2. Received(cur, Head(unis)) = {Plain(manifest[cur])}
      BY <2>2, <2>4, <2>5, <2>8 DEF Received
    <3> QED BY <1>1, <1>2, <2>4, <2>6, <3>1, <3>2
  <2>9. CASE store[cur] # Absent /\ d # Patch(cur)
    <3>1. d.form # "patch"
      BY <2>3, <2>5, <2>9
    <3>2. Received(cur, Head(unis)) = {Absent}
      BY <2>2, <2>4, <2>9, <3>1 DEF Received
    <3>3. task[cur] = "failed" \/ plan[cur] # "SendDelta"
      BY <2>1, <2>3, <2>9 DEF Talk
    <3> QED BY <1>1, <1>2, <2>4, <2>9, <3>2, <3>3
  <2> QED BY <2>3, <2>7, <2>8, <2>9
<1> QED BY <1>4, <1>5 DEF DirInv, Course

(* The server takes the next data stream.                                   *)
LEMMA DirData ==
    ASSUME Uniform, TypeInv, DirInv, SrvData
    PROVE  DirInv'
<1>1. /\ spc = "data" /\ unis # <<>> /\ unis' = Tail(unis) /\ Alive /\ todo \in Nat
      /\ rsp \in [Paths -> Seq(Answers)] /\ store \in [Paths -> Stored \cup {Absent}]
      /\ unis \in Seq(Data) /\ bis \in Seq(Paths) /\ cur' = cur
      /\ queue' = queue /\ task' = task /\ cpc' = cpc /\ local' = local /\ plan' = plan
      /\ manifest' = manifest /\ enc' = enc /\ before' = before
      /\ blind' = blind /\ req' = req /\ bis' = bis
  <2>1. todo \in Nat
    BY PathsFinite, FS_CardinalityType DEF TypeInv, TypeOK
  <2> QED BY <2>1 DEF SrvData, client, TypeInv, TypeOK, Alive
<1>2. PICK f \in Received(cur, Head(unis)) :
         IF f = Absent
         THEN spc' = "failed" /\ UNCHANGED <<rsp, store, todo>>
         ELSE /\ store' = [store EXCEPT ![cur] = f]
              /\ \/ /\ rsp' = [rsp EXCEPT ![cur] = @ \o <<VerifyResult, Finished>>]
                    /\ NextFile
                 \/ ClientGone /\ spc' = "failed" /\ UNCHANGED <<rsp, todo>>
  BY DEF SrvData
<1>3. /\ cur \in Paths /\ cur \in Sends(plan) /\ ~Told(cur) /\ ~Open(cur)
      /\ Len(unis) \in Nat /\ Len(unis) > 0
      /\ AllLarge(manifest) => Tail(unis) = <<>>
      /\ task[cur] # "none" /\ task[cur] # "ok"
      /\ f # Absent => /\ rsp[cur] = <<>> /\ task[cur] \in {"verify", "failed"}
                       /\ \/ f = Plain(manifest[cur])
                          \/ f = CutShort(cur) /\ task[cur] = "failed"
  BY <1>1, DataFits
<1>4. f # Absent /\ store' = [store EXCEPT ![cur] = f] =>
         (store[cur] = Image(cur) \/ Cut(cur))'
  <2>1. manifest[cur] # Absent /\ enc = FALSE
    BY <1>3, Announced DEF DirInv, Course
  <2>2. f # Absent => f = Plain(manifest[cur]) \/ (f.form = "cut" /\ task[cur] = "failed")
    BY <1>3 DEF CutShort
  <2> QED BY <1>1, <1>3, <2>1, <2>2 DEF Image, Cut, Plain
<1>5. \A q \in Paths \ {cur} : store'[q] = store[q] /\ rsp'[q] = rsp[q]
  BY <1>1, <1>2, <1>3
<1>6. Course'
  <2>1. cpc \notin {"start", "plan"} /\ spc' \in {"failed", "accept", "delete"}
    BY <1>1, <1>2 DEF TypeInv, Turns, NextFile
  <2> QED BY <1>1, <2>1 DEF DirInv, Course, PlanFits, AllSmall, AllLarge, Running
<1>7. ASSUME NEW q \in Paths, q # cur
      PROVE  (Started(q) /\ Replies(q) /\ Committed(q))'
  <2>1. /\ Open(q)' <=> Open(q)
        /\ ~Serving(q)' /\ ~Serving(q)
        /\ Sends(plan)' = Sends(plan) /\ Request(q)' = Request(q)
        /\ Told(q)' <=> Told(q)
        /\ Image(q)' = Image(q)
        /\ Alive
        /\ store'[q] = store[q] /\ rsp'[q] = rsp[q]
    BY <1>1, <1>5, <1>7 DEF Serving, Sends, Request, Image, Open, Told
  <2>2. Started(q)'
    BY <1>1, <2>1 DEF DirInv, Started
  <2>3. Replies(q)'
    BY <2>1 DEF DirInv, Replies
  <2>4. Committed(q)'
    BY <1>1, <2>1 DEF DirInv, Committed, Cut
  <2> QED BY <2>2, <2>3, <2>4
<1>8. /\ Started(cur) /\ Replies(cur) /\ Committed(cur)
      /\ Sends(plan)' = Sends(plan) /\ Request(cur)' = Request(cur)
      /\ ~Open(cur)'
  BY <1>1, <1>3 DEF DirInv, Sends, Request, Open
<1>9. CASE spc' = "failed" /\ rsp' = rsp
  <2>1. Streams' /\ Counted'
    BY <1>9 DEF Streams, Alive, Counted
  <2>2. ~Serving(cur)' /\ (Told(cur)' <=> Told(cur)) /\ ~Alive'
    BY <1>1, <1>9 DEF Serving, Told, Alive
  <2>3. (Started(cur) /\ Replies(cur))'
    BY <1>1, <1>3, <1>8, <1>9, <2>2 DEF Started, Replies
  <2>4. Committed(cur)'
    <3>1. CASE f = Absent
      <4>1. store' = store
        BY <1>2, <3>1
      <4>2. Image(cur)' = Image(cur) /\ (Cut(cur)' <=> Cut(cur))
        BY <1>1, <4>1 DEF Image, Cut
      <4> QED BY <1>1, <1>3, <1>8, <2>2, <4>1, <4>2 DEF Committed
    <3>2. CASE f # Absent
      BY <1>1, <1>2, <1>3, <1>4, <1>8, <2>2, <3>2 DEF Committed
    <3> QED BY <3>1, <3>2
  <2> QED BY <1>1, <1>6, <1>7, <2>1, <2>3, <2>4 DEF DirInv
<1>10. CASE f # Absent /\ rsp' = [rsp EXCEPT ![cur] = @ \o <<VerifyResult, Finished>>] /\ NextFile
  <2>1. rsp'[cur] = <<VerifyResult, Finished>>
    BY <1>1, <1>3, <1>10
  <2>2. spc' \in {"accept", "delete"} /\ ~Serving(cur)' /\ Told(cur)'
    BY <1>1, <1>10, <2>1 DEF NextFile, Serving, Told
  <2>3. Counted'
    <3>1. Unsettled' = Unsettled \ {cur} /\ cur \in Unsettled
      BY <1>1, <1>3, <1>5, <1>8, <2>2 DEF Unsettled, Told, Sends
    <3>2. IsFiniteSet(Unsettled)
      BY SendsFinite, FS_Subset DEF Unsettled
    <3>3. Cardinality(Unsettled') = Cardinality(Unsettled) - 1 /\ Cardinality(Unsettled) \in Nat
      BY <3>1, <3>2, FS_RemoveElement, FS_CardinalityType
    <3>4. todo = Cardinality(Unsettled)
      BY <1>1 DEF DirInv, Counted
    <3>5. todo = 1 => Unsettled' = {}
      <4>1. IsFiniteSet(Unsettled')
        BY <3>1, <3>2, FS_Subset
      <4> QED BY <3>3, <3>4, <4>1, FS_EmptySet
    <3>6. todo' = Cardinality(Unsettled') /\ (spc' = "delete" => Unsettled' = {})
      BY <1>10, <3>3, <3>4, <3>5 DEF NextFile
    <3> QED BY <2>2, <3>6 DEF Counted
  <2>4. Streams'
    <3>1. ASSUME AllSmall(manifest) PROVE Paired'
      <4>1. Paired /\ Ahead = 1 /\ Ahead' = 0
        BY <1>1, <2>2, <3>1 DEF DirInv, Streams, Ahead
      <4>2. /\ DOMAIN unis = 1..Len(unis) /\ DOMAIN unis' = 1..(Len(unis) - 1)
            /\ Len(unis') = Len(unis) - 1
            /\ \A k \in DOMAIN unis' : unis'[k] = unis[k + 1]
            /\ DOMAIN bis = 1..Len(bis) /\ Len(bis) \in Nat
        BY <1>1, TailFacts
      <4>3. Len(unis) = Len(bis) + 1 /\ \A k \in DOMAIN bis : unis[k + 1] = Zipped(bis[k])
        BY <4>1 DEF Paired
      <4>4. Len(unis') = Len(bis) /\ DOMAIN unis' = DOMAIN bis
        BY <4>2, <4>3
      <4>5. \A x : Zipped(x)' = Zipped(x)
        BY <1>1 DEF Zipped
      <4>6. \A k \in DOMAIN bis : unis'[k] = Zipped(bis[k])
        BY <4>2, <4>3, <4>4
      <4>7. \A k \in DOMAIN bis : k + 0 = k
        BY <4>2
      <4>8. \A k \in DOMAIN bis : unis'[k + Ahead'] = Zipped(bis[k])
        BY <4>1, <4>6, <4>7
      <4>9. Len(unis') = Len(bis) + Ahead'
        <5>1. Len(bis) \in Nat /\ Len(unis') = Len(bis)
          BY <4>2, <4>4
        <5>2. Len(bis) + 0 = Len(bis)
          BY <5>1
        <5> QED BY <4>1, <5>1, <5>2
      <4>10. \A k \in DOMAIN bis : Zipped(bis[k])' = Zipped(bis[k])
        BY <1>1 DEF Zipped
      <4> QED BY <1>1, <2>2, <4>8, <4>9, <4>10 DEF Paired
    <3>2. ASSUME AllLarge(manifest) PROVE OneByOne'
      BY <1>1, <1>3, <2>2, <3>2 DEF OneByOne
    <3> QED BY <1>1, <3>1, <3>2 DEF Streams, AllSmall, AllLarge
  <2>5. (Started(cur) /\ Replies(cur))'
    BY <1>1, <1>3, <1>8, <2>1, <2>2, ToldApart DEF Started, Replies
  <2>6. Committed(cur)'
    BY <1>1, <1>2, <1>3, <1>4, <1>8, <1>10, <2>2 DEF Committed
  <2> QED BY <1>1, <1>6, <1>7, <2>3, <2>4, <2>5, <2>6 DEF DirInv
<1> QED BY <1>2, <1>9, <1>10

(* The server deletes a file.                                               *)
LEMMA DirDelete ==
    ASSUME Uniform, TypeInv, DirInv, NEW p \in Paths, SrvDelete(p)
    PROVE  DirInv'
<1>1. /\ spc = "delete" /\ spc' = spc /\ plan[p] = "Delete" /\ store \in [Paths -> Stored \cup {Absent}]
      /\ store' = [store EXCEPT ![p] = Absent] /\ p \notin Sends(plan)
      /\ queue' = queue /\ task' = task /\ cpc' = cpc /\ local' = local /\ plan' = plan
      /\ manifest' = manifest /\ enc' = enc /\ before' = before /\ rsp' = rsp
      /\ blind' = blind /\ req' = req /\ bis' = bis /\ unis' = unis /\ cur' = cur
      /\ todo' = todo
  BY DEF SrvDelete, client, net, TypeInv, TypeOK, Sends
<1>2. store'[p] = Absent /\ \A q \in Paths \ {p} : store'[q] = store[q]
  BY <1>1
<1>3. Course'
  BY <1>1 DEF DirInv, Course, PlanFits, AllSmall, AllLarge, Running
<1>4. Streams'
  BY <1>1 DEF DirInv, Streams, Alive, Paired, Ahead, Zipped, OneByOne, AllSmall, AllLarge
<1>5. Counted'
  BY <1>1 DEF DirInv, Counted, Unsettled, Told, Sends
<1>6. ASSUME NEW q \in Paths PROVE (Started(q) /\ Replies(q) /\ Committed(q))'
  <2>1. Replies(q)'
    BY <1>1 DEF DirInv, Replies
  <2>2. Started(q)'
    BY <1>1 DEF DirInv, Started, Open, Serving, Sends, Request
  <2>3. /\ Told(q)' <=> Told(q)
        /\ Open(q)' <=> Open(q)
        /\ Serving(q)' <=> Serving(q)
        /\ Alive' <=> Alive
        /\ Sends(plan)' = Sends(plan) /\ Image(q)' = Image(q)
    BY <1>1 DEF Told, Open, Serving, Alive, Sends, Image
  <2>4. Committed(q)
    BY DEF DirInv
  <2>5. CASE q = p
    <3>1. ~Told(p) /\ ~Serving(p) /\ store'[p] = Absent /\ plan'[p] = "Delete" /\ task' = task
      BY <1>1, <1>2, <2>4, <2>5 DEF Committed, Serving
    <3> QED BY <1>1, <2>1, <2>2, <2>3, <2>4, <2>5, <3>1 DEF Committed
  <2>6. CASE q # p
    <3>1. store'[q] = store[q] /\ (Cut(q)' <=> Cut(q)) /\ plan' = plan /\ task' = task
          /\ before' = before /\ rsp' = rsp
      BY <1>1, <1>2, <2>6 DEF Cut
    <3> QED BY <2>1, <2>2, <2>3, <2>4, <3>1 DEF Committed
  <2> QED BY <2>5, <2>6
<1> QED BY <1>3, <1>4, <1>5, <1>6 DEF DirInv

(* The server is done, has lost the client, or stops.                       *)
LEMMA DirServerEnds ==
    ASSUME Uniform, TypeInv, DirInv, SrvDone \/ SrvLost \/ IdleTimeout \/ ServerCrash
    PROVE  DirInv'
<1>1. /\ \/ spc' = "failed"
         \/ /\ spc = "delete" /\ spc' = "done"
            /\ \A q \in Paths : plan[q] = "Delete" => store[q] = Absent
      /\ queue' = queue /\ task' = task /\ cpc' = cpc /\ local' = local /\ plan' = plan
      /\ manifest' = manifest /\ enc' = enc /\ before' = before /\ rsp' = rsp
      /\ blind' = blind /\ req' = req /\ bis' = bis /\ unis' = unis /\ cur' = cur
      /\ store' = store
  BY DEF SrvDone, SrvLost, IdleTimeout, ServerCrash, client, net
<1>2. Course'
  BY <1>1 DEF DirInv, Course, PlanFits, AllSmall, AllLarge, Running
<1>3. Streams'
  BY <1>1 DEF DirInv, Streams, Alive, Paired, Ahead, Zipped, OneByOne, AllSmall, AllLarge
<1>4. Counted'
  BY <1>1 DEF DirInv, Counted, Unsettled, Told, Sends
<1>5. ASSUME NEW q \in Paths PROVE (Started(q) /\ Replies(q) /\ Committed(q))'
  <2>1. Replies(q)'
    BY <1>1 DEF DirInv, Replies
  <2>2. /\ Told(q)' <=> Told(q)
        /\ Open(q)' <=> Open(q)
        /\ Serving(q)' => Serving(q)
        /\ Alive' => Alive /\ (Serving(q)' <=> Serving(q))
        /\ Sends(plan)' = Sends(plan) /\ Image(q)' = Image(q) /\ Request(q)' = Request(q)
    BY <1>1 DEF Told, Open, Serving, Alive, Sends, Image, Request
  <2>3. Started(q)'
    BY <1>1, <2>2 DEF DirInv, Started
  <2>4. Committed(q)'
    BY <1>1, <2>2 DEF DirInv, Committed, Cut
  <2> QED BY <2>1, <2>3, <2>4
<1> QED BY <1>2, <1>3, <1>4, <1>5 DEF DirInv

(* The invariant holds at the start, under stuttering, and in every step.   *)
LEMMA DirInit == ASSUME Uniform, Init PROVE DirInv
<1>1. /\ local \in Locals /\ enc = FALSE /\ spc = "manifest" /\ cpc = "start"
      /\ bis = <<>> /\ unis = <<>> /\ queue = {} /\ store = before
      /\ \A p \in Paths : /\ manifest[p] = Absent /\ plan[p] = "None" /\ task[p] = "none"
                          /\ rsp[p] = <<>>
  BY DEF Init, Uniform
<1>2. Course
  BY <1>1 DEF Course, Uniform, AllSmall, AllLarge
<1>3. Streams
  BY <1>1 DEF Streams, Paired, Ahead, OneByOne
<1>4. Counted
  BY <1>1 DEF Counted
<1>5. ASSUME NEW q \in Paths PROVE Started(q) /\ Replies(q) /\ Committed(q)
  <2>1. ~Told(q) /\ ~Open(q) /\ ~Serving(q) /\ q \notin Sends(plan)
    BY <1>1, ToldApart DEF Told, Open, Serving, Sends
  <2>2. rsp[q] # <<Finished>>
    BY <1>1, ToldApart
  <2>3. Started(q)
    BY <1>1, <2>1, <2>2 DEF Started
  <2>4. Replies(q)
    BY <1>1 DEF Replies
  <2>5. Committed(q)
    BY <1>1, <2>1 DEF Committed
  <2> QED BY <2>3, <2>4, <2>5
<1> QED BY <1>2, <1>3, <1>4, <1>5 DEF DirInv

LEMMA DirStutters == ASSUME DirInv, UNCHANGED vars PROVE DirInv'
<1>1. /\ bis' = bis /\ rsp' = rsp /\ unis' = unis /\ plan' = plan /\ spc' = spc
      /\ cur' = cur /\ store' = store /\ before' = before /\ req' = req /\ todo' = todo
      /\ manifest' = manifest /\ enc' = enc /\ blind' = blind /\ task' = task
      /\ cpc' = cpc /\ queue' = queue /\ local' = local
  BY DEF vars, client, net, server
<1>2. Course'
  BY <1>1 DEF DirInv, Course, PlanFits, AllSmall, AllLarge, Running
<1>3. Streams'
  BY <1>1 DEF DirInv, Streams, Alive, Paired, Ahead, Zipped, OneByOne, Talk,
     Acked, Patch, CutShort, AllSmall, AllLarge
<1>4. Counted'
  BY <1>1 DEF DirInv, Counted, Unsettled, Told, Sends
<1>5. ASSUME NEW q \in Paths PROVE (Started(q) /\ Replies(q) /\ Committed(q))'
  <2>1. Replies(q)'
    BY <1>1 DEF DirInv, Replies
  <2>2. Started(q)'
    BY <1>1 DEF DirInv, Started, Open, Serving, Sends, Request
  <2>3. Committed(q)'
    BY <1>1 DEF DirInv, Committed, Told, Open, Serving, Sends, Image, Cut, Alive
  <2> QED BY <2>1, <2>2, <2>3
<1> QED BY <1>2, <1>3, <1>4, <1>5 DEF DirInv

(* Files are neither unsent nor encrypted.                                  *)
LEMMA Plainly ==
    ASSUME Uniform, TypeInv, DirInv
    PROVE  /\ ~SrvBlobOpen /\ ~SrvBlobWrite
           /\ \A p \in Paths : ~TaskUnsent(p)
<1>1. ~SrvBlobWrite
  BY DEF DirInv, Course, SrvBlobWrite
<1>2. ASSUME SrvBlobOpen PROVE FALSE
  <2>1. cur \in Paths /\ req[cur].type = "Encrypted" /\ Serving(cur)
    BY <1>2 DEF SrvBlobOpen, TypeInv, Turns, Serving
  <2>2. req[cur] = Request(cur)
    BY <2>1 DEF DirInv, Started
  <2> QED BY <2>1, <2>2 DEF Request
<1>3. \A p \in Paths : ~TaskUnsent(p)
  BY DEF Uniform, TaskUnsent, Trouble
<1> QED BY <1>1, <1>2, <1>3

LEMMA DirStep == ASSUME Uniform, TypeInv, DirInv, [Next]_vars PROVE DirInv'
<1>1. ASSUME NEW p \in Paths, TaskStep(p) PROVE DirInv'
  BY <1>1, Plainly, DirStart, DirAck, DirSignatures, DirVerify, DirFailures DEF TaskStep
<1> QED
  BY <1>1, Plainly, DirClient, DirFailures, DirVanish, DirPlan, DirAccept, DirData,
     DirDelete, DirServerEnds, DirStutters DEF Next, ClientStep, ServerStep

LEMMA Invariance == ASSUME Uniform PROVE Spec => [](TypeInv /\ DirInv)
<1>1. Init => TypeInv /\ DirInv
  BY TypeInit, DirInit
<1>2. TypeInv /\ DirInv /\ [Next]_vars => (TypeInv /\ DirInv)'
  BY TypeStep, DirStep
<1> QED BY <1>1, <1>2, PTL DEF Spec

(* A task that was told that its file is verified has its own file stored   *)
(* under its own path, although only their order ties data to requests.     *)
THEOREM VerifiedStored == ASSUME Uniform PROVE Spec => []VerifiedIsStored
<1>1. TypeInv /\ DirInv => VerifiedIsStored
  <2> SUFFICES ASSUME TypeInv, DirInv, NEW p \in Paths, task[p] = "ok"
               PROVE  store[p] = Image(p)
    BY DEF VerifiedIsStored
  <2>1. Told(p)
    BY DEF DirInv, Started, Told
  <2> QED BY <2>1 DEF DirInv, Committed, Cut
<1> QED BY <1>1, Invariance, PTL

(* Whatever is interrupted, each path holds its old or its new file, or one *)
(* that its client could not read to the end and reports.                   *)
THEOREM OldOrNewStored == ASSUME Uniform PROVE Spec => []OldOrNew
<1>1. TypeInv /\ DirInv => OldOrNew
  <2> SUFFICES ASSUME TypeInv, DirInv, cpc # "start", NEW p \in Paths
               PROVE  store[p] \in {before[p], Image(p)} \/ Cut(p)
    BY DEF OldOrNew
  <2>1. ASSUME plan[p] = "Delete" PROVE Image(p) = Absent
    <3>1. plan[p] \in Decide(manifest[p], IF p \in Hidden \/ blind THEN Absent ELSE before[p])
      BY <2>1 DEF DirInv, Course, PlanFits
    <3> QED BY <2>1, <3>1 DEF Decide, Image
  <2> QED BY <2>1 DEF DirInv, Committed
<1> QED BY <1>1, Invariance, PTL

(* When both sides have finished and no task has failed, the server mirrors *)
(* the directory, but for deletions that the plan missed or a run without   *)
(* uploads skips.                                                           *)
THEOREM DirMirrors == ASSUME Uniform PROVE Spec => []Mirrors
<1>1. TypeInv /\ DirInv => Mirrors
  <2> SUFFICES ASSUME TypeInv, DirInv, spc = "done", NEW p \in Paths, task[p] # "failed",
                      ~ (manifest[p] = Absent
                           /\ (blind \/ p \in Hidden \/ Sends(plan) = {}))
               PROVE  store[p] = Image(p)
    BY DEF Mirrors, BothDone
  <2>1. PlanFits /\ Unsettled = {} /\ Committed(p) /\ enc = FALSE
    BY DEF DirInv, Course, Counted
  <2>2. CASE p \in Sends(plan)
    BY <2>1, <2>2 DEF Unsettled, Committed, Cut
  <2>3. CASE p \notin Sends(plan)
    <3>1. plan[p] \notin {"SendFull", "SendDelta"}
      BY <2>3 DEF Sends
    <3>2. CASE manifest[p] = Absent
      <4>1. plan[p] \in {"None", "Delete"} /\ (plan[p] = "None" => before[p] = Absent)
        BY <2>1, <3>2 DEF PlanFits, Decide
      <4>2. plan[p] = "Delete" => store[p] = Absent
        BY <3>2 DEF DirInv, Counted
      <4> QED BY <2>1, <2>3, <3>2, <4>1, <4>2 DEF Committed, Image
    <3>3. CASE manifest[p] # Absent
      <4>1. plan[p] = "Skip" /\ before[p] = Plain(manifest[p])
        BY <2>1, <3>1, <3>3 DEF PlanFits, Decide
      <4> QED BY <2>1, <2>3, <3>3, <4>1 DEF Committed, Image, Plain
    <3> QED BY <3>2, <3>3
  <2> QED BY <2>2, <2>3
<1> QED BY <1>1, Invariance, PTL

(* Files are deleted after all uploads of the plan were committed.          *)
THEOREM DeletesComeLast == ASSUME Uniform PROVE Spec => DeletesLast
<1>1. ASSUME Uniform, TypeInv, DirInv, [Next]_vars,
             NEW p \in Paths, store[p] # Absent, store'[p] = Absent
      PROVE  \A q \in Sends(plan) : store[q] = Image(q) \/ Cut(q)
  <2>1. spc = "delete"
    <3>1. CASE SrvData
      <4>1. unis # <<>> /\ spc = "data" /\ store \in [Paths -> Stored \cup {Absent}]
        BY <1>1, <3>1 DEF SrvData, TypeInv, TypeOK
      <4>2. \/ store' = store
            \/ \E f \in Received(cur, Head(unis)) :
                 f # Absent /\ store' = [store EXCEPT ![cur] = f]
        BY <3>1 DEF SrvData
      <4> QED BY <1>1, <4>1, <4>2
    <3>2. CASE \E q \in Paths : SrvDelete(q)
      BY <3>2 DEF SrvDelete
    <3>3. CASE store' = store
      BY <1>1, <3>3
    <3>4. ASSUME NEW q \in Paths, TaskStep(q) PROVE store' = store
      BY <3>4 DEF TaskStep, TaskStart, TaskUnsent, TaskAck, TaskCut, TaskSignatures,
         TaskVerify, TaskLost, TaskGoes, server
    <3>5. ASSUME ClManifest \/ ClPlan \/ ClClose \/ ClLost \/ ClDie \/ \E q \in Paths : Vanish(q)
          PROVE  store' = store
      BY <3>5 DEF ClManifest, ClPlan, ClClose, ClLost, ClDie, Vanish, server
    <3>6. ASSUME SrvPlan \/ SrvAccept \/ SrvDone \/ SrvLost \/ IdleTimeout \/ ServerCrash
                 \/ UNCHANGED vars
          PROVE  store' = store
      BY <3>6 DEF SrvPlan, SrvAccept, SrvDone, SrvLost, IdleTimeout, ServerCrash, vars, server
    <3> QED
      BY <1>1, <3>1, <3>2, <3>3, <3>4, <3>5, <3>6, Plainly DEF Next, ClientStep, ServerStep
  <2> SUFFICES ASSUME NEW q \in Sends(plan) PROVE store[q] = Image(q) \/ Cut(q)
    OBVIOUS
  <2>2. Told(q) /\ q \in Paths
    BY <1>1, <2>1 DEF DirInv, Counted, Unsettled, Sends
  <2> QED BY <1>1, <2>2 DEF DirInv, Committed
<1>2. TypeInv /\ DirInv /\ [Next]_vars =>
        [\A p \in Paths :
           store[p] # Absent /\ store'[p] = Absent
              => \A q \in Sends(plan) : store[q] = Image(q) \/ Cut(q)]_vars
  BY <1>1
<1> QED BY <1>2, Invariance, PTL DEF Spec, DeletesLast

(* Nothing has failed as long as there was no fault.                        *)
FaultFree ==
    faults = 0 =>
       /\ spc # "failed" /\ cpc # "failed" /\ blind = FALSE
       /\ \A p \in Paths :
             /\ task[p] # "failed"
             /\ cpc # "start" => local[p] = manifest[p]
             /\ cpc \in {"tasks", "done"} /\ p \in Sends(plan)
                  => p \in queue \/ task[p] # "none"

(* Before any fault, the two sides do not wait for each other.              *)
LEMMA NeverWaiting ==
    ASSUME Uniform, TypeInv, DirInv, FaultFree, faults = 0
    PROVE  ~MutualWait
<1> SUFFICES ASSUME MutualWait PROVE FALSE
  OBVIOUS
<1>1. PICK p \in Paths : p \in Running /\ task[p] \in {"ack", "signatures", "verify"}
                         /\ rsp[p] = <<>> /\ ~Told(p) /\ Alive
  <2>1. PICK p \in Running : TRUE
    BY DEF MutualWait
  <2> QED
    BY <2>1, ToldApart
       DEF MutualWait, Running, TaskEnds, TaskWaits, DirInv, Started, Told, FaultFree, Alive,
           TypeInv, TypeOK
<1>2. Open(p) \/ Serving(p)
  BY <1>1 DEF DirInv, Committed
<1>3. CASE spc = "accept" /\ bis = <<>>
  BY <1>2, <1>3 DEF Open, Serving
<1>4. CASE spc = "data" /\ unis = <<>>
  <2>1. cur \in Paths /\ task[cur] # "failed" /\ bis \in Seq(Paths)
    BY <1>1, <1>4 DEF TypeInv, TypeOK, Turns, FaultFree
  <2>2. ~AllSmall(manifest)
    <3>1. Len(unis) = 0 /\ Len(bis) \in Nat
      BY <1>4, <2>1
    <3>2. Len(bis) + 1 # 0
      BY <3>1
    <3> QED BY <1>1, <1>4, <3>1, <3>2 DEF DirInv, Streams, Paired, Ahead
  <2>3. Talk(cur)
    BY <1>1, <1>4, <2>2 DEF DirInv, Course, Streams, OneByOne
  <2>4. task[cur] \in {"ack", "signatures"} /\ rsp[cur] # <<>>
    <3>1. Acked(cur) # <<>> /\ <<Signatures(store[cur])>> # <<>>
      BY ToldApart DEF Acked
    <3> QED BY <1>4, <2>1, <2>3, <3>1 DEF Talk
  <2> QED BY <2>1, <2>4 DEF MutualWait, Running, TaskEnds
<1> QED BY <1>3, <1>4 DEF MutualWait

(* A step that is no fault makes nothing fail.                              *)
LEMMA Unhindered ==
    ASSUME Uniform, Hidden = {}, TypeInv, DirInv, FaultFree, [Next]_vars
    PROVE  FaultFree'
<1> SUFFICES ASSUME faults' = 0 PROVE FaultFree'
  BY DEF FaultFree
<1>1. faults = 0
  <2>1. \A kind : ~Trouble(kind)
    BY TroubleTypes
  <2>2. faults' = faults
    <3>1. ASSUME NEW p \in Paths, TaskStep(p) PROVE faults' = faults
      BY <2>1, <3>1 DEF TaskStep, TaskStart, TaskUnsent, TaskAck, TaskCut, TaskSignatures,
         TaskVerify, TaskLost, TaskGoes
    <3>2. ASSUME ClManifest \/ ClPlan \/ ClClose \/ ClLost \/ ClDie \/ \E q \in Paths : Vanish(q)
          PROVE  faults' = faults
      BY <2>1, <3>2 DEF ClManifest, ClPlan, ClClose, ClLost, ClDie, Vanish
    <3>3. ASSUME SrvPlan \/ SrvAccept \/ SrvDone \/ SrvLost \/ IdleTimeout \/ ServerCrash
                 \/ SrvData \/ UNCHANGED vars \/ \E q \in Paths : SrvDelete(q)
          PROVE  faults' = faults
      BY <2>1, <3>3 DEF SrvPlan, SrvAccept, SrvDone, SrvLost, IdleTimeout, ServerCrash,
         SrvData, SrvDelete, vars
    <3> QED BY <3>1, <3>2, <3>3, Plainly DEF Next, ClientStep, ServerStep
  <2> QED BY <2>2
<1>2. /\ spc # "failed" /\ cpc # "failed" /\ blind = FALSE /\ Alive
      /\ \A q \in Paths :
             /\ task[q] # "failed"
             /\ cpc # "start" => local[q] = manifest[q]
             /\ cpc \in {"tasks", "done"} /\ q \in Sends(plan)
                  => q \in queue \/ task[q] # "none"
  BY <1>1 DEF FaultFree, Alive
<1>3. \A kind : ~Trouble(kind)
  BY TroubleTypes
<1>4. ASSUME spc = "data" PROVE ~ClientGone
  <2>1. cur \in Paths /\ ~Told(cur) /\ cur \in Sends(plan) /\ cpc \notin {"start", "plan", "failed"}
    BY <1>2, <1>4 DEF TypeInv, Turns, DirInv, Committed, Started, Serving
  <2>2. cpc # "done"
    BY <1>2, <2>1 DEF DirInv, Course, Started, Running, TaskEnds, Told
  <2> QED BY <1>2, <2>2 DEF ClientGone
<1>5. ASSUME NEW p \in Paths, TaskStep(p) PROVE FaultFree'
  <2>1. /\ task \in [Paths -> TaskEnds \cup TaskWaits] /\ rsp \in [Paths -> Seq(Answers)]
        /\ p \in Paths
    BY DEF TypeInv, TypeOK
  <2>2. CASE TaskStart(p)
    <3>1. p \in Paths /\ local[p] = manifest[p] /\ manifest[p] # Absent
      <4>1. p \in queue /\ cpc # "start"
        BY <2>2 DEF TaskStart, MayStart
      <4>2. p \in Sends(plan)
        BY <4>1 DEF DirInv, Started
      <4> QED BY <1>2, <4>1, <4>2, Announced
    <3>2. \E at \in {"verify", "ack"} : task' = [task EXCEPT ![p] = at]
      BY <2>2, <3>1 DEF TaskStart
    <3> QED
      BY <1>2, <2>1, <2>2, <3>2 DEF TaskStart, server, FaultFree, Sends
  <2>3. CASE TaskAck(p)
    <3>1. local[p] # Absent
      <4>1. task[p] # "none" /\ cpc # "start"
        BY <2>3 DEF TaskAck, DirInv, Course
      <4>2. p \in Sends(plan)
        BY <4>1 DEF DirInv, Started
      <4> QED BY <1>2, <4>1, <4>2, Announced
    <3>2. \E at \in {"verify", "verify2", "signatures"} : \E d : TaskGoes(p, at, d)
      BY <2>3, <3>1 DEF TaskAck
    <3> QED
      BY <1>2, <2>1, <3>2 DEF TaskGoes, server, FaultFree, Sends
  <2>4. CASE TaskSignatures(p)
    <3>1. local[p] # Absent
      <4>1. task[p] # "none" /\ cpc # "start"
        BY <2>4 DEF TaskSignatures, DirInv, Course
      <4>2. p \in Sends(plan)
        BY <4>1 DEF DirInv, Started
      <4> QED BY <1>2, <4>1, <4>2, Announced
    <3>2. \E d : TaskGoes(p, "verify", d)
      BY <2>4, <3>1 DEF TaskSignatures
    <3> QED
      BY <1>2, <2>1, <3>2 DEF TaskGoes, server, FaultFree, Sends
  <2>5. CASE TaskVerify(p)
    <3>1. task[p] = "verify" /\ rsp[p] # <<>> /\ rsp[p] # <<Finished>>
      BY <2>5 DEF TaskVerify, DirInv, Started
    <3>2. Told(p)
      <4> SUFFICES ASSUME ~Told(p) PROVE FALSE
        OBVIOUS
      <4>1. Serving(p) /\ Talk(p)
        BY <1>2, <3>1, InTalk
      <4>2. plan[p] # "SendDelta" /\ store[p] # Absent /\ p \in Sends(plan)
        BY <1>2, <3>1, <4>1, InTalk DEF Talk
      <4>3. before[p] # Absent
        BY <1>2, <4>2 DEF DirInv, Committed
      <4>4. plan[p] = "SendFull" /\ PlanFits
        BY <4>2, Announced DEF Sends
      <4> QED BY <1>2, <4>3, <4>4, Announced, <4>2 DEF PlanFits, Decide
    <3>3. Answered(p, "VerifyResult")
      BY <3>1, <3>2 DEF Told, Answered, VerifyResult
    <3>4. TaskGoes(p, "ok", <<>>)
      BY <2>5, <3>1, <3>3 DEF TaskVerify
    <3> QED
      BY <1>2, <2>1, <3>4 DEF TaskGoes, server, FaultFree, Sends
  <2>6. ~TaskLost(p)
    <3> SUFFICES ASSUME TaskLost(p) PROVE FALSE
      OBVIOUS
    <3>1. spc = "done" /\ rsp[p] = <<>> /\ task[p] \notin TaskEnds
      BY <1>2, <1>3 DEF TaskLost, Running
    <3>2. p \in Sends(plan) /\ ~Told(p)
      BY <3>1, ToldApart DEF DirInv, Started, TaskEnds, Told
    <3> QED BY <3>1, <3>2 DEF DirInv, Counted, Unsettled
  <2> QED
    BY <1>3, <1>5, <2>2, <2>3, <2>4, <2>5, <2>6, Plainly DEF TaskStep, TaskCut
<1>6. CASE SrvData
  <2>1. spc' # "failed"
    <3>1. spc = "data" /\ unis # <<>> /\ cur \in Paths
      BY <1>6 DEF SrvData, TypeInv, Turns
    <3>2. ASSUME NEW f \in Received(cur, Head(unis)) PROVE f # Absent
      <4> SUFFICES ASSUME f = Absent PROVE FALSE
        OBVIOUS
      <4>1. store[cur] # Absent /\ plan[cur] # "SendDelta" /\ cur \in Sends(plan) /\ ~Told(cur)
        BY <1>2, <3>1, DataFits
      <4>2. before[cur] # Absent
        BY <1>2, <3>1, <4>1 DEF DirInv, Committed
      <4>3. plan[cur] = "SendFull" /\ PlanFits
        BY <4>1, Announced DEF Sends
      <4> QED BY <1>2, <3>1, <4>1, <4>2, <4>3, Announced DEF PlanFits, Decide
    <3> QED BY <1>4, <1>6, <3>1, <3>2 DEF SrvData, NextFile
  <2> QED BY <1>2, <1>6, <2>1 DEF SrvData, client, FaultFree, Sends
<1>7. ~SrvLost /\ ~ServerCrash /\ ~IdleTimeout /\ ~ClDie /\ ~ClLost
  <2>1. ~SrvLost
    <3> SUFFICES ASSUME SrvLost PROVE FALSE
      OBVIOUS
    <3>1. spc \in {"manifest", "accept"} /\ cpc = "done"
      BY <1>2, <1>4 DEF SrvLost, ClientGone
    <3>2. spc = "accept" /\ todo > 0 /\ todo = Cardinality(Unsettled)
      BY <3>1 DEF DirInv, Course, Counted, TypeInv, Turns
    <3>3. PICK p \in Unsettled : TRUE
      BY <3>2, FS_EmptySet
    <3>4. p \in Paths /\ p \in Sends(plan) /\ ~Told(p)
      BY <3>3 DEF Unsettled, Sends
    <3> QED
      BY <1>2, <3>1, <3>4 DEF DirInv, Course, Started, Running, TaskEnds, Told
  <2> QED BY <1>1, <1>2, <1>3, <2>1, NeverWaiting DEF ServerCrash, IdleTimeout, ClDie, ClLost
<1>8. CASE ClManifest \/ ClPlan \/ ClClose
  BY <1>2, <1>8 DEF ClManifest, ClPlan, ClClose, server, FaultFree, DirInv, Course, Sends
<1>9. CASE SrvPlan
  BY <1>2, <1>3, <1>9 DEF SrvPlan, client, FaultFree
<1>10. CASE SrvAccept
  <2>1. Open(Head(bis)) /\ Head(bis) \in Paths
    BY <1>10, TailFacts DEF SrvAccept, Open, TypeInv, TypeOK
  <2>2. req[Head(bis)].type # "Nothing"
    <3>1. req[Head(bis)] = Request(Head(bis))
      BY <2>1 DEF DirInv, Started
    <3> QED BY <3>1 DEF Request
  <2> QED BY <1>2, <1>10, <2>2 DEF SrvAccept, client, FaultFree, Sends
<1>11. CASE SrvDone \/ \E q \in Paths : SrvDelete(q)
  BY <1>2, <1>11 DEF SrvDone, SrvDelete, client, FaultFree, Sends
<1>12. CASE UNCHANGED vars
  BY <1>2, <1>12 DEF vars, client, server, FaultFree, Sends
<1>13. ASSUME NEW p \in Paths PROVE ~Vanish(p)
  BY <1>3 DEF Vanish
<1> QED
  BY <1>5, <1>6, <1>7, <1>8, <1>9, <1>10, <1>11, <1>12, <1>13, Plainly
     DEF Next, ClientStep, ServerStep

(* Before any fault nothing has failed.                                     *)
LEMMA FaultFreeInvariance ==
    ASSUME Uniform, Hidden = {}
    PROVE  Spec => [](TypeInv /\ DirInv /\ FaultFree)
<1>1. Init => FaultFree
  BY DEF Init, FaultFree
<1>2. TypeInv /\ DirInv /\ FaultFree /\ [Next]_vars => FaultFree'
  BY Unhindered
<1> QED BY <1>1, <1>2, Invariance, PTL DEF Spec

(* Without a fault no file of the plan fails, if the scan of the storage    *)
(* sees all of it.                                                          *)
THEOREM NothingFailsUnprovoked ==
    ASSUME Uniform, Hidden = {} PROVE Spec => []NoSpuriousErrors
<1>1. FaultFree => NoSpuriousErrors
  BY DEF FaultFree, NoSpuriousErrors
<1> QED BY <1>1, FaultFreeInvariance, PTL

(* Without a fault the two sides never wait for each other until the idle   *)
(* timeout.                                                                 *)
THEOREM NeverMutualWait ==
    ASSUME Uniform, Hidden = {} PROVE Spec => []NoMutualWait
<1>1. TypeInv /\ DirInv /\ FaultFree => NoMutualWait
  BY NeverWaiting DEF NoMutualWait
<1> QED BY <1>1, FaultFreeInvariance, PTL
=============================================================================
