--------------------------- MODULE StorageProofs ----------------------------
(* What the syncs of one name promise although directory syncs of other     *)
(* clients delete their entries.                                            *)
EXTENDS Storage, FileSyncProofs

(* A deletion takes an entry away and leaves both sides of all sessions.    *)
LEMMA SweepKeepsInv ==
    ASSUME Inv, NEW n \in Names, SweepDelete(n)
    PROVE  Inv'
<1>1. TypeOK /\ Lockstep /\ BranchesAgree
  BY DEF Inv
<1>2. UNCHANGED <<local, steady, cl, net, sv>>
  BY DEF SweepDelete
<1>3. dir' \in [Names -> Inodes \cup {NoInode}]
  BY <1>1 DEF TypeOK, SweepDelete
<1>4. data' \in [Inodes -> Seq(Symbol)]
  BY <1>1, KeptType DEF SweepDelete, TypeOK
<1>5. faults' \in 0..MaxFaults
  BY <1>1, BoundAssumption DEF TypeOK, SweepDelete, Trouble
<1>6. TypeOK'
  BY <1>1, <1>2, <1>3, <1>4, <1>5 DEF TypeOK
<1>7. Lockstep' /\ BranchesAgree'
  BY <1>1, <1>2 DEF Lockstep, InStep, BranchesAgree, SameBranch
<1> QED BY <1>6, <1>7 DEF Inv

LEMMA StorageInvariant == StorageSpec => []Inv
<1>1. Inv /\ [StorageNext]_vars => Inv'
  BY NextInv, SweepKeepsInv DEF StorageNext
<1> QED BY <1>1, InitInv, PTL DEF StorageSpec

(* handle_sync and handle_file_sync take the same branch even if another    *)
(* task deletes the file, or its `.part`, between the look of the server at *)
(* them and the acknowledgement or the data.                                *)
THEOREM BranchesCorrectSwept == StorageSpec => []BranchesAgree
<1>1. Inv => BranchesAgree
  BY DEF Inv
<1> QED BY <1>1, StorageInvariant, PTL

(* Every variable keeps its type when entries vanish under the sessions     *)
(* that use them.                                                           *)
THEOREM TypeCorrectSwept == StorageSpec => []TypeOK
<1>1. Inv => TypeOK
  BY DEF Inv
<1> QED BY <1>1, StorageInvariant, PTL

(* Nor does a deletion make two entries share an inode.                     *)
LEMMA EntriesStayDistinctSwept ==
    ASSUME TypeOK, NoAlias, [StorageNext]_vars
    PROVE  NoAlias'
<1>1. CASE [Next]_vars
  BY <1>1, EntriesStayDistinct
<1>2. ASSUME NEW n \in Names, SweepDelete(n) PROVE NoAlias'
  BY <1>2 DEF SweepDelete, NoAlias, Exists, TypeOK
<1> QED BY <1>1, <1>2 DEF StorageNext

(* A task that writes `.part` or `.tmp` never has the stored file open,     *)
(* deletions of entries that are open included: an inode in use is not      *)
(* given to a new entry.                                                    *)
THEOREM EntriesDistinctSwept == StorageSpec => []NoAlias
<1>1. Init => NoAlias
  BY DEF Init, NoAlias, Names, Exists
<1>2. TypeOK /\ NoAlias /\ [StorageNext]_vars => NoAlias'
  BY EntriesStayDistinctSwept
<1>3. Inv => TypeOK
  BY DEF Inv
<1> QED BY <1>1, <1>2, <1>3, StorageInvariant, PTL DEF StorageSpec

-----------------------------------------------------------------------------
(* A success that resumed nothing, when one user syncs the name.            *)

OneSession == \E u : Sessions = {u}

(* The run of s resumes nothing, its file was not edited, and it is not over*)
Fresh(s) == steady[s] /\ cl[s].pc \notin ClientEnds /\ cl[s].skip = 0

(* The mode of both sides is the same, and descriptors are open only where  *)
(* they are used.                                                           *)
Sides(s) ==
    /\ sv[s].pc \in {"open", "recv", "sign", "patchopen", "patch"} => ~cl[s].enc
    /\ sv[s].pc \in {"encrypted", "encrecv", "encwrite"} => cl[s].enc
    /\ sv[s].pc \notin {"recv", "patch", "encwrite"} =>
          sv[s].out = NoInode /\ sv[s].buf = <<>> /\ sv[s].pos = 0
    /\ sv[s].pc # "patch" => sv[s].base = NoInode

(* The task writes to an inode that the entry n, if still there, names.     *)
Writing(s, n) ==
    /\ sv[s].out \in Inodes /\ Appending(s)
    /\ Exists(n) => dir[n] = sv[s].out

(* A full upload starts at 0 on both sides.                                 *)
WholeUpload(s) ==
    /\ sv[s].pc = "handshake" /\ net[s].req # <<>>
          => net[s].req[1].size = Len(local[s])
    /\ sv[s].pc = "open" =>
          /\ sv[s].size = Len(local[s])
          /\ IF cl[s].pc = "ack" THEN net[s].rsp[1].offset = sv[s].off
             ELSE sv[s].off = 0 /\ RawSent(s, 0)
    /\ sv[s].pc = "recv" =>
          /\ sv[s].size = Len(local[s]) /\ Writing(s, "part")
          /\ sv[s].got = Len(Content(s)) /\ IsPrefixOf(Content(s), local[s])
          /\ RawSent(s, sv[s].got)

(* A delta is made and applied against one file, or the file is gone.       *)
WholeDelta(s) ==
    /\ sv[s].pc = "sign" =>
          /\ net[s].uni = <<>>
          /\ \A i \in DOMAIN net[s].rsp : net[s].rsp[i].type # "Signatures"
    /\ sv[s].pc = "patchopen" /\ Exists("file") =>
          /\ \A i \in DOMAIN net[s].rsp :
                net[s].rsp[i].type = "Signatures"
                    => net[s].rsp[i].base = data[dir["file"]]
          /\ net[s].uni # <<>>
                => PatchSent(s, Tail(net[s].uni), data[dir["file"]], 0)
    /\ sv[s].pc = "patch" =>
          /\ sv[s].base \in Inodes /\ sv[s].base # sv[s].out /\ Writing(s, "tmp")
          /\ IsPrefixOf(Content(s), local[s])
          /\ PatchSent(s, net[s].uni, data[sv[s].base], Len(Content(s)))

(* What is sent is the blob of the whole file.  An offset that the server   *)
(* reads again counts as received, and fails the check of the size.         *)
WholeBlob(s) ==
    LET blob == Blob(local[s]) IN
    /\ sv[s].pc = "encrypted" /\ cl[s].pc # "ack" =>
          /\ net[s].uni = Raw(blob)
          /\ net[s].req # <<>> => net[s].req[1].size = Len(blob)
    /\ sv[s].pc = "encrecv" => net[s].uni = Raw(blob) /\ sv[s].size = Len(blob)
    /\ sv[s].pc = "encwrite" => Writing(s, "part") /\ Content(s) = blob

(* What is renamed, verified and reported is the image of the file.         *)
WholeCommit(s) ==
    /\ sv[s].pc = "rename" /\ Exists(sv[s].from) =>
          data[dir[sv[s].from]] = Image(s, local[s])
    /\ sv[s].pc = "verify" /\ Exists("file") =>
          data[dir["file"]] = Image(s, local[s])
    /\ \A i \in DOMAIN net[s].rsp :
          net[s].rsp[i].type = "VerifyResult"
              => net[s].rsp[i].sum = Image(s, local[s])

Whole(s) ==
    Sides(s) /\ WholeUpload(s) /\ WholeDelta(s) /\ WholeBlob(s) /\ WholeCommit(s)

(* Until the acknowledgement nothing is skipped.                            *)
IdleSkips(s) == cl[s].pc = "ack" => cl[s].skip = 0

FreshInv ==
    /\ Inv /\ NoAlias /\ FreshSuccessIsFaithful
    /\ \A s \in Sessions : IdleSkips(s) /\ (Fresh(s) => Whole(s))

(* What every step starts from.                                             *)
LEMMA FreshFacts ==
    ASSUME OneSession, FreshInv, NEW s \in Sessions
    PROVE  /\ InStep(s) /\ TypeOK /\ NoAlias /\ Sessions = {s}
           /\ cl[s] \in ClientState /\ net[s] \in Traffic /\ sv[s] \in ServerState
           /\ DOMAIN cl = Sessions /\ DOMAIN net = Sessions /\ DOMAIN sv = Sessions
           /\ DOMAIN steady = Sessions
           /\ local[s] \in Seq(Block) /\ local[s] \in Seq(Symbol) /\ Len(local[s]) \in Nat
           /\ Len(net[s].uni) \in Nat
           /\ net[s].uni \in Seq(Item) /\ net[s].rsp \in Seq(ServerMessage)
           /\ "part" \in Names /\ "file" \in Names /\ "tmp" \in Names
           /\ dir \in [Names -> Inodes \cup {NoInode}] /\ data \in [Inodes -> Seq(Symbol)]
           /\ \A n \in Names : Exists(n) => dir[n] \in Inodes /\ data[dir[n]] \in Seq(Symbol)
           /\ (sv[s].out \in Inodes =>
                  Content(s) \in Seq(Symbol) /\ data[sv[s].out] \in Seq(Symbol)
                  /\ sv[s].buf \in Seq(Symbol))
<1>1. TypeOK /\ NoAlias /\ InStep(s)
  BY DEF FreshInv, Inv, Lockstep
<1>2. sv[s] \in ServerState /\ data \in [Inodes -> Seq(Symbol)]
  BY <1>1 DEF TypeOK
<1>3. sv[s].out \in Inodes =>
         Content(s) \in Seq(Symbol) /\ data[sv[s].out] \in Seq(Symbol)
         /\ sv[s].buf \in Seq(Symbol)
  <2>1. sv[s].buf \in Seq(Symbol) BY <1>2, ServerFields
  <2> QED BY <1>2, <2>1 DEF Content
<1>4. \A n \in Names : Exists(n) => dir[n] \in Inodes /\ data[dir[n]] \in Seq(Symbol)
  BY <1>1 DEF TypeOK, Exists
<1>5. Sessions = {s}
  BY DEF OneSession
<1> QED BY <1>1, <1>3, <1>4, <1>5, SessionTypes DEF Names, TypeOK

(* A task that has failed has nothing left to promise.                      *)
LEMMA FailedIsWhole ==
    ASSUME OneSession, FreshInv, NEW s \in Sessions, Whole(s),
           sv'[s] = Ended("failed"), UNCHANGED <<local, cl>>, net'[s].rsp = net[s].rsp
    PROVE  Whole(s)'
<1>1. /\ sv'[s].pc = "failed" /\ sv'[s].out = NoInode /\ sv'[s].buf = <<>>
      /\ sv'[s].pos = 0 /\ sv'[s].base = NoInode
  BY DEF Ended, IdleServer
<1>2. Sides(s)' /\ WholeUpload(s)' /\ WholeDelta(s)' /\ WholeBlob(s)'
  BY <1>1 DEF Sides, WholeUpload, WholeDelta, WholeBlob
<1>3. WholeCommit(s)'
  BY <1>1 DEF Whole, WholeCommit, Image
<1> QED BY <1>2, <1>3 DEF Whole

(* A step of the client leaves a run that resumes nothing on its course.    *)
LEMMA FreshClient ==
    ASSUME OneSession, FreshInv, NEW s \in Sessions,
           ClStart(s) \/ ClientStep(s) \/ ClDie(s) \/ Edit(s), Fresh(s)'
    PROVE  Whole(s)'
<1> USE FreshFacts
<1>e. ~Edit(s)
  BY DEF Edit, Fresh
<1>d. ~ClVerified(s) /\ ~ClLost(s) /\ ~ClDie(s)
  <2>1. ClVerified(s) => cl'[s].pc = "ok"
    BY DEF ClVerified, ClientState
  <2>2. ClLost(s) \/ ClDie(s) => cl'[s].pc = "failed"
    BY DEF ClLost, ClDie, Gone, IdleClient
  <2> QED BY <2>1, <2>2 DEF Fresh, ClientEnds
<1>l. UNCHANGED <<local, dir, data>>
  BY <1>e, <1>d DEF ClStart, ClientStep, ClUpload, ClSend, ClPatch, ClEncrypt
<1>r. net[s].rsp # <<>> =>
         /\ Head(net[s].rsp) = net[s].rsp[1] /\ 1 \in DOMAIN net[s].rsp
         /\ Head(net[s].rsp) \in ServerMessage
         /\ \A i \in DOMAIN Tail(net[s].rsp) :
               i + 1 \in DOMAIN net[s].rsp /\ Tail(net[s].rsp)[i] = net[s].rsp[i + 1]
  <2>1. CASE net[s].rsp # <<>>
    <3>1. Head(net[s].rsp) \in ServerMessage
      BY <2>1
    <3> QED BY <2>1, <3>1, Sequences
  <2> QED BY <2>1
<1>1. CASE ClStart(s)
  <2>1. PICK e \in Modes :
          /\ cl'[s] = [IdleClient EXCEPT !.pc = "ack", !.enc = e]
          /\ net'[s] = [NoTraffic EXCEPT !.req =
                          <<[type |-> "Handshake", size |-> Len(local[s]),
                             encrypted |-> e]>>]
    BY <1>1 DEF ClStart
  <2>2. sv'[s] = Ended("handshake")
    BY <1>1 DEF ClStart
  <2> QED BY <1>l, <2>1, <2>2
          DEF Whole, Sides, WholeUpload, WholeDelta, WholeBlob, WholeCommit, IdleClient,
              NoTraffic, Ended, IdleServer
<1>2. CASE ClUpload(s)
  <2> DEFINE ack == Head(net[s].rsp)
  <2>1. net'[s] = [net[s] EXCEPT !.rsp = Tail(net[s].rsp)] /\ sv'[s] = sv[s]
        /\ UNCHANGED steady
    BY <1>2 DEF ClUpload
  <2>2. cl'[s] = IF ack.old THEN [cl[s] EXCEPT !.pc = "sigs"]
                 ELSE [cl[s] EXCEPT !.pc = "send", !.skip = ack.offset,
                                    !.pos = ack.offset]
    BY <1>2 DEF ClUpload
  <2>3. /\ ack = net[s].rsp[1] /\ cl[s].pc = "ack" /\ net[s].uni = <<>> /\ ~net[s].fin
        /\ ack.old \in BOOLEAN /\ ack.offset \in Nat
    <3>1. ack.type = "HandshakeAck" /\ ack \in ServerMessage
      BY <1>2, <1>r DEF ClUpload, Replied
    <3>2. ack.old \in BOOLEAN /\ ack.offset \in Nat
      BY <3>1 DEF ServerMessage
    <3> QED BY <1>2, <1>r, <3>2 DEF ClUpload, Replied, InStep
  <2>4. /\ net'[s].uni = <<>> /\ ~net'[s].fin /\ net'[s].req = net[s].req
        /\ net'[s].rsp = Tail(net[s].rsp)
    BY <2>1, <2>3 DEF Traffic
  <2>5. /\ cl'[s].enc = cl[s].enc /\ cl'[s].pc \in {"sigs", "send"}
        /\ IF ack.old THEN cl'[s].pc = "sigs" /\ cl'[s].skip = cl[s].skip
           ELSE cl'[s].pc = "send" /\ cl'[s].pos = ack.offset /\ cl'[s].skip = ack.offset
    BY <2>2, <2>3 DEF ClientState
  <2>6. IF ack.old THEN sv[s].pc \in {"failed", "sign", "patchopen"}
        ELSE sv[s].pc \in {"failed", "open"} /\ ack.offset = 0
    <3>1. net[s].rsp # <<>> /\ ~cl[s].enc
      BY <1>2 DEF ClUpload, Replied
    <3> QED BY <2>3, <2>5, <3>1 DEF InStep, Fresh
  <2>7. ASSUME NEW i \in DOMAIN net'[s].rsp
        PROVE  i + 1 \in DOMAIN net[s].rsp /\ net'[s].rsp[i] = net[s].rsp[i + 1]
    BY <1>2, <1>r, <2>4, <2>7 DEF ClUpload, Replied
  <2>8. cl[s].skip = 0 /\ Fresh(s)
    <3>1. IdleSkips(s)
      BY <2>3 DEF FreshInv
    <3> QED BY <2>1, <2>3, <3>1 DEF IdleSkips, Fresh, ClientEnds
  <2>9. Whole(s)
    BY <2>8 DEF FreshInv
  <2> HIDE DEF ack
  <2>10. WholeUpload(s)'
    <3>1. sv[s].pc \notin {"recv", "handshake"}
      BY <2>6
    <3>2. ASSUME sv[s].pc = "open"
          PROVE  sv[s].off = 0 /\ RawSent(s, 0)' /\ cl'[s].pc = "send"
                 /\ sv[s].size = Len(local[s])
      <4>1. ack.offset = sv[s].off /\ ~ack.old /\ sv[s].size = Len(local[s])
        BY <2>3, <2>6, <2>9, <3>2 DEF Whole, WholeUpload
      <4>2. sv[s].off = 0 /\ cl'[s].pos = 0 /\ cl'[s].pc = "send"
        BY <2>5, <2>6, <4>1
      <4> QED BY <1>l, <2>4, <4>1, <4>2 DEF RawSent
    <3> QED BY <1>l, <2>1, <2>5, <3>1, <3>2 DEF WholeUpload
  <2>11. WholeDelta(s)'
    <3>1. sv[s].pc # "patch"
      BY <2>6
    <3> QED BY <1>l, <2>1, <2>4, <2>7, <2>9, <3>1 DEF Whole, WholeDelta, Exists
  <2>12. WholeBlob(s)'
    BY <2>1, <2>6 DEF WholeBlob
  <2>13. WholeCommit(s)'
    BY <1>l, <2>1, <2>5, <2>7, <2>9 DEF Whole, WholeCommit, Exists, Image
  <2>14. Sides(s)'
    BY <2>1, <2>5, <2>9 DEF Whole, Sides
  <2> QED BY <2>10, <2>11, <2>12, <2>13, <2>14 DEF Whole
<1>3. CASE ClSend(s)
  <2>1. /\ sv'[s] = sv[s] /\ cl[s].pc = "send" /\ ~net[s].fin /\ UNCHANGED steady
        /\ sv[s].pc \in {"open", "recv", "failed"}
    BY <1>3 DEF ClSend, InStep
  <2>2. /\ net'[s].rsp = net[s].rsp /\ net'[s].req = net[s].req
        /\ cl'[s].enc = cl[s].enc /\ cl'[s].pc \in {"send", "verify"}
        /\ cl'[s].skip = cl[s].skip
    <3>1. \/ /\ cl'[s] = [cl[s] EXCEPT !.pos = cl[s].pos + 1]
             /\ \E x : net'[s] = [net[s] EXCEPT !.uni = x]
          \/ /\ cl'[s] = [cl[s] EXCEPT !.pc = "verify"]
             /\ net'[s] = [net[s] EXCEPT !.fin = TRUE]
      <4>1. CASE cl[s].pos < Len(local[s])
        <5> DEFINE y == Append(net[s].uni,
                               [op |-> "Raw", sym |-> local[s][cl[s].pos + 1]])
        <5>1. /\ net' = [net EXCEPT ![s] = [net[s] EXCEPT !.uni = y]]
              /\ cl' = [cl EXCEPT ![s] = [cl[s] EXCEPT !.pos = cl[s].pos + 1]]
          BY <1>3, <4>1 DEF ClSend
        <5> HIDE DEF y
        <5> QED BY <5>1
      <4>2. CASE ~(cl[s].pos < Len(local[s]))
        BY <1>3, <4>2 DEF ClSend
      <4> QED BY <4>1, <4>2
    <3> QED BY <2>1, <3>1 DEF Traffic, ClientState
  <2>3. Whole(s)
    BY <2>1, <2>2 DEF FreshInv, Fresh, ClientEnds
  <2>4. ASSUME NEW p \in Nat, RawSent(s, p) PROVE RawSent(s, p)'
    BY <1>3, <2>4, SendContinues DEF RawSent
  <2>5. WholeUpload(s)'
    <3>1. sv[s].pc = "open" => RawSent(s, 0)'
      BY <2>1, <2>3, <2>4 DEF Whole, WholeUpload
    <3>2. sv[s].pc = "recv" => RawSent(s, sv[s].got)'
      <4> SUFFICES ASSUME sv[s].pc = "recv" PROVE RawSent(s, sv[s].got)'
        OBVIOUS
      <4>1. PICK g \in Nat : g = sv[s].got BY ServerFields
      <4>2. RawSent(s, g)'
        BY <2>3, <2>4, <4>1 DEF Whole, WholeUpload
      <4> QED BY <2>1, <4>1, <4>2 DEF RawSent
    <3>3. Content(s)' = Content(s) /\ Writing(s, "part")' = Writing(s, "part")
      BY <1>l, <2>1 DEF Content, Writing, Appending, Exists
    <3>4. sv[s].pc = "recv" =>
             /\ sv[s].size = Len(local[s]) /\ Writing(s, "part")
             /\ sv[s].got = Len(Content(s)) /\ IsPrefixOf(Content(s), local[s])
      BY <2>3 DEF Whole, WholeUpload
    <3>5. sv[s].pc = "open" => sv[s].size = Len(local[s]) /\ sv[s].off = 0
      BY <2>1, <2>3 DEF Whole, WholeUpload
    <3>6. IsPrefixOf(Content(s), local[s])' = IsPrefixOf(Content(s), local[s])
      BY <1>l, <3>3 DEF IsPrefixOf
    <3> QED BY <1>l, <2>1, <2>2, <3>1, <3>2, <3>3, <3>4, <3>5, <3>6 DEF WholeUpload
  <2>6. WholeDelta(s)' /\ WholeBlob(s)'
    BY <2>1 DEF WholeDelta, WholeBlob
  <2>7. WholeCommit(s)'
    BY <1>l, <2>1, <2>2, <2>3 DEF Whole, WholeCommit, Image
  <2>8. Sides(s)'
    BY <2>1, <2>2, <2>3 DEF Whole, Sides
  <2> QED BY <2>5, <2>6, <2>7, <2>8 DEF Whole
<1>4. CASE ClPatch(s)
  <2> DEFINE base == Head(net[s].rsp).base
             d == Delta(local[s], base)
             u == <<[op |-> "StartPatch"]>> \o d
  <2>1. /\ sv'[s] = sv[s] /\ cl[s].pc = "sigs" /\ UNCHANGED steady
        /\ sv[s].pc \in {"sign", "patchopen", "failed"}
    BY <1>4 DEF ClPatch, InStep
  <2>2. /\ net'[s].uni = u /\ net'[s].rsp = Tail(net[s].rsp)
        /\ cl'[s].pc = "verify" /\ cl'[s].enc = cl[s].enc /\ cl'[s].skip = cl[s].skip
    BY <1>4 DEF ClPatch, Traffic, ClientState
  <2>3. Head(net[s].rsp).type = "Signatures" /\ base \in Seq(Symbol)
        /\ net[s].rsp[1].type = "Signatures" /\ 1 \in DOMAIN net[s].rsp
        /\ base = net[s].rsp[1].base
    <3>1. Head(net[s].rsp).type = "Signatures" /\ net[s].rsp # <<>>
      BY <1>4 DEF ClPatch, Replied
    <3> QED BY <1>r, <3>1 DEF ServerMessage
  <2>4. Whole(s)
    BY <2>1, <2>2 DEF FreshInv, Fresh, ClientEnds
  <2>5. sv[s].pc # "sign"
    BY <2>3, <2>4 DEF Whole, WholeDelta
  <2>6. PatchSent(s, d, base, 0)
    BY <2>3, DeltaGives
  <2>7. Tail(u) = d
    <3>1. d \in Seq(Item)
      BY <2>3, DeltaType
    <3> HIDE DEF d
    <3>2. [op |-> "StartPatch"] \in Item BY DEF Item
    <3> QED BY <3>1, <3>2
  <2>8. ASSUME NEW i \in DOMAIN net'[s].rsp
        PROVE  i + 1 \in DOMAIN net[s].rsp /\ net'[s].rsp[i] = net[s].rsp[i + 1]
    BY <1>4, <1>r, <2>2, <2>8 DEF ClPatch, Replied
  <2> HIDE DEF u, d
  <2>9. WholeDelta(s)'
    <3>1. ASSUME sv[s].pc = "patchopen", Exists("file")
          PROVE  PatchSent(s, Tail(net[s].uni), data[dir["file"]], 0)'
      <4>1. base = data[dir["file"]]
        BY <2>3, <2>4, <3>1 DEF Whole, WholeDelta
      <4>2. PatchSent(s, d, data[dir["file"]], 0) BY <2>6, <4>1
      <4> QED BY <1>l, <2>2, <2>7, <4>2 DEF PatchSent
    <3> QED BY <1>l, <2>1, <2>4, <2>5, <2>8, <3>1 DEF Whole, WholeDelta, Exists
  <2>10. WholeCommit(s)'
    BY <1>l, <2>1, <2>2, <2>4, <2>8 DEF Whole, WholeCommit, Image
  <2>11. WholeUpload(s)' /\ WholeBlob(s)' /\ Sides(s)'
    BY <2>1, <2>2, <2>4 DEF Whole, WholeUpload, WholeBlob, Sides
  <2> QED BY <2>9, <2>10, <2>11 DEF Whole
<1>5. CASE ClEncrypt(s)
  <2> DEFINE ack == Head(net[s].rsp)
             skip == IF ack.old THEN 0 ELSE ack.offset
             blob == Blob(SubSeq(local[s], skip + 1, Len(local[s])))
             msg == [type |-> "SendFullEncrypted", size |-> Len(blob)]
  <2>1. /\ sv'[s] = sv[s] /\ cl[s].pc = "ack" /\ cl[s].enc /\ UNCHANGED steady
        /\ net[s].rsp # <<>>
    BY <1>5 DEF ClEncrypt, Replied
  <2>2. /\ net' = [net EXCEPT ![s] = [req |-> <<msg>>, rsp |-> Tail(net[s].rsp),
                                      uni |-> Raw(blob), fin |-> TRUE]]
        /\ cl' = [cl EXCEPT ![s] = [cl[s] EXCEPT !.pc = "verify", !.skip = skip]]
    BY <1>5 DEF ClEncrypt
  <2> HIDE DEF blob, skip
  <2>3. /\ net'[s].req = <<msg>> /\ net'[s].rsp = Tail(net[s].rsp)
        /\ net'[s].uni = Raw(blob) /\ msg.size = Len(blob)
        /\ cl'[s].pc = "verify" /\ cl'[s].enc = cl[s].enc /\ cl'[s].skip = skip
    BY <2>2 DEF ClientState
  <2>4. blob = Blob(local[s])
    <3>1. skip = 0
      BY <2>3 DEF Fresh
    <3>2. SubSeq(local[s], 1, Len(local[s])) = local[s]
      BY SubSeqFull
    <3>3. skip + 1 = 1
      BY <3>1
    <3> QED BY <3>2, <3>3 DEF blob
  <2>5. sv[s].pc \in {"failed", "encrypted"}
    BY <2>1, <2>3 DEF InStep
  <2>6. Whole(s)
    <3>1. IdleSkips(s)
      BY DEF FreshInv
    <3> QED BY <2>1, <3>1 DEF FreshInv, IdleSkips, Fresh, ClientEnds
  <2>7. ASSUME NEW i \in DOMAIN net'[s].rsp
        PROVE  i + 1 \in DOMAIN net[s].rsp /\ net'[s].rsp[i] = net[s].rsp[i + 1]
    BY <1>r, <2>1, <2>3, <2>7
  <2> HIDE DEF msg
  <2>8. WholeBlob(s)'
    <3>1. <<msg>>[1] = msg
      OBVIOUS
    <3> QED BY <1>l, <2>1, <2>3, <2>4, <2>5, <3>1 DEF WholeBlob
  <2>9. WholeCommit(s)'
    BY <1>l, <2>1, <2>3, <2>5, <2>6, <2>7 DEF Whole, WholeCommit, Image
  <2>10. WholeUpload(s)' /\ WholeDelta(s)' /\ Sides(s)'
    BY <2>1, <2>3, <2>5, <2>6 DEF Whole, WholeUpload, WholeDelta, Sides
  <2> QED BY <2>8, <2>9, <2>10 DEF Whole
<1> QED BY <1>1, <1>2, <1>3, <1>4, <1>5, <1>d, <1>e DEF ClientStep

(* A step of the server in a full upload.                                   *)
LEMMA FreshUpload ==
    ASSUME OneSession, FreshInv, NEW s \in Sessions, Whole(s), Fresh(s),
           SrvHandshake(s) \/ SrvOpenPart(s) \/ SrvRecv(s) \/ SrvRecvEnd(s)
    PROVE  Whole(s)'
<1> USE FreshFacts
<1>c. UNCHANGED <<local, cl>>
  BY DEF SrvHandshake, SrvOpenPart, SrvRecv, SrvRecvEnd
<1>1. CASE SrvHandshake(s)
  <2> DEFINE h == Head(net[s].req)
             ack == [type |-> "HandshakeAck", old |-> Exists("file"),
                     offset |-> SizeOf("part")]
  <2>1. /\ h.encrypted = cl[s].enc /\ h.size = Len(local[s])
        /\ net[s].rsp = <<>> /\ net[s].uni = <<>>
        /\ ~net[s].fin /\ cl[s].pc \in {"ack", "failed"}
    <3>1. Head(net[s].req) = net[s].req[1]
      BY <1>1, TrafficUpdate DEF SrvHandshake
    <3> QED BY <1>1, <3>1 DEF SrvHandshake, InStep, Whole, WholeUpload
  <2>2. /\ sv'[s] = [sv[s] EXCEPT !.pc = IF h.encrypted THEN "encrypted"
                                         ELSE IF Exists("file") THEN "sign" ELSE "open",
                                  !.size = h.size, !.off = SizeOf("part")]
        /\ UNCHANGED <<dir, data>> /\ sv[s].pc = "handshake"
    BY <1>1 DEF SrvHandshake
  <2>3. /\ net'[s].uni = <<>> /\ ~net'[s].fin /\ net'[s].rsp = Append(<<>>, ack)
    BY <1>1, <2>1 DEF SrvHandshake, Traffic
  <2>4. /\ net'[s].rsp[1] = ack
        /\ \A i \in DOMAIN net'[s].rsp : net'[s].rsp[i] = ack
    BY <2>3
  <2>5. ack.type = "HandshakeAck" /\ ack.offset = SizeOf("part")
    OBVIOUS
  <2>6. /\ sv'[s].pc \in (IF cl[s].enc THEN {"encrypted"} ELSE {"sign", "open"})
        /\ sv'[s].size = Len(local[s])
        /\ sv'[s].off = SizeOf("part") /\ sv'[s].out = sv[s].out
        /\ sv'[s].base = sv[s].base /\ sv'[s].buf = sv[s].buf /\ sv'[s].pos = sv[s].pos
    BY <2>1, <2>2 DEF ServerState
  <2> HIDE DEF ack, h
  <2>7. cl[s].pc = "ack"
    BY <2>1 DEF Fresh, ClientEnds
  <2>8. WholeUpload(s)'
    BY <1>c, <2>1, <2>4, <2>5, <2>6, <2>7 DEF WholeUpload
  <2>9. WholeDelta(s)' /\ WholeBlob(s)'
    BY <1>c, <2>1, <2>3, <2>4, <2>5, <2>6, <2>7 DEF WholeDelta, WholeBlob
  <2>10. WholeCommit(s)' /\ Sides(s)'
    BY <1>c, <2>2, <2>4, <2>5, <2>6 DEF Whole, WholeCommit, Sides
  <2> QED BY <2>8, <2>9, <2>10 DEF Whole
<1>2. CASE SrvOpenPart(s)
  <2>1. /\ net' = net /\ OpenPart(s) /\ sv[s].pc = "open" /\ cl[s].pc # "ack"
        /\ sv'[s] = [sv[s] EXCEPT !.pc = "recv", !.out = Opened("part"),
                                  !.append = sv[s].off > 0, !.got = sv[s].off]
    BY <1>2 DEF SrvOpenPart, InStep
  <2>2. /\ sv[s].size = Len(local[s]) /\ sv[s].off = 0
        /\ RawSent(s, 0) /\ sv[s].buf = <<>> /\ sv[s].pos = 0
        /\ sv[s].base = NoInode
    BY <2>1 DEF Whole, WholeUpload, Sides
  <2>3. /\ Opened("part") \in Inodes
        /\ dir' = [dir EXCEPT !["part"] = Opened("part")]
        /\ data' = [data EXCEPT ![Opened("part")] = <<>>]
    BY <2>1, <2>2, OpenPartType DEF OpenPart
  <2>4. /\ sv'[s].pc = "recv" /\ sv'[s].out = dir'["part"] /\ dir'["part"] \in Inodes
        /\ sv'[s].got = 0 /\ sv'[s].size = sv[s].size /\ sv'[s].buf = <<>>
        /\ sv'[s].pos = 0 /\ sv'[s].base = NoInode
    BY <2>1, <2>2, <2>3 DEF ServerState
  <2>5. data'[dir'["part"]] = <<>>
    BY <2>3, <2>4
  <2>6. Content(s)' = <<>> /\ Writing(s, "part")'
    <3>1. <<>> \o <<>> = <<>> /\ Len(<<>>) = 0
      OBVIOUS
    <3> QED BY <2>4, <2>5, <3>1 DEF Content, Writing, Appending
  <2>7. RawSent(s, sv[s].got)'
    BY <1>c, <2>1, <2>2, <2>4 DEF RawSent
  <2>8. IsPrefixOf(Content(s), local[s])' /\ Len(Content(s)') = 0
    BY <1>c, <2>6 DEF IsPrefixOf
  <2>9. WholeUpload(s)'
    BY <1>c, <2>2, <2>4, <2>6, <2>7, <2>8 DEF WholeUpload
  <2>10. WholeDelta(s)' /\ WholeBlob(s)'
    BY <2>4 DEF WholeDelta, WholeBlob
  <2>11. WholeCommit(s)' /\ Sides(s)'
    BY <1>c, <2>1, <2>4 DEF Whole, WholeCommit, Sides, Image
  <2> QED BY <2>9, <2>10, <2>11 DEF Whole
<1>3. CASE SrvRecv(s)
  <2> DEFINE t == [sv[s] EXCEPT !.got = @ + 1]
             e == Head(net[s].uni).sym
  <2>1. /\ sv[s].pc = "recv" /\ net[s].uni # <<>> /\ Buffered(s, t, <<e>>)
        /\ net' = [net EXCEPT ![s].uni = Tail(@)] /\ dir' = dir
    BY <1>3 DEF SrvRecv
  <2>2. /\ sv[s].size = Len(local[s]) /\ Writing(s, "part")
        /\ sv[s].got = Len(Content(s)) /\ IsPrefixOf(Content(s), local[s])
        /\ RawSent(s, sv[s].got) /\ sv[s].got \in Nat /\ sv[s].base = NoInode
        /\ sv[s].out \in Inodes /\ Appending(s) /\ ~cl[s].enc
    BY <2>1, ServerFields DEF Whole, WholeUpload, Sides, Writing
  <2>3. t \in ServerState /\ t.out = sv[s].out /\ t.buf = sv[s].buf
        /\ t.append = sv[s].append /\ t.pos = sv[s].pos /\ t.got = sv[s].got + 1
        /\ t.size = sv[s].size /\ t.base = sv[s].base /\ t.pc = "recv"
    <3>1. sv[s].got + 1 \in Nat BY <2>2
    <3>2. t \in ServerState BY <3>1, ServerUpdate
    <3> QED BY <2>1, <3>2 DEF ServerState
  <2>4. e = local[s][sv[s].got + 1] /\ sv[s].got < Len(local[s]) /\ e \in Symbol
    <3>1. e = local[s][sv[s].got + 1] /\ sv[s].got < Len(local[s])
      BY <1>c, <2>1, <2>2, RawGoesOn
    <3> QED BY <2>2, <3>1
  <2> HIDE DEF t, e
  <2>5. <<e>> \in Seq(Symbol) /\ (t.append \/ t.pos = Len(data[t.out]))
    BY <2>2, <2>3, <2>4 DEF Appending
  <2>6. /\ GrewBy(s, t, <<e>>) /\ Appending(s)'
        /\ sv'[s] = [t EXCEPT !.pos = sv'[s].pos, !.buf = sv'[s].buf]
    <3>1. TypeOK /\ t \in ServerState /\ t.out \in Inodes
      BY <2>2, <2>3
    <3> QED BY ONLY <2>1, <2>5, <3>1, BufferedAppends
  <2>7. /\ sv'[s].pc = "recv" /\ sv'[s].out = sv[s].out /\ sv'[s].size = sv[s].size
        /\ sv'[s].got = sv[s].got + 1 /\ sv'[s].base = NoInode
    BY <2>2, <2>3, <2>6 DEF ServerState
  <2>8. Content(s)' = Content(s) \o <<e>>
    BY <2>2, <2>3, <2>6, <2>7 DEF Content, GrewBy
  <2>9. IsPrefixOf(Content(s) \o <<e>>, local[s])
         /\ Len(Content(s) \o <<e>>) = sv[s].got + 1
    BY <2>2, <2>4, PrefixGrows
  <2>10. RawSent(s, sv[s].got)'
    <3>1. PICK g \in Nat : g = sv[s].got
      BY <2>2
    <3>2. RawSent(s, g + 1)'
      BY <1>c, <2>1, <2>2, <3>1, RawGoesOn
    <3> QED BY <2>7, <3>1, <3>2 DEF RawSent
  <2>11. Writing(s, "part")'
    BY <2>1, <2>2, <2>6, <2>7 DEF Writing, Exists
  <2>12. WholeUpload(s)'
    BY <1>c, <2>2, <2>7, <2>8, <2>9, <2>10, <2>11 DEF WholeUpload
  <2>13. net'[s].rsp = net[s].rsp
    BY <2>1, NextItem
  <2>14. WholeDelta(s)' /\ WholeBlob(s)' /\ WholeCommit(s)' /\ Sides(s)'
    BY <1>c, <2>2, <2>7, <2>13
       DEF Whole, WholeDelta, WholeBlob, WholeCommit, Sides, Image
  <2> QED BY <2>12, <2>14 DEF Whole
<1>4. CASE SrvRecvEnd(s)
  <2>1. /\ sv[s].pc = "recv" /\ net[s].uni = <<>> /\ net[s].fin
        /\ UNCHANGED <<dir, net>> /\ data' = Kept(Dropped(sv[s]))
        /\ sv'[s] = IF sv[s].got = sv[s].size
                    THEN [Ended("rename") EXCEPT !.from = "part"] ELSE Ended("failed")
    BY <1>4 DEF SrvRecvEnd
  <2>2. /\ sv[s].size = Len(local[s]) /\ Writing(s, "part") /\ ~cl[s].enc
        /\ IsPrefixOf(Content(s), local[s]) /\ sv[s].got = Len(local[s])
        /\ sv[s].got = Len(Content(s))
    <3>1. sv[s].got \in Nat /\ Len(net[s].uni) = 0 BY <2>1, ServerFields
    <3> QED BY <2>1, <3>1 DEF Whole, WholeUpload, Sides, RawSent
  <2>3. Exists("part") => data'[dir["part"]] = local[s]
    <3> SUFFICES ASSUME Exists("part") PROVE data'[dir["part"]] = local[s]
      OBVIOUS
    <3>1. sv[s].out = dir["part"] /\ sv[s].out \in Inodes /\ Appending(s)
      BY <2>2 DEF Writing
    <3>2. Dropped(sv[s])[dir["part"]] = Content(s)
      BY <3>1, DroppedAppends
    <3>3. data'[dir["part"]] = Content(s)
      BY <2>1, <3>1, <3>2, NamedIsKept
    <3>4. Content(s) = local[s]
      BY <2>2, <3>1, PrefixWhole
    <3> QED BY <3>3, <3>4
  <2>4. sv'[s] = [Ended("rename") EXCEPT !.from = "part"]
    BY <2>1, <2>2
  <2>5. /\ sv'[s].pc = "rename" /\ sv'[s].from = "part" /\ sv'[s].out = NoInode
        /\ sv'[s].base = NoInode /\ sv'[s].buf = <<>> /\ sv'[s].pos = 0
    BY <2>4 DEF Ended, IdleServer
  <2>6. WholeUpload(s)' /\ WholeDelta(s)' /\ WholeBlob(s)' /\ Sides(s)'
    BY <2>5 DEF WholeUpload, WholeDelta, WholeBlob, Sides
  <2>7. WholeCommit(s)'
    BY <1>c, <2>1, <2>2, <2>3, <2>5 DEF Whole, WholeCommit, Exists, Image
  <2> QED BY <2>6, <2>7 DEF Whole
<1> QED BY <1>1, <1>2, <1>3, <1>4

(* A step of the server in a delta.                                         *)
LEMMA FreshDelta ==
    ASSUME OneSession, FreshInv, NEW s \in Sessions, Whole(s),
           SrvSign(s) \/ SrvPatchOpen(s) \/ SrvPatch(s) \/ SrvPatchEnd(s)
    PROVE  Whole(s)'
<1> USE FreshFacts
<1>c. UNCHANGED <<local, cl>>
  BY DEF SrvSign, SrvPatchOpen, SrvPatch, SrvPatchEnd
<1>1. CASE SrvSign(s)
  <2>1. CASE ~Exists("file")
    BY <1>1, <1>c, <2>1, FailedIsWhole DEF SrvSign, Fail
  <2>2. CASE Exists("file")
    <3> DEFINE sig == [type |-> "Signatures", base |-> data[dir["file"]]]
    <3>1. /\ sv'[s] = [sv[s] EXCEPT !.pc = "patchopen"] /\ UNCHANGED <<dir, data>>
          /\ net'[s].rsp = Append(net[s].rsp, sig) /\ net'[s].uni = net[s].uni
          /\ sv[s].pc = "sign"
      <4>1. net' = [net EXCEPT ![s] = [net[s] EXCEPT !.rsp = Append(net[s].rsp, sig)]]
        BY <1>1, <2>2 DEF SrvSign
      <4>2. /\ sv'[s] = [sv[s] EXCEPT !.pc = "patchopen"] /\ UNCHANGED <<dir, data>>
            /\ sv[s].pc = "sign"
        BY <1>1, <2>2 DEF SrvSign
      <4> HIDE DEF sig
      <4>3. net'[s].rsp = Append(net[s].rsp, sig) /\ net'[s].uni = net[s].uni
        BY <4>1 DEF Traffic
      <4> QED BY <4>2, <4>3
    <3>2. sig \in ServerMessage /\ sig.type = "Signatures" /\ sig.base = data[dir["file"]]
      BY <2>2 DEF ServerMessage
    <3> HIDE DEF sig
    <3>3. \A i \in DOMAIN net'[s].rsp :
             net'[s].rsp[i] = sig
             \/ (i \in DOMAIN net[s].rsp /\ net'[s].rsp[i] = net[s].rsp[i])
      BY <3>1, <3>2, Answered
    <3>4. /\ sv'[s].pc = "patchopen" /\ sv'[s].out = sv[s].out /\ sv'[s].buf = sv[s].buf
          /\ sv'[s].pos = sv[s].pos /\ sv'[s].base = sv[s].base
      BY <3>1 DEF ServerState
    <3>5. WholeDelta(s)'
      <4>1. net'[s].uni = <<>>
            /\ \A i \in DOMAIN net[s].rsp : net[s].rsp[i].type # "Signatures"
        BY <3>1 DEF Whole, WholeDelta
      <4> QED BY <3>1, <3>2, <3>3, <3>4, <4>1 DEF WholeDelta, Exists
    <3>6. WholeCommit(s)'
      BY <1>c, <3>1, <3>2, <3>3, <3>4 DEF Whole, WholeCommit, Image
    <3>7. WholeUpload(s)' /\ WholeBlob(s)' /\ Sides(s)'
      BY <1>c, <3>1, <3>4 DEF Whole, WholeUpload, WholeBlob, Sides
    <3> QED BY <3>5, <3>6, <3>7 DEF Whole
  <2> QED BY <2>1, <2>2
<1>2. CASE SrvPatchOpen(s)
  <2>1. CASE ~(Exists("file") /\ Head(net[s].uni).op = "StartPatch")
    BY <1>2, <1>c, <2>1, FailedIsWhole DEF SrvPatchOpen, Fail
  <2>2. CASE Exists("file") /\ Head(net[s].uni).op = "StartPatch"
    <3> DEFINE o == Opened("tmp")
    <3>1. /\ sv[s].pc = "patchopen" /\ net[s].uni # <<>> /\ CanOpen("tmp")
          /\ dir' = [dir EXCEPT !["tmp"] = o] /\ data' = [data EXCEPT ![o] = <<>>]
          /\ sv'[s] = [sv[s] EXCEPT !.pc = "patch", !.out = o, !.base = dir["file"]]
          /\ net' = [net EXCEPT ![s].uni = Tail(@)]
      BY <1>2, <2>2 DEF SrvPatchOpen
    <3>2. o \in Inodes /\ o # dir["file"] /\ dir["file"] \in Inodes
      BY <2>2, <3>1, OpenedElsewhere
    <3> HIDE DEF o
    <3>3. /\ sv'[s].pc = "patch" /\ sv'[s].out = o /\ sv'[s].base = dir["file"]
          /\ sv'[s].buf = <<>> /\ sv'[s].pos = 0 /\ ~cl[s].enc
      BY <3>1 DEF ServerState, Whole, Sides
    <3>4. /\ dir'["tmp"] = o /\ data'[o] = <<>>
          /\ data'[dir["file"]] = data[dir["file"]]
      BY <3>1, <3>2
    <3>5. net'[s].uni = Tail(net[s].uni) /\ net'[s].rsp = net[s].rsp
      BY <3>1, NextItem
    <3>6. PatchSent(s, net[s].uni, data[sv[s].base], 0)'
      <4>1. PatchSent(s, Tail(net[s].uni), data[dir["file"]], 0)
        BY <2>2, <3>1 DEF Whole, WholeDelta
      <4> QED BY <1>c, <3>3, <3>4, <3>5, <4>1 DEF PatchSent
    <3>7. Content(s)' = <<>> /\ Writing(s, "tmp")'
      <4>1. <<>> \o <<>> = <<>> /\ Len(<<>>) = 0
        OBVIOUS
      <4> QED BY <3>2, <3>3, <3>4, <4>1 DEF Content, Writing, Appending
    <3>8. IsPrefixOf(Content(s), local[s])' /\ Len(Content(s))' = 0
      BY <1>c, <3>7 DEF IsPrefixOf
    <3>9. PatchSent(s, net[s].uni, data[sv[s].base], Len(Content(s)))'
      BY <3>6, <3>8 DEF PatchSent
    <3>10. WholeDelta(s)'
      BY <3>2, <3>3, <3>7, <3>8, <3>9 DEF WholeDelta
    <3>11. WholeUpload(s)' /\ WholeBlob(s)' /\ WholeCommit(s)' /\ Sides(s)'
      BY <1>c, <3>3, <3>5 DEF Whole, WholeUpload, WholeBlob, WholeCommit, Sides, Image
    <3> QED BY <3>10, <3>11 DEF Whole
  <2> QED BY <2>1, <2>2
<1>3. CASE SrvPatch(s)
  <2> DEFINE i == Head(net[s].uni)
             base == data[sv[s].base]
             e == IF i.op = "Copy" THEN base[i.at] ELSE i.sym
  <2>1. /\ sv[s].pc = "patch" /\ net[s].uni # <<>>
        /\ net' = [net EXCEPT ![s].uni = Tail(@)]
    BY <1>3 DEF SrvPatch
  <2>2. /\ sv[s].base \in Inodes /\ sv[s].base # sv[s].out /\ Writing(s, "tmp")
        /\ IsPrefixOf(Content(s), local[s]) /\ sv[s].out \in Inodes /\ Appending(s)
        /\ PatchSent(s, net[s].uni, base, Len(Content(s))) /\ ~cl[s].enc
    BY <2>1 DEF Whole, WholeDelta, Sides, Writing
  <2>3. Content(s) \in Seq(Symbol) /\ Len(Content(s)) \in Nat
    BY <2>2
  <2>4. net'[s].rsp = net[s].rsp
    BY <2>1, NextItem
  <2>5. CASE Fail(s)
    BY <1>c, <2>4, <2>5, FailedIsWhole DEF Fail
  <2>6. CASE ~Fail(s)
    <3>1. Buffered(s, sv[s], <<e>>) /\ dir' = dir
      BY <1>3, <2>6 DEF SrvPatch
    <3>2. e = local[s][Len(Content(s)) + 1] /\ Len(Content(s)) < Len(local[s])
          /\ e \in Symbol
      <4>1. e = local[s][Len(Content(s)) + 1] /\ Len(Content(s)) < Len(local[s])
        BY <2>1, <2>2, <2>3, PatchGoesOn
      <4> HIDE DEF e
      <4> QED BY <2>3, <4>1
    <3> HIDE DEF e, i
    <3>3. <<e>> \in Seq(Symbol) /\ (sv[s].append \/ sv[s].pos = Len(data[sv[s].out]))
      BY <2>2, <3>2 DEF Appending
    <3>4. /\ GrewBy(s, sv[s], <<e>>) /\ Appending(s)'
          /\ sv'[s] = [sv[s] EXCEPT !.pos = sv'[s].pos, !.buf = sv'[s].buf]
          /\ \A k \in Inodes : k # sv[s].out => data'[k] = data[k]
      <4>1. TypeOK /\ sv[s] \in ServerState /\ sv[s].out \in Inodes
        BY <2>2
      <4> QED BY ONLY <3>1, <3>3, <4>1, BufferedAppends
    <3>5. /\ sv'[s].pc = "patch" /\ sv'[s].out = sv[s].out /\ sv'[s].base = sv[s].base
      BY <2>1, <3>4 DEF ServerState
    <3>6. Content(s)' = Content(s) \o <<e>>
      BY <3>4, <3>5 DEF Content, GrewBy
    <3>7. IsPrefixOf(Content(s) \o <<e>>, local[s])
          /\ Len(Content(s) \o <<e>>) = Len(Content(s)) + 1
      BY <2>2, <2>3, <3>2, PrefixGrows
    <3>8. base' = base
      BY <2>2, <3>4, <3>5
    <3> HIDE DEF base
    <3>9. PatchSent(s, net[s].uni, base, Len(Content(s)))'
      <4>1. PatchSent(s, net'[s].uni, base, Len(Content(s)) + 1)
        BY <2>1, <2>2, <2>3, PatchGoesOn
      <4>2. Len(Content(s))' = Len(Content(s)) + 1
        BY <3>6, <3>7
      <4> QED BY <1>c, <3>8, <4>1, <4>2 DEF PatchSent
    <3>10. Writing(s, "tmp")'
      BY <2>2, <3>1, <3>4, <3>5 DEF Writing, Exists
    <3>11. WholeDelta(s)'
      BY <1>c, <2>2, <3>5, <3>6, <3>7, <3>9, <3>10 DEF WholeDelta, base
    <3>12. WholeUpload(s)' /\ WholeBlob(s)' /\ WholeCommit(s)' /\ Sides(s)'
      BY <1>c, <2>2, <2>4, <3>5
         DEF Whole, WholeUpload, WholeBlob, WholeCommit, Sides, Image
    <3> QED BY <3>11, <3>12 DEF Whole
  <2> QED BY <2>5, <2>6
<1>4. CASE SrvPatchEnd(s)
  <2>1. /\ sv[s].pc = "patch" /\ net[s].uni = <<>> /\ UNCHANGED <<dir, net>>
        /\ data' = Kept(Dropped(sv[s]))
        /\ sv'[s] = [Ended("rename") EXCEPT !.from = "tmp"]
    BY <1>4 DEF SrvPatchEnd
  <2>2. /\ Writing(s, "tmp") /\ sv[s].out \in Inodes /\ Appending(s) /\ ~cl[s].enc
        /\ IsPrefixOf(Content(s), local[s]) /\ Len(Content(s)) = Len(local[s])
    <3>1. /\ Writing(s, "tmp") /\ sv[s].out \in Inodes /\ Appending(s) /\ ~cl[s].enc
          /\ IsPrefixOf(Content(s), local[s])
          /\ Len(Content(s)) + Len(net[s].uni) = Len(local[s])
      BY <2>1 DEF Whole, WholeDelta, PatchSent, Sides, Writing
    <3>2. Len(net[s].uni) = 0 /\ Len(Content(s)) \in Nat
      BY <2>1, <3>1
    <3> QED BY <3>1, <3>2
  <2>3. Exists("tmp") => data'[dir["tmp"]] = local[s]
    <3> SUFFICES ASSUME Exists("tmp") PROVE data'[dir["tmp"]] = local[s]
      OBVIOUS
    <3>1. sv[s].out = dir["tmp"]
      BY <2>2 DEF Writing
    <3>2. Dropped(sv[s])[dir["tmp"]] = Content(s)
      BY <2>2, <3>1, DroppedAppends
    <3>3. data'[dir["tmp"]] = Content(s)
      BY <2>1, <2>2, <3>1, <3>2, NamedIsKept
    <3>4. Content(s) = local[s]
      BY <2>2, PrefixWhole
    <3> QED BY <3>3, <3>4
  <2>4. /\ sv'[s].pc = "rename" /\ sv'[s].from = "tmp" /\ sv'[s].out = NoInode
        /\ sv'[s].base = NoInode /\ sv'[s].buf = <<>> /\ sv'[s].pos = 0
    BY <2>1 DEF Ended, IdleServer
  <2>5. WholeUpload(s)' /\ WholeDelta(s)' /\ WholeBlob(s)' /\ Sides(s)'
    BY <2>4 DEF WholeUpload, WholeDelta, WholeBlob, Sides
  <2>6. WholeCommit(s)'
    BY <1>c, <2>1, <2>2, <2>3, <2>4 DEF Whole, WholeCommit, Exists, Image
  <2> QED BY <2>5, <2>6 DEF Whole
<1> QED BY <1>1, <1>2, <1>3, <1>4

(* The symbols of a blob that was sent are the blob.                        *)
LEMMA BlobBack ==
    ASSUME NEW x \in Seq(Block), NEW u \in Seq(Item), u = Raw(Blob(x))
    PROVE  /\ Blob(x) \in Seq(Symbol) /\ Len(u) = Len(Blob(x))
           /\ Len(Blob(x)) \in Nat /\ [k \in DOMAIN u |-> u[k].sym] = Blob(x)
<1> DEFINE b == Blob(x)
<1>1. b \in Seq(Symbol)
  <2>1. ASSUME NEW i \in 1..(Len(x) + 1) PROVE <<x, i>> \in Symbol
    BY DEF Symbol
  <2> QED BY <2>1 DEF Blob
<1> HIDE DEF b
<1>2. DOMAIN u = DOMAIN b /\ \A k \in DOMAIN u : u[k].sym = b[k]
  BY DEF Raw, b
<1>3. Len(u) = Len(b) /\ Len(b) \in Nat
  BY <1>1, <1>2
<1>4. [k \in DOMAIN u |-> u[k].sym] = [k \in DOMAIN b |-> b[k]]
  BY <1>2
<1>5. [k \in DOMAIN b |-> b[k]] = b
  BY <1>1
<1> QED BY <1>1, <1>3, <1>4, <1>5 DEF b

(* A step of the server in an encrypted upload.                             *)
LEMMA FreshBlob ==
    ASSUME OneSession, FreshInv, NEW s \in Sessions, Whole(s),
           SrvEncrypted(s) \/ SrvEncRecvEnd(s) \/ SrvEncWrite(s)
    PROVE  Whole(s)'
<1> USE FreshFacts
<1>c. UNCHANGED <<local, cl>>
  BY DEF SrvEncrypted, SrvEncRecvEnd, SrvEncWrite
<1> DEFINE blob == Blob(local[s])
<1>1. CASE SrvEncrypted(s)
  <2>1. /\ sv[s].pc = "encrypted" /\ net[s].req # <<>> /\ UNCHANGED <<dir, data>>
        /\ sv'[s] = [sv[s] EXCEPT !.pc = "encrecv", !.size = Head(net[s].req).size,
                                  !.off = SizeOf("part")]
        /\ net'[s].uni = net[s].uni /\ net'[s].rsp = net[s].rsp
    BY <1>1 DEF SrvEncrypted, Traffic
  <2>2. cl[s].pc # "ack"
    BY <2>1 DEF InStep
  <2>3. net[s].uni = Raw(blob) /\ net[s].req[1].size = Len(blob)
    BY <2>1, <2>2 DEF Whole, WholeBlob
  <2>4. Head(net[s].req) = net[s].req[1]
    BY <2>1, TrafficUpdate
  <2>5. /\ sv'[s].pc = "encrecv" /\ sv'[s].size = Len(blob) /\ sv'[s].out = sv[s].out
        /\ sv'[s].base = sv[s].base /\ sv'[s].buf = sv[s].buf /\ sv'[s].pos = sv[s].pos
    BY <2>1, <2>3, <2>4 DEF ServerState
  <2>6. WholeBlob(s)'
    BY <1>c, <2>1, <2>3, <2>5 DEF WholeBlob
  <2>7. WholeUpload(s)' /\ WholeDelta(s)' /\ WholeCommit(s)' /\ Sides(s)'
    BY <1>c, <2>1, <2>5 DEF Whole, WholeUpload, WholeDelta, WholeCommit, Sides, Image
  <2> QED BY <2>6, <2>7 DEF Whole
<1>2. CASE SrvEncRecvEnd(s)
  <2>1. sv[s].pc = "encrecv" /\ net' = [net EXCEPT ![s].uni = <<>>]
    BY <1>2 DEF SrvEncRecvEnd
  <2>2. net'[s].rsp = net[s].rsp
    BY <2>1 DEF Traffic
  <2>3. CASE sv[s].off + Len(net[s].uni) # sv[s].size
    BY <1>2, <1>c, <2>2, <2>3, FailedIsWhole DEF SrvEncRecvEnd, Fail
  <2>4. CASE sv[s].off + Len(net[s].uni) = sv[s].size
    <3> DEFINE got == [k \in DOMAIN net[s].uni |-> net[s].uni[k].sym]
    <3>1. /\ OpenPart(s)
          /\ sv'[s] = [sv[s] EXCEPT !.pc = "encwrite", !.out = Opened("part"),
                                    !.append = sv[s].off > 0, !.buf = got]
      BY <1>2, <2>4 DEF SrvEncRecvEnd
    <3>2. /\ net[s].uni = Raw(blob) /\ sv[s].size = Len(blob)
          /\ sv[s].pos = 0 /\ sv[s].base = NoInode /\ cl[s].enc
      BY <2>1 DEF Whole, WholeBlob, Sides
    <3>3. /\ blob \in Seq(Symbol) /\ Len(net[s].uni) = Len(blob) /\ got = blob
          /\ Len(blob) \in Nat
      BY <3>2, BlobBack
    <3> HIDE DEF blob, got
    <3>4. sv[s].off = 0
      <4>1. sv[s].off \in Nat BY ServerFields
      <4> QED BY <2>4, <3>2, <3>3, <4>1
    <3>5. /\ Opened("part") \in Inodes
          /\ dir' = [dir EXCEPT !["part"] = Opened("part")]
          /\ data' = [data EXCEPT ![Opened("part")] = <<>>]
      BY <3>1, <3>4, OpenPartType DEF OpenPart
    <3>6. /\ sv'[s].pc = "encwrite" /\ sv'[s].out = dir'["part"]
          /\ dir'["part"] \in Inodes /\ sv'[s].buf = blob
          /\ sv'[s].pos = 0 /\ sv'[s].base = NoInode
      BY <3>1, <3>2, <3>3, <3>5 DEF ServerState
    <3>7. data'[dir'["part"]] = <<>>
      BY <3>5, <3>6
    <3>8. Content(s)' = blob /\ Writing(s, "part")'
      <4>1. <<>> \o blob = blob /\ Len(<<>>) = 0
        BY <3>3
      <4> QED BY <3>6, <3>7, <4>1 DEF Content, Writing, Appending
    <3>9. WholeBlob(s)'
      BY <1>c, <3>6, <3>8 DEF WholeBlob, blob
    <3>10. WholeUpload(s)' /\ WholeDelta(s)' /\ WholeCommit(s)' /\ Sides(s)'
      BY <1>c, <2>2, <3>2, <3>6
         DEF Whole, WholeUpload, WholeDelta, WholeCommit, Sides, Image
    <3> QED BY <3>9, <3>10 DEF Whole
  <2> QED BY <2>3, <2>4
<1>3. CASE SrvEncWrite(s)
  <2> DEFINE t == sv[s]
  <2>1. PICK k \in 1..Len(t.buf) :
          /\ sv' = [sv EXCEPT
                      ![s] = IF k = Len(t.buf)
                             THEN [Ended("rename") EXCEPT !.from = "part"]
                             ELSE [t EXCEPT !.pos = @ + k,
                                            !.buf = SubSeq(@, k + 1, Len(@))]]
          /\ data' = Kept(Written(t, SubSeq(t.buf, 1, k)))
    BY <1>3 DEF SrvEncWrite
  <2>2. t.pc = "encwrite" /\ UNCHANGED <<dir, net>>
    BY <1>3 DEF SrvEncWrite
  <2>3. /\ Writing(s, "part") /\ t.out \in Inodes /\ Appending(s)
        /\ Content(s) = blob /\ cl[s].enc /\ t.base = NoInode
    BY <2>2 DEF Whole, WholeBlob, Writing, Sides
  <2>4. t.buf \in Seq(Symbol) /\ t.pos \in Nat /\ data[t.out] \in Seq(Symbol)
        /\ Len(t.buf) \in Nat
    BY <2>3, ServerFields
  <2> DEFINE y == SubSeq(t.buf, 1, k)
             z == SubSeq(t.buf, k + 1, Len(t.buf))
  <2>5. y \in Seq(Symbol) /\ z \in Seq(Symbol) /\ Len(y) = k /\ y \o z = t.buf
    <3>1. y \in Seq(Symbol) /\ z \in Seq(Symbol) /\ Len(y) = k
      BY <2>4
    <3>2. y \o z = SubSeq(t.buf, 1, Len(t.buf))
      <4>1. 1 \in 1..(Len(t.buf) + 1) /\ k \in (1 - 1)..Len(t.buf)
            /\ Len(t.buf) \in k..Len(t.buf)
        BY <2>4
      <4> QED BY <2>4, <4>1, ConcatAdjacentSubSeq
    <3>3. SubSeq(t.buf, 1, Len(t.buf)) = t.buf
      BY <2>4, SubSeqFull
    <3> QED BY <3>1, <3>2, <3>3
  <2>6. Written(t, y) = [data EXCEPT ![t.out] = data[t.out] \o y]
    BY <2>3, <2>4, <2>5, WrittenAppends DEF Appending
  <2> HIDE DEF blob
  <2>7. CASE k = Len(t.buf)
    <3>1. y = t.buf
      BY <2>4, <2>7, SubSeqFull
    <3>2. /\ sv'[s].pc = "rename" /\ sv'[s].from = "part" /\ sv'[s].out = NoInode
          /\ sv'[s].base = NoInode /\ sv'[s].buf = <<>> /\ sv'[s].pos = 0
      BY <2>1, <2>7 DEF Ended, IdleServer
    <3>3. Exists("part") => data'[dir["part"]] = blob
      <4> SUFFICES ASSUME Exists("part") PROVE data'[dir["part"]] = blob
        OBVIOUS
      <4>1. t.out = dir["part"]
        BY <2>3 DEF Writing
      <4>2. Written(t, y)[dir["part"]] = blob
        BY <2>3, <2>6, <3>1, <4>1 DEF Content
      <4> QED BY <2>1, <2>2, <2>3, <4>1, <4>2, NamedIsKept
    <3>4. WholeUpload(s)' /\ WholeDelta(s)' /\ WholeBlob(s)' /\ Sides(s)'
      BY <3>2 DEF WholeUpload, WholeDelta, WholeBlob, Sides
    <3>5. WholeCommit(s)'
      BY <1>c, <2>2, <2>3, <3>2, <3>3 DEF Whole, WholeCommit, Exists, Image, blob
    <3> QED BY <3>4, <3>5 DEF Whole
  <2>8. CASE k # Len(t.buf)
    <3>1. sv'[s] = [t EXCEPT !.pos = t.pos + k, !.buf = z]
      BY <2>1, <2>8
    <3> HIDE DEF y, z
    <3>2. /\ sv'[s].pc = "encwrite" /\ sv'[s].out = t.out /\ sv'[s].buf = z
          /\ sv'[s].pos = t.pos + k /\ sv'[s].append = t.append
          /\ sv'[s].base = NoInode
      BY <2>2, <2>3, <3>1 DEF ServerState
    <3>3. data'[t.out] = data[t.out] \o y
      <4>1. data'[t.out] = Written(t, y)[t.out]
        BY <2>1, <2>3, <3>2 DEF Kept, y
      <4> QED BY <2>3, <2>6, <4>1
    <3>4. Content(s)' = blob
      <4>1. (data[t.out] \o y) \o z = data[t.out] \o (y \o z)
        BY <2>4, <2>5, Regrouped
      <4>2. data[t.out] \o (y \o z) = blob
        BY <2>3, <2>5 DEF Content
      <4> QED BY <3>2, <3>3, <4>1, <4>2 DEF Content
    <3>5. Writing(s, "part")'
      <4>1. Len(data[t.out] \o y) = Len(data[t.out]) + k
        BY <2>4, <2>5, ConcatProperties
      <4>2. Appending(s)'
        BY <2>3, <3>2, <3>3, <4>1 DEF Appending
      <4> QED BY <2>2, <2>3, <3>2, <4>2 DEF Writing, Exists
    <3>6. WholeBlob(s)'
      BY <1>c, <3>2, <3>4, <3>5 DEF WholeBlob, blob
    <3>7. WholeUpload(s)' /\ WholeDelta(s)' /\ WholeCommit(s)' /\ Sides(s)'
      BY <1>c, <2>2, <2>3, <3>2
         DEF Whole, WholeUpload, WholeDelta, WholeCommit, Sides, Image
    <3> QED BY <3>6, <3>7 DEF Whole
  <2> QED BY <2>7, <2>8
<1> QED BY <1>1, <1>2, <1>3

(* The commit of a run, and what ends a task.                               *)
LEMMA FreshCommit ==
    ASSUME OneSession, FreshInv, NEW s \in Sessions, Whole(s),
           SrvRename(s) \/ SrvVerify(s) \/ SrvLost(s) \/ ServerCrash
    PROVE  Whole(s)'
<1> USE FreshFacts
<1>c. UNCHANGED <<local, cl>>
  BY DEF SrvRename, SrvVerify, SrvLost, ServerCrash
<1>1. CASE SrvRename(s)
  <2> DEFINE n == sv[s].from
  <2>1. CASE ~Exists(n)
    BY <1>1, <1>c, <2>1, FailedIsWhole DEF SrvRename, Fail
  <2>2. CASE Exists(n)
    <3>1. /\ data[dir[n]] = Image(s, local[s]) /\ n \in Names
          /\ sv[s].pc = "rename"
      BY <1>1, <2>2, ServerFields DEF SrvRename, Whole, WholeCommit
    <3>2. /\ dir' = [dir EXCEPT !["file"] = dir[n], ![n] = NoInode]
          /\ sv'[s] = [sv[s] EXCEPT !.pc = "verify"] /\ data' = Kept(data)
          /\ UNCHANGED net /\ n \in {"part", "tmp"}
      BY <1>1, <2>2, ServerFields DEF SrvRename
    <3>3. dir[n] \in Inodes /\ dir'["file"] = dir[n]
      BY <2>2, <3>1, <3>2
    <3>4. data'[dir'["file"]] = Image(s, local[s])
      BY <3>1, <3>2, <3>3, NamedIsKept
    <3>5. /\ sv'[s].pc = "verify" /\ sv'[s].out = sv[s].out /\ sv'[s].buf = sv[s].buf
          /\ sv'[s].pos = sv[s].pos /\ sv'[s].base = sv[s].base
      BY <3>2 DEF ServerState
    <3>6. WholeCommit(s)'
      BY <1>c, <3>2, <3>4, <3>5 DEF Whole, WholeCommit, Image
    <3>7. WholeUpload(s)' /\ WholeDelta(s)' /\ WholeBlob(s)' /\ Sides(s)'
      BY <1>c, <3>1, <3>5 DEF Whole, WholeUpload, WholeDelta, WholeBlob, Sides
    <3> QED BY <3>6, <3>7 DEF Whole
  <2> QED BY <2>1, <2>2
<1>2. CASE SrvVerify(s)
  <2>1. CASE ~Exists("file")
    BY <1>2, <1>c, <2>1, FailedIsWhole DEF SrvVerify, Fail
  <2>2. CASE Exists("file")
    <3> DEFINE res == [type |-> "VerifyResult", sum |-> data[dir["file"]]]
    <3>1. data[dir["file"]] = Image(s, local[s]) /\ sv[s].pc = "verify"
      BY <1>2, <2>2 DEF SrvVerify, Whole, WholeCommit
    <3>2. /\ sv'[s] = Ended("done") /\ UNCHANGED <<dir, data>>
          /\ net'[s].rsp = Append(net[s].rsp, res)
      BY <1>2, <2>2 DEF SrvVerify, Traffic
    <3>3. /\ res \in ServerMessage /\ res.type = "VerifyResult"
          /\ res.sum = Image(s, local[s])
      BY <2>2, <3>1 DEF ServerMessage
    <3> HIDE DEF res
    <3>4. \A i \in DOMAIN net'[s].rsp :
             net'[s].rsp[i] = res
             \/ (i \in DOMAIN net[s].rsp /\ net'[s].rsp[i] = net[s].rsp[i])
      BY <3>2, <3>3, Answered
    <3>5. /\ sv'[s].pc = "done" /\ sv'[s].out = NoInode /\ sv'[s].base = NoInode
          /\ sv'[s].buf = <<>> /\ sv'[s].pos = 0
      BY <3>2 DEF Ended, IdleServer
    <3>6. WholeCommit(s)'
      BY <1>c, <3>3, <3>4, <3>5 DEF Whole, WholeCommit, Image
    <3>7. WholeUpload(s)' /\ WholeDelta(s)' /\ WholeBlob(s)' /\ Sides(s)'
      BY <3>5 DEF WholeUpload, WholeDelta, WholeBlob, Sides
    <3> QED BY <3>6, <3>7 DEF Whole
  <2> QED BY <2>1, <2>2
<1>3. CASE SrvLost(s)
  BY <1>3, <1>c, FailedIsWhole DEF SrvLost, Fail
<1>4. CASE ServerCrash
  <2>1. sv'[s] = Ended("failed") /\ net' = net
    BY <1>4 DEF ServerCrash
  <2> QED BY <1>c, <2>1, FailedIsWhole
<1> QED BY <1>1, <1>2, <1>3, <1>4

(* A deletion takes names away, and leaves what a task has open.            *)
LEMMA FreshSweep ==
    ASSUME OneSession, FreshInv, NEW s \in Sessions, Whole(s),
           NEW n \in Names, SweepDelete(n)
    PROVE  Whole(s)'
<1> USE FreshFacts
<1>1. /\ UNCHANGED <<local, cl, net, sv>> /\ data' = Kept(data)
      /\ dir' = [dir EXCEPT ![n] = NoInode]
  BY DEF SweepDelete
<1>2. ASSUME NEW m \in Names, Exists(m)'
      PROVE  Exists(m) /\ dir'[m] = dir[m] /\ data'[dir[m]] = data[dir[m]]
  <2>1. m # n /\ dir'[m] = dir[m]
    BY <1>1, <1>2 DEF Exists
  <2>2. Exists(m) /\ dir'[m] \in Inodes
    BY <1>2, <2>1 DEF Exists
  <2> QED BY <1>1, <2>1, <2>2, NamedIsKept
<1>3. sv[s].out \in Inodes => data'[sv[s].out] = data[sv[s].out]
  BY <1>1 DEF Kept
<1>4. sv[s].base \in Inodes => data'[sv[s].base] = data[sv[s].base]
  BY <1>1 DEF Kept
<1>5. sv[s].out \in Inodes => Content(s)' = Content(s) /\ Appending(s)' = Appending(s)
  BY <1>1, <1>3 DEF Content, Appending
<1>6. \A m \in Names : Writing(s, m) => Writing(s, m)'
  BY <1>1, <1>2, <1>5 DEF Writing
<1>7. Sides(s)'
  BY <1>1 DEF Whole, Sides
<1>8. WholeUpload(s)'
  BY <1>1, <1>5, <1>6 DEF Whole, WholeUpload, Writing, RawSent, IsPrefixOf
<1>9. WholeDelta(s)'
  <2>1. ASSUME sv[s].pc = "patchopen", Exists("file")', net[s].uni # <<>>
        PROVE  PatchSent(s, Tail(net[s].uni), data[dir["file"]], 0)'
    <3>1. Exists("file") /\ data'[dir'["file"]] = data[dir["file"]]
      BY <1>2, <2>1
    <3>2. PatchSent(s, Tail(net[s].uni), data[dir["file"]], 0)
      BY <2>1, <3>1 DEF Whole, WholeDelta
    <3> QED BY <1>1, <3>1, <3>2 DEF PatchSent
  <2>2. ASSUME sv[s].pc = "patch"
        PROVE  PatchSent(s, net[s].uni, data[sv[s].base], Len(Content(s)))'
    BY <1>1, <1>4, <1>5, <2>2 DEF Whole, WholeDelta, Writing, PatchSent
  <2>3. ASSUME sv[s].pc = "patch"
        PROVE  IsPrefixOf(Content(s), local[s])'
    BY <1>1, <1>5, <2>3 DEF Whole, WholeDelta, Writing, IsPrefixOf
  <2> QED BY <1>1, <1>2, <1>6, <2>1, <2>2, <2>3 DEF Whole, WholeDelta
<1>10. WholeBlob(s)'
  BY <1>1, <1>5, <1>6 DEF Whole, WholeBlob, Writing
<1>11. WholeCommit(s)'
  <2>1. sv[s].from \in Names
    BY ServerFields
  <2> QED BY <1>1, <1>2, <2>1 DEF Whole, WholeCommit, Image
<1> QED BY <1>7, <1>8, <1>9, <1>10, <1>11 DEF Whole

LEMMA FreshInit ==
    ASSUME OneSession PROVE Init => FreshInv
<1> SUFFICES ASSUME Init PROVE FreshInv
  OBVIOUS
<1>1. Inv /\ NoAlias
  BY InitInv DEF Init, NoAlias, Names, Exists
<1>2. ASSUME NEW s \in Sessions
      PROVE  cl[s].pc = "idle" /\ cl[s].skip = 0
  BY DEF Init, IdleClient
<1> QED BY <1>1, <1>2
        DEF FreshInv, FreshSuccessIsFaithful, IdleSkips, Fresh, ClientEnds

(* What a client reports of a run that resumed nothing is true.             *)
LEMMA FreshReports ==
    ASSUME OneSession, FreshInv, NEW s \in Sessions,
           \/ ClStart(s) \/ ClientStep(s) \/ ClDie(s) \/ Edit(s)
           \/ UNCHANGED <<local, steady, cl>>
    PROVE  /\ IdleSkips(s)'
           /\ cl'[s].pc = "ok" /\ steady'[s] /\ cl'[s].skip = 0
                 => cl'[s].sum = Image(s, local[s])'
<1>f. cl[s] \in ClientState /\ DOMAIN cl = Sessions /\ DOMAIN steady = Sessions
  BY FreshFacts
<1>k. /\ IdleSkips(s)
      /\ cl[s].pc = "ok" /\ steady[s] /\ cl[s].skip = 0
            => cl[s].sum = Image(s, local[s])
  BY DEF FreshInv, FreshSuccessIsFaithful
<1>1. CASE ClVerified(s)
  <2>1. /\ cl'[s].pc = "ok" /\ cl'[s].skip = cl[s].skip /\ cl'[s].enc = cl[s].enc
        /\ cl'[s].sum = Head(net[s].rsp).sum /\ UNCHANGED <<local, steady>>
        /\ cl[s].pc = "verify" /\ net[s].rsp # <<>>
        /\ Head(net[s].rsp).type = "VerifyResult"
    BY <1>1, <1>f DEF ClVerified, Replied, ClientState
  <2>2. Head(net[s].rsp) = net[s].rsp[1] /\ 1 \in DOMAIN net[s].rsp
    BY <2>1, FreshFacts
  <2>3. ASSUME steady[s], cl[s].skip = 0
        PROVE  cl'[s].sum = Image(s, local[s])
    <3>1. Whole(s)
      BY <2>1, <2>3 DEF FreshInv, Fresh, ClientEnds
    <3> QED BY <2>1, <2>2, <3>1 DEF Whole, WholeCommit
  <2> QED BY <2>1, <2>3 DEF IdleSkips, Image
<1>2. CASE ClStart(s)
  <2>1. cl'[s].pc = "ack" /\ cl'[s].skip = 0
    <3>1. PICK e \in Modes : cl'[s] = [IdleClient EXCEPT !.pc = "ack", !.enc = e]
      BY <1>2, <1>f DEF ClStart
    <3> QED BY <3>1 DEF IdleClient
  <2> QED BY <2>1 DEF IdleSkips
<1>3. CASE ClUpload(s) \/ ClSend(s) \/ ClPatch(s) \/ ClEncrypt(s) \/ ClLost(s) \/ ClDie(s)
  <2>1. cl'[s].pc \in {"sigs", "send", "verify", "failed"}
    <3>1. ClUpload(s) => cl'[s].pc \in {"sigs", "send"}
      BY <1>f DEF ClUpload, ClientState
    <3>2. ClPatch(s) \/ ClEncrypt(s) => cl'[s].pc = "verify"
      <4>1. ClPatch(s) => cl'[s].pc = "verify"
        BY <1>f DEF ClPatch, ClientState
      <4>2. ClEncrypt(s) => cl'[s].pc = "verify"
        BY <1>f DEF ClEncrypt, ClientState
      <4> QED BY <4>1, <4>2
    <3>3. ClSend(s) => cl'[s].pc \in {"send", "verify"}
      <4>1. CASE cl[s].pos < Len(local[s])
        <5>1. ClSend(s) => cl'[s] = [cl[s] EXCEPT !.pos = cl[s].pos + 1]
                           /\ cl[s].pc = "send"
          BY <1>f, <4>1 DEF ClSend
        <5> QED BY <1>f, <5>1 DEF ClientState
      <4>2. CASE ~(cl[s].pos < Len(local[s]))
        BY <1>f, <4>2 DEF ClSend, ClientState
      <4> QED BY <4>1, <4>2
    <3>4. ClLost(s) \/ ClDie(s) => cl'[s].pc = "failed"
      BY <1>f DEF ClLost, ClDie, Gone, IdleClient
    <3> QED BY <1>3, <3>1, <3>2, <3>3, <3>4
  <2> QED BY <2>1 DEF IdleSkips
<1>4. CASE Edit(s)
  <2>1. cl' = cl /\ ~steady'[s]
    BY <1>4, <1>f DEF Edit
  <2> QED BY <1>k, <2>1 DEF IdleSkips
<1>5. CASE UNCHANGED <<local, steady, cl>>
  BY <1>k, <1>5 DEF IdleSkips, Image
<1> QED BY <1>1, <1>2, <1>3, <1>4, <1>5 DEF ClientStep

LEMMA FreshNext ==
    ASSUME OneSession PROVE FreshInv /\ [StorageNext]_vars => FreshInv'
<1> SUFFICES ASSUME FreshInv, [StorageNext]_vars PROVE FreshInv'
  OBVIOUS
<1>1. Inv' /\ NoAlias'
  <2>1. Inv /\ TypeOK /\ NoAlias
    BY DEF FreshInv, Inv
  <2> QED BY <2>1, NextInv, SweepKeepsInv, EntriesStayDistinctSwept DEF StorageNext
<1>2. PICK s \in Sessions : Sessions = {s}
  BY DEF OneSession
<1>3. CASE ClStart(s) \/ ClientStep(s) \/ ClDie(s) \/ Edit(s)
  BY <1>1, <1>2, <1>3, FreshClient, FreshReports DEF FreshInv, FreshSuccessIsFaithful
<1>4. ASSUME UNCHANGED <<local, steady, cl>>, Fresh(s) /\ Whole(s) => Whole(s)'
      PROVE  FreshInv'
  <2>1. Fresh(s)' = Fresh(s)
    BY <1>4 DEF Fresh
  <2>2. Fresh(s) => Whole(s)
    BY DEF FreshInv
  <2> QED BY <1>1, <1>2, <1>4, <2>1, <2>2, FreshReports
          DEF FreshInv, FreshSuccessIsFaithful
<1>5. CASE ServerStep(s)
  <2>1. UNCHANGED <<local, steady, cl>>
    BY <1>5 DEF ServerStep, SrvHandshake, SrvOpenPart, SrvRecv, SrvRecvEnd, SrvSign,
                SrvPatchOpen, SrvPatch, SrvPatchEnd, SrvEncrypted, SrvEncRecvEnd,
                SrvEncWrite, SrvRename, SrvVerify, SrvLost
  <2>2. Fresh(s) /\ Whole(s) => Whole(s)'
    BY <1>5, FreshUpload, FreshDelta, FreshBlob, FreshCommit DEF ServerStep
  <2> QED BY <1>4, <2>1, <2>2
<1>6. CASE ServerCrash
  BY <1>4, <1>6, FreshCommit DEF ServerCrash
<1>7. ASSUME NEW n \in Names, SweepDelete(n) PROVE FreshInv'
  BY <1>4, <1>7, FreshSweep DEF SweepDelete
<1>8. CASE UNCHANGED vars
  <2>1. UNCHANGED <<local, steady, dir, data, cl, net, sv>>
    BY <1>8 DEF vars
  <2>2. Whole(s) => Whole(s)'
    <3>1. /\ Content(s)' = Content(s) /\ Appending(s)' = Appending(s)
          /\ \A n : Exists(n)' = Exists(n) /\ Writing(s, n)' = Writing(s, n)
      BY <2>1 DEF Content, Appending, Exists, Writing
    <3>2. Sides(s)' = Sides(s)
      BY <2>1 DEF Sides
    <3>3. WholeUpload(s) => WholeUpload(s)'
      BY <2>1, <3>1 DEF WholeUpload, RawSent, IsPrefixOf
    <3>4. WholeDelta(s) => WholeDelta(s)'
      BY <2>1, <3>1 DEF WholeDelta, PatchSent, IsPrefixOf
    <3>5. WholeBlob(s) => WholeBlob(s)'
      BY <2>1, <3>1 DEF WholeBlob
    <3>6. WholeCommit(s) => WholeCommit(s)'
      BY <2>1, <3>1 DEF WholeCommit, Image
    <3> QED BY <3>2, <3>3, <3>4, <3>5, <3>6 DEF Whole
  <2> QED BY <1>4, <2>1, <2>2
<1>9. [Next]_vars \/ \E n \in Names : SweepDelete(n)
  BY DEF StorageNext
<1>10. CASE [Next]_vars
  BY <1>2, <1>3, <1>5, <1>6, <1>8, <1>10 DEF Next
<1> QED BY <1>7, <1>9, <1>10

(* Whatever directory syncs delete meanwhile, and although the user edits   *)
(* the file and changes --encrypt between runs: a client that resumed       *)
(* nothing and reports success has its file, as it was all along, on the    *)
(* server; the checksum in VerifyResult is that of the file or of its blob. *)
THEOREM FreshFaithful ==
    ASSUME OneSession PROVE StorageSpec => []FreshSuccessIsFaithful
<1>1. FreshInv => FreshSuccessIsFaithful
  BY DEF FreshInv
<1> QED BY <1>1, FreshInit, FreshNext, PTL DEF StorageSpec
=============================================================================
