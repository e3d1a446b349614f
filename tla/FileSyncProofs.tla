--------------------------- MODULE FileSyncProofs ---------------------------
(***************************************************************************)
(* Proofs about FileSync, for any number of sessions, inodes and versions, *)
(* any contents and any bound on the faults; then, for one user, what a    *)
(* sync achieves (SoloInv).                                                *)
(***************************************************************************)
EXTENDS FileSync, SequenceTheorems, TLAPS

(* What makes BranchesAgree inductive: what each side has sent, and may     *)
(* still send, at every pair of places the two can be at.                   *)
InStep(s) ==
    /\ sv[s].pc = "handshake" =>
          /\ cl[s].pc \in {"ack", "failed"}
          /\ net[s].uni = <<>> /\ net[s].rsp = <<>> /\ ~net[s].fin
          /\ net[s].req # <<>> => /\ net[s].req[1].type = "Handshake"
                                  /\ net[s].req[1].encrypted = cl[s].enc
                                  /\ Tail(net[s].req) = <<>>
    /\ cl[s].pc = "ack" =>
          /\ net[s].uni = <<>> /\ ~net[s].fin
          /\ net[s].rsp = <<>> => sv[s].pc \in {"handshake", "failed"}
          /\ net[s].rsp # <<>> =>
                /\ net[s].rsp[1].type = "HandshakeAck"
                /\ net[s].req = <<>>
                /\ sv[s].pc \in {"failed"} \cup
                      IF cl[s].enc THEN {"encrypted"}
                      ELSE IF net[s].rsp[1].old THEN {"sign", "patchopen"}
                      ELSE {"open"}
    /\ cl[s].pc = "send" => /\ sv[s].pc \in {"open", "recv", "failed"}
                            /\ ~net[s].fin
    /\ cl[s].pc = "sigs" => /\ sv[s].pc \in {"sign", "patchopen", "failed"}
                            /\ net[s].uni = <<>>
    /\ sv[s].pc = "patch" => sv[s].base # NoInode

Lockstep == \A s \in Sessions : InStep(s)

-----------------------------------------------------------------------------
(* Lemmas about the operators.                                              *)

(* What WriteAt returns is a sequence of symbols.                           *)
LEMMA WriteAtType ==
    ASSUME NEW d \in Seq(Symbol), NEW p \in Nat, NEW x \in Seq(Symbol)
    PROVE  WriteAt(d, p, x) \in Seq(Symbol)
<1> DEFINE n == IF Len(d) > p + Len(x) THEN Len(d) ELSE p + Len(x)
<1>1. n \in Nat OBVIOUS
<1>2. Hole \in Symbol BY DEF Symbol
<1>3. ASSUME NEW i \in 1..n
      PROVE  (IF i > p /\ i <= p + Len(x) THEN x[i - p]
              ELSE IF i <= Len(d) THEN d[i] ELSE Hole) \in Symbol
  <2>1. CASE i > p /\ i <= p + Len(x)
    <3>1. i - p \in 1..Len(x) BY <2>1, <1>1
    <3> QED BY <2>1, <3>1
  <2>2. CASE ~(i > p /\ i <= p + Len(x)) /\ i <= Len(d)
    <3>1. i \in 1..Len(d) BY <2>2, <1>1
    <3> QED BY <2>2, <3>1
  <2>3. CASE ~(i > p /\ i <= p + Len(x)) /\ ~(i <= Len(d))
    BY <2>3, <1>2
  <2> QED BY <2>1, <2>2, <2>3
<1>4. WriteAt(d, p, x) \in [1..n -> Symbol] BY <1>3 DEF WriteAt
<1> QED BY <1>1, <1>4, IsASeq

(* Writing through a descriptor keeps the contents well typed.              *)
LEMMA WrittenType ==
    ASSUME data \in [Inodes -> Seq(Symbol)],
           NEW t \in ServerState, NEW x \in Seq(Symbol)
    PROVE  Written(t, x) \in [Inodes -> Seq(Symbol)]
<1>1. CASE x = <<>> BY <1>1 DEF Written
<1>2. CASE x # <<>> /\ t.out \in Inodes
  <2>1. t.pos \in Nat /\ data[t.out] \in Seq(Symbol) BY <1>2 DEF ServerState
  <2>2. data[t.out] \o x \in Seq(Symbol) BY <2>1
  <2>3. WriteAt(data[t.out], t.pos, x) \in Seq(Symbol) BY <2>1, WriteAtType
  <2> QED BY <1>2, <2>2, <2>3 DEF Written
<1>3. CASE x # <<>> /\ t.out \notin Inodes
  BY <1>3 DEF Written
<1> QED BY <1>1, <1>2, <1>3

LEMMA DroppedType ==
    ASSUME data \in [Inodes -> Seq(Symbol)], NEW t \in ServerState
    PROVE  Dropped(t) \in [Inodes -> Seq(Symbol)]
BY WrittenType DEF Dropped, ServerState

(* Freeing inodes keeps the contents well typed.                            *)
LEMMA KeptType ==
    ASSUME NEW d \in [Inodes -> Seq(Symbol)]
    PROVE  Kept(d) \in [Inodes -> Seq(Symbol)]
<1>1. <<>> \in Seq(Symbol) OBVIOUS
<1> QED BY <1>1 DEF Kept

LEMMA IdleTypes ==
    /\ IdleClient \in ClientState
    /\ NoTraffic \in Traffic
    /\ \A pc \in ServerPcs : Ended(pc) \in ServerState
<1>1. IdleClient \in ClientState
  BY DEF IdleClient, ClientState, ClientPcs, ClientEnds
<1>2. NoTraffic \in Traffic
  BY DEF NoTraffic, Traffic
<1>3. ASSUME NEW pc \in ServerPcs PROVE Ended(pc) \in ServerState
  <2>1. IdleServer \in ServerState
    BY DEF IdleServer, ServerState, ServerPcs, ServerEnds
  <2> QED BY <2>1 DEF Ended, ServerState
<1> QED BY <1>1, <1>2, <1>3

(* The delta of a content is a sequence of instructions.                    *)
LEMMA DeltaType ==
    ASSUME NEW x \in Seq(Block), NEW base \in Seq(Symbol)
    PROVE  Delta(x, base) \in Seq(Item)
<1>1. ASSUME NEW i \in DOMAIN x
      PROVE  Delta(x, base)[i] \in Item
  <2>1. CASE \E j \in DOMAIN base : base[j] = x[i]
    <3> DEFINE at == CHOOSE j \in DOMAIN base : base[j] = x[i]
    <3>1. at \in DOMAIN base BY <2>1
    <3>2. DOMAIN base \subseteq Nat \ {0} OBVIOUS
    <3>3. Delta(x, base)[i] = [op |-> "Copy", at |-> at]
      BY <2>1 DEF Delta
    <3> HIDE DEF at
    <3> QED BY <3>1, <3>2, <3>3 DEF Item
  <2>2. CASE ~\E j \in DOMAIN base : base[j] = x[i]
    <3>1. x[i] \in Symbol BY DEF Symbol
    <3> QED BY <2>2, <3>1 DEF Delta, Item
  <2> QED BY <2>1, <2>2
<1>2. Delta(x, base) \in [1..Len(x) -> Item]
  <2>1. DOMAIN x = 1..Len(x) OBVIOUS
  <2> DEFINE e(i) == IF \E j \in DOMAIN base : base[j] = x[i]
                     THEN [op |-> "Copy", at |-> CHOOSE j \in DOMAIN base : base[j] = x[i]]
                     ELSE [op |-> "Literal", sym |-> x[i]]
  <2>2. Delta(x, base) = [i \in DOMAIN x |-> e(i)]
    BY DEF Delta
  <2> HIDE DEF e
  <2>3. \A i \in DOMAIN x : e(i) \in Item
    BY <1>1, <2>2
  <2> QED BY <2>1, <2>2, <2>3
<1> QED BY <1>2, IsASeq

(* An encrypted blob is a sequence of symbols.                              *)
LEMMA BlobType ==
    ASSUME NEW x \in Seq(Block)
    PROVE  Raw(Blob(x)) \in Seq(Item) /\ Len(Blob(x)) \in Nat
<1>1. Blob(x) \in Seq(Symbol)
  <2>1. ASSUME NEW i \in 1..(Len(x) + 1) PROVE <<x, i>> \in Symbol
    BY DEF Symbol
  <2> QED BY <2>1 DEF Blob
<1>2. ASSUME NEW y \in Seq(Symbol) PROVE Raw(y) \in Seq(Item)
  <2>1. ASSUME NEW i \in 1..Len(y) PROVE [op |-> "Raw", sym |-> y[i]] \in Item
    BY DEF Item
  <2> QED BY <2>1 DEF Raw
<1> QED BY <1>1, <1>2

(* Updating one field of what is in flight, or of a client's state.         *)
LEMMA TrafficUpdate ==
    ASSUME NEW t \in Traffic
    PROVE  /\ t.req \in Seq(ClientMessage) /\ t.rsp \in Seq(ServerMessage)
           /\ t.uni \in Seq(Item)
           /\ \A x \in Seq(ClientMessage) : [t EXCEPT !.req = x] \in Traffic
           /\ \A x \in Seq(ServerMessage) : [t EXCEPT !.rsp = x] \in Traffic
           /\ \A x \in Seq(Item) : [t EXCEPT !.uni = x] \in Traffic
           /\ \A x \in BOOLEAN : [t EXCEPT !.fin = x] \in Traffic
BY DEF Traffic

LEMMA ClientUpdate ==
    ASSUME NEW t \in ClientState
    PROVE  /\ t.pos \in Nat
           /\ \A x \in ClientPcs : [t EXCEPT !.pc = x] \in ClientState
           /\ \A x \in Nat : [t EXCEPT !.pos = x] \in ClientState
BY DEF ClientState

LEMMA ServerFields ==
    ASSUME NEW t \in ServerState
    PROVE  /\ t.pos \in Nat /\ t.off \in Nat /\ t.got \in Nat
           /\ t.buf \in Seq(Symbol) /\ t.from \in {"part", "tmp"}
           /\ t.base \in Inodes \cup {NoInode} /\ t.out \in Inodes \cup {NoInode}
BY DEF ServerState

LEMMA ServerUpdate ==
    ASSUME NEW t \in ServerState
    PROVE  /\ \A x \in ServerPcs : [t EXCEPT !.pc = x] \in ServerState
           /\ \A x \in Nat : /\ [t EXCEPT !.size = x] \in ServerState
                             /\ [t EXCEPT !.off = x] \in ServerState
                             /\ [t EXCEPT !.got = x] \in ServerState
                             /\ [t EXCEPT !.pos = x] \in ServerState
           /\ \A x \in Inodes : /\ [t EXCEPT !.out = x] \in ServerState
                                /\ [t EXCEPT !.base = x] \in ServerState
           /\ \A x \in {"part", "tmp"} : [t EXCEPT !.from = x] \in ServerState
           /\ \A x \in BOOLEAN : [t EXCEPT !.append = x] \in ServerState
           /\ \A x \in Seq(Symbol) : [t EXCEPT !.buf = x] \in ServerState
BY DEF ServerState

LEMMA GoneType ==
    ASSUME TypeOK, NEW s \in Sessions
    PROVE  Gone(s) \in ClientState
BY IdleTypes DEF TypeOK, Gone, ClientState, ClientPcs, ClientEnds


-----------------------------------------------------------------------------
(* Type correctness, one action at a time.                                  *)

LEMMA ClientTypes ==
    ASSUME TypeOK, Lockstep, NEW s \in Sessions, ClStart(s) \/ ClientStep(s)
    PROVE  TypeOK'
<1> USE DEF TypeOK
<1>0. cl[s] \in ClientState /\ net[s] \in Traffic /\ sv[s] \in ServerState
  OBVIOUS
<1>1. CASE ClStart(s)
  <2>1. PICK e \in Modes :
          /\ cl' = [cl EXCEPT ![s] = [IdleClient EXCEPT !.pc = "ack", !.enc = e]]
          /\ net' = [net EXCEPT ![s] =
                       [NoTraffic EXCEPT !.req =
                          <<[type |-> "Handshake", size |-> Len(local[s]),
                             encrypted |-> e]>>]]
    BY <1>1 DEF ClStart
  <2>2. e \in BOOLEAN BY ModesAssumption
  <2>3. [IdleClient EXCEPT !.pc = "ack", !.enc = e] \in ClientState
    BY <2>2, IdleTypes DEF ClientState, ClientPcs
  <2>4. Len(local[s]) \in Nat
    BY ContentsAssumption
  <2>5. <<[type |-> "Handshake", size |-> Len(local[s]), encrypted |-> e]>>
          \in Seq(ClientMessage)
    BY <2>2, <2>4 DEF ClientMessage
  <2>6. [NoTraffic EXCEPT !.req =
            <<[type |-> "Handshake", size |-> Len(local[s]), encrypted |-> e]>>]
          \in Traffic
    BY <2>5, IdleTypes DEF Traffic
  <2>7. Ended("handshake") \in ServerState
    BY IdleTypes DEF ServerPcs, ServerWaits
  <2> QED BY <1>1, <2>1, <2>3, <2>6, <2>7 DEF ClStart
<1>2. CASE ClUpload(s)
  <2>1. Head(net[s].rsp).type = "HandshakeAck" /\ Head(net[s].rsp) \in ServerMessage
    BY <1>0, <1>2 DEF ClUpload, Replied, Traffic
  <2>2. Head(net[s].rsp).offset \in Nat
    BY <2>1 DEF ServerMessage
  <2>3. cl' \in [Sessions -> ClientState]
    BY <1>0, <1>2, <2>2 DEF ClUpload, ClientState, ClientPcs
  <2>4. net' \in [Sessions -> Traffic]
    <3>1. Tail(net[s].rsp) \in Seq(ServerMessage)
      BY <1>0, <1>2, TrafficUpdate DEF ClUpload, Replied
    <3>2. net' = [net EXCEPT ![s] = [net[s] EXCEPT !.rsp = Tail(net[s].rsp)]]
      BY <1>2 DEF ClUpload
    <3> QED BY <1>0, <3>1, <3>2, TrafficUpdate
  <2> QED BY <1>2, <2>3, <2>4 DEF ClUpload
<1>3. CASE ClSend(s)
  <2>1. CASE cl[s].pos < Len(local[s])
    <3>1. local[s] \in Seq(Block)
      BY ContentsAssumption
    <3>2. cl[s].pos + 1 \in 1..Len(local[s])
      BY <1>0, <2>1, <3>1 DEF ClientState
    <3>3. local[s][cl[s].pos + 1] \in Symbol
      BY <3>1, <3>2 DEF Symbol
    <3>4. [op |-> "Raw", sym |-> local[s][cl[s].pos + 1]] \in Item
      BY <3>3 DEF Item
    <3>5. net' \in [Sessions -> Traffic]
      <4> DEFINE x == Append(net[s].uni, [op |-> "Raw",
                                          sym |-> local[s][cl[s].pos + 1]])
      <4>1. x \in Seq(Item)
        BY <1>0, <3>4, TrafficUpdate
      <4>2. net' = [net EXCEPT ![s] = [net[s] EXCEPT !.uni = x]]
        BY <1>3, <2>1 DEF ClSend
      <4> HIDE DEF x
      <4> QED BY <1>0, <4>1, <4>2, TrafficUpdate
    <3>6. cl' \in [Sessions -> ClientState]
      <4>1. cl[s].pos + 1 \in Nat
        BY <1>0, ClientUpdate
      <4>2. cl' = [cl EXCEPT ![s] = [cl[s] EXCEPT !.pos = cl[s].pos + 1]]
        BY <1>3, <2>1 DEF ClSend
      <4> QED BY <1>0, <4>1, <4>2, ClientUpdate
    <3> QED BY <1>3, <3>5, <3>6 DEF ClSend
  <2>2. CASE ~(cl[s].pos < Len(local[s]))
    <3>1. [net[s] EXCEPT !.fin = TRUE] \in Traffic
      BY <1>0 DEF Traffic
    <3>2. [cl[s] EXCEPT !.pc = "verify"] \in ClientState
      BY <1>0 DEF ClientState, ClientPcs
    <3>3. /\ net' = [net EXCEPT ![s] = [net[s] EXCEPT !.fin = TRUE]]
          /\ cl' = [cl EXCEPT ![s] = [cl[s] EXCEPT !.pc = "verify"]]
      BY <1>3, <2>2 DEF ClSend
    <3> QED BY <1>3, <3>1, <3>2, <3>3 DEF ClSend
  <2> QED BY <2>1, <2>2
<1>4. CASE ClPatch(s)
  <2>1. Head(net[s].rsp).type = "Signatures" /\ Head(net[s].rsp) \in ServerMessage
    BY <1>0, <1>4 DEF ClPatch, Replied, Traffic
  <2>2. Head(net[s].rsp).base \in Seq(Symbol)
    BY <2>1 DEF ServerMessage
  <2>3. local[s] \in Seq(Block)
    BY ContentsAssumption
  <2>4. Delta(local[s], Head(net[s].rsp).base) \in Seq(Item)
    BY <2>2, <2>3, DeltaType
  <2>5. <<[op |-> "StartPatch"]>> \in Seq(Item)
    BY DEF Item
  <2>6. net' \in [Sessions -> Traffic]
    <3> DEFINE patch == <<[op |-> "StartPatch"]>>
                          \o Delta(local[s], Head(net[s].rsp).base)
               left == Tail(net[s].rsp)
    <3>1. patch \in Seq(Item)
      BY <2>4, <2>5
    <3>2. left \in Seq(ServerMessage)
      BY <1>0, <1>4, TrafficUpdate DEF ClPatch, Replied
    <3>3. net' = [net EXCEPT
                    ![s] = [[[net[s] EXCEPT !.rsp = left] EXCEPT !.uni = patch]
                                      EXCEPT !.fin = TRUE]]
      BY <1>4 DEF ClPatch
    <3> HIDE DEF patch, left
    <3> QED BY <1>0, <3>1, <3>2, <3>3, TrafficUpdate
  <2> QED BY <1>0, <1>4, <2>6 DEF ClPatch, ClientState, ClientPcs
<1>5. CASE ClEncrypt(s)
  <2> DEFINE ack == Head(net[s].rsp)
             skip == IF ack.old THEN 0 ELSE ack.offset
             tail == SubSeq(local[s], skip + 1, Len(local[s]))
  <2>1. ack.type = "HandshakeAck" /\ ack \in ServerMessage
    BY <1>0, <1>5 DEF ClEncrypt, Replied, Traffic
  <2>2. skip \in Nat
    BY <2>1 DEF ServerMessage
  <2>3. local[s] \in Seq(Block)
    BY ContentsAssumption
  <2>4. tail \in Seq(Block)
    BY <2>2, <2>3
  <2>5. Raw(Blob(tail)) \in Seq(Item) /\ Len(Blob(tail)) \in Nat
    BY <2>4, BlobType
  <2>6. <<[type |-> "SendFullEncrypted", size |-> Len(Blob(tail))]>>
          \in Seq(ClientMessage)
    BY <2>5 DEF ClientMessage
  <2>7. Tail(net[s].rsp) \in Seq(ServerMessage)
    BY <1>0, <1>5 DEF ClEncrypt, Replied, Traffic
  <2>8. net' \in [Sessions -> Traffic]
    <3> HIDE DEF tail, skip
    <3>1. net' = [net EXCEPT
                    ![s] = [req |-> <<[type |-> "SendFullEncrypted",
                                       size |-> Len(Blob(tail))]>>,
                            rsp |-> Tail(net[s].rsp), uni |-> Raw(Blob(tail)),
                            fin |-> TRUE]]
      BY <1>5 DEF ClEncrypt, tail, skip
    <3> QED BY <2>5, <2>6, <2>7, <3>1 DEF Traffic
  <2>9. cl' \in [Sessions -> ClientState]
    <3> HIDE DEF skip
    <3>1. cl' = [cl EXCEPT ![s].pc = "verify", ![s].skip = skip]
      BY <1>5 DEF ClEncrypt, skip
    <3> QED BY <1>0, <2>2, <3>1 DEF ClientState, ClientPcs
  <2> QED BY <1>5, <2>8, <2>9 DEF ClEncrypt
<1>6. CASE ClVerified(s)
  <2>1. Head(net[s].rsp).type = "VerifyResult" /\ Head(net[s].rsp) \in ServerMessage
    BY <1>0, <1>6 DEF ClVerified, Replied, Traffic
  <2>2. Head(net[s].rsp).sum \in Seq(Symbol)
    BY <2>1 DEF ServerMessage
  <2>3. cl' \in [Sessions -> ClientState]
    BY <1>0, <1>6, <2>2 DEF ClVerified, ClientState, ClientPcs, ClientEnds
  <2> QED BY <1>6, <2>3, IdleTypes DEF ClVerified
<1>7. CASE ClLost(s)
  BY <1>7, GoneType, IdleTypes DEF ClLost
<1> QED BY <1>1, <1>2, <1>3, <1>4, <1>5, <1>6, <1>7 DEF ClientStep

(* Sending through the BufWriter, failing, and opening `.part`.             *)
LEMMA BufferedType ==
    ASSUME TypeOK, NEW s \in Sessions, NEW t \in ServerState,
           NEW x \in Seq(Symbol), Buffered(s, t, x)
    PROVE  data' \in [Inodes -> Seq(Symbol)] /\ sv' \in [Sessions -> ServerState]
<1> DEFINE all == t.buf \o x
<1>0. t.buf \in Seq(Symbol) /\ t.pos \in Nat
  BY ServerFields
<1>1. all \in Seq(Symbol)
  BY <1>0
<1>2. PICK k \in {0, Len(t.buf), Len(all)} :
        /\ data' = Written(t, SubSeq(all, 1, k))
        /\ sv' = [sv EXCEPT ![s] =
                    [t EXCEPT !.pos = @ + k, !.buf = SubSeq(all, k + 1, Len(all))]]
  BY DEF Buffered
<1>3. k \in 0..Len(all)
  <2>1. Len(all) = Len(t.buf) + Len(x) /\ Len(t.buf) \in Nat /\ Len(x) \in Nat
    BY <1>0
  <2> QED BY <2>1
<1> HIDE DEF all
<1>4. SubSeq(all, 1, k) \in Seq(Symbol) /\ SubSeq(all, k + 1, Len(all)) \in Seq(Symbol)
  BY <1>1, <1>3
<1>5. data' \in [Inodes -> Seq(Symbol)]
  BY <1>2, <1>4, WrittenType DEF TypeOK
<1>6. [t EXCEPT !.pos = t.pos + k, !.buf = SubSeq(all, k + 1, Len(all))] \in ServerState
  <2>1. t.pos + k \in Nat BY <1>0, <1>1, <1>3
  <2> DEFINE u == [t EXCEPT !.pos = t.pos + k]
  <2>2. u \in ServerState BY <2>1, ServerUpdate
  <2>3. [u EXCEPT !.buf = SubSeq(all, k + 1, Len(all))] \in ServerState
    BY <1>4, <2>2, ServerUpdate
  <2> QED BY <2>3
<1> QED BY <1>2, <1>5, <1>6 DEF TypeOK

LEMMA FailType ==
    ASSUME TypeOK, NEW s \in Sessions, Fail(s)
    PROVE  /\ data' \in [Inodes -> Seq(Symbol)] /\ sv' \in [Sessions -> ServerState]
           /\ dir' = dir
<1>1. Dropped(sv[s]) \in [Inodes -> Seq(Symbol)]
  BY DroppedType DEF TypeOK
<1>2. data' \in [Inodes -> Seq(Symbol)]
  BY <1>1, KeptType DEF Fail
<1>3. Ended("failed") \in ServerState
  BY IdleTypes DEF ServerPcs, ServerEnds
<1> QED BY <1>2, <1>3 DEF Fail, TypeOK

LEMMA OpenedType ==
    ASSUME TypeOK, NEW n \in Names, CanOpen(n)
    PROVE  Opened(n) \in Inodes
<1>1. CASE Exists(n)
  <2>1. dir[n] \in Inodes BY <1>1 DEF Exists, TypeOK
  <2> QED BY <1>1, <2>1 DEF Opened
<1>2. CASE ~Exists(n)
  <2>1. Unused # {} /\ Unused \subseteq Inodes BY <1>2 DEF CanOpen, Unused
  <2> QED BY <1>2, <2>1 DEF Opened
<1> QED BY <1>1, <1>2

LEMMA OpenPartType ==
    ASSUME TypeOK, NEW s \in Sessions, OpenPart(s)
    PROVE  /\ Opened("part") \in Inodes
           /\ dir' \in [Names -> Inodes \cup {NoInode}]
           /\ data' \in [Inodes -> Seq(Symbol)]
<1>1. "part" \in Names BY DEF Names
<1>2. Opened("part") \in Inodes BY <1>1, OpenedType DEF OpenPart
<1>3. dir' \in [Names -> Inodes \cup {NoInode}]
  BY <1>2 DEF OpenPart, TypeOK
<1>4. <<>> \in Seq(Symbol) OBVIOUS
<1>5. data' \in [Inodes -> Seq(Symbol)]
  BY <1>2, <1>4 DEF OpenPart, TypeOK
<1> QED BY <1>2, <1>3, <1>5

LEMMA SizeOfType ==
    ASSUME TypeOK, NEW n \in Names
    PROVE  SizeOf(n) \in Nat /\ (Exists(n) => data[dir[n]] \in Seq(Symbol))
BY DEF SizeOf, Exists, TypeOK

LEMMA ServerTypes ==
    ASSUME TypeOK, BranchesAgree, Lockstep, NEW s \in Sessions, ServerStep(s)
    PROVE  TypeOK'
<1> DEFINE t == sv[s]
           DataOK == data' \in [Inodes -> Seq(Symbol)]
           DirOK == dir' \in [Names -> Inodes \cup {NoInode}]
           NetOK == net' \in [Sessions -> Traffic]
           SvOK == sv' \in [Sessions -> ServerState]
<1>0. /\ t \in ServerState /\ net[s] \in Traffic /\ cl[s] \in ClientState
      /\ dir \in [Names -> Inodes \cup {NoInode}] /\ data \in [Inodes -> Seq(Symbol)]
      /\ net \in [Sessions -> Traffic] /\ sv \in [Sessions -> ServerState]
  BY DEF TypeOK
<1>n. "file" \in Names /\ "part" \in Names /\ "tmp" \in Names
  BY DEF Names
<1>pc. {"rename", "verify", "failed", "done", "sign", "open", "encrypted", "recv",
        "patchopen", "patch", "encrecv", "encwrite"} \subseteq ServerPcs
  BY DEF ServerPcs, ServerWaits, ServerEnds
<1>q. ASSUME DataOK, DirOK, NetOK, SvOK, UNCHANGED <<local, steady, faults, cl>>
      PROVE  TypeOK'
  BY <1>q DEF TypeOK
<1>t. ASSUME net[s].uni # <<>>, net' = [net EXCEPT ![s].uni = Tail(@)]
      PROVE  NetOK
  <2>1. Tail(net[s].uni) \in Seq(Item) BY <1>0, <1>t, TrafficUpdate
  <2>2. net' = [net EXCEPT ![s] = [net[s] EXCEPT !.uni = Tail(net[s].uni)]]
    BY <1>t
  <2> QED BY <1>0, <2>1, <2>2, TrafficUpdate
<1>h. net[s].uni # <<>> => Head(net[s].uni) \in Item /\ Head(net[s].uni) = net[s].uni[1]
                           /\ 1 \in DOMAIN net[s].uni
  BY <1>0, TrafficUpdate
<1>1. CASE SrvHandshake(s)
  <2> DEFINE h == Head(net[s].req)
             pc == IF h.encrypted THEN "encrypted"
                   ELSE IF Exists("file") THEN "sign" ELSE "open"
             ack == [type |-> "HandshakeAck", old |-> Exists("file"),
                     offset |-> SizeOf("part")]
  <2>1. h \in ClientMessage /\ h.type = "Handshake"
    BY <1>0, <1>1, TrafficUpdate DEF SrvHandshake, Lockstep, InStep
  <2>2. h.size \in Nat /\ SizeOf("part") \in Nat
    BY <1>n, <2>1, SizeOfType DEF ClientMessage
  <2>3. ack \in ServerMessage
    BY <2>2 DEF ServerMessage, Exists
  <2>4. SvOK
    <3>1. sv' = [sv EXCEPT ![s] = [[[t EXCEPT !.pc = pc] EXCEPT !.size = h.size]
                                            EXCEPT !.off = SizeOf("part")]]
      BY <1>1 DEF SrvHandshake
    <3>2. pc \in ServerPcs BY <1>pc
    <3> HIDE DEF pc, h
    <3> QED BY <1>0, <2>2, <3>1, <3>2, ServerUpdate
  <2>5. NetOK
    <3>1. net' = [net EXCEPT
                    ![s] = [[net[s] EXCEPT !.req = Tail(net[s].req)]
                                    EXCEPT !.rsp = Append(net[s].rsp, ack)]]
      BY <1>1 DEF SrvHandshake
    <3> HIDE DEF ack
    <3>2. Tail(net[s].req) \in Seq(ClientMessage)
          /\ Append(net[s].rsp, ack) \in Seq(ServerMessage)
      BY <1>0, <1>1, <2>3, TrafficUpdate DEF SrvHandshake
    <3> QED BY <1>0, <3>1, <3>2, TrafficUpdate
  <2> QED BY <1>0, <1>1, <1>q, <2>4, <2>5 DEF SrvHandshake
<1>2. CASE SrvOpenPart(s)
  <2>1. Opened("part") \in Inodes /\ DirOK /\ DataOK
    BY <1>2, OpenPartType DEF SrvOpenPart
  <2>2. sv' = [sv EXCEPT ![s] = [[[[t EXCEPT !.pc = "recv"] EXCEPT !.out = Opened("part")]
                        EXCEPT !.append = (t.off > 0)] EXCEPT !.got = t.off]]
    BY <1>2 DEF SrvOpenPart
  <2>3. t.off \in Nat /\ (t.off > 0) \in BOOLEAN
    BY <1>0, ServerFields
  <2>4. SvOK
    BY <1>0, <1>pc, <2>1, <2>2, <2>3, ServerUpdate
  <2> QED BY <1>0, <1>2, <1>q, <2>1, <2>4 DEF SrvOpenPart
<1>3. CASE SrvRecv(s)
  <2>1. Head(net[s].uni).op = "Raw" /\ Head(net[s].uni) \in Item
    BY <1>3, <1>h DEF SrvRecv, BranchesAgree, SameBranch
  <2>2. <<Head(net[s].uni).sym>> \in Seq(Symbol)
    BY <2>1 DEF Item
  <2>3. [t EXCEPT !.got = t.got + 1] \in ServerState
    <3>1. t.got + 1 \in Nat BY <1>0, ServerFields
    <3> QED BY <1>0, <3>1, ServerUpdate
  <2>4. Buffered(s, [t EXCEPT !.got = t.got + 1], <<Head(net[s].uni).sym>>)
    BY <1>3 DEF SrvRecv
  <2>5. DataOK /\ SvOK
    BY <2>2, <2>3, <2>4, BufferedType
  <2> QED BY <1>0, <1>3, <1>q, <1>t, <2>5 DEF SrvRecv
<1>4. CASE SrvRecvEnd(s)
  <2>1. DataOK
    BY <1>0, <1>4, DroppedType, KeptType DEF SrvRecvEnd
  <2>2. [Ended("rename") EXCEPT !.from = "part"] \in ServerState
    BY <1>pc, IdleTypes, ServerUpdate
  <2>3. Ended("failed") \in ServerState
    BY <1>pc, IdleTypes
  <2>4. SvOK
    BY <1>0, <1>4, <2>2, <2>3 DEF SrvRecvEnd
  <2> QED BY <1>0, <1>4, <1>q, <2>1, <2>4 DEF SrvRecvEnd
<1>5. CASE SrvSign(s)
  <2>1. CASE Exists("file")
    <3> DEFINE sig == [type |-> "Signatures", base |-> data[dir["file"]]]
    <3>1. sig \in ServerMessage
      BY <1>n, <2>1, SizeOfType DEF ServerMessage
    <3>2. net' = [net EXCEPT ![s] = [net[s] EXCEPT !.rsp = Append(net[s].rsp, sig)]]
      BY <1>5, <2>1 DEF SrvSign
    <3> HIDE DEF sig
    <3>3. NetOK
      <4>1. Append(net[s].rsp, sig) \in Seq(ServerMessage)
        BY <1>0, <3>1, TrafficUpdate
      <4> QED BY <1>0, <3>2, <4>1, TrafficUpdate
    <3>4. SvOK
      <4>1. sv' = [sv EXCEPT ![s] = [t EXCEPT !.pc = "patchopen"]]
        BY <1>5, <2>1 DEF SrvSign
      <4> QED BY <1>0, <1>pc, <4>1, ServerUpdate
    <3> QED BY <1>0, <1>5, <1>q, <2>1, <3>3, <3>4 DEF SrvSign
  <2>2. CASE ~Exists("file")
    BY <1>0, <1>5, <1>q, <2>2, FailType DEF SrvSign
  <2> QED BY <2>1, <2>2
<1>6. CASE SrvPatchOpen(s)
  <2>1. CASE Exists("file") /\ Head(net[s].uni).op = "StartPatch"
    <3>1. Opened("tmp") \in Inodes
      BY <1>6, <1>n, <2>1, OpenedType DEF SrvPatchOpen
    <3>2. dir["file"] \in Inodes
      BY <1>0, <1>n, <2>1 DEF Exists
    <3>3. SvOK
      <4>1. sv' = [sv EXCEPT ![s] = [[[t EXCEPT !.pc = "patch"] EXCEPT !.out = Opened("tmp")]
                              EXCEPT !.base = dir["file"]]]
        BY <1>6, <2>1 DEF SrvPatchOpen
      <4> QED BY <1>0, <1>pc, <3>1, <3>2, <4>1, ServerUpdate
    <3>4. DirOK /\ DataOK
      <4>1. <<>> \in Seq(Symbol) OBVIOUS
      <4> QED BY <1>0, <1>6, <2>1, <3>1, <4>1 DEF SrvPatchOpen
    <3>5. NetOK
      BY <1>6, <1>t, <2>1 DEF SrvPatchOpen
    <3> QED BY <1>0, <1>6, <1>q, <3>3, <3>4, <3>5 DEF SrvPatchOpen
  <2>2. CASE ~(Exists("file") /\ Head(net[s].uni).op = "StartPatch")
    BY <1>0, <1>6, <1>q, <2>2, FailType DEF SrvPatchOpen
  <2> QED BY <2>1, <2>2
<1>7. CASE SrvPatch(s)
  <2> DEFINE i == Head(net[s].uni)
             base == data[t.base]
  <2>1. i \in Item /\ NetOK
    BY <1>7, <1>h, <1>t DEF SrvPatch
  <2>2. base \in Seq(Symbol)
    <3>1. t.base \in Inodes
      BY <1>0, <1>7, ServerFields DEF SrvPatch, Lockstep, InStep
    <3> QED BY <1>0, <3>1
  <2>3. CASE i.op = "Literal" /\ Buffered(s, t, <<i.sym>>) /\ UNCHANGED dir
    <3>1. <<i.sym>> \in Seq(Symbol) BY <2>1, <2>3 DEF Item
    <3> QED BY <1>0, <1>7, <1>q, <2>1, <2>3, <3>1, BufferedType DEF SrvPatch
  <2>4. CASE /\ i.op = "Copy" /\ i.at <= Len(base)
             /\ Buffered(s, t, <<base[i.at]>>) /\ UNCHANGED dir
    <3>1. i.at \in Nat \ {0} BY <2>1, <2>4 DEF Item
    <3>2. <<base[i.at]>> \in Seq(Symbol)
      <4>1. i.at \in 1..Len(base) BY <2>2, <2>4, <3>1
      <4> HIDE DEF base, i
      <4>2. base[i.at] \in Symbol BY <2>2, <4>1
      <4> QED BY <4>2
    <3> QED BY <1>0, <1>7, <1>q, <2>1, <2>4, <3>2, BufferedType DEF SrvPatch
  <2>5. CASE i.op = "Copy" /\ i.at > Len(base) /\ Fail(s)
    BY <1>0, <1>7, <1>q, <2>1, <2>5, FailType DEF SrvPatch
  <2> QED BY <1>7, <2>3, <2>4, <2>5 DEF SrvPatch
<1>8. CASE SrvPatchEnd(s)
  <2>1. DataOK
    BY <1>0, <1>8, DroppedType, KeptType DEF SrvPatchEnd
  <2>2. [Ended("rename") EXCEPT !.from = "tmp"] \in ServerState
    BY <1>pc, IdleTypes, ServerUpdate
  <2>3. SvOK
    BY <1>0, <1>8, <2>2 DEF SrvPatchEnd
  <2> QED BY <1>0, <1>8, <1>q, <2>1, <2>3 DEF SrvPatchEnd
<1>9. CASE SrvEncrypted(s)
  <2> DEFINE size == Head(net[s].req).size
  <2>1. size \in Nat
    <3>1. Head(net[s].req) \in ClientMessage
      BY <1>0, <1>9, TrafficUpdate DEF SrvEncrypted
    <3> QED BY <3>1 DEF ClientMessage
  <2>2. SizeOf("part") \in Nat BY <1>n, SizeOfType
  <2>3. sv' = [sv EXCEPT ![s] = [[[t EXCEPT !.pc = "encrecv"] EXCEPT !.size = size]
                          EXCEPT !.off = SizeOf("part")]]
    BY <1>9 DEF SrvEncrypted
  <2> HIDE DEF size
  <2>4. SvOK BY <1>0, <1>pc, <2>1, <2>2, <2>3, ServerUpdate
  <2>5. NetOK
    <3>1. Tail(net[s].req) \in Seq(ClientMessage)
      BY <1>0, <1>9, TrafficUpdate DEF SrvEncrypted
    <3>2. net' = [net EXCEPT ![s] = [net[s] EXCEPT !.req = Tail(net[s].req)]]
      BY <1>9 DEF SrvEncrypted
    <3> QED BY <1>0, <3>1, <3>2, TrafficUpdate
  <2> QED BY <1>0, <1>9, <1>q, <2>4, <2>5 DEF SrvEncrypted
<1>10. CASE SrvEncRecvEnd(s)
  <2>1. NetOK
    <3>1. net' = [net EXCEPT ![s] = [net[s] EXCEPT !.uni = <<>>]]
      BY <1>10 DEF SrvEncRecvEnd
    <3>2. <<>> \in Seq(Item) OBVIOUS
    <3> QED BY <1>0, <3>1, <3>2, TrafficUpdate
  <2>2. CASE t.off + Len(net[s].uni) = t.size
    <3> DEFINE blob == [k \in DOMAIN net[s].uni |-> net[s].uni[k].sym]
    <3>1. Opened("part") \in Inodes /\ DirOK /\ DataOK
      BY <1>10, <2>2, OpenPartType DEF SrvEncRecvEnd
    <3>2. blob \in Seq(Symbol)
      <4>1. net[s].uni \in Seq(Item) BY <1>0, TrafficUpdate
      <4>2. \A k \in DOMAIN net[s].uni : net[s].uni[k].op = "Raw"
        BY <1>10 DEF SrvEncRecvEnd, BranchesAgree, SameBranch
      <4>3. ASSUME NEW k \in 1..Len(net[s].uni) PROVE net[s].uni[k].sym \in Symbol
        <5>1. net[s].uni[k] \in Item /\ net[s].uni[k].op = "Raw" BY <4>1, <4>2
        <5> QED BY <5>1 DEF Item
      <4>4. blob \in [1..Len(net[s].uni) -> Symbol] BY <4>1, <4>3
      <4> QED BY <4>1, <4>4, IsASeq
    <3>3. t.off \in Nat /\ (t.off > 0) \in BOOLEAN
      BY <1>0, ServerFields
    <3>4. sv' = [sv EXCEPT
                   ![s] = [[[[t EXCEPT !.pc = "encwrite"] EXCEPT !.out = Opened("part")]
                              EXCEPT !.append = (t.off > 0)] EXCEPT !.buf = blob]]
      BY <1>10, <2>2 DEF SrvEncRecvEnd
    <3> HIDE DEF blob
    <3>5. SvOK
      BY <1>0, <1>pc, <3>1, <3>2, <3>3, <3>4, ServerUpdate
    <3> QED BY <1>0, <1>10, <1>q, <2>1, <3>1, <3>5 DEF SrvEncRecvEnd
  <2>3. CASE t.off + Len(net[s].uni) # t.size
    BY <1>0, <1>10, <1>q, <2>1, <2>3, FailType DEF SrvEncRecvEnd
  <2> QED BY <2>2, <2>3
<1>11. CASE SrvEncWrite(s)
  <2>1. PICK k \in 1..Len(t.buf) :
          /\ sv' = [sv EXCEPT
                      ![s] = IF k = Len(t.buf)
                             THEN [Ended("rename") EXCEPT !.from = "part"]
                             ELSE [t EXCEPT !.pos = @ + k,
                                            !.buf = SubSeq(@, k + 1, Len(@))]]
          /\ data' = Kept(Written(t, SubSeq(t.buf, 1, k)))
    BY <1>11 DEF SrvEncWrite
  <2>2. t.buf \in Seq(Symbol) /\ t.pos \in Nat BY <1>0, ServerFields
  <2>3. SubSeq(t.buf, 1, k) \in Seq(Symbol) BY <2>2
  <2>4. DataOK BY <1>0, <2>1, <2>3, WrittenType, KeptType
  <2>5. [Ended("rename") EXCEPT !.from = "part"] \in ServerState
    BY <1>pc, IdleTypes, ServerUpdate
  <2>6. [t EXCEPT !.pos = t.pos + k, !.buf = SubSeq(t.buf, k + 1, Len(t.buf))]
          \in ServerState
    <3>1. t.pos + k \in Nat BY <2>2
    <3>2. SubSeq(t.buf, k + 1, Len(t.buf)) \in Seq(Symbol) BY <2>2
    <3> DEFINE u == [t EXCEPT !.pos = t.pos + k]
    <3>3. u \in ServerState BY <1>0, <3>1, ServerUpdate
    <3>4. [u EXCEPT !.buf = SubSeq(t.buf, k + 1, Len(t.buf))] \in ServerState
      BY <3>2, <3>3, ServerUpdate
    <3> QED BY <3>4
  <2>7. SvOK BY <1>0, <2>1, <2>5, <2>6
  <2> QED BY <1>0, <1>11, <1>q, <2>4, <2>7 DEF SrvEncWrite
<1>12. CASE SrvRename(s)
  <2>1. CASE Exists(t.from)
    <3>1. t.from \in Names BY <1>0, <1>n, ServerFields
    <3>2. DirOK BY <1>0, <1>12, <2>1, <3>1 DEF SrvRename
    <3>3. DataOK BY <1>0, <1>12, <2>1, KeptType DEF SrvRename
    <3>4. SvOK
      <4>1. sv' = [sv EXCEPT ![s] = [t EXCEPT !.pc = "verify"]]
        BY <1>12, <2>1 DEF SrvRename
      <4> QED BY <1>0, <1>pc, <4>1, ServerUpdate
    <3> QED BY <1>0, <1>12, <1>q, <3>2, <3>3, <3>4 DEF SrvRename
  <2>2. CASE ~Exists(t.from)
    BY <1>0, <1>12, <1>q, <2>2, FailType DEF SrvRename
  <2> QED BY <2>1, <2>2
<1>13. CASE SrvVerify(s)
  <2>1. CASE Exists("file")
    <3> DEFINE result == [type |-> "VerifyResult", sum |-> data[dir["file"]]]
    <3>1. result \in ServerMessage
      BY <1>n, <2>1, SizeOfType DEF ServerMessage
    <3>2. net' = [net EXCEPT ![s] = [net[s] EXCEPT !.rsp = Append(net[s].rsp, result)]]
      BY <1>13, <2>1 DEF SrvVerify
    <3> HIDE DEF result
    <3>3. NetOK
      <4>1. Append(net[s].rsp, result) \in Seq(ServerMessage)
        BY <1>0, <3>1, TrafficUpdate
      <4> QED BY <1>0, <3>2, <4>1, TrafficUpdate
    <3>4. SvOK BY <1>0, <1>13, <1>pc, <2>1, IdleTypes DEF SrvVerify
    <3> QED BY <1>0, <1>13, <1>q, <2>1, <3>3, <3>4 DEF SrvVerify
  <2>2. CASE ~Exists("file")
    BY <1>0, <1>13, <1>q, <2>2, FailType DEF SrvVerify
  <2> QED BY <2>1, <2>2
<1>14. CASE SrvLost(s)
  BY <1>0, <1>14, <1>q, FailType DEF SrvLost
<1> QED BY <1>1, <1>2, <1>3, <1>4, <1>5, <1>6, <1>7, <1>8, <1>9, <1>10, <1>11,
           <1>12, <1>13, <1>14 DEF ServerStep

(* The steps that belong to neither side alone.                             *)
LEMMA OtherTypes ==
    ASSUME TypeOK, (\E s \in Sessions : ClDie(s) \/ Edit(s)) \/ ServerCrash
    PROVE  TypeOK'
<1> USE DEF TypeOK
<1>f. Trouble => faults' \in 0..MaxFaults
  BY BoundAssumption DEF Trouble
<1>1. ASSUME NEW s \in Sessions, ClDie(s) PROVE TypeOK'
  BY <1>1, <1>f, GoneType DEF ClDie
<1>2. ASSUME NEW s \in Sessions, Edit(s) PROVE TypeOK'
  BY <1>2, <1>f DEF Edit
<1>3. CASE ServerCrash
  <2>1. Ended("failed") \in ServerState
    BY IdleTypes DEF ServerPcs, ServerEnds
  <2>2. sv' \in [Sessions -> ServerState]
    BY <1>3, <2>1 DEF ServerCrash
  <2>3. data' \in [Inodes -> Seq(Symbol)]
    BY <1>3, KeptType DEF ServerCrash
  <2> QED BY <1>3, <1>f, <2>2, <2>3 DEF ServerCrash
<1> QED BY <1>1, <1>2, <1>3

LEMMA InitType == Init => TypeOK
<1> SUFFICES ASSUME Init PROVE TypeOK
  OBVIOUS
<1>1. PICK old \in Bases :
        LET i == CHOOSE j \in Inodes : TRUE IN
        /\ dir = [n \in Names |-> IF n = "file" /\ old # NoInode THEN i ELSE NoInode]
        /\ data = [j \in Inodes |-> IF j = i /\ old # NoInode THEN old ELSE <<>>]
  BY DEF Init
<1>2. (CHOOSE j \in Inodes : TRUE) \in Inodes
  BY InodesAssumption
<1>3. old # NoInode => old \in Seq(Symbol)
  <2>1. Seq(Block) \subseteq Seq(Symbol) BY DEF Symbol
  <2> QED BY <2>1, ContentsAssumption
<1>4. dir \in [Names -> Inodes \cup {NoInode}]
  BY <1>1, <1>2
<1>5. <<>> \in Seq(Symbol) OBVIOUS
<1>6. data \in [Inodes -> Seq(Symbol)]
  BY <1>1, <1>3, <1>5
<1>7. IdleServer \in ServerState
  BY DEF IdleServer, ServerState, ServerPcs, ServerEnds
<1>8. faults \in 0..MaxFaults
  BY BoundAssumption DEF Init
<1> QED BY <1>4, <1>6, <1>7, <1>8, IdleTypes DEF Init, TypeOK

-----------------------------------------------------------------------------
(* The two sides stay on the same branch.                                   *)

(* A step of one session leaves the others' processes and streams alone.    *)
LEMMA OthersAlone ==
    ASSUME TypeOK, NEW s \in Sessions, NEW q \in Sessions \ {s},
           \/ ClStart(s) \/ ClientStep(s) \/ ServerStep(s) \/ ClDie(s) \/ Edit(s)
    PROVE  cl'[q] = cl[q] /\ net'[q] = net[q] /\ sv'[q] = sv[q]
<1> USE DEF TypeOK
<1>1. CASE ClStart(s) \/ ClientStep(s) \/ ClDie(s) \/ Edit(s)
  BY <1>1 DEF ClStart, ClientStep, ClUpload, ClSend, ClPatch, ClEncrypt,
              ClVerified, ClLost, ClDie, Edit
<1>2. CASE ServerStep(s)
  BY <1>2 DEF ServerStep, SrvHandshake, SrvOpenPart, SrvRecv, SrvRecvEnd, SrvSign,
              SrvPatchOpen, SrvPatch, SrvPatchEnd, SrvEncrypted, SrvEncRecvEnd,
              SrvEncWrite, SrvRename, SrvVerify, SrvLost, Fail, Buffered
<1> QED BY <1>1, <1>2

(* Reading a sequence from its front, and adding to its end.                *)
LEMMA Sequences ==
    ASSUME NEW S, NEW x \in Seq(S), NEW e \in S
    PROVE  /\ x # <<>> => /\ Head(x) = x[1] /\ 1 \in DOMAIN x
                          /\ Tail(x) \in Seq(S)
                          /\ \A i \in DOMAIN Tail(x) :
                                i >= 1 /\ i + 1 # 1 /\ i + 1 \in DOMAIN x
                                /\ Tail(x)[i] = x[i + 1]
           /\ Append(x, e) # <<>>
           /\ x = <<>> => Append(x, e)[1] = e /\ Tail(Append(x, e)) = <<>>
           /\ x # <<>> => Append(x, e)[1] = x[1]
           /\ \A y : y = Append(x, e) =>
                 \A i \in DOMAIN y : y[i] = e \/ (i \in DOMAIN x /\ y[i] = x[i])
<1>1. ASSUME x # <<>>
      PROVE  /\ Head(x) = x[1] /\ 1 \in DOMAIN x /\ Tail(x) \in Seq(S)
             /\ \A i \in DOMAIN Tail(x) :
                   i >= 1 /\ i + 1 # 1 /\ i + 1 \in DOMAIN x /\ Tail(x)[i] = x[i + 1]
  <2>1. Len(x) \in Nat \ {0} /\ Head(x) = x[1] BY <1>1, EmptySeq
  <2>2. /\ Tail(x) \in Seq(S) /\ Len(Tail(x)) = Len(x) - 1
        /\ \A i \in 1..Len(Tail(x)) : Tail(x)[i] = x[i + 1]
    BY <1>1, HeadTailProperties
  <2>3. DOMAIN x = 1..Len(x) /\ DOMAIN Tail(x) = 1..Len(Tail(x)) BY <2>2
  <2> QED BY <2>1, <2>2, <2>3
<1>2. Append(x, e) # <<>> /\ (x # <<>> => Append(x, e)[1] = x[1])
  BY EmptySeq, AppendProperties
<1>3. ASSUME x = <<>> PROVE Append(x, e)[1] = e /\ Tail(Append(x, e)) = <<>>
  <2>1. Append(x, e) \in Seq(S) /\ Len(Append(x, e)) = 1 BY <1>3
  <2>2. Tail(Append(x, e)) \in Seq(S) /\ Len(Tail(Append(x, e))) = 0 BY <2>1
  <2>3. Append(x, e)[1] = e BY <1>3
  <2> QED BY <2>2, <2>3, EmptySeq
<1>4. ASSUME NEW y, y = Append(x, e), NEW i \in DOMAIN y
      PROVE  y[i] = e \/ (i \in DOMAIN x /\ y[i] = x[i])
  <2>1. /\ y \in Seq(S) /\ Len(y) = Len(x) + 1 /\ y[Len(x) + 1] = e
        /\ \A j \in 1..Len(x) : y[j] = x[j]
    BY <1>4, AppendProperties
  <2>2. DOMAIN y = 1..Len(y) /\ DOMAIN x = 1..Len(x) /\ Len(x) \in Nat
    BY <2>1
  <2>3. i \in 1..Len(x) \/ i = Len(x) + 1 BY <2>1, <2>2
  <2>4. CASE i \in 1..Len(x)
    <3>1. i \in DOMAIN x /\ y[i] = x[i] BY <2>1, <2>2, <2>4
    <3> QED BY <3>1
  <2>5. CASE i = Len(x) + 1
    <3>1. y[i] = e BY <2>1, <2>5
    <3> QED BY <3>1
  <2> QED BY <2>3, <2>4, <2>5
<1> QED BY <1>1, <1>2, <1>3, <1>4

LEMMA ClientAgrees ==
    ASSUME TypeOK, Lockstep, BranchesAgree, NEW s \in Sessions,
           ClStart(s) \/ ClientStep(s) \/ ClDie(s) \/ Edit(s)
    PROVE  InStep(s)' /\ SameBranch(s)'
<1>0. /\ InStep(s) /\ SameBranch(s)
      /\ cl[s] \in ClientState /\ net[s] \in Traffic /\ sv[s] \in ServerState
      /\ DOMAIN cl = Sessions /\ DOMAIN net = Sessions /\ DOMAIN sv = Sessions
  BY DEF TypeOK, Lockstep, BranchesAgree
<1>1. CASE ClStart(s)
  <2>1. PICK e \in Modes :
          /\ cl'[s] = [IdleClient EXCEPT !.pc = "ack", !.enc = e]
          /\ net'[s] = [NoTraffic EXCEPT !.req =
                          <<[type |-> "Handshake", size |-> Len(local[s]),
                             encrypted |-> e]>>]
    BY <1>0, <1>1 DEF ClStart
  <2>2. sv'[s] = Ended("handshake")
    BY <1>0, <1>1 DEF ClStart
  <2> QED BY <2>1, <2>2 DEF InStep, SameBranch, IdleClient, NoTraffic, Ended, IdleServer
<1>2. CASE ClUpload(s)
  <2>1. net'[s] = [net[s] EXCEPT !.rsp = Tail(net[s].rsp)] /\ sv'[s] = sv[s]
    BY <1>0, <1>2 DEF ClUpload
  <2>2. cl'[s] = IF Head(net[s].rsp).old THEN [cl[s] EXCEPT !.pc = "sigs"]
                 ELSE [cl[s] EXCEPT !.pc = "send", !.skip = Head(net[s].rsp).offset,
                                    !.pos = Head(net[s].rsp).offset]
    BY <1>0, <1>2 DEF ClUpload
  <2>3. Head(net[s].rsp) = net[s].rsp[1] /\ net[s].rsp # <<>>
    BY <1>0, <1>2, TrafficUpdate DEF ClUpload, Replied
  <2> QED BY <1>0, <1>2, <2>1, <2>2, <2>3 DEF ClUpload, InStep, SameBranch, Traffic,
                                              ClientState
<1>3. CASE ClSend(s)
  <2>1. sv'[s] = sv[s]
    BY <1>0, <1>3 DEF ClSend
  <2>2. CASE cl[s].pos < Len(local[s])
    <3> DEFINE e == [op |-> "Raw", sym |-> local[s][cl[s].pos + 1]]
    <3>1. net'[s] = [net[s] EXCEPT !.uni = Append(net[s].uni, e)]
      BY <1>0, <1>3, <2>2 DEF ClSend
    <3>2. cl'[s].pc = "send" /\ sv[s].pc \in {"open", "recv", "failed"} /\ ~net[s].fin
      BY <1>0, <1>3, <2>2 DEF ClSend, InStep, ClientState
    <3>3. net'[s].uni = Append(net[s].uni, e) /\ net'[s].fin = net[s].fin
      BY <1>0, <3>1 DEF Traffic
    <3>4. e.op = "Raw" OBVIOUS
    <3>6. e \in Item
      <4>1. local[s] \in Seq(Block) BY ContentsAssumption DEF TypeOK
      <4>2. cl[s].pos + 1 \in 1..Len(local[s]) BY <1>0, <2>2, <4>1 DEF ClientState
      <4>3. local[s][cl[s].pos + 1] \in Symbol BY <4>1, <4>2 DEF Symbol
      <4> QED BY <4>3 DEF Item
    <3> HIDE DEF e
    <3>5. \A i \in DOMAIN net'[s].uni :
             net'[s].uni[i] = e \/ (i \in DOMAIN net[s].uni
                                   /\ net'[s].uni[i] = net[s].uni[i])
      <4>1. net[s].uni \in Seq(Item) BY <1>0, TrafficUpdate
      <4> DEFINE y == net'[s].uni
      <4>2. y = Append(net[s].uni, e) BY <3>3
      <4> HIDE DEF y
      <4>3. \A i \in DOMAIN y :
               y[i] = e \/ (i \in DOMAIN net[s].uni /\ y[i] = net[s].uni[i])
        BY <3>6, <4>1, <4>2, Sequences
      <4> QED BY <4>3 DEF y
    <3> QED BY <1>0, <2>1, <3>2, <3>3, <3>4, <3>5 DEF InStep, SameBranch
  <2>3. CASE ~(cl[s].pos < Len(local[s]))
    <3>1. cl'[s].pc = "verify" /\ net'[s].uni = net[s].uni
      BY <1>0, <1>3, <2>3 DEF ClSend, ClientState, Traffic
    <3>2. sv[s].pc \in {"open", "recv", "failed"}
      BY <1>0, <1>3 DEF ClSend, InStep
    <3> QED BY <1>0, <2>1, <3>1, <3>2 DEF InStep, SameBranch
  <2> QED BY <2>2, <2>3
<1>4. CASE ClPatch(s)
  <2> DEFINE d == Delta(local[s], Head(net[s].rsp).base)
  <2>1. sv'[s] = sv[s] /\ sv[s].pc \in {"sign", "patchopen", "failed"}
    BY <1>0, <1>4 DEF ClPatch, InStep
  <2>2. net'[s].uni = <<[op |-> "StartPatch"]>> \o d /\ cl'[s].pc = "verify"
    BY <1>0, <1>4 DEF ClPatch, Traffic, ClientState
  <2>3. d \in Seq(Item) /\ \A i \in DOMAIN d : d[i].op \in {"Copy", "Literal"}
    <3>1. Head(net[s].rsp) \in ServerMessage /\ Head(net[s].rsp).type = "Signatures"
      BY <1>0, <1>4 DEF ClPatch, Replied, Traffic
    <3>2. Head(net[s].rsp).base \in Seq(Symbol) BY <3>1 DEF ServerMessage
    <3>3. local[s] \in Seq(Block) BY ContentsAssumption DEF TypeOK
    <3>4. d \in Seq(Item) BY <3>2, <3>3, DeltaType
    <3>5. ASSUME NEW i \in DOMAIN d PROVE d[i].op \in {"Copy", "Literal"}
      BY <3>5 DEF Delta
    <3> QED BY <3>4, <3>5
  <2> HIDE DEF d
  <2>4. \A i \in DOMAIN net'[s].uni :
           net'[s].uni[i].op \in IF i = 1 THEN {"StartPatch"} ELSE {"Copy", "Literal"}
    <3> DEFINE u == <<[op |-> "StartPatch"]>>
    <3>1. u \in Seq(Item) /\ Len(u) = 1 /\ u[1].op = "StartPatch" BY DEF Item
    <3> HIDE DEF u
    <3>c. /\ DOMAIN (u \o d) = 1..(1 + Len(d)) /\ DOMAIN d = 1..Len(d) /\ Len(d) \in Nat
          /\ \A i \in 1..(1 + Len(d)) :
                (u \o d)[i] = IF i <= 1 THEN u[i] ELSE d[i - 1]
      <4>1. /\ u \o d \in Seq(Item) /\ Len(u \o d) = 1 + Len(d)
            /\ \A i \in 1..(1 + Len(d)) :
                  (u \o d)[i] = IF i <= 1 THEN u[i] ELSE d[i - 1]
        <5>1. u \in Seq(Item) /\ d \in Seq(Item) BY <2>3, <3>1
        <5>2. /\ u \o d \in Seq(Item) /\ Len(u \o d) = Len(u) + Len(d)
              /\ \A i \in 1..(Len(u) + Len(d)) :
                    (u \o d)[i] = IF i <= Len(u) THEN u[i] ELSE d[i - Len(u)]
          BY <5>1, ConcatProperties
        <5> QED BY <3>1, <5>2
      <4>2. DOMAIN (u \o d) = 1..Len(u \o d) BY <4>1
      <4>3. DOMAIN d = 1..Len(d) /\ Len(d) \in Nat BY <2>3
      <4> QED BY <4>1, <4>2, <4>3
    <3>2. ASSUME NEW i \in DOMAIN (u \o d)
          PROVE  (u \o d)[i].op \in IF i = 1 THEN {"StartPatch"} ELSE {"Copy", "Literal"}
      <4>1. CASE i = 1 BY <2>3, <3>1, <3>c, <4>1
      <4>2. CASE i # 1
        <5>1. i - 1 \in DOMAIN d /\ (u \o d)[i] = d[i - 1] BY <2>3, <3>1, <3>c, <4>2
        <5> QED BY <2>3, <4>2, <5>1
      <4> QED BY <4>1, <4>2
    <3> QED BY <2>2, <3>2 DEF u
  <2> QED BY <2>1, <2>2, <2>4 DEF InStep, SameBranch
<1>5. CASE ClEncrypt(s)
  <2>1. sv'[s] = sv[s] /\ cl'[s].pc = "verify"
    BY <1>0, <1>5 DEF ClEncrypt, ClientState
  <2>2. sv[s].pc \in {"failed", "encrypted"}
    BY <1>0, <1>5 DEF ClEncrypt, Replied, InStep
  <2>3. \A i \in DOMAIN net'[s].uni : net'[s].uni[i].op = "Raw"
    BY <1>0, <1>5 DEF ClEncrypt, Raw
  <2> QED BY <2>1, <2>2, <2>3 DEF InStep, SameBranch
<1>6. CASE ClVerified(s) \/ ClLost(s)
  <2>1. sv'[s] = sv[s] /\ cl'[s].pc \in {"ok", "failed"} /\ net'[s] = NoTraffic
    <3>1. CASE ClVerified(s)
      <4>1. cl'[s] = [cl[s] EXCEPT !.pc = "ok", !.pos = 0, !.sum = Head(net[s].rsp).sum]
        BY <1>0, <3>1 DEF ClVerified
      <4> QED BY <1>0, <3>1, <4>1 DEF ClVerified, ClientState
    <3>2. CASE ClLost(s)
      BY <1>0, <3>2 DEF ClLost, Gone, IdleClient
    <3> QED BY <1>6, <3>1, <3>2
  <2>2. sv[s].pc # "handshake"
    BY <1>0, <1>6 DEF ClVerified, ClLost, InStep, ClientEnds
  <2> QED BY <1>0, <2>1, <2>2 DEF InStep, SameBranch, NoTraffic
<1>7. CASE ClDie(s)
  <2>1. sv'[s] = sv[s] /\ net'[s] = net[s]
        /\ cl'[s].pc = "failed" /\ cl'[s].enc = cl[s].enc
    BY <1>0, <1>7 DEF ClDie, Gone, IdleClient
  <2> QED BY <1>0, <2>1 DEF InStep, SameBranch
<1>8. CASE Edit(s)
  BY <1>0, <1>8 DEF Edit, InStep, SameBranch
<1> QED BY <1>1, <1>2, <1>3, <1>4, <1>5, <1>6, <1>7, <1>8 DEF ClientStep

LEMMA ServerAgrees ==
    ASSUME TypeOK, Lockstep, BranchesAgree, NEW s \in Sessions, ServerStep(s)
    PROVE  InStep(s)' /\ SameBranch(s)'
<1>0. /\ InStep(s) /\ SameBranch(s)
      /\ cl[s] \in ClientState /\ net[s] \in Traffic /\ sv[s] \in ServerState
      /\ DOMAIN cl = Sessions /\ DOMAIN net = Sessions /\ DOMAIN sv = Sessions
      /\ dir \in [Names -> Inodes \cup {NoInode}]
  BY DEF TypeOK, Lockstep, BranchesAgree
<1>c. UNCHANGED cl
  BY DEF ServerStep, SrvHandshake, SrvOpenPart, SrvRecv, SrvRecvEnd, SrvSign,
         SrvPatchOpen, SrvPatch, SrvPatchEnd, SrvEncrypted, SrvEncRecvEnd,
         SrvEncWrite, SrvRename, SrvVerify, SrvLost
(* Nothing is asked of a session whose server task has failed.              *)
<1>f. ASSUME sv'[s].pc = "failed", cl[s].pc \notin {"ack", "send", "sigs"} \/ UNCHANGED net
      PROVE  InStep(s)' /\ SameBranch(s)'
  BY <1>0, <1>c, <1>f DEF InStep, SameBranch
<1>g. ASSUME Fail(s) PROVE sv'[s].pc = "failed"
  BY <1>0, <1>g DEF Fail, Ended, IdleServer
(* The task advances to a place where no stream matters any more.           *)
<1>e. ASSUME sv'[s].pc \in {"rename", "verify", "done", "encwrite"},
             cl[s].pc \notin {"ack", "send", "sigs"}
      PROVE  InStep(s)' /\ SameBranch(s)'
  BY <1>0, <1>c, <1>e DEF InStep, SameBranch
<1>t. net[s].uni # <<>> =>
         /\ Head(net[s].uni) = net[s].uni[1] /\ 1 \in DOMAIN net[s].uni
         /\ \A i \in DOMAIN Tail(net[s].uni) :
               i + 1 # 1 /\ i + 1 \in DOMAIN net[s].uni
               /\ Tail(net[s].uni)[i] = net[s].uni[i + 1]
  <2>1. CASE net[s].uni # <<>>
    <3>1. net[s].uni \in Seq(Item) /\ Head(net[s].uni) \in Item
      BY <1>0, <2>1, TrafficUpdate
    <3> QED BY <2>1, <3>1, Sequences
  <2> QED BY <2>1
<1>1. CASE SrvHandshake(s)
  <2> DEFINE h == Head(net[s].req)
             ack == [type |-> "HandshakeAck", old |-> Exists("file"),
                     offset |-> SizeOf("part")]
  <2>1. /\ h.type = "Handshake" /\ h.encrypted = cl[s].enc
        /\ Tail(net[s].req) = <<>> /\ net[s].rsp = <<>> /\ net[s].uni = <<>>
        /\ ~net[s].fin /\ cl[s].pc \in {"ack", "failed"}
    <3>1. Head(net[s].req) = net[s].req[1]
      BY <1>0, <1>1, TrafficUpdate DEF SrvHandshake
    <3> QED BY <1>0, <1>1, <3>1 DEF SrvHandshake, InStep
  <2>2. sv'[s].pc = IF h.encrypted THEN "encrypted"
                    ELSE IF Exists("file") THEN "sign" ELSE "open"
    BY <1>0, <1>1 DEF SrvHandshake, ServerState
  <2>3. net'[s].req = <<>> /\ net'[s].uni = <<>> /\ ~net'[s].fin
        /\ net'[s].rsp = Append(<<>>, ack)
    BY <1>0, <1>1, <2>1 DEF SrvHandshake, Traffic
  <2>4. net'[s].rsp # <<>> /\ net'[s].rsp[1] = ack
    BY <2>3
  <2>5. ack.type = "HandshakeAck" /\ ack.old = Exists("file")
    OBVIOUS
  <2> HIDE DEF ack, h
  <2> QED BY <1>0, <1>c, <2>1, <2>2, <2>3, <2>4, <2>5 DEF InStep, SameBranch
<1>2. CASE SrvOpenPart(s)
  <2>1. sv'[s].pc = "recv" /\ net'[s] = net[s]
    BY <1>0, <1>2 DEF SrvOpenPart, ServerState
  <2> QED BY <1>0, <1>2, <1>c, <2>1 DEF SrvOpenPart, InStep, SameBranch
<1>3. CASE SrvRecv(s)
  <2>1. sv'[s].pc = "recv" /\ sv'[s].base = sv[s].base
    <3>1. PICK k, b : sv' = [sv EXCEPT ![s] =
                       [[sv[s] EXCEPT !.got = @ + 1] EXCEPT !.pos = @ + k, !.buf = b]]
      BY <1>3 DEF SrvRecv, Buffered
    <3> QED BY <1>0, <1>3, <3>1 DEF SrvRecv, ServerState
  <2>2. net'[s].uni = Tail(net[s].uni) /\ net'[s].fin = net[s].fin
    BY <1>0, <1>3 DEF SrvRecv, Traffic
  <2> QED BY <1>0, <1>3, <1>c, <1>t, <2>1, <2>2 DEF SrvRecv, InStep, SameBranch
<1>4. CASE SrvRecvEnd(s)
  <2>1. sv'[s].pc \in {"rename", "failed"} /\ UNCHANGED net
    BY <1>0, <1>4 DEF SrvRecvEnd, Ended, IdleServer
  <2>2. cl[s].pc \notin {"ack", "send", "sigs"}
    BY <1>0, <1>4 DEF SrvRecvEnd, InStep
  <2> QED BY <1>e, <1>f, <2>1, <2>2
<1>5. CASE SrvSign(s)
  <2>1. CASE Exists("file")
    <3> DEFINE sig == [type |-> "Signatures", base |-> data[dir["file"]]]
    <3>1. sv'[s].pc = "patchopen" /\ net'[s].rsp = Append(net[s].rsp, sig)
          /\ net'[s].uni = net[s].uni /\ net'[s].fin = net[s].fin
          /\ net'[s].req = net[s].req
      BY <1>0, <1>5, <2>1 DEF SrvSign, ServerState, Traffic
    <3>2. Append(net[s].rsp, sig) # <<>>
          /\ (net[s].rsp # <<>> => Append(net[s].rsp, sig)[1] = net[s].rsp[1])
      <4>1. net[s].rsp \in Seq(ServerMessage) BY <1>0, TrafficUpdate
      <4>2. sig \in ServerMessage
        BY <2>1, SizeOfType DEF ServerMessage, Names
      <4> HIDE DEF sig
      <4> QED BY <4>1, <4>2, Sequences
    <3> HIDE DEF sig
    <3> QED BY <1>0, <1>5, <1>c, <3>1, <3>2 DEF SrvSign, InStep, SameBranch
  <2>2. CASE ~Exists("file")
    BY <1>5, <1>f, <1>g, <2>2 DEF SrvSign
  <2> QED BY <2>1, <2>2
<1>6. CASE SrvPatchOpen(s)
  <2>1. CASE Exists("file") /\ Head(net[s].uni).op = "StartPatch"
    <3>1. sv'[s].pc = "patch" /\ sv'[s].base = dir["file"]
      BY <1>0, <1>6, <2>1 DEF SrvPatchOpen, ServerState
    <3>2. dir["file"] # NoInode
      BY <2>1 DEF Exists
    <3>3. cl[s].pc \notin {"ack", "send", "sigs"}
      BY <1>0, <1>6 DEF SrvPatchOpen, InStep
    <3>4. net'[s].uni = Tail(net[s].uni)
      BY <1>0, <1>6, <2>1 DEF SrvPatchOpen, Traffic
    <3> QED BY <1>0, <1>6, <1>c, <1>t, <3>1, <3>2, <3>3, <3>4
            DEF SrvPatchOpen, InStep, SameBranch
  <2>2. CASE ~(Exists("file") /\ Head(net[s].uni).op = "StartPatch")
    BY <1>6, <1>f, <1>g, <2>2 DEF SrvPatchOpen
  <2> QED BY <2>1, <2>2
<1>7. CASE SrvPatch(s)
  <2>1. \/ sv'[s].pc = "failed"
        \/ (sv'[s].pc = "patch" /\ sv'[s].base = sv[s].base)
    <3>1. CASE Fail(s) BY <1>g, <3>1
    <3>2. ASSUME NEW x, Buffered(s, sv[s], x)
          PROVE  sv'[s].pc = "patch" /\ sv'[s].base = sv[s].base
      <4>1. PICK k, b : sv' = [sv EXCEPT ![s] =
                                 [sv[s] EXCEPT !.pos = @ + k, !.buf = b]]
        BY <3>2 DEF Buffered
      <4> QED BY <1>0, <1>7, <4>1 DEF SrvPatch, ServerState
    <3> QED BY <1>7, <3>1, <3>2 DEF SrvPatch
  <2>2. net'[s].uni = Tail(net[s].uni)
    BY <1>0, <1>7 DEF SrvPatch, Traffic
  <2>3. cl[s].pc \notin {"ack", "send", "sigs"}
    BY <1>0, <1>7 DEF SrvPatch, InStep
  <2>4. CASE sv'[s].pc = "failed" BY <1>f, <2>3, <2>4
  <2>5. CASE sv'[s].pc = "patch" /\ sv'[s].base = sv[s].base
    BY <1>0, <1>7, <1>c, <1>t, <2>2, <2>3, <2>5 DEF SrvPatch, InStep, SameBranch
  <2> QED BY <2>1, <2>4, <2>5
<1>8. CASE SrvPatchEnd(s)
  <2>1. sv'[s].pc = "rename"
    BY <1>0, <1>8 DEF SrvPatchEnd, Ended, IdleServer
  <2>2. cl[s].pc \notin {"ack", "send", "sigs"}
    BY <1>0, <1>8 DEF SrvPatchEnd, InStep
  <2> QED BY <1>e, <2>1, <2>2
<1>9. CASE SrvEncrypted(s)
  <2>1. sv'[s].pc = "encrecv" /\ net'[s].uni = net[s].uni /\ net'[s].fin = net[s].fin
    BY <1>0, <1>9 DEF SrvEncrypted, ServerState, Traffic
  <2>2. cl[s].pc \notin {"ack", "send", "sigs"}
    BY <1>0, <1>9 DEF SrvEncrypted, InStep
  <2> QED BY <1>0, <1>9, <1>c, <2>1, <2>2 DEF SrvEncrypted, InStep, SameBranch
<1>10. CASE SrvEncRecvEnd(s)
  <2>1. sv'[s].pc \in {"encwrite", "failed"}
    BY <1>0, <1>10, <1>g DEF SrvEncRecvEnd, ServerState
  <2>2. cl[s].pc \notin {"ack", "send", "sigs"}
    BY <1>0, <1>10 DEF SrvEncRecvEnd, InStep
  <2> QED BY <1>e, <1>f, <2>1, <2>2
<1>11. CASE SrvEncWrite(s)
  <2>1. sv'[s].pc \in {"encwrite", "rename"}
    <3>1. PICK k : sv' = [sv EXCEPT
             ![s] = IF k = Len(sv[s].buf)
                    THEN [Ended("rename") EXCEPT !.from = "part"]
                    ELSE [sv[s] EXCEPT !.pos = @ + k,
                                       !.buf = SubSeq(@, k + 1, Len(@))]]
      BY <1>11 DEF SrvEncWrite
    <3> QED BY <1>0, <1>11, <3>1 DEF SrvEncWrite, ServerState, Ended, IdleServer
  <2>2. cl[s].pc \notin {"ack", "send", "sigs"}
    BY <1>0, <1>11 DEF SrvEncWrite, InStep
  <2> QED BY <1>e, <2>1, <2>2
<1>12. CASE SrvRename(s)
  <2>1. sv'[s].pc \in {"verify", "failed"} /\ UNCHANGED net
    BY <1>0, <1>12, <1>g DEF SrvRename, ServerState
  <2>2. cl[s].pc \notin {"ack", "send", "sigs"}
    BY <1>0, <1>12 DEF SrvRename, InStep
  <2> QED BY <1>e, <1>f, <2>1, <2>2
<1>13. CASE SrvVerify(s)
  <2>1. sv'[s].pc \in {"done", "failed"}
    BY <1>0, <1>13, <1>g DEF SrvVerify, Ended, IdleServer
  <2>2. cl[s].pc \notin {"ack", "send", "sigs"}
    BY <1>0, <1>13 DEF SrvVerify, InStep
  <2> QED BY <1>e, <1>f, <2>1, <2>2
<1>14. CASE SrvLost(s)
  BY <1>14, <1>f, <1>g DEF SrvLost
<1> QED BY <1>1, <1>2, <1>3, <1>4, <1>5, <1>6, <1>7, <1>8, <1>9, <1>10, <1>11,
           <1>12, <1>13, <1>14 DEF ServerStep

-----------------------------------------------------------------------------
(* The inductive invariant.                                                 *)
Inv == TypeOK /\ Lockstep /\ BranchesAgree

LEMMA InitInv == Init => Inv
<1>1. Init => Lockstep /\ BranchesAgree
  BY DEF Init, Lockstep, InStep, BranchesAgree, SameBranch, IdleClient, NoTraffic,
         IdleServer
<1> QED BY <1>1, InitType DEF Inv

LEMMA NextInv == Inv /\ [Next]_vars => Inv'
<1> SUFFICES ASSUME Inv, [Next]_vars PROVE Inv'
  OBVIOUS
<1> USE DEF Inv
<1>1. ASSUME NEW s \in Sessions,
             ClStart(s) \/ ClientStep(s) \/ ServerStep(s) \/ ClDie(s) \/ Edit(s)
      PROVE  Inv'
  <2>1. TypeOK'
    BY <1>1, ClientTypes, ServerTypes, OtherTypes
  <2>2. InStep(s)' /\ SameBranch(s)'
    BY <1>1, ClientAgrees, ServerAgrees
  <2>3. ASSUME NEW q \in Sessions \ {s} PROVE InStep(q)' /\ SameBranch(q)'
    <3>1. cl'[q] = cl[q] /\ net'[q] = net[q] /\ sv'[q] = sv[q]
      BY <1>1, OthersAlone
    <3> QED BY <3>1 DEF Lockstep, BranchesAgree, InStep, SameBranch
  <2> QED BY <2>1, <2>2, <2>3 DEF Lockstep, BranchesAgree
<1>2. CASE ServerCrash
  <2>1. TypeOK' BY <1>2, OtherTypes
  <2>2. ASSUME NEW q \in Sessions PROVE InStep(q)' /\ SameBranch(q)'
    <3>1. cl'[q] = cl[q] /\ net'[q] = net[q]
          /\ (sv'[q] = sv[q] \/ sv'[q].pc = "failed")
      BY <1>2 DEF ServerCrash, Ended, IdleServer
    <3>2. InStep(q) /\ SameBranch(q) BY DEF Lockstep, BranchesAgree
    <3> QED BY <3>1, <3>2 DEF InStep, SameBranch
  <2> QED BY <2>1, <2>2 DEF Lockstep, BranchesAgree
<1>3. CASE UNCHANGED vars
  BY <1>3 DEF vars, TypeOK, Lockstep, BranchesAgree, InStep, SameBranch
<1> QED BY <1>1, <1>2, <1>3 DEF Next

(* Every variable keeps its type: no step of the protocol, no fault and no  *)
(* edit takes the state outside the shapes the code's structures have.      *)
THEOREM TypeCorrect == Spec => []TypeOK
<1>1. Inv => TypeOK BY DEF Inv
<1> QED BY <1>1, InitInv, NextInv, PTL DEF Spec

(* handle_sync and handle_file_sync always take the same branch: whatever   *)
(* other sessions do to the file between the acknowledgement and the data,  *)
(* the server never reads file data as patch instructions, or the reverse.  *)
THEOREM BranchesCorrect == Spec => []BranchesAgree
<1>1. Inv => BranchesAgree BY DEF Inv
<1> QED BY <1>1, InitInv, NextInv, PTL DEF Spec

-----------------------------------------------------------------------------
(* The directory.                                                           *)

(* What a step may do to the three entries: nothing, open `.part` or `.tmp` *)
(* for writing, or rename one of the two to the file.                       *)
LEMMA DirSteps ==
    ASSUME TypeOK, [Next]_vars
    PROVE  \/ dir' = dir
           \/ \E n \in {"part", "tmp"} :
                 CanOpen(n) /\ dir' = [dir EXCEPT ![n] = Opened(n)]
           \/ \E n \in {"part", "tmp"} :
                 Exists(n) /\ dir' = [dir EXCEPT !["file"] = dir[n], ![n] = NoInode]
<1>1. ASSUME NEW s \in Sessions, ClStart(s) \/ ClientStep(s) \/ ClDie(s) \/ Edit(s)
      PROVE  dir' = dir
  BY <1>1 DEF ClStart, ClientStep, ClUpload, ClSend, ClPatch, ClEncrypt, ClVerified,
              ClLost, ClDie, Edit
<1>2. ASSUME NEW s \in Sessions, SrvOpenPart(s) \/ SrvEncRecvEnd(s)
      PROVE  \/ dir' = dir
             \/ CanOpen("part") /\ dir' = [dir EXCEPT !["part"] = Opened("part")]
  BY <1>2 DEF SrvOpenPart, SrvEncRecvEnd, OpenPart, Fail
<1>3. ASSUME NEW s \in Sessions, SrvPatchOpen(s)
      PROVE  \/ dir' = dir
             \/ CanOpen("tmp") /\ dir' = [dir EXCEPT !["tmp"] = Opened("tmp")]
  BY <1>3 DEF SrvPatchOpen, Fail
<1>4. ASSUME NEW s \in Sessions, SrvRename(s)
      PROVE  \/ dir' = dir
             \/ \E n \in {"part", "tmp"} :
                   Exists(n) /\ dir' = [dir EXCEPT !["file"] = dir[n], ![n] = NoInode]
  <2>1. sv[s].from \in {"part", "tmp"} BY ServerFields DEF TypeOK
  <2> QED BY <1>4, <2>1 DEF SrvRename, Fail
<1>5. ASSUME NEW s \in Sessions,
             \/ SrvHandshake(s) \/ SrvRecv(s) \/ SrvRecvEnd(s) \/ SrvSign(s)
             \/ SrvPatch(s) \/ SrvPatchEnd(s) \/ SrvEncrypted(s) \/ SrvEncWrite(s)
             \/ SrvVerify(s) \/ SrvLost(s)
      PROVE  dir' = dir
  BY <1>5 DEF SrvHandshake, SrvRecv, SrvRecvEnd, SrvSign, SrvPatch, SrvPatchEnd,
              SrvEncrypted, SrvEncWrite, SrvVerify, SrvLost, Fail
<1>6. ServerCrash \/ UNCHANGED vars => dir' = dir
  BY DEF ServerCrash, vars
<1> QED BY <1>1, <1>2, <1>3, <1>4, <1>5, <1>6 DEF Next, ServerStep

(* An entry opened anew names an inode no other entry names.                *)
LEMMA OpenedIsFree ==
    ASSUME TypeOK, NEW n \in Names, CanOpen(n), NEW m \in Names, m # n
    PROVE  Opened(n) = dir[n] \/ Opened(n) # dir[m]
<1>1. CASE Exists(n) BY <1>1 DEF Opened
<1>2. CASE ~Exists(n)
  <2>1. Opened(n) \in Unused BY <1>2 DEF CanOpen, Opened
  <2> QED BY <2>1 DEF Unused
<1> QED BY <1>1, <1>2

(* No step of the sessions makes two entries share an inode.                *)
LEMMA EntriesStayDistinct ==
    ASSUME TypeOK, NoAlias, [Next]_vars
    PROVE  NoAlias'
<1>0. DOMAIN dir = Names /\ {"part", "tmp", "file"} = Names
  BY DEF TypeOK, Names
<1>1. CASE dir' = dir BY <1>1 DEF NoAlias, Exists
<1>2. ASSUME NEW n \in {"part", "tmp"}, CanOpen(n),
             dir' = [dir EXCEPT ![n] = Opened(n)]
      PROVE  NoAlias'
  BY <1>0, <1>2, OpenedIsFree DEF NoAlias, Exists
<1>3. ASSUME NEW n \in {"part", "tmp"}, Exists(n),
             dir' = [dir EXCEPT !["file"] = dir[n], ![n] = NoInode]
      PROVE  NoAlias'
  BY <1>0, <1>3 DEF NoAlias, Exists
<1> QED BY <1>1, <1>2, <1>3, DirSteps

(* No two entries ever share an inode: a task that writes `.part` or `.tmp` *)
(* cannot have opened the stored file, whatever the other sessions rename.  *)
THEOREM EntriesDistinct == Spec => []NoAlias
<1>1. Init => NoAlias
  BY DEF Init, NoAlias, Names, Exists
<1>2. TypeOK /\ NoAlias /\ [Next]_vars => NoAlias'
  BY EntriesStayDistinct
<1> QED BY <1>1, <1>2, TypeCorrect, PTL DEF Spec

(* The stored file never disappears: the only step that changes its entry   *)
(* is the rename of an existing `.part` or `.tmp` over it.                  *)
THEOREM FileNeverVanishes == Spec => FileStays
<1>1. TypeOK /\ [Next]_vars => [Exists("file") => dir'["file"] # NoInode]_vars
  <2> SUFFICES ASSUME TypeOK, [Next]_vars, Exists("file")
               PROVE  dir'["file"] # NoInode
    OBVIOUS
  <2>0. DOMAIN dir = {"part", "tmp", "file"}
    BY DEF TypeOK, Names
  <2> QED BY <2>0, DirSteps DEF Exists
<1> QED BY <1>1, TypeCorrect, PTL DEF Spec, FileStays

-----------------------------------------------------------------------------
(* Contents that grow at their end.                                         *)

(* Concatenation is associative.                                            *)
LEMMA Regrouped ==
    ASSUME NEW x \in Seq(Symbol), NEW y \in Seq(Symbol), NEW z \in Seq(Symbol)
    PROVE  x \o (y \o z) = (x \o y) \o z
OBVIOUS

(* Writing at the end of a sequence appends.                                *)
LEMMA WriteAtEnd ==
    ASSUME NEW d \in Seq(Symbol), NEW x \in Seq(Symbol)
    PROVE  WriteAt(d, Len(d), x) = d \o x
<1> DEFINE w == WriteAt(d, Len(d), x)
<1>1. Len(d) \in Nat /\ Len(x) \in Nat
  OBVIOUS
<1>2. w \in Seq(Symbol) /\ d \o x \in Seq(Symbol)
  BY <1>1, WriteAtType
<1>3. (IF Len(d) > Len(d) + Len(x) THEN Len(d) ELSE Len(d) + Len(x)) = Len(d) + Len(x)
  BY <1>1
<1>4. w = [i \in 1..(Len(d) + Len(x)) |->
              IF i > Len(d) /\ i <= Len(d) + Len(x) THEN x[i - Len(d)]
              ELSE IF i <= Len(d) THEN d[i] ELSE Hole]
  BY <1>3 DEF WriteAt
<1>5. Len(w) = Len(d) + Len(x)
  <2>1. DOMAIN w = 1..(Len(d) + Len(x)) BY <1>4
  <2>2. DOMAIN w = 1..Len(w) /\ Len(w) \in Nat BY <1>2
  <2> HIDE DEF w
  <2> QED BY <1>1, <2>1, <2>2
<1>6. ASSUME NEW i \in 1..(Len(d) + Len(x)) PROVE w[i] = (d \o x)[i]
  <2>1. (d \o x)[i] = IF i <= Len(d) THEN d[i] ELSE x[i - Len(d)]
    BY ConcatProperties
  <2>2. w[i] = IF i > Len(d) /\ i <= Len(d) + Len(x) THEN x[i - Len(d)]
               ELSE IF i <= Len(d) THEN d[i] ELSE Hole
    BY <1>4
  <2> HIDE DEF w
  <2> QED BY <1>1, <2>1, <2>2
<1>7. Len(d \o x) = Len(d) + Len(x)
  BY ConcatProperties
<1> HIDE DEF w
<1>8. w = d \o x
  BY <1>2, <1>5, <1>6, <1>7, SeqEqual
<1> QED BY <1>8 DEF w

(* So does writing through a descriptor at the end, or in append mode.      *)
LEMMA WrittenAppends ==
    ASSUME data \in [Inodes -> Seq(Symbol)], NEW t \in ServerState, t.out \in Inodes,
           t.append \/ t.pos = Len(data[t.out]), NEW x \in Seq(Symbol)
    PROVE  Written(t, x) = [data EXCEPT ![t.out] = data[t.out] \o x]
<1>1. CASE x = <<>>
  <2>1. data[t.out] \o x = data[t.out]
    BY <1>1, ConcatEmptySeq
  <2> QED BY <1>1, <2>1 DEF Written
<1>2. CASE x # <<>> /\ t.append
  BY <1>2 DEF Written
<1>3. CASE x # <<>> /\ ~t.append
  <2>1. WriteAt(data[t.out], t.pos, x) = data[t.out] \o x
    BY <1>3, WriteAtEnd
  <2> QED BY <1>3, <2>1 DEF Written
<1> QED BY <1>1, <1>2, <1>3

(* What a task has written, and its BufWriter still holds.                  *)
Content(s) == data[sv[s].out] \o sv[s].buf

(* Its next bytes go to the end of what it has written.                     *)
Appending(s) == sv[s].append \/ sv[s].pos = Len(data[sv[s].out])

(* What the task s has written and holds back has grown by x since it was t.*)
GrewBy(s, t, x) == data'[t.out] \o sv'[s].buf = (data[t.out] \o t.buf) \o x

(* A BufWriter adds what it is given to the content, whatever it spills.    *)
LEMMA BufferedAppends ==
    ASSUME TypeOK, NEW s \in Sessions, NEW t \in ServerState, t.out \in Inodes,
           t.append \/ t.pos = Len(data[t.out]),
           NEW x \in Seq(Symbol), Buffered(s, t, x)
    PROVE  /\ GrewBy(s, t, x) /\ Appending(s)'
           /\ \A i \in Inodes : i # t.out => data'[i] = data[i]
           /\ sv'[s] = [t EXCEPT !.pos = sv'[s].pos, !.buf = sv'[s].buf]
           /\ sv'[s] \in ServerState /\ data'[t.out] \in Seq(Symbol)
           /\ sv'[s].buf \in Seq(Symbol)
<1> DEFINE all == t.buf \o x
           d == data[t.out]
<1>0. t.buf \in Seq(Symbol) /\ t.pos \in Nat /\ d \in Seq(Symbol)
  BY ServerFields DEF TypeOK
<1>1. all \in Seq(Symbol) /\ Len(all) \in Nat
  BY <1>0
<1>2. PICK k \in {0, Len(t.buf), Len(all)} :
        /\ data' = Written(t, SubSeq(all, 1, k))
        /\ sv' = [sv EXCEPT ![s] =
                    [t EXCEPT !.pos = @ + k, !.buf = SubSeq(all, k + 1, Len(all))]]
  BY DEF Buffered
<1>3. k \in 0..Len(all)
  <2>1. Len(all) = Len(t.buf) + Len(x) /\ Len(t.buf) \in Nat /\ Len(x) \in Nat
    BY <1>0
  <2> QED BY <2>1
<1>4. d \o (t.buf \o x) = (d \o t.buf) \o x
  BY <1>0, Regrouped
<1>5. d \o all = (d \o t.buf) \o x
  BY <1>4
<1> HIDE DEF all
<1> DEFINE y == SubSeq(all, 1, k)
           z == SubSeq(all, k + 1, Len(all))
<1>6. y \in Seq(Symbol) /\ z \in Seq(Symbol) /\ Len(y) = k /\ y \o z = all
  <2>1. y \in Seq(Symbol) /\ z \in Seq(Symbol) /\ Len(y) = k
    BY <1>1, <1>3
  <2>2. y \o z = SubSeq(all, 1, Len(all))
    <3>1. 1 \in 1..(Len(all) + 1) /\ k \in (1 - 1)..Len(all) /\ Len(all) \in k..Len(all)
      BY <1>1, <1>3
    <3> QED BY <1>1, <3>1, ConcatAdjacentSubSeq
  <2>3. SubSeq(all, 1, Len(all)) = all
    BY <1>1, SubSeqFull
  <2> QED BY <2>1, <2>2, <2>3
<1> HIDE DEF y, z
<1>7. data' = [data EXCEPT ![t.out] = d \o y]
  BY <1>2, <1>6, WrittenAppends DEF y, TypeOK
<1>8. sv'[s] = [t EXCEPT !.pos = t.pos + k, !.buf = z]
  BY <1>2 DEF z, TypeOK
<1>9. sv' \in [Sessions -> ServerState]
  BY BufferedType
<1>10. /\ sv'[s].out = t.out /\ sv'[s].buf = z /\ sv'[s].pos = t.pos + k
       /\ sv'[s].append = t.append
  BY <1>8 DEF ServerState
<1>11. data'[t.out] = d \o y /\ d \o y \in Seq(Symbol) /\ Len(d \o y) = Len(d) + k
  BY <1>0, <1>6, <1>7, ConcatProperties DEF TypeOK
<1>12. GrewBy(s, t, x)
  <2>1. (d \o y) \o z = d \o (y \o z)
    BY <1>0, <1>6, Regrouped
  <2> QED BY <1>5, <1>6, <1>10, <1>11, <2>1 DEF GrewBy
<1>13. Appending(s)'
  BY <1>0, <1>10, <1>11 DEF Appending
<1>14. sv'[s] = [t EXCEPT !.pos = sv'[s].pos, !.buf = sv'[s].buf]
  BY <1>8, <1>10
<1> QED BY <1>6, <1>7, <1>9, <1>10, <1>11, <1>12, <1>13, <1>14 DEF TypeOK

(* A descriptor that closes leaves the whole content in its inode.          *)
LEMMA DroppedAppends ==
    ASSUME TypeOK, NEW s \in Sessions, sv[s].out \in Inodes, Appending(s)
    PROVE  Dropped(sv[s]) = [data EXCEPT ![sv[s].out] = Content(s)]
<1>1. sv[s] \in ServerState /\ sv[s].buf \in Seq(Symbol)
  BY ServerFields DEF TypeOK
<1> QED BY <1>1, WrittenAppends, InodesAssumption DEF Dropped, Content, Appending, TypeOK

(* Inodes that are named are kept.                                          *)
LEMMA NamedIsKept ==
    ASSUME NEW d, NEW n \in Names, dir'[n] \in Inodes
    PROVE  Kept(d)[dir'[n]] = d[dir'[n]]
BY DEF Kept

-----------------------------------------------------------------------------
(* Prefixes.                                                                *)

LEMMA PrefixGrows ==
    ASSUME NEW x \in Seq(Symbol), NEW c \in Seq(Symbol), NEW e \in Symbol,
           IsPrefixOf(x, c), Len(x) < Len(c), e = c[Len(x) + 1]
    PROVE  IsPrefixOf(x \o <<e>>, c) /\ Len(x \o <<e>>) = Len(x) + 1
<1> DEFINE y == <<e>>
<1>1. y \in Seq(Symbol) /\ Len(y) = 1 /\ y[1] = e
  OBVIOUS
<1> HIDE DEF y
<1>2. Len(x) \in Nat /\ Len(c) \in Nat
  OBVIOUS
<1>3. Len(x \o y) = Len(x) + 1
      /\ \A i \in 1..(Len(x) + 1) :
            (x \o y)[i] = IF i <= Len(x) THEN x[i] ELSE y[i - Len(x)]
  <2>1. Len(x \o y) = Len(x) + Len(y)
        /\ \A i \in 1..(Len(x) + Len(y)) :
              (x \o y)[i] = IF i <= Len(x) THEN x[i] ELSE y[i - Len(x)]
    BY <1>1, ConcatProperties
  <2> QED BY <1>1, <2>1
<1>4. ASSUME NEW i \in 1..(Len(x) + 1) PROVE (x \o y)[i] = c[i]
  <2>1. CASE i <= Len(x) BY <1>2, <1>3, <2>1 DEF IsPrefixOf
  <2>2. CASE ~(i <= Len(x))
    <3>1. i = Len(x) + 1 /\ i - Len(x) = 1 BY <1>2, <2>2
    <3> QED BY <1>1, <1>3, <2>2, <3>1
  <2> QED BY <2>1, <2>2
<1>5. IsPrefixOf(x \o y, c) /\ Len(x \o y) = Len(x) + 1
  BY <1>2, <1>3, <1>4 DEF IsPrefixOf
<1> QED BY <1>5 DEF y

LEMMA PrefixWhole ==
    ASSUME NEW x \in Seq(Symbol), NEW c \in Seq(Symbol), IsPrefixOf(x, c),
           Len(x) = Len(c)
    PROVE  x = c
BY SeqEqual DEF IsPrefixOf

LEMMA PrefixOfPart ==
    ASSUME NEW x \in Seq(Symbol), NEW y \in Seq(Symbol), NEW c \in Seq(Symbol),
           IsPrefixOf(x \o y, c)
    PROVE  IsPrefixOf(x, c)
<1>1. Len(x) \in Nat /\ Len(y) \in Nat /\ Len(c) \in Nat
  OBVIOUS
<1>2. Len(x \o y) = Len(x) + Len(y)
      /\ \A i \in 1..(Len(x) + Len(y)) :
            (x \o y)[i] = IF i <= Len(x) THEN x[i] ELSE y[i - Len(x)]
  BY ConcatProperties
<1> QED BY <1>1, <1>2 DEF IsPrefixOf

-----------------------------------------------------------------------------
(* One user who does not edit the file and does not encrypt it.             *)

OneUser ==
    /\ \E u : Sessions = {u}
    /\ \E v : Versions = {v}
    /\ Modes = {FALSE}

(* The data stream continues the file at block p, to its end once finished. *)
RawSent(s, p) ==
    /\ p + Len(net[s].uni) <= Len(local[s])
    /\ \A i \in DOMAIN net[s].uni : net[s].uni[i].sym = local[s][p + i]
    /\ net[s].fin => p + Len(net[s].uni) = Len(local[s])
    /\ cl[s].pc = "send" => cl[s].pos = p + Len(net[s].uni)

(* The instructions u give the rest of the file from block p on.            *)
PatchSent(s, u, base, p) ==
    /\ p + Len(u) = Len(local[s])
    /\ \A i \in DOMAIN u :
          IF u[i].op = "Copy"
          THEN u[i].at <= Len(base) /\ base[u[i].at] = local[s][p + i]
          ELSE u[i].sym = local[s][p + i]

(* A full upload: `.part` and what its task holds back are the file up to   *)
(* where the stream goes on.                                                *)
Uploads(s) ==
    /\ sv[s].pc = "open" =>
          /\ sv[s].size = Len(local[s]) /\ sv[s].off = SizeOf("part")
          /\ cl[s].pc = "ack" => net[s].rsp[1].offset = sv[s].off
          /\ RawSent(s, sv[s].off)
    /\ sv[s].pc = "recv" =>
          /\ sv[s].size = Len(local[s])
          /\ Exists("part") /\ sv[s].out = dir["part"] /\ Appending(s)
          /\ sv[s].got = Len(Content(s)) /\ IsPrefixOf(Content(s), local[s])
          /\ RawSent(s, sv[s].got)

(* A delta: the signatures are those of the stored file until the patch is  *)
(* applied, and `.tmp` is the file up to where the instructions go on.      *)
Patches(s) ==
    /\ sv[s].pc = "sign" =>
          /\ net[s].uni = <<>>
          /\ \A i \in DOMAIN net[s].rsp : net[s].rsp[i].type # "Signatures"
    /\ sv[s].pc = "patchopen" =>
          /\ Exists("file")
          /\ \A i \in DOMAIN net[s].rsp :
                net[s].rsp[i].type = "Signatures"
                    => net[s].rsp[i].base = data[dir["file"]]
          /\ net[s].uni # <<>>
                => PatchSent(s, Tail(net[s].uni), data[dir["file"]], 0)
    /\ sv[s].pc = "patch" =>
          /\ Exists("file") /\ sv[s].base = dir["file"]
          /\ Exists("tmp") /\ sv[s].out = dir["tmp"] /\ Appending(s)
          /\ IsPrefixOf(Content(s), local[s])
          /\ PatchSent(s, net[s].uni, data[dir["file"]], Len(Content(s)))

(* What is renamed over the file, verified and reported is the file.        *)
Commits(s) ==
    /\ sv[s].pc = "rename" =>
          Exists(sv[s].from) /\ data[dir[sv[s].from]] = local[s]
    /\ sv[s].pc = "verify" => Exists("file") /\ data[dir["file"]] = local[s]
    /\ \A i \in DOMAIN net[s].rsp :
          net[s].rsp[i].type = "VerifyResult"
              => sv[s].pc = "done" /\ net[s].rsp[i].sum = local[s]
    /\ cl[s].pc = "ok" => cl[s].sum = local[s]

(* Nothing is encrypted, and descriptors are open only where they are used. *)
Plain(s) ==
    /\ ~cl[s].enc
    /\ cl[s].pc \in {"idle", "ok"} => sv[s].pc \in ServerEnds
    /\ sv[s].pc = "handshake" /\ net[s].req # <<>>
          => net[s].req[1].size = Len(local[s])
    /\ sv[s].pc \notin {"encrypted", "encrecv", "encwrite"}
    /\ sv[s].pc \notin {"recv", "patch"}
          => sv[s].out = NoInode /\ sv[s].buf = <<>> /\ sv[s].pos = 0
    /\ sv[s].pc # "patch" => sv[s].base = NoInode

(* What may be resumed is a prefix of the file.                             *)
Leftover(s) == Exists("part") => IsPrefixOf(data[dir["part"]], local[s])

Course(s) == Uploads(s) /\ Patches(s) /\ Commits(s) /\ Plain(s) /\ Leftover(s)

SoloInv == Inv /\ NoAlias /\ \A s \in Sessions : Course(s)

(* The parts of a session, with their types.                                *)
LEMMA SessionTypes ==
    ASSUME TypeOK, NEW s \in Sessions
    PROVE  /\ local[s] \in Versions /\ local[s] \in Seq(Block)
           /\ local[s] \in Seq(Symbol)
           /\ cl[s] \in ClientState /\ net[s] \in Traffic /\ sv[s] \in ServerState
           /\ net[s].uni \in Seq(Item) /\ net[s].rsp \in Seq(ServerMessage)
           /\ net[s].req \in Seq(ClientMessage)
           /\ Len(local[s]) \in Nat /\ Len(net[s].uni) \in Nat
           /\ DOMAIN cl = Sessions /\ DOMAIN net = Sessions /\ DOMAIN sv = Sessions
<1>1. local[s] \in Versions /\ local[s] \in Seq(Block)
  BY ContentsAssumption DEF TypeOK
<1>2. Seq(Block) \subseteq Seq(Symbol)
  BY DEF Symbol
<1>3. net[s] \in Traffic
  BY DEF TypeOK
<1>4. Len(net[s].uni) \in Nat
  BY <1>3, TrafficUpdate
<1>5. Len(local[s]) \in Nat
  BY <1>1
<1> QED BY <1>1, <1>2, <1>3, <1>4, <1>5, TrafficUpdate DEF TypeOK

(* The patch that the client makes gives its whole file.                    *)
LEMMA DeltaGives ==
    ASSUME TypeOK, NEW s \in Sessions, NEW base \in Seq(Symbol)
    PROVE  PatchSent(s, Delta(local[s], base), base, 0)
<1> DEFINE c == local[s]
           u == Delta(c, base)
<1>1. c \in Seq(Block) /\ Len(c) \in Nat /\ DOMAIN c = 1..Len(c)
  BY SessionTypes
<1>2. u \in Seq(Item) /\ DOMAIN u = DOMAIN c
  BY <1>1, DeltaType DEF Delta
<1>3. Len(u) = Len(c)
  <2>1. DOMAIN u = 1..Len(u) /\ Len(u) \in Nat BY <1>2
  <2> HIDE DEF u, c
  <2> QED BY <1>1, <1>2, <2>1
<1>4. ASSUME NEW i \in DOMAIN u
      PROVE  IF u[i].op = "Copy" THEN u[i].at <= Len(base) /\ base[u[i].at] = c[0 + i]
             ELSE u[i].sym = c[0 + i]
  <2>0. i \in DOMAIN c /\ 0 + i = i
    BY <1>1, <1>2, <1>4
  <2>1. CASE \E j \in DOMAIN base : base[j] = c[i]
    <3> DEFINE at == CHOOSE j \in DOMAIN base : base[j] = c[i]
    <3>1. at \in DOMAIN base /\ base[at] = c[i] BY <2>1
    <3>2. u[i] = [op |-> "Copy", at |-> at]
      BY <2>0, <2>1 DEF Delta
    <3>3. DOMAIN base = 1..Len(base) /\ Len(base) \in Nat OBVIOUS
    <3> HIDE DEF at, u
    <3> QED BY <2>0, <3>1, <3>2, <3>3
  <2>2. CASE ~\E j \in DOMAIN base : base[j] = c[i]
    <3>1. u[i] = [op |-> "Literal", sym |-> c[i]]
      BY <2>0, <2>2 DEF Delta
    <3> HIDE DEF u
    <3> QED BY <2>0, <3>1
  <2> QED BY <2>1, <2>2
<1> HIDE DEF u
<1>5. 0 + Len(u) = Len(c)
  BY <1>1, <1>3
<1> QED BY <1>4, <1>5 DEF PatchSent, u

(* The client streams its file on from where it is.                         *)
LEMMA SendContinues ==
    ASSUME TypeOK, NEW s \in Sessions, InStep(s), ClSend(s), NEW p \in Nat,
           RawSent(s, p)
    PROVE  RawSent(s, p)'
<1>0. /\ cl[s] \in ClientState /\ net[s] \in Traffic /\ net[s].uni \in Seq(Item)
      /\ DOMAIN cl = Sessions /\ DOMAIN net = Sessions
      /\ Len(local[s]) \in Nat /\ Len(net[s].uni) \in Nat
      /\ cl[s].pc = "send" /\ ~net[s].fin /\ local' = local
  BY SessionTypes DEF ClSend, InStep
<1>1. cl[s].pos = p + Len(net[s].uni)
  BY <1>0 DEF RawSent
<1>2. CASE cl[s].pos < Len(local[s])
  <2> DEFINE e == [op |-> "Raw", sym |-> local[s][cl[s].pos + 1]]
             y == Append(net[s].uni, e)
  <2>1. net'[s].uni = y /\ net'[s].fin = net[s].fin
    BY <1>0, <1>2 DEF ClSend, Traffic
  <2>2. cl'[s].pos = cl[s].pos + 1
    BY <1>0, <1>2 DEF ClSend, ClientState
  <2>3. e \in Item
    <3>1. local[s] \in Seq(Block) BY SessionTypes
    <3>2. cl[s].pos + 1 \in 1..Len(local[s]) BY <1>0, <1>2, <3>1 DEF ClientState
    <3>3. local[s][cl[s].pos + 1] \in Symbol BY <3>1, <3>2 DEF Symbol
    <3> QED BY <3>3 DEF Item
  <2>4. e.sym = local[s][p + (Len(net[s].uni) + 1)]
    <3>1. cl[s].pos + 1 = p + (Len(net[s].uni) + 1)
      BY <1>0, <1>1
    <3> QED BY <3>1
  <2> HIDE DEF e
  <2>5. /\ Len(y) = Len(net[s].uni) + 1 /\ DOMAIN y = 1..(Len(net[s].uni) + 1)
        /\ \A i \in 1..Len(net[s].uni) : y[i] = net[s].uni[i]
        /\ y[Len(net[s].uni) + 1] = e
    <3>1. /\ y \in Seq(Item) /\ Len(y) = Len(net[s].uni) + 1
          /\ \A i \in 1..Len(net[s].uni) : y[i] = net[s].uni[i]
          /\ y[Len(net[s].uni) + 1] = e
      BY <1>0, <2>3, AppendProperties
    <3> QED BY <3>1
  <2> HIDE DEF y
  <2>6. ASSUME NEW i \in DOMAIN y PROVE y[i].sym = local[s][p + i]
    <3>1. CASE i \in 1..Len(net[s].uni)
      <4>1. i \in DOMAIN net[s].uni BY <1>0, <3>1
      <4> QED BY <2>5, <3>1, <4>1 DEF RawSent
    <3>2. CASE i = Len(net[s].uni) + 1
      BY <2>4, <2>5, <3>2
    <3> QED BY <1>0, <2>5, <3>1, <3>2
  <2>7. p + Len(y) <= Len(local[s]) /\ cl'[s].pos = p + Len(y)
    BY <1>0, <1>1, <1>2, <2>2, <2>5
  <2> QED BY <1>0, <2>1, <2>6, <2>7 DEF RawSent
<1>3. CASE ~(cl[s].pos < Len(local[s]))
  <2>1. net'[s].uni = net[s].uni /\ cl'[s].pc = "verify"
    <3>1. /\ net'[s] = [net[s] EXCEPT !.fin = TRUE]
          /\ cl'[s] = [cl[s] EXCEPT !.pc = "verify"]
      BY <1>0, <1>3 DEF ClSend
    <3> QED BY <1>0, <3>1 DEF Traffic, ClientState
  <2>2. p + Len(net[s].uni) = Len(local[s])
    <3> DEFINE m == Len(net[s].uni)
               n == Len(local[s])
    <3>1. p + m <= n /\ ~(p + m < n)
      BY <1>1, <1>3 DEF RawSent
    <3>2. m \in Nat /\ n \in Nat /\ p \in Nat
      BY <1>0
    <3>3. p + m = n
      <4> HIDE DEF m, n
      <4> QED BY <3>1, <3>2
    <3> QED BY <3>3
  <2> QED BY <1>0, <2>1, <2>2 DEF RawSent
<1> QED BY <1>2, <1>3

(* A step of the client leaves the storage alone.                           *)
LEMMA SoloClient ==
    ASSUME OneUser, SoloInv, Inv', NEW s \in Sessions,
           ClStart(s) \/ ClientStep(s) \/ ClDie(s) \/ Edit(s)
    PROVE  Course(s)'
<1>0. /\ InStep(s) /\ Course(s) /\ TypeOK /\ TypeOK'
      /\ cl[s] \in ClientState /\ net[s] \in Traffic /\ sv[s] \in ServerState
      /\ DOMAIN cl = Sessions /\ DOMAIN net = Sessions /\ DOMAIN sv = Sessions
      /\ Len(local[s]) \in Nat /\ Len(net[s].uni) \in Nat
      /\ net[s].uni \in Seq(Item) /\ net[s].rsp \in Seq(ServerMessage)
  BY SessionTypes DEF SoloInv, Inv, Lockstep
<1>r. net[s].rsp # <<>> =>
         /\ Head(net[s].rsp) = net[s].rsp[1] /\ 1 \in DOMAIN net[s].rsp
         /\ Head(net[s].rsp) \in ServerMessage
         /\ \A i \in DOMAIN Tail(net[s].rsp) :
               i + 1 \in DOMAIN net[s].rsp /\ Tail(net[s].rsp)[i] = net[s].rsp[i + 1]
  <2>1. CASE net[s].rsp # <<>>
    <3>1. Head(net[s].rsp) \in ServerMessage
      BY <1>0, <2>1
    <3> QED BY <1>0, <2>1, <3>1, Sequences
  <2> QED BY <2>1
<1>e. ~Edit(s)
  <2>1. local[s] \in Versions BY SessionTypes, <1>0
  <2>2. Versions \ {local[s]} = {} BY <2>1 DEF OneUser
  <2> QED BY <2>2 DEF Edit
<1>l. UNCHANGED <<local, dir, data>>
  BY <1>e DEF ClStart, ClientStep, ClUpload, ClSend, ClPatch, ClEncrypt, ClVerified,
              ClLost, ClDie
<1>p. Leftover(s)' /\ SizeOf("part")' = SizeOf("part")
  BY <1>0, <1>l DEF Course, Leftover, Exists, SizeOf, IsPrefixOf
<1>1. CASE ClStart(s)
  <2>1. PICK e \in Modes :
          /\ cl'[s] = [IdleClient EXCEPT !.pc = "ack", !.enc = e]
          /\ net'[s] = [NoTraffic EXCEPT !.req =
                          <<[type |-> "Handshake", size |-> Len(local[s]),
                             encrypted |-> e]>>]
    BY <1>0, <1>1 DEF ClStart
  <2>2. sv'[s] = Ended("handshake") /\ e = FALSE
    BY <1>0, <1>1 DEF ClStart, OneUser
  <2> QED BY <1>l, <1>p, <2>1, <2>2
          DEF Course, Uploads, Patches, Commits, Plain, IdleClient, NoTraffic, Ended,
              IdleServer
<1>2. CASE ClUpload(s)
  <2> DEFINE ack == Head(net[s].rsp)
  <2>1. net'[s] = [net[s] EXCEPT !.rsp = Tail(net[s].rsp)] /\ sv'[s] = sv[s]
    BY <1>0, <1>2 DEF ClUpload
  <2>2. cl'[s] = IF ack.old THEN [cl[s] EXCEPT !.pc = "sigs"]
                 ELSE [cl[s] EXCEPT !.pc = "send", !.skip = ack.offset,
                                    !.pos = ack.offset]
    BY <1>0, <1>2 DEF ClUpload
  <2>3. /\ ack = net[s].rsp[1] /\ cl[s].pc = "ack" /\ net[s].uni = <<>> /\ ~net[s].fin
        /\ ack.old \in BOOLEAN /\ ack.offset \in Nat
    <3>1. ack.type = "HandshakeAck" /\ ack \in ServerMessage
      BY <1>0, <1>2, <1>r DEF ClUpload, Replied
    <3>2. ack.old \in BOOLEAN /\ ack.offset \in Nat
      BY <3>1 DEF ServerMessage
    <3> QED BY <1>0, <1>2, <1>r, <3>2 DEF ClUpload, Replied, InStep
  <2>4. /\ net'[s].uni = <<>> /\ ~net'[s].fin /\ net'[s].req = net[s].req
        /\ net'[s].rsp = Tail(net[s].rsp)
    BY <1>0, <2>1, <2>3 DEF Traffic
  <2>5. /\ cl'[s].enc = cl[s].enc /\ cl'[s].pc \in {"sigs", "send"}
        /\ cl'[s].pc = "send" => cl'[s].pos = ack.offset /\ ~ack.old
    BY <1>0, <2>2, <2>3 DEF ClientState
  <2> HIDE DEF ack
  <2>6. Uploads(s)'
    <3>1. sv[s].pc # "recv"
      BY <1>0, <2>3, <1>2, <1>r DEF InStep, ClUpload, Replied, ack
    <3>2. ASSUME sv[s].pc = "open" PROVE RawSent(s, sv[s].off)'
      BY <1>0, <1>l, <2>1, <2>3, <2>4, <2>5, <3>2 DEF RawSent, Course, Uploads, ack
    <3> QED BY <1>0, <1>l, <1>p, <2>1, <2>5, <3>1, <3>2 DEF Course, Uploads
  <2>7. Patches(s)'
    <3>1. sv[s].pc # "patch"
      BY <1>0, <2>3, <1>2, <1>r DEF InStep, ClUpload, Replied, ack
    <3>2. ASSUME NEW i \in DOMAIN net'[s].rsp
          PROVE  i + 1 \in DOMAIN net[s].rsp /\ net'[s].rsp[i] = net[s].rsp[i + 1]
      BY <1>2, <1>r, <2>4, <3>2 DEF ClUpload, Replied
    <3> QED BY <1>0, <1>l, <2>1, <2>4, <3>1, <3>2 DEF Course, Patches, Exists
  <2>8. Commits(s)'
    <3>2. ASSUME NEW i \in DOMAIN net'[s].rsp
          PROVE  i + 1 \in DOMAIN net[s].rsp /\ net'[s].rsp[i] = net[s].rsp[i + 1]
      BY <1>2, <1>r, <2>4, <3>2 DEF ClUpload, Replied
    <3> QED BY <1>0, <1>l, <2>1, <2>5, <3>2 DEF Course, Commits, Exists
  <2> QED BY <1>0, <1>l, <1>p, <2>1, <2>4, <2>5, <2>6, <2>7, <2>8 DEF Course, Plain
<1>3. CASE ClSend(s)
  <2>1. /\ sv'[s] = sv[s] /\ cl[s].pc = "send" /\ ~net[s].fin
        /\ sv[s].pc \in {"open", "recv", "failed"}
    BY <1>0, <1>3 DEF ClSend, InStep
  <2>2. /\ net'[s].rsp = net[s].rsp /\ net'[s].req = net[s].req
        /\ cl'[s].enc = cl[s].enc /\ cl'[s].pc \in {"send", "verify"}
    BY <1>0, <1>3 DEF ClSend, Traffic, ClientState
  <2>3. ASSUME NEW p \in Nat, RawSent(s, p) PROVE RawSent(s, p)'
    BY <1>0, <1>3, <2>3, SendContinues DEF RawSent
  <2>4. Uploads(s)'
    <3>1. sv[s].off \in Nat /\ sv[s].got \in Nat BY <1>0, ServerFields
    <3>2. sv[s].pc = "open" => RawSent(s, sv[s].off)'
      <4> SUFFICES ASSUME sv[s].pc = "open" PROVE RawSent(s, sv[s].off)'
        OBVIOUS
      <4>1. PICK o \in Nat : o = sv[s].off BY <3>1
      <4>2. RawSent(s, o)'
        BY <1>0, <2>3, <4>1 DEF Course, Uploads
      <4> QED BY <2>1, <4>1, <4>2 DEF RawSent
    <3>3. sv[s].pc = "recv" => RawSent(s, sv[s].got)'
      <4> SUFFICES ASSUME sv[s].pc = "recv" PROVE RawSent(s, sv[s].got)'
        OBVIOUS
      <4>1. PICK g \in Nat : g = sv[s].got BY <3>1
      <4>2. RawSent(s, g)'
        BY <1>0, <2>3, <4>1 DEF Course, Uploads
      <4> QED BY <2>1, <4>1, <4>2 DEF RawSent
    <3>4. Content(s)' = Content(s) /\ Appending(s)' = Appending(s)
      BY <1>l, <2>1 DEF Content, Appending
    <3>5. cl'[s].pc # "ack"
      BY <2>2
    <3>6. sv[s].pc = "recv" =>
             /\ sv[s].size = Len(local[s]) /\ Exists("part")
             /\ sv[s].out = dir["part"] /\ Appending(s)
             /\ sv[s].got = Len(Content(s)) /\ IsPrefixOf(Content(s), local[s])
      BY <1>0 DEF Course, Uploads
    <3>7. sv[s].pc = "open" =>
             sv[s].size = Len(local[s]) /\ sv[s].off = SizeOf("part")
      BY <1>0 DEF Course, Uploads
    <3>8. Exists("part")' = Exists("part")
          /\ IsPrefixOf(Content(s), local[s])' = IsPrefixOf(Content(s), local[s])
      BY <1>l, <3>4 DEF Exists, IsPrefixOf
    <3> QED BY <1>l, <1>p, <2>1, <3>2, <3>3, <3>4, <3>5, <3>6, <3>7, <3>8 DEF Uploads
  <2>5. Patches(s)'
    BY <2>1 DEF Patches
  <2>6. Commits(s)'
    BY <1>0, <1>l, <2>1, <2>2 DEF Course, Commits
  <2> QED BY <1>0, <1>l, <1>p, <2>1, <2>2, <2>4, <2>5, <2>6 DEF Course, Plain
<1>4. CASE ClPatch(s)
  <2> DEFINE base == Head(net[s].rsp).base
             d == Delta(local[s], base)
             u == <<[op |-> "StartPatch"]>> \o d
  <2>1. /\ sv'[s] = sv[s] /\ cl[s].pc = "sigs"
        /\ sv[s].pc \in {"sign", "patchopen", "failed"}
    BY <1>0, <1>4 DEF ClPatch, InStep
  <2>2. /\ net'[s].uni = u /\ net'[s].rsp = Tail(net[s].rsp)
        /\ cl'[s].pc = "verify" /\ cl'[s].enc = cl[s].enc
    BY <1>0, <1>4 DEF ClPatch, Traffic, ClientState
  <2>3. Head(net[s].rsp).type = "Signatures" /\ base \in Seq(Symbol)
        /\ net[s].rsp[1].type = "Signatures" /\ 1 \in DOMAIN net[s].rsp
        /\ base = net[s].rsp[1].base
    <3>1. Head(net[s].rsp).type = "Signatures" /\ net[s].rsp # <<>>
      BY <1>4 DEF ClPatch, Replied
    <3> QED BY <1>r, <3>1 DEF ServerMessage
  <2>4. sv[s].pc # "sign"
    BY <1>0, <2>3 DEF Course, Patches
  <2>5. PatchSent(s, d, base, 0)
    BY <1>0, <2>3, DeltaGives
  <2>6. Tail(u) = d
    <3>1. d \in Seq(Item)
      BY <1>0, <2>3, SessionTypes, DeltaType
    <3> HIDE DEF d
    <3>2. [op |-> "StartPatch"] \in Item BY DEF Item
    <3> QED BY <3>1, <3>2
  <2>7. ASSUME NEW i \in DOMAIN net'[s].rsp
        PROVE  i + 1 \in DOMAIN net[s].rsp /\ net'[s].rsp[i] = net[s].rsp[i + 1]
    BY <1>4, <1>r, <2>2, <2>7 DEF ClPatch, Replied
  <2> HIDE DEF u, d
  <2>8. Uploads(s)'
    BY <2>1 DEF Uploads
  <2>9. Patches(s)'
    <3>1. ASSUME sv[s].pc = "patchopen"
          PROVE  base = data[dir["file"]] /\ Exists("file")
      BY <1>0, <2>3, <3>1 DEF Course, Patches
    <3>2. ASSUME sv[s].pc = "patchopen"
          PROVE  PatchSent(s, Tail(net[s].uni), data[dir["file"]], 0)'
      <4>1. PatchSent(s, d, data[dir["file"]], 0) BY <2>5, <3>1, <3>2
      <4> QED BY <1>l, <2>2, <2>6, <4>1 DEF PatchSent
    <3> QED BY <1>0, <1>l, <2>1, <2>4, <2>7, <3>1, <3>2 DEF Course, Patches, Exists
  <2>10. Commits(s)'
    BY <1>0, <1>l, <2>1, <2>2, <2>7 DEF Course, Commits
  <2> QED BY <1>0, <1>l, <1>p, <2>1, <2>2, <2>8, <2>9, <2>10 DEF Course, Plain
<1>5. CASE ClEncrypt(s)
  BY <1>0, <1>5 DEF ClEncrypt, Course, Plain
<1>6. CASE ClVerified(s)
  <2>1. net[s].rsp[1].type = "VerifyResult" /\ 1 \in DOMAIN net[s].rsp
        /\ Head(net[s].rsp) = net[s].rsp[1]
    BY <1>6, <1>r DEF ClVerified, Replied
  <2>2. sv[s].pc = "done" /\ net[s].rsp[1].sum = local[s]
    BY <1>0, <2>1 DEF Course, Commits
  <2>3. cl'[s] = [cl[s] EXCEPT !.pc = "ok", !.pos = 0, !.sum = Head(net[s].rsp).sum]
        /\ net'[s] = NoTraffic /\ sv'[s] = sv[s]
    BY <1>0, <1>6 DEF ClVerified
  <2>4. cl'[s].pc = "ok" /\ cl'[s].sum = local[s] /\ cl'[s].enc = cl[s].enc
    BY <1>0, <2>1, <2>2, <2>3 DEF ClientState
  <2> QED BY <1>0, <1>l, <1>p, <2>2, <2>3, <2>4
          DEF Course, Uploads, Patches, Commits, Plain, NoTraffic, ServerEnds
<1>7. CASE ClLost(s)
  <2>1. /\ cl'[s].pc = "failed" /\ cl'[s].enc = cl[s].enc /\ net'[s] = NoTraffic
        /\ sv'[s] = sv[s] /\ sv[s].pc = "failed"
    BY <1>0, <1>7 DEF ClLost, Gone, IdleClient
  <2> QED BY <1>0, <1>l, <1>p, <2>1
          DEF Course, Uploads, Patches, Commits, Plain, NoTraffic
<1>8. CASE ClDie(s)
  <2>1. sv'[s] = sv[s] /\ net'[s] = net[s]
        /\ cl'[s].pc = "failed" /\ cl'[s].enc = cl[s].enc
    BY <1>0, <1>8 DEF ClDie, Gone, IdleClient
  <2>2. ASSUME NEW p, RawSent(s, p) PROVE RawSent(s, p)'
    BY <1>l, <2>1, <2>2 DEF RawSent
  <2>3. Content(s)' = Content(s) /\ Appending(s)' = Appending(s)
    BY <1>l, <2>1 DEF Content, Appending
  <2>4. Uploads(s)'
    BY <1>0, <1>l, <1>p, <2>1, <2>2, <2>3 DEF Course, Uploads, Exists, IsPrefixOf
  <2>5. Patches(s)'
    BY <1>0, <1>l, <2>1, <2>3 DEF Course, Patches, PatchSent, Exists, IsPrefixOf
  <2>6. Commits(s)'
    BY <1>0, <1>l, <2>1 DEF Course, Commits, Exists
  <2> QED BY <1>0, <1>l, <1>p, <2>1, <2>4, <2>5, <2>6 DEF Course, Plain
<1> QED BY <1>1, <1>2, <1>3, <1>4, <1>5, <1>6, <1>7, <1>8, <1>e DEF ClientStep

(* An entry that is opened never gets the inode of another one.             *)
LEMMA OpenedElsewhere ==
    ASSUME TypeOK, NoAlias, NEW n \in Names, NEW m \in Names, m # n, CanOpen(n)
    PROVE  Opened(n) # dir[m] /\ Opened(n) \in Inodes
<1>1. Opened(n) \in Inodes
  BY OpenedType
<1>2. CASE Opened(n) = dir[n]
  <2>1. Exists(n) BY <1>1, <1>2, InodesAssumption DEF Exists
  <2> QED BY <1>1, <1>2, <2>1 DEF NoAlias
<1>3. CASE Opened(n) # dir[n]
  BY <1>1, <1>3, OpenedIsFree
<1> QED BY <1>2, <1>3

(* What every step of the server starts from.                               *)
LEMMA SoloFacts ==
    ASSUME OneUser, SoloInv, NEW s \in Sessions
    PROVE  /\ InStep(s) /\ Course(s) /\ TypeOK /\ NoAlias /\ Sessions = {s}
           /\ cl[s] \in ClientState /\ net[s] \in Traffic /\ sv[s] \in ServerState
           /\ DOMAIN cl = Sessions /\ DOMAIN net = Sessions /\ DOMAIN sv = Sessions
           /\ local[s] \in Seq(Symbol) /\ Len(local[s]) \in Nat
           /\ Len(net[s].uni) \in Nat
           /\ net[s].uni \in Seq(Item) /\ net[s].rsp \in Seq(ServerMessage)
           /\ "part" \in Names /\ "file" \in Names /\ "tmp" \in Names
           /\ dir \in [Names -> Inodes \cup {NoInode}] /\ data \in [Inodes -> Seq(Symbol)]
           /\ \A n \in Names : Exists(n) => dir[n] \in Inodes /\ data[dir[n]] \in Seq(Symbol)
           /\ (sv[s].out \in Inodes =>
                  Content(s) \in Seq(Symbol) /\ data[sv[s].out] \in Seq(Symbol)
                  /\ sv[s].buf \in Seq(Symbol))
<1>1. TypeOK /\ NoAlias /\ InStep(s) /\ Course(s)
  BY DEF SoloInv, Inv, Lockstep
<1>2. sv[s] \in ServerState /\ data \in [Inodes -> Seq(Symbol)]
  BY <1>1 DEF TypeOK
<1>3. sv[s].out \in Inodes =>
         Content(s) \in Seq(Symbol) /\ data[sv[s].out] \in Seq(Symbol)
         /\ sv[s].buf \in Seq(Symbol)
  <2>1. sv[s].buf \in Seq(Symbol) BY <1>2, ServerFields
  <2> QED BY <1>2, <2>1 DEF Content
<1>4. \A n \in Names : Exists(n) => dir[n] \in Inodes /\ data[dir[n]] \in Seq(Symbol)
  BY <1>1 DEF TypeOK, Exists
<1>5. Sessions = {s}
  BY DEF OneUser
<1> QED BY <1>1, <1>3, <1>4, <1>5, SessionTypes DEF Names, TypeOK

(* The task reads the next item of its stream.                              *)
LEMMA NextItem ==
    ASSUME TypeOK, NEW s \in Sessions, net[s].uni # <<>>,
           net' = [net EXCEPT ![s].uni = Tail(@)]
    PROVE  /\ Head(net[s].uni) = net[s].uni[1] /\ 1 \in DOMAIN net[s].uni
           /\ Head(net[s].uni) \in Item /\ Len(net[s].uni) >= 1
           /\ net'[s].uni = Tail(net[s].uni) /\ Len(net'[s].uni) = Len(net[s].uni) - 1
           /\ \A i \in DOMAIN net'[s].uni :
                 i \in Nat /\ i + 1 \in DOMAIN net[s].uni
                 /\ net'[s].uni[i] = net[s].uni[i + 1]
           /\ net'[s].rsp = net[s].rsp /\ net'[s].req = net[s].req
           /\ net'[s].fin = net[s].fin
<1> DEFINE u == net[s].uni
<1>1. net[s] \in Traffic /\ DOMAIN net = Sessions /\ u \in Seq(Item)
  BY SessionTypes
<1>2. /\ net'[s].uni = Tail(u) /\ net'[s].rsp = net[s].rsp
      /\ net'[s].req = net[s].req /\ net'[s].fin = net[s].fin
  BY <1>1 DEF Traffic
<1>3. /\ Head(u) \in Item /\ Tail(u) \in Seq(Item) /\ Len(Tail(u)) = Len(u) - 1
      /\ Len(u) \in Nat \ {0} /\ DOMAIN u = 1..Len(u)
      /\ \A i \in 1..Len(Tail(u)) : Tail(u)[i] = u[i + 1]
  BY <1>1, HeadTailProperties, EmptySeq
<1>4. Head(u) = u[1]
  BY <1>1
<1>5. DOMAIN Tail(u) = 1..(Len(u) - 1)
  BY <1>3
<1> HIDE DEF u
<1>6. \A i \in DOMAIN Tail(u) : i \in Nat /\ i + 1 \in DOMAIN u /\ Tail(u)[i] = u[i + 1]
  BY <1>3, <1>5
<1>7. 1 \in DOMAIN u /\ Len(u) >= 1 /\ Len(Tail(u)) = Len(u) - 1 /\ Head(u) \in Item
  BY <1>3
<1> QED BY <1>2, <1>4, <1>6, <1>7 DEF u

(* Taking one of n items after p items.                                     *)
LEMMA OneLess ==
    ASSUME NEW p \in Nat, NEW n \in Nat, n >= 1, NEW m, m = n - 1
    PROVE  (p + 1) + m = p + n /\ p < p + n
OBVIOUS

(* What goes on in a full upload when the next symbol is taken.             *)
LEMMA RawGoesOn ==
    ASSUME TypeOK, NEW s \in Sessions, net[s].uni # <<>>,
           net' = [net EXCEPT ![s].uni = Tail(@)], UNCHANGED <<local, cl>>,
           NEW p \in Nat, RawSent(s, p)
    PROVE  /\ Head(net[s].uni).sym = local[s][p + 1] /\ p < Len(local[s])
           /\ RawSent(s, p + 1)'
<1>0. Len(net[s].uni) \in Nat /\ Len(local[s]) \in Nat
  BY SessionTypes
<1>1. /\ Head(net[s].uni) = net[s].uni[1] /\ 1 \in DOMAIN net[s].uni
      /\ Len(net[s].uni) >= 1 /\ Len(net'[s].uni) = Len(net[s].uni) - 1
      /\ net'[s].fin = net[s].fin
  BY NextItem
<1>2. Head(net[s].uni).sym = local[s][p + 1] /\ p < Len(local[s])
  BY <1>0, <1>1 DEF RawSent
<1>3. \A i \in DOMAIN net'[s].uni : net'[s].uni[i].sym = local[s][(p + 1) + i]
  <2> SUFFICES ASSUME NEW i \in DOMAIN net'[s].uni
               PROVE  net'[s].uni[i].sym = local[s][(p + 1) + i]
    OBVIOUS
  <2>1. i \in Nat /\ i + 1 \in DOMAIN net[s].uni
        /\ net'[s].uni[i] = net[s].uni[i + 1]
    BY NextItem
  <2>2. net[s].uni[i + 1].sym = local[s][p + (i + 1)]
    BY <2>1 DEF RawSent
  <2>3. p + (i + 1) = (p + 1) + i
    BY <2>1
  <2> QED BY <2>1, <2>2, <2>3
<1>4. (p + 1) + Len(net'[s].uni) = p + Len(net[s].uni)
  BY <1>0, <1>1, OneLess
<1> QED BY <1>1, <1>2, <1>3, <1>4 DEF RawSent

(* What goes on in a delta when the next instruction is taken.              *)
LEMMA PatchGoesOn ==
    ASSUME TypeOK, NEW s \in Sessions, net[s].uni # <<>>,
           net' = [net EXCEPT ![s].uni = Tail(@)],
           NEW base, NEW p \in Nat, PatchSent(s, net[s].uni, base, p)
    PROVE  /\ LET i == Head(net[s].uni) IN
              /\ i.op = "Copy" => i.at <= Len(base)
              /\ (IF i.op = "Copy" THEN base[i.at] ELSE i.sym) = local[s][p + 1]
           /\ p < Len(local[s])
           /\ PatchSent(s, net'[s].uni, base, p + 1)
<1>0. Len(net[s].uni) \in Nat /\ Len(local[s]) \in Nat
  BY SessionTypes
<1>1. /\ Head(net[s].uni) = net[s].uni[1] /\ 1 \in DOMAIN net[s].uni
      /\ Len(net[s].uni) >= 1 /\ Len(net'[s].uni) = Len(net[s].uni) - 1
  BY NextItem
<1>2. \A i \in DOMAIN net'[s].uni :
         IF net'[s].uni[i].op = "Copy"
         THEN net'[s].uni[i].at <= Len(base)
              /\ base[net'[s].uni[i].at] = local[s][(p + 1) + i]
         ELSE net'[s].uni[i].sym = local[s][(p + 1) + i]
  <2> SUFFICES ASSUME NEW i \in DOMAIN net'[s].uni
               PROVE  IF net'[s].uni[i].op = "Copy"
                      THEN net'[s].uni[i].at <= Len(base)
                           /\ base[net'[s].uni[i].at] = local[s][(p + 1) + i]
                      ELSE net'[s].uni[i].sym = local[s][(p + 1) + i]
    OBVIOUS
  <2>1. i \in Nat /\ i + 1 \in DOMAIN net[s].uni
        /\ net'[s].uni[i] = net[s].uni[i + 1]
    BY NextItem
  <2>2. p + (i + 1) = (p + 1) + i
    BY <2>1
  <2> QED BY <2>1, <2>2 DEF PatchSent
<1>3. (p + 1) + Len(net'[s].uni) = p + Len(net[s].uni) /\ p < p + Len(net[s].uni)
  BY <1>0, <1>1, OneLess
<1>4. p + Len(net[s].uni) = Len(local[s])
  BY DEF PatchSent
<1> QED BY <1>1, <1>2, <1>3, <1>4 DEF PatchSent

(* An answer of the server follows those before it.                         *)
LEMMA Answered ==
    ASSUME TypeOK, NEW s \in Sessions, NEW m \in ServerMessage,
           net'[s].rsp = Append(net[s].rsp, m)
    PROVE  \A i \in DOMAIN net'[s].rsp :
              net'[s].rsp[i] = m
              \/ (i \in DOMAIN net[s].rsp /\ net'[s].rsp[i] = net[s].rsp[i])
<1>1. net[s].rsp \in Seq(ServerMessage)
  BY SessionTypes
<1> DEFINE y == net'[s].rsp
<1>2. y = Append(net[s].rsp, m)
  OBVIOUS
<1> HIDE DEF y
<1>3. \A i \in DOMAIN y :
         y[i] = m \/ (i \in DOMAIN net[s].rsp /\ y[i] = net[s].rsp[i])
  BY <1>1, <1>2, Sequences
<1> QED BY <1>3 DEF y

(* A task that fails leaves `.part` a prefix of the file.                   *)
LEMMA SoloFail ==
    ASSUME OneUser, SoloInv, Inv', NEW s \in Sessions, Fail(s), sv[s].pc # "done",
           UNCHANGED <<local, cl>>, net'[s].rsp = net[s].rsp
    PROVE  Course(s)'
<1> USE SoloFacts
<1>1. sv'[s] = Ended("failed") /\ dir' = dir /\ data' = Kept(Dropped(sv[s]))
  BY DEF Fail
<1>2. Leftover(s)'
  <2> SUFFICES ASSUME Exists("part") PROVE IsPrefixOf(data'[dir["part"]], local[s])
    BY <1>1 DEF Leftover, Exists, IsPrefixOf
  <2>1. dir["part"] \in Inodes /\ IsPrefixOf(data[dir["part"]], local[s])
    BY DEF Course, Leftover
  <2>2. data'[dir["part"]] = Dropped(sv[s])[dir["part"]]
    BY <1>1, <2>1, NamedIsKept
  <2>3. CASE sv[s].pc = "recv"
    <3>1. sv[s].out = dir["part"] /\ Appending(s) /\ IsPrefixOf(Content(s), local[s])
      BY <2>3 DEF Course, Uploads
    <3>2. Dropped(sv[s])[dir["part"]] = Content(s)
      BY <2>1, <3>1, DroppedAppends
    <3> QED BY <2>2, <3>1, <3>2
  <2>4. CASE sv[s].pc = "patch"
    <3>1. sv[s].out = dir["tmp"] /\ Exists("tmp") /\ Appending(s)
      BY <2>4 DEF Course, Patches
    <3>2. dir["tmp"] \in Inodes /\ dir["tmp"] # dir["part"]
      BY <3>1 DEF NoAlias
    <3>3. Dropped(sv[s])[dir["part"]] = data[dir["part"]]
      BY <2>1, <3>1, <3>2, DroppedAppends
    <3> QED BY <2>1, <2>2, <3>3
  <2>5. CASE sv[s].pc \notin {"recv", "patch"}
    <3>1. Dropped(sv[s]) = data
      BY <2>5 DEF Course, Plain, Dropped
    <3> QED BY <2>1, <2>2, <3>1
  <2> QED BY <2>3, <2>4, <2>5
<1>3. Commits(s)'
  BY <1>1 DEF Course, Commits, Ended, IdleServer
<1> QED BY <1>1, <1>2, <1>3
        DEF Course, Uploads, Patches, Plain, Ended, IdleServer, ServerEnds

(* The steps of a full upload.                                              *)
LEMMA SoloUpload ==
    ASSUME OneUser, SoloInv, Inv', NEW s \in Sessions,
           SrvHandshake(s) \/ SrvOpenPart(s) \/ SrvRecv(s) \/ SrvRecvEnd(s)
    PROVE  Course(s)'
<1> USE SoloFacts
<1>c. UNCHANGED <<local, cl>>
  BY DEF SrvHandshake, SrvOpenPart, SrvRecv, SrvRecvEnd
<1>1. CASE SrvHandshake(s)
  <2> DEFINE h == Head(net[s].req)
             ack == [type |-> "HandshakeAck", old |-> Exists("file"),
                     offset |-> SizeOf("part")]
  <2>1. /\ ~h.encrypted /\ h.size = Len(local[s])
        /\ net[s].rsp = <<>> /\ net[s].uni = <<>>
        /\ ~net[s].fin /\ cl[s].pc \in {"ack", "failed"}
    <3>1. Head(net[s].req) = net[s].req[1]
      BY <1>1, TrafficUpdate DEF SrvHandshake
    <3> QED BY <1>1, <3>1 DEF SrvHandshake, InStep, Course, Plain
  <2>2. /\ sv'[s] = [sv[s] EXCEPT !.pc = IF Exists("file") THEN "sign" ELSE "open",
                                  !.size = h.size, !.off = SizeOf("part")]
        /\ UNCHANGED <<dir, data>> /\ sv[s].pc = "handshake"
    BY <1>1, <2>1 DEF SrvHandshake
  <2>3. /\ net'[s].uni = <<>> /\ ~net'[s].fin /\ net'[s].rsp = Append(<<>>, ack)
    BY <1>1, <2>1 DEF SrvHandshake, Traffic
  <2>4. /\ net'[s].rsp[1] = ack
        /\ \A i \in DOMAIN net'[s].rsp : net'[s].rsp[i] = ack
    BY <2>3
  <2>5. ack.type = "HandshakeAck" /\ ack.offset = SizeOf("part")
    OBVIOUS
  <2>6. /\ sv'[s].pc \in {"sign", "open"} /\ sv'[s].size = Len(local[s])
        /\ sv'[s].off = SizeOf("part") /\ sv'[s].out = sv[s].out
        /\ sv'[s].base = sv[s].base /\ sv'[s].buf = sv[s].buf /\ sv'[s].pos = sv[s].pos
    BY <2>1, <2>2 DEF ServerState
  <2>7. SizeOf("part") \in Nat /\ SizeOf("part") <= Len(local[s])
    BY DEF SizeOf, Course, Leftover, IsPrefixOf
  <2>8. Leftover(s)' /\ SizeOf("part")' = SizeOf("part")
    BY <1>c, <2>2 DEF Course, Leftover, Exists, SizeOf, IsPrefixOf
  <2> HIDE DEF ack, h
  <2>9. RawSent(s, sv[s].off)'
    BY <1>c, <2>1, <2>3, <2>6, <2>7 DEF RawSent
  <2>10. Uploads(s)' /\ Patches(s)'
    BY <1>c, <2>3, <2>4, <2>5, <2>6, <2>8, <2>9 DEF Uploads, Patches
  <2>11. Commits(s)' /\ Plain(s)'
    BY <1>c, <2>1, <2>2, <2>4, <2>5, <2>6 DEF Course, Commits, Plain
  <2> QED BY <2>8, <2>10, <2>11 DEF Course
<1>2. CASE SrvOpenPart(s)
  <2>1. /\ net' = net /\ OpenPart(s) /\ sv[s].pc = "open" /\ cl[s].pc # "ack"
        /\ sv'[s] = [sv[s] EXCEPT !.pc = "recv", !.out = Opened("part"),
                                  !.append = sv[s].off > 0, !.got = sv[s].off]
    BY <1>2 DEF SrvOpenPart, InStep
  <2>2. /\ sv[s].size = Len(local[s]) /\ sv[s].off = SizeOf("part")
        /\ RawSent(s, sv[s].off) /\ sv[s].buf = <<>> /\ sv[s].pos = 0
        /\ sv[s].base = NoInode /\ sv[s].off \in Nat
    BY <2>1, ServerFields DEF Course, Uploads, Plain
  <2>3. /\ Opened("part") \in Inodes
        /\ dir' = [dir EXCEPT !["part"] = Opened("part")]
        /\ data' = IF sv[s].off > 0 /\ Exists("part") THEN data
                   ELSE [data EXCEPT ![Opened("part")] = <<>>]
    BY <2>1, OpenPartType DEF OpenPart
  <2>4. /\ sv'[s].pc = "recv" /\ sv'[s].out = dir'["part"] /\ dir'["part"] \in Inodes
        /\ sv'[s].append = (sv[s].off > 0) /\ sv'[s].got = sv[s].off
        /\ sv'[s].size = sv[s].size /\ sv'[s].buf = <<>> /\ sv'[s].pos = 0
        /\ sv'[s].base = NoInode /\ dir'["part"] = Opened("part")
    BY <2>1, <2>2, <2>3 DEF ServerState
  <2>5. /\ Len(data'[dir'["part"]]) = sv[s].off /\ data'[dir'["part"]] \in Seq(Symbol)
        /\ IsPrefixOf(data'[dir'["part"]], local[s])
    <3>1. CASE sv[s].off > 0
      <4>1. Exists("part") BY <2>2, <3>1 DEF SizeOf
      <4>2. dir'["part"] = dir["part"] /\ data' = data
        BY <2>3, <2>4, <3>1, <4>1 DEF Opened
      <4> QED BY <2>2, <4>1, <4>2 DEF SizeOf, Course, Leftover
    <3>2. CASE ~(sv[s].off > 0)
      <4>1. data'[dir'["part"]] = <<>> /\ sv[s].off = 0
        BY <2>2, <2>3, <2>4, <3>2
      <4> QED BY <4>1 DEF IsPrefixOf
    <3> QED BY <3>1, <3>2
  <2>6. Content(s)' = data'[dir'["part"]]
    BY <2>4, <2>5, ConcatEmptySeq DEF Content
  <2>7. Appending(s)'
    <3>1. CASE sv[s].off > 0 BY <2>4, <3>1 DEF Appending
    <3>2. CASE ~(sv[s].off > 0)
      <4>1. sv[s].off = 0 BY <2>2, <3>2
      <4> QED BY <2>4, <2>5, <4>1 DEF Appending
    <3> QED BY <3>1, <3>2
  <2>8. RawSent(s, sv[s].got)'
    BY <1>c, <2>1, <2>2, <2>4 DEF RawSent
  <2>9. Uploads(s)' /\ Leftover(s)'
    BY <1>c, <2>2, <2>4, <2>5, <2>6, <2>7, <2>8, InodesAssumption
       DEF Uploads, Leftover, Exists
  <2>10. Patches(s)' /\ Commits(s)' /\ Plain(s)'
    BY <1>c, <2>1, <2>4 DEF Course, Patches, Commits, Plain, ServerEnds
  <2> QED BY <2>9, <2>10 DEF Course
<1>3. CASE SrvRecv(s)
  <2> DEFINE t == [sv[s] EXCEPT !.got = @ + 1]
             e == Head(net[s].uni).sym
  <2>1. /\ sv[s].pc = "recv" /\ net[s].uni # <<>> /\ Buffered(s, t, <<e>>)
        /\ net' = [net EXCEPT ![s].uni = Tail(@)] /\ dir' = dir
    BY <1>3 DEF SrvRecv
  <2>2. /\ sv[s].size = Len(local[s]) /\ Exists("part") /\ sv[s].out = dir["part"]
        /\ Appending(s) /\ sv[s].got = Len(Content(s))
        /\ IsPrefixOf(Content(s), local[s]) /\ RawSent(s, sv[s].got)
        /\ sv[s].base = NoInode /\ sv[s].got \in Nat /\ sv[s].out \in Inodes
    BY <2>1, ServerFields DEF Course, Uploads, Plain
  <2>3. t \in ServerState /\ t.out = sv[s].out /\ t.buf = sv[s].buf
        /\ t.append = sv[s].append /\ t.pos = sv[s].pos /\ t.got = sv[s].got + 1
        /\ t.size = sv[s].size /\ t.base = sv[s].base /\ t.pc = "recv"
    <3>1. sv[s].got + 1 \in Nat BY <2>2
    <3>2. t \in ServerState BY <3>1, ServerUpdate
    <3> QED BY <2>1, <3>2 DEF ServerState
  <2>4. e = local[s][sv[s].got + 1] /\ sv[s].got < Len(local[s]) /\ e \in Symbol
    <3>1. e = local[s][sv[s].got + 1] /\ sv[s].got < Len(local[s])
      BY <1>c, <2>1, <2>2, RawGoesOn
    <3> QED BY <2>2, <3>1
  <2> HIDE DEF t, e
  <2>5. <<e>> \in Seq(Symbol)
    BY <2>4
  <2>6. t.append \/ t.pos = Len(data[t.out])
    BY <2>2, <2>3 DEF Appending
  <2>7. /\ GrewBy(s, t, <<e>>) /\ Appending(s)'
        /\ sv'[s] = [t EXCEPT !.pos = sv'[s].pos, !.buf = sv'[s].buf]
        /\ data'[t.out] \in Seq(Symbol) /\ sv'[s].buf \in Seq(Symbol)
    <3>1. TypeOK /\ t \in ServerState /\ t.out \in Inodes
      BY <2>2, <2>3
    <3> QED BY ONLY <2>1, <2>5, <2>6, <3>1, BufferedAppends
  <2>8. /\ sv'[s].pc = "recv" /\ sv'[s].out = dir["part"] /\ sv'[s].size = sv[s].size
        /\ sv'[s].got = sv[s].got + 1 /\ sv'[s].base = NoInode
    BY <2>2, <2>3, <2>7 DEF ServerState
  <2>9. Content(s)' = Content(s) \o <<e>>
    BY <2>2, <2>3, <2>7, <2>8 DEF Content, GrewBy
  <2>10. IsPrefixOf(Content(s) \o <<e>>, local[s])
         /\ Len(Content(s) \o <<e>>) = sv[s].got + 1
    BY <2>2, <2>4, PrefixGrows
  <2>11. RawSent(s, sv[s].got)'
    <3>1. PICK g \in Nat : g = sv[s].got
      BY <2>2
    <3>2. RawSent(s, g + 1)'
      BY <1>c, <2>1, <2>2, <3>1, RawGoesOn
    <3> QED BY <2>8, <3>1, <3>2 DEF RawSent
  <2>12. IsPrefixOf(data'[dir["part"]], local[s])
    <3>1. Content(s)' = data'[dir["part"]] \o sv'[s].buf
      BY <2>8 DEF Content
    <3>2. data'[dir["part"]] \in Seq(Symbol) /\ sv'[s].buf \in Seq(Symbol)
      BY <2>2, <2>3, <2>7
    <3>3. IsPrefixOf(data'[dir["part"]] \o sv'[s].buf, local[s])
      BY <2>9, <2>10, <3>1
    <3> QED BY <3>2, <3>3, PrefixOfPart
  <2>13. Uploads(s)' /\ Leftover(s)'
    BY <1>c, <2>1, <2>2, <2>7, <2>8, <2>9, <2>10, <2>11, <2>12
       DEF Uploads, Leftover, Exists
  <2>14. net'[s].rsp = net[s].rsp
    BY <2>1, NextItem
  <2>15. Patches(s)' /\ Commits(s)' /\ Plain(s)'
    BY <1>c, <2>1, <2>8, <2>14 DEF Course, Patches, Commits, Plain, ServerEnds
  <2> QED BY <2>13, <2>15 DEF Course
<1>4. CASE SrvRecvEnd(s)
  <2>1. /\ sv[s].pc = "recv" /\ net[s].uni = <<>> /\ net[s].fin
        /\ UNCHANGED <<dir, net>> /\ data' = Kept(Dropped(sv[s]))
        /\ sv'[s] = IF sv[s].got = sv[s].size
                    THEN [Ended("rename") EXCEPT !.from = "part"] ELSE Ended("failed")
    BY <1>4 DEF SrvRecvEnd
  <2>2. /\ sv[s].size = Len(local[s]) /\ Exists("part") /\ sv[s].out = dir["part"]
        /\ Appending(s) /\ sv[s].got = Len(Content(s)) /\ dir["part"] \in Inodes
        /\ IsPrefixOf(Content(s), local[s]) /\ sv[s].got = Len(local[s])
    <3>1. sv[s].got \in Nat /\ Len(net[s].uni) = 0 BY <2>1, ServerFields
    <3> QED BY <2>1, <3>1 DEF Course, Uploads, RawSent
  <2>3. data'[dir["part"]] = local[s]
    <3>1. Dropped(sv[s])[dir["part"]] = Content(s)
      BY <2>2, DroppedAppends
    <3>2. data'[dir["part"]] = Content(s)
      BY <2>1, <2>2, <3>1, NamedIsKept
    <3>3. Content(s) = local[s]
      BY <2>2, PrefixWhole
    <3> QED BY <3>2, <3>3
  <2>4. sv'[s] = [Ended("rename") EXCEPT !.from = "part"]
    BY <2>1, <2>2
  <2>5. Leftover(s)'
    BY <1>c, <2>1, <2>3 DEF Leftover, IsPrefixOf
  <2>6. /\ sv'[s].pc = "rename" /\ sv'[s].from = "part" /\ sv'[s].out = NoInode
        /\ sv'[s].base = NoInode /\ sv'[s].buf = <<>> /\ sv'[s].pos = 0
    BY <2>4 DEF Ended, IdleServer
  <2>7. Uploads(s)' /\ Patches(s)' /\ Plain(s)'
    BY <1>c, <2>1, <2>6 DEF Course, Uploads, Patches, Plain, ServerEnds
  <2>8. Commits(s)'
    BY <1>c, <2>1, <2>2, <2>3, <2>6 DEF Course, Commits, Exists
  <2> QED BY <2>5, <2>7, <2>8 DEF Course
<1> QED BY <1>1, <1>2, <1>3, <1>4

(* The steps of a delta: what it writes is apart from the file and `.part`. *)
LEMMA SoloDelta ==
    ASSUME OneUser, SoloInv, Inv', NEW s \in Sessions,
           SrvSign(s) \/ SrvPatchOpen(s) \/ SrvPatch(s) \/ SrvPatchEnd(s)
    PROVE  Course(s)'
<1> USE SoloFacts
<1>c. UNCHANGED <<local, cl>>
  BY DEF SrvSign, SrvPatchOpen, SrvPatch, SrvPatchEnd
<1>1. CASE SrvSign(s)
  <2>1. CASE ~Exists("file")
    <3>1. Fail(s) /\ net' = net /\ sv[s].pc # "done"
      BY <1>1, <2>1 DEF SrvSign
    <3> QED BY <1>c, <3>1, SoloFail
  <2>2. CASE Exists("file")
    <3> DEFINE sig == [type |-> "Signatures", base |-> data[dir["file"]]]
    <3>1. /\ sv'[s] = [sv[s] EXCEPT !.pc = "patchopen"] /\ UNCHANGED <<dir, data>>
          /\ net'[s].rsp = Append(net[s].rsp, sig) /\ net'[s].uni = net[s].uni
          /\ sv[s].pc = "sign"
      <4>1. net' = [net EXCEPT ![s] = [net[s] EXCEPT !.rsp = Append(net[s].rsp, sig)]]
        BY <1>1, <2>2 DEF SrvSign
      <4>2. /\ sv'[s] = [sv[s] EXCEPT !.pc = "patchopen"] /\ UNCHANGED <<dir, data>>
            /\ sv[s].pc = "sign"
        BY <1>1, <2>2 DEF SrvSign
      <4> HIDE DEF sig
      <4>3. net'[s].rsp = Append(net[s].rsp, sig) /\ net'[s].uni = net[s].uni
        BY <4>1 DEF Traffic
      <4> QED BY <4>2, <4>3
    <3>2. sig \in ServerMessage /\ sig.type = "Signatures" /\ sig.base = data[dir["file"]]
      BY <2>2 DEF ServerMessage
    <3> HIDE DEF sig
    <3>3. \A i \in DOMAIN net'[s].rsp :
             net'[s].rsp[i] = sig
             \/ (i \in DOMAIN net[s].rsp /\ net'[s].rsp[i] = net[s].rsp[i])
      BY <3>1, <3>2, Answered
    <3>4. /\ sv'[s].pc = "patchopen" /\ sv'[s].out = sv[s].out /\ sv'[s].buf = sv[s].buf
          /\ sv'[s].pos = sv[s].pos /\ sv'[s].base = sv[s].base
      BY <3>1 DEF ServerState
    <3>5. Leftover(s)'
      BY <1>c, <3>1 DEF Course, Leftover, Exists, IsPrefixOf
    <3>6. Patches(s)'
      <4>1. net'[s].uni = <<>>
            /\ \A i \in DOMAIN net[s].rsp : net[s].rsp[i].type # "Signatures"
        BY <3>1 DEF Course, Patches
      <4> QED BY <2>2, <3>1, <3>2, <3>3, <3>4, <4>1 DEF Patches, Exists
    <3>7. Uploads(s)'
      BY <3>4 DEF Uploads
    <3>8. Commits(s)'
      BY <1>c, <3>1, <3>2, <3>3, <3>4 DEF Course, Commits
    <3>9. Plain(s)'
      BY <1>c, <3>1, <3>4 DEF Course, Plain, ServerEnds
    <3> QED BY <3>5, <3>6, <3>7, <3>8, <3>9 DEF Course
  <2> QED BY <2>1, <2>2
<1>2. CASE SrvPatchOpen(s)
  <2>1. CASE ~(Exists("file") /\ Head(net[s].uni).op = "StartPatch")
    <3>1. Fail(s) /\ net' = net /\ sv[s].pc # "done"
      BY <1>2, <2>1 DEF SrvPatchOpen
    <3> QED BY <1>c, <3>1, SoloFail
  <2>2. CASE Exists("file") /\ Head(net[s].uni).op = "StartPatch"
    <3> DEFINE o == Opened("tmp")
    <3>1. /\ sv[s].pc = "patchopen" /\ net[s].uni # <<>> /\ CanOpen("tmp")
          /\ dir' = [dir EXCEPT !["tmp"] = o] /\ data' = [data EXCEPT ![o] = <<>>]
          /\ sv'[s] = [sv[s] EXCEPT !.pc = "patch", !.out = o, !.base = dir["file"]]
          /\ net' = [net EXCEPT ![s].uni = Tail(@)]
      BY <1>2, <2>2 DEF SrvPatchOpen
    <3>2. o \in Inodes /\ o # dir["file"] /\ o # dir["part"]
      BY <3>1, OpenedElsewhere
    <3> HIDE DEF o
    <3>3. /\ sv'[s].pc = "patch" /\ sv'[s].out = o /\ sv'[s].base = dir["file"]
          /\ sv'[s].buf = <<>> /\ sv'[s].pos = 0
      BY <3>1 DEF ServerState, Course, Plain
    <3>4. /\ dir'["tmp"] = o /\ dir'["file"] = dir["file"] /\ dir'["part"] = dir["part"]
          /\ data'[o] = <<>> /\ data'[dir["file"]] = data[dir["file"]]
          /\ Exists("part") => data'[dir["part"]] = data[dir["part"]]
      BY <2>2, <3>1, <3>2
    <3>5. net'[s].uni = Tail(net[s].uni) /\ net'[s].rsp = net[s].rsp
      BY <3>1, NextItem
    <3>6. PatchSent(s, net[s].uni, data[dir["file"]], 0)'
      <4>1. PatchSent(s, Tail(net[s].uni), data[dir["file"]], 0)
        BY <3>1 DEF Course, Patches
      <4> QED BY <1>c, <3>4, <3>5, <4>1 DEF PatchSent
    <3>7. Content(s)' = <<>> /\ Appending(s)'
      <4>1. data'[o] = <<>> /\ sv'[s].buf = <<>> /\ Len(<<>>) = 0
        BY <3>3, <3>4
      <4>2. <<>> \o <<>> = <<>>
        OBVIOUS
      <4> QED BY <3>3, <4>1, <4>2 DEF Content, Appending
    <3>8. IsPrefixOf(Content(s), local[s])' /\ Len(Content(s))' = 0
      BY <1>c, <3>7 DEF IsPrefixOf
    <3>9. PatchSent(s, net[s].uni, data[dir["file"]], Len(Content(s)))'
      BY <3>6, <3>8 DEF PatchSent
    <3>10. Patches(s)'
      BY <2>2, <3>2, <3>3, <3>4, <3>7, <3>8, <3>9, InodesAssumption DEF Patches, Exists
    <3>11. Leftover(s)'
      BY <1>c, <3>4 DEF Course, Leftover, Exists, IsPrefixOf
    <3>12. Uploads(s)' /\ Commits(s)' /\ Plain(s)'
      BY <1>c, <3>1, <3>3, <3>5 DEF Course, Uploads, Commits, Plain, ServerEnds
    <3> QED BY <3>10, <3>11, <3>12 DEF Course
  <2> QED BY <2>1, <2>2
<1>3. CASE SrvPatch(s)
  <2> DEFINE i == Head(net[s].uni)
             base == data[dir["file"]]
             e == IF i.op = "Copy" THEN base[i.at] ELSE i.sym
  <2>1. /\ sv[s].pc = "patch" /\ net[s].uni # <<>>
        /\ net' = [net EXCEPT ![s].uni = Tail(@)]
    BY <1>3 DEF SrvPatch
  <2>2. /\ Exists("file") /\ sv[s].base = dir["file"]
        /\ Exists("tmp") /\ sv[s].out = dir["tmp"] /\ Appending(s)
        /\ IsPrefixOf(Content(s), local[s])
        /\ PatchSent(s, net[s].uni, base, Len(Content(s)))
    BY <2>1 DEF Course, Patches
  <2>3. /\ dir["tmp"] \in Inodes /\ dir["file"] \in Inodes /\ dir["tmp"] # dir["file"]
        /\ dir["part"] # dir["tmp"] /\ Content(s) \in Seq(Symbol)
        /\ Len(Content(s)) \in Nat
    BY <2>2 DEF NoAlias
  <2>4. net'[s].rsp = net[s].rsp
    BY <2>1, NextItem
  <2>5. CASE Fail(s)
    BY <1>c, <2>1, <2>4, <2>5, SoloFail
  <2>6. CASE ~Fail(s)
    <3>1. Buffered(s, sv[s], <<e>>) /\ dir' = dir
      BY <1>3, <2>2, <2>6 DEF SrvPatch
    <3>2. e = local[s][Len(Content(s)) + 1] /\ Len(Content(s)) < Len(local[s])
          /\ e \in Symbol
      <4>1. e = local[s][Len(Content(s)) + 1] /\ Len(Content(s)) < Len(local[s])
        BY <2>1, <2>2, <2>3, PatchGoesOn
      <4> HIDE DEF e
      <4> QED BY <2>3, <4>1
    <3> HIDE DEF e, i
    <3>3. <<e>> \in Seq(Symbol)
      BY <3>2
    <3>4. sv[s].append \/ sv[s].pos = Len(data[sv[s].out])
      BY <2>2 DEF Appending
    <3>5. /\ GrewBy(s, sv[s], <<e>>) /\ Appending(s)'
          /\ sv'[s] = [sv[s] EXCEPT !.pos = sv'[s].pos, !.buf = sv'[s].buf]
          /\ \A k \in Inodes : k # dir["tmp"] => data'[k] = data[k]
      <4>1. TypeOK /\ sv[s] \in ServerState /\ sv[s].out \in Inodes
            /\ sv[s].out = dir["tmp"]
        BY <2>2, <2>3
      <4> QED BY ONLY <3>1, <3>3, <3>4, <4>1, BufferedAppends
    <3>6. /\ sv'[s].pc = "patch" /\ sv'[s].out = dir["tmp"] /\ sv'[s].base = dir["file"]
      BY <2>1, <2>2, <3>5 DEF ServerState
    <3>7. Content(s)' = Content(s) \o <<e>>
      BY <2>2, <3>5, <3>6 DEF Content, GrewBy
    <3>8. IsPrefixOf(Content(s) \o <<e>>, local[s])
          /\ Len(Content(s) \o <<e>>) = Len(Content(s)) + 1
      BY <2>2, <2>3, <3>2, PrefixGrows
    <3>9. /\ data'[dir["file"]] = base
          /\ Exists("part") => data'[dir["part"]] = data[dir["part"]]
      BY <2>3, <3>5
    <3> HIDE DEF base
    <3>10. PatchSent(s, net[s].uni, base, Len(Content(s)))'
      <4>1. PatchSent(s, net'[s].uni, base, Len(Content(s)) + 1)
        BY <2>1, <2>2, <2>3, PatchGoesOn
      <4>2. base' = base /\ Len(Content(s))' = Len(Content(s)) + 1
        BY <3>1, <3>7, <3>8, <3>9 DEF base
      <4> QED BY <1>c, <4>1, <4>2 DEF PatchSent
    <3>11. Patches(s)'
      BY <1>c, <2>2, <3>1, <3>5, <3>6, <3>7, <3>8, <3>10 DEF Patches, Exists, base
    <3>12. Leftover(s)'
      BY <1>c, <3>1, <3>9 DEF Course, Leftover, Exists, IsPrefixOf
    <3>13. Uploads(s)'
      BY <3>6 DEF Uploads
    <3>14. Commits(s)'
      BY <1>c, <2>1, <2>4, <3>6 DEF Course, Commits
    <3>15. Plain(s)'
      BY <1>c, <2>1, <3>6 DEF Course, Plain, ServerEnds
    <3> QED BY <3>11, <3>12, <3>13, <3>14, <3>15 DEF Course
  <2> QED BY <2>5, <2>6
<1>4. CASE SrvPatchEnd(s)
  <2>1. /\ sv[s].pc = "patch" /\ net[s].uni = <<>> /\ UNCHANGED <<dir, net>>
        /\ data' = Kept(Dropped(sv[s]))
        /\ sv'[s] = [Ended("rename") EXCEPT !.from = "tmp"]
    BY <1>4 DEF SrvPatchEnd
  <2>2. /\ Exists("tmp") /\ sv[s].out = dir["tmp"] /\ Appending(s)
        /\ dir["tmp"] \in Inodes /\ dir["tmp"] # dir["part"]
        /\ IsPrefixOf(Content(s), local[s]) /\ Len(Content(s)) = Len(local[s])
    <3>1. Exists("tmp") /\ sv[s].out = dir["tmp"] /\ Appending(s)
          /\ IsPrefixOf(Content(s), local[s])
          /\ Len(Content(s)) + Len(net[s].uni) = Len(local[s])
      BY <2>1 DEF Course, Patches, PatchSent
    <3>2. Len(net[s].uni) = 0 /\ Len(Content(s)) \in Nat
      BY <2>1, <3>1
    <3> QED BY <3>1, <3>2 DEF NoAlias
  <2>3. Dropped(sv[s]) = [data EXCEPT ![dir["tmp"]] = local[s]]
    <3>1. Content(s) = local[s]
      BY <2>2, PrefixWhole
    <3>2. Dropped(sv[s]) = [data EXCEPT ![sv[s].out] = Content(s)]
      BY <2>2, DroppedAppends
    <3> QED BY <2>2, <3>1, <3>2
  <2>4. data'[dir["tmp"]] = local[s]
    <3>1. dir["tmp"] \in Inodes /\ dir'["tmp"] = dir["tmp"]
      BY <2>1, <2>2
    <3>2. data'[dir["tmp"]] = Dropped(sv[s])[dir["tmp"]]
      BY <2>1, <3>1, NamedIsKept
    <3> QED BY <2>3, <3>1, <3>2
  <2>5. Exists("part") => data'[dir["part"]] = data[dir["part"]]
    <3> SUFFICES ASSUME Exists("part") PROVE data'[dir["part"]] = data[dir["part"]]
      OBVIOUS
    <3>1. dir["part"] \in Inodes /\ dir'["part"] = dir["part"]
      BY <2>1
    <3>2. data'[dir["part"]] = Dropped(sv[s])[dir["part"]]
      BY <2>1, <3>1, NamedIsKept
    <3> QED BY <2>2, <2>3, <3>1, <3>2
  <2>6. /\ sv'[s].pc = "rename" /\ sv'[s].from = "tmp" /\ sv'[s].out = NoInode
        /\ sv'[s].base = NoInode /\ sv'[s].buf = <<>> /\ sv'[s].pos = 0
    BY <2>1 DEF Ended, IdleServer
  <2>7. Leftover(s)'
    BY <1>c, <2>1, <2>5 DEF Course, Leftover, Exists, IsPrefixOf
  <2>8. Uploads(s)' /\ Patches(s)' /\ Plain(s)'
    BY <1>c, <2>1, <2>6 DEF Course, Uploads, Patches, Plain, ServerEnds
  <2>9. Commits(s)'
    BY <1>c, <2>1, <2>2, <2>4, <2>6 DEF Course, Commits, Exists
  <2> QED BY <2>7, <2>8, <2>9 DEF Course
<1> QED BY <1>1, <1>2, <1>3, <1>4

(* The rename, the verification and the end of a lost task.                 *)
LEMMA SoloCommit ==
    ASSUME OneUser, SoloInv, Inv', NEW s \in Sessions,
           SrvRename(s) \/ SrvVerify(s) \/ SrvLost(s)
    PROVE  Course(s)'
<1> USE SoloFacts
<1>c. UNCHANGED <<local, cl>>
  BY DEF SrvRename, SrvVerify, SrvLost
<1>1. CASE SrvRename(s)
  <2> DEFINE n == sv[s].from
  <2>1. /\ Exists(n) /\ data[dir[n]] = local[s] /\ n \in {"part", "tmp"}
        /\ sv[s].pc = "rename"
    BY <1>1, ServerFields DEF SrvRename, Course, Commits
  <2>2. /\ dir' = [dir EXCEPT !["file"] = dir[n], ![n] = NoInode]
        /\ sv'[s] = [sv[s] EXCEPT !.pc = "verify"] /\ data' = Kept(data)
        /\ UNCHANGED net
    BY <1>1, <2>1 DEF SrvRename
  <2>3. dir[n] \in Inodes /\ dir'["file"] = dir[n]
    BY <2>1, <2>2
  <2>4. data'[dir'["file"]] = local[s]
    BY <2>1, <2>2, <2>3, NamedIsKept
  <2>5. dir'["part"] = NoInode \/ dir'["part"] = dir["part"]
    BY <2>1, <2>2
  <2>6. Exists("part")' => Exists("part") /\ dir'["part"] = dir["part"]
                           /\ data'[dir["part"]] = data[dir["part"]]
    BY <2>2, <2>5, NamedIsKept DEF Exists
  <2>7. /\ sv'[s].pc = "verify" /\ sv'[s].out = sv[s].out /\ sv'[s].buf = sv[s].buf
        /\ sv'[s].pos = sv[s].pos /\ sv'[s].base = sv[s].base
    BY <2>2 DEF ServerState
  <2>8. Leftover(s)'
    BY <1>c, <2>6 DEF Course, Leftover, IsPrefixOf
  <2>9. Commits(s)'
    BY <1>c, <2>1, <2>2, <2>3, <2>4, <2>7, InodesAssumption DEF Course, Commits, Exists
  <2>10. Uploads(s)' /\ Patches(s)' /\ Plain(s)'
    BY <1>c, <2>1, <2>2, <2>7 DEF Course, Uploads, Patches, Plain, ServerEnds
  <2> QED BY <2>8, <2>9, <2>10 DEF Course
<1>2. CASE SrvVerify(s)
  <2> DEFINE res == [type |-> "VerifyResult", sum |-> data[dir["file"]]]
  <2>1. Exists("file") /\ data[dir["file"]] = local[s] /\ sv[s].pc = "verify"
    BY <1>2 DEF SrvVerify, Course, Commits
  <2>2. /\ sv'[s] = Ended("done") /\ UNCHANGED <<dir, data>>
        /\ net'[s].rsp = Append(net[s].rsp, res)
    BY <1>2, <2>1 DEF SrvVerify, Traffic
  <2>3. res \in ServerMessage /\ res.type = "VerifyResult" /\ res.sum = local[s]
    BY <2>1 DEF ServerMessage
  <2> HIDE DEF res
  <2>4. \A i \in DOMAIN net'[s].rsp :
           net'[s].rsp[i] = res
           \/ (i \in DOMAIN net[s].rsp /\ net'[s].rsp[i] = net[s].rsp[i])
    BY <2>2, <2>3, Answered
  <2>5. /\ sv'[s].pc = "done" /\ sv'[s].out = NoInode /\ sv'[s].base = NoInode
        /\ sv'[s].buf = <<>> /\ sv'[s].pos = 0
    BY <2>2 DEF Ended, IdleServer
  <2>6. Leftover(s)'
    BY <1>c, <2>2 DEF Course, Leftover, Exists, IsPrefixOf
  <2>7. Commits(s)'
    BY <1>c, <2>1, <2>3, <2>4, <2>5 DEF Course, Commits
  <2>8. Uploads(s)' /\ Patches(s)' /\ Plain(s)'
    BY <1>c, <2>5 DEF Course, Uploads, Patches, Plain, ServerEnds
  <2> QED BY <2>6, <2>7, <2>8 DEF Course
<1>3. CASE SrvLost(s)
  BY <1>3, <1>c, SoloFail DEF SrvLost, ServerWaits
<1> QED BY <1>1, <1>2, <1>3

(* A crash leaves what was written.                                         *)
LEMMA SoloCrash ==
    ASSUME OneUser, SoloInv, Inv', NEW s \in Sessions, ServerCrash
    PROVE  Course(s)'
<1> USE SoloFacts
<1>1. /\ sv[s].pc \notin ServerEnds /\ UNCHANGED <<local, cl, net, dir>>
      /\ sv'[s] = Ended("failed") /\ data' = Kept(data)
  BY DEF ServerCrash
<1>2. Exists("part") => data'[dir["part"]] = data[dir["part"]]
  BY <1>1, NamedIsKept
<1>3. /\ sv'[s].pc = "failed" /\ sv'[s].out = NoInode /\ sv'[s].base = NoInode
      /\ sv'[s].buf = <<>> /\ sv'[s].pos = 0
  BY <1>1 DEF Ended, IdleServer
<1>4. Leftover(s)'
  BY <1>1, <1>2 DEF Course, Leftover, Exists, IsPrefixOf
<1>5. Uploads(s)' /\ Patches(s)' /\ Commits(s)' /\ Plain(s)'
  BY <1>1, <1>3 DEF Course, Uploads, Patches, Commits, Plain, ServerEnds
<1> QED BY <1>4, <1>5 DEF Course

LEMMA SoloInit ==
    ASSUME OneUser PROVE Init => SoloInv
<1> SUFFICES ASSUME Init PROVE SoloInv
  OBVIOUS
<1>1. Inv /\ NoAlias
  BY InitInv DEF Init, NoAlias, Names, Exists
<1>2. ASSUME NEW s \in Sessions PROVE Course(s)
  BY <1>2 DEF Init, Course, Uploads, Patches, Commits, Plain, Leftover, IdleClient,
              IdleServer, NoTraffic, ServerEnds, Exists, Names
<1> QED BY <1>1, <1>2 DEF SoloInv

LEMMA SoloNext ==
    ASSUME OneUser PROVE SoloInv /\ [Next]_vars => SoloInv'
<1> SUFFICES ASSUME SoloInv, [Next]_vars PROVE SoloInv'
  OBVIOUS
<1>1. Inv' /\ NoAlias'
  BY NextInv, EntriesStayDistinct DEF SoloInv, Inv
<1>2. ASSUME NEW s \in Sessions PROVE Course(s)'
  <2>1. \A q \in Sessions : q = s
    BY <1>2, SoloFacts
  <2>2. CASE ClStart(s) \/ ClientStep(s) \/ ClDie(s) \/ Edit(s)
    BY <1>1, <2>2, SoloClient
  <2>3. CASE ServerStep(s)
    <3>1. ASSUME SrvEncrypted(s) \/ SrvEncRecvEnd(s) \/ SrvEncWrite(s) PROVE FALSE
      BY <3>1, SoloFacts DEF Course, Plain, SrvEncrypted, SrvEncRecvEnd, SrvEncWrite
    <3> QED BY <1>1, <2>3, <3>1, SoloUpload, SoloDelta, SoloCommit DEF ServerStep
  <2>4. CASE ServerCrash
    BY <1>1, <2>4, SoloCrash
  <2>5. CASE UNCHANGED vars
    <3>1. Course(s) /\ UNCHANGED <<local, dir, data, cl, net, sv>>
      BY <2>5, SoloFacts DEF vars
    <3>2. /\ Content(s)' = Content(s) /\ Appending(s)' = Appending(s)
          /\ \A n : Exists(n)' = Exists(n) /\ SizeOf(n)' = SizeOf(n)
      BY <3>1 DEF Content, Appending, Exists, SizeOf
    <3>3. Uploads(s)'
      BY <3>1, <3>2 DEF Course, Uploads, RawSent, IsPrefixOf
    <3>4. Patches(s)'
      BY <3>1, <3>2 DEF Course, Patches, PatchSent, IsPrefixOf
    <3>5. Commits(s)' /\ Plain(s)' /\ Leftover(s)'
      BY <3>1, <3>2 DEF Course, Commits, Plain, Leftover, IsPrefixOf
    <3> QED BY <3>3, <3>4, <3>5 DEF Course
  <2> QED BY <2>1, <2>2, <2>3, <2>4, <2>5 DEF Next
<1> QED BY <1>1, <1>2 DEF SoloInv

LEMMA SoloInvariance ==
    ASSUME OneUser PROVE Spec => []SoloInv
BY SoloInit, SoloNext, PTL DEF Spec

(* An interrupted upload of one user leaves a prefix of the file, so that   *)
(* the next run may resume at its length (handle_file_sync).                *)
THEOREM PartKeepsPrefix == ASSUME OneUser PROVE Spec => []PartIsPrefix
<1>1. ASSUME SoloInv PROVE PartIsPrefix
  BY <1>1 DEF SoloInv, Course, Leftover, Uploads, Content, PartIsPrefix
<1>2. SoloInv => PartIsPrefix
  BY <1>1
<1> QED BY <1>2, SoloInvariance, PTL

(* When the client of one user reports success, resumed or not, the server  *)
(* has computed the checksum of that user's file.                           *)
THEOREM SuccessFaithful == ASSUME OneUser PROVE Spec => []SuccessIsFaithful
<1>1. ASSUME SoloInv PROVE SuccessIsFaithful
  BY <1>1 DEF SoloInv, Course, Commits, Plain, SuccessIsFaithful, Image
<1>2. SoloInv => SuccessIsFaithful
  BY <1>1
<1> QED BY <1>2, SoloInvariance, PTL

-----------------------------------------------------------------------------
(* For one user the sync of a file looks atomic.                            *)

(* What the server holds under the name.                                    *)
Stored == IF Exists("file") THEN data[dir["file"]] ELSE NoInode

(* The file is not changed by a write elsewhere, nor by closing descriptors.*)
LEMMA ElsewhereKeeps ==
    ASSUME TypeOK, dir'["file"] = dir["file"],
           NEW d, Exists("file") => d[dir["file"]] = data[dir["file"]],
           data' = d \/ data' = Kept(d)
    PROVE  Stored' = Stored
<1>1. CASE Exists("file")
  <2>1. dir'["file"] \in Inodes
    BY <1>1 DEF Exists, TypeOK, Names
  <2>2. data'[dir'["file"]] = d[dir'["file"]]
    BY <2>1, NamedIsKept DEF Names
  <2> QED BY <1>1, <2>2 DEF Stored, Exists
<1>2. CASE ~Exists("file")
  BY <1>2 DEF Stored, Exists
<1> QED BY <1>1, <1>2

(* A task that fails does not write to the stored file.                     *)
LEMMA FailKeeps ==
    ASSUME OneUser, SoloInv, NEW s \in Sessions, Fail(s)
    PROVE  Stored' = Stored
<1> USE SoloFacts
<1>1. dir' = dir /\ data' = Kept(Dropped(sv[s]))
  BY DEF Fail
<1>2. Exists("file") => Dropped(sv[s])[dir["file"]] = data[dir["file"]]
  <2> SUFFICES ASSUME Exists("file")
               PROVE  Dropped(sv[s])[dir["file"]] = data[dir["file"]]
    OBVIOUS
  <2>1. CASE sv[s].pc \in {"recv", "patch"}
    <3>1. PICK n \in {"part", "tmp"} :
             Exists(n) /\ sv[s].out = dir[n] /\ Appending(s)
      BY <2>1 DEF Course, Uploads, Patches
    <3>2. n \in Names /\ dir[n] \in Inodes
      BY <3>1
    <3>3. dir[n] # dir["file"]
      BY <3>1, <3>2 DEF NoAlias
    <3>4. Dropped(sv[s]) = [data EXCEPT ![dir[n]] = Content(s)]
      BY <3>1, <3>2, DroppedAppends
    <3> QED BY <3>2, <3>3, <3>4
  <2>2. CASE sv[s].pc \notin {"recv", "patch"}
    BY <2>2 DEF Course, Plain, Dropped
  <2> QED BY <2>1, <2>2
<1> QED BY <1>1, <1>2, ElsewhereKeeps

(* The rename puts the whole file in place.                                 *)
LEMMA RenameStores ==
    ASSUME OneUser, SoloInv, NEW s \in Sessions, SrvRename(s)
    PROVE  Stored' = local[s]
<1> USE SoloFacts
<1> DEFINE n == sv[s].from
<1>1. /\ Exists(n) /\ data[dir[n]] = local[s] /\ n \in {"part", "tmp"}
      /\ sv[s].pc = "rename"
  BY ServerFields DEF SrvRename, Course, Commits
<1>2. dir' = [dir EXCEPT !["file"] = dir[n], ![n] = NoInode] /\ data' = Kept(data)
  BY <1>1 DEF SrvRename
<1>3. dir[n] \in Inodes /\ dir'["file"] = dir[n]
  BY <1>1, <1>2
<1>4. data'[dir'["file"]] = local[s]
  BY <1>1, <1>2, <1>3, NamedIsKept
<1> QED BY <1>1, <1>3, <1>4, InodesAssumption DEF Stored, Exists

(* No other step changes what the server holds.                             *)
LEMMA StoredSteps ==
    ASSUME OneUser, SoloInv, NEW s \in Sessions,
           \/ ClStart(s) \/ ClientStep(s) \/ ServerStep(s) \/ ClDie(s) \/ Edit(s)
           \/ ServerCrash,
           ~SrvRename(s)
    PROVE  Stored' = Stored
<1> USE SoloFacts
<1>1. CASE ClStart(s) \/ ClientStep(s) \/ ClDie(s) \/ Edit(s) \/ SrvHandshake(s)
           \/ SrvEncrypted(s)
  <2>1. UNCHANGED <<dir, data>>
    BY <1>1 DEF ClStart, ClientStep, ClUpload, ClSend, ClPatch, ClEncrypt, ClVerified,
                ClLost, ClDie, Edit, SrvHandshake, SrvEncrypted
  <2> QED BY <2>1 DEF Stored, Exists
<1>2. CASE SrvOpenPart(s)
  <2>1. OpenPart(s) /\ CanOpen("part")
    BY <1>2 DEF SrvOpenPart, OpenPart
  <2>2. Opened("part") # dir["file"]
    BY <2>1, OpenedElsewhere
  <2>3. Exists("file") => data'[dir["file"]] = data[dir["file"]]
    BY <2>1, <2>2 DEF OpenPart
  <2>4. dir'["file"] = dir["file"]
    BY <2>1 DEF OpenPart
  <2> QED BY <2>3, <2>4, ElsewhereKeeps
<1>3. CASE SrvRecv(s) \/ SrvPatch(s)
  <2>1. CASE Fail(s)
    BY <2>1, FailKeeps
  <2>2. CASE ~Fail(s)
    <3>1. PICK n \in {"part", "tmp"} :
             Exists(n) /\ sv[s].out = dir[n] /\ Appending(s)
      BY <1>3 DEF SrvRecv, SrvPatch, Course, Uploads, Patches
    <3>2. n \in Names /\ dir[n] \in Inodes
      BY <3>1
    <3>3. dir[n] # dir["file"]
      BY <3>1, <3>2 DEF NoAlias
    <3>4. PICK t \in {sv[s], [sv[s] EXCEPT !.got = @ + 1]} :
             (\E x : Buffered(s, t, <<x>>)) /\ dir' = dir
      BY <1>3, <2>2 DEF SrvRecv, SrvPatch
    <3>5. t.out = dir[n]
      BY <3>1, <3>4 DEF ServerState
    <3>6. PICK y : data' = Written(t, y)
      BY <3>4 DEF Buffered
    <3>7. Exists("file") => data'[dir["file"]] = data[dir["file"]]
      BY <3>3, <3>5, <3>6 DEF Written
    <3> QED BY <3>4, <3>7, ElsewhereKeeps
  <2> QED BY <2>1, <2>2
<1>4. CASE SrvRecvEnd(s) \/ SrvPatchEnd(s)
  <2>1. dir' = dir /\ data' = Kept(Dropped(sv[s])) /\ sv[s].pc \in {"recv", "patch"}
    BY <1>4 DEF SrvRecvEnd, SrvPatchEnd
  <2>2. PICK n \in {"part", "tmp"} :
           Exists(n) /\ sv[s].out = dir[n] /\ Appending(s)
    BY <2>1 DEF Course, Uploads, Patches
  <2>3. n \in Names /\ dir[n] \in Inodes
    BY <2>2
  <2>4. dir[n] # dir["file"]
    BY <2>2, <2>3 DEF NoAlias
  <2>5. Dropped(sv[s]) = [data EXCEPT ![dir[n]] = Content(s)]
    BY <2>2, <2>3, DroppedAppends
  <2>6. Exists("file") => Dropped(sv[s])[dir["file"]] = data[dir["file"]]
    BY <2>3, <2>4, <2>5
  <2> QED BY <2>1, <2>6, ElsewhereKeeps
<1>5. CASE SrvSign(s) \/ SrvVerify(s) \/ SrvLost(s)
  <2>1. Fail(s) \/ UNCHANGED <<dir, data>>
    BY <1>5 DEF SrvSign, SrvVerify, SrvLost
  <2> QED BY <2>1, FailKeeps DEF Stored, Exists
<1>6. CASE SrvPatchOpen(s)
  <2>1. CASE Fail(s)
    BY <2>1, FailKeeps
  <2>2. CASE ~Fail(s)
    <3>1. /\ CanOpen("tmp") /\ dir' = [dir EXCEPT !["tmp"] = Opened("tmp")]
          /\ data' = [data EXCEPT ![Opened("tmp")] = <<>>]
      BY <1>6, <2>2 DEF SrvPatchOpen
    <3>2. Opened("tmp") # dir["file"]
      BY <3>1, OpenedElsewhere
    <3>3. dir'["file"] = dir["file"]
          /\ (Exists("file") => data'[dir["file"]] = data[dir["file"]])
      BY <3>1, <3>2
    <3> QED BY <3>3, ElsewhereKeeps
  <2> QED BY <2>1, <2>2
<1>7. CASE SrvEncRecvEnd(s) \/ SrvEncWrite(s)
  BY <1>7 DEF SrvEncRecvEnd, SrvEncWrite, Course, Plain
<1>8. CASE ServerCrash
  <2>1. dir' = dir /\ data' = Kept(data)
    BY <1>8 DEF ServerCrash
  <2> QED BY <2>1, ElsewhereKeeps
<1> QED BY <1>1, <1>2, <1>3, <1>4, <1>5, <1>6, <1>7, <1>8 DEF ServerStep

(* What the user sees of a step of the client.                              *)
LEMMA ClientStatus ==
    ASSUME OneUser, SoloInv, NEW s \in Sessions,
           ClStart(s) \/ ClientStep(s) \/ ClDie(s)
    PROVE  \/ /\ Status(s) \in ClientEnds /\ Status(s)' = "running"
              /\ cl'[s].enc \in Modes
           \/ /\ cl'[s].enc = cl[s].enc
              /\ \/ Status(s)' = Status(s)
                 \/ Status(s) = "stored" /\ Status(s)' = "ok"
                 \/ Status(s) \in {"running", "stored"} /\ Status(s)' = "failed"
<1> USE SoloFacts
<1>1. CASE ClStart(s)
  <2>1. PICK e \in Modes : cl'[s] = [IdleClient EXCEPT !.pc = "ack", !.enc = e]
    BY <1>1 DEF ClStart
  <2>2. sv'[s].pc = "handshake" /\ cl'[s].pc = "ack" /\ cl'[s].enc = e
    BY <1>1, <2>1 DEF ClStart, Ended, IdleServer, IdleClient
  <2> QED BY <1>1, <2>2 DEF ClStart, Status, ClientEnds
<1>2. CASE ClUpload(s) \/ ClSend(s) \/ ClPatch(s) \/ ClEncrypt(s)
  <2>1. sv' = sv /\ cl[s].pc \in {"ack", "send", "sigs"}
    BY <1>2 DEF ClUpload, ClSend, ClPatch, ClEncrypt
  <2>2. cl'[s].pc \in {"sigs", "send", "verify"} /\ cl'[s].enc = cl[s].enc
    <3>1. CASE ClUpload(s)
      <4>1. \/ cl'[s] = [cl[s] EXCEPT !.pc = "sigs"]
            \/ \E n : cl'[s] = [cl[s] EXCEPT !.pc = "send", !.skip = n, !.pos = n]
        BY <3>1 DEF ClUpload
      <4> QED BY <4>1 DEF ClientState
    <3>2. CASE ClSend(s) \/ ClPatch(s)
      <4>1. \/ cl'[s] = [cl[s] EXCEPT !.pos = cl[s].pos + 1] /\ cl[s].pc = "send"
            \/ cl'[s] = [cl[s] EXCEPT !.pc = "verify"]
        BY <3>2 DEF ClSend, ClPatch
      <4> QED BY <4>1 DEF ClientState
    <3>3. CASE ClEncrypt(s)
      BY <3>3 DEF ClEncrypt, Course, Plain
    <3> QED BY <1>2, <3>1, <3>2, <3>3
  <2> QED BY <2>1, <2>2 DEF Status, ClientEnds
<1>3. CASE ClVerified(s)
  <2>1. net[s].rsp[1].type = "VerifyResult" /\ 1 \in DOMAIN net[s].rsp
    BY <1>3 DEF ClVerified, Replied
  <2>2. sv[s].pc = "done"
    BY <2>1 DEF Course, Commits
  <2>3. cl[s].pc = "verify" /\ cl'[s].pc = "ok" /\ cl'[s].enc = cl[s].enc
    BY <1>3 DEF ClVerified, ClientState
  <2> QED BY <2>2, <2>3 DEF Status, ClientEnds
<1>4. CASE ClLost(s) \/ ClDie(s)
  <2>1. cl[s].pc \notin ClientEnds /\ cl'[s] = Gone(s) /\ sv' = sv
    BY <1>4 DEF ClLost, ClDie
  <2>2. cl'[s].pc = "failed" /\ cl'[s].enc = cl[s].enc
    BY <2>1 DEF Gone, IdleClient
  <2> QED BY <2>1, <2>2 DEF Status, ClientEnds
<1> QED BY <1>1, <1>2, <1>3, <1>4 DEF ClientStep

(* What the user sees of a step of the server: a failure ends the run, and  *)
(* the rename is the commit.                                                *)
LEMMA ServerStatus ==
    ASSUME OneUser, SoloInv, NEW s \in Sessions, ServerStep(s) \/ ServerCrash
    PROVE  /\ cl' = cl
           /\ IF SrvRename(s)
              THEN /\ Status(s) \in {"running", "failed"}
                   /\ Status(s)' = IF Status(s) = "running" THEN "stored" ELSE "failed"
              ELSE \/ Status(s)' = Status(s)
                   \/ Status(s) \in {"running", "stored"} /\ Status(s)' = "failed"
<1> USE SoloFacts
<1>0. cl' = cl
  BY DEF ServerStep, ServerCrash, SrvHandshake, SrvOpenPart, SrvRecv, SrvRecvEnd,
         SrvSign, SrvPatchOpen, SrvPatch, SrvPatchEnd, SrvEncrypted, SrvEncRecvEnd,
         SrvEncWrite, SrvRename, SrvVerify, SrvLost
<1>1. CASE SrvRename(s)
  <2>1. sv[s].pc = "rename" /\ Exists(sv[s].from)
    BY <1>1 DEF SrvRename, Course, Commits
  <2>2. sv'[s].pc = "verify"
    BY <1>1, <2>1 DEF SrvRename, ServerState
  <2>3. cl[s].pc \notin {"idle", "ok"}
    BY <2>1 DEF Course, Plain, ServerEnds
  <2> QED BY <1>0, <1>1, <2>1, <2>2, <2>3 DEF Status, ClientEnds
<1>2. CASE ~SrvRename(s)
  <2>1. \/ sv'[s].pc = sv[s].pc
        \/ sv'[s].pc = "failed"
        \/ /\ sv[s].pc \notin {"verify", "done", "failed"}
           /\ sv'[s].pc \notin {"verify", "done", "failed"}
        \/ sv[s].pc = "verify" /\ sv'[s].pc = "done"
    <3>1. CASE Fail(s)
      BY <3>1 DEF Fail, Ended, IdleServer
    <3>2. CASE SrvHandshake(s) \/ SrvOpenPart(s)
      BY <3>2 DEF SrvHandshake, SrvOpenPart, ServerState
    <3>3. CASE SrvRecvEnd(s) \/ SrvPatchEnd(s)
      <4>1. sv[s].pc \in {"recv", "patch"}
        BY <3>3 DEF SrvRecvEnd, SrvPatchEnd
      <4>2. sv'[s] \in {Ended("failed")}
                         \cup {[Ended("rename") EXCEPT !.from = n] : n \in {"part", "tmp"}}
        BY <3>3 DEF SrvRecvEnd, SrvPatchEnd
      <4>3. sv'[s].pc \in {"failed", "rename"}
        BY <4>2 DEF Ended, IdleServer
      <4> QED BY <4>1, <4>3
    <3>4. CASE (SrvSign(s) \/ SrvPatchOpen(s) \/ SrvVerify(s)) /\ ~Fail(s)
      BY <3>4 DEF SrvSign, SrvPatchOpen, SrvVerify, Ended, IdleServer, ServerState
    <3>5. CASE (SrvRecv(s) \/ SrvPatch(s)) /\ ~Fail(s)
      <4>1. PICK t \in {sv[s], [sv[s] EXCEPT !.got = @ + 1]} :
               \E x : Buffered(s, t, <<x>>)
        BY <3>5 DEF SrvRecv, SrvPatch
      <4>2. t.pc = sv[s].pc /\ t \in ServerState
        <5>1. sv[s].got + 1 \in Nat BY ServerFields
        <5> QED BY <5>1 DEF ServerState
      <4>3. sv'[s].pc = t.pc
        BY <4>1, <4>2 DEF Buffered, ServerState
      <4> QED BY <4>2, <4>3
    <3>6. CASE SrvEncrypted(s) \/ SrvEncRecvEnd(s) \/ SrvEncWrite(s)
      BY <3>6 DEF SrvEncrypted, SrvEncRecvEnd, SrvEncWrite, Course, Plain
    <3>7. CASE SrvLost(s)
      BY <3>1, <3>7 DEF SrvLost
    <3>8. CASE ServerCrash
      BY <3>8 DEF ServerCrash, Ended, IdleServer
    <3> QED BY <1>2, <3>1, <3>2, <3>3, <3>4, <3>5, <3>6, <3>7, <3>8 DEF ServerStep
  <2> QED BY <1>0, <1>2, <2>1 DEF Status, ClientEnds
<1> QED BY <1>1, <1>2

(* Whatever is interrupted, the sync of the file of one user looks atomic:  *)
(* the stored file is replaced at once by the whole file, and success is    *)
(* only reported after that, in the same run (handle_file_sync).            *)
THEOREM SyncLooksAtomic == ASSUME OneUser PROVE Spec => LooksAtomic
<1>1. Init => Atomic!Init
  <2> SUFFICES ASSUME Init PROVE Atomic!Init
    OBVIOUS
  <2>1. \A s \in Sessions : cl[s].enc = FALSE /\ Status(s) = "idle"
    BY DEF Init, IdleClient, Status, ClientEnds
  <2>2. Stored \in Bases
    <3> DEFINE i == CHOOSE j \in Inodes : TRUE
    <3>1. PICK old \in Bases :
            /\ dir = [n \in Names |-> IF n = "file" /\ old # NoInode THEN i ELSE NoInode]
            /\ data = [j \in Inodes |-> IF j = i /\ old # NoInode THEN old ELSE <<>>]
      BY DEF Init
    <3>2. i \in Inodes /\ "file" \in Names
      BY InodesAssumption DEF Names
    <3> QED BY <3>1, <3>2, InodesAssumption DEF Stored, Exists
  <2> QED BY <2>1, <2>2 DEF Atomic!Init, Stored
<1>2. ASSUME SoloInv, [Next]_vars PROVE [Atomic!Next]_(Atomic!vars)
  <2> DEFINE mode == [s \in Sessions |-> cl[s].enc]
             status == [s \in Sessions |-> Status(s)]
  <2>1. CASE UNCHANGED vars
    BY <2>1 DEF vars, Atomic!vars, Status, Exists
  <2>2. ASSUME NEW s \in Sessions,
               \/ ClStart(s) \/ ClientStep(s) \/ ServerStep(s) \/ ClDie(s) \/ Edit(s)
               \/ ServerCrash
        PROVE  [Atomic!Next]_(Atomic!vars)
    <3> USE <1>2
    <3>0. Sessions = {s} /\ ~Edit(s)
      <4>1. local[s] \in Versions /\ Sessions = {s}
        BY SoloFacts, SessionTypes
      <4> QED BY <4>1 DEF OneUser, Edit
    <3>1. local' = local
      BY <2>2, <3>0
         DEF ClStart, ClientStep, ServerStep, ClDie, ServerCrash, ClUpload, ClSend,
             ClPatch, ClEncrypt, ClVerified, ClLost, SrvHandshake, SrvOpenPart, SrvRecv,
             SrvRecvEnd, SrvSign, SrvPatchOpen, SrvPatch, SrvPatchEnd, SrvEncrypted,
             SrvEncRecvEnd, SrvEncWrite, SrvRename, SrvVerify, SrvLost
    <3>2. Stored' = IF SrvRename(s) THEN local[s] ELSE Stored
      BY <2>2, RenameStores, StoredSteps
    <3>3. CASE SrvRename(s)
      <4>1. /\ cl' = cl /\ Status(s) \in {"running", "failed"}
            /\ Status(s)' = IF Status(s) = "running" THEN "stored" ELSE "failed"
        BY <3>3, ServerStatus DEF ServerStep
      <4>2. ~cl[s].enc
        BY SoloFacts DEF Course, Plain
      <4>3. status'[s] = (IF status[s] = "running" THEN "stored" ELSE status[s])
        BY <4>1
      <4>4. status' = [status EXCEPT ![s] = IF status[s] = "running" THEN "stored"
                                            ELSE status[s]]
        BY <3>0, <4>3
      <4>5. Atomic!Put(s)
        BY <3>0, <3>1, <3>2, <3>3, <4>1, <4>2, <4>4 DEF Atomic!Put, Stored
      <4> QED BY <4>5 DEF Atomic!Next
    <3>4. CASE ~SrvRename(s)
      <4>1. \/ /\ Status(s) \in ClientEnds /\ Status(s)' = "running"
               /\ cl'[s].enc \in Modes
            \/ /\ cl'[s].enc = cl[s].enc
               /\ \/ Status(s)' = Status(s)
                  \/ Status(s) = "stored" /\ Status(s)' = "ok"
                  \/ Status(s) \in {"running", "stored"} /\ Status(s)' = "failed"
        <5>1. CASE ClStart(s) \/ ClientStep(s) \/ ClDie(s)
          BY <5>1, ClientStatus
        <5>2. CASE ServerStep(s) \/ ServerCrash
          BY <3>4, <5>2, ServerStatus
        <5> QED BY <2>2, <3>0, <5>1, <5>2
      <4>2. /\ mode' = [mode EXCEPT ![s] = cl'[s].enc]
            /\ status' = [status EXCEPT ![s] = Status(s)']
        BY <3>0
      <4>3. CASE /\ Status(s) \in ClientEnds /\ Status(s)' = "running"
                 /\ cl'[s].enc \in Modes
        <5>1. Atomic!Begin(s)
          BY <3>0, <3>1, <3>2, <3>4, <4>2, <4>3 DEF Atomic!Begin, Stored, ClientEnds
        <5> QED BY <5>1 DEF Atomic!Next
      <4>4. CASE cl'[s].enc = cl[s].enc /\ Status(s)' = Status(s)
        <5>1. mode' = mode /\ status' = status
          BY <3>0, <4>4
        <5> QED BY <3>1, <3>2, <3>4, <5>1 DEF Atomic!vars, Stored
      <4>5. CASE cl'[s].enc = cl[s].enc /\ Status(s) = "stored" /\ Status(s)' = "ok"
        <5>1. mode' = mode
          BY <3>0, <4>5
        <5>2. Atomic!Report(s)
          BY <3>0, <3>1, <3>2, <3>4, <4>2, <4>5, <5>1 DEF Atomic!Report, Stored
        <5> QED BY <5>2 DEF Atomic!Next
      <4>6. CASE /\ cl'[s].enc = cl[s].enc
                 /\ Status(s) \in {"running", "stored"} /\ Status(s)' = "failed"
        <5>1. mode' = mode
          BY <3>0, <4>6
        <5>2. Atomic!Abort(s)
          BY <3>0, <3>1, <3>2, <3>4, <4>2, <4>6, <5>1 DEF Atomic!Abort, Stored
        <5> QED BY <5>2 DEF Atomic!Next
      <4> QED BY <4>1, <4>3, <4>4, <4>5, <4>6
    <3> QED BY <3>3, <3>4
  <2>3. (\E s \in Sessions : TRUE) /\ ([Next]_vars => Next \/ UNCHANGED vars)
    BY DEF OneUser
  <2> QED BY <1>2, <2>1, <2>2, <2>3 DEF Next
<1>3. SoloInv /\ [Next]_vars => [Atomic!Next]_(Atomic!vars)
  BY <1>2
<1> QED BY <1>1, <1>3, SoloInvariance, PTL DEF Spec, LooksAtomic, Atomic!Spec
=============================================================================
