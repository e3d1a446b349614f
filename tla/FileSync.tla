------------------------------ MODULE FileSync ------------------------------
(***************************************************************************)
(* One file name synchronised by `r-delta sync` (handle_sync in the        *)
(* client, handle_file_sync and handle_encrypted_file_sync in the server). *)
(*                                                                         *)
(* A session is one client process with its QUIC connection and the        *)
(* server task that serves it.  All sessions sync the same name, so their  *)
(* server tasks share three directory entries: the file, `<name>.part` and *)
(* `<name>.tmp`.  The tasks run on a multi-threaded runtime: each file     *)
(* system call, or run of calls nothing else can tell apart, is a step.    *)
(*                                                                         *)
(* Contents are sequences of blocks (one block stands for one chunk).      *)
(* Entries name inodes and a task holds descriptors, since a rename leaves *)
(* the descriptor of another task on the inode it had opened.              *)
(***************************************************************************)
EXTENDS Naturals, Sequences

CONSTANTS
    Sessions,   \* client processes (a retry that overtakes the server task
                \* of the attempt before it is a session of its own)
    Modes,      \* the values the --encrypt flag of a run may have
    Inodes,     \* inodes of the server's file system
    Block,      \* the chunks contents are made of
    Hole,       \* what reading a gap left by a sparse write returns
    NoInode,    \* the entry, or the descriptor, does not exist
    Versions,   \* contents the user's file may have
    Bases,      \* what the server may hold at the start (NoInode: nothing)
    MaxFaults   \* the bound on faults and edits together

ASSUME ModesAssumption == Modes \subseteq BOOLEAN /\ Modes # {}
ASSUME InodesAssumption == Inodes # {} /\ NoInode \notin Inodes
ASSUME BoundAssumption == MaxFaults \in Nat
ASSUME ContentsAssumption ==
    /\ Versions \subseteq Seq(Block) /\ Versions # {}
    /\ Bases \subseteq Seq(Block) \cup {NoInode}

Names == {"file", "part", "tmp"}

(* The encrypted blob of c: opaque symbols, one longer than c (the nonce    *)
(* and the tag), different for every c.                                     *)
Blob(c) == [i \in 1..(Len(c) + 1) |-> <<c, i>>]

Symbol == Block \cup {Hole} \cup (Seq(Block) \X Nat)

VARIABLES
    local,   \* local[s]: the user's file on the machine of session s
    steady,  \* steady[s]: local[s] was not edited since s started (history)
    faults,  \* how many faults and edits there were (history, bounded)
    dir,     \* dir[n]: the inode the server's directory entry n names
    data,    \* data[i]: the content of inode i
    cl,      \* cl[s]: the client process of s
    net,     \* net[s]: what is in flight on the streams of s's connection
    sv       \* sv[s]: the server task of s

vars == <<local, steady, faults, dir, data, cl, net, sv>>
-----------------------------------------------------------------------------
(* Messages and streams.                                                    *)

ClientMessage ==
    [type : {"Handshake"}, size : Nat, encrypted : BOOLEAN]
      \cup [type : {"SendFullEncrypted"}, size : Nat]

ServerMessage ==
    [type : {"HandshakeAck"}, old : BOOLEAN, offset : Nat]
      \cup [type : {"Signatures"}, base : Seq(Symbol)]
      \cup [type : {"VerifyResult"}, sum : Seq(Symbol)]

(* What a unidirectional stream carries: raw symbols, or a patch.           *)
Item ==
    [op : {"StartPatch"}]
      \cup [op : {"Raw", "Literal"}, sym : Symbol]
      \cup [op : {"Copy"}, at : Nat \ {0}]

Raw(c) == [i \in DOMAIN c |-> [op |-> "Raw", sym |-> c[i]]]

(* The client's delta of c against the signatures of base: COPY a base      *)
(* chunk with the same content, else a LITERAL.                             *)
Delta(c, base) ==
    [i \in DOMAIN c |->
        IF \E j \in DOMAIN base : base[j] = c[i]
        THEN [op |-> "Copy", at |-> CHOOSE j \in DOMAIN base : base[j] = c[i]]
        ELSE [op |-> "Literal", sym |-> c[i]]]

NoTraffic == [req |-> <<>>, rsp |-> <<>>, uni |-> <<>>, fin |-> FALSE]

IdleClient ==
    [pc |-> "idle", enc |-> FALSE, skip |-> 0, pos |-> 0, sum |-> <<>>]

IdleServer ==
    [pc |-> "idle", size |-> 0, off |-> 0, got |-> 0, from |-> "part",
     out |-> NoInode, base |-> NoInode, append |-> FALSE, pos |-> 0,
     buf |-> <<>>]

ClientEnds == {"idle", "ok", "failed"}
ServerEnds == {"idle", "done", "failed"}
(* Where the server task awaits the connection, and so sees it go.          *)
ServerWaits == {"handshake", "encrypted", "encrecv", "open", "recv",
                "patchopen", "patch"}
ServerPcs ==
    ServerEnds \cup ServerWaits \cup {"sign", "encwrite", "rename", "verify"}
ClientPcs == ClientEnds \cup {"ack", "send", "sigs", "verify"}

ClientState ==
    [pc : ClientPcs, enc : BOOLEAN, skip : Nat, pos : Nat, sum : Seq(Symbol)]

Traffic ==
    [req : Seq(ClientMessage), rsp : Seq(ServerMessage), uni : Seq(Item),
     fin : BOOLEAN]

ServerState ==
    [pc : ServerPcs, size : Nat, off : Nat, got : Nat, from : {"part", "tmp"},
     out : Inodes \cup {NoInode}, base : Inodes \cup {NoInode},
     append : BOOLEAN, pos : Nat, buf : Seq(Symbol)]

TypeOK ==
    /\ local \in [Sessions -> Versions]
    /\ steady \in [Sessions -> BOOLEAN]
    /\ faults \in 0..MaxFaults
    /\ dir \in [Names -> Inodes \cup {NoInode}]
    /\ data \in [Inodes -> Seq(Symbol)]
    /\ cl \in [Sessions -> ClientState]
    /\ net \in [Sessions -> Traffic]
    /\ sv \in [Sessions -> ServerState]

(* The server starts without the file, or with an older version of it.      *)
Init ==
    /\ local \in [Sessions -> Versions]
    /\ steady = [s \in Sessions |-> TRUE]
    /\ faults = 0
    /\ cl = [s \in Sessions |-> IdleClient]
    /\ net = [s \in Sessions |-> NoTraffic]
    /\ sv = [s \in Sessions |-> IdleServer]
    /\ \E old \in Bases :
         LET i == CHOOSE j \in Inodes : TRUE IN
         /\ dir = [n \in Names |-> IF n = "file" /\ old # NoInode THEN i ELSE NoInode]
         /\ data = [j \in Inodes |-> IF j = i /\ old # NoInode THEN old ELSE <<>>]
-----------------------------------------------------------------------------
(* The server's file system.                                                *)

Exists(n) == dir[n] # NoInode
SizeOf(n) == IF Exists(n) THEN Len(data[dir[n]]) ELSE 0

Unused == {i \in Inodes :
             /\ \A n \in Names : dir[n] # i
             /\ \A s \in Sessions : sv[s].out # i /\ sv[s].base # i}

(* The contents d once the inodes are freed that the new state of the       *)
(* entries and of the descriptors does not refer to.                        *)
Kept(d) ==
    [i \in Inodes |->
        IF \/ \E n \in Names : dir'[n] = i
           \/ \E s \in Sessions : i \in {sv'[s].out, sv'[s].base}
        THEN d[i] ELSE <<>>]

(* The inode that opening n for writing yields: a free one if n is new.     *)
CanOpen(n) == Exists(n) \/ Unused # {}
Opened(n) == IF Exists(n) THEN dir[n] ELSE CHOOSE i \in Unused : TRUE

(* d after x was written at position p; a gap before p reads as holes.      *)
WriteAt(d, p, x) ==
    [i \in 1..(IF Len(d) > p + Len(x) THEN Len(d) ELSE p + Len(x)) |->
        IF i > p /\ i <= p + Len(x) THEN x[i - p]
        ELSE IF i <= Len(d) THEN d[i] ELSE Hole]

(* x written through the output descriptor of t: at the end of the inode    *)
(* when it was opened in append mode, else at the descriptor's position.    *)
Written(t, x) ==
    IF x = <<>> THEN data
    ELSE [data EXCEPT ![t.out] =
             IF t.append THEN @ \o x ELSE WriteAt(@, t.pos, x)]

(* Descriptors close: a BufWriter that is dropped flushes what it holds.    *)
Dropped(t) == IF t.out = NoInode THEN data ELSE Written(t, t.buf)
Ended(pc) == [IdleServer EXCEPT !.pc = pc]

(* x goes through the BufWriter of s: all of it may stay there, what the    *)
(* buffer held may be spilled to make room, or everything reaches the file. *)
Buffered(s, t, x) ==
    LET all == t.buf \o x IN
    \E k \in {0, Len(t.buf), Len(all)} :
        /\ data' = Written(t, SubSeq(all, 1, k))
        /\ sv' = [sv EXCEPT ![s] =
                    [t EXCEPT !.pos = @ + k, !.buf = SubSeq(all, k + 1, Len(all))]]

(* The task returns Err: its descriptors close, the connection is dropped.  *)
Fail(s) ==
    /\ UNCHANGED dir
    /\ sv' = [sv EXCEPT ![s] = Ended("failed")]
    /\ data' = Kept(Dropped(sv[s]))
-----------------------------------------------------------------------------
(* The client.                                                              *)

(* handle_sync up to the handshake; a user whose sync failed runs it again. *)
ClStart(s) ==
    /\ cl[s].pc \in ClientEnds
    /\ sv[s].pc \in ServerEnds
    /\ \E e \in Modes :
         /\ cl' = [cl EXCEPT ![s] = [IdleClient EXCEPT !.pc = "ack", !.enc = e]]
         /\ net' = [net EXCEPT ![s] =
                      [NoTraffic EXCEPT !.req =
                         <<[type |-> "Handshake", size |-> Len(local[s]),
                            encrypted |-> e]>>]]
    /\ sv' = [sv EXCEPT ![s] = Ended("handshake")]
    /\ steady' = [steady EXCEPT ![s] = TRUE]
    /\ UNCHANGED <<local, faults, dir, data>>

Replied(s, type) == net[s].rsp # <<>> /\ Head(net[s].rsp).type = type

(* Wrong versions of the next action: the upload seeks one block short of   *)
(* resume_offset, or ignores it.                                            *)
UploadFrom(s, p) ==
    /\ cl[s].pc = "ack" /\ Replied(s, "HandshakeAck") /\ ~cl[s].enc
    /\ cl' = [cl EXCEPT ![s] = IF Head(net[s].rsp).old THEN [@ EXCEPT !.pc = "sigs"]
                               ELSE [@ EXCEPT !.pc = "send", !.pos = p]]
    /\ net' = [net EXCEPT ![s].rsp = Tail(@)]
    /\ UNCHANGED <<local, steady, faults, dir, data, sv>>
ClUploadShort(s) == UploadFrom(s, Head(net[s].rsp).offset - 1)
ClUploadAll(s) == UploadFrom(s, 0)

(* A plain sync: a delta when the server has a file, else a full upload     *)
(* that seeks to resume_offset.                                             *)
ClUpload(s) ==
    /\ cl[s].pc = "ack" /\ Replied(s, "HandshakeAck") /\ ~cl[s].enc
    /\ LET ack == Head(net[s].rsp) IN
       cl' = [cl EXCEPT
                ![s] = IF ack.old THEN [@ EXCEPT !.pc = "sigs"]
                       ELSE [@ EXCEPT !.pc = "send", !.skip = ack.offset,
                                      !.pos = ack.offset]]
    /\ net' = [net EXCEPT ![s].rsp = Tail(@)]
    /\ UNCHANGED <<local, steady, faults, dir, data, sv>>

(* handle_full_upload reads the file from resume_offset while it streams.   *)
ClSend(s) ==
    /\ cl[s].pc = "send"
    /\ IF cl[s].pos < Len(local[s])
       THEN /\ net' = [net EXCEPT ![s].uni =
                         Append(@, [op |-> "Raw", sym |-> local[s][cl[s].pos + 1]])]
            /\ cl' = [cl EXCEPT ![s].pos = @ + 1]
       ELSE /\ net' = [net EXCEPT ![s].fin = TRUE]
            /\ cl' = [cl EXCEPT ![s].pc = "verify"]
    /\ UNCHANGED <<local, steady, faults, dir, data, sv>>

(* handle_differential_sync: signatures in, the patch of the file out.      *)
ClPatch(s) ==
    /\ cl[s].pc = "sigs" /\ Replied(s, "Signatures")
    /\ net' = [net EXCEPT ![s].rsp = Tail(@),
                          ![s].uni = <<[op |-> "StartPatch"]>>
                                       \o Delta(local[s], Head(net[s].rsp).base),
                          ![s].fin = TRUE]
    /\ cl' = [cl EXCEPT ![s].pc = "verify"]
    /\ UNCHANGED <<local, steady, faults, dir, data, sv>>

(* handle_encrypted_upload encrypts what lies beyond resume_offset and      *)
(* announces the size of that blob; the differential variant, taken when    *)
(* the server has a file, encrypts all of it.                               *)
ClEncrypt(s) ==
    /\ cl[s].pc = "ack" /\ Replied(s, "HandshakeAck") /\ cl[s].enc
    /\ LET ack == Head(net[s].rsp)
           skip == IF ack.old THEN 0 ELSE ack.offset
           blob == Blob(SubSeq(local[s], skip + 1, Len(local[s])))
       IN /\ net' = [net EXCEPT
                       ![s] = [req |-> <<[type |-> "SendFullEncrypted",
                                          size |-> Len(blob)]>>,
                               rsp |-> Tail(@.rsp), uni |-> Raw(blob), fin |-> TRUE]]
          /\ cl' = [cl EXCEPT ![s].pc = "verify", ![s].skip = skip]
    /\ UNCHANGED <<local, steady, faults, dir, data, sv>>

(* The client takes matches = true for success; it shows the checksum, and  *)
(* does not compare it with its own file.                                   *)
ClVerified(s) ==
    /\ cl[s].pc = "verify" /\ Replied(s, "VerifyResult")
    /\ cl' = [cl EXCEPT ![s].pc = "ok", ![s].pos = 0, ![s].sum = Head(net[s].rsp).sum]
    /\ net' = [net EXCEPT ![s] = NoTraffic]
    /\ UNCHANGED <<local, steady, faults, dir, data, sv>>

Trouble == faults < MaxFaults /\ faults' = faults + 1

Gone(s) == [IdleClient EXCEPT !.pc = "failed", !.enc = cl[s].enc]

(* The connection is gone because the server task ended without a result.   *)
ClLost(s) ==
    /\ cl[s].pc \notin ClientEnds /\ sv[s].pc = "failed"
    /\ cl' = [cl EXCEPT ![s] = Gone(s)]
    /\ net' = [net EXCEPT ![s] = NoTraffic]
    /\ UNCHANGED <<local, steady, faults, dir, data, sv>>

(* The client is killed, or loses its network.  The server task learns it   *)
(* when the idle timeout expires, and reads on what had arrived until then. *)
ClDie(s) ==
    /\ Trouble
    /\ cl[s].pc \notin ClientEnds
    /\ cl' = [cl EXCEPT ![s] = Gone(s)]
    /\ UNCHANGED <<local, steady, dir, data, net, sv>>

(* The user edits the file, in place.                                       *)
Edit(s) ==
    /\ Trouble
    /\ \E v \in Versions \ {local[s]} : local' = [local EXCEPT ![s] = v]
    /\ steady' = [steady EXCEPT ![s] = FALSE]
    /\ UNCHANGED <<dir, data, cl, net, sv>>
-----------------------------------------------------------------------------
(* The server task.                                                         *)

(* Wrong version of the next action: with a leftover `.part` the client is  *)
(* told to upload, while the server still prepares for a delta.             *)
SrvHandshakeResumes(s) ==
    /\ sv[s].pc = "handshake" /\ net[s].req # <<>>
    /\ LET h == Head(net[s].req) IN
       sv' = [sv EXCEPT
                ![s].pc = IF h.encrypted THEN "encrypted"
                          ELSE IF Exists("file") THEN "sign" ELSE "open",
                ![s].size = h.size, ![s].off = SizeOf("part")]
    /\ net' = [net EXCEPT
                 ![s].req = Tail(@),
                 ![s].rsp = Append(@, [type |-> "HandshakeAck",
                                       old |-> Exists("file") /\ SizeOf("part") = 0,
                                       offset |-> SizeOf("part")])]
    /\ UNCHANGED <<local, steady, faults, dir, data, cl>>

(* handle_file_sync looks at the file and at `.part`, and acknowledges.     *)
SrvHandshake(s) ==
    /\ sv[s].pc = "handshake" /\ net[s].req # <<>>
    /\ LET h == Head(net[s].req) IN
       sv' = [sv EXCEPT
                ![s].pc = IF h.encrypted THEN "encrypted"
                          ELSE IF Exists("file") THEN "sign" ELSE "open",
                ![s].size = h.size, ![s].off = SizeOf("part")]
    /\ net' = [net EXCEPT
                 ![s].req = Tail(@),
                 ![s].rsp = Append(@, [type |-> "HandshakeAck",
                                       old |-> Exists("file"),
                                       offset |-> SizeOf("part")])]
    /\ UNCHANGED <<local, steady, faults, dir, data, cl>>

(* `.part` is opened in append mode when resuming, else truncated.          *)
OpenPart(s) ==
    /\ CanOpen("part")
    /\ dir' = [dir EXCEPT !["part"] = Opened("part")]
    /\ data' = IF sv[s].off > 0 /\ Exists("part") THEN data
               ELSE [data EXCEPT ![Opened("part")] = <<>>]

(* Wrong versions of the next action: the resumed `.part` is not opened in  *)
(* append mode, or total_received does not start at the resume offset.      *)
OpenPartAs(s, append, got) ==
    /\ sv[s].pc = "open" /\ (net[s].uni # <<>> \/ net[s].fin)
    /\ OpenPart(s)
    /\ sv' = [sv EXCEPT ![s].pc = "recv", ![s].out = Opened("part"),
                        ![s].append = append, ![s].got = got]
    /\ UNCHANGED <<local, steady, faults, cl, net>>
SrvOpenPartNoAppend(s) == OpenPartAs(s, FALSE, sv[s].off)
SrvOpenPartFromZero(s) == OpenPartAs(s, sv[s].off > 0, 0)

(* Full upload: the stream is there.                                        *)
SrvOpenPart(s) ==
    /\ sv[s].pc = "open" /\ (net[s].uni # <<>> \/ net[s].fin)
    /\ OpenPart(s)
    /\ sv' = [sv EXCEPT ![s].pc = "recv", ![s].out = Opened("part"),
                        ![s].append = sv[s].off > 0, ![s].got = sv[s].off]
    /\ UNCHANGED <<local, steady, faults, cl, net>>

SrvRecv(s) ==
    /\ sv[s].pc = "recv" /\ net[s].uni # <<>>
    /\ Buffered(s, [sv[s] EXCEPT !.got = @ + 1], <<Head(net[s].uni).sym>>)
    /\ net' = [net EXCEPT ![s].uni = Tail(@)]
    /\ UNCHANGED <<local, steady, faults, dir, cl>>

(* Wrong version of the next action: the task waits for the missing bytes.  *)
SrvRecvEndWaits(s) ==
    /\ sv[s].pc = "recv" /\ net[s].uni = <<>> /\ net[s].fin
    /\ UNCHANGED <<local, steady, faults, dir, cl, net>>
    /\ IF sv[s].got = sv[s].size
       THEN /\ sv' = [sv EXCEPT ![s] = [Ended("rename") EXCEPT !.from = "part"]]
            /\ data' = Kept(Dropped(sv[s]))
       ELSE UNCHANGED <<sv, data>>

(* The end of the stream: flush, drop, and compare the count of bytes with  *)
(* the announced size; on a mismatch `.part` is kept.                       *)
SrvRecvEnd(s) ==
    /\ sv[s].pc = "recv" /\ net[s].uni = <<>> /\ net[s].fin
    /\ sv' = [sv EXCEPT ![s] = IF sv[s].got = sv[s].size
                               THEN [Ended("rename") EXCEPT !.from = "part"]
                               ELSE Ended("failed")]
    /\ UNCHANGED <<local, steady, faults, dir, cl, net>>
    /\ data' = Kept(Dropped(sv[s]))

(* Delta: signatures of the file as it is now.                              *)
SrvSign(s) ==
    /\ sv[s].pc = "sign"
    /\ IF Exists("file")
       THEN /\ net' = [net EXCEPT ![s].rsp =
                         Append(@, [type |-> "Signatures", base |-> data[dir["file"]]])]
            /\ sv' = [sv EXCEPT ![s].pc = "patchopen"]
            /\ UNCHANGED <<dir, data>>
       ELSE Fail(s) /\ UNCHANGED net
    /\ UNCHANGED <<local, steady, faults, cl>>

(* Wrong versions of the next action: a leftover `.tmp` is appended to, or  *)
(* the patch is written over the file itself.                               *)
PatchInto(s, n, append) ==
    /\ sv[s].pc = "patchopen" /\ net[s].uni # <<>>
    /\ IF Exists("file")
       THEN /\ CanOpen(n)
            /\ dir' = [dir EXCEPT ![n] = Opened(n)]
            /\ data' = IF append THEN data ELSE [data EXCEPT ![Opened(n)] = <<>>]
            /\ sv' = [sv EXCEPT ![s].pc = "patch", ![s].out = Opened(n),
                                ![s].append = append, ![s].base = dir["file"]]
            /\ net' = [net EXCEPT ![s].uni = Tail(@)]
       ELSE Fail(s) /\ UNCHANGED net
    /\ UNCHANGED <<local, steady, faults, cl>>
SrvPatchOpenAppend(s) == PatchInto(s, "tmp", TRUE)
SrvPatchOpenInPlace(s) == PatchInto(s, "file", FALSE)

(* apply_patch_from_stream opens the base again, by name, and `.tmp`.       *)
SrvPatchOpen(s) ==
    /\ sv[s].pc = "patchopen" /\ net[s].uni # <<>>
    /\ IF Exists("file") /\ Head(net[s].uni).op = "StartPatch"
       THEN /\ CanOpen("tmp")
            /\ dir' = [dir EXCEPT !["tmp"] = Opened("tmp")]
            /\ data' = [data EXCEPT ![Opened("tmp")] = <<>>]
            /\ sv' = [sv EXCEPT ![s].pc = "patch", ![s].out = Opened("tmp"),
                                ![s].base = dir["file"]]
            /\ net' = [net EXCEPT ![s].uni = Tail(@)]
       ELSE Fail(s) /\ UNCHANGED net
    /\ UNCHANGED <<local, steady, faults, cl>>

(* One instruction; a COPY outside the base is an error.                    *)
SrvPatch(s) ==
    /\ sv[s].pc = "patch" /\ net[s].uni # <<>>
    /\ LET i == Head(net[s].uni)  base == data[sv[s].base] IN
       \/ i.op = "Literal" /\ Buffered(s, sv[s], <<i.sym>>) /\ UNCHANGED dir
       \/ /\ i.op = "Copy" /\ i.at <= Len(base)
          /\ Buffered(s, sv[s], <<base[i.at]>>) /\ UNCHANGED dir
       \/ i.op = "Copy" /\ i.at > Len(base) /\ Fail(s)
    /\ net' = [net EXCEPT ![s].uni = Tail(@)]
    /\ UNCHANGED <<local, steady, faults, cl>>

SrvPatchEnd(s) ==
    /\ sv[s].pc = "patch" /\ net[s].uni = <<>> /\ net[s].fin
    /\ sv' = [sv EXCEPT ![s] = [Ended("rename") EXCEPT !.from = "tmp"]]
    /\ UNCHANGED <<local, steady, faults, dir, cl, net>>
    /\ data' = Kept(Dropped(sv[s]))

(* Encrypted: the size of `.part` is read again, the blob is collected in   *)
(* memory until the end of the stream.                                      *)
SrvEncrypted(s) ==
    /\ sv[s].pc = "encrypted" /\ net[s].req # <<>>
    /\ sv' = [sv EXCEPT ![s].pc = "encrecv", ![s].size = Head(net[s].req).size,
                        ![s].off = SizeOf("part")]
    /\ net' = [net EXCEPT ![s].req = Tail(@)]
    /\ UNCHANGED <<local, steady, faults, dir, data, cl>>

SrvEncRecvEnd(s) ==
    /\ sv[s].pc = "encrecv" /\ net[s].fin
    /\ IF sv[s].off + Len(net[s].uni) = sv[s].size
       THEN /\ OpenPart(s)
            /\ sv' = [sv EXCEPT
                        ![s].pc = "encwrite", ![s].out = Opened("part"),
                        ![s].append = sv[s].off > 0,
                        ![s].buf = [k \in DOMAIN net[s].uni |-> net[s].uni[k].sym]]
       ELSE Fail(s)
    /\ net' = [net EXCEPT ![s].uni = <<>>]
    /\ UNCHANGED <<local, steady, faults, cl>>

(* write_all of the blob, which a kill can cut short anywhere.              *)
SrvEncWrite(s) ==
    /\ sv[s].pc = "encwrite"
    /\ UNCHANGED <<local, steady, faults, dir, cl, net>>
    /\ \E k \in 1..Len(sv[s].buf) :
         /\ sv' = [sv EXCEPT
                     ![s] = IF k = Len(sv[s].buf)
                            THEN [Ended("rename") EXCEPT !.from = "part"]
                            ELSE [sv[s] EXCEPT !.pos = @ + k,
                                               !.buf = SubSeq(@, k + 1, Len(@))]]
         /\ data' = Kept(Written(sv[s], SubSeq(sv[s].buf, 1, k)))

(* Wrong versions of the next action: the old file is removed first, or the *)
(* new one is linked and its old name stays.                                *)
SrvRenameRemoves(s) ==
    /\ sv[s].pc = "rename"
    /\ dir' = IF Exists(sv[s].from)
              THEN [dir EXCEPT !["file"] = dir[sv[s].from], ![sv[s].from] = NoInode]
              ELSE [dir EXCEPT !["file"] = NoInode]
    /\ sv' = [sv EXCEPT ![s] = IF Exists(@.from) THEN [@ EXCEPT !.pc = "verify"]
                               ELSE Ended("failed")]
    /\ data' = Kept(data)
    /\ UNCHANGED <<local, steady, faults, cl, net>>
SrvRenameLinks(s) ==
    /\ sv[s].pc = "rename"
    /\ IF Exists(sv[s].from)
       THEN /\ dir' = [dir EXCEPT !["file"] = dir[sv[s].from]]
            /\ sv' = [sv EXCEPT ![s].pc = "verify"]
            /\ data' = Kept(data)
       ELSE Fail(s)
    /\ UNCHANGED <<local, steady, faults, cl, net>>

(* rename(2) replaces the file, in the same way after a patch, an upload and *)
(* an encrypted upload; it fails when its source is gone.                   *)
SrvRename(s) ==
    /\ sv[s].pc = "rename"
    /\ IF Exists(sv[s].from)
       THEN /\ dir' = [dir EXCEPT !["file"] = dir[sv[s].from], ![sv[s].from] = NoInode]
            /\ sv' = [sv EXCEPT ![s].pc = "verify"]
            /\ data' = Kept(data)
       ELSE Fail(s)
    /\ UNCHANGED <<local, steady, faults, cl, net>>

(* compute_file_checksum of the file, by name; the result is always true.   *)
SrvVerify(s) ==
    /\ sv[s].pc = "verify"
    /\ IF Exists("file")
       THEN /\ net' = [net EXCEPT ![s].rsp =
                         Append(@, [type |-> "VerifyResult", sum |-> data[dir["file"]]])]
            /\ sv' = [sv EXCEPT ![s] = Ended("done")]
            /\ UNCHANGED <<dir, data>>
       ELSE Fail(s) /\ UNCHANGED net
    /\ UNCHANGED <<local, steady, faults, cl>>

(* A read fails after the client has gone.                                  *)
SrvLost(s) ==
    /\ sv[s].pc \in ServerWaits /\ cl[s].pc = "failed"
    /\ Fail(s)
    /\ UNCHANGED <<local, steady, faults, cl, net>>

(* The server process is killed and started again: what its BufWriters held *)
(* is lost, what was written stays.                                         *)
ServerCrash ==
    /\ Trouble
    /\ \E s \in Sessions : sv[s].pc \notin ServerEnds
    /\ sv' = [s \in Sessions |-> IF sv[s].pc \in ServerEnds THEN sv[s]
                                 ELSE Ended("failed")]
    /\ UNCHANGED <<local, steady, dir, cl, net>>
    /\ data' = Kept(data)
-----------------------------------------------------------------------------
ClientStep(s) ==
    \/ ClUpload(s) \/ ClSend(s) \/ ClPatch(s) \/ ClEncrypt(s)
    \/ ClVerified(s) \/ ClLost(s)

ServerStep(s) ==
    \/ SrvHandshake(s) \/ SrvOpenPart(s) \/ SrvRecv(s) \/ SrvRecvEnd(s)
    \/ SrvSign(s) \/ SrvPatchOpen(s) \/ SrvPatch(s) \/ SrvPatchEnd(s)
    \/ SrvEncrypted(s) \/ SrvEncRecvEnd(s) \/ SrvEncWrite(s)
    \/ SrvRename(s) \/ SrvVerify(s) \/ SrvLost(s)

Next ==
    \/ \E s \in Sessions :
          ClStart(s) \/ ClientStep(s) \/ ServerStep(s) \/ ClDie(s) \/ Edit(s)
    \/ ServerCrash

Spec == Init /\ [][Next]_vars

(* The runtime polls every ready task and the user runs a failed sync       *)
(* again; nobody has to edit, to die or to crash.                           *)
FairSpec ==
    /\ Spec
    /\ \A s \in Sessions : /\ WF_vars(ClStart(s))
                           /\ WF_vars(ClientStep(s))
                           /\ WF_vars(ServerStep(s))
-----------------------------------------------------------------------------
(* Correctness.                                                             *)

(* What the server should hold after a sync of the content c by s.          *)
Image(s, c) == IF cl[s].enc THEN Blob(c) ELSE c

(* Safety: a client that reports success after its file stayed as it was    *)
(* has it on the server: the checksum the server computed (handle_file_sync,*)
(* VerifyResult) is the checksum of that file, or of its encrypted blob.    *)
SuccessIsFaithful ==
    \A s \in Sessions :
        cl[s].pc = "ok" /\ steady[s] => cl[s].sum = Image(s, local[s])

(* Safety: the same, for a run that resumed nothing (resume_offset 0): this *)
(* much survives edits between the runs and a changing --encrypt flag.      *)
FreshSuccessIsFaithful ==
    \A s \in Sessions :
        cl[s].pc = "ok" /\ steady[s] /\ cl[s].skip = 0
            => cl[s].sum = Image(s, local[s])

(* Safety: the stored file is a version of a client, its encrypted blob, or *)
(* what was there before; never a mixture (the commits are renames).        *)
StoredIsComplete ==
    Exists("file") =>
        data[dir["file"]] \in Versions \cup {Blob(v) : v \in Versions} \cup Bases

(* Safety: what a failed or interrupted plain upload leaves in `.part`, and *)
(* what its BufWriter still holds, is a prefix of the file: the next run    *)
(* may resume from its length (handle_file_sync, resume_offset).            *)
IsPrefixOf(x, c) == Len(x) <= Len(c) /\ \A i \in 1..Len(x) : x[i] = c[i]
PartIsPrefix ==
    Exists("part") =>
        \A s \in Sessions :
            /\ IsPrefixOf(data[dir["part"]], local[s])
            /\ sv[s].pc = "recv" /\ sv[s].out = dir["part"]
                  => IsPrefixOf(data[dir["part"]] \o sv[s].buf, local[s])

(* Safety: client and server take the same branch of the protocol: a task   *)
(* that reads file data never meets a patch instruction, and the reverse    *)
(* (handle_file_sync decides from has_old_file before the acknowledgement). *)
SameBranch(s) ==
    /\ sv[s].pc \in {"open", "recv", "encrypted", "encrecv"} =>
          \A i \in DOMAIN net[s].uni : net[s].uni[i].op = "Raw"
    /\ sv[s].pc \in {"sign", "patchopen"} =>
          \A i \in DOMAIN net[s].uni :
              net[s].uni[i].op \in IF i = 1 THEN {"StartPatch"}
                                   ELSE {"Copy", "Literal"}
    /\ sv[s].pc = "patch" =>
          \A i \in DOMAIN net[s].uni : net[s].uni[i].op \in {"Copy", "Literal"}

BranchesAgree == \A s \in Sessions : SameBranch(s)

(* Safety: no two entries share an inode, so that a task which opens `.part`*)
(* or `.tmp` for writing never opens the file itself (rename moves).        *)
NoAlias ==
    \A m, n \in Names : Exists(m) /\ dir[m] = dir[n] => m = n

(* Safety, per step: a file that was there keeps an entry, whatever fails   *)
(* (the rename of a complete `.part` or `.tmp` replaces it at once).        *)
FileStays == [][Exists("file") => dir'["file"] # NoInode]_vars

(* Refinement: whatever is interrupted, the sync of one file looks atomic:  *)
(* the stored file changes only by the rename of a complete upload, and     *)
(* success is reported only after that, in the same run.                    *)
Status(s) ==
    IF cl[s].pc \in ClientEnds THEN cl[s].pc
    ELSE IF sv[s].pc = "failed" THEN "failed"
    ELSE IF sv[s].pc \in {"verify", "done"} THEN "stored" ELSE "running"

Atomic == INSTANCE AtomicSync WITH
    mode   <- [s \in Sessions |-> cl[s].enc],
    status <- [s \in Sessions |-> Status(s)],
    stored <- IF Exists("file") THEN data[dir["file"]] ELSE NoInode

LooksAtomic == Atomic!Spec

(* Liveness: every run of the client ends, and so does every server task:   *)
(* none waits for a message the other side will not send.                   *)
EverySyncEnds == \A s \in Sessions : cl[s].pc = "ack" ~> cl[s].pc \in ClientEnds
EveryTaskEnds ==
    \A s \in Sessions : sv[s].pc = "handshake" ~> sv[s].pc \in ServerEnds

(* Liveness: faults and edits being finitely many, retrying gets the file   *)
(* through (README: interrupted uploads resume from the last checkpoint).   *)
RetriesSucceed == \A s \in Sessions : []<>(cl[s].pc = "ok")

(* Liveness: what can keep retries from success, edits, encryption and      *)
(* deletions included, is one of two things: a `.part` that is longer than  *)
(* the file, or any `.part` in encrypted runs, whose offsets do not fit (the *)
(* checks of total_received against the announced size).                    *)
StalePart(s) == SizeOf("part") > (IF cl[s].enc THEN 0 ELSE Len(local[s]))
OnlyStalePartsBlock ==
    \A s \in Sessions : []<>(cl[s].pc = "ok") \/ <>[]StalePart(s)
=============================================================================
