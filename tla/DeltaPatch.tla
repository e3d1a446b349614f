----------------------------- MODULE DeltaPatch -----------------------------
(***************************************************************************)
(* A delta is generated from a new file and the signatures of an old one   *)
(* (DeltaGenerator in delta.rs, generate_delta_instructions in the         *)
(* client), optimised if it goes to a patch file, and applied to the old   *)
(* file (PatchBuilder and StreamingPatchBuilder in patch.rs).              *)
(*                                                                         *)
(* Equal strong hashes stand for equal bytes.  How the new file is cut     *)
(* into chunks is left open: a chunk is any next piece of it.  Literals    *)
(* that shrink are sent compressed, and decode to the same bytes.          *)
(***************************************************************************)
EXTENDS Naturals, Sequences

CONSTANTS
    Byte,
    Olds,        \* the old files: their bytes and the lengths of their chunks
    News,        \* the new files
    MaxChunk,    \* max_size of the chunker
    MaxLiteral,  \* MAX_LITERAL_BUFFER
    MinMerge     \* MIN_MERGE_THRESHOLD

OldFile == [bytes : Seq(Byte), chunks : SUBSET (Nat \X (Nat \ {0}))]

ASSUME FilesAssumption ==
    /\ Olds \subseteq OldFile
    /\ \A o \in Olds : \A c \in o.chunks : c[1] + c[2] <= Len(o.bytes)
    /\ News \subseteq Seq(Byte)
ASSUME SizesAssumption ==
    /\ MaxChunk \in Nat \ {0} /\ MaxLiteral \in Nat \ {0}
    /\ MinMerge \in Nat \ {0, 1}

VARIABLES
    old,      \* the old file: its bytes, its chunks as <<offset, length>>
    new,      \* the new file
    pos,      \* how many bytes of it were scanned
    literal,  \* literal_buffer
    instrs,   \* the instructions
    i,        \* how many of them the optimizer has dealt with
    merged,   \* optimized
    patch,    \* what is applied
    at,       \* how many instructions of it were applied
    out,      \* the output file
    pc        \* "scan", "optimize", "apply", then "done" or "failed"

vars == <<old, new, pos, literal, instrs, i, merged, patch, at, out, pc>>

Instruction ==
    [op : {"Copy"}, offset : Nat, length : Nat]
      \cup [op : {"Literal"}, data : Seq(Byte)]

Copy(offset, length) == [op |-> "Copy", offset |-> offset, length |-> length]
Literal(data) == [op |-> "Literal", data |-> data]

TypeOK ==
    /\ old \in OldFile /\ new \in Seq(Byte)
    /\ pos \in 0..Len(new)
    /\ literal \in Seq(Byte)
    /\ instrs \in Seq(Instruction) /\ merged \in Seq(Instruction)
    /\ patch \in Seq(Instruction)
    /\ i \in 0..Len(instrs) /\ at \in 0..Len(patch)
    /\ out \in Seq(Byte)
    /\ pc \in {"scan", "optimize", "apply", "done", "failed"}

Init ==
    /\ old \in Olds /\ new \in News
    /\ pos = 0 /\ literal = <<>> /\ instrs = <<>>
    /\ i = 0 /\ merged = <<>>
    /\ patch = <<>> /\ at = 0 /\ out = <<>>
    /\ pc = "scan"
-----------------------------------------------------------------------------
(* The generator.                                                           *)

Slice(offset, length) == SubSeq(old.bytes, offset + 1, offset + length)

(* find_match: the first chunk of the old file with the bytes x.            *)
Matches(x) == {c \in old.chunks : Slice(c[1], c[2]) = x}
FirstMatch(x) == CHOOSE c \in Matches(x) : \A d \in Matches(x) : c[1] <= d[1]

(* flush_literal_buffer.                                                    *)
Flushed == IF literal = <<>> THEN instrs ELSE Append(instrs, Literal(literal))

Piece(n) == SubSeq(new, pos + 1, pos + n)

(* Wrong versions of the next action: the literals before a match are not   *)
(* flushed first, or never when the buffer is full.                         *)
ScanUnordered ==
    /\ pc = "scan"
    /\ \E n \in 1..MaxChunk :
         /\ pos + n <= Len(new)
         /\ pos' = pos + n
         /\ LET c == FirstMatch(Piece(n))  all == literal \o Piece(n) IN
            IF Matches(Piece(n)) # {}
            THEN instrs' = Append(instrs, Copy(c[1], c[2])) /\ UNCHANGED literal
            ELSE IF Len(all) >= MaxLiteral
            THEN instrs' = Append(instrs, Literal(all)) /\ literal' = <<>>
            ELSE literal' = all /\ UNCHANGED instrs
    /\ UNCHANGED <<old, new, i, merged, patch, at, out, pc>>
ScanUnbounded ==
    /\ pc = "scan"
    /\ \E n \in 1..MaxChunk :
         /\ pos + n <= Len(new)
         /\ pos' = pos + n
         /\ LET c == FirstMatch(Piece(n)) IN
            IF Matches(Piece(n)) # {}
            THEN instrs' = Append(Flushed, Copy(c[1], c[2])) /\ literal' = <<>>
            ELSE literal' = literal \o Piece(n) /\ UNCHANGED instrs
    /\ UNCHANGED <<old, new, i, merged, patch, at, out, pc>>

(* The next chunk: COPY when the old file has it, after the literals before *)
(* it, else one more piece of literals, which are flushed when many.        *)
Scan ==
    /\ pc = "scan"
    /\ \E n \in 1..MaxChunk :
         /\ pos + n <= Len(new)
         /\ pos' = pos + n
         /\ LET c == FirstMatch(Piece(n))  all == literal \o Piece(n) IN
            IF Matches(Piece(n)) # {}
            THEN instrs' = Append(Flushed, Copy(c[1], c[2])) /\ literal' = <<>>
            ELSE IF Len(all) >= MaxLiteral
            THEN instrs' = Append(instrs, Literal(all)) /\ literal' = <<>>
            ELSE literal' = all /\ UNCHANGED instrs
    /\ UNCHANGED <<old, new, i, merged, patch, at, out, pc>>

(* No more chunks: a patch for the network is applied as it is, one for a   *)
(* file is optimised.                                                       *)
ScanEnd ==
    /\ pc = "scan" /\ pos = Len(new)
    /\ instrs' = Flushed /\ literal' = <<>>
    /\ \/ pc' = "apply" /\ patch' = Flushed
       \/ pc' = "optimize" /\ UNCHANGED patch
    /\ UNCHANGED <<old, new, pos, i, merged, at, out>>
-----------------------------------------------------------------------------
(* The optimizer.                                                           *)

IsCopy(k) == k \in DOMAIN instrs /\ instrs[k].op = "Copy"
Continues(k) ==
    IsCopy(k - 1) /\ IsCopy(k)
      /\ instrs[k].offset = instrs[k - 1].offset + instrs[k - 1].length

(* consecutive_copies from k on: the last instruction of the longest run in *)
(* which each copy starts where the one before it ends.                     *)
RunEnd(k) ==
    CHOOSE e \in k..Len(instrs) :
        /\ \A m \in (k + 1)..e : Continues(m)
        /\ ~Continues(e + 1)

(* Their total length: the copies are consecutive in the old file.          *)
RunLengthEven(k, e) == (e + 1 - k) * instrs[k].length
RunLength(k, e) == instrs[e].offset + instrs[e].length - instrs[k].offset

(* A wrong end of a merge: one instruction too many is passed over.         *)
OptimizePast ==
    /\ pc = "optimize" /\ i < Len(instrs)
    /\ LET k == i + 1  e == RunEnd(k) IN
       IF IsCopy(k) /\ e - i >= MinMerge
       THEN /\ merged' = Append(merged, Copy(instrs[k].offset, RunLength(k, e)))
            /\ i' = e + 1
       ELSE merged' = Append(merged, instrs[k]) /\ i' = k
    /\ UNCHANGED <<old, new, pos, literal, instrs, patch, at, out, pc>>

(* optimize_instructions: a run of MinMerge copies or more becomes one.     *)
Optimize ==
    /\ pc = "optimize" /\ i < Len(instrs)
    /\ LET k == i + 1  e == RunEnd(k) IN
       IF IsCopy(k) /\ e - i >= MinMerge
       THEN /\ merged' = Append(merged, Copy(instrs[k].offset, RunLength(k, e)))
            /\ i' = e
       ELSE merged' = Append(merged, instrs[k]) /\ i' = k
    /\ UNCHANGED <<old, new, pos, literal, instrs, patch, at, out, pc>>

(* The patch file is written, and read again.                               *)
OptimizeEnd ==
    /\ pc = "optimize" /\ i = Len(instrs)
    /\ patch' = merged /\ pc' = "apply"
    /\ UNCHANGED <<old, new, pos, literal, instrs, i, merged, at, out>>
-----------------------------------------------------------------------------
(* The applier.                                                             *)

(* What an instruction writes.                                              *)
Effect(x) == IF x.op = "Copy" THEN Slice(x.offset, x.length) ELSE x.data

(* apply_instruction; a copy that reaches beyond the old file is an error.  *)
Apply ==
    /\ pc = "apply" /\ at < Len(patch)
    /\ LET x == patch[at + 1] IN
       IF x.op = "Copy" /\ (x.offset >= Len(old.bytes)
                              \/ x.offset + x.length > Len(old.bytes))
       THEN pc' = "failed" /\ UNCHANGED <<at, out>>
       ELSE at' = at + 1 /\ out' = out \o Effect(x) /\ UNCHANGED pc
    /\ UNCHANGED <<old, new, pos, literal, instrs, i, merged, patch>>

ApplyEnd ==
    /\ pc = "apply" /\ at = Len(patch)
    /\ pc' = "done"
    /\ UNCHANGED <<old, new, pos, literal, instrs, i, merged, patch, at, out>>

Next == Scan \/ ScanEnd \/ Optimize \/ OptimizeEnd \/ Apply \/ ApplyEnd

Spec == Init /\ [][Next]_vars
-----------------------------------------------------------------------------
(* Safety: Original == Recreated: however the new file is chunked, whatever *)
(* the old file repeats, and with or without optimizer, applying the patch  *)
(* of the new file to the old one yields the new one (apply_patch after     *)
(* generate_delta).                                                         *)
Recreated == pc = "done" => out = new

(* Safety: at every moment what was applied is a prefix of the new file and *)
(* no instruction fails: no part of it is written twice or out of order.    *)
PrefixApplied ==
    pc # "failed" /\ Len(out) <= Len(new) /\ out = SubSeq(new, 1, Len(out))

(* Safety: literals are bounded by the buffer limit and one chunk, in the   *)
(* buffer and in the instructions (flush_literal_buffer, 8 MB).             *)
LiteralsBounded ==
    /\ Len(literal) < MaxLiteral
    /\ \A k \in DOMAIN instrs :
          instrs[k].op = "Literal" => Len(instrs[k].data) < MaxLiteral + MaxChunk

=============================================================================
