------------------------------ MODULE Chunker -------------------------------
(***************************************************************************)
(* The content-defined chunker (chunker.rs): next_chunk fills its buffer   *)
(* with reads of any length and cuts chunks off its front.                 *)
(*                                                                         *)
(* A file is its size and the places where the masked gear hash is zero.   *)
(* The hash starts afresh in every chunk and reads bytes of that chunk     *)
(* only, so a place is a pair <<start of the chunk, end of the chunk>>.    *)
(***************************************************************************)
EXTENDS Naturals, Sequences

CONSTANTS
    Files,     \* the files: their sizes and the places of zero hashes
    MinSize,   \* min_size: the search for a cut starts here
    MaxSize,   \* max_size: a chunk is never longer
    ReadSize   \* the length of the temporary buffer of fill_buffer

File == [size : Nat, zeros : SUBSET (Nat \X Nat)]

ASSUME FilesAssumption == Files \subseteq File
ASSUME SizesAssumption ==
    /\ MinSize \in Nat /\ MaxSize \in Nat /\ MinSize < MaxSize
    /\ ReadSize \in Nat \ {0}

VARIABLES
    file,     \* what is read
    start,    \* current_offset: the buffer holds the bytes start..fetched - 1
    fetched,  \* how many bytes the reader has returned
    eof,      \* the reader has returned 0
    chunks,   \* the chunks returned so far
    pc        \* "next" inside the iteration, "done" or "failed" after it

vars == <<file, start, fetched, eof, chunks, pc>>

Init ==
    /\ file \in Files
    /\ start = 0 /\ fetched = 0
    /\ eof = FALSE
    /\ chunks = <<>>
    /\ pc = "next"
-----------------------------------------------------------------------------
Available == fetched - start

(* How much of what is available next_chunk looks at.                       *)
Limit(available) == IF available < MaxSize THEN available ELSE MaxSize

(* The wrong start of the search: min_size is ignored.                      *)
CutsEarly(f, s, available) ==
    {n \in 1..Limit(available) : <<s, s + n>> \in f.zeros}

(* The lengths a chunk of f that starts at s may be cut to.                 *)
Cuts(f, s, available) ==
    {n \in (MinSize + 1)..Limit(available) : <<s, s + n>> \in f.zeros}

(* The chunk of f at s has length n: the first cut, else all there is.      *)
IsChunk(f, s, available, n) ==
    LET cuts == Cuts(f, s, available) IN
    \/ n \in cuts /\ \A m \in cuts : n <= m
    \/ cuts = {} /\ n = Limit(available)

(* The wrong condition of the loop: fill_buffer until a cut may be made.    *)
NeedsMin == Available < MinSize /\ ~eof
NeedsMore == Available < MaxSize /\ ~eof

(* The wrong end: a read of 0 bytes is not remembered.                      *)
FillOn ==
    /\ pc = "next" /\ NeedsMore
    /\ IF fetched = file.size
       THEN UNCHANGED fetched
       ELSE \E n \in 1..ReadSize :
                fetched + n <= file.size /\ fetched' = fetched + n
    /\ UNCHANGED <<file, start, eof, chunks, pc>>

(* fill_buffer: a read returns as many bytes as it likes, and 0 at the end. *)
Fill ==
    /\ pc = "next" /\ NeedsMore
    /\ IF fetched = file.size
       THEN eof' = TRUE /\ UNCHANGED fetched
       ELSE /\ \E n \in 1..ReadSize :
                 fetched + n <= file.size /\ fetched' = fetched + n
            /\ UNCHANGED eof
    /\ UNCHANGED <<file, start, chunks, pc>>

(* A read fails, and next_chunk with it; every caller gives up.             *)
ReadFails ==
    /\ pc = "next" /\ NeedsMore
    /\ pc' = "failed"
    /\ UNCHANGED <<file, start, fetched, eof, chunks>>

(* The wrong offset: current_offset taken for the end of the chunk.         *)
CutBack ==
    /\ pc = "next" /\ ~NeedsMore /\ Available > 0
    /\ \E n \in 1..Available :
         /\ IsChunk(file, start, Available, n)
         /\ chunks' = Append(chunks, [offset |-> start - n, length |-> n])
         /\ start' = start + n
    /\ UNCHANGED <<file, fetched, eof, pc>>

(* The chunk is drained from the front of the buffer.                       *)
Cut ==
    /\ pc = "next" /\ ~NeedsMore /\ Available > 0
    /\ \E n \in 1..Available :
         /\ IsChunk(file, start, Available, n)
         /\ chunks' = Append(chunks, [offset |-> start, length |-> n])
         /\ start' = start + n
    /\ UNCHANGED <<file, fetched, eof, pc>>

(* None: nothing is left.                                                   *)
Finish ==
    /\ pc = "next" /\ ~NeedsMore /\ Available = 0
    /\ pc' = "done"
    /\ UNCHANGED <<file, start, fetched, eof, chunks>>

Next == Fill \/ ReadFails \/ Cut \/ Finish

Spec == Init /\ [][Next]_vars

(* The caller keeps asking; reads that fail are not forced.                 *)
FairSpec == Spec /\ WF_vars(Fill) /\ WF_vars(Cut) /\ WF_vars(Finish)
-----------------------------------------------------------------------------
Chunk == [offset : Nat, length : Nat \ {0}]

TypeOK ==
    /\ file \in File
    /\ start \in Nat /\ fetched \in Nat
    /\ eof \in BOOLEAN
    /\ chunks \in Seq(Chunk)
    /\ pc \in {"next", "done", "failed"}

End(c) == c.offset + c.length

(* Safety: the chunks tile what was read: each starts where the one before  *)
(* it ended, the first at 0, and the iteration ends at the end of the file. *)
Tiles ==
    /\ \A i \in DOMAIN chunks :
          chunks[i].offset = IF i = 1 THEN 0 ELSE End(chunks[i - 1])
    /\ start = IF chunks = <<>> THEN 0 ELSE End(chunks[Len(chunks)])
    /\ pc = "done" => start = file.size

(* Safety: where a chunk ends depends on the file alone, and never on how   *)
(* the reads split it; client and server would else never find a common     *)
(* chunk (next_chunk fills the buffer up to max_size before it searches).   *)
ContentDefined ==
    \A i \in DOMAIN chunks :
        LET c == chunks[i] IN
        IsChunk(file, c.offset, file.size - c.offset, c.length)

(* Safety: no chunk is longer than max_size, and all but the last of the    *)
(* file are longer than min_size.                                           *)
SizesInBounds ==
    \A i \in DOMAIN chunks :
        /\ chunks[i].length <= MaxSize
        /\ End(chunks[i]) < file.size => chunks[i].length > MinSize

(* Liveness: the iteration ends: every chunk takes bytes off the buffer.    *)
Ends == <>(pc # "next")
=============================================================================
