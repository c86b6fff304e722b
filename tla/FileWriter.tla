----------------------------- MODULE FileWriter -----------------------------
(***************************************************************************)
(* smallkv::FileWriter: a buffer of BUFFER_SIZE bytes in front of a file   *)
(* opened for appending.  append copies in rounds and writes the buffer    *)
(* out whenever it is full; a step is what happens between two calls of    *)
(* write.                                                                  *)
(*                                                                         *)
(* The kernel has the bytes in file; the first synced of them survive the  *)
(* loss of power.  A crash keeps some of the others, in order, and a write *)
(* that was under way may have got through in part.  fsync may fail, which *)
(* nobody looks at.                                                        *)
(***************************************************************************)
EXTENDS Integers, Sequences

CONSTANTS
    Bytes,          \* what a byte may be
    BUFFER_SIZE     \* FileWriter::BUFFER_SIZE

ASSUME BufferAssumption == BUFFER_SIZE \in Nat \ {0}

VARIABLES
    file,       \* the bytes the kernel has
    synced,     \* how many of them are on disk
    buffer,     \* the first buffer_offset bytes of buffer
    rest,       \* the data append has not copied yet
    flush,      \* append's argument
    step,       \* "ready": no call runs; else the next step of append
    handed      \* history: the file when it was opened and all bytes appended since

fileVars == <<file, synced, buffer, rest, flush, step, handed>>

FileInit ==
    /\ file = <<>>
    /\ synced = 0
    /\ buffer = <<>>
    /\ rest = <<>>
    /\ flush = FALSE
    /\ step = "ready"
    /\ handed = <<>>

MinOf(a, b) == IF a < b THEN a ELSE b

\* The first n elements of s, and the others.
Take(s, n) == SubSeq(s, 1, n)
Drop(s, n) == SubSeq(s, n + 1, Len(s))

\* append returns at once when there is nothing to append, whatever flush
\* says.  Data that does not leave room in the buffer fills it up.
AppendData(data, f) ==
    /\ step = "ready"
    /\ handed' = handed \o data
    /\ IF data = <<>> THEN UNCHANGED <<buffer, rest, flush, step>>
       ELSE LET room == BUFFER_SIZE - Len(buffer) IN
            /\ flush' = f
            /\ IF Len(data) < room
               THEN /\ buffer' = buffer \o data
                    /\ rest' = <<>>
                    /\ step' = "tail"
               ELSE /\ buffer' = buffer \o Take(data, room)
                    /\ rest' = Drop(data, room)
                    /\ step' = "persist"
    /\ UNCHANGED <<file, synced>>

\* Mutant: buffer_offset is not reset by the write.
Persist_KeepsOffset ==
    /\ step = "persist"
    /\ file' = file \o buffer
    /\ step' = IF rest = <<>> THEN "tail" ELSE "copy"
    /\ UNCHANGED <<synced, buffer, rest, flush, handed>>

\* buf_persist of the full buffer.
Persist ==
    /\ step = "persist"
    /\ file' = file \o buffer
    /\ buffer' = <<>>
    /\ step' = IF rest = <<>> THEN "tail" ELSE "copy"
    /\ UNCHANGED <<synced, rest, flush, handed>>

\* A round of the while loop: as much as there is room for.  When data is
\* left the buffer is full, and the next round begins by writing it.
Copy ==
    /\ step = "copy"
    /\ LET n == MinOf(Len(rest), BUFFER_SIZE - Len(buffer)) IN
       /\ buffer' = buffer \o Take(rest, n)
       /\ rest' = Drop(rest, n)
       /\ step' = IF n = Len(rest) THEN "tail" ELSE "persist"
    /\ UNCHANGED <<file, synced, flush, handed>>

\* The end of append.
AppendEnd ==
    /\ step = "tail"
    /\ file' = IF flush THEN file \o buffer ELSE file
    /\ buffer' = IF flush THEN <<>> ELSE buffer
    /\ step' = "ready"
    /\ UNCHANGED <<synced, rest, flush, handed>>

\* flush.
Flush ==
    /\ step = "ready"
    /\ file' = file \o buffer
    /\ buffer' = <<>>
    /\ UNCHANGED <<synced, rest, flush, step, handed>>

\* Mutant: fsync without the flush before it.
Sync_NoFlush ==
    /\ step = "ready"
    /\ synced' = Len(file)
    /\ UNCHANGED <<file, buffer, rest, flush, step, handed>>

\* sync: flush, then fsync, which may fail; its result is ignored.
Sync ==
    /\ step = "ready"
    /\ file' = file \o buffer
    /\ buffer' = <<>>
    /\ synced' \in {synced, Len(file')}
    /\ UNCHANGED <<rest, flush, step, handed>>

\* Steps of an append that has begun.
AppendStep == Persist \/ Copy \/ AppendEnd

\* Mutant: a new file instead of the old one.
Crash_Truncates ==
    /\ file' = <<>>
    /\ buffer' = <<>>
    /\ rest' = <<>>
    /\ flush' = FALSE
    /\ step' = "ready"
    /\ handed' = file'
    /\ UNCHANGED synced

\* The process dies, or the machine does, and the file is opened again.
\* What was synced stays; of the rest, and of the buffer if it was being
\* written, some first part does.
Crash ==
    /\ \E n \in synced .. Len(file) + Len(buffer) :
          /\ n > Len(file) => step \in {"ready", "persist"} \/ (step = "tail" /\ flush)
          /\ file' = Take(file \o buffer, n)
          /\ synced' = n
    /\ buffer' = <<>>
    /\ rest' = <<>>
    /\ flush' = FALSE
    /\ step' = "ready"
    /\ handed' = file'

FileNext ==
    \/ \E data \in Seq(Bytes), f \in BOOLEAN : AppendData(data, f)
    \/ AppendStep
    \/ Flush
    \/ Sync
    \/ Crash

FileSpec == FileInit /\ [][FileNext]_fileVars

(***************************************************************************)
(* Properties.                                                             *)
(***************************************************************************)
FileTypeOK ==
    /\ file \in Seq(Bytes)
    /\ synced \in 0 .. Len(file)
    /\ buffer \in Seq(Bytes)
    /\ rest \in Seq(Bytes)
    /\ flush \in BOOLEAN
    /\ step \in {"ready", "persist", "copy", "tail"}
    /\ handed \in Seq(Bytes)

\* No byte is lost, doubled or moved on its way through the buffer, for any
\* lengths and also between two writes of one append: the file, the buffer
\* and what append has still to copy are what was handed to it, in order.
\* The buffer never overflows, and is full when append writes it out.
NothingLost ==
    /\ file \o buffer \o rest = handed
    /\ Len(buffer) <= BUFFER_SIZE
    /\ step = "persist" => Len(buffer) = BUFFER_SIZE
    /\ step \in {"ready", "tail"} => rest = <<>>
=============================================================================
