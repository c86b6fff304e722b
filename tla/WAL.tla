--------------------------------- MODULE WAL ---------------------------------
(***************************************************************************)
(* WALWriter::AddLog over a FileWriter, and WALReader::ReadLog over the    *)
(* file it writes, with crashes anywhere and a restart that appends to the *)
(* file it finds.                                                          *)
(*                                                                         *)
(* A byte is known by the record it belongs to and its position in it, so  *)
(* a header tells the length, and a checksum fits exactly the payload it   *)
(* was computed from: collisions of CRC-32C are left out.                  *)
(***************************************************************************)
EXTENDS FileWriter, SequencesExt

CONSTANTS
    kHeaderSize,    \* WALConfig::kHeaderSize
    Lens,           \* lengths of payloads
    OffsetLimit,    \* 2^31: FileReader::read takes an int32_t for its offset
    MaxLogs,        \* bound: records added
    MaxCrashes      \* bound: crashes

ASSUME WALAssumption ==
    /\ OffsetLimit \in Nat
    /\ kHeaderSize \in 1 .. OffsetLimit
    /\ Lens \subseteq 0 .. OffsetLimit - 1
    /\ MaxLogs \in Nat
    /\ MaxCrashes \in Nat

VARIABLES
    pc,         \* where AddLog is: "idle", "payload" or "sync"
    rec,        \* the record AddLog works on, or the last one
    acked,      \* history: the records whose AddLog has returned and whose fsync did not fail
    torn,       \* history: a crash has left part of a record in the file
    sound,      \* history: the records acked before that
    offset_,    \* WALReader::offset_
    want,       \* the header ReadLog has read, or NoRecord
    got,        \* the records ReadLog has returned
    status,     \* what ReadLog returned last
    crashes

writerVars == <<pc, rec, acked, torn, sound>>
readerVars == <<offset_, want, got, status>>
vars == <<fileVars, writerVars, readerVars, crashes>>

Records == [id : 1 .. MaxLogs, len : Lens]
NoRecord == [id |-> 0, len |-> 0]

Cells(r, first, last) ==
    [p \in 1 .. last - first + 1 |-> [id |-> r.id, len |-> r.len, pos |-> first + p - 1]]
Header(r) == Cells(r, 1, kHeaderSize)
Payload(r) == Cells(r, kHeaderSize + 1, kHeaderSize + r.len)

ASSUME BytesAssumption ==
    \A r \in Records : Header(r) \in Seq(Bytes) /\ Payload(r) \in Seq(Bytes)

NewReader ==
    /\ offset_' = 0
    /\ want' = NoRecord
    /\ got' = <<>>
    /\ status' = "Success"

Init ==
    /\ FileInit
    /\ pc = "idle"
    /\ rec = NoRecord
    /\ acked = <<>>
    /\ torn = FALSE
    /\ sound = <<>>
    /\ offset_ = 0
    /\ want = NoRecord
    /\ got = <<>>
    /\ status = "Success"
    /\ crashes = 0

(***************************************************************************)
(* AddLog: append the header, append and flush the payload, sync.          *)
(***************************************************************************)
AddHeader(len) ==
    /\ pc = "idle"
    /\ rec.id < MaxLogs
    /\ rec' = [id |-> rec.id + 1, len |-> len]
    /\ AppendData(Header(rec'), FALSE)
    /\ pc' = "payload"
    /\ UNCHANGED <<acked, torn, sound, readerVars, crashes>>

AddPayload ==
    /\ pc = "payload"
    /\ AppendData(Payload(rec), TRUE)
    /\ pc' = "sync"
    /\ UNCHANGED <<rec, acked, torn, sound, readerVars, crashes>>

\* AddLog returns the same whether fsync has failed or not.
SyncLog ==
    /\ pc = "sync"
    /\ Sync
    /\ acked' = IF synced' = Len(file') THEN Append(acked, rec) ELSE acked
    /\ sound' = IF torn THEN sound ELSE acked'
    /\ pc' = "idle"
    /\ UNCHANGED <<rec, torn, readerVars, crashes>>

Writing == AppendStep /\ UNCHANGED <<writerVars, readerVars, crashes>>

\* Does f end inside a record?
EndsTorn(f) == f # <<>> /\ Last(f).pos # kHeaderSize + Last(f).len

\* Writer and reader go down and start again.
Restart ==
    /\ crashes < MaxCrashes
    /\ crashes' = crashes + 1
    /\ Crash
    /\ pc' = "idle"
    /\ torn' = (torn \/ EndsTorn(file'))
    /\ NewReader
    /\ UNCHANGED <<rec, acked, sound>>

(***************************************************************************)
(* ReadLog, from the start of the file, while AddLog may be running.  A    *)
(* caller stops at the first Corruption.                                   *)
(***************************************************************************)
Reading == want = NoRecord /\ status # "Corruption"

\* FileReader::read fails unless pread gives all count bytes.  The offset
\* of a record that begins below OffsetLimit is below twice that much, so
\* as an int32_t it is itself or negative, which pread refuses.
ReadFails(count) == offset_ >= OffsetLimit \/ Len(file) < offset_ + count

\* Not even a header can be read: taken for the end of the file.
ReadEnd ==
    /\ Reading
    /\ ReadFails(kHeaderSize)
    /\ status' = "ExecFailed"
    /\ UNCHANGED <<fileVars, writerVars, offset_, want, got, crashes>>

\* Bytes that are not one header give some length and checksum; the read
\* of that many bytes, or the check of them, fails.
ReadHeader ==
    /\ Reading
    /\ ~ReadFails(kHeaderSize)
    /\ LET hdr == SubSeq(file, offset_ + 1, offset_ + kHeaderSize)
           r == [id |-> hdr[1].id, len |-> hdr[1].len]
       IN  IF hdr = Header(r)
           THEN want' = r /\ UNCHANGED status
           ELSE status' = "Corruption" /\ UNCHANGED want
    /\ offset_' = offset_ + kHeaderSize
    /\ UNCHANGED <<fileVars, writerVars, got, crashes>>

\* Mutant: offset_ stays before the payload.
ReadPayload_SameOffset ==
    /\ want # NoRecord
    /\ IF SubSeq(file, offset_ + 1, MinOf(Len(file), offset_ + want.len)) = Payload(want)
       THEN got' = Append(got, want) /\ status' = "Success"
       ELSE status' = "Corruption" /\ UNCHANGED got
    /\ want' = NoRecord
    /\ UNCHANGED <<fileVars, writerVars, offset_, crashes>>

\* The payload is short, or its checksum is another one, or it is returned.
ReadPayload ==
    /\ want # NoRecord
    /\ IF ReadFails(want.len)
       THEN status' = "Corruption" /\ UNCHANGED <<offset_, got>>
       ELSE /\ offset_' = offset_ + want.len
            /\ IF SubSeq(file, offset_ + 1, offset_ + want.len) = Payload(want)
               THEN got' = Append(got, want) /\ status' = "Success"
               ELSE status' = "Corruption" /\ UNCHANGED got
    /\ want' = NoRecord
    /\ UNCHANGED <<fileVars, writerVars, crashes>>

ReadLog == ReadEnd \/ ReadHeader \/ ReadPayload

Next ==
    \/ \E len \in Lens : AddHeader(len)
    \/ AddPayload
    \/ SyncLog
    \/ Writing
    \/ Restart
    \/ ReadLog

Spec == Init /\ [][Next]_vars

(***************************************************************************)
(* Properties.                                                             *)
(***************************************************************************)

\* The writer's, the reader's and the file's variables have their types.
TypeOK ==
    /\ FileTypeOK
    /\ pc \in {"idle", "payload", "sync"}
    /\ rec \in Records \cup {NoRecord}
    /\ acked \in Seq(Records)
    /\ torn \in BOOLEAN
    /\ sound \in Seq(Records)
    /\ offset_ \in 0 .. Len(file)
    /\ want \in Records \cup {NoRecord}
    /\ got \in Seq(Records)
    /\ status \in {"Success", "ExecFailed", "Corruption"}
    /\ crashes \in 0 .. MaxCrashes

\* Once AddLog has returned, the whole record is on disk and stays there,
\* in one piece, through every later crash, also when its payload is empty
\* or longer than the buffer, unless the fsync of AddLog itself has failed.
AckedOnDisk ==
    \A r \in ToSet(acked) :
        \E o \in 0 .. synced :
            /\ o + kHeaderSize + r.len <= synced
            /\ SubSeq(file, o + 1, o + kHeaderSize + r.len) = Header(r) \o Payload(r)

\* A reader that stops, at the end or at a corrupt record, has returned
\* every record whose AddLog had returned with an fsync that did not fail,
\* up to the first record a crash has torn, also while AddLog is running,
\* if the log is not too long for FileReader's offsets.
AllRead ==
    [][status' \in {"ExecFailed", "Corruption"} /\ status' # status /\ Len(file) < OffsetLimit
          => ToSet(sound) \subseteq ToSet(got)]_vars
=============================================================================
