----------------------------- MODULE WALProofs -----------------------------
(***************************************************************************)
(* For every size of the buffer and of a header and all lengths of the     *)
(* data: FileWriter loses no byte, alone and under the write-ahead log;    *)
(* where fsync does not fail, a record whose AddLog has returned is on     *)
(* disk and stays there, and a reader of a log below its offset limit      *)
(* returns every such record up to the first torn one.                     *)
(*                                                                         *)
(* NothingLost is inductive together with the types: it says what is in    *)
(* the buffer and in rest at every step of append, so that each step only  *)
(* moves a border between file, buffer, rest and what was handed over.     *)
(* AckInv adds what AddLog has appended of its record, ReadInv how the     *)
(* records follow one another, and where among them the reader is.         *)
(***************************************************************************)
EXTENDS WAL, SequenceTheorems, TLAPS

FileInv == FileTypeOK /\ NothingLost

\* The two parts of a sequence cut after n elements.
LEMMA CutProperties ==
  ASSUME NEW S, NEW s \in Seq(S), NEW n \in 0 .. Len(s)
  PROVE  /\ Take(s, n) \in Seq(S)
         /\ Drop(s, n) \in Seq(S)
         /\ Len(Take(s, n)) = n
         /\ Len(Drop(s, n)) = Len(s) - n
         /\ Take(s, n) \o Drop(s, n) = s
<1>1. Len(s) \in Nat /\ n \in Int
  BY LenProperties
<1>2. \A j \in 1 .. n : s[j] \in S
  BY <1>1, ElementOfSeq
<1>3. \A j \in n + 1 .. Len(s) : s[j] \in S
  BY <1>1, ElementOfSeq
<1>4. Take(s, n) \in Seq(S) /\ Len(Take(s, n)) = n
  BY <1>1, <1>2, SubSeqProperties DEF Take
<1>5. Drop(s, n) \in Seq(S) /\ Len(Drop(s, n)) = Len(s) - n
  BY <1>1, <1>3, SubSeqProperties DEF Drop
<1>6. SubSeq(s, 1, n) \o SubSeq(s, n + 1, Len(s)) = SubSeq(s, 1, Len(s))
  <2>1. 1 \in 1 .. Len(s) + 1 /\ n \in 1 - 1 .. Len(s) /\ Len(s) \in n .. Len(s)
    BY <1>1
  <2> QED BY <2>1, ConcatAdjacentSubSeq, Zenon
<1>7. SubSeq(s, 1, Len(s)) = s
  BY SubSeqFull
<1> QED BY <1>4, <1>5, <1>6, <1>7 DEF Take, Drop

\* The empty file.
LEMMA FileInitial == FileInit => FileInv
<1> SUFFICES ASSUME FileInit PROVE FileInv
  OBVIOUS
<1>1. <<>> \in Seq(Bytes) /\ Len(<<>>) = 0
  BY EmptySeq
<1>2. <<>> \o <<>> \o <<>> = <<>>
  BY <1>1, ConcatEmptySeq
<1>3. FileTypeOK
  <2>1. synced \in 0 .. Len(file)
    BY <1>1 DEF FileInit
  <2> QED BY <1>1, <2>1 DEF FileInit, FileTypeOK
<1>4. NothingLost
  BY <1>1, <1>2, BufferAssumption DEF FileInit, NothingLost
<1> QED BY <1>3, <1>4 DEF FileInv

\* append's first step puts all of the data, or what there is room for,
\* behind what is in the buffer.
LEMMA AppendKeeps ==
  ASSUME FileInv, NEW data \in Seq(Bytes), NEW f \in BOOLEAN, AppendData(data, f)
  PROVE  FileInv'
<1> USE DEF FileInv, FileTypeOK, NothingLost
<1> DEFINE room == BUFFER_SIZE - Len(buffer)
<1>1. step = "ready" /\ rest = <<>> /\ handed' = handed \o data /\ UNCHANGED <<file, synced>>
  BY DEF AppendData
<1>2. handed = file \o buffer
  BY <1>1, ConcatProperties, ConcatEmptySeq
<1>3. handed' \in Seq(Bytes) /\ handed' = file \o (buffer \o data) /\ buffer \o data \in Seq(Bytes)
  <2>1. (file \o buffer) \o data = file \o (buffer \o data)
    <3>1. file \in Seq(Bytes) /\ buffer \in Seq(Bytes)
      OBVIOUS
    <3> HIDE DEF FileInv, FileTypeOK, NothingLost
    <3> QED BY <3>1, ConcatAssociative
  <2> QED BY <1>1, <1>2, <2>1, ConcatProperties
<1>4. Len(buffer) \in Nat /\ Len(data) \in Nat /\ <<>> \in Seq(Bytes)
  BY LenProperties, EmptySeq
<1>5. CASE data = <<>>
  <2>1. UNCHANGED <<buffer, rest, flush, step>>
    BY <1>5 DEF AppendData
  <2>2. handed' = handed
    BY <1>1, <1>5, ConcatEmptySeq
  <2> QED BY <1>1, <2>1, <2>2
<1>6. CASE data # <<>> /\ Len(data) < room
  <2>1. buffer' = buffer \o data /\ rest' = <<>> /\ step' = "tail" /\ flush' = f
    BY <1>6 DEF AppendData
  <2>2. file' \o buffer' \o rest' = handed'
    BY <1>1, <1>3, <2>1, ConcatProperties, ConcatEmptySeq
  <2>3. Len(buffer') <= BUFFER_SIZE
    BY <1>4, <1>6, <2>1, ConcatProperties, BufferAssumption
  <2> QED BY <1>1, <1>3, <1>4, <2>1, <2>2, <2>3
<1>7. CASE data # <<>> /\ ~(Len(data) < room)
  <2>1. buffer' = buffer \o Take(data, room) /\ rest' = Drop(data, room) /\ step' = "persist" /\ flush' = f
    BY <1>7 DEF AppendData
  <2>2. room \in 0 .. Len(data)
    BY <1>4, <1>7, BufferAssumption
  <2>3. /\ Take(data, room) \in Seq(Bytes) /\ Drop(data, room) \in Seq(Bytes)
        /\ Len(Take(data, room)) = room /\ Take(data, room) \o Drop(data, room) = data
    BY <2>2, CutProperties
  <2>4. buffer' \in Seq(Bytes) /\ Len(buffer') = BUFFER_SIZE
    BY <1>4, <2>1, <2>3, ConcatProperties, BufferAssumption
  <2>5. file \o (buffer \o Take(data, room)) \o Drop(data, room)
           = file \o buffer \o (Take(data, room) \o Drop(data, room))
    <3>1. file \in Seq(Bytes) /\ buffer \in Seq(Bytes)
      OBVIOUS
    <3> HIDE DEF FileInv, FileTypeOK, NothingLost, room
    <3>2. \A x, y \in Seq(Bytes) : file \o (buffer \o x) \o y = file \o buffer \o (x \o y)
      BY <3>1
    <3> QED BY <2>3, <3>2
  <2>6. file' \o buffer' \o rest' = handed'
    BY <1>1, <1>2, <2>1, <2>3, <2>5
  <2>7. FileTypeOK'
    BY <1>1, <1>3, <2>1, <2>3, <2>4
  <2>8. NothingLost'
    <3>1. step' = "persist" /\ Len(buffer') <= BUFFER_SIZE
      BY <2>1, <2>4, BufferAssumption
    <3> QED BY <2>4, <2>6, <3>1
  <2> QED BY <2>7, <2>8
<1> QED BY <1>5, <1>6, <1>7

\* A write moves the buffer to the end of the file.
LEMMA WriteOut ==
  ASSUME FileInv
  PROVE  /\ file \o buffer \in Seq(Bytes)
         /\ Len(file \o buffer) = Len(file) + Len(buffer)
         /\ Len(file) \in Nat /\ Len(buffer) \in Nat
         /\ (file \o buffer) \o <<>> \o rest = handed
         /\ synced \in 0 .. Len(file \o buffer)
         /\ <<>> \in Seq(Bytes) /\ Len(<<>>) = 0
<1> USE DEF FileInv, FileTypeOK, NothingLost
<1>1. file \o buffer \in Seq(Bytes) /\ Len(file \o buffer) = Len(file) + Len(buffer)
  BY ConcatProperties
<1>2. Len(file) \in Nat /\ Len(buffer) \in Nat
  BY LenProperties
<1>3. (file \o buffer) \o <<>> = file \o buffer
  BY <1>1, ConcatEmptySeq
<1> QED BY <1>1, <1>2, <1>3, EmptySeq

\* Each step of append, flush, sync and a crash keep the invariant.
LEMMA FileStep == FileInv /\ [FileNext]_fileVars => FileInv'
<1> SUFFICES ASSUME FileInv, [FileNext]_fileVars PROVE FileInv'
  OBVIOUS
<1> USE DEF FileInv, FileTypeOK, NothingLost
<1>1. ASSUME NEW data \in Seq(Bytes), NEW f \in BOOLEAN, AppendData(data, f) PROVE FileInv'
  BY <1>1, AppendKeeps
<1>2. CASE Persist
  <2>1. /\ file' = file \o buffer /\ buffer' = <<>>
        /\ step' = IF rest = <<>> THEN "tail" ELSE "copy"
        /\ UNCHANGED <<synced, rest, flush, handed>>
    BY <1>2 DEF Persist
  <2>2. FileTypeOK'
    BY <2>1, WriteOut
  <2>3. NothingLost'
    BY <2>1, WriteOut, BufferAssumption
  <2> QED BY <2>2, <2>3
<1>3. CASE Copy
  <2> DEFINE n == MinOf(Len(rest), BUFFER_SIZE - Len(buffer))
  <2>1. Len(rest) \in Nat /\ Len(buffer) \in Nat
    BY LenProperties
  <2>2. n \in 0 .. Len(rest) /\ n <= BUFFER_SIZE - Len(buffer)
    BY <2>1, BufferAssumption DEF MinOf
  <2>3. /\ Take(rest, n) \in Seq(Bytes) /\ Drop(rest, n) \in Seq(Bytes)
        /\ Len(Take(rest, n)) = n /\ Len(Drop(rest, n)) = Len(rest) - n
        /\ Take(rest, n) \o Drop(rest, n) = rest
    BY <2>2, CutProperties
  <2>4. /\ buffer' = buffer \o Take(rest, n) /\ rest' = Drop(rest, n)
        /\ UNCHANGED <<file, synced, flush, handed>>
        /\ step' = IF n = Len(rest) THEN "tail" ELSE "persist"
    BY <1>3 DEF Copy
  <2>5. buffer' \in Seq(Bytes) /\ Len(buffer') = Len(buffer) + n
    BY <2>3, <2>4, ConcatProperties
  <2>6. file \o (buffer \o Take(rest, n)) \o Drop(rest, n)
           = file \o buffer \o (Take(rest, n) \o Drop(rest, n))
    <3>1. file \in Seq(Bytes) /\ buffer \in Seq(Bytes)
      OBVIOUS
    <3> HIDE DEF FileInv, FileTypeOK, NothingLost, n
    <3>2. \A x, y \in Seq(Bytes) : file \o (buffer \o x) \o y = file \o buffer \o (x \o y)
      BY <3>1
    <3> QED BY <2>3, <3>2
  <2>7. step' = "tail" => rest' = <<>>
    BY <2>1, <2>3, <2>4, EmptySeq
  <2>8. step' = "persist" => Len(buffer') = BUFFER_SIZE
    BY <2>1, <2>4, <2>5, BufferAssumption DEF MinOf
  <2>9. file' \o buffer' \o rest' = handed'
    BY <2>3, <2>4, <2>6
  <2>10. FileTypeOK'
    BY <2>3, <2>4, <2>5
  <2>11. NothingLost'
    <3>1. Len(buffer') <= BUFFER_SIZE
      BY <2>1, <2>2, <2>5, BufferAssumption
    <3>2. step' \in {"ready", "tail"} => rest' = <<>>
      BY <2>4, <2>7
    <3> QED BY <2>8, <2>9, <3>1, <3>2
  <2> QED BY <2>10, <2>11
<1>4. CASE AppendEnd
  BY <1>4, WriteOut, BufferAssumption DEF AppendEnd
<1>5. CASE Flush
  BY <1>5, WriteOut, BufferAssumption DEF Flush
<1>6. CASE Sync
  <2>1. synced' \in 0 .. Len(file')
    BY <1>6, WriteOut DEF Sync
  <2> QED BY <1>6, <2>1, WriteOut, BufferAssumption DEF Sync
<1>7. CASE Crash
  <2>1. PICK n \in synced .. Len(file) + Len(buffer) : file' = Take(file \o buffer, n) /\ synced' = n
    BY <1>7 DEF Crash
  <2>2. n \in 0 .. Len(file \o buffer)
    BY <2>1, WriteOut
  <2>3. file' \in Seq(Bytes) /\ Len(file') = n
    BY <2>1, <2>2, WriteOut, CutProperties
  <2>4. file' \o <<>> \o <<>> = file'
    BY <2>3, WriteOut, ConcatEmptySeq
  <2>5. /\ buffer' = <<>> /\ rest' = <<>> /\ flush' = FALSE /\ step' = "ready"
        /\ handed' = file'
    BY <1>7 DEF Crash
  <2>6. FileTypeOK'
    <3>1. synced' \in 0 .. Len(file')
      BY <2>1, <2>2, <2>3, WriteOut
    <3> QED BY <2>3, <2>5, <3>1, WriteOut
  <2>7. NothingLost'
    BY <2>4, <2>5, WriteOut, BufferAssumption
  <2> QED BY <2>6, <2>7
<1>8. CASE UNCHANGED fileVars
  BY <1>8 DEF fileVars
<1> QED BY <1>1, <1>2, <1>3, <1>4, <1>5, <1>6, <1>7, <1>8 DEF FileNext, AppendStep

\* FileWriter on its own: whatever is appended, with or without flush, in
\* whatever pieces, reaches the file unchanged and in order.
THEOREM FileLosesNothing == FileSpec => []NothingLost
<1>1. FileInv => NothingLost
  BY DEF FileInv
<1> QED BY FileInitial, FileStep, <1>1, PTL DEF FileSpec

\* The log calls append with bytes only if the record it works on is one.
LogInv ==
    /\ FileInv
    /\ rec \in Records \cup {NoRecord}
    /\ pc = "payload" => rec \in Records

\* A step of the log is a step of its FileWriter, or leaves it alone.
LEMMA LogStep == LogInv /\ [Next]_vars => LogInv' /\ [FileNext]_fileVars
<1> SUFFICES ASSUME LogInv, [Next]_vars PROVE LogInv' /\ [FileNext]_fileVars
  OBVIOUS
<1> DEFINE TypeRec == rec \in Records \cup {NoRecord} /\ (pc = "payload" => rec \in Records)
<1>1. TypeRec' /\ [FileNext]_fileVars
  <2>1. ASSUME NEW len \in Lens, AddHeader(len) PROVE TypeRec' /\ [FileNext]_fileVars
    <3>1. rec.id \in 0 .. MaxLogs /\ rec.id < MaxLogs
      BY <2>1, WALAssumption DEF LogInv, Records, NoRecord, AddHeader
    <3>2. rec' = [id |-> rec.id + 1, len |-> len] /\ AppendData(Header(rec'), FALSE)
      BY <2>1 DEF AddHeader
    <3>3. rec' \in Records
      BY <3>1, <3>2, WALAssumption DEF Records
    <3>4. Header(rec') \in Seq(Bytes)
      BY <3>3, BytesAssumption
    <3>5. FileNext
      BY <3>2, <3>4 DEF FileNext
    <3> QED BY <3>3, <3>5
  <2>2. CASE AddPayload
    <3>1. rec \in Records /\ rec' = rec /\ AppendData(Payload(rec), TRUE)
      BY <2>2 DEF AddPayload, LogInv
    <3>2. Payload(rec) \in Seq(Bytes)
      BY <3>1, BytesAssumption
    <3>3. FileNext
      BY <3>1, <3>2 DEF FileNext
    <3> QED BY <3>1, <3>3
  <2>3. CASE SyncLog
    <3>1. FileNext /\ rec' = rec /\ pc' = "idle"
      BY <2>3 DEF SyncLog, FileNext
    <3> QED BY <3>1 DEF LogInv
  <2>4. CASE Writing
    <3>1. FileNext /\ rec' = rec /\ pc' = pc
      BY <2>4 DEF Writing, writerVars, FileNext
    <3> QED BY <3>1 DEF LogInv
  <2>5. CASE Restart
    <3>1. FileNext /\ rec' = rec /\ pc' = "idle"
      BY <2>5 DEF Restart, FileNext
    <3> QED BY <3>1 DEF LogInv
  <2>6. CASE ReadLog
    <3>1. UNCHANGED fileVars /\ rec' = rec /\ pc' = pc
      BY <2>6 DEF ReadLog, ReadEnd, ReadHeader, ReadPayload, writerVars
    <3> QED BY <3>1 DEF LogInv
  <2>7. CASE UNCHANGED vars
    <3>1. UNCHANGED fileVars /\ rec' = rec /\ pc' = pc
      BY <2>7 DEF vars, writerVars
    <3> QED BY <3>1 DEF LogInv
  <2> QED BY <2>1, <2>2, <2>3, <2>4, <2>5, <2>6, <2>7 DEF Next
<1>2. FileInv'
  BY <1>1, FileStep DEF LogInv
<1> QED BY <1>1, <1>2 DEF LogInv

\* The log under its crashes and restarts: no record is lost, doubled or
\* reordered between AddLog and the file, for any header and payload sizes.
THEOREM LogLosesNothing == Spec => []NothingLost
<1>1. Init => LogInv
  BY FileInitial DEF Init, LogInv
<1>2. LogInv => NothingLost
  BY DEF LogInv, FileInv
<1> QED BY <1>1, <1>2, LogStep, PTL DEF Spec

\* Nothing the log does to its file is anything but what FileWriter offers.
THEOREM LogUsesFileWriter == Spec => FileSpec
<1>1. Init => LogInv /\ FileInit
  BY FileInitial DEF Init, LogInv
<1> QED BY <1>1, LogStep, PTL DEF Spec, FileSpec

(***************************************************************************)
(* What the bytes say.                                                     *)
(***************************************************************************)

\* The length of the record r, or of the record that the byte r is of.
Size(r) == kHeaderSize + r.len

\* Byte p of the record r, or of the record that the byte r is of.
Cell(r, p) == [id |-> r.id, len |-> r.len, pos |-> p]

AllCells == [id : 1 .. MaxLogs, len : Lens, pos : Nat]

\* The byte c is the last of its record.
Whole(c) == c.pos = Size(c)

\* The record r is in f, behind the first o bytes.
Piece(f, o, r) == \A p \in 1 .. Size(r) : f[o + p] = Cell(r, p)

(***************************************************************************)
(* What AddLog has handed over.                                            *)
(***************************************************************************)

\* The file ends with what AddLog has appended of the record.
Tail_ ==
    /\ pc = "payload" =>
           /\ rec \in Records
           /\ kHeaderSize <= Len(handed)
           /\ \A p \in 1 .. kHeaderSize : handed[Len(handed) - kHeaderSize + p] = Cell(rec, p)
    /\ pc = "sync" =>
           /\ rec \in Records
           /\ Size(rec) <= Len(handed)
           /\ Piece(handed, Len(handed) - Size(rec), rec)

\* The record r is on disk.
OnDisk(r) == \E o \in Nat : o + Size(r) <= synced /\ Piece(file, o, r)

AckInv ==
    /\ handed \in Seq(AllCells)
    /\ acked \in Seq(Records)
    /\ Tail_
    /\ \A r \in ToSet(acked) : OnDisk(r)

(***************************************************************************)
(* What a reader finds.                                                    *)
(***************************************************************************)

\* The first T bytes of h are records in one piece, one after the other;
\* the last may be incomplete.
Structured(h, T) ==
    \A j \in 1 .. T :
        /\ h[j].pos \in 1 .. Size(h[j])
        /\ h[j].pos <= j
        /\ \A p \in 1 .. Size(h[j]) : j - h[j].pos + p <= T => h[j - h[j].pos + p] = Cell(h[j], p)
        /\ j = h[j].pos \/ Whole(h[j - h[j].pos])

\* A record begins behind the first b bytes of h.
Boundary(h, b) == b = 0 \/ Whole(h[b])

\* The record r is among the first T bytes of h, behind the first o.
Within(h, T, o, r) == o + Size(r) <= T /\ Piece(h, o, r)

\* Up to the first torn record, T is the end of the records in one piece.
Kept(T) ==
    /\ T <= Len(handed)
    /\ IF torn THEN T <= synced ELSE T = Len(handed)
    /\ Structured(handed, T)
    /\ pc = "idle" /\ ~torn => Boundary(handed, T)
    /\ \A r \in ToSet(sound) : \E o \in Nat : o + Size(r) <= synced /\ Within(handed, T, o, r)

\* Where the record begins that ReadLog is at.
RecordStart == IF want = NoRecord THEN offset_ ELSE offset_ - kHeaderSize

\* The reader is at the beginning of a record, and has returned all records
\* before it; or it is behind the first torn one.
Caught(T) ==
    status # "Corruption" =>
        /\ RecordStart <= T => Boundary(handed, RecordStart)
        /\ \A o \in Nat : \A r \in Records :
               o < RecordStart /\ Within(handed, T, o, r) => r \in ToSet(got)

\* The header that ReadLog has read is in the file.
HeaderRead ==
    want # NoRecord =>
        /\ status # "Corruption"
        /\ kHeaderSize <= offset_
        /\ \A p \in 1 .. kHeaderSize : file[RecordStart + p] = Cell(want, p)

ReadInv == HeaderRead /\ \E T \in Nat : Kept(T) /\ Caught(T)

(***************************************************************************)
(* Facts about the bytes.                                                  *)
(***************************************************************************)

\* Header and payload, byte by byte.
LEMMA RecordBytes ==
    ASSUME NEW r \in Records
    PROVE  /\ r.len \in Nat /\ kHeaderSize \in Nat /\ kHeaderSize >= 1 /\ Size(r) \in Nat
           /\ Header(r) \in Seq(AllCells) /\ Len(Header(r)) = kHeaderSize
           /\ \A p \in 1 .. kHeaderSize : Header(r)[p] = Cell(r, p)
           /\ Payload(r) \in Seq(AllCells) /\ Len(Payload(r)) = r.len
           /\ \A p \in 1 .. r.len : Payload(r)[p] = Cell(r, kHeaderSize + p)
           /\ \A p \in Nat : Cell(r, p) \in AllCells
<1>1. r.len \in Nat /\ r.len \in Lens /\ r.id \in 1 .. MaxLogs /\ kHeaderSize \in Nat /\ kHeaderSize >= 1
  <2>1. r.len \in Lens /\ r.id \in 1 .. MaxLogs
    BY DEF Records
  <2>2. \A x \in Lens : x \in Nat
    BY WALAssumption
  <2>3. kHeaderSize \in Nat /\ kHeaderSize >= 1
    BY WALAssumption
  <2> QED BY <2>1, <2>2, <2>3
<1>2. \A p \in Nat : Cell(r, p) \in AllCells
  BY <1>1 DEF Cell, AllCells
<1>3. Header(r) = [p \in 1 .. kHeaderSize |-> Cell(r, p)]
  BY <1>1 DEF Header, Cells, Cell
<1>4. Payload(r) = [p \in 1 .. r.len |-> Cell(r, kHeaderSize + p)]
  <2>1. kHeaderSize + r.len - (kHeaderSize + 1) + 1 = r.len
    BY <1>1
  <2>2. \A p \in 1 .. r.len : kHeaderSize + 1 + p - 1 = kHeaderSize + p
    BY <1>1
  <2>3. Payload(r) = [p \in 1 .. r.len |-> [id |-> r.id, len |-> r.len, pos |-> kHeaderSize + 1 + p - 1]]
    BY <1>1, <2>1 DEF Payload, Cells
  <2>4. \A p \in 1 .. r.len :
            Cell(r, kHeaderSize + p) = [id |-> r.id, len |-> r.len, pos |-> kHeaderSize + 1 + p - 1]
    BY <2>2 DEF Cell
  <2> QED BY <2>3, <2>4
<1>5. Header(r) \in [1 .. kHeaderSize -> AllCells]
  BY <1>1, <1>2, <1>3
<1>6. Payload(r) \in [1 .. r.len -> AllCells]
  BY <1>1, <1>2, <1>4
<1> QED BY <1>1, <1>2, <1>3, <1>4, <1>5, <1>6 DEF Size

\* What the kernel has is the first part of what was handed over.
LEMMA FileIsPrefix ==
    ASSUME FileInv
    PROVE  /\ Len(file) \in Nat /\ Len(handed) \in Nat /\ synced \in Nat
           /\ synced <= Len(file) /\ Len(file) <= Len(handed)
           /\ Len(file \o buffer) <= Len(handed)
           /\ \A j \in 1 .. Len(file \o buffer) : (file \o buffer)[j] = handed[j]
           /\ \A j \in 1 .. Len(file) : file[j] = handed[j]
           /\ step = "ready" => file \o buffer = handed
<1>1. /\ file \in Seq(Bytes) /\ buffer \in Seq(Bytes) /\ rest \in Seq(Bytes)
      /\ handed = (file \o buffer) \o rest /\ synced \in 0 .. Len(file)
      /\ step = "ready" => rest = <<>>
  BY DEF FileInv, FileTypeOK, NothingLost
<1>2. PICK g \in Seq(Bytes) : g = file \o buffer
  BY <1>1, ConcatProperties
<1>3. Len(g) = Len(file) + Len(buffer) /\ \A j \in 1 .. Len(file) : g[j] = file[j]
  BY <1>1, <1>2
<1>4. Len(handed) = Len(g) + Len(rest) /\ \A j \in 1 .. Len(g) : handed[j] = g[j]
  BY <1>1, <1>2
<1>5. Len(file) \in Nat /\ Len(buffer) \in Nat /\ Len(rest) \in Nat /\ Len(g) \in Nat
  BY <1>1, <1>2
<1>6. step = "ready" => g = handed
  BY <1>1, <1>2, ConcatEmptySeq
<1> QED BY <1>1, <1>2, <1>3, <1>4, <1>5, <1>6

\* What is synced stays as it is.
LEMMA DiskKept ==
    ASSUME FileInv, [FileNext]_fileVars
    PROVE  /\ synced <= synced'
           /\ \A j \in 1 .. synced : file'[j] = file[j]
<1>1. /\ file \in Seq(Bytes) /\ buffer \in Seq(Bytes) /\ synced \in 0 .. Len(file)
      /\ Len(file) \in Nat
  BY DEF FileInv, FileTypeOK
<1>2. PICK g \in Seq(Bytes) : g = file \o buffer
  BY <1>1, ConcatProperties
<1>3. Len(g) = Len(file) + Len(buffer) /\ Len(g) \in Nat /\ \A j \in 1 .. Len(file) : g[j] = file[j]
  BY <1>1, <1>2
<1>4. CASE file' = file /\ synced' = synced
  BY <1>1, <1>4
<1>5. CASE file' = g /\ synced' \in {synced, Len(g)}
  BY <1>1, <1>3, <1>5
<1>6. CASE Crash
  <2>1. PICK n \in synced .. Len(file) + Len(buffer) : file' = Take(g, n) /\ synced' = n
    BY <1>2, <1>6 DEF Crash
  <2>2. n \in 0 .. Len(g)
    BY <1>1, <1>3, <2>1
  <2>3. \A j \in 1 .. n : Take(g, n)[j] = g[j]
    BY <2>2 DEF Take
  <2> QED BY <1>1, <1>3, <2>1, <2>2, <2>3
<1>7. [FileNext]_fileVars => \/ file' = file /\ synced' = synced
                             \/ file' = g /\ synced' \in {synced, Len(g)}
                             \/ Crash
  BY <1>2 DEF FileNext, AppendData, AppendStep, Persist, Copy, AppendEnd, Flush, Sync, fileVars
<1> QED BY <1>4, <1>5, <1>6, <1>7

\* The bytes of x behind s.
LEMMA Behind ==
    ASSUME NEW S, NEW s \in Seq(S), NEW x \in Seq(S)
    PROVE  /\ s \o x \in Seq(S)
           /\ Len(s) \in Nat /\ Len(x) \in Nat /\ Len(s \o x) = Len(s) + Len(x)
           /\ \A j \in 1 .. Len(s) : (s \o x)[j] = s[j]
           /\ \A j \in 1 .. Len(x) : (s \o x)[Len(s) + j] = x[j]
  OBVIOUS

(***************************************************************************)
(* A record whose AddLog has returned is on disk.                          *)
(***************************************************************************)

\* A record on disk stays on disk.
LEMMA StaysOnDisk ==
    ASSUME FileInv, [FileNext]_fileVars, NEW r \in Records, OnDisk(r)
    PROVE  OnDisk(r)'
<1>1. PICK o \in Nat : o + Size(r) <= synced /\ Piece(file, o, r)
  BY DEF OnDisk
<1>2. synced <= synced' /\ \A j \in 1 .. synced : file'[j] = file[j]
  BY DiskKept
<1>3. Size(r) \in Nat /\ synced \in Nat /\ synced' \in Int
  BY RecordBytes, FileIsPrefix, FileStep DEF FileInv, FileTypeOK
<1>4. \A p \in 1 .. Size(r) : o + p \in 1 .. synced
  BY <1>1, <1>3
<1>5. Piece(file', o, r)
  BY <1>1, <1>2, <1>4 DEF Piece
<1>6. o + Size(r) <= synced'
  BY <1>1, <1>2, <1>3
<1> QED BY <1>5, <1>6 DEF OnDisk

\* AddLog hands over the header, and then the payload behind it.
LEMMA TailKeeps ==
    ASSUME LogInv, AckInv, [Next]_vars
    PROVE  handed' \in Seq(AllCells) /\ Tail_'
<1>1. handed \in Seq(AllCells) /\ Tail_ /\ FileInv
  BY DEF AckInv, LogInv
<1>2. ASSUME NEW len \in Lens, AddHeader(len) PROVE handed' \in Seq(AllCells) /\ Tail_'
  <2>1. rec' \in Records /\ pc' = "payload" /\ handed' = handed \o Header(rec')
    <3>1. rec.id \in 0 .. MaxLogs /\ rec.id < MaxLogs
      BY <1>2, WALAssumption DEF LogInv, Records, NoRecord, AddHeader
    <3>2. rec' = [id |-> rec.id + 1, len |-> len]
      BY <1>2 DEF AddHeader
    <3>3. rec' \in Records
      BY <3>1, <3>2, WALAssumption DEF Records
    <3> QED BY <1>2, <3>3 DEF AddHeader, AppendData
  <2>2. PICK r \in Records : r = rec'
    BY <2>1
  <2>3. /\ Header(r) \in Seq(AllCells) /\ Len(Header(r)) = kHeaderSize /\ kHeaderSize \in Nat
        /\ \A p \in 1 .. kHeaderSize : Header(r)[p] = Cell(r, p)
    BY RecordBytes
  <2>4. /\ handed' \in Seq(AllCells) /\ Len(handed) \in Nat
        /\ Len(handed') = Len(handed) + kHeaderSize
        /\ \A p \in 1 .. kHeaderSize : handed'[Len(handed) + p] = Cell(r, p)
    <3>1. PICK x \in Seq(AllCells) : x = Header(r)
      BY <2>3
    <3>2. handed' = handed \o x
      BY <2>1, <2>2, <3>1
    <3>3. /\ handed' \in Seq(AllCells) /\ Len(handed) \in Nat
          /\ Len(handed') = Len(handed) + Len(x)
          /\ \A p \in 1 .. Len(x) : handed'[Len(handed) + p] = x[p]
      BY <1>1, <3>2, Behind
    <3> QED BY <2>3, <3>1, <3>3
  <2>5. Len(handed') - kHeaderSize = Len(handed) /\ kHeaderSize <= Len(handed')
    BY <2>3, <2>4
  <2> QED BY <2>1, <2>2, <2>4, <2>5 DEF Tail_
<1>3. CASE AddPayload
  <2>1. rec \in Records /\ rec' = rec /\ pc' = "sync" /\ handed' = handed \o Payload(rec)
    BY <1>3 DEF AddPayload, AppendData, LogInv
  <2>2. PICK r \in Records : r = rec
    BY <2>1
  <2>3. /\ Payload(r) \in Seq(AllCells) /\ Len(Payload(r)) = r.len /\ kHeaderSize \in Nat
        /\ r.len \in Nat
        /\ \A p \in 1 .. r.len : Payload(r)[p] = Cell(r, kHeaderSize + p)
    BY RecordBytes
  <2>4. /\ handed' \in Seq(AllCells) /\ Len(handed) \in Nat
        /\ Len(handed') = Len(handed) + r.len
        /\ \A j \in 1 .. Len(handed) : handed'[j] = handed[j]
        /\ \A p \in 1 .. r.len : handed'[Len(handed) + p] = Cell(r, kHeaderSize + p)
    <3>1. handed' = handed \o Payload(r)
      BY <2>1, <2>2
    <3> QED BY <1>1, <2>3, <3>1, Behind
  <2>5. /\ kHeaderSize <= Len(handed)
        /\ \A p \in 1 .. kHeaderSize : handed[Len(handed) - kHeaderSize + p] = Cell(r, p)
    BY <1>1, <1>3, <2>2 DEF Tail_, AddPayload
  <2>6. PICK o \in Nat : o = Len(handed) - kHeaderSize
    <3>1. kHeaderSize \in Nat /\ Len(handed) \in Nat /\ kHeaderSize <= Len(handed)
      BY <2>3, <2>4, <2>5
    <3>2. Len(handed) - kHeaderSize \in Nat
      BY <3>1
    <3> QED BY <3>2
  <2>7. o = Len(handed') - Size(r) /\ Size(r) <= Len(handed')
    BY <2>3, <2>4, <2>6 DEF Size
  <2>8. ASSUME NEW p \in 1 .. Size(r) PROVE handed'[o + p] = Cell(r, p)
    <3>1. CASE p \in 1 .. kHeaderSize
      <4>1. o + p \in 1 .. Len(handed)
        BY <2>3, <2>4, <2>6, <3>1
      <4> QED BY <2>4, <2>5, <2>6, <3>1, <4>1
    <3>2. CASE ~(p \in 1 .. kHeaderSize)
      <4>1. PICK q \in 1 .. r.len : q = p - kHeaderSize
        BY <2>3, <3>2 DEF Size
      <4>2. o + p = Len(handed) + q /\ kHeaderSize + q = p
        BY <2>3, <2>4, <2>6, <4>1
      <4> QED BY <2>4, <4>1, <4>2
    <3> QED BY <3>1, <3>2
  <2>9. Piece(handed', o, r)
    BY <2>8 DEF Piece
  <2> QED BY <2>1, <2>2, <2>4, <2>7, <2>9 DEF Tail_
<1>4. ASSUME handed' = handed, rec' = rec, pc' = pc \/ pc' = "idle"
      PROVE  handed' \in Seq(AllCells) /\ Tail_'
  BY <1>1, <1>4 DEF Tail_
<1>5. CASE SyncLog
  BY <1>4, <1>5 DEF SyncLog, Sync
<1>6. CASE Writing \/ ReadLog \/ UNCHANGED vars
  BY <1>4, <1>6 DEF Writing, AppendStep, Persist, Copy, AppendEnd, ReadLog, ReadEnd, ReadHeader,
                    ReadPayload, vars, writerVars, fileVars
<1>7. CASE Restart
  <2>1. pc' = "idle" /\ handed' = file'
    BY <1>7 DEF Restart, Crash
  <2>2. PICK n \in synced .. Len(file) + Len(buffer) : file' = Take(file \o buffer, n)
    BY <1>7 DEF Restart, Crash
  <2>3. /\ synced \in Nat /\ Len(file \o buffer) = Len(file) + Len(buffer)
        /\ Len(file \o buffer) \in Nat
        /\ Len(file \o buffer) <= Len(handed) /\ Len(handed) \in Nat
        /\ \A j \in 1 .. Len(file \o buffer) : (file \o buffer)[j] = handed[j]
    BY <1>1, FileIsPrefix, WriteOut
  <2>4. n \in Nat /\ n <= Len(file \o buffer) /\ n <= Len(handed)
    BY <2>2, <2>3
  <2>5. \A j \in 1 .. n : (file \o buffer)[j] \in AllCells
    BY <1>1, <2>3, <2>4
  <2>6. SubSeq(file \o buffer, 1, n) \in Seq(AllCells)
    BY <2>4, <2>5, SubSeqProperties
  <2> QED BY <2>1, <2>2, <2>6 DEF Tail_, Take
<1> QED BY <1>2, <1>3, <1>5, <1>6, <1>7 DEF Next

\* One more record.
LEMMA AppendOne ==
    ASSUME NEW S, NEW s \in Seq(S), NEW e \in S
    PROVE  Append(s, e) \in Seq(S) /\ ToSet(Append(s, e)) = ToSet(s) \cup {e}
<1>1. PICK t \in Seq(S), n \in Nat : t = Append(s, e) /\ n = Len(s)
  BY AppendProperties, LenProperties
<1>2. /\ Len(t) = n + 1 /\ t[n + 1] = e
      /\ \A i \in 1 .. n : t[i] = s[i]
  BY <1>1, AppendProperties
<1>3. DOMAIN t = 1 .. n + 1 /\ DOMAIN s = 1 .. n
  BY <1>1, <1>2, LenProperties
<1>4. ToSet(t) = {t[i] : i \in 1 .. n + 1} /\ ToSet(s) = {s[i] : i \in 1 .. n}
  BY <1>3 DEF ToSet
<1>5. \A i \in 1 .. n + 1 : i \in 1 .. n \/ i = n + 1
  OBVIOUS
<1>6. n + 1 \in 1 .. n + 1 /\ \A i \in 1 .. n : i \in 1 .. n + 1
  OBVIOUS
<1> QED BY <1>1, <1>2, <1>4, <1>5, <1>6

\* AckInv is kept: what SyncLog acknowledges ends the file it has synced.
LEMMA AckKeeps == LogInv /\ AckInv /\ [Next]_vars => AckInv'
<1> SUFFICES ASSUME LogInv, AckInv, [Next]_vars PROVE AckInv'
  OBVIOUS
<1>1. FileInv /\ acked \in Seq(Records) /\ Tail_ /\ [FileNext]_fileVars
  BY LogStep DEF AckInv, LogInv
<1>2. handed' \in Seq(AllCells) /\ Tail_'
  BY TailKeeps
<1>3. \A r \in ToSet(acked) : r \in Records
  BY <1>1 DEF ToSet
<1>4. \A r \in ToSet(acked) : OnDisk(r)'
  BY <1>1, <1>3, StaysOnDisk DEF AckInv
<1>5. CASE SyncLog /\ acked' # acked
  <2>1. /\ pc = "sync" /\ step = "ready" /\ acked' = Append(acked, rec)
        /\ file' = file \o buffer /\ synced' = Len(file')
    BY <1>5 DEF SyncLog, Sync
  <2>2. rec \in Records /\ Size(rec) <= Len(handed) /\ Piece(handed, Len(handed) - Size(rec), rec)
    BY <1>1, <2>1 DEF Tail_
  <2>3. file' = handed /\ Len(handed) \in Nat
    BY <1>1, <2>1, FileIsPrefix
  <2>4. PICK r \in Records, o \in Nat : r = rec /\ o = Len(handed) - Size(rec)
    BY <2>2, <2>3, RecordBytes
  <2>5. o + Size(r) <= synced' /\ Piece(file', o, r)
    BY <2>1, <2>2, <2>3, <2>4, RecordBytes
  <2>6. OnDisk(r)'
    BY <2>5 DEF OnDisk
  <2>7. acked' \in Seq(Records) /\ ToSet(acked') = ToSet(acked) \cup {r}
    BY <1>1, <2>1, <2>4, AppendOne
  <2>8. \A x \in ToSet(acked') : OnDisk(x)'
    BY <1>4, <2>6, <2>7
  <2> QED BY <1>2, <2>7, <2>8 DEF AckInv
<1>6. CASE ~(SyncLog /\ acked' # acked)
  <2>1. acked' = acked
    BY <1>6 DEF Next, AddHeader, AddPayload, Writing, Restart, ReadLog, ReadEnd, ReadHeader,
                ReadPayload, vars, writerVars
  <2> QED BY <1>1, <1>2, <1>4, <2>1 DEF AckInv
<1> QED BY <1>5, <1>6

\* AckInv is an invariant.
LEMMA AckInductive == Spec => [](LogInv /\ AckInv)
<1>1. Init => LogInv /\ AckInv
  <2> SUFFICES ASSUME Init PROVE LogInv /\ AckInv
    OBVIOUS
  <2>1. handed = <<>> /\ acked = <<>> /\ pc = "idle"
    BY DEF Init, FileInit
  <2>2. ToSet(<<>>) = {}
    BY DEF ToSet
  <2> QED BY <2>1, <2>2, FileInitial DEF Init, LogInv, AckInv, Tail_
<1> QED BY <1>1, LogStep, AckKeeps, PTL DEF Spec

\* A record in one piece, as the header and the payload.
LEMMA PieceIsRecord ==
    ASSUME NEW S, NEW f \in Seq(S), NEW r \in Records, NEW o \in Nat, o + Size(r) <= Len(f),
           Piece(f, o, r)
    PROVE  SubSeq(f, o + 1, o + Size(r)) = Header(r) \o Payload(r)
<1>1. /\ r.len \in Nat /\ kHeaderSize \in Nat
      /\ Header(r) \in Seq(AllCells) /\ Len(Header(r)) = kHeaderSize
      /\ \A p \in 1 .. kHeaderSize : Header(r)[p] = Cell(r, p)
      /\ Payload(r) \in Seq(AllCells) /\ Len(Payload(r)) = r.len
      /\ \A p \in 1 .. r.len : Payload(r)[p] = Cell(r, kHeaderSize + p)
      /\ \A p \in Nat : Cell(r, p) \in AllCells
  BY RecordBytes
<1>2. PICK h \in Seq(AllCells), q \in Seq(AllCells) : h = Header(r) /\ q = Payload(r)
  BY <1>1
<1>3. PICK m \in Nat : m = Size(r) /\ m = kHeaderSize + r.len
  BY <1>1 DEF Size
<1>4. Len(h \o q) = m /\ h \o q \in Seq(AllCells)
  <2>1. Len(h) = kHeaderSize /\ Len(q) = r.len
    BY <1>1, <1>2
  <2>2. h \o q \in Seq(AllCells) /\ Len(h \o q) = Len(h) + Len(q)
    BY ConcatProperties
  <2> QED BY <1>3, <2>1, <2>2
<1>5. ASSUME NEW p \in 1 .. m PROVE (h \o q)[p] = Cell(r, p)
  <2>1. CASE p <= kHeaderSize
    BY <1>1, <1>2, <1>3, <2>1
  <2>2. CASE ~(p <= kHeaderSize)
    <3>1. PICK x \in 1 .. r.len : x = p - kHeaderSize
      BY <1>1, <1>3, <2>2
    <3>2. kHeaderSize + x = p /\ Len(h) = kHeaderSize /\ Len(q) = r.len
      BY <1>1, <1>2, <3>1
    <3>3. (h \o q)[Len(h) + x] = q[x]
      BY <3>1, <3>2, Behind
    <3> QED BY <1>1, <1>2, <3>1, <3>2, <3>3
  <2> QED BY <2>1, <2>2
<1>6. /\ SubSeq(f, o + 1, o + m) \in Seq(AllCells)
      /\ Len(SubSeq(f, o + 1, o + m)) = m
      /\ \A p \in 1 .. m : SubSeq(f, o + 1, o + m)[p] = Cell(r, p)
  <2>1. \A j \in o + 1 .. o + m : f[j] \in AllCells
    <3>1. ASSUME NEW j \in o + 1 .. o + m PROVE f[j] \in AllCells
      <4>1. PICK p \in 1 .. m : j = o + p
        <5>1. j - o \in 1 .. m /\ j = o + (j - o)
          OBVIOUS
        <5> QED BY <5>1
      <4> QED BY <1>1, <1>3, <4>1 DEF Piece
    <3> QED BY <3>1
  <2>2. /\ SubSeq(f, o + 1, o + m) \in Seq(AllCells)
        /\ Len(SubSeq(f, o + 1, o + m)) = IF o + 1 <= o + m THEN o + m - (o + 1) + 1 ELSE 0
        /\ \A p \in 1 .. o + m - (o + 1) + 1 : SubSeq(f, o + 1, o + m)[p] = f[o + 1 + p - 1]
    BY <2>1, SubSeqProperties
  <2>3. o + m - (o + 1) + 1 = m /\ \A p \in 1 .. m : o + 1 + p - 1 = o + p
    OBVIOUS
  <2>4. \A p \in 1 .. m : SubSeq(f, o + 1, o + m)[p] = Cell(r, p)
    BY <1>3, <2>2, <2>3 DEF Piece
  <2>5. Len(SubSeq(f, o + 1, o + m)) = m
    BY <2>2, <2>3
  <2> QED BY <2>2, <2>4, <2>5
<1>7. SubSeq(f, o + 1, o + m) = h \o q
  BY <1>4, <1>5, <1>6, SeqEqual
<1> QED BY <1>2, <1>3, <1>7

\* Once AddLog has returned, its record is on disk in one piece and stays
\* there through every crash, for every size of buffer, header and payload,
\* an empty payload included, unless its fsync has failed.
THEOREM AckedStaysOnDisk == Spec => []AckedOnDisk
<1>1. LogInv /\ AckInv => AckedOnDisk
  <2> SUFFICES ASSUME LogInv, AckInv, NEW r \in ToSet(acked)
               PROVE  \E o \in 0 .. synced :
                          /\ o + kHeaderSize + r.len <= synced
                          /\ SubSeq(file, o + 1, o + kHeaderSize + r.len) = Header(r) \o Payload(r)
    BY DEF AckedOnDisk
  <2>1. r \in Records /\ OnDisk(r) /\ FileInv /\ file \in Seq(Bytes)
    BY DEF AckInv, ToSet, LogInv, FileInv, FileTypeOK
  <2>2. PICK o \in Nat : o + Size(r) <= synced /\ Piece(file, o, r)
    BY <2>1 DEF OnDisk
  <2>3. r.len \in Nat /\ kHeaderSize \in Nat /\ Size(r) = kHeaderSize + r.len
    BY <2>1, RecordBytes DEF Size
  <2>4. synced \in Nat /\ synced <= Len(file) /\ Len(file) \in Nat
    BY <2>1, FileIsPrefix
  <2>5. o + Size(r) <= Len(file) /\ o \in 0 .. synced /\ o + kHeaderSize + r.len = o + Size(r)
    BY <2>2, <2>3, <2>4
  <2>6. SubSeq(file, o + 1, o + Size(r)) = Header(r) \o Payload(r)
    BY <2>1, <2>2, <2>5, PieceIsRecord
  <2> QED BY <2>2, <2>5, <2>6
<1> QED BY <1>1, AckInductive, PTL

(***************************************************************************)
(* Types.                                                                  *)
(***************************************************************************)

\* The header at offset_ is that of a record.
LEMMA HeaderType ==
    ASSUME FileInv, AckInv, offset_ \in Nat, ~ReadFails(kHeaderSize), NEW hdr,
           hdr = SubSeq(file, offset_ + 1, offset_ + kHeaderSize)
    PROVE  /\ [id |-> hdr[1].id, len |-> hdr[1].len] \in Records
           /\ offset_ + kHeaderSize <= Len(file)
           /\ Len(hdr) = kHeaderSize
           /\ \A p \in 1 .. kHeaderSize : hdr[p] = file[offset_ + p]
<1>1. kHeaderSize \in Nat /\ kHeaderSize >= 1
  BY WALAssumption
<1>2. Len(file) \in Nat /\ offset_ + kHeaderSize <= Len(file)
  BY <1>1, FileIsPrefix DEF ReadFails
<1>3. \A j \in 1 .. Len(file) : file[j] \in AllCells
  BY FileIsPrefix DEF AckInv
<1>4. \A j \in offset_ + 1 .. offset_ + kHeaderSize : file[j] \in AllCells
  BY <1>1, <1>2, <1>3
<1>5. /\ Len(hdr) = IF offset_ + 1 <= offset_ + kHeaderSize
                    THEN offset_ + kHeaderSize - (offset_ + 1) + 1 ELSE 0
      /\ \A p \in 1 .. offset_ + kHeaderSize - (offset_ + 1) + 1 : hdr[p] = file[offset_ + 1 + p - 1]
  BY <1>1, <1>4, SubSeqProperties
<1>6. Len(hdr) = kHeaderSize /\ \A p \in 1 .. kHeaderSize : hdr[p] = file[offset_ + p]
  <2>1. offset_ + kHeaderSize - (offset_ + 1) + 1 = kHeaderSize
    BY <1>1
  <2>2. \A p \in 1 .. kHeaderSize : offset_ + 1 + p - 1 = offset_ + p
    BY <1>1
  <2>3. offset_ + 1 <= offset_ + kHeaderSize
    BY <1>1
  <2>4. Len(hdr) = kHeaderSize
    BY <1>5, <2>1, <2>3
  <2>5. ASSUME NEW p \in 1 .. kHeaderSize PROVE hdr[p] = file[offset_ + p]
    <3>1. hdr[p] = file[offset_ + 1 + p - 1]
      BY <1>5, <2>1
    <3> QED BY <2>2, <3>1
  <2> QED BY <2>4, <2>5
<1>7. hdr[1] \in AllCells
  BY <1>1, <1>4, <1>6
<1> QED BY <1>2, <1>6, <1>7 DEF AllCells, Records

\* The reader's types, under steps of its own and of the writer.
LEMMA LogTypes == LogInv /\ LogInv' /\ AckInv /\ AckInv' /\ TypeOK /\ [Next]_vars => TypeOK'
<1> SUFFICES ASSUME LogInv, LogInv', AckInv, AckInv', TypeOK, [Next]_vars PROVE TypeOK'
  OBVIOUS
<1>1. /\ FileInv /\ FileTypeOK' /\ rec' \in Records \cup {NoRecord} /\ acked' \in Seq(Records)
      /\ [FileNext]_fileVars /\ file' \in Seq(Bytes) /\ Len(file) \in Nat
  BY LogStep, FileIsPrefix DEF LogInv, FileInv, AckInv, FileTypeOK
<1>2. /\ pc \in {"idle", "payload", "sync"} /\ torn \in BOOLEAN /\ sound \in Seq(Records)
      /\ offset_ \in 0 .. Len(file) /\ want \in Records \cup {NoRecord} /\ got \in Seq(Records)
      /\ status \in {"Success", "ExecFailed", "Corruption"} /\ crashes \in 0 .. MaxCrashes
  BY DEF TypeOK
<1>3. MaxCrashes \in Nat /\ kHeaderSize \in Nat /\ Len(file') \in Nat /\ offset_ \in Nat
  BY <1>1, <1>2, WALAssumption
<1>4. CASE Restart
  <2>1. /\ pc' = "idle" /\ torn' \in BOOLEAN /\ sound' = sound /\ offset_' = 0 /\ want' = NoRecord
        /\ got' = <<>> /\ status' = "Success" /\ crashes' = crashes + 1 /\ crashes < MaxCrashes
    BY <1>2, <1>4 DEF Restart, NewReader, EndsTorn
  <2>2. offset_' \in 0 .. Len(file') /\ crashes' \in 0 .. MaxCrashes
    BY <1>2, <1>3, <2>1
  <2> QED BY <1>1, <1>2, <2>1, <2>2 DEF TypeOK
<1>5. CASE (\E len \in Lens : AddHeader(len)) \/ AddPayload \/ SyncLog \/ Writing \/ UNCHANGED vars
  <2>1. /\ UNCHANGED <<offset_, want, got, status, crashes, torn>>
        /\ pc' \in {"idle", "payload", "sync"}
        /\ sound' \in {sound, acked'}
    BY <1>2, <1>5 DEF AddHeader, AddPayload, SyncLog, Writing, vars, writerVars, readerVars
  <2>2. Len(file) <= Len(file')
    <3>1. \/ file' = file
          \/ file' = file \o buffer
      BY <1>5 DEF AddHeader, AddPayload, SyncLog, Writing, AppendData, AppendStep, Persist, Copy,
                  AppendEnd, Sync, vars, fileVars
    <3> QED BY <1>1, <3>1, WriteOut
  <2>3. offset_' \in 0 .. Len(file')
    BY <1>1, <1>2, <1>3, <2>1, <2>2
  <2> QED BY <1>1, <1>2, <2>1, <2>3 DEF TypeOK
<1>6. ASSUME file' = file, pc' = pc, torn' = torn, sound' = sound, crashes' = crashes,
             offset_' \in 0 .. Len(file), want' \in Records \cup {NoRecord}, got' \in Seq(Records),
             status' \in {"Success", "ExecFailed", "Corruption"}
      PROVE  TypeOK'
  BY <1>1, <1>2, <1>6 DEF TypeOK
<1>7. CASE ReadEnd
  BY <1>2, <1>6, <1>7 DEF ReadEnd, fileVars, writerVars
<1>8. CASE ReadHeader
  <2>1. PICK hdr : hdr = SubSeq(file, offset_ + 1, offset_ + kHeaderSize)
    OBVIOUS
  <2>2. /\ [id |-> hdr[1].id, len |-> hdr[1].len] \in Records
        /\ offset_ + kHeaderSize <= Len(file)
    BY <1>1, <1>3, <1>8, <2>1, HeaderType DEF ReadHeader
  <2>3. /\ offset_' = offset_ + kHeaderSize /\ got' = got
        /\ want' \in {want, [id |-> hdr[1].id, len |-> hdr[1].len]}
        /\ status' \in {status, "Corruption"}
        /\ UNCHANGED <<file, pc, torn, sound, crashes>>
    BY <1>8, <2>1 DEF ReadHeader, fileVars, writerVars
  <2>4. offset_' \in 0 .. Len(file)
    BY <1>1, <1>3, <2>2, <2>3
  <2> QED BY <1>2, <1>6, <2>2, <2>3, <2>4
<1>9. CASE ReadPayload
  <2>1. want \in Records
    BY <1>2, <1>9 DEF ReadPayload
  <2>2. want.len \in Nat /\ want' = NoRecord /\ UNCHANGED <<file, pc, torn, sound, crashes>>
    BY <1>9, <2>1, RecordBytes DEF ReadPayload, fileVars, writerVars
  <2>3. /\ got' = got \/ got' = Append(got, want)
        /\ status' \in {"Success", "Corruption"}
        /\ offset_' = offset_ \/ (offset_' = offset_ + want.len /\ ~ReadFails(want.len))
    BY <1>9 DEF ReadPayload
  <2>4. offset_' \in 0 .. Len(file)
    BY <1>1, <1>2, <1>3, <2>2, <2>3 DEF ReadFails
  <2>5. got' \in Seq(Records)
    BY <1>2, <2>1, <2>3
  <2> QED BY <1>6, <2>2, <2>3, <2>4, <2>5
<1> QED BY <1>4, <1>5, <1>7, <1>8, <1>9 DEF Next, ReadLog

\* The types of the log: every header the reader takes for one is that of a
\* record, and offset_ never leaves the file.
THEOREM LogTypeCorrect == Spec => []TypeOK
<1>1. Init => TypeOK
  <2> SUFFICES ASSUME Init PROVE TypeOK
    OBVIOUS
  <2>1. FileTypeOK /\ Len(file) = 0
    BY FileInitial DEF Init, FileInit, FileInv
  <2>2. 0 \in 0 .. 0 /\ 0 \in 0 .. MaxCrashes
    BY WALAssumption
  <2>3. offset_ \in 0 .. Len(file)
    BY <2>1 DEF Init
  <2>4. rec \in Records \cup {NoRecord} /\ want \in Records \cup {NoRecord} /\ torn \in BOOLEAN
    BY DEF Init
  <2>5. acked \in Seq(Records) /\ sound \in Seq(Records) /\ got \in Seq(Records)
    BY DEF Init
  <2>6. crashes \in 0 .. MaxCrashes
    BY <2>2 DEF Init
  <2> QED BY <2>1, <2>3, <2>4, <2>5, <2>6 DEF Init, TypeOK
<1> QED BY <1>1, AckInductive, LogTypes, PTL DEF Spec

(***************************************************************************)
(* The records in one piece.                                               *)
(***************************************************************************)

\* The fields of a byte, and of a byte of its record.
LEMMA CellFields ==
    ASSUME NEW c \in AllCells \cup Records
    PROVE  /\ c.len \in Nat /\ c.len \in Lens /\ c.id \in 1 .. MaxLogs
           /\ Size(c) \in Nat /\ Size(c) >= kHeaderSize /\ Size(c) >= 1
           /\ kHeaderSize \in Nat /\ kHeaderSize >= 1
           /\ \A p \in Nat : /\ Cell(c, p).pos = p
                             /\ Cell(c, p).id = c.id
                             /\ Cell(c, p).len = c.len
                             /\ Size(Cell(c, p)) = Size(c)
<1>1. c.len \in Lens /\ c.id \in 1 .. MaxLogs
  BY DEF AllCells, Records
<1>2. \A x \in Lens : x \in Nat
  BY WALAssumption
<1>3. kHeaderSize \in Nat /\ kHeaderSize >= 1
  BY WALAssumption
<1>4. Size(c) \in Nat /\ Size(c) >= kHeaderSize /\ Size(c) >= 1
  BY <1>1, <1>2, <1>3 DEF Size
<1>5. \A p \in Nat : /\ Cell(c, p).pos = p
                     /\ Cell(c, p).id = c.id
                     /\ Cell(c, p).len = c.len
                     /\ Size(Cell(c, p)) = Size(c)
  BY DEF Cell, Size
<1> QED BY <1>1, <1>2, <1>3, <1>4, <1>5

\* The record that begins at a boundary.
LEMMA AtBoundary ==
    ASSUME NEW h, NEW T \in Nat, \A j \in 1 .. T : h[j] \in AllCells, Structured(h, T),
           NEW b \in Nat, b < T, Boundary(h, b)
    PROVE  /\ h[b + 1] \in AllCells
           /\ \A p \in 1 .. Size(h[b + 1]) : b + p <= T => h[b + p] = Cell(h[b + 1], p)
<1>1. PICK j \in 1 .. T : j = b + 1
  OBVIOUS
<1>2. PICK c \in AllCells : c = h[j]
  BY <1>1
<1>3. /\ c.pos \in 1 .. Size(c) /\ c.pos <= j
      /\ \A p \in 1 .. Size(c) : j - c.pos + p <= T => h[j - c.pos + p] = Cell(c, p)
  BY <1>2 DEF Structured
<1>4. Size(c) \in Nat /\ Size(c) >= 1 /\ \A p \in Nat : Cell(c, p).pos = p /\ Size(Cell(c, p)) = Size(c)
  BY CellFields
<1>5. c.pos = 1
  <2> SUFFICES ASSUME c.pos # 1 PROVE FALSE
    OBVIOUS
  <2>1. PICK q \in 1 .. Size(c) : q = c.pos - 1 /\ q < Size(c)
    <3>1. c.pos - 1 \in 1 .. Size(c) /\ c.pos - 1 < Size(c)
      BY <1>3, <1>4
    <3> QED BY <3>1
  <2>2. j - c.pos + q = b /\ b <= T /\ b # 0
    BY <1>1, <1>3, <1>4, <2>1
  <2>3. h[b] = Cell(c, q)
    BY <1>3, <2>1, <2>2
  <2>4. Cell(c, q).pos = Size(Cell(c, q))
    BY <2>2, <2>3 DEF Boundary, Whole
  <2> QED BY <1>4, <2>1, <2>4
<1>6. \A p \in 1 .. Size(c) : j - c.pos + p = b + p
  BY <1>1, <1>4, <1>5
<1>7. \A p \in 1 .. Size(c) : b + p <= T => h[b + p] = Cell(c, p)
  BY <1>3, <1>6
<1> QED BY <1>1, <1>2, <1>7

\* A record that begins before a boundary ends before it.
LEMMA EndsBefore ==
    ASSUME NEW h, NEW b \in Nat, Boundary(h, b), NEW r \in Records, NEW o \in Nat, o < b,
           Piece(h, o, r)
    PROVE  o + Size(r) <= b
<1> SUFFICES ASSUME ~(o + Size(r) <= b) PROVE FALSE
  OBVIOUS
<1>1. Size(r) \in Nat /\ \A p \in Nat : Cell(r, p).pos = p /\ Size(Cell(r, p)) = Size(r)
  BY CellFields
<1>2. PICK p \in 1 .. Size(r) : p = b - o /\ p < Size(r)
  <2>1. b - o \in 1 .. Size(r) /\ b - o < Size(r)
    BY <1>1
  <2> QED BY <2>1
<1>3. o + p = b /\ b # 0
  BY <1>1, <1>2
<1>4. h[b] = Cell(r, p)
  BY <1>2, <1>3 DEF Piece
<1>5. Cell(r, p).pos = Size(Cell(r, p))
  BY <1>3, <1>4 DEF Boundary, Whole
<1> QED BY <1>1, <1>2, <1>5

\* When a record is complete behind a boundary, so is the first one there.
LEMMA FirstIsComplete ==
    ASSUME NEW h, NEW T \in Nat, \A j \in 1 .. T : h[j] \in AllCells, Structured(h, T),
           NEW b \in Nat, Boundary(h, b), NEW r \in Records, NEW o \in Nat, b <= o,
           Within(h, T, o, r)
    PROVE  /\ b < T
           /\ h[b + 1] \in AllCells
           /\ b + Size(h[b + 1]) <= o + Size(r)
           /\ o # b => b + Size(h[b + 1]) <= o
           /\ o = b => h[b + 1] = Cell(r, 1)
           /\ b + Size(h[b + 1]) <= T
           /\ \A p \in 1 .. Size(h[b + 1]) : h[b + p] = Cell(h[b + 1], p)
<1>1. /\ Size(r) \in Nat /\ Size(r) >= 1
      /\ \A p \in Nat : Cell(r, p).pos = p /\ Size(Cell(r, p)) = Size(r)
  BY CellFields
<1>2. o + Size(r) <= T /\ h[o + 1] = Cell(r, 1) /\ o + 1 <= T
  BY <1>1 DEF Within, Piece
<1>3. b < T
  BY <1>1, <1>2
<1>4. PICK c \in AllCells : c = h[b + 1]
  BY <1>3, AtBoundary
<1>5. \A p \in 1 .. Size(c) : b + p <= T => h[b + p] = Cell(c, p)
  BY <1>3, <1>4, AtBoundary
<1>6. Size(c) \in Nat /\ \A p \in Nat : Cell(c, p).pos = p
  BY CellFields
<1>7. o = b => c = Cell(r, 1)
  BY <1>2, <1>4
<1>8. ASSUME o # b PROVE b + Size(c) <= o
  <2> SUFFICES ASSUME ~(b + Size(c) <= o) PROVE FALSE
    OBVIOUS
  <2>1. PICK p \in 1 .. Size(c) : p = o + 1 - b /\ p # 1
    <3>1. o + 1 - b \in 1 .. Size(c) /\ o + 1 - b # 1
      BY <1>6, <1>8
    <3> QED BY <3>1
  <2>2. b + p = o + 1
    BY <2>1
  <2>3. Cell(c, p) = Cell(r, 1)
    BY <1>2, <1>5, <2>2
  <2> QED BY <1>1, <1>6, <2>1, <2>3
<1>9. b + Size(c) <= o + Size(r)
  <2>1. CASE o = b
    BY <1>1, <1>7, <2>1
  <2>2. CASE o # b
    BY <1>1, <1>6, <1>8, <2>2
  <2> QED BY <2>1, <2>2
<1>10. b + Size(c) <= T
  BY <1>1, <1>2, <1>6, <1>9
<1>11. \A p \in 1 .. Size(c) : h[b + p] = Cell(c, p)
  BY <1>5, <1>6, <1>10
<1> QED BY <1>3, <1>4, <1>7, <1>8, <1>9, <1>10, <1>11

\* A first part of what is in one piece is in one piece.
LEMMA CutStructured ==
    ASSUME NEW h, NEW T \in Nat, \A j \in 1 .. T : h[j] \in AllCells, Structured(h, T),
           NEW n \in Nat, n <= T, NEW g, \A j \in 1 .. n : g[j] = h[j]
    PROVE  Structured(g, n)
<1> SUFFICES ASSUME NEW j \in 1 .. n
             PROVE  /\ g[j].pos \in 1 .. Size(g[j])
                    /\ g[j].pos <= j
                    /\ \A p \in 1 .. Size(g[j]) :
                           j - g[j].pos + p <= n => g[j - g[j].pos + p] = Cell(g[j], p)
                    /\ j = g[j].pos \/ Whole(g[j - g[j].pos])
  BY DEF Structured
<1>1. PICK c \in AllCells : c = h[j] /\ c = g[j]
  OBVIOUS
<1>2. Size(c) \in Nat
  BY CellFields
<1>3. /\ c.pos \in 1 .. Size(c) /\ c.pos <= j
      /\ \A p \in 1 .. Size(c) : j - c.pos + p <= T => h[j - c.pos + p] = Cell(c, p)
      /\ j = c.pos \/ Whole(h[j - c.pos])
  <2>1. j \in 1 .. T
    OBVIOUS
  <2> QED BY <1>1, <2>1 DEF Structured
<1>4. ASSUME NEW p \in 1 .. Size(c), j - c.pos + p <= n PROVE g[j - c.pos + p] = Cell(c, p)
  <2>1. j - c.pos + p \in 1 .. n /\ j - c.pos + p <= T
    BY <1>2, <1>3, <1>4
  <2> QED BY <1>3, <2>1
<1>5. j = c.pos \/ Whole(g[j - c.pos])
  <2>1. j # c.pos => j - c.pos \in 1 .. n
    BY <1>2, <1>3
  <2> QED BY <1>3, <2>1
<1> QED BY <1>1, <1>3, <1>4, <1>5

\* The record r has its first m bytes at the end of h; up to n of them
\* leave it in one piece.
LEMMA ExtendStructured ==
    ASSUME NEW h, NEW T \in Nat, \A j \in 1 .. T : h[j] \in AllCells, Structured(h, T),
           NEW o \in Nat, Boundary(h, o), NEW r \in Records,
           NEW m \in Nat, NEW n \in Nat, m <= n, n <= Size(r), T = o + m,
           NEW g, \A j \in 1 .. T : g[j] = h[j], \A p \in 1 .. n : g[o + p] = Cell(r, p)
    PROVE  Structured(g, o + n)
<1>1. /\ Size(r) \in Nat /\ \A p \in Nat : /\ Cell(r, p).pos = p /\ Cell(r, p).id = r.id
                                           /\ Cell(r, p).len = r.len /\ Size(Cell(r, p)) = Size(r)
  BY CellFields
<1> SUFFICES ASSUME NEW j \in 1 .. o + n
             PROVE  /\ g[j].pos \in 1 .. Size(g[j])
                    /\ g[j].pos <= j
                    /\ \A p \in 1 .. Size(g[j]) :
                           j - g[j].pos + p <= o + n => g[j - g[j].pos + p] = Cell(g[j], p)
                    /\ j = g[j].pos \/ Whole(g[j - g[j].pos])
  BY DEF Structured
<1>2. CASE j <= T
  <2>1. j \in 1 .. T
    BY <1>2
  <2>2. PICK c \in AllCells : c = h[j] /\ c = g[j]
    BY <2>1
  <2>3. /\ Size(c) \in Nat /\ \A p \in Nat : /\ Cell(c, p).pos = p /\ Cell(c, p).id = c.id
                                             /\ Cell(c, p).len = c.len /\ Size(Cell(c, p)) = Size(c)
    BY CellFields
  <2>4. /\ c.pos \in 1 .. Size(c) /\ c.pos <= j
        /\ \A p \in 1 .. Size(c) : j - c.pos + p <= T => h[j - c.pos + p] = Cell(c, p)
        /\ j = c.pos \/ Whole(h[j - c.pos])
    BY <2>1, <2>2 DEF Structured
  <2>5. PICK s \in Nat : s = j - c.pos
    <3>1. j - c.pos \in Nat
      BY <2>3, <2>4
    <3> QED BY <3>1
  <2>6. ASSUME NEW p \in 1 .. Size(c), s + p <= o + n PROVE g[s + p] = Cell(c, p)
    <3>1. CASE s + p <= T
      <4>1. s + p \in 1 .. T
        BY <3>1
      <4> QED BY <2>4, <2>5, <3>1, <4>1
    <3>2. CASE ~(s + p <= T)
      <4>1. PICK q \in 1 .. Size(c) : q = T - s /\ q < Size(c)
        <5>1. T - s \in 1 .. Size(c) /\ T - s < Size(c)
          BY <2>1, <2>3, <2>4, <2>5, <2>6, <3>2
        <5> QED BY <5>1
      <4>2. s + q = T
        BY <4>1
      <4>3. h[T] = Cell(c, q)
        BY <2>4, <2>5, <4>1, <4>2
      <4>4. CASE m = 0
        <5>1. T = o /\ o # 0
          BY <2>1, <4>4
        <5>2. Cell(c, q).pos = Size(Cell(c, q))
          BY <4>3, <5>1 DEF Boundary, Whole
        <5> QED BY <2>3, <4>1, <5>2
      <4>5. CASE m # 0
        <5>1. h[T] = Cell(r, m)
          <6>1. m \in 1 .. n /\ T \in 1 .. T
            BY <4>5
          <6> QED BY <6>1
        <5>2. q = m /\ c.id = r.id /\ c.len = r.len
          BY <1>1, <2>3, <4>1, <4>3, <5>1
        <5>3. s = o
          BY <4>2, <5>2
        <5>4. p \in 1 .. n
          BY <2>3, <2>6, <5>3
        <5>5. g[o + p] = Cell(r, p) /\ Cell(r, p) = Cell(c, p)
          BY <5>2, <5>4 DEF Cell
        <5> QED BY <5>3, <5>5
      <4> QED BY <4>4, <4>5
    <3> QED BY <3>1, <3>2
  <2>7. j = c.pos \/ Whole(g[s])
    <3>1. c.pos \in Nat /\ j \in 1 .. T
      BY <2>1, <2>3, <2>4
    <3>2. j # c.pos => s \in 1 .. T
      BY <2>5, <3>1
    <3> QED BY <2>4, <2>5, <3>2
  <2> QED BY <2>2, <2>4, <2>5, <2>6, <2>7
<1>3. CASE ~(j <= T)
  <2>1. PICK q \in 1 .. n : q = j - o
    <3>1. j - o \in 1 .. n
      BY <1>3
    <3> QED BY <3>1
  <2>2. o + q = j /\ q \in Nat /\ q \in 1 .. Size(r)
    BY <1>1, <2>1
  <2>3. g[j] = Cell(r, q)
    BY <2>1, <2>2
  <2>4. g[j].pos = q /\ Size(g[j]) = Size(r) /\ g[j].id = r.id /\ g[j].len = r.len
    BY <1>1, <2>2, <2>3
  <2>5. j - q = o
    BY <2>2
  <2>6. ASSUME NEW p \in 1 .. Size(r), o + p <= o + n PROVE g[o + p] = Cell(g[j], p)
    <3>1. p \in 1 .. n
      BY <1>1, <2>6
    <3>2. Cell(g[j], p) = Cell(r, p)
      BY <2>4 DEF Cell
    <3> QED BY <3>1, <3>2
  <2>7. j = q \/ Whole(g[o])
    <3>1. o # 0 => o \in 1 .. T
      OBVIOUS
    <3> QED BY <2>2, <3>1 DEF Boundary
  <2> QED BY <2>2, <2>4, <2>5, <2>6, <2>7
<1> QED BY <1>2, <1>3

(***************************************************************************)
(* A reader returns every record up to the first torn one.                 *)
(***************************************************************************)

\* Only the first T bytes count.
LEMMA SameBytes ==
    ASSUME NEW h, NEW g, NEW T \in Nat, \A j \in 1 .. T : g[j] = h[j]
    PROVE  /\ \A o \in Nat : \A r \in Records : Within(g, T, o, r) <=> Within(h, T, o, r)
           /\ \A b \in Nat : b <= T => (Boundary(g, b) <=> Boundary(h, b))
<1>1. ASSUME NEW o \in Nat, NEW r \in Records PROVE Within(g, T, o, r) <=> Within(h, T, o, r)
  <2>1. Size(r) \in Nat
    BY CellFields
  <2>2. o + Size(r) <= T => \A p \in 1 .. Size(r) : g[o + p] = h[o + p]
    BY <2>1
  <2> QED BY <2>2 DEF Within, Piece
<1>2. ASSUME NEW b \in Nat, b <= T PROVE Boundary(g, b) <=> Boundary(h, b)
  <2>1. b # 0 => g[b] = h[b]
    BY <1>2
  <2> QED BY <2>1 DEF Boundary
<1> QED BY <1>1, <1>2

\* What the three invariants say of the log's numbers.
LEMMA LogNumbers ==
    ASSUME LogInv, AckInv, TypeOK
    PROVE  /\ Len(handed) \in Nat /\ Len(file) \in Nat /\ synced \in Nat
           /\ synced <= Len(file) /\ Len(file) <= Len(handed)
           /\ \A j \in 1 .. Len(handed) : handed[j] \in AllCells
           /\ \A j \in 1 .. Len(file) : file[j] = handed[j]
           /\ offset_ \in Nat /\ offset_ <= Len(file)
           /\ \A r \in ToSet(sound) : r \in Records
<1>1. /\ Len(handed) \in Nat /\ Len(file) \in Nat /\ synced \in Nat
      /\ synced <= Len(file) /\ Len(file) <= Len(handed)
      /\ \A j \in 1 .. Len(file) : file[j] = handed[j]
  BY FileIsPrefix DEF LogInv
<1>2. \A j \in 1 .. Len(handed) : handed[j] \in AllCells
  BY DEF AckInv
<1>3. offset_ \in 0 .. Len(file) /\ sound \in Seq(Records)
  BY DEF TypeOK
<1>4. \A r \in ToSet(sound) : r \in Records
  BY <1>3 DEF ToSet
<1> QED BY <1>1, <1>2, <1>3, <1>4

\* Where the reader is.
LEMMA StartInFile ==
    ASSUME LogInv, AckInv, TypeOK, HeaderRead
    PROVE  RecordStart \in Nat /\ RecordStart <= offset_
<1>1. offset_ \in Nat
  BY LogNumbers
<1>2. kHeaderSize \in Nat
  BY WALAssumption
<1>3. want # NoRecord => kHeaderSize <= offset_
  BY DEF HeaderRead
<1>4. CASE want = NoRecord
  BY <1>1, <1>4 DEF RecordStart
<1>5. CASE want # NoRecord
  BY <1>1, <1>2, <1>3, <1>5 DEF RecordStart
<1> QED BY <1>4, <1>5

\* AddLog hands over more of the record r: m of its bytes were there, now
\* n are.
LEMMA GrowKeeps ==
    ASSUME LogInv, AckInv, TypeOK, HeaderRead, NEW T \in Nat, Kept(T), Caught(T),
           NEW o \in Nat, NEW m \in Nat, NEW n \in Nat, NEW r \in Records, m <= n, n <= Size(r),
           Len(handed) = o + m, Len(handed') = o + n, ~torn => Boundary(handed, o),
           \A j \in 1 .. Len(handed) : handed'[j] = handed[j],
           \A p \in 1 .. n : handed'[o + p] = Cell(r, p),
           UNCHANGED <<file, synced, torn, sound, offset_, want, got, status>>, pc' # "idle"
    PROVE  \E U \in Nat : Kept(U)' /\ Caught(U)'
<1>1. /\ Len(handed) \in Nat /\ synced <= Len(file) /\ Len(file) <= Len(handed)
      /\ Len(file) \in Nat /\ synced \in Nat /\ offset_ \in Nat /\ offset_ <= Len(file)
      /\ \A j \in 1 .. Len(handed) : handed[j] \in AllCells
      /\ \A x \in ToSet(sound) : x \in Records
  BY LogNumbers
<1>2. RecordStart' = RecordStart /\ RecordStart \in Nat /\ RecordStart <= offset_
  BY StartInFile DEF RecordStart
<1>3. T <= Len(handed) /\ Structured(handed, T)
  BY DEF Kept
<1>4. /\ \A j \in 1 .. T : handed'[j] = handed[j] /\ handed[j] \in AllCells
  BY <1>1, <1>3
<1>5. /\ \A x \in Nat : \A y \in Records : Within(handed', T, x, y) <=> Within(handed, T, x, y)
      /\ \A b \in Nat : b <= T => (Boundary(handed', b) <=> Boundary(handed, b))
  BY <1>4, SameBytes
<1>6. \A x \in ToSet(sound) : \E q \in Nat : q + Size(x) <= synced /\ Within(handed, T, q, x)
  BY DEF Kept
<1>7. CASE torn
  <2>1. T <= synced
    BY <1>7 DEF Kept
  <2>2. Structured(handed', T)
    BY <1>3, <1>4, CutStructured
  <2>3. T <= Len(handed')
    BY <1>1, <1>3
  <2>4. \A x \in ToSet(sound) : \E q \in Nat : q + Size(x) <= synced /\ Within(handed', T, q, x)
    BY <1>1, <1>5, <1>6
  <2>5. Kept(T)'
    BY <1>7, <2>1, <2>2, <2>3, <2>4 DEF Kept
  <2>6. Caught(T)'
    BY <1>2, <1>5 DEF Caught
  <2> QED BY <2>5, <2>6
<1>8. CASE ~torn
  <2>1. T = Len(handed)
    BY <1>8 DEF Kept
  <2>2. PICK U \in Nat : U = o + n
    OBVIOUS
  <2>3. Structured(handed', U)
    BY <1>3, <1>4, <1>8, <2>1, <2>2, ExtendStructured
  <2>4. T <= U /\ U = Len(handed')
    BY <2>1, <2>2
  <2>5. ASSUME NEW x \in ToSet(sound)
        PROVE  \E q \in Nat : q + Size(x) <= synced /\ Within(handed', U, q, x)
    <3>1. PICK q \in Nat : q + Size(x) <= synced /\ Within(handed, T, q, x)
      BY <1>6
    <3>2. x \in Records /\ Size(x) \in Nat
      BY <1>1, CellFields
    <3>3. Within(handed', T, q, x)
      BY <1>5, <3>1, <3>2
    <3>4. Within(handed', U, q, x)
      BY <2>4, <3>2, <3>3 DEF Within
    <3> QED BY <3>1, <3>4
  <2>6. Kept(U)'
    BY <1>8, <2>3, <2>4, <2>5 DEF Kept
  <2>7. Caught(U)'
    <3> SUFFICES ASSUME status # "Corruption"
                 PROVE  /\ RecordStart <= U => Boundary(handed', RecordStart)
                        /\ \A q \in Nat : \A x \in Records :
                               q < RecordStart /\ Within(handed', U, q, x) => x \in ToSet(got)
      BY <1>2 DEF Caught
    <3>1. RecordStart <= T
      BY <1>1, <1>2, <2>1
    <3>2. Boundary(handed', RecordStart)
      BY <1>2, <1>5, <3>1 DEF Caught
    <3>3. ASSUME NEW q \in Nat, NEW x \in Records, q < RecordStart, Within(handed', U, q, x)
          PROVE  x \in ToSet(got)
      <4>1. q + Size(x) <= RecordStart
        BY <1>2, <3>2, <3>3, EndsBefore DEF Within
      <4>2. Size(x) \in Nat
        BY CellFields
      <4>3. Within(handed', T, q, x)
        BY <1>2, <3>1, <3>3, <4>1, <4>2 DEF Within
      <4>4. Within(handed, T, q, x)
        BY <1>5, <4>3
      <4> QED BY <3>3, <4>4 DEF Caught
    <3> QED BY <3>2, <3>3
  <2> QED BY <2>6, <2>7
<1> QED BY <1>7, <1>8

\* Steps that move the bytes on, and SyncLog, which makes the record sound.
LEMMA StillKeeps ==
    ASSUME LogInv, AckInv, TypeOK, LogInv', AckInv', TypeOK', NEW T \in Nat, Kept(T), Caught(T),
           SyncLog \/ Writing \/ UNCHANGED vars
    PROVE  Kept(T)' /\ Caught(T)'
<1>1. UNCHANGED <<handed, torn, offset_, want, got, status>>
  BY DEF SyncLog, Sync, Writing, AppendStep, Persist, Copy, AppendEnd, vars, fileVars, writerVars,
         readerVars
<1>2. Caught(T)'
  BY <1>1 DEF Caught, RecordStart
<1>3. synced <= synced' /\ synced \in Nat /\ synced' \in Nat /\ synced' <= Len(file')
      /\ Len(file') <= Len(handed') /\ Len(file') \in Nat /\ Len(handed') \in Nat
      /\ \A j \in 1 .. Len(file') : file'[j] = handed'[j]
  <2>1. [Next]_vars
    BY DEF Next
  <2>2. FileInv /\ [FileNext]_fileVars /\ FileInv'
    BY <2>1, LogStep DEF LogInv
  <2>3. synced <= synced' /\ synced \in Nat
    BY <2>2, DiskKept, FileIsPrefix
  <2>4. /\ file' \in Seq(Bytes) /\ buffer' \in Seq(Bytes) /\ rest' \in Seq(Bytes)
        /\ handed' = (file' \o buffer') \o rest' /\ synced' \in 0 .. Len(file')
    BY <2>2 DEF FileInv, FileTypeOK, NothingLost
  <2>5. PICK g \in Seq(Bytes) : g = file' \o buffer'
    BY <2>4, Behind
  <2>6. Len(g) = Len(file') + Len(buffer') /\ \A j \in 1 .. Len(file') : g[j] = file'[j]
    BY <2>4, <2>5, Behind
  <2>7. Len(handed') = Len(g) + Len(rest') /\ \A j \in 1 .. Len(g) : handed'[j] = g[j]
    BY <2>4, <2>5, Behind
  <2>8. Len(file') \in Nat /\ Len(buffer') \in Nat /\ Len(rest') \in Nat
    BY <2>4
  <2> QED BY <2>3, <2>4, <2>6, <2>7, <2>8
<1>4. \A r \in ToSet(sound) : r \in Records
  BY LogNumbers
<1>5. \A r \in ToSet(sound) : \E o \in Nat : o + Size(r) <= synced' /\ Within(handed', T, o, r)
  <2> SUFFICES ASSUME NEW r \in ToSet(sound)
               PROVE  \E o \in Nat : o + Size(r) <= synced' /\ Within(handed', T, o, r)
    OBVIOUS
  <2>1. PICK o \in Nat : o + Size(r) <= synced /\ Within(handed, T, o, r)
    BY DEF Kept
  <2>2. Size(r) \in Nat
    BY <1>4, CellFields
  <2>3. o + Size(r) <= synced'
    BY <1>3, <2>1, <2>2
  <2> QED BY <1>1, <2>1, <2>3
<1>6. CASE SyncLog /\ ~torn
  <2>1. pc = "sync" /\ sound' = acked' /\ T = Len(handed)
    BY <1>6 DEF SyncLog, Kept
  <2>2. rec \in Records /\ Size(rec) <= Len(handed) /\ Piece(handed, Len(handed) - Size(rec), rec)
    BY <2>1 DEF AckInv, Tail_
  <2>3. /\ Size(rec) \in Nat /\ Size(rec) >= 1
        /\ \A p \in Nat : Cell(rec, p).pos = p /\ Size(Cell(rec, p)) = Size(rec)
    BY <2>2, CellFields
  <2>4. handed[T] = Cell(rec, Size(rec))
    <3>1. Len(handed) - Size(rec) + Size(rec) = T /\ Size(rec) \in 1 .. Size(rec)
      BY <2>1, <2>3
    <3> QED BY <2>2, <3>1 DEF Piece
  <2>5. Boundary(handed', T)
    BY <1>1, <2>3, <2>4 DEF Boundary, Whole
  <2>6. ASSUME NEW r \in ToSet(acked')
        PROVE  \E o \in Nat : o + Size(r) <= synced' /\ Within(handed', T, o, r)
    <3>1. PICK o \in Nat : o + Size(r) <= synced' /\ Piece(file', o, r)
      BY DEF AckInv, OnDisk
    <3>2. r \in Records
      BY DEF AckInv, ToSet
    <3>3. Size(r) \in Nat
      BY <3>2, CellFields
    <3>4. \A p \in 1 .. Size(r) : o + p \in 1 .. Len(file')
      BY <1>3, <3>1, <3>3
    <3>5. Piece(handed', o, r)
      BY <1>3, <3>1, <3>4 DEF Piece
    <3>6. o + Size(r) <= T
      BY <1>1, <1>3, <2>1, <3>1, <3>3
    <3> QED BY <3>1, <3>5, <3>6 DEF Within
  <2>7. Kept(T)'
    BY <1>1, <1>6, <2>1, <2>5, <2>6 DEF Kept
  <2> QED BY <1>2, <2>7
<1>7. CASE SyncLog /\ torn
  <2>1. sound' = sound
    BY <1>7 DEF SyncLog
  <2>2. T <= synced'
    BY <1>3, <1>7 DEF Kept
  <2>3. Kept(T)'
    BY <1>1, <1>5, <1>7, <2>1, <2>2 DEF Kept
  <2> QED BY <1>2, <2>3
<1>8. CASE Writing \/ UNCHANGED vars
  <2>1. sound' = sound /\ pc' = pc
    BY <1>8 DEF Writing, vars, writerVars
  <2>2. torn => T <= synced'
    BY <1>3 DEF Kept
  <2>3. Kept(T)'
    BY <1>1, <1>5, <2>1, <2>2 DEF Kept
  <2> QED BY <1>2, <2>3
<1> QED BY <1>6, <1>7, <1>8

\* AddLog appends the header behind the last record, and the payload behind
\* the header.
LEMMA AddKeeps ==
    ASSUME LogInv, AckInv, TypeOK, AckInv', HeaderRead, NEW T \in Nat, Kept(T), Caught(T),
           (\E len \in Lens : AddHeader(len)) \/ AddPayload
    PROVE  \E U \in Nat : Kept(U)' /\ Caught(U)'
<1>1. /\ Len(handed) \in Nat /\ handed \in Seq(AllCells) /\ handed' \in Seq(AllCells)
      /\ \A j \in 1 .. Len(handed) : handed[j] \in AllCells
  BY LogNumbers DEF AckInv
<1>2. UNCHANGED <<file, synced, torn, sound, offset_, want, got, status>> /\ pc' # "idle"
  BY DEF AddHeader, AddPayload, AppendData, readerVars
<1>3. ~torn => T = Len(handed) /\ Structured(handed, T)
  BY DEF Kept
<1>4. ASSUME NEW len \in Lens, AddHeader(len) PROVE \E U \in Nat : Kept(U)' /\ Caught(U)'
  <2>1. pc' = "payload" /\ pc = "idle" /\ handed' = handed \o Header(rec')
    BY <1>4 DEF AddHeader, AppendData
  <2>2. PICK r \in Records : r = rec'
    BY <2>1 DEF AckInv, Tail_
  <2>3. /\ Header(r) \in Seq(AllCells) /\ Len(Header(r)) = kHeaderSize /\ kHeaderSize \in Nat
        /\ \A p \in 1 .. kHeaderSize : Header(r)[p] = Cell(r, p)
    BY RecordBytes
  <2>4. PICK o \in Nat, m \in Nat, n \in Nat, x \in Seq(AllCells) :
            o = Len(handed) /\ m = 0 /\ n = kHeaderSize /\ x = Header(r)
    BY <1>1, <2>3
  <2>5. n <= Size(r) /\ m <= n /\ Len(handed) = o + m
    BY <2>4, CellFields
  <2>6. /\ Len(handed') = o + n
        /\ \A j \in 1 .. Len(handed) : handed'[j] = handed[j]
        /\ \A p \in 1 .. n : handed'[o + p] = Cell(r, p)
    <3>1. handed' = handed \o x
      BY <2>1, <2>2, <2>4
    <3>2. /\ Len(handed') = Len(handed) + Len(x)
          /\ \A j \in 1 .. Len(handed) : handed'[j] = handed[j]
          /\ \A p \in 1 .. Len(x) : handed'[Len(handed) + p] = x[p]
      BY <1>1, <3>1, Behind
    <3> QED BY <2>3, <2>4, <3>2
  <2>7. ~torn => Boundary(handed, o)
    BY <1>3, <2>1, <2>4 DEF Kept
  <2> QED BY <1>2, <2>5, <2>6, <2>7, GrowKeeps
<1>5. CASE AddPayload
  <2>1. pc' = "sync" /\ pc = "payload" /\ handed' = handed \o Payload(rec) /\ rec \in Records
    BY <1>5 DEF AddPayload, AppendData, AckInv, Tail_
  <2>2. PICK r \in Records : r = rec
    BY <2>1
  <2>3. /\ Payload(r) \in Seq(AllCells) /\ Len(Payload(r)) = r.len /\ kHeaderSize \in Nat
        /\ r.len \in Nat /\ kHeaderSize >= 1 /\ Size(r) = kHeaderSize + r.len
        /\ \A p \in 1 .. r.len : Payload(r)[p] = Cell(r, kHeaderSize + p)
    BY RecordBytes DEF Size
  <2>4. /\ kHeaderSize <= Len(handed)
        /\ \A p \in 1 .. kHeaderSize : handed[Len(handed) - kHeaderSize + p] = Cell(r, p)
    BY <2>1, <2>2 DEF AckInv, Tail_
  <2>5. PICK o \in Nat, m \in Nat, n \in Nat, x \in Seq(AllCells) :
            o = Len(handed) - kHeaderSize /\ m = kHeaderSize /\ n = Size(r) /\ x = Payload(r)
    <3>1. Len(handed) - kHeaderSize \in Nat /\ Size(r) \in Nat
      BY <1>1, <2>3, <2>4
    <3> QED BY <2>3, <3>1
  <2>6. n <= Size(r) /\ m <= n /\ Len(handed) = o + m
    BY <1>1, <2>3, <2>5
  <2>7. /\ Len(handed') = o + n
        /\ \A j \in 1 .. Len(handed) : handed'[j] = handed[j]
        /\ \A p \in 1 .. n : handed'[o + p] = Cell(r, p)
    <3>1. handed' = handed \o x
      BY <2>1, <2>2, <2>5
    <3>2. /\ Len(handed') = Len(handed) + Len(x)
          /\ \A j \in 1 .. Len(handed) : handed'[j] = handed[j]
          /\ \A p \in 1 .. Len(x) : handed'[Len(handed) + p] = x[p]
      BY <1>1, <3>1, Behind
    <3>3. ASSUME NEW p \in 1 .. n PROVE handed'[o + p] = Cell(r, p)
      <4>1. CASE p <= m
        <5>1. o + p \in 1 .. Len(handed) /\ p \in 1 .. kHeaderSize
          BY <2>5, <2>6, <4>1
        <5>2. handed[o + p] = Cell(r, p)
          BY <2>4, <2>5, <5>1
        <5> QED BY <3>2, <5>1, <5>2
      <4>2. CASE ~(p <= m)
        <5>1. PICK q \in 1 .. r.len : q = p - m
          BY <2>3, <2>5, <4>2
        <5>2. o + p = Len(handed) + q /\ kHeaderSize + q = p
          BY <2>5, <2>6, <5>1
        <5> QED BY <2>3, <2>5, <3>2, <5>1, <5>2
      <4> QED BY <4>1, <4>2
    <3>4. Len(handed') = o + n
      <4>1. Len(x) = r.len /\ n = kHeaderSize + r.len
        BY <2>3, <2>5
      <4>2. PICK l \in Nat : l = r.len
        BY <2>3
      <4>3. Len(handed') = o + m + l /\ n = m + l
        BY <2>5, <2>6, <3>2, <4>1, <4>2
      <4> QED BY <4>3
    <3> QED BY <3>2, <3>3, <3>4
  <2>8. ASSUME ~torn PROVE Boundary(handed, o)
    <3>1. PICK j \in 1 .. T : j = o + 1 /\ handed[j] = Cell(r, 1)
      <4>1. o + 1 \in 1 .. T /\ 1 \in 1 .. kHeaderSize
        BY <1>3, <2>3, <2>5, <2>6, <2>8
      <4>2. handed[o + 1] = Cell(r, 1)
        BY <2>4, <2>5, <4>1
      <4> QED BY <4>1, <4>2
    <3>2. handed[j].pos = 1
      BY <3>1, CellFields
    <3>3. j = handed[j].pos \/ Whole(handed[j - handed[j].pos])
      BY <1>3, <2>8 DEF Structured
    <3>4. j - 1 = o
      BY <3>1
    <3>5. j = 1 \/ Whole(handed[o])
      BY <3>2, <3>3, <3>4
    <3> QED BY <3>1, <3>5 DEF Boundary
  <2> QED BY <1>2, <2>6, <2>7, <2>8, GrowKeeps
<1> QED BY <1>4, <1>5

\* A restart keeps the records in one piece up to the bytes that a crash
\* has left, and if these end inside a record it is the first torn one.
LEMMA RestartKeeps ==
    ASSUME LogInv, AckInv, TypeOK, NEW T \in Nat, Kept(T), Restart
    PROVE  \E U \in Nat : Kept(U)' /\ Caught(U)'
<1>1. /\ Len(handed) \in Nat /\ synced \in Nat
      /\ \A j \in 1 .. Len(handed) : handed[j] \in AllCells
      /\ \A x \in ToSet(sound) : x \in Records
  BY LogNumbers
<1>2. /\ pc' = "idle" /\ handed' = file' /\ sound' = sound /\ torn' = (torn \/ EndsTorn(file'))
      /\ offset_' = 0 /\ want' = NoRecord
  BY DEF Restart, Crash, NewReader
<1>3. PICK n \in Nat : /\ synced <= n /\ n <= Len(handed) /\ synced' = n /\ Len(handed') = n
                       /\ \A j \in 1 .. n : handed'[j] = handed[j]
                       /\ handed' \in Seq(Bytes)
  <2>1. PICK n \in synced .. Len(file) + Len(buffer) : file' = Take(file \o buffer, n) /\ synced' = n
    BY DEF Restart, Crash
  <2>2. /\ Len(file \o buffer) = Len(file) + Len(buffer) /\ file \o buffer \in Seq(Bytes)
        /\ Len(file \o buffer) \in Nat /\ Len(file \o buffer) <= Len(handed)
        /\ \A j \in 1 .. Len(file \o buffer) : (file \o buffer)[j] = handed[j]
    BY FileIsPrefix, WriteOut DEF LogInv
  <2>3. PICK g \in Seq(Bytes) : g = file \o buffer
    BY <2>2
  <2>4. n \in Nat /\ synced <= n /\ n <= Len(g)
    BY <1>1, <2>1, <2>2, <2>3
  <2>5. /\ Take(g, n) \in Seq(Bytes) /\ Len(Take(g, n)) = n
        /\ \A j \in 1 .. n : Take(g, n)[j] = g[j]
    BY <2>4 DEF Take
  <2>6. \A j \in 1 .. n : g[j] = handed[j]
    BY <2>2, <2>3, <2>4
  <2>7. handed' = Take(g, n)
    BY <1>2, <2>1, <2>3
  <2>8. n <= Len(handed)
    BY <1>1, <2>2, <2>3, <2>4
  <2> QED BY <2>1, <2>4, <2>5, <2>6, <2>7, <2>8
<1>4. T <= Len(handed) /\ Structured(handed, T) /\ \A j \in 1 .. T : handed[j] \in AllCells
  BY <1>1 DEF Kept
<1>5. PICK U \in Nat : U = IF torn THEN T ELSE n
  OBVIOUS
<1>6. U <= n /\ U <= T
  BY <1>1, <1>3, <1>5 DEF Kept
<1>7. \A j \in 1 .. U : handed'[j] = handed[j]
  BY <1>3, <1>6
<1>8. Structured(handed', U)
  BY <1>4, <1>6, <1>7, CutStructured
<1>9. ASSUME NEW x \in ToSet(sound)
      PROVE  \E q \in Nat : q + Size(x) <= n /\ Within(handed', U, q, x)
  <2>1. PICK q \in Nat : q + Size(x) <= synced /\ Within(handed, T, q, x)
    BY DEF Kept
  <2>2. x \in Records /\ Size(x) \in Nat
    BY <1>1, CellFields
  <2>3. q + Size(x) <= n /\ q + Size(x) <= U
    BY <1>1, <1>3, <1>5, <2>1, <2>2 DEF Kept, Within
  <2>4. Within(handed, U, q, x)
    BY <2>1, <2>3 DEF Within
  <2>5. Within(handed', U, q, x)
    BY <1>7, <2>2, <2>4, SameBytes
  <2> QED BY <2>3, <2>5
<1>10. ~torn' => U = n /\ Boundary(handed', n)
  <2> SUFFICES ASSUME ~torn' PROVE U = n /\ Boundary(handed', n)
    OBVIOUS
  <2>1. ~torn /\ ~EndsTorn(handed')
    BY <1>2
  <2>2. U = n
    BY <1>5, <2>1
  <2>3. n # 0 => handed' # <<>>
    BY <1>3
  <2>4. n # 0 => handed'[n].pos = kHeaderSize + handed'[n].len
    BY <1>3, <2>1, <2>3 DEF EndsTorn, Last
  <2> QED BY <2>2, <2>4 DEF Boundary, Whole, Size
<1>11. Kept(U)'
  BY <1>2, <1>3, <1>6, <1>8, <1>9, <1>10 DEF Kept
<1>12. Caught(U)'
  <2>1. RecordStart' = 0
    BY <1>2 DEF RecordStart
  <2>2. \A q \in Nat : ~(q < 0)
    OBVIOUS
  <2> QED BY <2>1, <2>2 DEF Caught, Boundary
<1> QED BY <1>11, <1>12

\* While a sound record has not been returned, a complete record is where
\* the reader is.
LEMMA NextIsComplete ==
    ASSUME LogInv, AckInv, TypeOK, HeaderRead, NEW T \in Nat, Kept(T), Caught(T),
           status # "Corruption", NEW x \in ToSet(sound), x \notin ToSet(got)
    PROVE  \E c \in AllCells : /\ RecordStart + Size(c) <= Len(file)
                               /\ \A p \in 1 .. Size(c) : file[RecordStart + p] = Cell(c, p)
<1>1. /\ Len(handed) \in Nat /\ synced \in Nat /\ synced <= Len(file) /\ Len(file) \in Nat
      /\ \A j \in 1 .. Len(handed) : handed[j] \in AllCells
      /\ \A j \in 1 .. Len(file) : file[j] = handed[j]
      /\ x \in Records
  BY LogNumbers
<1>2. PICK b \in Nat : b = RecordStart
  BY StartInFile
<1>3. PICK o \in Nat : o + Size(x) <= synced /\ Within(handed, T, o, x)
  BY DEF Kept
<1>4. Size(x) \in Nat /\ o + Size(x) <= T
  BY <1>1, <1>3, CellFields DEF Within
<1>5. ~(o < b)
  BY <1>1, <1>2, <1>3 DEF Caught
<1>6. b <= o /\ b <= T
  BY <1>4, <1>5
<1>7. Boundary(handed, b)
  BY <1>2, <1>6 DEF Caught
<1>8. Structured(handed, T) /\ \A j \in 1 .. T : handed[j] \in AllCells
  BY <1>1 DEF Kept
<1>9. PICK c \in AllCells : /\ c = handed[b + 1] /\ b + Size(c) <= o + Size(x)
                            /\ \A p \in 1 .. Size(c) : handed[b + p] = Cell(c, p)
  BY <1>1, <1>3, <1>6, <1>7, <1>8, FirstIsComplete
<1>10. Size(c) \in Nat
  BY CellFields
<1>11. b + Size(c) <= Len(file)
  BY <1>1, <1>3, <1>4, <1>9, <1>10
<1>12. \A p \in 1 .. Size(c) : b + p \in 1 .. Len(file)
  BY <1>1, <1>10, <1>11
<1>13. \A p \in 1 .. Size(c) : file[b + p] = Cell(c, p)
  BY <1>1, <1>9, <1>12
<1> QED BY <1>2, <1>11, <1>13

\* What the bytes behind the header are.
LEMMA PayloadBytes ==
    ASSUME FileInv, AckInv, offset_ \in Nat, NEW r \in Records, offset_ + r.len <= Len(file)
    PROVE  SubSeq(file, offset_ + 1, offset_ + r.len) = Payload(r) <=>
               \A p \in 1 .. r.len : file[offset_ + p] = Cell(r, kHeaderSize + p)
<1>1. /\ r.len \in Nat /\ Payload(r) \in Seq(AllCells) /\ Len(Payload(r)) = r.len
      /\ \A p \in 1 .. r.len : Payload(r)[p] = Cell(r, kHeaderSize + p)
  BY RecordBytes
<1>2. PICK l \in Nat, y \in Seq(AllCells) : l = r.len /\ y = Payload(r)
  BY <1>1
<1>3. \A j \in 1 .. Len(file) : file[j] \in AllCells
  BY FileIsPrefix DEF AckInv
<1>4. Len(file) \in Nat
  BY FileIsPrefix
<1>5. \A j \in offset_ + 1 .. offset_ + l : file[j] \in AllCells
  BY <1>2, <1>3, <1>4
<1>6. PICK z : z = SubSeq(file, offset_ + 1, offset_ + l)
  OBVIOUS
<1>7. /\ z \in Seq(AllCells)
      /\ Len(z) = IF offset_ + 1 <= offset_ + l THEN offset_ + l - (offset_ + 1) + 1 ELSE 0
      /\ \A p \in 1 .. offset_ + l - (offset_ + 1) + 1 : z[p] = file[offset_ + 1 + p - 1]
  BY <1>5, <1>6, SubSeqProperties
<1>8. offset_ + l - (offset_ + 1) + 1 = l /\ \A p \in 1 .. l : offset_ + 1 + p - 1 = offset_ + p
  OBVIOUS
<1>9. Len(z) = l
  BY <1>7, <1>8
<1>10. \A p \in 1 .. l : z[p] = file[offset_ + p]
  BY <1>7, <1>8
<1>11. z = y <=> \A p \in 1 .. l : z[p] = y[p]
  BY <1>1, <1>2, <1>7, <1>9, SeqEqual
<1> QED BY <1>1, <1>2, <1>6, <1>10, <1>11

\* A reader stops, and not because the log is too long for it.
Stops == status' \in {"ExecFailed", "Corruption"} /\ status' # status /\ Len(file) < OffsetLimit

\* ReadLog reads a header.
LEMMA ReadHeaderKeeps ==
    ASSUME LogInv, AckInv, TypeOK, HeaderRead, NEW T \in Nat, Kept(T), Caught(T), ReadHeader
    PROVE  Caught(T)' /\ HeaderRead' /\ (Stops => ToSet(sound) \subseteq ToSet(got))
<1>1. PICK hdr : hdr = SubSeq(file, offset_ + 1, offset_ + kHeaderSize)
  OBVIOUS
<1>2. offset_ \in Nat /\ FileInv /\ kHeaderSize \in Nat /\ kHeaderSize >= 1
  BY LogNumbers, WALAssumption DEF LogInv
<1>3. /\ want = NoRecord /\ status # "Corruption" /\ RecordStart = offset_
      /\ offset_' = offset_ + kHeaderSize /\ UNCHANGED <<file, handed, got, torn, sound>>
  BY DEF ReadHeader, Reading, RecordStart, fileVars, writerVars
<1>4. PICK r \in Records : r = [id |-> hdr[1].id, len |-> hdr[1].len]
  BY <1>1, <1>2, HeaderType DEF ReadHeader
<1>5. Len(hdr) = kHeaderSize /\ \A p \in 1 .. kHeaderSize : hdr[p] = file[offset_ + p]
  BY <1>1, <1>2, HeaderType DEF ReadHeader
<1>6. /\ Header(r) \in Seq(AllCells) /\ Len(Header(r)) = kHeaderSize
      /\ \A p \in 1 .. kHeaderSize : Header(r)[p] = Cell(r, p)
  BY RecordBytes
<1>7. IF hdr = Header(r) THEN want' = r /\ status' = status
                         ELSE status' = "Corruption" /\ want' = want
  BY <1>1, <1>4 DEF ReadHeader
<1>8. CASE hdr = Header(r)
  <2>1. want' = r /\ status' = status /\ r # NoRecord
    BY <1>7, <1>8 DEF Records, NoRecord
  <2>2. RecordStart' = offset_
    BY <1>2, <1>3, <2>1 DEF RecordStart
  <2>3. Caught(T)'
    BY <1>3, <2>1, <2>2 DEF Caught
  <2>4. \A p \in 1 .. kHeaderSize : file[offset_ + p] = Cell(r, p)
    BY <1>5, <1>6, <1>8
  <2>5. HeaderRead'
    BY <1>2, <1>3, <2>1, <2>2, <2>4 DEF HeaderRead
  <2> QED BY <2>1, <2>3, <2>5 DEF Stops
<1>9. CASE hdr # Header(r)
  <2>1. status' = "Corruption" /\ want' = NoRecord
    BY <1>3, <1>7, <1>9
  <2>2. ASSUME NEW x \in ToSet(sound), x \notin ToSet(got) PROVE FALSE
    <3>1. PICK c \in AllCells : \A p \in 1 .. Size(c) : file[offset_ + p] = Cell(c, p)
      BY <1>3, <2>2, NextIsComplete
    <3>2. /\ Size(c) \in Nat /\ Size(c) >= kHeaderSize
          /\ \A p \in Nat : Cell(c, p).id = c.id /\ Cell(c, p).len = c.len
      BY CellFields
    <3>3. \A p \in 1 .. kHeaderSize : hdr[p] = Cell(c, p)
      BY <1>2, <1>5, <3>1, <3>2
    <3>4. hdr[1] = Cell(c, 1)
      BY <1>2, <3>3
    <3>5. r.id = c.id /\ r.len = c.len
      BY <1>4, <3>2, <3>4
    <3>6. \A p \in 1 .. kHeaderSize : hdr[p] = Header(r)[p]
      BY <1>6, <3>3, <3>5 DEF Cell
    <3>7. hdr \in Seq(AllCells)
      <4>1. \A j \in offset_ + 1 .. offset_ + kHeaderSize : file[j] \in AllCells
        <5>1. Len(file) \in Nat /\ \A j \in 1 .. Len(file) : file[j] \in AllCells
          BY <1>2, FileIsPrefix DEF AckInv
        <5>2. offset_ + kHeaderSize <= Len(file)
          BY <1>1, <1>2, HeaderType DEF ReadHeader
        <5> QED BY <1>2, <5>1, <5>2
      <4> QED BY <1>1, <1>2, <4>1, SubSeqProperties
    <3>8. hdr = Header(r)
      BY <1>5, <1>6, <3>6, <3>7, SeqEqual
    <3> QED BY <1>9, <3>8
  <2> QED BY <2>1, <2>2 DEF Caught, HeaderRead
<1> QED BY <1>8, <1>9

\* ReadLog reads a payload.
LEMMA ReadPayloadKeeps ==
    ASSUME LogInv, AckInv, TypeOK, HeaderRead, NEW T \in Nat, Kept(T), Caught(T), ReadPayload
    PROVE  Caught(T)' /\ HeaderRead' /\ (Stops => ToSet(sound) \subseteq ToSet(got))
<1>1. /\ Len(file) \in Nat /\ offset_ \in Nat /\ FileInv
      /\ \A j \in 1 .. Len(file) : file[j] = handed[j]
  BY LogNumbers DEF LogInv
<1>2. /\ want # NoRecord /\ want' = NoRecord /\ got \in Seq(Records)
      /\ UNCHANGED <<file, handed, torn, sound>>
  BY DEF ReadPayload, fileVars, writerVars, TypeOK
<1>3. PICK w \in Records : w = want
  BY <1>2 DEF TypeOK
<1>4. /\ w.len \in Nat /\ kHeaderSize \in Nat /\ kHeaderSize >= 1 /\ Size(w) = kHeaderSize + w.len
      /\ \A p \in Nat : Cell(w, p).pos = p /\ Cell(w, p).id = w.id /\ Cell(w, p).len = w.len
                        /\ Size(Cell(w, p)) = Size(w)
  BY CellFields DEF Size
<1>5. PICK b \in Nat : b = RecordStart /\ offset_ = b + kHeaderSize
  <2>1. RecordStart \in Nat
    BY StartInFile
  <2> QED BY <1>1, <1>2, <1>4, <2>1 DEF RecordStart
<1>6. status # "Corruption" /\ \A p \in 1 .. kHeaderSize : file[b + p] = Cell(w, p)
  BY <1>2, <1>3, <1>5 DEF HeaderRead
<1>7. HeaderRead'
  BY <1>2 DEF HeaderRead
<1>8. CASE ~ReadFails(want.len) /\ SubSeq(file, offset_ + 1, offset_ + w.len) = Payload(w)
  <2>1. ~ReadFails(want.len) /\ offset_ + w.len <= Len(file)
    BY <1>1, <1>3, <1>4, <1>8 DEF ReadFails
  <2>2. status' = "Success" /\ got' = Append(got, w) /\ offset_' = offset_ + w.len
    BY <1>3, <1>8, <2>1 DEF ReadPayload
  <2>3. PICK e \in Nat : e = RecordStart' /\ e = b + Size(w) /\ e <= Len(file)
    <3>1. RecordStart' = offset_ + w.len
      BY <1>2, <2>2 DEF RecordStart
    <3>2. offset_ + w.len \in Nat /\ offset_ + w.len = b + Size(w)
      BY <1>1, <1>4, <1>5
    <3> QED BY <2>1, <3>1, <3>2
  <2>4. ASSUME NEW p \in 1 .. Size(w) PROVE handed[b + p] = Cell(w, p)
    <3>1. b + p \in 1 .. Len(file)
      BY <1>1, <1>4, <2>3
    <3>2. CASE p <= kHeaderSize
      <4>1. p \in 1 .. kHeaderSize
        BY <1>4, <3>2
      <4> QED BY <1>1, <1>6, <3>1, <4>1
    <3>3. CASE ~(p <= kHeaderSize)
      <4>1. PICK q \in 1 .. w.len : q = p - kHeaderSize
        BY <1>4, <3>3
      <4>2. offset_ + q = b + p /\ kHeaderSize + q = p
        BY <1>4, <1>5, <4>1
      <4>3. file[offset_ + q] = Cell(w, kHeaderSize + q)
        BY <1>1, <1>8, <2>1, <4>1, PayloadBytes
      <4> QED BY <1>1, <3>1, <4>2, <4>3
    <3> QED BY <3>2, <3>3
  <2>5. Boundary(handed, e)
    <3>1. Size(w) \in 1 .. Size(w) /\ Size(w) \in Nat
      BY <1>4
    <3>2. handed[e] = Cell(w, Size(w))
      BY <2>3, <2>4, <3>1
    <3> QED BY <1>4, <3>1, <3>2 DEF Boundary, Whole
  <2>6. w \in ToSet(got') /\ \A y \in ToSet(got) : y \in ToSet(got')
    BY <1>2, <2>2 DEF ToSet
  <2>7. ASSUME NEW q \in Nat, NEW x \in Records, q < e, Within(handed, T, q, x)
        PROVE  x \in ToSet(got')
    <3>1. CASE q < b
      BY <1>5, <1>6, <2>6, <2>7, <3>1 DEF Caught
    <3>2. CASE ~(q < b)
      <4>1. handed[q + 1] = Cell(x, 1)
        <5>1. 1 \in 1 .. Size(x)
          BY CellFields
        <5> QED BY <2>7, <5>1 DEF Within, Piece
      <4>2. PICK p \in 1 .. Size(w) : p = q + 1 - b
        <5>1. q + 1 - b \in 1 .. Size(w)
          BY <1>4, <2>3, <2>7, <3>2
        <5> QED BY <5>1
      <4>3. b + p = q + 1
        BY <4>2
      <4>4. Cell(w, p) = Cell(x, 1)
        BY <2>4, <4>1, <4>3
      <4>5. Cell(x, 1).id = x.id /\ Cell(x, 1).len = x.len
        BY CellFields
      <4>6. x.id = w.id /\ x.len = w.len
        BY <1>4, <4>4, <4>5
      <4>7. x = w
        BY <4>6 DEF Records
      <4> QED BY <2>6, <4>7
    <3> QED BY <3>1, <3>2
  <2>8. Caught(T)'
    BY <1>2, <2>3, <2>5, <2>7 DEF Caught
  <2> QED BY <1>7, <2>2, <2>8 DEF Stops
<1>9. CASE ReadFails(want.len) \/ SubSeq(file, offset_ + 1, offset_ + w.len) # Payload(w)
  <2>1. status' = "Corruption"
    BY <1>3, <1>9 DEF ReadPayload
  <2>2. ASSUME Stops, NEW x \in ToSet(sound), x \notin ToSet(got) PROVE FALSE
    <3>1. PICK c \in AllCells : /\ b + Size(c) <= Len(file)
                                /\ \A p \in 1 .. Size(c) : file[b + p] = Cell(c, p)
      BY <1>5, <1>6, <2>2, NextIsComplete
    <3>2. /\ Size(c) \in Nat /\ Size(c) >= 1
          /\ \A p \in Nat : Cell(c, p).id = c.id /\ Cell(c, p).len = c.len
      BY CellFields
    <3>3. Cell(w, 1) = Cell(c, 1)
      <4>1. 1 \in 1 .. Size(c) /\ 1 \in 1 .. kHeaderSize
        BY <1>4, <3>2
      <4> QED BY <1>6, <3>1, <4>1
    <3>4. c.id = w.id /\ c.len = w.len
      BY <1>4, <3>2, <3>3
    <3>5. Size(c) = Size(w) /\ \A p \in Nat : Cell(c, p) = Cell(w, p)
      BY <3>4 DEF Size, Cell
    <3>6. offset_ + w.len <= Len(file)
      BY <1>4, <1>5, <3>1, <3>5
    <3>7. ASSUME NEW p \in 1 .. w.len PROVE file[offset_ + p] = Cell(w, kHeaderSize + p)
      <4>1. PICK q \in 1 .. Size(c) : q = kHeaderSize + p
        BY <1>4, <3>5
      <4>2. b + q = offset_ + p
        BY <1>4, <1>5, <4>1
      <4> QED BY <3>1, <3>5, <4>1, <4>2
    <3>8. SubSeq(file, offset_ + 1, offset_ + w.len) = Payload(w)
      BY <1>1, <3>6, <3>7, PayloadBytes
    <3>9. offset_ <= Len(file) /\ Len(file) < OffsetLimit /\ OffsetLimit \in Nat
      BY <2>2, LogNumbers, WALAssumption DEF Stops
    <3>10. ~ReadFails(want.len)
      BY <1>1, <1>3, <1>4, <3>6, <3>9 DEF ReadFails
    <3> QED BY <1>9, <3>8, <3>10
  <2> QED BY <1>7, <2>1, <2>2 DEF Caught
<1> QED BY <1>8, <1>9

\* Every step of the reader.
LEMMA ReadKeeps ==
    ASSUME LogInv, AckInv, TypeOK, HeaderRead, NEW T \in Nat, Kept(T), Caught(T), ReadLog
    PROVE  /\ Kept(T)' /\ Caught(T)' /\ HeaderRead'
           /\ Stops => ToSet(sound) \subseteq ToSet(got)
<1>1. UNCHANGED <<file, handed, synced, pc, torn, sound>>
  BY DEF ReadLog, ReadEnd, ReadHeader, ReadPayload, fileVars, writerVars
<1>2. Kept(T)'
  BY <1>1 DEF Kept
<1>3. CASE ReadEnd
  <2>1. /\ want = NoRecord /\ status # "Corruption" /\ status' = "ExecFailed" /\ RecordStart = offset_
        /\ ReadFails(kHeaderSize) /\ UNCHANGED <<offset_, want, got>>
    BY <1>3 DEF ReadEnd, Reading, RecordStart
  <2>2. ASSUME Stops, NEW x \in ToSet(sound), x \notin ToSet(got) PROVE FALSE
    <3>1. PICK c \in AllCells : offset_ + Size(c) <= Len(file)
      BY <2>1, <2>2, NextIsComplete
    <3>2. Size(c) \in Nat /\ Size(c) >= kHeaderSize /\ kHeaderSize \in Nat
      BY CellFields
    <3>3. offset_ \in Nat /\ Len(file) \in Nat /\ offset_ <= Len(file)
      BY LogNumbers
    <3>4. Len(file) < OffsetLimit /\ OffsetLimit \in Nat
      BY <2>2, WALAssumption DEF Stops
    <3> QED BY <2>1, <3>1, <3>2, <3>3, <3>4 DEF ReadFails
  <2>3. Caught(T)' /\ HeaderRead'
    BY <1>1, <2>1 DEF Caught, HeaderRead, RecordStart
  <2> QED BY <1>2, <2>2, <2>3
<1> QED BY <1>2, <1>3, ReadHeaderKeeps, ReadPayloadKeeps DEF ReadLog

\* The file only grows while the writer runs.
LEMMA HeaderKept ==
    ASSUME LogInv, AckInv, TypeOK, HeaderRead,
           (\E len \in Lens : AddHeader(len)) \/ AddPayload \/ SyncLog \/ Writing \/ UNCHANGED vars
    PROVE  HeaderRead'
<1>1. UNCHANGED <<offset_, want, got, status>>
  BY DEF AddHeader, AddPayload, SyncLog, Writing, vars, readerVars
<1>2. file' = file \/ file' = file \o buffer
  BY DEF AddHeader, AddPayload, SyncLog, Writing, AppendData, AppendStep, Persist, Copy, AppendEnd,
         Sync, vars, fileVars
<1>3. \A j \in 1 .. Len(file) : file'[j] = file[j]
  <2>1. file \in Seq(Bytes) /\ buffer \in Seq(Bytes)
    BY DEF TypeOK, FileTypeOK
  <2> QED BY <1>2, <2>1, Behind
<1>4. CASE want = NoRecord
  BY <1>1, <1>4 DEF HeaderRead
<1>5. CASE want # NoRecord
  <2>1. /\ offset_ \in Nat /\ offset_ <= Len(file) /\ Len(file) \in Nat /\ kHeaderSize \in Nat
        /\ RecordStart = offset_ - kHeaderSize /\ kHeaderSize <= offset_
    BY <1>5, LogNumbers, WALAssumption DEF RecordStart, HeaderRead
  <2>2. \A p \in 1 .. kHeaderSize : RecordStart + p \in 1 .. Len(file)
    BY <2>1
  <2>3. RecordStart' = RecordStart
    BY <1>1 DEF RecordStart
  <2>4. \A p \in 1 .. kHeaderSize : file'[RecordStart + p] = Cell(want, p)
    BY <1>3, <1>5, <2>2 DEF HeaderRead
  <2> QED BY <1>1, <1>5, <2>3, <2>4 DEF HeaderRead
<1> QED BY <1>4, <1>5

\* ReadInv is kept, and a reader that stops has returned the sound records.
LEMMA ReadStep ==
    LogInv /\ LogInv' /\ AckInv /\ AckInv' /\ TypeOK /\ TypeOK' /\ ReadInv /\ [Next]_vars
        => ReadInv' /\ (Stops => ToSet(sound) \subseteq ToSet(got))
<1> SUFFICES ASSUME LogInv, LogInv', AckInv, AckInv', TypeOK, TypeOK', ReadInv, [Next]_vars
             PROVE  ReadInv' /\ (Stops => ToSet(sound) \subseteq ToSet(got))
  OBVIOUS
<1>1. PICK T \in Nat : Kept(T) /\ Caught(T)
  BY DEF ReadInv
<1>2. HeaderRead
  BY DEF ReadInv
<1>3. CASE ReadLog
  BY <1>1, <1>2, <1>3, ReadKeeps DEF ReadInv
<1>4. CASE Restart
  <2>1. HeaderRead'
    BY <1>4 DEF Restart, NewReader, HeaderRead
  <2>2. ~Stops
    BY <1>4 DEF Restart, NewReader, Stops
  <2> QED BY <1>1, <1>4, <2>1, <2>2, RestartKeeps DEF ReadInv
<1>5. CASE (\E len \in Lens : AddHeader(len)) \/ AddPayload \/ SyncLog \/ Writing \/ UNCHANGED vars
  <2>1. HeaderRead'
    BY <1>2, <1>5, HeaderKept
  <2>2. ~Stops
    BY <1>5 DEF AddHeader, AddPayload, SyncLog, Writing, vars, readerVars, Stops
  <2>3. \E U \in Nat : Kept(U)' /\ Caught(U)'
    BY <1>1, <1>2, <1>5, AddKeeps, StillKeeps
  <2> QED BY <2>1, <2>2, <2>3 DEF ReadInv
<1> QED BY <1>3, <1>4, <1>5 DEF Next

\* A reader that stops, at the end of the file or at a corrupt record, has
\* returned every record whose AddLog had returned with an fsync that did
\* not fail, up to the first record that a crash has torn, for every size of
\* buffer, header and payload, and also while AddLog is running, where the
\* log is shorter than the limit of FileReader's offsets.
THEOREM ReadersMissNothing == Spec => AllRead
<1>1. Init => ReadInv
  <2> SUFFICES ASSUME Init PROVE ReadInv
    OBVIOUS
  <2>1. /\ handed = <<>> /\ synced = 0 /\ ~torn /\ sound = <<>> /\ want = NoRecord
        /\ offset_ = 0
    BY DEF Init, FileInit
  <2>2. ToSet(sound) = {}
    BY <2>1 DEF ToSet
  <2>3. Kept(0)
    BY <2>1, <2>2 DEF Kept, Structured, Boundary
  <2>4. Caught(0)
    BY <2>1 DEF Caught, RecordStart, Boundary
  <2> QED BY <2>1, <2>3, <2>4 DEF ReadInv, HeaderRead
<1>2. Spec => []ReadInv
  BY <1>1, AckInductive, LogTypeCorrect, ReadStep, PTL DEF Spec
<1>3. LogInv /\ LogInv' /\ AckInv /\ AckInv' /\ TypeOK /\ TypeOK' /\ ReadInv /\ [Next]_vars
      => [status' \in {"ExecFailed", "Corruption"} /\ status' # status /\ Len(file) < OffsetLimit
             => ToSet(sound) \subseteq ToSet(got)]_vars
  BY ReadStep DEF Stops
<1> QED BY <1>2, <1>3, AckInductive, LogTypeCorrect, PTL DEF Spec, AllRead
=============================================================================
