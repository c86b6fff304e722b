------------------------------- MODULE SSTable -------------------------------
(***************************************************************************)
(* An .sst file: SSTableBuilder with its data block, index, filter and     *)
(* footer builders writes it, and SSTParser::Parse reads it back.          *)
(*                                                                         *)
(* The file is modelled byte by byte, because its format is what builder   *)
(* and parser have to agree on.  It is what was handed to FileWriter,      *)
(* whose buffering is a module of its own.  Offsets count from 0.          *)
(***************************************************************************)
EXTENDS BloomFilter

CONSTANTS
    Keys, Values,           \* byte strings a caller adds; keys are not empty
    RESTART_INTERVAL,       \* SSTConfigInfo::RESTART_INTERVAL
    MAX_DATA_BLOCK_SIZE,    \* SSTConfigInfo::MAX_DATA_BLOCK_SIZE
    KEYS_NUM                \* the number of keys the filter is made for

ASSUME TableAssumption ==
    /\ Keys \subseteq Seq(Byte) \ {<<>>}
    /\ Values \subseteq Seq(Byte)
    /\ Keys \subseteq DOMAIN Hash
    /\ RESTART_INTERVAL \in Nat \ {0}
    /\ MAX_DATA_BLOCK_SIZE \in Nat
    /\ KEYS_NUM \in Nat \ {0}

VARIABLES
    block,          \* DataBlockBuilder: _data, record_group_offset, pre_key, record_num
    key_data,       \* FilterBlockBuilder::_key_data
    pre_key,        \* the key added last
    index_data,     \* the index entries of the blocks written
    filter_offset,  \* FilterBlock_offset.offset: the bytes of the blocks written
    file,           \* the bytes handed to the FileWriter
    builder,        \* "building", "finished", or "aborted" by an assert
    parser,         \* SSTParser: what Parse has made of the file
    pending,        \* history: the pairs in the block being built
    written         \* history: the offset, size and pairs of every block written

builderVars == <<block, key_data, pre_key, index_data, filter_offset>>
historyVars == <<pending, written>>
vars == <<builderVars, file, builder, parser, historyVars>>

(***************************************************************************)
(* Strings and fields.                                                     *)
(***************************************************************************)

\* std::string's order: bytes are compared without their sign.
Less(s, t) ==
    \E i \in 1 .. Len(t) :
        /\ \A j \in 1 .. i - 1 : j <= Len(s) /\ s[j] = t[j]
        /\ i <= Len(s) => s[i] < t[i]

Min2(a, b) == IF a < b THEN a ELSE b

\* back() += 1 on a char.
Bumped(s) == [s EXCEPT ![Len(s)] = (@ + 1) % 256]

\* struct OffsetInfo, size first, as PutFixed64 writes it.
OffsetInfo(size, offset) == EncodeFixed32(size) \o EncodeFixed32(offset)

(***************************************************************************)
(* DataBlockBuilder.                                                       *)
(***************************************************************************)

\* The fields clear() leaves.
EmptyBlock == [data |-> <<>>, groups |-> <<>>, pre_key |-> <<>>, record_num |-> 0]

\* Mutant: the loop goes on after the first difference.
SharedKeyLen_NoBreak(key, prev) ==
    Quantify(1 .. Min2(Len(key), Len(prev)), LAMBDA i : key[i] = prev[i])

SharedKeyLen(key, prev) == Len(LongestCommonPrefix({key, prev}))

Record(shared, key, value) ==
    EncodeFixed32(shared) \o EncodeFixed32(Len(key) - shared) \o EncodeFixed32(Len(value))
        \o SubSeq(key, shared + 1, Len(key)) \o value

\* DataBlockBuilder::add: every RESTART_INTERVAL-th record starts a group
\* and has its whole key; the others share a prefix with the key before.
DataBlockAdd(b, key, value) ==
    LET first == b.record_num % RESTART_INTERVAL = 0
        shared == IF first THEN 0 ELSE SharedKeyLen(key, b.pre_key)
    IN  [data |-> b.data \o Record(shared, key, value),
         groups |-> IF first THEN Append(b.groups, Len(b.data)) ELSE b.groups,
         pre_key |-> key,
         record_num |-> b.record_num + 1]

\* The restart point of group i.  The last one counts its records modulo
\* RESTART_INTERVAL: a full last group is written with 0.
RestartPoint(b, i) ==
    LET last == i = Len(b.groups)
        end == IF last THEN Len(b.data) ELSE b.groups[i + 1]
    IN  EncodeFixed32(IF last THEN b.record_num % RESTART_INTERVAL ELSE RESTART_INTERVAL)
            \o OffsetInfo(end - b.groups[i], b.groups[i])

\* finish_data_block: restart_point_num is (record_num - 0.5) / 16, cut to
\* an int, plus one.
FinishDataBlock(b) ==
    b.data \o FlattenSeq([i \in 1 .. Len(b.groups) |-> RestartPoint(b, i)])
        \o EncodeFixed32((2 * b.record_num - 1) \div (2 * RESTART_INTERVAL) + 1)

(***************************************************************************)
(* IndexBlockBuilder, FilterBlockBuilder and FooterBuilder.                *)
(***************************************************************************)
IndexEntry(key, size, offset) ==
    EncodeFixed32(Len(key)) \o key \o OffsetInfo(size, offset)

\* Mutant: one hash function too few.
FilterBits_OneLess(keys) == CreateFilter(NoBits(KEYS_NUM), HashFuncNum(KEYS_NUM) - 1, keys)

\* create_filter; without keys it returns at once and no bit is set.
FilterBits(keys) == CreateFilter(NoBits(KEYS_NUM), HashFuncNum(KEYS_NUM), keys)

\* finish_filter_block, whose second call only sets the same bits again.
FilterBlock(keys) == FilterBits(keys) \o EncodeFixed32(HashFuncNum(KEYS_NUM))

\* Mutant: the size of the filter leaves out the number of hash functions.
Footer_BitsOnly(filter, offset, index) ==
    OffsetInfo(Len(filter) - 4, offset) \o OffsetInfo(Len(index), offset + Len(filter) - 4)

Footer(filter, offset, index) ==
    OffsetInfo(Len(filter), offset) \o OffsetInfo(Len(index), offset + Len(filter))

(***************************************************************************)
(* SSTableBuilder.                                                         *)
(***************************************************************************)

\* find_shortest_key counts every position where the keys agree, not only
\* those of their common prefix.
FindShortestKey(key1, key2) ==
    LET cnt == Quantify(1 .. Min2(Len(key1), Len(key2)), LAMBDA i : key1[i] = key2[i]) IN
    IF cnt = Len(key1) THEN Append(key1, 32) ELSE Bumped(SubSeq(key1, 1, cnt + 1))

Init ==
    /\ block = EmptyBlock
    /\ key_data = <<>>
    /\ pre_key = <<>>
    /\ index_data = <<>>
    /\ filter_offset = 0
    /\ file = <<>>
    /\ builder = "building"
    /\ parser = [run |-> FALSE]
    /\ pending = <<>>
    /\ written = <<>>

BlockWritten(bytes, pairs) ==
    Append(written, [offset |-> Len(file), size |-> Len(bytes), pairs |-> pairs])

\* Mutant: the size of the block is taken after clear().
NextOffset_Cleared(bytes) == filter_offset + 0

\* FilterBlock_offset.offset after add() has written a block of these bytes.
NextOffset(bytes) == filter_offset + Len(bytes)

\* A block that has grown past its limit is written out and indexed.  The
\* offset in its entry is the one the next block starts at: filter_offset
\* is advanced first.  find_shortest_key asserts that there was a key
\* before this one.
WriteBlock(b, key, pairs) ==
    LET bytes == FinishDataBlock(b) IN
    /\ file' = file \o bytes
    /\ filter_offset' = NextOffset(bytes)
    /\ IF pre_key = <<>>
       THEN /\ builder' = "aborted"
            /\ UNCHANGED <<block, pre_key, index_data, historyVars>>
       ELSE /\ index_data' = index_data
                   \o IndexEntry(FindShortestKey(pre_key, key), Len(bytes), filter_offset')
            /\ block' = EmptyBlock
            /\ pre_key' = key
            /\ pending' = <<>>
            /\ written' = BlockWritten(bytes, pairs)
            /\ UNCHANGED builder

\* SSTableBuilder::add.  An empty key is ignored.  The caller adds keys in
\* increasing order, as the memtable's iterator yields them.
Add(key, val) ==
    /\ builder = "building"
    /\ Less(pre_key, key)
    /\ key_data' = Append(key_data, key)
    /\ LET b == DataBlockAdd(block, key, val)
           pairs == Append(pending, <<key, val>>)
       IN  IF Len(b.data) > MAX_DATA_BLOCK_SIZE THEN WriteBlock(b, key, pairs)
           ELSE /\ block' = b
                /\ pre_key' = key
                /\ pending' = pairs
                /\ UNCHANGED <<index_data, filter_offset, file, builder, written>>
    /\ UNCHANGED parser

\* finish_sst: the last block, if it has records, the filter, the index and
\* the footer.  A table without any record is an assert.
FinishSST ==
    /\ builder = "building"
    /\ LET some == block.data # <<>>
           bytes == IF some THEN FinishDataBlock(block) ELSE <<>>
           index == IF some
                    THEN index_data \o IndexEntry(Bumped(pre_key), Len(bytes), filter_offset)
                    ELSE index_data
           filter == FilterBlock(key_data)
       IN  /\ written' = IF some THEN BlockWritten(bytes, pending) ELSE written
           /\ IF index = <<>>
              THEN /\ builder' = "aborted"
                   /\ file' = file \o filter
                   /\ UNCHANGED builderVars
              ELSE /\ builder' = "finished"
                   /\ file' = file \o bytes \o filter \o index
                                   \o Footer(filter, filter_offset + Len(bytes), index)
                   /\ block' = EmptyBlock
                   /\ key_data' = <<>>
                   /\ pre_key' = <<>>
                   /\ index_data' = <<>>
                   /\ filter_offset' = 0
    /\ pending' = <<>>
    /\ UNCHANGED parser

(***************************************************************************)
(* SSTParser.                                                              *)
(***************************************************************************)

\* ReadAll joins the lines of the file: every byte that is a newline is
\* lost.
ReadAll(bytes) == SelectSeq(bytes, LAMBDA c : c # 10)

\* The OffsetInfo at offset i.
OffsetInfoAt(s, i) == [size |-> DecodeFixed32(s, i), offset |-> DecodeFixed32(s, i + 4)]

Header(s) ==
    [MetaBlock |-> OffsetInfoAt(s, Len(s) - 16), IndexBlock |-> OffsetInfoAt(s, Len(s) - 8)]

Inside(s, i, n) == i >= 0 /\ n \in 0 .. Len(s) /\ i <= Len(s) - n

\* Mutant: the loop takes an OffsetInfo to be four bytes long.
EntrySize_Short(keySize) == 4 + keySize + 4

EntrySize(keySize) == 4 + keySize + 8

\* The loop over the index from start up to end.  ok is FALSE when it reads
\* outside the content or the assert after it fails.
IndexBlocks(s, begin, end) ==
    LET bad == [ok |-> FALSE, entries |-> <<>>]
        from[start \in Int] ==
            IF start >= end THEN [ok |-> start = end, entries |-> <<>>]
            ELSE IF ~Inside(s, start, 12) THEN bad
            ELSE LET size == DecodeFixed32(s, start) IN
                 IF ~Inside(s, start + 12, size) THEN bad
                 ELSE LET rest == from[start + EntrySize(size)]
                          entry == [key |-> SubSeq(s, start + 5, start + 4 + size),
                                    at |-> OffsetInfoAt(s, start + 4 + size)]
                      IN  [rest EXCEPT !.entries = <<entry>> \o @]
    IN  from[begin]

\* Parse: the header, the index, and then the filter.  The number of hash
\* functions is read at the address START + SIZE - 4, an offset without the
\* pointer to the content, and the process dies there if not before.
Parse ==
    /\ builder = "finished"
    /\ ~parser.run
    /\ LET s == ReadAll(file)
           index == Header(s).IndexBlock
       IN  parser' = [run |-> TRUE, header |-> Header(s),
                      index |-> IF Inside(s, index.offset, index.size)
                                THEN IndexBlocks(s, index.offset, index.offset + index.size)
                                ELSE [ok |-> FALSE, entries |-> <<>>]]
    /\ UNCHANGED <<builderVars, file, builder, historyVars>>

Next ==
    \/ \E key \in Keys, val \in Values : Add(key, val)
    \/ FinishSST
    \/ Parse

Spec == Init /\ [][Next]_vars

(***************************************************************************)
(* Properties.                                                             *)
(***************************************************************************)

\* Every variable has the type of its C++ counterpart; the offset the
\* builder keeps is the number of bytes it has handed to the FileWriter.
TypeOK ==
    /\ block.data \in Seq(Byte)
    /\ block.groups \in Seq(0 .. Len(block.data))
    /\ block.pre_key \in Keys \cup {<<>>}
    /\ block.record_num \in Nat
    /\ key_data \in Seq(Keys)
    /\ pre_key \in Keys \cup {<<>>}
    /\ index_data \in Seq(Byte)
    /\ file \in Seq(Byte)
    /\ builder \in {"building", "finished", "aborted"}
    /\ builder = "building" => filter_offset = Len(file)

Finished == builder = "finished"

\* finish_sst adds sizes up as it goes.  The footer that results says where
\* everything is: the blocks fill the file up to the filter, the filter
\* ends where the index starts, the index ends where the footer starts.
FooterLocates ==
    Finished =>
        LET meta == Header(file).MetaBlock
            index == Header(file).IndexBlock
            ends == [i \in 1 .. Len(written) |-> written[i].offset + written[i].size]
        IN  /\ written[1].offset = 0
            /\ \A i \in 1 .. Len(written) - 1 : written[i + 1].offset = ends[i]
            /\ meta.offset = Last(ends)
            /\ meta.size = BitsSize(KEYS_NUM) + 4
            /\ index.offset = meta.offset + meta.size
            /\ index.offset + index.size + 16 = Len(file)

\* The pairs of the records in bytes from .. to - 1 of the file.  A record
\* has what its key does not share with an earlier one: Shared(prev, key)
\* is the key that the record after key shares a prefix with.  A prefix
\* longer than that key is cut, as substr does.
RecordsIn(from, to, Shared(_, _)) ==
    LET at[i \in Nat, prev \in Seq(Byte)] ==
            IF i >= to THEN <<>>
            ELSE LET keyLen == DecodeFixed32(file, i + 4)
                     end == i + 12 + keyLen + DecodeFixed32(file, i + 8)
                     key == SubSeq(prev, 1, Min2(Len(prev), DecodeFixed32(file, i)))
                                \o SubSeq(file, i + 13, i + 12 + keyLen)
                 IN  <<<<key, SubSeq(file, i + 13 + keyLen, end)>>>> \o at[end, Shared(prev, key)]
    IN  at[from, <<>>]

\* What the restart points of a block say.
RestartNum(w) == DecodeFixed32(file, w.offset + w.size - 4)

RestartAt(w, i) ==
    LET p == w.offset + w.size - 4 - 12 * (RestartNum(w) + 1 - i) IN
    [record_num |-> DecodeFixed32(file, p), at |-> OffsetInfoAt(file, p + 4)]

GroupIn(w, i, Shared(_, _)) ==
    LET at == RestartAt(w, i).at IN
    RecordsIn(w.offset + at.offset, w.offset + at.offset + at.size, Shared)

\* A key shares a prefix with the key before it, as add() has it.
WithPrevious(prev, key) == key

\* A key shares a prefix with the first key of its group, the full key of
\* the restart point, as data_block_builder.h and SSTParser have it.
WithFullKey(prev, key) == IF prev = <<>> THEN key ELSE prev

CommonLen(s, t) == Len(LongestCommonPrefix({s, t}))

\* Delta compression loses nothing, whatever the keys have in common, and a
\* group of records can be read without the ones before it: what the
\* restart points of a block lead to is, group after group, exactly the
\* pairs that were added, RESTART_INTERVAL to a group but the last.  The
\* counts are those of the groups, with 0 for a last group that is full.
\* Read with the full key of the group in place of the key before, those
\* records come out right, and no others, that share as much with it.
BlocksDecode ==
    \A j \in 1 .. Len(written) :
        LET w == written[j]
            n == RestartNum(w)
            group == [i \in 1 .. n |-> GroupIn(w, i, WithPrevious)]
            full(i) == Len(group[i]) = RESTART_INTERVAL
            key(i, k) == group[i][k][1]
        IN  /\ FlattenSeq(group) = w.pairs
            /\ \A i \in 1 .. n :
                   /\ i < n => full(i)
                   /\ RestartAt(w, i).record_num = IF i = n /\ full(i) THEN 0 ELSE Len(group[i])
                   /\ \A k \in 2 .. Len(group[i]) :
                          GroupIn(w, i, WithFullKey)[k] = group[i][k] <=>
                              CommonLen(key(i, k), key(i, 1)) >= CommonLen(key(i, k), key(i, k - 1))

AddedKeys == UNION {{p[1] : p \in ToSet(written[j].pairs)} : j \in 1 .. Len(written)}

\* The filter in the file, with the number of hash functions stored behind
\* its bits, has no false negatives: it admits every key of the table, also
\* when there are more of them than it was made for.
NoFalseNegatives ==
    Finished =>
        LET meta == Header(file).MetaBlock
            bits == SubSeq(file, meta.offset + 1, meta.offset + meta.size - 4)
            hash_func_num == DecodeFixed32(file, meta.offset + meta.size - 4)
        IN  \A key \in AddedKeys : Exists(key, hash_func_num, bits)

\* Between a space and the last byte: find_shortest_key and finish_sst make
\* index keys by adding a space and by adding one to a byte.
Plain(key) == \A i \in 1 .. Len(key) : key[i] \in 33 .. 254

\* Parse finds one entry for every block with its size, and for plain keys
\* the entries' keys increase, as long as no byte of the file is a newline.
ParseFindsBlocks ==
    parser.run /\ ReadAll(file) = file =>
        LET entries == parser.index.entries IN
        /\ parser.index.ok
        /\ Len(entries) = Len(written)
        /\ \A i \in 1 .. Len(entries) : entries[i].at.size = written[i].size
        /\ (\A key \in AddedKeys : Plain(key)) =>
               \A i \in 1 .. Len(entries) - 1 : Less(entries[i].key, entries[i + 1].key)

(***************************************************************************)
(* What the repository says of the program and the code does not do.       *)
(***************************************************************************)

IndexEntries ==
    LET index == Header(file).IndexBlock IN
    IndexBlocks(file, index.offset, index.offset + index.size).entries

\* An index entry has the offset of its block and a key above all the keys
\* of the block: a lookup finds the block of a key by them.
IndexLocatesBlocks ==
    Finished =>
        \A i \in 1 .. Len(IndexEntries) :
            /\ IndexEntries[i].at.offset = written[i].offset
            /\ \A p \in ToSet(written[i].pairs) : Less(p[1], IndexEntries[i].key)
=============================================================================
