# Verification of tiny-db (smallkv)

tiny-db is a small LSM key-value store in C++: a database class with a cache, a
memtable over a skip list, a write-ahead log and `.sst` files, and a server that
speaks the Redis protocol. This directory holds TLA+ modules of its parts, the TLC
configurations that check them, and TLAPS proofs of what matters most. Paths are
relative to the directory above the repository (`src/src/db/db_impl.cpp` is the
repository's `src/db/db_impl.cpp`).

## The system

| Part | State | Operations | Used by |
|---|---|---|---|
| `DB`, `DBImpl` (`db/`) | one `shared_mutex`, memtable, cache, log writer, `LISST_NUM` | `Put`, `Delete`, `Get`, `Close`, `BatchPut`/`BatchDelete` (return `NotImpl`), `MemTableToSST` | server, main |
| `MemTable`, `SkipList` (`memtable/`) | linked levels, `max_level`, `size`, `mem_usage` | `Insert` (add, update, delete), `Contains`, `Get`, iterator | `DBImpl` |
| `Cache`, `LRU` (`cache/`) | five shards: a list, an index, a garbage station, reference counts | `insert`, `erase`, `get`, `contains`, `release` | `DBImpl` |
| `WALWriter`, `WALReader` (`wal/`) | log file, read offset | `AddLog`, `ReadLog` | `DBImpl` writes; only tests read |
| `FileWriter`, `FileReader` (`file/`) | descriptor, 64 KiB buffer | `append`, `flush`, `sync`, `close`, `read` | log, SST builder |
| `SSTableBuilder` and its block builders (`table/`) | blocks, restart points, index, offsets | `add`, `finish_sst` | flush |
| `SSTParser` (`sstparser/`) | file content, index, filter | `Parse`, `Seek` | `DBImpl::Get` |
| `BloomFilter` (`filter/`) | bit array, number of hashes | `create_filter`, `add`, `exists` | builder, parser |
| `LSMServer` (`server/server.cpp`) | the database | `onMessage`, `SET`, `GET`, `DEL` | clients |

Interaction. A server thread calls `DB`, which forwards to `DBImpl`. A write takes the
unique lock, appends to the log, writes the memtable, then the cache, and flushes the
memtable to `level_0_sst_<LISST_NUM>.sst` when it is too large. A read takes the shared
lock and looks into the cache, the memtable and one `.sst` file, in this order. Every
call on a shard of the cache takes that shard's mutex on its own, so that a `Get` is
several critical sections inside a shared lock. Nothing is read back at start.

What is hard here:

* two calls on the cache inside one `Get`, with other readers moving nodes between them;
* early returns under the lock, in `Put` after the write has been logged and stored;
* three copies of a value (cache, memtable, file) written in some order, looked up under
  different forms of the key: the memtable, `contains`, `get` and `erase` see the bytes
  before the first NUL, `insert` into the cache the whole key;
* a process that goes down between any two statements, and a restart over the old files;
* the linking loops of the skip list, with nodes higher than the list;
* cache nodes that are evicted, erased and inserted again while somebody still has them;
* a binary format that two parts of the program have to agree on, with counts and offsets
  kept by hand;
* a callback of the server that takes whatever TCP has delivered for one request.

What makes each part right: for `DBImpl`, that a read answers something written and not
deleted since, that no write is lost to a flush, and that every call returns; for the
cache, that list and index agree at the capacity too; for the skip list, that it is an
ordered map whatever heights are drawn, that its loops end inside the next vectors, and
that the memory it reports is exact; for the log, that an acknowledged record is on disk
and can be read back; for the files, that what is read is what was appended; for the
tables, that every pair can be found in the bytes again and that the filter admits every
key; for the server, that a whole request is understood as it was sent, that a `GET`
answers something that was `SET`, and that nobody waits for ever.

## Modules

| Module | What it is |
|---|---|
| `KVStore` | what a caller of `DB` may rely on (abstract) |
| `DBImpl` | `DBImpl` with its cache, the memtable as a map, the log payload, the files, crash and restart |
| `DBImplProofs` | types, coherence of the cache, no null node |
| `DBImplRefinement` | `DBImpl` implements `KVStore` |
| `OrderedMap` | what the memtable expects of its skip list (abstract) |
| `SkipList` | the skip list, one step per round of a loop |
| `SkipListProofs` | types, sorted levels, bounds, `size`, `mem_usage`, and `SkipList` implements `OrderedMap` |
| `FileWriter` | the buffered append to a file, with crashes |
| `WAL` | `WALWriter` and `WALReader` over a `FileWriter` |
| `WALProofs` | no byte is lost between `append` and the file; what is acknowledged is on disk and is read back |
| `KeyCache` | an LRU order of keys, what the cache promises (abstract) |
| `LRU` | `Cache` and `LRU` with locks, reference counts, `release` and the garbage station |
| `LRUProofs` | types, lists and index, reference counts, garbage station |
| `ListLemmas` | facts about lists, folds, sums and joined sequences that the proofs share |
| `BloomFilter` | the filter over any hash, and the fixed-width integers of the codec |
| `SSTable` | `SSTableBuilder` with its block builders, and `SSTParser::Parse` |
| `SSTableProofs` | the codec, the footer, the filter, and `Parse` finds what the builder wrote |
| `Server` | `LSMServer`: TCP's deliveries, `parseRESP`, the handlers |
| `ServerProofs` | types, `parseRESP` inverts the encoding, what a GET answers |
| `MCDBImpl`, `MCSkipList`, `MCWAL`, `MCLRU`, `MCSSTable`, `MCServer` | constants for TLC |

`DBImpl` contains a cache and a memtable at the level of `KeyCache` and `OrderedMap`, and
`LRU` and `SkipList` are shown to implement those. `WAL` runs over `FileWriter`, `SSTable`
over `BloomFilter`; `Server` sees of the database what its one loop thread can see.

### KVStore

Each thread runs one call at a time: `Invoke`, for a write `Apply`, then `Respond` and
`Return`. `live[n]` is the set of values a `Get` of the name `n` may answer: what was put
since the last `Delete`, as given or cut at a NUL. This is weaker than a map on purpose:
`LRU::insert` keeps the old value of a cached key, so that a `Put` does not hide the value
it overwrites. `Lose` is the death of the process.

### DBImpl

`pc[t]` is the statement thread `t` runs next. The statements that touch shared state are
the actions:

| Action | Code |
|---|---|
| `LockUnique`, `LockShared` | construction of the lock guard and the argument check after it |
| `AddLog` | `EncodeKV` and `WALWriter::AddLog`: `LogPayload` is what is left of the record when a char array is read as a C string |
| `WriteMem` | `Contains` and then `Add`, `Update` or `Delete` of the memtable |
| `CheckArgs` | `Put`'s check, after the memtable |
| `WriteCache` | `cache->insert` or `cache->erase`, then the comparison with the limit (`>` in `Put`, `>=` in `Delete`) |
| `MemTableToSST`, `NewMemTable` | the table in the file; `++LISST_NUM` and the new memtable |
| `CacheContains`, `CacheGet` | the two calls on the cache in `Get` |
| `ReadMem`, `ReadSST` | the memtable; the parser, which asserts or faults |
| `ReturnWrite`, `ReturnRead` | the lock guard goes out of scope |
| `Close` | `Close`, and the batch calls that do nothing |
| `Crash`, `Restart` | death of the process, perhaps with half a table written; the constructor |

`cached` is the value per key and `nodes` the list per shard, so that their agreement is
something to prove. `sst` maps the numbers of existing files to the tables in them; the
memtable's conversion to a table, `MemTable::ConvertToL1SST`, is declared in `memtable.h`
and defined nowhere in the repository, so it is modelled from its use: the entries of the
memtable go through `SSTableBuilder` to the end of the file, because `FileWriter` appends by
default. `Tabled` is what the builder keeps of them: `add` ignores an empty key
(`sstable_builder.cpp:26`), so the entry under the empty name, which a rejected `Put` of the
empty key or a `Put` of a key that begins with NUL has made, is in no table. A memtable with
no other entry is an assert in `finish_sst` (`sstable_builder.cpp:121`), which ends the
process. The builder's other assert, for a first record longer than a block, depends on sizes
that `DBImpl` leaves out; it is one of the deaths `Crash` stands for. `Get` builds the
path of the file without the `/` that the flush puts in; the constant `DirEndsInSlash` says
whether the configured directory hides this. `latest` and `live` are history variables.

### SkipList

A node is named by its key, keys are their rank in the order of strings, and heights are
drawn from `RandomLevel`. `next[l][n]` is the pointer of `n` on level `l`. Insert and
Delete begin with the loop of `Contains`, then run `FindPrevNode` or Delete's own descent
and their linking loops. The locals of an operation are reset when it returns, and a node
to which nothing points is forgotten.

`OrderedMap` is the map these operations stand for. An Insert takes effect when its node
is made, a Delete when it starts to unlink. The iterator answers all keys in order.

### FileWriter and WAL

`file` is what the kernel has of the file, of which the first `synced` bytes are on disk;
`buffer` is the used part of the buffer. `append` is cut where it calls `write`:

| Action | Code |
|---|---|
| `AppendData(data, f)` | `append` up to the first write: nothing for no data, all of it into the buffer, or a buffer filled up |
| `Persist`, `Copy` | `buf_persist` of a full buffer; a round of the loop |
| `AppendEnd` | the flush `append` was asked for, and its return |
| `Flush`, `Sync` | `flush` (also `close`), `sync` |
| `Crash` | the process or the machine goes down, and the file is opened again for appending |
| `AddHeader`, `AddPayload`, `SyncLog` | the three calls of `AddLog` |
| `Restart` | a crash, a new writer and a new reader |
| `ReadEnd`, `ReadHeader`, `ReadPayload` | `ReadLog` up to the first read, between the two, and after the second |

A failing or short `write` meets an assert, so it is a crash that keeps part of what was
being written. A failing `fsync` is noticed by nobody (`file_writer.cpp:111`): `Sync` then
leaves `synced` as it was and `AddLog` returns as usual. The history variable `acked` has the
records whose own `fsync` did not fail; the others may be lost although `AddLog` has answered
`Success`, and the properties say nothing of them. An `fsync` that succeeds is assumed to cover
the whole file, also what an earlier one has failed on. What a crash keeps is assumed to be a first part of what was written, at
least as long as what was synced. A byte of the log is known by its record and its
position, so that a checksum fits the payload it was computed from and no other: collisions
of CRC-32C are left out. The reader starts at the beginning of the file and runs beside the
writer, and its caller stops at the first `Corruption`. Its `size_t` offset is passed on as
an `int32_t` (`file_reader.cpp:38`), so that behind `OffsetLimit`, 2^31 bytes, every read fails
and the reader takes it for the end of the log (`ReadFails`).

A restart appends behind a torn record, and the reader takes the bytes that follow for the
rest of it. From there on nothing can be read, whatever has been acknowledged since;
`AllRead` therefore speaks of `sound`, the records acknowledged before that, and of logs
shorter than `OffsetLimit`. The others are still on disk in one piece, which is `AckedOnDisk`.

### LRU and KeyCache

A call is two steps: `Enter` takes the lock of the shard and looks the key up, `Leave` does
the rest and lets go of the lock. With `MutexLock` or `SpinLock` nobody comes between them,
which is what the mutant of `ListsIndexed` takes away; `NullLock` lets everybody in and is
meant for one thread.

| Definition | Code |
|---|---|
| `cache.nodes`, `index`, `garbage_station` | the members of `LRU`; the index of all shards in one function |
| `cache.heap` | every `Node` ever allocated, with `ref_cnt`, `in_cache` and whether it was deleted |
| `Ref`, `Unref`, `PhantomEraseNode` | the private helpers; `Unref` deletes at 0 |
| `Insert`, `Erase`, `Get`, `Release` | the calls; `contains` changes nothing |
| `MayCall` | the contract of `release`, which dereferences `index[key]` without a check |

`held` is a history variable: what a user got and has not released. Nodes have numbers and
are never reused, so that `RefsExact` can say that no node in use was deleted. `KeyCache` is
the order of keys alone. The refinement says that every step is one of its steps;
`CallsTakeEffect` says which one, by the call that returns.

### BloomFilter and SSTable

The file is a sequence of bytes. The builder's members are `block`, `key_data`, `pre_key`,
`index_data` and `filter_offset`; `Add` is `SSTableBuilder::add` with the block it may write
out (`WriteBlock`), `FinishSST` is `finish_sst`, `Parse` is `SSTParser::Parse` on what
`ReadAll` makes of the file. Three things of the code are kept as they are: the index entry
of a full block has the offset of the next block; `find_shortest_key` counts all positions
where two keys agree; the last restart point counts its records modulo the interval, so that
a full group has the number 0. An assert that fails is the state `"aborted"`.

`Parse` then reads the number of hash functions at an address that is an offset
(`sst_parser.cpp:79`), and the process dies: in `SSTable` the step ends before that, in
`DBImpl` it is the end of `ReadSST`. `Seek` and what it calls are never reached, and are not
modelled. `BlocksDecode` therefore has a decoder of its own, which takes the shared part of a
key from the key before it, as the builder does. The header of the builder and the parser take
it from the full key of the restart point instead, and `BlocksDecode` says what that reading
makes of the bytes: right are exactly the records that share no more with the key before than
with the full key, which from the third record of a group on need not be so. The groups have
three records in the run for this reason. It also says which counts the restart points have: 0
for a last group that is full, the number of records for any other.

`BloomFilter` has the sizes for the default rate of false positives. The hash is a constant
and so is its width; only the rotation and the wrapping additions are modelled.

### Server

`wire[c]` and `buf[c]` are the bytes on their way and in muduo's buffer. `Arrive` moves all
of them, or a first part; `OnMessage` takes the whole buffer, whatever it is, and sends one
answer. A client waits for the answer to its request before it sends the next, so that a
request that was cut in two gets an answer too many, which the client takes for the answer
to the next one. `ParseRESP` is the parser with its wrapping `find(...) + 1`, its exceptions
and its lengths below zero.

The handlers call a database with a memtable and a cache. `Put` writes the memtable
(`Written`), rejects empty arguments, inserts into the cache, which keeps the value a known
key has (`Inserted`), and may replace the memtable by an empty one (`Stored`). When a shard is
full and when the memtable is too large depends on sizes and hashes that are left out here, so
any `SET` that succeeds may flush, and any key new to the cache may push another one out. A
`GET` of a key in neither ends the process, as the run `doc_get` shows for `DBImpl`; after a
flush this may be a key that was just written. `DEL` is a row of rejected `Put`s and gets no
further than the memtable.

`misread`, `acked`, `fresh`, `erased` and `recent` are history variables. `misread` becomes
true with the first callback that does not find one whole request that can be read
(`Readable`): a part of one, more than one, or one with a newline in an argument before the
last, behind which `parseRESP` goes on (`server.cpp:127`), so that a `SET` may be taken for a
`SET` of another key. Clients do send all of these. What a `GET` answers is claimed up to the
first of them; that everybody is answered, and the types, throughout. `recent` has the keys
named in a `SET` or a `DEL` since the last flush.

## Runs

| Run | Instance | Checks |
|---|---|---|
| `kv` | 2 threads, 3 calls, 3 keys of which two share a name, values with a NUL, 2 shards of capacity 1, 1 crash, flushes | `TypeOK`, `CacheCoherent`, `NothingForgotten`, `ImplementsKVStore` |
| `returns` | 2 threads, 4 calls, no overwrites, 1 crash, fairness | `NodeNeverNull`, `ReadsLatest`, `CallsReturn` |
| `skiplist` | 3 keys, 2 values, 3 levels, any number of operations | `TypeOK`, `LevelsSorted`, `InBounds`, `SizeExact`, `Accounts`, `ImplementsMap`, `OperationsEnd` |
| `wal` | 3 records of 0 to 7 bytes, header 2, buffer 4, offsets up to 20, 2 crashes, failing fsyncs, a reader | `TypeOK`, `NothingLost`, `AckedOnDisk`, `AllRead` |
| `lru` | 2 users, 7 calls, 2 shards of capacity 2, three keys in one of them | `TypeOK`, `ListsIndexed`, `RefsExact`, `GarbageKept`, `ImplementsKeyCache`, `CallsTakeEffect` |
| `sst` | all tables over 6 keys and 4 values, 3 records to a group, blocks of 60 bytes, a filter for 2 keys | `TypeOK`, `FooterLocates`, `BlocksDecode`, `NoFalseNegatives`, `ParseFindsBlocks` |
| `server` | 2 clients, 3 requests out of 14, 1 cut in one of 3 places, flushes, evictions, fairness | `TypeOK`, `ParseInverts`, `RecentKeysAnswered`, `GetsAnswerSets`, `Answered` |
| `doc_update` | two Puts of a key that succeed, a Get | violates `PutUpdates` |
| `doc_get` | a Get of a key that was never put | violates `GetReadsDown` |
| `doc_wal` | one Put | violates `LogHoldsWrite` |
| `doc_index` | a full block with the keys `a` and `abc` | violates `IndexLocatesBlocks` |
| `doc_del` | a SET, a DEL, a GET | violates `DelDeletes` |

What the properties say beyond the types: every one is stated in words above its definition.
`CacheCoherent`, `ListsIndexed` and `RefsExact` are about the cache at its limit;
`SizeExact` and `Accounts` about the two numbers the skip list keeps by hand;
`NothingForgotten`, `NothingLost`, `AckedOnDisk` and `AllRead` about data that must not be
lost to a flush, a buffer, a crash or a torn record; `FooterLocates`, `BlocksDecode`,
`NoFalseNegatives` and `ParseFindsBlocks` about what can be read back from a table;
`ParseInverts`, `RecentKeysAnswered` and `GetsAnswerSets` about what a client sees.

Bounds. `MaxCalls` and `MaxCrashes` bound the clients and the crashes and nothing else; the
files, the log and the numbers grow only with calls. Four calls are enough for a full
cache, an eviction, an erasure and a read of what is left; with two threads a writer can
come at any point of a reader's two cache calls, and the proofs cover any number of threads.
With a limit of two bytes and keys and values of one, a flush happens with the second write. A capacity of one puts
every second insertion at the limit. The clients stop when the calls are used up, so
deadlock is not checked in the `DBImpl` runs: what must not stop is `CallsReturn`. The
skip list needs no bound, its state is finite; three keys and three levels have a node
above, below and beside every other one.

The log's header and buffer are scaled down from 8 and 65,536 bytes: with a header of two
and a buffer of four, payloads of 0, 1, 2, 3 and 7 bytes are empty, leave room, fill the
buffer exactly, spill over, and need several writes. `OffsetLimit` is scaled down from 2^31
to 20, which two records stay below and three may pass. Three records and two crashes give a
torn record, a record behind it, and a crash in that one too. The run ends when the records
are written and the reader has met a corrupt one, so deadlock is not checked.

Seven calls of the cache make and evict three nodes of a shard for two, while two of them
are held, erased and inserted again. Keys in a table are added in increasing order, so six
keys bound it; they are chosen to be prefixes of one another, to agree again after they
differ, and to have a last byte of 0xff or below a space, and the values to be empty, a
newline, or half of a block. Three records to a group is the least for which the key before
a record is not always the first of its group; blocks of 60 bytes have up to five records, so
that a block may have a full group, and a group that is not full behind it. The run `doc_index`
has two plain keys and blocks of 40 bytes, so that every violation is that of a full block. The
filter has more keys than it was made for. Hashes have
eight bits, so that they wrap.

Three requests are a SET, a DEL or a second SET, and a GET, by any of the clients, with a
flush or an eviction in between. Among the fourteen are a SET and a DEL that the parser takes
for others because of a newline in a key, values that look like RESP, and bytes that are no
RESP at all. Counts and lengths have one digit (`RequestAssumption`). TCP may
cut a request once, after 1, 6 or 24 bytes: in the count, in the length of the first
argument, and in or behind the last one, which leaves every kind of half request. More cuts
multiply the states and add no new kind of buffer. The clients stop after their requests,
so deadlock is not checked; `Answered` says that they are not left waiting.

Fairness. `Answered` assumes that bytes on the wire arrive, which is TCP's promise on a
connection that stays up, and that muduo's loop calls back for a connection with bytes in
its buffer (level-triggered epoll). The specification says the latter by the part of
`OnMessage` that empties the buffer, which is enabled exactly when `OnMessage` is.
`CallsReturn` assumes weak fairness of each thread inside a call: the system's
scheduler runs a thread that can run. It is enough, although `std::shared_mutex` may let
readers pass a waiting writer, because the number of calls is bounded; nothing is said of
a writer facing an endless stream of readers. No fairness is assumed of clients, crashes or
restarts. `OperationsEnd` assumes that the thread that runs an operation goes on.

The clients of `returns` never put a name that may still be cached (`Overwrites = FALSE`):
for them the store is a map, `ReadsLatest`. With overwrites it is not, which is the run
`doc_update`.

### What the violations show

1. `doc_update`: the cache keeps the node of a known key (`lru.h:139`): after `Put(a, x)` and
   `Put(a, y)`, both of which succeed, `Get(a)` answers `x`, until the entry is evicted.
2. `doc_get`: a `Get` that misses the cache and the memtable ends the process
   (`db_impl.cpp:121`, `sst_parser.cpp:79`).
3. `doc_wal`: a log record ends at the first zero byte of the encoded key length.
4. `doc_index`: the index entry of a block that `add` has filled is made after the offset has
   been advanced by the block's size (`sstable_builder.cpp:46`, `:53`), so it points behind the
   block; its key is made from the last two keys of the block (`:50`), and for `a` and `abc` it
   is `a` and a space, below `abc`.
5. `doc_del`: `DEL` is a `Put` of the empty string, rejected before it reaches the cache, so a
   `GET` goes on answering the old value (`server.cpp:180`).

More comments of the repository do not describe the code, and no run is spent on them:

* `Close` promises to persist everything (`db_impl.h:50`) and is one `return`;
* the table numbers are to be found by a scan of the directory (`options.h:29`) and start at 0,
  so that after a restart a flush appends to a table of the last run;
* `shared_key_len` is to be the length shared with the full key of the restart point
  (`data_block_builder.h:43`, `sst_parser.cpp:178`) and is that shared with the key before
  (`data_block_builder.cpp:32`);
* `record_num` is to be the number of records in a group (`data_block_builder.h:54`), above 0
  (`sst_parser.cpp:194`), and is 0 for a last group that is full (`data_block_builder.cpp:74`);
* the last index key is to be above the block's keys (`index_block_builder.h:15`) and wraps to
  a smaller one when the last key ends in 0xff (`sstable_builder.cpp:97`);
* the log is to be safe by its `fsync` (`wal_writer.cpp:31`, `options.h:63`), whose result is
  ignored (`file_writer.cpp:111`).

All of this is in the modules: the first two in `DBImpl`, the next three in `SSTable`, where
`BlocksDecode` states the third and the fourth, the last one in `FileWriter`.

## Proofs

Every theorem is proved for all values of the constants of its module that satisfy the
module's named assumptions, so for any number of threads, users, keys, records, calls and
crashes. Where TLC can evaluate an inductive invariant, it was checked on the run's instance
before it was proved.

What a loop or a fold computes is proved by a least counterexample: the set of the lengths or
positions at which the claim fails is a set of natural numbers, and if it is not empty it has
a least element (`LeastNumber` in `ListLemmas`), which the step before it refutes. A recursive
function of the model is a `CHOOSE`; that there is such a function is shown first, by the same
argument.

### DBImpl

From `StringsAssumption`, `SizesAssumption` and `SwitchesAssumption` (the special values are
distinct, cutting at a NUL is idempotent, keys are shorter than 2^24 bytes):

* `TypeCorrect`: `Spec => []TypeOK`;
* `CacheAlwaysCoherent`: `Spec => []CacheCoherent`;
* `NodeAlwaysThere`: `Spec => []NodeNeverNull`;
* `Implements`: `Spec => ImplementsKVStore`;
* `NothingIsForgotten`: `Spec => []NothingForgotten`;
* `FreshReadsLatest`: `Spec => []ReadsLatest`, if `~Overwrites`.

The inductive invariant is `TypeInv`. The types alone are not inductive: a shard's list
keeps its type under an erasure only if the key is in it, which is `CacheCoherent`; the
lock's owner must be told from the program counters (`LockInv`), or two writers could be
inside; and the outcomes of a write depend on which argument checks it has passed
(`ArgsInv`). `NodeNeverNull` then follows since only a thread with the unique lock takes an
entry out and `LockInv` keeps it apart from every reader. The refinement adds `LiveInv`:
what the memtable and the cache hold is in `live`, except for the entry a `Delete` has
already overtaken in the memtable and will erase under the same lock.

`NothingForgotten` needs `FlushInv`: every file with a number below `LISST_NUM` has a table,
and between the end of the table and the new memtable the last table of the current file is
what `Tabled` leaves of the memtable. The statement is about every name but the empty one,
whose entry the builder drops. `ReadsLatest` holds for clients that never put a name that may still be cached
(the run `doc_update` shows why it needs them). `FreshInv` says that a cached value is the
last one or is about to be erased by a `Delete` that has the lock, and that a `Put` on its
way finds no entry of its key in the cache.

### Skip list

From `KeysAssumption`, `HeightAssumption` and `SizeAssumption` of `SkipList` (keys are numbers
above the head and `nullptr`, sizes are natural numbers):

* `SkipListTypeCorrect`, `LevelsStaySorted`, `LoopsStayInBounds`: `Spec => []TypeOK`,
  `[]LevelsSorted`, `[]InBounds`;
* `SizeIsExact`: `Spec => []SizeExact`;
* `MemUsageIsExact`: `Spec => []Accounts`;
* `SkipListRefinesMap`: `Spec => ImplementsMap`.

`SkipInv` adds to the types and `LevelsSorted` what the loops rely on: a descent is at a node
before the key on a level in use (`Descending`); `FindPrevNode` has noted the gap of the key
on every level it has left (`Placing`), and on the levels still to be linked that gap is
still there or the level is new (`LinkingOK`); Delete has in `prev` the node before the key
on all levels it has passed (`Deleting`). A round of a linking loop changes one level, so
`LinkLevel` and `UnlinkLevel` are about one sorted list. `SizeInv` says what an operation has
counted and not yet done. For `mem_usage`, a sum over the keys, it is shown once what one key
more, one less, or another value does to the sum. For the refinement `MapInv` says which operation is in which loop,
and that a scan has visited exactly the keys before the one it is at, in order.

### Cache

From `CacheAssumption` of `LRU`, and `LockType # "NullLock"`: with a lock that locks nothing,
which the code has for a single thread, two users can be inside a shard and none of this
holds:

* `LRUTypeCorrect`, `ListsAndIndexAgree`, `CountsAreExact`, `GarbageIsKept`:
  `Spec => []TypeOK`, `[]ListsIndexed`, `[]RefsExact`, `[]GarbageKept`;
* `CallsTakeEffectAtOnce`: `Spec => CallsTakeEffect`;
* `CacheRefinesKeyCache`: `Spec => ImplementsKeyCache`.

`CacheInv(c, h)` says of a value `c` of the cache, with `h[n]` gets of node `n` that were not
released, that lists, index, counts and garbage station agree. Every operation is a function
of `c`, so that it is shown once for each of them that it keeps `CacheInv`, with `h` counted
up or down. `LRUInv` then says who is in which shard: a user in a call has its lock, so that
what it found when it came in is still in the index when it goes on (`LocksHeld`). The
refinement maps the nodes of a list to their keys; nodes of one list have different keys, so
moving or removing a node is moving or removing its key.

### File layer and log

From `BufferAssumption`, `WALAssumption` (a record is shorter than
`OffsetLimit`) and `BytesAssumption` (headers and payloads are made of bytes):

* `FileLosesNothing`: `FileSpec => []NothingLost`, the file layer on its own with any data;
* `LogLosesNothing`: `Spec => []NothingLost`, under the log;
* `LogUsesFileWriter`: `Spec => FileSpec`, every step of the log is one of `FileWriter` or
  leaves it alone;
* `LogTypeCorrect`: `Spec => []TypeOK`;
* `AckedStaysOnDisk`: `Spec => []AckedOnDisk`;
* `ReadersMissNothing`: `Spec => AllRead`, which is about logs shorter than `OffsetLimit`.

The last two are about the records whose own `fsync` did not fail.

`NothingLost` is inductive together with the types, because it also says when the buffer is
full and when nothing is left to copy: a step of `append` only moves a border inside the
bytes that were handed over. The log needs one more fact, `LogInv`: while `AddLog` is
between its two appends, `rec` is a record.

`AckInv` adds that what was handed over ends with the part of the record that `AddLog` has
appended: when `SyncLog` has moved all of it to the disk, the record is there, and what is
synced never changes (`DiskKept`).

`ReadInv` is what makes a reader complete. For some `T`, the first `T` bytes are records in
one piece, one after the other, the last perhaps incomplete (`Structured`); without a torn
record `T` is all that was handed over, with one it ends inside what is on disk, and every
sound record is within `T` (`Kept`). The reader is at the beginning of a record, or behind
`T`, and has returned every record before (`Caught`). So if a sound record is missing, the
first record where the reader is ends no later than the missing one, is complete in the file,
and can be read (`NextIsComplete`): the reader does not stop there. `Structured` speaks of the
neighbours of each byte instead of a list of records, which keeps the argument free of
induction over the file.

### Tables

From `TableAssumption` and the assumptions of `BloomFilter`, for any keys and values, any hash
and any block size, restart interval and size of the filter:

* `TableTypes`: `Spec => []TypeOK`;
* `FooterIsRight`: `Spec => [](Len(file) \in Sizes => FooterLocates)`;
* `FilterIsComplete`: `Spec => [](Len(file) \in Sizes => NoFalseNegatives)`;
* `ParserFindsBlocks`: `Spec => [](Len(file) \in Sizes => ParseFindsBlocks)`.

`Sizes` are the numbers below 2^31. The footer and the index hold offsets and sizes as `int`s,
so that in a longer file they wrap and the three statements are false; the builder does not
check for it.

The codec comes first: a number below 2^31 is read back as it was written (`DecodeEncoded`).
The filter rests on `OrByteSets`: `OrByte`, a sum of powers of two, sets one bit and leaves the
other seven, so that a bit once set stays set and `exists` finds all the bits of a key that
`create_filter` has set, whatever was added before and after (`FilterAdmits`). `TableInv` says
that while the builder is at work the blocks in the history lie one behind the other and fill
the file, and that their keys are among those the filter is given; `finish_sst` then puts the
parts where its footer says (`FileLayout`).

`IndexInv` is about the index. Its bytes are one entry for every block, with the block's size
(`Describes`); if the keys added so far are plain, the entries' keys increase and the last one
is not above the last key added (`Ordered`). `ShortestBetween` is why this is kept:
`find_shortest_key` counts agreeing positions behind the common prefix too, and its result is
nevertheless above the first key and not above the second. The loop over the index only moves
forward, so that it is defined on any bytes (`ReadingDefined`), and reads exactly the entries
there are (`IndexIsRead`).

### Server

From `RequestAssumption` (counts and lengths of one digit) and `BoundAssumption`, for any
requests otherwise, those the parser misreads included, and any flushes and evictions:

* `ServerTypes`: `Spec => []TypeOK`;
* `ParserInvertsEncoding`: `Spec => []ParseInverts`;
* `ServerKnowsRecentKeys`: `Spec => []RecentKeysAnswered`;
* `ServerAnswersSets`: `Spec => GetsAnswerSets`.

The parser is shown to be defined on all bytes, each round of its loop to take one argument,
and so the arguments of an encoded request to come back. `ServerInv` adds to the types that,
as long as nothing was misread, nothing is on its way but what somebody waits for (`Quiet`),
that memtable and cache hold what was SET or the empty value of an erased key, and the memtable
every key named since the last flush (`Backed`), and that the process went down for a key
nobody had named since then (`Down`). The last two statements are about behaviours up to the
first callback that cannot be read: behind it a client may have been answered for a request it
never made, and they are false.

### Only model-checked

* Liveness under fairness: `CallsReturn`, `OperationsEnd`, `Answered`. The prover does not
  reason about `ENABLED`.
* `BlocksDecode`. Its decoder recurses over bytes that may be anything, with lengths that may
  be below zero; there need not be a function that satisfies the recursion for all offsets.

## Not modelled

`redis_wrapper.cpp` and `server/config.cpp` are commented out throughout; `avl_tree.h` is
included by no source file and leaves its insertion, deletion and rotations undefined.
`SSTParser::Seek`, `FindKeyInDB` and their helpers are never reached, because `Parse` dies
before it returns; they also expect another block format than the builder's (an offset
behind the restart number, `sst_parser.cpp:122`). `MemTable::ConvertToL1SST` has no body.
The bits of `murmur_hash2` and of the CRC are parameters. Connections that close, and
requests sent before the last answer, are left out of `Server`. Logging, the allocator and the example program keep no state
the properties speak of. A crash inside `AddLog` and a failing `write` belong to
`FileWriter` and `WAL`; `DBImpl` takes `AddLog` as one step. The destructors of the writers
only flush and sync what is left, which is a `Flush` followed by a crash that keeps all.

## What is left

`BlocksDecode` for all constants would need a decoder that stops at a length below zero, and an
induction over the records of a group. `Seek` can be added once `Parse` returns. Everything else
the inventory names is modelled, and every safety property of a passing run but that one is
proved.
