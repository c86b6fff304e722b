-------------------------------- MODULE DBImpl --------------------------------
(***************************************************************************)
(* smallkv::DBImpl: Put, Delete, Get, Close and the flush of the memtable, *)
(* called by several threads under one std::shared_mutex, with the death   *)
(* of the process (a crash, or an assert or a bad pointer in the read      *)
(* path) and a new start over the files it left.                           *)
(*                                                                         *)
(* A thread's pc is the statement it runs next.  Volatile state: the lock, *)
(* the memtable (a map; the skip list behind it is a module of its own),   *)
(* the sharded LRU cache, LISST_NUM.  State on disk: the WAL and the .sst  *)
(* files.  latest and live are history variables: the last value written   *)
(* under each name, and the values KVStore lets a Get answer.              *)
(***************************************************************************)
EXTENDS Integers, Sequences, SequencesExt, FiniteSets, FiniteSetsExt, TLC

CONSTANTS
    Threads,        \* client threads
    Keys, Values,   \* non-empty strings used as keys and as values
    Empty,          \* the empty string
    CStr,           \* CStr[s]: s up to its first NUL byte (string_view::data() read as a C string)
    SizeOf,         \* SizeOf[s]: the length of s in bytes
    NullPtr,        \* Get called with ret_value_ptr == nullptr
    Absent,         \* no entry
    NoThread,       \* nobody holds the lock
    Shards,         \* the shards of the cache
    ShardOf,        \* ShardOf[k]: the shard k hashes to
    CACHE_SIZE,     \* Options::CACHE_SIZE, the capacity of one shard
    MEM_TABLE_MAX_SIZE,     \* Options::MEM_TABLE_MAX_SIZE
    DirEndsInSlash, \* does Options::STORAGE_DIR end in "/"?
    Overwrites,     \* may clients Put a name that may still be cached?
    MaxCalls,       \* bound: calls the clients make
    MaxCrashes      \* bound: crashes of the process

KeyArgs == Keys \cup {Empty}
ValArgs == Values \cup {Empty}

ASSUME StringsAssumption ==
    /\ Empty \notin Keys \cup Values
    /\ Absent \notin ValArgs
    /\ NullPtr \notin ValArgs
    /\ NoThread \notin Threads
    /\ \A k \in KeyArgs : CStr[k] \in KeyArgs /\ CStr[CStr[k]] = CStr[k]
    /\ \A v \in ValArgs : CStr[v] \in ValArgs /\ CStr[CStr[v]] = CStr[v]
    /\ CStr[Empty] = Empty

ASSUME SizesAssumption ==
    /\ ShardOf \in [KeyArgs -> Shards]
    /\ CACHE_SIZE \in Nat
    /\ MEM_TABLE_MAX_SIZE \in Nat
    /\ SizeOf[Empty] = 0
    /\ \A s \in Keys \cup Values : SizeOf[s] \in Nat \ {0}
    /\ \A k \in Keys : SizeOf[k] < 16777216

ASSUME SwitchesAssumption ==
    /\ DirEndsInSlash \in BOOLEAN
    /\ Overwrites \in BOOLEAN
    /\ MaxCalls \in Nat
    /\ MaxCrashes \in Nat

VARIABLES
    pc,         \* pc[t]: the next statement of thread t
    call,       \* call[t]: the operation t runs and its arguments
    res,        \* res[t]: the status and the output string of the call
    writer,     \* holder of the unique lock on rwlock_
    readers,    \* holders of a shared lock on rwlock_
    mem_table,  \* mem_table[n]: the value under the name n, or Absent
    cached,     \* cached[k]: the value the cache holds for k, or Absent
    nodes,      \* nodes[s]: the keys of shard s, the last used first
    LISST_NUM,  \* number of the next .sst file
    wal,        \* the payloads of the records in the log file
    sst,        \* sst[n]: the tables in level_0_sst_<n>.sst, for the files that exist
    proc,       \* "up" or "down"
    fault,      \* why the process went down
    latest,     \* history: the last value written under each name
    live,       \* history: the values KVStore lets a Get of a name answer
    calls, crashes      \* how much of each bound is used

clientVars  == <<pc, call, res>>
lockVars    == <<writer, readers>>
cacheVars   == <<cached, nodes>>
diskVars    == <<wal, sst>>
procVars    == <<proc, fault>>
historyVars == <<latest, live>>
boundVars   == <<calls, crashes>>
vars == <<clientVars, lockVars, mem_table, cacheVars, LISST_NUM, diskVars,
          procVars, historyVars, boundVars>>

(***************************************************************************)
(* Calls and outcomes.                                                     *)
(***************************************************************************)

\* val is the value to write; for a Get it is Empty when there is a string
\* to fill and NullPtr when there is none.
CallSet ==
         [op : {"Put"}, key : KeyArgs, val : ValArgs]
    \cup [op : {"Delete"}, key : KeyArgs, val : {Empty}]
    \cup [op : {"Get"}, key : KeyArgs, val : {Empty, NullPtr}]

Outcomes == [status : {"Pending", "InvalidArgs", "Success"}, val : ValArgs]
Pending == [status |-> "Pending", val |-> Empty]
InvalidArgs == [status |-> "InvalidArgs", val |-> Empty]
Success(v) == [status |-> "Success", val |-> v]

\* The name a call's key has in the memtable, and in the cache when it is
\* looked up or erased: the key read as a C string.
Name(t) == CStr[call[t].key]

IsWrite(t) == call[t].op \in {"Put", "Delete"}

(***************************************************************************)
(* The memtable as a map, and its size.                                    *)
(***************************************************************************)
NoEntries == [n \in KeyArgs |-> Absent]

\* SkipList::mem_usage: the bytes of the keys and values it holds.
MemUsage(tab) ==
    MapThenSumSet(LAMBDA n : SizeOf[n] + SizeOf[tab[n]], {n \in KeyArgs : tab[n] # Absent})

\* Put flushes above the limit, Delete already at it.
MustFlush(t) ==
    \/ call[t].op = "Put" /\ MemUsage(mem_table) > MEM_TABLE_MAX_SIZE
    \/ call[t].op = "Delete" /\ MemUsage(mem_table) >= MEM_TABLE_MAX_SIZE

(***************************************************************************)
(* The cache: LRU::insert, erase and get on one shard.                     *)
(***************************************************************************)

\* index[k]: where the key k stands in the list s.
Position(s, k) == CHOOSE i \in 1 .. Len(s) : s[i] = k

\* list::erase and list::splice to the front.
Unlink(s, k) == RemoveAt(s, Position(s, k))
ToFront(s, k) == <<k>> \o Unlink(s, k)

\* Mutant: the list may grow one past its capacity.
CacheInsert_OnePast(k, v) ==
    LET s == nodes[ShardOf[k]]
        full == Len(s) > CACHE_SIZE
        pushed == <<k>> \o s
    IN  IF cached[k] # Absent
        THEN /\ nodes' = [nodes EXCEPT ![ShardOf[k]] = ToFront(s, k)]
             /\ UNCHANGED cached
        ELSE /\ nodes' = [nodes EXCEPT ![ShardOf[k]] = IF full THEN Front(pushed) ELSE pushed]
             /\ cached' = [x \in KeyArgs |->
                             IF full /\ x = Last(pushed) THEN Absent
                             ELSE IF x = k THEN v ELSE cached[x]]

\* A known key only moves to the front: its node keeps the old value and
\* the new one leaks.  A new key may push out the last one.
CacheInsert(k, v) ==
    LET s == nodes[ShardOf[k]]
        full == Len(s) >= CACHE_SIZE
        pushed == <<k>> \o s
    IN  IF cached[k] # Absent
        THEN /\ nodes' = [nodes EXCEPT ![ShardOf[k]] = ToFront(s, k)]
             /\ UNCHANGED cached
        ELSE /\ nodes' = [nodes EXCEPT ![ShardOf[k]] = IF full THEN Front(pushed) ELSE pushed]
             /\ cached' = [x \in KeyArgs |->
                             IF full /\ x = Last(pushed) THEN Absent
                             ELSE IF x = k THEN v ELSE cached[x]]

\* Mutant: the entry stays.
CacheErase_Kept(k) == UNCHANGED cacheVars

CacheErase(k) ==
    IF cached[k] = Absent THEN UNCHANGED cacheVars
    ELSE /\ nodes' = [nodes EXCEPT ![ShardOf[k]] = Unlink(@, k)]
         /\ cached' = [cached EXCEPT ![k] = Absent]

(***************************************************************************)
(* The write-ahead log.  AddLog takes a string_view and Put hands it a     *)
(* char array, so the payload ends at the first zero byte: what is left of *)
(* the encoded key_len, key, val_len, val is the low bytes of key_len, up  *)
(* to the first that is zero (keys are shorter than 2^24 bytes).           *)
(***************************************************************************)
EncodeFixed32(n) ==
    <<n % 256, (n \div 256) % 256, (n \div 65536) % 256, (n \div 16777216) % 256>>

LogPayload(k) ==
    LET buf == EncodeFixed32(SizeOf[k])
        zero == CHOOSE i \in 1 .. 4 : buf[i] = 0 /\ \A j \in 1 .. i - 1 : buf[j] # 0
    IN  SubSeq(buf, 1, zero - 1)

Init ==
    /\ pc = [t \in Threads |-> "idle"]
    /\ call = [t \in Threads |-> [op |-> "Get", key |-> Empty, val |-> Empty]]
    /\ res = [t \in Threads |-> Pending]
    /\ writer = NoThread
    /\ readers = {}
    /\ mem_table = NoEntries
    /\ cached = NoEntries
    /\ nodes = [s \in Shards |-> <<>>]
    /\ LISST_NUM = 0
    /\ wal = <<>>
    /\ sst = <<>>
    /\ proc = "up"
    /\ fault = "none"
    /\ latest = NoEntries
    /\ live = [n \in KeyArgs |-> {}]
    /\ calls = 0
    /\ crashes = 0

(***************************************************************************)
(* Calls.                                                                  *)
(***************************************************************************)

\* A client that never overwrites: it puts C strings, never empty values,
\* and no name that is written or being written.
Fresh(c) ==
    /\ c.val # Empty
    /\ CStr[c.key] = c.key
    /\ latest[c.key] \in {Absent, Empty}
    /\ \A t \in Threads : pc[t] # "idle" /\ call[t].op = "Put" => Name(t) # c.key

Call(t, c) ==
    /\ pc[t] = "idle"
    /\ calls < MaxCalls
    /\ c.op = "Put" => Overwrites \/ Fresh(c)
    /\ calls' = calls + 1
    /\ call' = [call EXCEPT ![t] = c]
    /\ res' = [res EXCEPT ![t] = Pending]
    /\ pc' = [pc EXCEPT ![t] = "lock"]
    /\ UNCHANGED <<lockVars, mem_table, cacheVars, LISST_NUM, diskVars, procVars,
                   historyVars, crashes>>

\* Close returns Success and does nothing; BatchPut and BatchDelete return
\* NotImpl.  None of them takes the lock.
Close(t) ==
    /\ pc[t] = "idle"
    /\ calls < MaxCalls
    /\ calls' = calls + 1
    /\ UNCHANGED <<clientVars, lockVars, mem_table, cacheVars, LISST_NUM, diskVars,
                   procVars, historyVars, crashes>>

\* Mutant: Delete takes the key out of the cache before it has the lock.
LockUnique_ErasesFirst(t) ==
    /\ pc[t] = "lock"
    /\ IsWrite(t)
    /\ IF call[t].op = "Delete" /\ cached[Name(t)] # Absent
       THEN CacheErase(Name(t)) /\ UNCHANGED <<writer, pc>>
       ELSE /\ writer = NoThread
            /\ readers = {}
            /\ writer' = t
            /\ pc' = [pc EXCEPT ![t] = "wal"]
            /\ UNCHANGED cacheVars
    /\ UNCHANGED <<call, res, readers, mem_table, LISST_NUM, diskVars, procVars,
                   historyVars, boundVars>>

\* std::unique_lock on rwlock_, then Delete's check of its key.
LockUnique(t) ==
    /\ pc[t] = "lock"
    /\ IsWrite(t)
    /\ writer = NoThread
    /\ readers = {}
    /\ writer' = t
    /\ IF call[t].op = "Delete" /\ call[t].key = Empty
       THEN /\ res' = [res EXCEPT ![t] = InvalidArgs]
            /\ pc' = [pc EXCEPT ![t] = "wret"]
       ELSE /\ UNCHANGED res
            /\ pc' = [pc EXCEPT ![t] = "wal"]
    /\ UNCHANGED <<call, readers, mem_table, cacheVars, LISST_NUM, diskVars, procVars,
                   historyVars, boundVars>>

\* std::shared_lock on rwlock_, then Get's check of its arguments.
LockShared(t) ==
    /\ pc[t] = "lock"
    /\ call[t].op = "Get"
    /\ writer = NoThread
    /\ readers' = readers \cup {t}
    /\ IF call[t].key = Empty \/ call[t].val = NullPtr
       THEN /\ res' = [res EXCEPT ![t] = InvalidArgs]
            /\ pc' = [pc EXCEPT ![t] = "rret"]
       ELSE /\ UNCHANGED res
            /\ pc' = [pc EXCEPT ![t] = "contains"]
    /\ UNCHANGED <<call, writer, mem_table, cacheVars, LISST_NUM, diskVars, procVars,
                   historyVars, boundVars>>

\* The guard object of the lock goes out of scope.
ReturnWrite(t) ==
    /\ pc[t] = "wret"
    /\ writer' = NoThread
    /\ pc' = [pc EXCEPT ![t] = "idle"]
    /\ UNCHANGED <<call, res, readers, mem_table, cacheVars, LISST_NUM, diskVars,
                   procVars, historyVars, boundVars>>

ReturnRead(t) ==
    /\ pc[t] = "rret"
    /\ readers' = readers \ {t}
    /\ pc' = [pc EXCEPT ![t] = "idle"]
    /\ UNCHANGED <<call, res, writer, mem_table, cacheVars, LISST_NUM, diskVars,
                   procVars, historyVars, boundVars>>

(***************************************************************************)
(* Put and Delete.                                                         *)
(***************************************************************************)

\* EncodeKV and WALWriter::AddLog, which syncs the file.
AddLog(t) ==
    /\ pc[t] = "wal"
    /\ wal' = Append(wal, LogPayload(call[t].key))
    /\ pc' = [pc EXCEPT ![t] = "mem"]
    /\ UNCHANGED <<call, res, lockVars, mem_table, cacheVars, LISST_NUM, sst, procVars,
                   historyVars, boundVars>>

\* Add, Update or Delete of the memtable: the name gets the value as a C
\* string; for Delete the value is the empty string, the tombstone.
WriteMem(t) ==
    /\ pc[t] = "mem"
    /\ LET n == Name(t)
           v == call[t].val
       IN  /\ mem_table' = [mem_table EXCEPT ![n] = CStr[v]]
           /\ latest' = [latest EXCEPT ![n] = v]
           /\ live' = [live EXCEPT ![n] =
                         IF call[t].op = "Put" THEN @ \cup {v, CStr[v]} ELSE {Empty}]
    /\ pc' = [pc EXCEPT ![t] = IF call[t].op = "Put" THEN "args" ELSE "cache"]
    /\ UNCHANGED <<call, res, lockVars, cacheVars, LISST_NUM, diskVars, procVars, boundVars>>

\* Mutant: an early return that leaves the lock taken.
CheckArgs_StaysLocked(t) ==
    /\ pc[t] = "args"
    /\ pc' = [pc EXCEPT ![t] =
                IF call[t].key = Empty \/ call[t].val = Empty THEN "idle" ELSE "cache"]
    /\ UNCHANGED <<call, res, lockVars, mem_table, cacheVars, LISST_NUM, diskVars, procVars,
                   historyVars, boundVars>>

\* Put looks at its arguments only now.
CheckArgs(t) ==
    /\ pc[t] = "args"
    /\ IF call[t].key = Empty \/ call[t].val = Empty
       THEN /\ res' = [res EXCEPT ![t] = InvalidArgs]
            /\ pc' = [pc EXCEPT ![t] = "wret"]
       ELSE /\ UNCHANGED res
            /\ pc' = [pc EXCEPT ![t] = "cache"]
    /\ UNCHANGED <<call, lockVars, mem_table, cacheVars, LISST_NUM, diskVars, procVars,
                   historyVars, boundVars>>

\* Mutant: Delete erases the whole key, the way Put inserts it.
WriteCache_WholeKey(t) ==
    /\ pc[t] = "cache"
    /\ IF call[t].op = "Put" THEN CacheInsert(call[t].key, call[t].val)
                             ELSE CacheErase(call[t].key)
    /\ res' = [res EXCEPT ![t] = Success(Empty)]
    /\ pc' = [pc EXCEPT ![t] = "wret"]
    /\ UNCHANGED <<call, lockVars, mem_table, LISST_NUM, diskVars, procVars,
                   historyVars, boundVars>>

\* Put inserts under the whole key, Delete erases the key as a C string.
\* Then the size of the memtable decides whether it is flushed.
WriteCache(t) ==
    /\ pc[t] = "cache"
    /\ IF call[t].op = "Put" THEN CacheInsert(call[t].key, call[t].val)
                             ELSE CacheErase(Name(t))
    /\ IF MustFlush(t)
       THEN /\ UNCHANGED res
            /\ pc' = [pc EXCEPT ![t] = "flush"]
       ELSE /\ res' = [res EXCEPT ![t] = Success(Empty)]
            /\ pc' = [pc EXCEPT ![t] = "wret"]
    /\ UNCHANGED <<call, lockVars, mem_table, LISST_NUM, diskVars, procVars,
                   historyVars, boundVars>>

\* The tables in file n; a file that does not exist has none.
TablesIn(n) == IF n \in DOMAIN sst THEN sst[n] ELSE <<>>

\* SSTableBuilder::add ignores the empty key.
Tabled(tab) == [tab EXCEPT ![Empty] = Absent]

\* A table written to the end of the file with the number LISST_NUM.
\* FileWriter opens a file for appending unless told otherwise.
WithTable(tab, whole) ==
    [n \in DOMAIN sst \cup {LISST_NUM} |->
        IF n = LISST_NUM THEN Append(TablesIn(n), [tab |-> tab, whole |-> whole])
                         ELSE sst[n]]

\* MemTableToSST up to the last byte of the table.  A table without records
\* is an assert in finish_sst, before the footer.
MemTableToSST(t) ==
    /\ pc[t] = "flush"
    /\ IF Tabled(mem_table) = NoEntries
       THEN /\ sst' = WithTable(NoEntries, FALSE)
            /\ proc' = "down"
            /\ fault' = "empty table"
            /\ UNCHANGED pc
       ELSE /\ sst' = WithTable(Tabled(mem_table), TRUE)
            /\ pc' = [pc EXCEPT ![t] = "newmem"]
            /\ UNCHANGED procVars
    /\ UNCHANGED <<call, res, lockVars, mem_table, cacheVars, LISST_NUM, wal, historyVars,
                   boundVars>>

\* Mutant: the file number is not advanced.
NewMemTable_SameNumber(t) ==
    /\ pc[t] = "newmem"
    /\ mem_table' = NoEntries
    /\ res' = [res EXCEPT ![t] = Success(Empty)]
    /\ pc' = [pc EXCEPT ![t] = "wret"]
    /\ UNCHANGED <<call, lockVars, cacheVars, LISST_NUM, diskVars, procVars, historyVars,
                   boundVars>>

\* ++LISST_NUM and a fresh memtable.
NewMemTable(t) ==
    /\ pc[t] = "newmem"
    /\ LISST_NUM' = LISST_NUM + 1
    /\ mem_table' = NoEntries
    /\ res' = [res EXCEPT ![t] = Success(Empty)]
    /\ pc' = [pc EXCEPT ![t] = "wret"]
    /\ UNCHANGED <<call, lockVars, cacheVars, diskVars, procVars, historyVars, boundVars>>

(***************************************************************************)
(* Get.                                                                    *)
(***************************************************************************)
CacheContains(t) ==
    /\ pc[t] = "contains"
    /\ pc' = [pc EXCEPT ![t] = IF cached[Name(t)] # Absent THEN "hit" ELSE "memread"]
    /\ UNCHANGED <<call, res, lockVars, mem_table, cacheVars, LISST_NUM, diskVars,
                   procVars, historyVars, boundVars>>

\* cache->get(key)->val, a second call on the cache; a null node kills the
\* process.
CacheGet(t) ==
    /\ pc[t] = "hit"
    /\ LET k == Name(t) IN
       IF cached[k] = Absent
       THEN /\ proc' = "down"
            /\ fault' = "null node"
            /\ UNCHANGED <<pc, res, nodes>>
       ELSE /\ res' = [res EXCEPT ![t] = Success(cached[k])]
            /\ pc' = [pc EXCEPT ![t] = "rret"]
            /\ nodes' = [nodes EXCEPT ![ShardOf[k]] = ToFront(@, k)]
            /\ UNCHANGED procVars
    /\ UNCHANGED <<call, lockVars, mem_table, cached, LISST_NUM, diskVars, historyVars,
                   boundVars>>

\* Mutant: the optional is read without looking whether it has a value.
ReadMem_Unchecked(t) ==
    /\ pc[t] = "memread"
    /\ res' = [res EXCEPT ![t] = Success(mem_table[Name(t)])]
    /\ pc' = [pc EXCEPT ![t] = "rret"]
    /\ UNCHANGED <<call, lockVars, mem_table, cacheVars, LISST_NUM, diskVars, procVars,
                   historyVars, boundVars>>

\* A tombstone is a value like any other: Success with the empty string.
ReadMem(t) ==
    /\ pc[t] = "memread"
    /\ LET v == mem_table[Name(t)] IN
       IF v # Absent
       THEN /\ res' = [res EXCEPT ![t] = Success(v)]
            /\ pc' = [pc EXCEPT ![t] = "rret"]
       ELSE /\ UNCHANGED res
            /\ pc' = [pc EXCEPT ![t] = "sst"]
    /\ UNCHANGED <<call, lockVars, mem_table, cacheVars, LISST_NUM, diskVars, procVars,
                   historyVars, boundVars>>

\* The parser asserts that the file exists.  Get builds its path without
\* the "/" that MemTableToSST puts in, so unless STORAGE_DIR ends in one it
\* names a file nobody writes.  When the file is there, Parse reads the
\* hash count at an offset it takes for an address, a page never mapped in
\* a position-independent build.
ReadSST(t) ==
    /\ pc[t] = "sst"
    /\ proc' = "down"
    /\ fault' = IF DirEndsInSlash /\ 0 \in DOMAIN sst THEN "bad address" ELSE "no file"
    /\ UNCHANGED <<clientVars, lockVars, mem_table, cacheVars, LISST_NUM, diskVars,
                   historyVars, boundVars>>

(***************************************************************************)
(* The process.                                                            *)
(***************************************************************************)

\* A crash anywhere; during a flush it may leave part of a table behind.
Crash ==
    /\ proc = "up"
    /\ crashes < MaxCrashes
    /\ crashes' = crashes + 1
    /\ proc' = "down"
    /\ fault' = "crash"
    /\ \/ UNCHANGED sst
       \/ /\ \E t \in Threads : pc[t] = "flush"
          /\ sst' = WithTable(NoEntries, FALSE)
    /\ UNCHANGED <<clientVars, lockVars, mem_table, cacheVars, LISST_NUM, wal,
                   historyVars, calls>>

\* The constructor: an empty cache and memtable, LISST_NUM from the default
\* options, the log opened for appending.  Nothing is read back.
Restart ==
    /\ proc = "down"
    /\ proc' = "up"
    /\ fault' = "none"
    /\ pc' = [t \in Threads |-> "idle"]
    /\ writer' = NoThread
    /\ readers' = {}
    /\ mem_table' = NoEntries
    /\ cached' = NoEntries
    /\ nodes' = [s \in Shards |-> <<>>]
    /\ LISST_NUM' = 0
    /\ latest' = NoEntries
    /\ live' = [n \in KeyArgs |-> {}]
    /\ UNCHANGED <<call, res, diskVars, boundVars>>

\* What thread t does inside a call, from the lock to the return.
Step(t) ==
    /\ proc = "up"
    /\ \/ LockUnique(t) \/ LockShared(t)
       \/ AddLog(t) \/ WriteMem(t) \/ CheckArgs(t) \/ WriteCache(t)
       \/ MemTableToSST(t) \/ NewMemTable(t)
       \/ CacheContains(t) \/ CacheGet(t) \/ ReadMem(t) \/ ReadSST(t)
       \/ ReturnWrite(t) \/ ReturnRead(t)

\* Thread t enters the library.
Ask(t) ==
    /\ proc = "up"
    /\ (\E c \in CallSet : Call(t, c)) \/ Close(t)

Next ==
    \/ \E t \in Threads : Ask(t) \/ Step(t)
    \/ Crash
    \/ Restart

Spec == Init /\ [][Next]_vars

\* A thread inside a call is scheduled again and again.
FairSpec == Spec /\ \A t \in Threads : WF_vars(Step(t))

(***************************************************************************)
(* Properties.                                                             *)
(***************************************************************************)
UniquePCs == {"wal", "mem", "args", "cache", "flush", "newmem", "wret"}
SharedPCs == {"contains", "hit", "memread", "sst", "rret"}

Tables == [tab : [KeyArgs -> ValArgs \cup {Absent}], whole : BOOLEAN]

ClientsOK ==
    /\ pc \in [Threads -> {"idle", "lock"} \cup UniquePCs \cup SharedPCs]
    /\ call \in [Threads -> CallSet]
    /\ res \in [Threads -> Outcomes]

LockOK ==
    /\ writer \in Threads \cup {NoThread}
    /\ readers \in SUBSET Threads

MemTableOK ==
    /\ mem_table \in [KeyArgs -> ValArgs \cup {Absent}]
    /\ LISST_NUM \in Nat

CacheTypeOK ==
    /\ cached \in [KeyArgs -> ValArgs \cup {Absent}]
    /\ nodes \in [Shards -> Seq(KeyArgs)]

DiskOK ==
    /\ wal \in Seq(Seq(0 .. 255))
    /\ DOMAIN sst \subseteq Nat
    /\ \A n \in DOMAIN sst : sst[n] \in Seq(Tables)

ProcOK ==
    /\ proc \in {"up", "down"}
    /\ fault \in {"none", "null node", "no file", "bad address", "empty table", "crash"}

HistoryOK ==
    /\ latest \in [KeyArgs -> ValArgs \cup {Absent}]
    /\ live \in [KeyArgs -> SUBSET ValArgs]

BoundsOK ==
    /\ calls \in 0 .. MaxCalls
    /\ crashes \in 0 .. MaxCrashes

\* Every variable holds a value of the type its C++ counterpart has.
TypeOK ==
    /\ ClientsOK /\ LockOK /\ MemTableOK /\ CacheTypeOK /\ DiskOK
    /\ ProcOK /\ HistoryOK /\ BoundsOK

\* The list of a shard and the index of its keys agree after any sequence
\* of insertions, evictions, erasures and moves to the front: every cached
\* key stands in the list of its shard, once, and no list is longer than
\* CACHE_SIZE.
CacheCoherent ==
    \A s \in Shards :
        /\ Len(nodes[s]) <= CACHE_SIZE
        /\ IsInjective(nodes[s])
        /\ ToSet(nodes[s]) = {k \in KeyArgs : ShardOf[k] = s /\ cached[k] # Absent}

\* Get asks the cache twice, contains and then get, and dereferences what
\* get returns.  Between the two no Delete or Put of another thread removes
\* the entry: the node is never null, whichever threads run.
NodeNeverNull ==
    /\ \A t \in Threads : pc[t] = "hit" => cached[Name(t)] # Absent
    /\ fault # "null node"

\* The value of the name n in the files this process has written: the last
\* table of the file with the highest number that has n.
Flushed(n) ==
    LET files == {f \in 0 .. LISST_NUM - 1 : Last(sst[f]).tab[n] # Absent} IN
    IF files = {} THEN Absent
    ELSE Last(sst[CHOOSE f \in files : \A g \in files : g <= f]).tab[n]

Newest(n) == IF mem_table[n] # Absent THEN mem_table[n] ELSE Flushed(n)

\* What a table holds for the name n when nothing was lost.
Written(n) == IF latest[n] = Absent THEN Absent ELSE CStr[latest[n]]

\* No write is lost to a flush: through any sequence of calls, flushes and
\* restarts, the memtable together with the files this process has written
\* still has, newest first, the last value (or tombstone) of every name but
\* the empty one, which no table has: it is the name of the keys that begin
\* with a NUL, and of the empty key.
NothingForgotten ==
    \A n \in KeyArgs \ {Empty} : Newest(n) = Written(n)

\* A Get that succeeds answers the last value written under the name.
ReadsLatest ==
    \A t \in Threads :
        pc[t] = "rret" /\ res[t].status = "Success"
            => res[t].val \in {latest[Name(t)], CStr[latest[Name(t)]]}

\* How DBImpl implements KVStore: a write has taken effect once the
\* memtable has it.
Applied(t) ==
    \/ pc[t] \in {"args", "cache", "flush", "newmem"}
    \/ pc[t] = "wret" /\ ~(call[t].op = "Delete" /\ call[t].key = Empty)

Phase ==
    [t \in Threads |-> IF pc[t] = "idle" THEN "idle"
                       ELSE IF Applied(t) THEN "applied" ELSE "asked"]

KV == INSTANCE KVStore WITH phase <- Phase

\* Every behaviour of DBImpl is one KVStore allows: a Get never answers a
\* value older than the last Delete of its name, nor one that was never
\* put, and no write returns before it has taken effect, once.
ImplementsKVStore == KV!Spec

\* A call that is made returns, unless the process goes down.
CallsReturn ==
    \A t \in Threads : (proc = "up" /\ pc[t] # "idle") ~> (proc = "down" \/ pc[t] = "idle")

(***************************************************************************)
(* What the repository says of the program and the code does not do.       *)
(***************************************************************************)

\* "Set and Update semantics": a Get of a name whose last write was not a
\* Delete or a rejected Put of the empty value answers the value of the
\* last Put, also when the name had a value before.
PutUpdates ==
    \A t \in Threads :
        pc[t] = "rret" /\ res[t].status = "Success" /\ latest[Name(t)] # Empty
            => res[t].val \in {latest[Name(t)], CStr[latest[Name(t)]]}

\* Get goes on from the cache to the memtable and the sst files; it never
\* kills the process.
GetReadsDown == fault \in {"none", "crash", "empty table"}

\* The log makes what was written safe: the record of an acknowledged write
\* holds the key and the value that were written.
LogHoldsWrite ==
    \A t \in Threads :
        pc[t] = "wret" /\ res[t].status = "Success"
            => Len(Last(wal)) >= SizeOf[call[t].key] + SizeOf[call[t].val]
=============================================================================
