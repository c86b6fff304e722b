-------------------------- MODULE DBImplRefinement --------------------------
(***************************************************************************)
(* DBImpl implements KVStore; no write is lost to a flush; and a client    *)
(* that never overwrites a live name always reads the last value.          *)
(***************************************************************************)
EXTENDS DBImplProofs

(***************************************************************************)
(* What the memtable and the cache hold is readable in KVStore.  The cache *)
(* may hold an older value only while the Delete that has already marked   *)
(* the memtable is about to erase it.  A key with a NUL byte in it is      *)
(* never looked up in the cache.                                           *)
(***************************************************************************)
Erasing(k) == \E t \in Threads : pc[t] = "cache" /\ call[t].op = "Delete" /\ Name(t) = k

MemLive == \A n \in KeyArgs : mem_table[n] # Absent => mem_table[n] \in live[n]

CacheLive ==
    \A k \in KeyArgs : CStr[k] = k /\ cached[k] # Absent => Erasing(k) \/ cached[k] \in live[k]

PutLive ==
    \A t \in Threads :
        pc[t] \in {"args", "cache"} /\ call[t].op = "Put" => call[t].val \in live[Name(t)]

LiveInv == MemLive /\ CacheLive /\ PutLive

\* Nothing is readable at the start, and nothing is stored.
LEMMA LiveInit == Init => LiveInv
  BY StringsAssumption DEF Init, LiveInv, MemLive, CacheLive, PutLive, NoEntries

\* A step that leaves the data alone, and no thread at or past "mem".
LEMMA LiveFrame ==
    ASSUME LiveInv, mem_table' = mem_table, cached' = cached, live' = live,
           \A t \in Threads : pc'[t] \in {"args", "cache"} =>
                pc[t] \in {"args", "cache"} /\ call'[t] = call[t],
           \A t \in Threads : pc[t] = "cache" /\ call[t].op = "Delete" =>
                pc'[t] = "cache" /\ call'[t] = call[t]
    PROVE  LiveInv'
<1>1. MemLive'
  BY DEF LiveInv, MemLive
<1>2. CacheLive'
  BY DEF LiveInv, CacheLive, Erasing, Name
<1>3. PutLive'
  BY DEF LiveInv, PutLive, Name
<1> QED BY <1>1, <1>2, <1>3 DEF LiveInv

\* WriteMem makes the value it stores readable, and a Delete leaves nothing
\* in the cache that it does not come to erase.
LEMMA LiveWriteMem ==
    ASSUME TypeInv, LiveInv, NEW t \in Threads, WriteMem(t)
    PROVE  LiveInv'
<1> DEFINE n == Name(t)
           v == call[t].val
<1>1. /\ call[t] \in CallSet
      /\ n \in KeyArgs
      /\ v \in ValArgs
      /\ call[t].op \in {"Put", "Delete"}
      /\ call[t].op = "Delete" => v = Empty
  BY CallFields, StringsAssumption
  DEF TypeInv, TypeOK, ClientsOK, ArgsInv, IsWrite, UniquePCs, WriteMem, Name
<1>2. /\ mem_table' = [mem_table EXCEPT ![n] = CStr[v]]
      /\ live' = [live EXCEPT ![n] =
                    IF call[t].op = "Put" THEN live[n] \cup {v, CStr[v]} ELSE {Empty}]
      /\ cached' = cached
      /\ call' = call
      /\ pc' = [pc EXCEPT ![t] = IF call[t].op = "Put" THEN "args" ELSE "cache"]
  BY DEF WriteMem, cacheVars
<1>3. \A u \in Threads : u # t => pc[u] \notin {"args", "cache"}
  BY StringsAssumption DEF WriteMem, TypeInv, LockInv, UniquePCs
<1>4. \A u \in Threads : u # t => pc'[u] = pc[u]
  BY <1>2 DEF TypeInv, TypeOK, ClientsOK
<1>5. pc'[t] = IF call[t].op = "Put" THEN "args" ELSE "cache"
  BY <1>2 DEF TypeInv, TypeOK, ClientsOK
<1>6. \A m \in KeyArgs :
        live'[m] = IF m # n THEN live[m]
                   ELSE IF call[t].op = "Put" THEN live[n] \cup {v, CStr[v]} ELSE {Empty}
  BY <1>1, <1>2 DEF TypeInv, TypeOK, HistoryOK
<1>7. MemLive'
  <2>1. \A m \in KeyArgs : mem_table'[m] = IF m = n THEN CStr[v] ELSE mem_table[m]
    BY <1>1, <1>2 DEF TypeInv, TypeOK, MemTableOK
  <2> QED BY <1>1, <1>6, <2>1, StringsAssumption DEF LiveInv, MemLive
<1>8. CacheLive'
  <2> SUFFICES ASSUME NEW k \in KeyArgs, CStr[k] = k, cached[k] # Absent
               PROVE  Erasing(k)' \/ cached[k] \in live'[k]
    BY <1>2 DEF CacheLive
  <2>1. ~Erasing(k)
    BY <1>3 DEF Erasing, WriteMem
  <2>2. cached[k] \in live[k]
    BY <2>1 DEF LiveInv, CacheLive
  <2>3. CASE call[t].op = "Put" \/ k # n
    BY <1>1, <1>6, <2>2, <2>3
  <2>4. CASE call[t].op = "Delete" /\ k = n
    <3>1. pc'[t] = "cache" /\ call'[t].op = "Delete" /\ Name(t)' = k
      BY <1>2, <1>5, <2>4 DEF Name
    <3> QED BY <3>1 DEF Erasing
  <2> QED BY <1>1, <2>3, <2>4
<1>9. PutLive'
  BY <1>1, <1>2, <1>3, <1>4, <1>6 DEF PutLive, Name
<1> QED BY <1>7, <1>8, <1>9 DEF LiveInv

\* WriteCache inserts only what the same call has made readable, and after
\* a Delete takes out what no longer is.
LEMMA LiveWriteCache ==
    ASSUME TypeInv, LiveInv, NEW t \in Threads, WriteCache(t)
    PROVE  LiveInv'
<1>1. /\ call[t].key \in KeyArgs
      /\ Name(t) \in KeyArgs
      /\ call[t].op \in {"Put", "Delete"}
  BY CallFields, StringsAssumption
  DEF TypeInv, TypeOK, ClientsOK, ArgsInv, IsWrite, UniquePCs, WriteCache, Name
<1>2. mem_table' = mem_table /\ live' = live /\ call' = call /\ pc[t] = "cache"
  BY DEF WriteCache, historyVars
<1>3. \A u \in Threads : u # t => pc[u] \notin {"args", "cache"} /\ pc'[u] = pc[u]
  BY StringsAssumption
  DEF WriteCache, TypeInv, TypeOK, ClientsOK, LockInv, UniquePCs
<1>4. pc'[t] \notin {"args", "cache"}
  BY DEF WriteCache, TypeInv, TypeOK, ClientsOK
<1>5. MemLive'
  BY <1>2 DEF LiveInv, MemLive
<1>6. PutLive'
  BY <1>3, <1>4 DEF PutLive
<1>7. \A k \in KeyArgs : Erasing(k) => call[t].op = "Delete" /\ Name(t) = k
  BY <1>3 DEF Erasing
<1>8. CacheLive'
  <2> SUFFICES ASSUME NEW k \in KeyArgs, CStr[k] = k, cached'[k] # Absent
               PROVE  cached'[k] \in live[k]
    BY <1>2 DEF CacheLive
  <2>1. CASE call[t].op = "Delete"
    <3>1. CacheErase(Name(t))
      BY <2>1 DEF WriteCache
    <3>2. k # Name(t) /\ cached'[k] = cached[k]
      BY <1>1, <3>1 DEF CacheErase, cacheVars, TypeInv, TypeOK, CacheTypeOK
    <3> QED BY <1>7, <3>2 DEF LiveInv, CacheLive
  <2>2. CASE call[t].op = "Put"
    <3>1. CacheInsert(call[t].key, call[t].val)
      BY <2>2 DEF WriteCache
    <3>2. cached'[k] = cached[k] \/ (k = call[t].key /\ cached'[k] = call[t].val)
      BY <1>1, <3>1 DEF CacheInsert, TypeInv, TypeOK, CacheTypeOK
    <3>3. CASE cached'[k] = cached[k]
      BY <1>7, <2>2, <3>3 DEF LiveInv, CacheLive
    <3>4. CASE k = call[t].key /\ cached'[k] = call[t].val
      BY <1>2, <2>2, <3>4 DEF LiveInv, PutLive, Name
    <3> QED BY <3>2, <3>3, <3>4
  <2> QED BY <1>1, <2>1, <2>2
<1> QED BY <1>5, <1>6, <1>8 DEF LiveInv

\* Every step keeps what can be read within what KVStore lets a Get answer.
LEMMA LiveStep == TypeInv /\ LiveInv /\ [Next]_vars => LiveInv'
<1> SUFFICES ASSUME TypeInv, LiveInv, [Next]_vars PROVE LiveInv'
  OBVIOUS
<1> USE DEF TypeInv, TypeOK, ClientsOK, lockVars, cacheVars, diskVars, procVars, historyVars,
            boundVars, clientVars
<1>0. CASE UNCHANGED vars
  BY <1>0, LiveFrame DEF vars
<1>1. ASSUME NEW t \in Threads, NEW c \in CallSet, Call(t, c)
      PROVE  LiveInv'
  BY <1>1, LiveFrame DEF Call
<1>2. ASSUME NEW t \in Threads, Close(t) \/ LockUnique(t) \/ LockShared(t) \/ AddLog(t)
      PROVE  LiveInv'
  BY <1>2, LiveFrame DEF Close, LockUnique, LockShared, AddLog
<1>3. ASSUME NEW t \in Threads, WriteMem(t)
      PROVE  LiveInv'
  BY <1>3, LiveWriteMem
<1>4. ASSUME NEW t \in Threads, CheckArgs(t)
      PROVE  LiveInv'
  BY <1>4, LiveFrame DEF CheckArgs, ArgsInv
<1>5. ASSUME NEW t \in Threads, WriteCache(t)
      PROVE  LiveInv'
  BY <1>5, LiveWriteCache
<1>6. ASSUME NEW t \in Threads, MemTableToSST(t)
      PROVE  LiveInv'
  BY <1>6, LiveFrame DEF MemTableToSST
<1>7. ASSUME NEW t \in Threads, NewMemTable(t)
      PROVE  LiveInv'
  <2>1. MemLive'
    BY <1>7 DEF NewMemTable, MemLive, NoEntries
  <2>2. CacheLive'
    BY <1>7 DEF NewMemTable, LiveInv, CacheLive, Erasing, Name
  <2>3. PutLive'
    BY <1>7 DEF NewMemTable, LiveInv, PutLive, Name
  <2> QED BY <2>1, <2>2, <2>3 DEF LiveInv
<1>8. ASSUME NEW t \in Threads, CacheContains(t) \/ ReadMem(t) \/ ReadSST(t)
      PROVE  LiveInv'
  BY <1>8, LiveFrame DEF CacheContains, ReadMem, ReadSST
<1>9. ASSUME NEW t \in Threads, CacheGet(t)
      PROVE  LiveInv'
  BY <1>9, LiveFrame DEF CacheGet
<1>10. ASSUME NEW t \in Threads, ReturnWrite(t) \/ ReturnRead(t)
      PROVE  LiveInv'
  BY <1>10, LiveFrame DEF ReturnWrite, ReturnRead
<1>11. CASE Crash
  BY <1>11, LiveFrame DEF Crash
<1>12. CASE Restart
  BY <1>12 DEF Restart, LiveInv, MemLive, CacheLive, PutLive, NoEntries
<1> QED BY <1>0, <1>1, <1>2, <1>3, <1>4, <1>5, <1>6, <1>7, <1>8, <1>9, <1>10, <1>11, <1>12
        DEF Next, Step, Ask

(***************************************************************************)
(* Every step of DBImpl is a step of KVStore or leaves its state alone.    *)
(***************************************************************************)
\* KVStore's names for calls and outcomes mean what DBImpl's do.
LEMMA KVNames ==
    /\ KV!CallSet = CallSet
    /\ KV!KeyArgs = KeyArgs
    /\ KV!Pending = Pending
    /\ KV!Fail = InvalidArgs
    /\ \A v : KV!Done(v) = Success(v)
  BY DEF KV!CallSet, CallSet, KV!KeyArgs, KeyArgs, KV!ValArgs, ValArgs, KV!Pending, Pending,
         KV!Fail, InvalidArgs, KV!Done, Success

\* A thread's step that moves neither its phase nor the rest of KVStore.
LEMMA PhaseFrame ==
    ASSUME ClientsOK, NEW t \in Threads, NEW p, pc' = [pc EXCEPT ![t] = p], call' = call,
           pc[t] # "idle", p # "idle", Applied(t)' = Applied(t)
    PROVE  Phase' = Phase
<1>1. \A u \in Threads : u # t => pc'[u] = pc[u]
  BY DEF ClientsOK
<1>2. pc'[t] = p
  BY DEF ClientsOK
<1>3. \A u \in Threads : u # t => (Applied(u)' <=> Applied(u))
  BY <1>1 DEF Applied
<1> QED BY <1>1, <1>2, <1>3 DEF Phase

\* A thread's step that moves its phase to q.
LEMMA PhaseMove ==
    ASSUME ClientsOK, NEW t \in Threads, NEW p, NEW q, pc' = [pc EXCEPT ![t] = p],
           \A u \in Threads : u # t => call'[u] = call[u],
           q = IF p = "idle" THEN "idle" ELSE IF Applied(t)' THEN "applied" ELSE "asked"
    PROVE  Phase' = [Phase EXCEPT ![t] = q]
<1>1. \A u \in Threads : u # t => pc'[u] = pc[u]
  BY DEF ClientsOK
<1>2. pc'[t] = p
  BY DEF ClientsOK
<1>3. \A u \in Threads : u # t => (Applied(u)' <=> Applied(u))
  BY <1>1 DEF Applied
<1> QED BY <1>1, <1>2, <1>3 DEF Phase

\* The initial states map to initial states of KVStore.
LEMMA KVInit == Init => KV!Init
  BY KVNames DEF Init, KV!Init, Phase, CallSet, KeyArgs

\* Each statement maps to the step of KVStore it stands for: the call to
\* Invoke, WriteMem to Apply, the statement that fixes the result to
\* Respond, the release of the lock to Return, Restart to Lose; the others
\* leave KVStore's state alone.
LEMMA KVStep == TypeInv /\ NodeNeverNull /\ LiveInv /\ [Next]_vars => [KV!Next]_(KV!vars)
<1> SUFFICES ASSUME TypeInv, NodeNeverNull, LiveInv, [Next]_vars
             PROVE  KV!Next \/ UNCHANGED KV!vars
  OBVIOUS
<1> USE DEF TypeInv, TypeOK, lockVars, cacheVars, diskVars, procVars, historyVars,
            boundVars, clientVars, KV!vars
<1>0. CASE UNCHANGED vars
  BY <1>0 DEF vars, Phase, Applied
<1>1. ASSUME NEW t \in Threads, NEW c \in CallSet, Call(t, c)
      PROVE  KV!Next
  <2>1. Phase' = [Phase EXCEPT ![t] = "asked"]
    <3>1. ~Applied(t)'
      BY <1>1 DEF Call, Applied, ClientsOK
    <3> QED BY <1>1, <3>1, PhaseMove DEF Call, ClientsOK
  <2>2. Phase[t] = "idle"
    BY <1>1 DEF Call, Phase
  <2>3. KV!Invoke(t, c)
    BY <1>1, <2>1, <2>2, KVNames DEF Call, KV!Invoke
  <2> QED BY <2>3, KVNames DEF KV!Next
<1>2. ASSUME NEW t \in Threads, Close(t)
      PROVE  UNCHANGED KV!vars
  BY <1>2 DEF Close, Phase, Applied
<1>3. ASSUME NEW t \in Threads, LockUnique(t)
      PROVE  KV!Next \/ UNCHANGED KV!vars
  <2>1. CASE call[t].op = "Delete" /\ call[t].key = Empty
    <3>1. Phase' = Phase
      BY <1>3, <2>1, PhaseFrame DEF LockUnique, Applied, ClientsOK
    <3>2. KV!Respond(t)
      <4>1. Phase[t] # "idle" /\ res[t] = Pending
        BY <1>3 DEF LockUnique, Phase, ArgsInv
      <4>2. InvalidArgs \in KV!Outcomes(t)
        BY <2>1, KVNames DEF KV!Outcomes
      <4> QED BY <1>3, <2>1, <3>1, <4>1, <4>2, KVNames DEF LockUnique, KV!Respond
    <3> QED BY <3>2 DEF KV!Next
  <2>2. CASE ~(call[t].op = "Delete" /\ call[t].key = Empty)
    <3>1. Phase' = Phase
      BY <1>3, <2>2, PhaseFrame DEF LockUnique, Applied, ClientsOK
    <3> QED BY <1>3, <2>2, <3>1 DEF LockUnique
  <2> QED BY <2>1, <2>2
<1>4. ASSUME NEW t \in Threads, LockShared(t)
      PROVE  KV!Next \/ UNCHANGED KV!vars
  <2>0. Phase' = Phase
    BY <1>4, PhaseFrame DEF LockShared, Applied, ClientsOK
  <2>1. CASE call[t].key = Empty \/ call[t].val = NullPtr
    <3>1. KV!Respond(t)
      <4>1. Phase[t] # "idle" /\ res[t] = Pending
        BY <1>4 DEF LockShared, Phase, ArgsInv
      <4>2. InvalidArgs \in KV!Outcomes(t)
        BY <1>4, <2>1, KVNames DEF LockShared, KV!Outcomes
      <4> QED BY <1>4, <2>0, <2>1, <4>1, <4>2, KVNames DEF LockShared, KV!Respond
    <3> QED BY <3>1 DEF KV!Next
  <2>2. CASE ~(call[t].key = Empty \/ call[t].val = NullPtr)
    BY <1>4, <2>0, <2>2 DEF LockShared
  <2> QED BY <2>1, <2>2
<1>5. ASSUME NEW t \in Threads, AddLog(t)
      PROVE  UNCHANGED KV!vars
  <2>1. Phase' = Phase
    BY <1>5, PhaseFrame DEF AddLog, Applied, ClientsOK
  <2> QED BY <1>5, <2>1 DEF AddLog
<1>6. ASSUME NEW t \in Threads, WriteMem(t)
      PROVE  KV!Next
  <2>1. Phase' = [Phase EXCEPT ![t] = "applied"]
    <3>1. Applied(t)'
      BY <1>6 DEF WriteMem, Applied, ClientsOK
    <3>2. call' = call
      BY <1>6 DEF WriteMem
    <3>3. CASE call[t].op = "Put"
      BY <1>6, <3>1, <3>2, <3>3, PhaseMove DEF WriteMem
    <3>4. CASE call[t].op # "Put"
      BY <1>6, <3>1, <3>2, <3>4, PhaseMove DEF WriteMem
    <3> QED BY <3>3, <3>4
  <2>2. Phase[t] = "asked"
    BY <1>6 DEF WriteMem, Phase, Applied
  <2>3. call[t].op = "Put" \/ (call[t].op = "Delete" /\ call[t].key # Empty)
    BY <1>6 DEF WriteMem, ArgsInv, IsWrite, UniquePCs
  <2>4. live' = KV!AfterWrite(live, call[t])
    BY <1>6 DEF WriteMem, KV!AfterWrite, Name
  <2>5. KV!Apply(t)
    BY <1>6, <2>1, <2>2, <2>3, <2>4 DEF WriteMem, KV!Apply
  <2> QED BY <2>5 DEF KV!Next
<1>7. ASSUME NEW t \in Threads, CheckArgs(t)
      PROVE  KV!Next \/ UNCHANGED KV!vars
  <2>0. call[t].op = "Put"
    BY <1>7 DEF CheckArgs, ArgsInv
  <2>1. CASE call[t].key = Empty \/ call[t].val = Empty
    <3>1. Phase' = Phase
      BY <1>7, <2>0, <2>1, PhaseFrame DEF CheckArgs, Applied, ClientsOK
    <3>2. KV!Respond(t)
      <4>1. Phase[t] = "applied" /\ res[t] = Pending
        BY <1>7 DEF CheckArgs, Phase, Applied, ArgsInv
      <4>2. InvalidArgs \in KV!Outcomes(t)
        BY <2>0, <2>1, <4>1, KVNames DEF KV!Outcomes
      <4> QED BY <1>7, <2>1, <3>1, <4>1, <4>2, KVNames DEF CheckArgs, KV!Respond
    <3> QED BY <3>2 DEF KV!Next
  <2>2. CASE ~(call[t].key = Empty \/ call[t].val = Empty)
    <3>1. Phase' = Phase
      BY <1>7, <2>2, PhaseFrame DEF CheckArgs, Applied, ClientsOK
    <3> QED BY <1>7, <2>2, <3>1 DEF CheckArgs
  <2> QED BY <2>1, <2>2
<1>8. ASSUME NEW t \in Threads, pc[t] \in {"cache", "newmem"},
             pc' = [pc EXCEPT ![t] = "wret"],
             res' = [res EXCEPT ![t] = Success(Empty)], call' = call, live' = live
      PROVE  KV!Next
  <2>1. Phase' = Phase
    BY <1>8, PhaseFrame DEF Applied, ClientsOK, ArgsInv
  <2>2. Phase[t] = "applied" /\ res[t] = Pending
    BY <1>8 DEF Phase, Applied, ArgsInv
  <2>3. Success(Empty) \in KV!Outcomes(t)
    <3>1. call[t].key # Empty /\ (call[t].op = "Put" => call[t].val # Empty)
      BY <1>8 DEF ArgsInv
    <3>2. call[t].op \in {"Put", "Delete"}
      BY <1>8 DEF ArgsInv, IsWrite, UniquePCs
    <3> QED BY <2>2, <3>1, <3>2, KVNames DEF KV!Outcomes
  <2>4. KV!Respond(t)
    BY <1>8, <2>1, <2>2, <2>3, KVNames DEF KV!Respond
  <2> QED BY <2>4 DEF KV!Next
<1>9. ASSUME NEW t \in Threads, WriteCache(t)
      PROVE  KV!Next \/ UNCHANGED KV!vars
  <2>1. CASE MustFlush(t)
    <3>1. Phase' = Phase
      BY <1>9, <2>1, PhaseFrame DEF WriteCache, Applied, ClientsOK
    <3> QED BY <1>9, <2>1, <3>1 DEF WriteCache
  <2>2. CASE ~MustFlush(t)
    BY <1>8, <1>9, <2>2 DEF WriteCache
  <2> QED BY <2>1, <2>2
<1>10. ASSUME NEW t \in Threads, MemTableToSST(t)
       PROVE  UNCHANGED KV!vars
  <2>1. Phase' = Phase
    BY <1>10, PhaseFrame DEF MemTableToSST, Applied, ClientsOK
  <2> QED BY <1>10, <2>1 DEF MemTableToSST
<1>11. ASSUME NEW t \in Threads, NewMemTable(t)
       PROVE  KV!Next
  BY <1>8, <1>11 DEF NewMemTable
<1>12. ASSUME NEW t \in Threads, NEW v, v \in live[Name(t)], pc[t] \in {"hit", "memread"},
              pc' = [pc EXCEPT ![t] = "rret"],
              res' = [res EXCEPT ![t] = Success(v)], call' = call, live' = live
       PROVE  KV!Next
  <2>1. Phase' = Phase
    BY <1>12, PhaseFrame DEF Applied, ClientsOK
  <2>2. Phase[t] # "idle" /\ res[t] = Pending
    BY <1>12 DEF Phase, ArgsInv
  <2>3. /\ call[t].op = "Get"
        /\ call[t].key # Empty
        /\ call[t].val # NullPtr
    BY <1>12 DEF ArgsInv, SharedPCs
  <2>4. Success(v) \in KV!Outcomes(t)
    BY <1>12, <2>3, KVNames DEF KV!Outcomes, Name
  <2>5. KV!Respond(t)
    BY <1>12, <2>1, <2>2, <2>4, KVNames DEF KV!Respond
  <2> QED BY <2>5 DEF KV!Next
<1>13. ASSUME NEW t \in Threads, CacheContains(t)
       PROVE  UNCHANGED KV!vars
  <2>1. Phase' = Phase
    BY <1>13, PhaseFrame DEF CacheContains, Applied, ClientsOK
  <2> QED BY <1>13, <2>1 DEF CacheContains
<1>14. ASSUME NEW t \in Threads, CacheGet(t)
       PROVE  KV!Next
  <2>1. cached[Name(t)] # Absent
    BY <1>14 DEF CacheGet, NodeNeverNull
  <2>2. Name(t) \in KeyArgs /\ CStr[Name(t)] = Name(t)
    BY CallFields, StringsAssumption DEF ClientsOK, Name
  <2>3. ~Erasing(Name(t))
    BY <1>14, StringsAssumption DEF CacheGet, Erasing, LockInv, UniquePCs, SharedPCs
  <2>4. cached[Name(t)] \in live[Name(t)]
    BY <2>1, <2>2, <2>3 DEF LiveInv, CacheLive
  <2> QED BY <1>12, <1>14, <2>1, <2>4 DEF CacheGet
<1>15. ASSUME NEW t \in Threads, ReadMem(t)
       PROVE  KV!Next \/ UNCHANGED KV!vars
  <2>1. CASE mem_table[Name(t)] # Absent
    <3>1. Name(t) \in KeyArgs
      BY CallFields, StringsAssumption DEF ClientsOK, Name
    <3>2. mem_table[Name(t)] \in live[Name(t)]
      BY <2>1, <3>1 DEF LiveInv, MemLive
    <3> QED BY <1>12, <1>15, <2>1, <3>2 DEF ReadMem
  <2>2. CASE mem_table[Name(t)] = Absent
    <3>1. Phase' = Phase
      BY <1>15, <2>2, PhaseFrame DEF ReadMem, Applied, ClientsOK
    <3> QED BY <1>15, <2>2, <3>1 DEF ReadMem
  <2> QED BY <2>1, <2>2
<1>16. ASSUME NEW t \in Threads, ReadSST(t)
       PROVE  UNCHANGED KV!vars
  BY <1>16 DEF ReadSST, Phase, Applied
<1>17. ASSUME NEW t \in Threads, ReturnWrite(t) \/ ReturnRead(t)
       PROVE  KV!Next
  <2>1. Phase' = [Phase EXCEPT ![t] = "idle"]
    BY <1>17, PhaseMove DEF ReturnWrite, ReturnRead
  <2>2. Phase[t] # "idle" /\ res[t] # Pending
    BY <1>17 DEF ReturnWrite, ReturnRead, Phase, ArgsInv
  <2>3. KV!Return(t)
    BY <1>17, <2>1, <2>2, KVNames DEF ReturnWrite, ReturnRead, KV!Return
  <2> QED BY <2>3 DEF KV!Next
<1>18. CASE Crash
  BY <1>18 DEF Crash, Phase, Applied
<1>19. CASE Restart
  <2>1. Phase' = [t \in Threads |-> "idle"]
    BY <1>19 DEF Restart, Phase
  <2>2. KV!Lose
    BY <1>19, <2>1, KVNames DEF Restart, KV!Lose
  <2> QED BY <2>2 DEF KV!Next
<1> QED BY <1>0, <1>1, <1>2, <1>3, <1>4, <1>5, <1>6, <1>7, <1>9, <1>10, <1>11, <1>13, <1>14,
           <1>15, <1>16, <1>17, <1>18, <1>19
        DEF Next, Step, Ask

\* DBImpl implements KVStore, for every number of threads and calls, every
\* size of cache and memtable, and every string: a Get answers a value that
\* was put since the last Delete of the name, and a write that returns has
\* taken effect once.
THEOREM Implements == Spec => ImplementsKVStore
<1>1. Spec => []LiveInv
  BY LiveInit, LiveStep, TypeInvariant, PTL DEF Spec
<1> QED BY <1>1, TypeInvariant, NodeAlwaysThere, KVInit, KVStep, PTL
        DEF Spec, ImplementsKVStore, KV!Spec

(***************************************************************************)
(* No write is lost.  Between the end of the table and the new memtable    *)
(* the file has what the memtable has, but for the empty name; every file  *)
(* with a smaller number has a table; what the memtable has is the last    *)
(* value, also for the empty name.                                         *)
(***************************************************************************)
FilesThere == \A f \in 0 .. LISST_NUM - 1 : f \in DOMAIN sst /\ sst[f] # <<>>

TableWritten ==
    \A t \in Threads :
        pc[t] = "newmem" =>
            /\ LISST_NUM \in DOMAIN sst
            /\ sst[LISST_NUM] # <<>>
            /\ Last(sst[LISST_NUM]).tab = Tabled(mem_table)

MemLatest == \A n \in KeyArgs : mem_table[n] # Absent => mem_table[n] = Written(n)

FlushInv == FilesThere /\ TableWritten /\ MemLatest /\ NothingForgotten

\* Nothing has been written at the start.
LEMMA FlushInit == Init => FlushInv
<1> SUFFICES ASSUME Init PROVE FlushInv
  OBVIOUS
<1>1. FilesThere /\ TableWritten /\ MemLatest
  BY DEF Init, FilesThere, TableWritten, MemLatest, NoEntries
<1>2. NothingForgotten
  <2> SUFFICES ASSUME NEW n \in KeyArgs \ {Empty} PROVE Newest(n) = Written(n)
    BY DEF NothingForgotten
  <2>1. {f \in 0 .. LISST_NUM - 1 : Last(sst[f]).tab[n] # Absent} = {}
    BY DEF Init
  <2> QED BY <2>1 DEF Init, Newest, Flushed, Written, NoEntries
<1> QED BY <1>1, <1>2 DEF FlushInv

\* What the files of this process hold depends on those files only.
LEMMA FlushedSame ==
    ASSUME LISST_NUM \in Nat, LISST_NUM' = LISST_NUM,
           \A f \in 0 .. LISST_NUM - 1 : sst'[f] = sst[f],
           NEW n \in KeyArgs
    PROVE  Flushed(n)' = Flushed(n)
<1>1. {f \in 0 .. LISST_NUM - 1 : Last(sst[f]).tab[n] # Absent}'
        = {f \in 0 .. LISST_NUM - 1 : Last(sst[f]).tab[n] # Absent}
  OBVIOUS
<1> DEFINE files == {f \in 0 .. LISST_NUM - 1 : Last(sst[f]).tab[n] # Absent}
           top == CHOOSE f \in files : \A g \in files : g <= f
<1>2. CASE files = {}
  BY <1>1, <1>2 DEF Flushed
<1>3. CASE files # {}
  <2>1. Flushed(n) = Last(sst[top]).tab[n]
    BY <1>3 DEF Flushed
  <2>2. Flushed(n)' = Last(sst'[top]).tab[n]
    BY <1>1, <1>3 DEF Flushed
  <2>3. \E f \in files : \A g \in files : g <= f
    BY <1>3, LargestNatural, LISST_NUM \in Nat
  <2>4. top \in 0 .. LISST_NUM - 1
    BY <2>3
  <2> QED BY <2>1, <2>2, <2>4
<1> QED BY <1>2, <1>3

\* A step that leaves the names, the files below LISST_NUM and the history
\* alone forgets nothing.
LEMMA NamesSame ==
    ASSUME TypeInv, FlushInv, mem_table' = mem_table, latest' = latest, LISST_NUM' = LISST_NUM,
           \A f \in 0 .. LISST_NUM - 1 : f \in DOMAIN sst' /\ sst'[f] = sst[f]
    PROVE  FilesThere' /\ MemLatest' /\ NothingForgotten'
<1>1. FilesThere'
  BY DEF FlushInv, FilesThere
<1>2. \A n \in KeyArgs : Flushed(n)' = Flushed(n)
  BY FlushedSame DEF TypeInv, TypeOK, MemTableOK
<1>3. \A n \in KeyArgs : Newest(n)' = Newest(n) /\ Written(n)' = Written(n)
  BY <1>2 DEF Newest, Written
<1> QED BY <1>1, <1>3 DEF FlushInv, MemLatest, NothingForgotten

\* A step that leaves the memtable and the files alone.
LEMMA FlushFrame ==
    ASSUME TypeInv, FlushInv, mem_table' = mem_table, latest' = latest, LISST_NUM' = LISST_NUM,
           sst' = sst, \A t \in Threads : pc'[t] = "newmem" => pc[t] = "newmem"
    PROVE  FlushInv'
<1>1. FilesThere' /\ MemLatest' /\ NothingForgotten'
  BY NamesSame DEF FlushInv, FilesThere
<1>2. TableWritten'
  BY DEF FlushInv, TableWritten
<1> QED BY <1>1, <1>2 DEF FlushInv

\* Appending a table leaves the other files alone, and it is the last one
\* of its own.
LEMMA WithTableLast ==
    ASSUME TypeInv, NEW tab \in [KeyArgs -> ValArgs \cup {Absent}], NEW whole \in BOOLEAN,
           sst' = WithTable(tab, whole)
    PROVE  /\ \A f \in DOMAIN sst : f # LISST_NUM => f \in DOMAIN sst' /\ sst'[f] = sst[f]
           /\ LISST_NUM \in DOMAIN sst'
           /\ sst'[LISST_NUM] # <<>>
           /\ Last(sst'[LISST_NUM]) = [tab |-> tab, whole |-> whole]
<1> DEFINE row == [tab |-> tab, whole |-> whole]
           old == TablesIn(LISST_NUM)
<1>1. row \in Tables
  BY DEF Tables
<1>2. old \in Seq(Tables)
  BY DEF TablesIn, TypeInv, TypeOK, DiskOK
<1>3. /\ \A f \in DOMAIN sst : f # LISST_NUM => f \in DOMAIN sst' /\ sst'[f] = sst[f]
      /\ LISST_NUM \in DOMAIN sst'
      /\ sst'[LISST_NUM] = Append(old, row)
  BY DEF WithTable
<1> HIDE DEF row, old
<1>4. Append(old, row) # <<>> /\ Last(Append(old, row)) = row
  BY <1>1, <1>2 DEF Last
<1> QED BY <1>3, <1>4 DEF row

\* The memtable gets the name the history gets.
LEMMA FlushWriteMem ==
    ASSUME TypeInv, FlushInv, NEW t \in Threads, WriteMem(t)
    PROVE  FlushInv'
<1> DEFINE n == Name(t)
           v == call[t].val
<1>1. n \in KeyArgs /\ v \in ValArgs
  BY CallFields, StringsAssumption
  DEF TypeInv, TypeOK, ClientsOK, ArgsInv, IsWrite, UniquePCs, WriteMem, Name
<1>2. CStr[v] # Absent /\ v # Absent
  BY <1>1, StringsAssumption
<1>3. /\ mem_table' = [mem_table EXCEPT ![n] = CStr[v]]
      /\ latest' = [latest EXCEPT ![n] = v]
      /\ sst' = sst
      /\ LISST_NUM' = LISST_NUM
  BY DEF WriteMem, diskVars
<1>4. FilesThere'
  BY <1>3 DEF FlushInv, FilesThere
<1>5. TableWritten'
  BY StringsAssumption
  DEF WriteMem, TypeInv, TypeOK, ClientsOK, LockInv, UniquePCs, TableWritten
<1>6. ASSUME NEW m \in KeyArgs
      PROVE  /\ mem_table'[m] = IF m = n THEN CStr[v] ELSE mem_table[m]
             /\ latest'[m] = IF m = n THEN v ELSE latest[m]
  BY <1>1, <1>3 DEF TypeInv, TypeOK, MemTableOK, HistoryOK
<1>7. MemLatest'
  BY <1>2, <1>6 DEF FlushInv, MemLatest, Written
<1>8. NothingForgotten'
  <2> SUFFICES ASSUME NEW m \in KeyArgs \ {Empty} PROVE Newest(m)' = Written(m)'
    BY DEF NothingForgotten
  <2>1. Flushed(m)' = Flushed(m)
    BY <1>3, FlushedSame DEF TypeInv, TypeOK, MemTableOK
  <2>2. Newest(m) = Written(m)
    BY DEF FlushInv, NothingForgotten
  <2> QED BY <1>2, <1>6, <2>1, <2>2 DEF Newest, Written
<1> QED BY <1>4, <1>5, <1>7, <1>8 DEF FlushInv

\* The table written to the file is the memtable without the empty name; or
\* there is nothing to write and the file gets no whole table.
LEMMA FlushTable ==
    ASSUME TypeInv, FlushInv, NEW t \in Threads, MemTableToSST(t)
    PROVE  FlushInv'
<1> DEFINE tab == Tabled(mem_table)
<1>1. /\ mem_table' = mem_table
      /\ latest' = latest
      /\ LISST_NUM' = LISST_NUM
      /\ LISST_NUM \in Nat
      /\ pc[t] = "flush"
  BY DEF MemTableToSST, historyVars, TypeInv, TypeOK, MemTableOK
<1>2. NoEntries \in [KeyArgs -> ValArgs \cup {Absent}] /\ tab \in [KeyArgs -> ValArgs \cup {Absent}]
  BY DEF NoEntries, Tabled, TypeInv, TypeOK, MemTableOK
<1>3. \/ sst' = WithTable(NoEntries, FALSE) /\ pc' = pc
      \/ sst' = WithTable(tab, TRUE)
  BY DEF MemTableToSST
<1> HIDE DEF tab
<1>4. \A f \in DOMAIN sst : f # LISST_NUM => f \in DOMAIN sst' /\ sst'[f] = sst[f]
  BY <1>2, <1>3, WithTableLast
<1>5. \A f \in 0 .. LISST_NUM - 1 : f \in DOMAIN sst' /\ sst'[f] = sst[f]
  <2>1. LISST_NUM \in Nat
    BY <1>1
  <2> QED BY <1>4, <2>1 DEF FlushInv, FilesThere
<1>6. FilesThere' /\ MemLatest' /\ NothingForgotten'
  BY <1>1, <1>5, NamesSame
<1>7. CASE pc' = pc
  <2>1. TableWritten'
    BY <1>1, <1>7, StringsAssumption DEF TypeInv, LockInv, UniquePCs, TableWritten
  <2> QED BY <1>6, <2>1 DEF FlushInv
<1>8. CASE sst' = WithTable(tab, TRUE)
  <2>1. LISST_NUM \in DOMAIN sst' /\ sst'[LISST_NUM] # <<>>
    BY <1>2, <1>8, WithTableLast
  <2>2. Last(sst'[LISST_NUM]) = [tab |-> tab, whole |-> TRUE]
    BY <1>2, <1>8, WithTableLast
  <2>3. Last(sst'[LISST_NUM]).tab = Tabled(mem_table)
    BY <2>2 DEF tab
  <2>4. TableWritten'
    BY <1>1, <2>1, <2>3 DEF TableWritten, Tabled
  <2> QED BY <1>6, <2>4 DEF FlushInv
<1> QED BY <1>3, <1>7, <1>8

\* The file takes over what the memtable had.
LEMMA FlushNewMemTable ==
    ASSUME TypeInv, FlushInv, NEW t \in Threads, NewMemTable(t)
    PROVE  FlushInv'
<1> DEFINE L == LISST_NUM
<1>1. /\ L \in Nat
      /\ LISST_NUM' = L + 1
      /\ mem_table' = NoEntries
      /\ latest' = latest
      /\ sst' = sst
  BY DEF NewMemTable, diskVars, historyVars, TypeInv, TypeOK, MemTableOK
<1>2. L \in DOMAIN sst /\ sst[L] # <<>> /\ Last(sst[L]).tab = Tabled(mem_table)
  BY DEF NewMemTable, FlushInv, TableWritten
<1>3. FilesThere'
  BY <1>1, <1>2 DEF FlushInv, FilesThere
<1>4. TableWritten'
  BY StringsAssumption
  DEF NewMemTable, TypeInv, TypeOK, ClientsOK, LockInv, UniquePCs, TableWritten
<1>m. MemLatest'
  BY <1>1 DEF MemLatest, NoEntries
<1>5. NothingForgotten'
  <2> SUFFICES ASSUME NEW n \in KeyArgs \ {Empty} PROVE Newest(n)' = Written(n)'
    BY DEF NothingForgotten
  <2>0. Last(sst[L]).tab[n] = mem_table[n]
    BY <1>2 DEF Tabled, TypeInv, TypeOK, MemTableOK
  <2> DEFINE old == {f \in 0 .. L - 1 : Last(sst[f]).tab[n] # Absent}
             new == {f \in 0 .. L : Last(sst[f]).tab[n] # Absent}
             Top(S) == CHOOSE f \in S : \A g \in S : g <= f
  <2>1. Newest(n)' = Flushed(n)' /\ Written(n)' = Written(n)
    BY <1>1 DEF Newest, Written, NoEntries
  <2>2. Flushed(n) = IF old = {} THEN Absent ELSE Last(sst[Top(old)]).tab[n]
    BY DEF Flushed
  <2>3. Flushed(n)' = IF new = {} THEN Absent ELSE Last(sst[Top(new)]).tab[n]
    BY <1>1 DEF Flushed
  <2>4. Newest(n) = Written(n)
    BY DEF FlushInv, NothingForgotten
  <2>5. CASE mem_table[n] = Absent
    <3>1. new = old
      BY <1>1, <2>0, <2>5
    <3> QED BY <2>1, <2>2, <2>3, <2>4, <2>5, <3>1 DEF Newest
  <2>6. CASE mem_table[n] # Absent
    <3>1. L \in new /\ \A g \in new : g <= L
      BY <1>1, <2>0, <2>6
    <3>2. \A f \in new : L <= f => f = L
      BY <1>1, <3>1
    <3>3. Top(new) = L
      <4> HIDE DEF new
      <4> QED BY <3>1, <3>2
    <3> QED BY <2>0, <2>1, <2>3, <2>4, <2>6, <3>1, <3>3 DEF Newest
  <2> QED BY <2>5, <2>6
<1> QED BY <1>3, <1>4, <1>m, <1>5 DEF FlushInv

\* A crash leaves at most part of a table in the file nobody has taken over
\* yet.
LEMMA FlushCrash ==
    ASSUME TypeInv, FlushInv, Crash
    PROVE  FlushInv'
<1>1. /\ mem_table' = mem_table
      /\ latest' = latest
      /\ LISST_NUM' = LISST_NUM
      /\ LISST_NUM \in Nat
      /\ pc' = pc
  BY DEF Crash, historyVars, clientVars, TypeInv, TypeOK, MemTableOK
<1>2. CASE sst' = sst
  BY <1>1, <1>2, FlushFrame
<1>3. CASE (\E t \in Threads : pc[t] = "flush") /\ sst' = WithTable(NoEntries, FALSE)
  <2>1. NoEntries \in [KeyArgs -> ValArgs \cup {Absent}]
    BY DEF NoEntries
  <2>2. \A f \in DOMAIN sst : f # LISST_NUM => f \in DOMAIN sst' /\ sst'[f] = sst[f]
    BY <1>3, <2>1, WithTableLast
  <2>3. \A f \in 0 .. LISST_NUM - 1 : f \in DOMAIN sst' /\ sst'[f] = sst[f]
    BY <1>1, <2>2 DEF FlushInv, FilesThere
  <2>4. FilesThere' /\ MemLatest' /\ NothingForgotten'
    BY <1>1, <2>3, NamesSame
  <2>5. TableWritten'
    BY <1>1, <1>3, StringsAssumption DEF TypeInv, LockInv, UniquePCs, TableWritten
  <2> QED BY <2>4, <2>5 DEF FlushInv
<1> QED BY <1>2, <1>3 DEF Crash

\* Every step keeps the files and the memtable complete.
LEMMA FlushStep == TypeInv /\ FlushInv /\ [Next]_vars => FlushInv'
<1> SUFFICES ASSUME TypeInv, FlushInv, [Next]_vars PROVE FlushInv'
  OBVIOUS
<1> USE DEF lockVars, cacheVars, diskVars, procVars, historyVars, boundVars, clientVars
<1>t. pc \in [Threads -> {"idle", "lock"} \cup UniquePCs \cup SharedPCs]
  BY DEF TypeInv, TypeOK, ClientsOK
<1>0. CASE UNCHANGED vars
  BY <1>0, FlushFrame DEF vars
<1>1. ASSUME NEW t \in Threads,
             (\E c \in CallSet : Call(t, c)) \/ Close(t) \/ LockUnique(t) \/ LockShared(t)
      PROVE  FlushInv'
  BY <1>t, <1>1, FlushFrame DEF Call, Close, LockUnique, LockShared
<1>2. ASSUME NEW t \in Threads, AddLog(t) \/ CheckArgs(t) \/ WriteCache(t)
      PROVE  FlushInv'
  BY <1>t, <1>2, FlushFrame DEF AddLog, CheckArgs, WriteCache
<1>3. ASSUME NEW t \in Threads, CacheContains(t) \/ CacheGet(t) \/ ReadMem(t) \/ ReadSST(t)
      PROVE  FlushInv'
  BY <1>t, <1>3, FlushFrame DEF CacheContains, CacheGet, ReadMem, ReadSST
<1>4. ASSUME NEW t \in Threads, ReturnWrite(t) \/ ReturnRead(t)
      PROVE  FlushInv'
  BY <1>t, <1>4, FlushFrame DEF ReturnWrite, ReturnRead
<1>5. CASE Restart
  <2>1. FilesThere' /\ TableWritten' /\ MemLatest'
    BY <1>5 DEF Restart, FilesThere, TableWritten, MemLatest, NoEntries
  <2>2. NothingForgotten'
    <3> SUFFICES ASSUME NEW n \in KeyArgs \ {Empty} PROVE Newest(n)' = Written(n)'
      BY DEF NothingForgotten
    <3>1. {f \in 0 .. LISST_NUM - 1 : Last(sst[f]).tab[n] # Absent}' = {}
      BY <1>5 DEF Restart
    <3> QED BY <1>5, <3>1 DEF Restart, Newest, Flushed, Written, NoEntries
  <2> QED BY <2>1, <2>2 DEF FlushInv
<1> QED BY <1>0, <1>1, <1>2, <1>3, <1>4, <1>5, FlushWriteMem, FlushTable, FlushNewMemTable,
           FlushCrash
        DEF Next, Step, Ask

\* FlushInv is an invariant of DBImpl.
LEMMA FlushInvariant == Spec => []FlushInv
  BY FlushInit, FlushStep, TypeInvariant, PTL DEF Spec

\* No write is lost to a flush: the memtable and the files this process has
\* written hold the last value of every name but the empty one, which no
\* table takes, for every number of threads and flushes, whatever the size
\* at which the memtable is flushed, and also when a crash leaves part of a
\* table.
THEOREM NothingIsForgotten == Spec => []NothingForgotten
<1>1. FlushInv => NothingForgotten
  BY DEF FlushInv
<1> QED BY <1>1, FlushInvariant, PTL

(***************************************************************************)
(* Clients that never overwrite.  A Put that runs is the only one of its   *)
(* name; until it has written the memtable there is no value under the     *)
(* name, and until it has written the cache the cache has no entry for it. *)
(* What the cache has is then the last value, unless a Delete is about to  *)
(* erase it.                                                               *)
(***************************************************************************)
Running(t) == pc[t] # "idle" /\ call[t].op = "Put"

FreshPuts ==
    \A t \in Threads :
        Running(t) =>
            /\ CStr[call[t].key] = call[t].key
            /\ call[t].val # Empty
            /\ pc[t] \in {"lock", "wal", "mem"} => latest[call[t].key] \in {Absent, Empty}
            /\ pc[t] \in {"args", "cache"} =>
                  latest[call[t].key] = call[t].val /\ cached[call[t].key] = Absent
            /\ \A u \in Threads : Running(u) /\ u # t => Name(u) # call[t].key

CacheLatest ==
    \A k \in KeyArgs :
        cached[k] # Absent => Erasing(k) \/ (cached[k] = latest[k] /\ cached[k] # Empty)

FreshInv == FreshPuts /\ CacheLatest /\ ReadsLatest

\* No thread writes and no call is read yet.
LEMMA FreshInit == Init => FreshInv
  BY DEF Init, FreshInv, FreshPuts, Running, CacheLatest, ReadsLatest, NoEntries

\* A step that leaves the cache and the history alone, starts no Put, moves
\* none past the memtable or the cache, and fixes no answer.
LEMMA FreshFrame ==
    ASSUME FreshInv, cached' = cached, latest' = latest,
           \A t \in Threads : pc'[t] # "idle" => pc[t] # "idle" /\ call'[t] = call[t],
           \A t \in Threads : pc'[t] \in {"lock", "wal", "mem"} => pc[t] \in {"lock", "wal", "mem"},
           \A t \in Threads : pc'[t] \in {"args", "cache"} => pc[t] \in {"args", "cache"},
           \A t \in Threads : pc[t] = "cache" => pc'[t] = "cache"
    PROVE  FreshPuts' /\ CacheLatest'
<1>1. \A t \in Threads : Running(t)' => Running(t) /\ call'[t] = call[t] /\ Name(t)' = Name(t)
  BY DEF Running, Name
<1>2. FreshPuts'
  BY <1>1 DEF FreshInv, FreshPuts
<1>3. \A k \in KeyArgs : Erasing(k) => Erasing(k)'
  BY DEF Erasing, Name
<1>4. CacheLatest'
  BY <1>3 DEF FreshInv, CacheLatest
<1> QED BY <1>2, <1>4

\* A step that leaves the history alone and gives no Get a value.
LEMMA ReadsFrame ==
    ASSUME FreshInv, latest' = latest,
           \A t \in Threads : pc'[t] = "rret" =>
                \/ pc[t] = "rret" /\ call'[t] = call[t] /\ res'[t] = res[t]
                \/ res'[t].status # "Success"
    PROVE  ReadsLatest'
  BY DEF FreshInv, ReadsLatest, Name

\* A call that does not overwrite joins the ones that run.
LEMMA FreshCall ==
    ASSUME TypeInv, FreshInv, ~Overwrites, NEW t \in Threads, NEW c \in CallSet, Call(t, c)
    PROVE  FreshInv'
<1>1. /\ pc' = [pc EXCEPT ![t] = "lock"]
      /\ call' = [call EXCEPT ![t] = c]
      /\ latest' = latest
      /\ cached' = cached
      /\ pc[t] = "idle"
      /\ c.op = "Put" => Fresh(c)
  BY DEF Call, historyVars, cacheVars
<1>2. /\ pc'[t] = "lock" /\ call'[t] = c
      /\ \A u \in Threads : u # t => pc'[u] = pc[u] /\ call'[u] = call[u]
  BY <1>1 DEF TypeInv, TypeOK, ClientsOK
<1>3. \A u \in Threads : u # t => (Running(u)' <=> Running(u)) /\ Name(u)' = Name(u)
  BY <1>2 DEF Running, Name
<1>4. Name(t)' = CStr[c.key]
  BY <1>2 DEF Name
<1>5. FreshPuts'
  <2> SUFFICES ASSUME NEW u \in Threads, Running(u)'
               PROVE  /\ CStr[call'[u].key] = call'[u].key
                      /\ call'[u].val # Empty
                      /\ pc'[u] \in {"lock", "wal", "mem"} => latest[call'[u].key] \in {Absent, Empty}
                      /\ pc'[u] \in {"args", "cache"} =>
                            latest[call'[u].key] = call'[u].val /\ cached[call'[u].key] = Absent
                      /\ \A w \in Threads : Running(w)' /\ w # u => Name(w)' # call'[u].key
    BY <1>1 DEF FreshPuts
  <2>1. CASE u = t
    <3>1. Fresh(c)
      BY <1>1, <1>2, <2>1 DEF Running
    <3> QED BY <1>2, <1>3, <2>1, <3>1 DEF Fresh, Running
  <2>2. CASE u # t
    <3>1. Running(u) /\ call'[u] = call[u] /\ pc'[u] = pc[u]
      BY <1>2, <1>3, <2>2
    <3>2. Running(t)' => Name(t)' # call[u].key
      <4> SUFFICES ASSUME Running(t)' PROVE c.key # Name(u) /\ CStr[c.key] = c.key
        BY <1>4, <3>1 DEF FreshInv, FreshPuts, Name
      <4> QED BY <1>1, <1>2, <3>1 DEF Running, Fresh
    <3> QED BY <1>3, <3>1, <3>2 DEF FreshInv, FreshPuts
  <2> QED BY <2>1, <2>2
<1>6. CacheLatest'
  <2>1. \A k \in KeyArgs : Erasing(k) => Erasing(k)'
    BY <1>1, <1>2 DEF Erasing, Name
  <2> QED BY <1>1, <2>1 DEF FreshInv, CacheLatest
<1>7. ReadsLatest'
  BY <1>1, <1>2, ReadsFrame DEF Call
<1> QED BY <1>5, <1>6, <1>7 DEF FreshInv

\* Put writes the memtable while the cache has nothing for its name; Delete
\* comes to erase what the cache has.
LEMMA FreshWriteMem ==
    ASSUME TypeInv, FreshInv, NEW t \in Threads, WriteMem(t)
    PROVE  FreshInv'
<1> DEFINE n == Name(t)
           v == call[t].val
<1>1. /\ n \in KeyArgs
      /\ v \in ValArgs
      /\ call[t].op \in {"Put", "Delete"}
      /\ call[t].op = "Delete" => v = Empty
  BY CallFields, StringsAssumption
  DEF TypeInv, TypeOK, ClientsOK, ArgsInv, IsWrite, UniquePCs, WriteMem, Name
<1>2. /\ latest' = [latest EXCEPT ![n] = v]
      /\ cached' = cached
      /\ call' = call
      /\ pc' = [pc EXCEPT ![t] = IF call[t].op = "Put" THEN "args" ELSE "cache"]
      /\ pc[t] = "mem"
  BY DEF WriteMem, cacheVars
<1>3. \A u \in Threads : u # t => pc[u] \notin UniquePCs \cup SharedPCs
  BY <1>2, StringsAssumption DEF TypeInv, LockInv, UniquePCs
<1>4. \A u \in Threads : u # t => pc'[u] = pc[u]
  BY <1>2 DEF TypeInv, TypeOK, ClientsOK
<1>5. pc'[t] = IF call[t].op = "Put" THEN "args" ELSE "cache"
  BY <1>2 DEF TypeInv, TypeOK, ClientsOK
<1>6. \A k \in KeyArgs : latest'[k] = IF k = n THEN v ELSE latest[k]
  BY <1>1, <1>2 DEF TypeInv, TypeOK, HistoryOK
<1>7. \A k \in KeyArgs : ~Erasing(k)
  BY <1>2, <1>3 DEF Erasing, UniquePCs
<1>8. call[t].op = "Put" => n = call[t].key /\ v # Empty /\ cached[n] = Absent
  <2> SUFFICES ASSUME call[t].op = "Put"
               PROVE  n = call[t].key /\ v # Empty /\ cached[n] = Absent
    OBVIOUS
  <2>1. Running(t)
    BY <1>2 DEF Running
  <2>2. n = call[t].key /\ v # Empty /\ latest[n] \in {Absent, Empty}
    BY <1>2, <2>1 DEF FreshInv, FreshPuts, Name
  <2> QED BY <1>1, <1>7, <2>2 DEF FreshInv, CacheLatest
<1>9. FreshPuts'
  <2> SUFFICES ASSUME NEW u \in Threads, Running(u)'
               PROVE  /\ CStr[call[u].key] = call[u].key
                      /\ call[u].val # Empty
                      /\ pc'[u] \in {"lock", "wal", "mem"} => latest'[call[u].key] \in {Absent, Empty}
                      /\ pc'[u] \in {"args", "cache"} =>
                            latest'[call[u].key] = call[u].val /\ cached[call[u].key] = Absent
                      /\ \A w \in Threads : Running(w)' /\ w # u => Name(w) # call[u].key
    BY <1>2 DEF FreshPuts, Name
  <2>1. \A w \in Threads : Running(w)' => Running(w)
    BY <1>2, <1>4 DEF Running
  <2>2. /\ CStr[call[u].key] = call[u].key
        /\ call[u].val # Empty
        /\ \A w \in Threads : Running(w)' /\ w # u => Name(w) # call[u].key
    BY <2>1 DEF FreshInv, FreshPuts
  <2>3. call[u].key \in KeyArgs
    BY CallFields DEF TypeInv, TypeOK, ClientsOK
  <2>4. CASE u = t
    <3>1. call[t].op = "Put"
      BY <1>2, <2>4 DEF Running
    <3> QED BY <1>1, <1>5, <1>6, <1>8, <2>2, <2>4, <3>1
  <2>5. CASE u # t
    <3>1. pc'[u] \notin {"args", "cache"}
      BY <1>3, <1>4, <2>5 DEF UniquePCs
    <3>2. pc'[u] \in {"lock", "wal", "mem"} => latest[call[u].key] \in {Absent, Empty}
      BY <1>4, <2>1, <2>5 DEF FreshInv, FreshPuts
    <3>3. call[t].op = "Put" => n # call[u].key
      <4> SUFFICES ASSUME call[t].op = "Put" PROVE n # call[u].key
        OBVIOUS
      <4>1. Running(t)
        BY <1>2 DEF Running
      <4> QED BY <2>1, <2>5, <4>1 DEF FreshInv, FreshPuts
    <3> QED BY <1>1, <1>6, <2>2, <2>3, <3>1, <3>2, <3>3
  <2> QED BY <2>4, <2>5
<1>10. CacheLatest'
  <2> SUFFICES ASSUME NEW k \in KeyArgs, cached[k] # Absent
               PROVE  Erasing(k)' \/ (cached[k] = latest'[k] /\ cached[k] # Empty)
    BY <1>2 DEF CacheLatest
  <2>1. cached[k] = latest[k] /\ cached[k] # Empty
    BY <1>7 DEF FreshInv, CacheLatest
  <2>2. CASE k # n
    BY <1>6, <2>1, <2>2
  <2>3. CASE k = n
    <3>1. call[t].op = "Delete"
      BY <1>1, <1>8, <2>3
    <3>2. pc'[t] = "cache" /\ call'[t].op = "Delete" /\ Name(t)' = k
      BY <1>2, <1>5, <2>3, <3>1 DEF Name
    <3> QED BY <3>2 DEF Erasing
  <2> QED BY <2>2, <2>3
<1>11. ReadsLatest'
  BY <1>3, <1>4, <1>5 DEF ReadsLatest, SharedPCs
<1> QED BY <1>9, <1>10, <1>11 DEF FreshInv

\* Put caches the last value; Delete erases the value before it.
LEMMA FreshWriteCache ==
    ASSUME TypeInv, FreshInv, NEW t \in Threads, WriteCache(t)
    PROVE  FreshInv'
<1>1. /\ call[t].key \in KeyArgs
      /\ Name(t) \in KeyArgs
      /\ call[t].op \in {"Put", "Delete"}
  BY CallFields, StringsAssumption
  DEF TypeInv, TypeOK, ClientsOK, ArgsInv, IsWrite, UniquePCs, WriteCache, Name
<1>2. latest' = latest /\ call' = call /\ pc[t] = "cache"
  BY DEF WriteCache, historyVars
<1>3. \A u \in Threads : u # t => pc[u] \notin UniquePCs \cup SharedPCs /\ pc'[u] = pc[u]
  BY StringsAssumption
  DEF WriteCache, TypeInv, TypeOK, ClientsOK, LockInv, UniquePCs
<1>4. pc'[t] \in {"flush", "wret"}
  BY DEF WriteCache, TypeInv, TypeOK, ClientsOK
<1>5. \A k \in KeyArgs : Erasing(k) => call[t].op = "Delete" /\ Name(t) = k
  BY <1>3 DEF Erasing, UniquePCs
<1>6. FreshPuts'
  <2>1. \A u \in Threads : Running(u)' => Running(u)
    BY <1>2, <1>3 DEF Running
  <2>2. \A u \in Threads : pc'[u] \notin {"args", "cache"}
    BY <1>3, <1>4 DEF UniquePCs
  <2>3. \A u \in Threads : pc'[u] \in {"lock", "wal", "mem"} => pc'[u] = pc[u]
    BY <1>3, <1>4
  <2> QED BY <1>2, <2>1, <2>2, <2>3 DEF FreshInv, FreshPuts, Name
<1>7. CacheLatest'
  <2> SUFFICES ASSUME NEW k \in KeyArgs, cached'[k] # Absent
               PROVE  cached'[k] = latest[k] /\ cached'[k] # Empty
    BY <1>2 DEF CacheLatest
  <2>1. CASE call[t].op = "Delete"
    <3>1. CacheErase(Name(t))
      BY <2>1 DEF WriteCache
    <3>2. k # Name(t) /\ cached'[k] = cached[k]
      BY <1>1, <3>1 DEF CacheErase, cacheVars, TypeInv, TypeOK, CacheTypeOK
    <3> QED BY <1>5, <3>2 DEF FreshInv, CacheLatest
  <2>2. CASE call[t].op = "Put"
    <3>1. CacheInsert(call[t].key, call[t].val)
      BY <2>2 DEF WriteCache
    <3>2. cached'[k] = cached[k] \/ (k = call[t].key /\ cached'[k] = call[t].val)
      BY <1>1, <3>1 DEF CacheInsert, TypeInv, TypeOK, CacheTypeOK
    <3>3. CASE cached'[k] = cached[k]
      BY <1>5, <2>2, <3>3 DEF FreshInv, CacheLatest
    <3>4. CASE k = call[t].key /\ cached'[k] = call[t].val
      <4>1. Running(t)
        BY <1>2, <2>2 DEF Running
      <4> QED BY <1>2, <3>4, <4>1 DEF FreshInv, FreshPuts
    <3> QED BY <3>2, <3>3, <3>4
  <2> QED BY <1>1, <2>1, <2>2
<1>8. ReadsLatest'
  BY <1>3, <1>4 DEF ReadsLatest, SharedPCs
<1> QED BY <1>6, <1>7, <1>8 DEF FreshInv

\* A Get answers from the cache or from the memtable, which both have the
\* last value.
LEMMA FreshRead ==
    ASSUME TypeInv, NodeNeverNull, FlushInv, FreshInv, NEW t \in Threads,
           CacheGet(t) \/ ReadMem(t)
    PROVE  FreshInv'
<1> DEFINE n == Name(t)
<1>1. n \in KeyArgs
  BY CallFields, StringsAssumption DEF TypeInv, TypeOK, ClientsOK, Name
<1>2. /\ pc[t] \in {"hit", "memread"}
      /\ cached' = cached
      /\ latest' = latest
      /\ call' = call
  BY DEF CacheGet, ReadMem, historyVars, cacheVars
<1>3. \A u \in Threads : u # t => pc'[u] = pc[u] /\ res'[u] = res[u]
  BY DEF CacheGet, ReadMem, TypeInv, TypeOK, ClientsOK
<1>4. pc'[t] \in {"hit", "rret", "sst"}
  BY DEF CacheGet, ReadMem, TypeInv, TypeOK, ClientsOK
<1>5. FreshPuts' /\ CacheLatest'
  BY <1>2, <1>3, <1>4, FreshFrame
<1>6. pc'[t] = "rret" => res'[t].val \in {latest[n], CStr[latest[n]]}
  <2>1. CASE CacheGet(t)
    <3>1. cached[n] # Absent
      BY <2>1 DEF CacheGet, NodeNeverNull
    <3>2. ~Erasing(n)
      BY <2>1, StringsAssumption DEF CacheGet, Erasing, TypeInv, LockInv, UniquePCs, SharedPCs
    <3>3. cached[n] = latest[n]
      BY <1>1, <3>1, <3>2 DEF FreshInv, CacheLatest
    <3>4. res'[t] = Success(cached[n])
      BY <2>1, <3>1 DEF CacheGet, TypeInv, TypeOK, ClientsOK
    <3> QED BY <3>3, <3>4 DEF Success
  <2>2. CASE ReadMem(t)
    <3> SUFFICES ASSUME pc'[t] = "rret" PROVE res'[t].val = CStr[latest[n]]
      OBVIOUS
    <3>1. mem_table[n] # Absent
      BY <2>2 DEF ReadMem, TypeInv, TypeOK, ClientsOK
    <3>2. mem_table[n] = CStr[latest[n]]
      BY <1>1, <3>1 DEF FlushInv, MemLatest, Written
    <3>3. res'[t] = Success(mem_table[n])
      BY <2>2, <3>1 DEF ReadMem, TypeInv, TypeOK, ClientsOK
    <3> QED BY <3>2, <3>3 DEF Success
  <2> QED BY <2>1, <2>2
<1>7. ReadsLatest'
  BY <1>2, <1>3, <1>6 DEF FreshInv, ReadsLatest, Name
<1> QED BY <1>5, <1>7 DEF FreshInv

\* Every step of clients that never overwrite keeps FreshInv.
LEMMA FreshStep ==
    ASSUME ~Overwrites
    PROVE  TypeInv /\ NodeNeverNull /\ FlushInv /\ FreshInv /\ [Next]_vars => FreshInv'
<1> SUFFICES ASSUME TypeInv, NodeNeverNull, FlushInv, FreshInv, [Next]_vars PROVE FreshInv'
  OBVIOUS
<1> USE DEF lockVars, cacheVars, diskVars, procVars, historyVars, boundVars, clientVars
<1>t. /\ pc \in [Threads -> {"idle", "lock"} \cup UniquePCs \cup SharedPCs]
      /\ res \in [Threads -> Outcomes]
  BY DEF TypeInv, TypeOK, ClientsOK
<1>0. CASE UNCHANGED vars
  BY <1>0, FreshFrame, ReadsFrame DEF vars, FreshInv
<1>1. ASSUME NEW t \in Threads, Close(t) \/ ReadSST(t)
      PROVE  FreshInv'
  BY <1>1, FreshFrame, ReadsFrame DEF Close, ReadSST, FreshInv
<1>2. ASSUME NEW t \in Threads, LockUnique(t) \/ LockShared(t)
      PROVE  FreshInv'
  <2>1. FreshPuts' /\ CacheLatest'
    BY <1>t, <1>2, FreshFrame DEF LockUnique, LockShared
  <2>2. ReadsLatest'
    BY <1>t, <1>2, ReadsFrame DEF LockUnique, LockShared, InvalidArgs
  <2> QED BY <2>1, <2>2 DEF FreshInv
<1>3. ASSUME NEW t \in Threads, AddLog(t)
      PROVE  FreshInv'
  BY <1>t, <1>3, FreshFrame, ReadsFrame DEF AddLog, FreshInv
<1>4. ASSUME NEW t \in Threads, CheckArgs(t)
      PROVE  FreshInv'
  <2>1. FreshPuts' /\ CacheLatest'
    BY <1>t, <1>4, FreshFrame DEF CheckArgs
  <2>2. ReadsLatest'
    BY <1>t, <1>4, ReadsFrame DEF CheckArgs
  <2> QED BY <2>1, <2>2 DEF FreshInv
<1>5. ASSUME NEW t \in Threads, MemTableToSST(t) \/ NewMemTable(t)
      PROVE  FreshInv'
  <2>1. FreshPuts' /\ CacheLatest'
    BY <1>t, <1>5, FreshFrame DEF MemTableToSST, NewMemTable
  <2>2. ReadsLatest'
    BY <1>t, <1>5, ReadsFrame DEF MemTableToSST, NewMemTable
  <2> QED BY <2>1, <2>2 DEF FreshInv
<1>6. ASSUME NEW t \in Threads, CacheContains(t)
      PROVE  FreshInv'
  BY <1>t, <1>6, FreshFrame, ReadsFrame DEF CacheContains, FreshInv
<1>7. ASSUME NEW t \in Threads, ReturnWrite(t) \/ ReturnRead(t)
      PROVE  FreshInv'
  <2>1. FreshPuts' /\ CacheLatest'
    BY <1>t, <1>7, FreshFrame DEF ReturnWrite, ReturnRead
  <2>2. ReadsLatest'
    BY <1>t, <1>7, ReadsFrame DEF ReturnWrite, ReturnRead
  <2> QED BY <2>1, <2>2 DEF FreshInv
<1>8. CASE Crash
  BY <1>8, FreshFrame, ReadsFrame DEF Crash, FreshInv
<1>9. CASE Restart
  BY <1>9 DEF Restart, FreshInv, FreshPuts, Running, CacheLatest, ReadsLatest, NoEntries
<1> QED BY <1>0, <1>1, <1>2, <1>3, <1>4, <1>5, <1>6, <1>7, <1>8, <1>9, FreshCall,
           FreshWriteMem, FreshWriteCache, FreshRead
        DEF Next, Step, Ask

\* A client that never puts a name again before deleting it reads its own
\* last write: with ~Overwrites every Get that succeeds answers the last
\* value of its name, as a string or cut at its first NUL byte, whether it
\* comes from the cache or from the memtable and whatever else runs.
THEOREM FreshReadsLatest ==
    ASSUME ~Overwrites
    PROVE  Spec => []ReadsLatest
<1>1. FreshInv => ReadsLatest
  BY DEF FreshInv
<1>2. TypeInv /\ NodeNeverNull /\ FlushInv /\ FreshInv /\ [Next]_vars => FreshInv'
  BY FreshStep
<1> QED BY <1>1, <1>2, FreshInit, FlushInvariant, TypeInvariant, NodeAlwaysThere, PTL DEF Spec
=============================================================================
