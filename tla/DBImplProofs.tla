---------------------------- MODULE DBImplProofs ----------------------------
(***************************************************************************)
(* What holds of DBImpl for every set of threads, keys, values and shards  *)
(* and every bound: its types, the agreement of the cache's lists with its *)
(* index, and that Get never dereferences a null node.                     *)
(*                                                                         *)
(* The first part lifts the lemmas about lists to a shard of the cache.    *)
(* The second proves the inductive invariant TypeInv: the types, the       *)
(* coherence of the cache (without it Position chooses nothing in          *)
(* particular), who holds the lock at which statement, and which arguments *)
(* have passed their check.                                                *)
(***************************************************************************)
EXTENDS DBImpl, ListLemmas

\* Erasing the one occurrence of k.
LEMMA UnlinkProperties ==
    ASSUME NEW S, NEW s \in Seq(S), NEW k \in ToSet(s), IsInjective(s)
    PROVE  /\ Unlink(s, k) \in Seq(S)
           /\ Len(Unlink(s, k)) = Len(s) - 1
           /\ ToSet(Unlink(s, k)) = ToSet(s) \ {k}
           /\ IsInjective(Unlink(s, k))
<1>1. Position(s, k) \in 1 .. Len(s) /\ s[Position(s, k)] = k
  BY DEF Position, ToSet
<1> QED BY <1>1, RemoveAtInjective DEF Unlink

\* Moving k to the front.
LEMMA ToFrontProperties ==
    ASSUME NEW S, NEW s \in Seq(S), NEW k \in S, k \in ToSet(s), IsInjective(s)
    PROVE  /\ ToFront(s, k) \in Seq(S)
           /\ Len(ToFront(s, k)) = Len(s)
           /\ ToSet(ToFront(s, k)) = ToSet(s)
           /\ IsInjective(ToFront(s, k))
<1>1. /\ Unlink(s, k) \in Seq(S)
      /\ Len(Unlink(s, k)) = Len(s) - 1
      /\ ToSet(Unlink(s, k)) = ToSet(s) \ {k}
      /\ IsInjective(Unlink(s, k))
  BY UnlinkProperties
<1>2. /\ <<k>> \o Unlink(s, k) \in Seq(S)
      /\ Len(<<k>> \o Unlink(s, k)) = Len(Unlink(s, k)) + 1
      /\ ToSet(<<k>> \o Unlink(s, k)) = ToSet(Unlink(s, k)) \cup {k}
      /\ IsInjective(<<k>> \o Unlink(s, k))
  BY <1>1, PushProperties
<1>3. Len(s) \in Nat
  OBVIOUS
<1> QED BY <1>1, <1>2, <1>3 DEF ToFront

(***************************************************************************)
(* The three operations keep the cache typed and coherent.                 *)
(***************************************************************************)
CacheOK == CacheTypeOK /\ CacheCoherent

\* LRU::get: moving a cached key to the front keeps the cache coherent.
LEMMA ToFrontKeepsCache ==
    ASSUME CacheOK, NEW k \in KeyArgs, cached[k] # Absent,
           nodes' = [nodes EXCEPT ![ShardOf[k]] = ToFront(nodes[ShardOf[k]], k)],
           cached' = cached
    PROVE  CacheOK'
<1> DEFINE sh == ShardOf[k]
<1>1. /\ sh \in Shards
      /\ nodes[sh] \in Seq(KeyArgs)
      /\ k \in ToSet(nodes[sh])
      /\ IsInjective(nodes[sh])
  BY SizesAssumption DEF CacheOK, CacheTypeOK, CacheCoherent
<1>2. /\ ToFront(nodes[sh], k) \in Seq(KeyArgs)
      /\ Len(ToFront(nodes[sh], k)) = Len(nodes[sh])
      /\ ToSet(ToFront(nodes[sh], k)) = ToSet(nodes[sh])
      /\ IsInjective(ToFront(nodes[sh], k))
  BY <1>1, ToFrontProperties
<1> QED BY <1>1, <1>2 DEF CacheOK, CacheTypeOK, CacheCoherent

\* LRU::erase keeps the cache coherent, whether or not the key is cached.
LEMMA EraseKeepsCache ==
    ASSUME CacheOK, NEW k \in KeyArgs, CacheErase(k)
    PROVE  CacheOK'
<1>1. CASE cached[k] = Absent
  BY <1>1 DEF CacheErase, cacheVars, CacheOK, CacheTypeOK, CacheCoherent
<1>2. CASE cached[k] # Absent
  <2> DEFINE sh == ShardOf[k]
  <2>1. /\ sh \in Shards
        /\ nodes[sh] \in Seq(KeyArgs)
        /\ k \in ToSet(nodes[sh])
        /\ IsInjective(nodes[sh])
        /\ Len(nodes[sh]) \in Nat
    BY <1>2, SizesAssumption DEF CacheOK, CacheTypeOK, CacheCoherent
  <2>2. /\ Unlink(nodes[sh], k) \in Seq(KeyArgs)
        /\ Len(Unlink(nodes[sh], k)) = Len(nodes[sh]) - 1
        /\ ToSet(Unlink(nodes[sh], k)) = ToSet(nodes[sh]) \ {k}
        /\ IsInjective(Unlink(nodes[sh], k))
    BY <2>1, UnlinkProperties
  <2>3. /\ nodes' = [nodes EXCEPT ![sh] = Unlink(nodes[sh], k)]
        /\ cached' = [cached EXCEPT ![k] = Absent]
    BY <1>2 DEF CacheErase
  <2>4. cached' \in [KeyArgs -> ValArgs \cup {Absent}] /\ nodes' \in [Shards -> Seq(KeyArgs)]
    BY <2>1, <2>2, <2>3 DEF CacheOK, CacheTypeOK
  <2>5. ASSUME NEW s \in Shards
        PROVE  /\ Len(nodes'[s]) <= CACHE_SIZE
               /\ IsInjective(nodes'[s])
               /\ ToSet(nodes'[s]) = {x \in KeyArgs : ShardOf[x] = s /\ cached'[x] # Absent}
    <3>1. CASE s = sh
      BY <3>1, <2>1, <2>2, <2>3, SizesAssumption DEF CacheOK, CacheTypeOK, CacheCoherent
    <3>2. CASE s # sh
      BY <3>2, <2>3 DEF CacheOK, CacheTypeOK, CacheCoherent
    <3> QED BY <3>1, <3>2
  <2> QED BY <2>4, <2>5 DEF CacheOK, CacheTypeOK, CacheCoherent
<1> QED BY <1>1, <1>2

\* LRU::insert keeps the cache coherent: a known key moves, a new one is
\* pushed and may evict the last one, which is itself when the capacity is 0.
LEMMA InsertKeepsCache ==
    ASSUME CacheOK, NEW k \in KeyArgs, NEW v \in ValArgs, CacheInsert(k, v)
    PROVE  CacheOK'
<1>1. CASE cached[k] # Absent
  BY <1>1, ToFrontKeepsCache DEF CacheInsert
<1>2. CASE cached[k] = Absent
  <2> DEFINE sh == ShardOf[k]
             s == nodes[sh]
             full == Len(s) >= CACHE_SIZE
             pushed == <<k>> \o s
  <2>1. /\ sh \in Shards
        /\ s \in Seq(KeyArgs)
        /\ k \notin ToSet(s)
        /\ IsInjective(s)
        /\ Len(s) \in Nat
        /\ Len(s) <= CACHE_SIZE
    BY <1>2, SizesAssumption DEF CacheOK, CacheTypeOK, CacheCoherent
  <2>2. /\ pushed \in Seq(KeyArgs)
        /\ Len(pushed) = Len(s) + 1
        /\ ToSet(pushed) = ToSet(s) \cup {k}
        /\ IsInjective(pushed)
    BY <2>1, PushProperties
  <2>3. /\ nodes' = [nodes EXCEPT ![sh] = IF full THEN Front(pushed) ELSE pushed]
        /\ cached' = [x \in KeyArgs |-> IF full /\ x = Last(pushed) THEN Absent
                                        ELSE IF x = k THEN v ELSE cached[x]]
    BY <1>2 DEF CacheInsert
  <2> HIDE DEF pushed
  <2>4. pushed # <<>>
    BY <2>1, <2>2
  <2>5. /\ Front(pushed) \in Seq(KeyArgs)
        /\ Len(Front(pushed)) = Len(s)
        /\ ToSet(Front(pushed)) = ToSet(pushed) \ {Last(pushed)}
        /\ Last(pushed) \in ToSet(pushed)
        /\ IsInjective(Front(pushed))
    BY <2>1, <2>2, <2>4, DropLastProperties
  <2>6. cached' \in [KeyArgs -> ValArgs \cup {Absent}] /\ nodes' \in [Shards -> Seq(KeyArgs)]
    BY <2>1, <2>2, <2>3, <2>5 DEF CacheOK, CacheTypeOK
  <2>7. ToSet(s) = {x \in KeyArgs : ShardOf[x] = sh /\ cached[x] # Absent}
    BY <2>1 DEF CacheOK, CacheTypeOK, CacheCoherent
  <2>8. v # Absent
    BY StringsAssumption
  <2>9. ASSUME NEW x \in Shards
        PROVE  /\ Len(nodes'[x]) <= CACHE_SIZE
               /\ IsInjective(nodes'[x])
               /\ ToSet(nodes'[x]) = {y \in KeyArgs : ShardOf[y] = x /\ cached'[y] # Absent}
    <3>1. CASE x = sh /\ full
      <4>1. nodes'[x] = Front(pushed)
        BY <2>1, <2>3, <3>1 DEF CacheOK, CacheTypeOK
      <4>2. ToSet(nodes'[x]) = (ToSet(s) \cup {k}) \ {Last(pushed)}
        BY <2>2, <2>5, <4>1
      <4>3. \A y \in KeyArgs : cached'[y] = IF y = Last(pushed) THEN Absent
                                            ELSE IF y = k THEN v ELSE cached[y]
        BY <2>3, <3>1
      <4>4. ToSet(nodes'[x]) = {y \in KeyArgs : ShardOf[y] = x /\ cached'[y] # Absent}
        BY <2>7, <2>8, <3>1, <4>2, <4>3
      <4> QED BY <2>1, <2>5, <4>1, <4>4
    <3>2. CASE x = sh /\ ~full
      <4>1. nodes'[x] = pushed
        BY <2>1, <2>3, <3>2 DEF CacheOK, CacheTypeOK
      <4>2. \A y \in KeyArgs : cached'[y] = IF y = k THEN v ELSE cached[y]
        BY <2>3, <3>2
      <4>3. ToSet(nodes'[x]) = {y \in KeyArgs : ShardOf[y] = x /\ cached'[y] # Absent}
        BY <2>2, <2>7, <2>8, <3>2, <4>1, <4>2
      <4> QED BY <2>1, <2>2, <3>2, <4>1, <4>3, SizesAssumption
    <3>3. CASE x # sh
      <4>1. nodes'[x] = nodes[x]
        BY <2>3, <3>3 DEF CacheOK, CacheTypeOK
      <4>2. ShardOf[k] # x /\ (full => ShardOf[Last(pushed)] # x)
        BY <2>2, <2>5, <2>7, <3>3
      <4>3. \A y \in KeyArgs : ShardOf[y] = x => cached'[y] = cached[y]
        BY <2>3, <4>2
      <4> QED BY <4>1, <4>3 DEF CacheOK, CacheTypeOK, CacheCoherent
    <3> QED BY <3>1, <3>2, <3>3
  <2> QED BY <2>6, <2>9 DEF CacheOK, CacheTypeOK, CacheCoherent
<1> QED BY <1>1, <1>2

(***************************************************************************)
(* Types.                                                                  *)
(***************************************************************************)

\* The payload AddLog stores is a sequence of bytes.
LEMMA LogPayloadType ==
    ASSUME NEW k \in KeyArgs
    PROVE  LogPayload(k) \in Seq(0 .. 255)
<1> DEFINE n == SizeOf[k]
           buf == EncodeFixed32(n)
           zero == CHOOSE i \in 1 .. 4 : buf[i] = 0 /\ \A j \in 1 .. i - 1 : buf[j] # 0
<1>1. n \in Nat /\ n < 16777216
  BY SizesAssumption DEF KeyArgs
<1> HIDE DEF n
<1>2. buf \in Seq(0 .. 255) /\ Len(buf) = 4 /\ buf[4] = 0
  BY <1>1 DEF EncodeFixed32
<1>3. \E i \in 1 .. 4 : buf[i] = 0 /\ \A j \in 1 .. i - 1 : buf[j] # 0
  <2>1. CASE buf[1] = 0
    BY <2>1
  <2>2. CASE buf[1] # 0 /\ buf[2] = 0
    BY <2>2
  <2>3. CASE buf[1] # 0 /\ buf[2] # 0 /\ buf[3] = 0
    BY <2>3
  <2>4. CASE buf[1] # 0 /\ buf[2] # 0 /\ buf[3] # 0
    BY <1>2, <2>4
  <2> QED BY <2>1, <2>2, <2>3, <2>4
<1>4. zero \in 1 .. 4
  BY <1>3
<1> HIDE DEF buf, zero
<1>5. SubSeq(buf, 1, zero - 1) \in Seq(0 .. 255)
  BY <1>2, <1>4, PrefixType
<1> QED BY <1>5 DEF LogPayload, n, buf, zero

\* The fields of a call have the types the operations expect.
LEMMA CallFields ==
    ASSUME NEW c \in CallSet
    PROVE  /\ c.op \in {"Put", "Delete", "Get"}
           /\ c.key \in KeyArgs
           /\ c.op \in {"Put", "Delete"} => c.val \in ValArgs
           /\ c.op = "Delete" => c.val = Empty
           /\ c.val \in ValArgs \cup {NullPtr}
  BY DEF CallSet, ValArgs

\* Every result the operations store is an outcome.
LEMMA OutcomeTypes ==
    /\ Pending \in Outcomes
    /\ InvalidArgs \in Outcomes
    /\ \A v \in ValArgs : Success(v) \in Outcomes
    /\ Success(Empty) \in Outcomes
    /\ InvalidArgs # Pending
    /\ \A v : Success(v) # Pending
  BY DEF Pending, InvalidArgs, Success, Outcomes, ValArgs

\* Writing a table to the file with the current number keeps the files
\* sequences of tables.
LEMMA WithTableType ==
    ASSUME DiskOK, LISST_NUM \in Nat, NEW tab \in [KeyArgs -> ValArgs \cup {Absent}],
           NEW whole \in BOOLEAN
    PROVE  LET f == WithTable(tab, whole) IN
           /\ DOMAIN f \subseteq Nat
           /\ \A n \in DOMAIN f : f[n] \in Seq(Tables)
<1>1. [tab |-> tab, whole |-> whole] \in Tables
  BY DEF Tables
<1>2. TablesIn(LISST_NUM) \in Seq(Tables)
  BY DEF TablesIn, DiskOK
<1>3. Append(TablesIn(LISST_NUM), [tab |-> tab, whole |-> whole]) \in Seq(Tables)
  BY <1>1, <1>2
<1> QED BY <1>3 DEF WithTable, DiskOK

\* A part of the state that a step leaves alone keeps its type.
LEMMA Frames ==
    /\ ClientsOK /\ pc' = pc /\ call' = call /\ res' = res => ClientsOK'
    /\ LockOK /\ writer' = writer /\ readers' = readers => LockOK'
    /\ MemTableOK /\ mem_table' = mem_table /\ LISST_NUM' = LISST_NUM => MemTableOK'
    /\ CacheOK /\ cached' = cached /\ nodes' = nodes => CacheOK'
    /\ DiskOK /\ wal' = wal /\ sst' = sst => DiskOK'
    /\ ProcOK /\ proc' = proc /\ fault' = fault => ProcOK'
    /\ HistoryOK /\ latest' = latest /\ live' = live => HistoryOK'
    /\ BoundsOK /\ calls' = calls /\ crashes' = crashes => BoundsOK'
<1>1. ClientsOK /\ pc' = pc /\ call' = call /\ res' = res => ClientsOK'
  BY DEF ClientsOK
<1>2. LockOK /\ writer' = writer /\ readers' = readers => LockOK'
  BY DEF LockOK
<1>3. MemTableOK /\ mem_table' = mem_table /\ LISST_NUM' = LISST_NUM => MemTableOK'
  BY DEF MemTableOK
<1>4. CacheOK /\ cached' = cached /\ nodes' = nodes => CacheOK'
  BY DEF CacheOK, CacheTypeOK, CacheCoherent
<1>5. DiskOK /\ wal' = wal /\ sst' = sst => DiskOK'
  BY DEF DiskOK
<1>6. ProcOK /\ proc' = proc /\ fault' = fault => ProcOK'
  BY DEF ProcOK
<1>7. HistoryOK /\ latest' = latest /\ live' = live => HistoryOK'
  BY DEF HistoryOK
<1>8. BoundsOK /\ calls' = calls /\ crashes' = crashes => BoundsOK'
  BY DEF BoundsOK
<1> QED BY <1>1, <1>2, <1>3, <1>4, <1>5, <1>6, <1>7, <1>8

(***************************************************************************)
(* The inductive invariant: types, a coherent cache, and control: who      *)
(* holds the lock is told by the program counters, and a thread that has   *)
(* passed a check of its arguments has arguments that pass it.             *)
(***************************************************************************)
LockInv ==
    /\ \A t \in Threads : writer = t <=> pc[t] \in UniquePCs
    /\ \A t \in Threads : t \in readers <=> pc[t] \in SharedPCs
    /\ writer # NoThread => readers = {}

ArgsInv ==
    \A t \in Threads :
        /\ pc[t] \in UniquePCs => IsWrite(t)
        /\ pc[t] \in SharedPCs => call[t].op = "Get"
        /\ pc[t] = "args" => call[t].op = "Put"
        /\ pc[t] \in {"wal", "mem"} => call[t].op = "Put" \/ call[t].key # Empty
        /\ pc[t] \in {"cache", "flush", "newmem"} =>
              /\ call[t].key # Empty
              /\ call[t].op = "Put" => call[t].val # Empty
        /\ pc[t] \in {"contains", "hit", "memread", "sst"} =>
              call[t].key # Empty /\ call[t].val # NullPtr
        /\ pc[t] \in {"wret", "rret"} => res[t] # Pending
        /\ pc[t] \notin {"wret", "rret", "idle"} => res[t] = Pending

TypeInv == TypeOK /\ CacheOK /\ LockInv /\ ArgsInv

\* The constructor establishes the inductive invariant.
LEMMA TypeInit == Init => TypeInv
<1> SUFFICES ASSUME Init PROVE TypeInv
  OBVIOUS
<1> USE DEF Init
<1>1. ClientsOK
  BY OutcomeTypes DEF ClientsOK, CallSet, KeyArgs, ValArgs
<1>2. LockOK
  BY DEF LockOK
<1>3. MemTableOK
  BY DEF MemTableOK, NoEntries
<1>4. CacheTypeOK
  BY DEF CacheTypeOK, NoEntries
<1>5. CacheCoherent
  BY SizesAssumption DEF CacheCoherent, NoEntries, ToSet, IsInjective
<1>6. DiskOK
  BY DEF DiskOK
<1>7. ProcOK
  BY DEF ProcOK
<1>8. HistoryOK
  BY DEF HistoryOK, NoEntries
<1>9. BoundsOK
  BY SwitchesAssumption DEF BoundsOK
<1>10. LockInv
  BY StringsAssumption DEF LockInv, UniquePCs, SharedPCs
<1>11. ArgsInv
  BY DEF ArgsInv, UniquePCs, SharedPCs
<1> QED BY <1>1, <1>2, <1>3, <1>4, <1>5, <1>6, <1>7, <1>8, <1>9, <1>10, <1>11
        DEF TypeInv, TypeOK, CacheOK

\* Every statement of every thread, a crash and a restart keep it: one step
\* per action, and under it one per part of the state the action changes.
LEMMA TypeStep == TypeInv /\ [Next]_vars => TypeInv'
<1> SUFFICES ASSUME TypeInv, [Next]_vars PROVE TypeInv'
  OBVIOUS
<1> USE Frames
    DEF TypeInv, TypeOK, lockVars, cacheVars, diskVars, procVars, historyVars, boundVars, clientVars
<1>0. CASE UNCHANGED vars
  <2>1. LockInv' /\ ArgsInv'
    BY <1>0 DEF vars, LockInv, ArgsInv, IsWrite
  <2> QED BY <1>0, <2>1 DEF vars, CacheOK
<1>1. ASSUME NEW t \in Threads, NEW c \in CallSet, Call(t, c)
      PROVE  TypeInv'
  <2>1. ClientsOK'
    BY <1>1, OutcomeTypes DEF Call, ClientsOK, UniquePCs, SharedPCs
  <2>2. BoundsOK'
    BY <1>1, SwitchesAssumption DEF Call, BoundsOK
  <2>3. LockInv'
    BY <1>1, StringsAssumption DEF Call, LockInv, ClientsOK, LockOK, UniquePCs, SharedPCs
  <2>4. ArgsInv'
    BY <1>1, OutcomeTypes, CallFields DEF Call, ArgsInv, ClientsOK, IsWrite, UniquePCs, SharedPCs
  <2> QED BY <1>1, <2>1, <2>2, <2>3, <2>4 DEF Call, CacheOK
<1>2. ASSUME NEW t \in Threads, Close(t)
      PROVE  TypeInv'
  <2>1. BoundsOK'
    BY <1>2, SwitchesAssumption DEF Close, BoundsOK
  <2>2. LockInv'
    BY <1>2, StringsAssumption DEF Close, LockInv, ClientsOK, LockOK, UniquePCs, SharedPCs
  <2>3. ArgsInv'
    BY <1>2, OutcomeTypes, CallFields DEF Close, ArgsInv, ClientsOK, IsWrite, UniquePCs, SharedPCs
  <2> QED BY <1>2, <2>1, <2>2, <2>3 DEF Close, CacheOK
<1>3. ASSUME NEW t \in Threads, LockUnique(t)
      PROVE  TypeInv'
  <2>1. ClientsOK'
    BY <1>3, OutcomeTypes DEF LockUnique, ClientsOK, UniquePCs, SharedPCs
  <2>2. LockOK'
    BY <1>3 DEF LockUnique, LockOK
  <2>3. LockInv'
    BY <1>3, StringsAssumption DEF LockUnique, LockInv, ClientsOK, LockOK, UniquePCs, SharedPCs
  <2>4. ArgsInv'
    BY <1>3, OutcomeTypes, CallFields DEF LockUnique, ArgsInv, ClientsOK, IsWrite, UniquePCs, SharedPCs
  <2> QED BY <1>3, <2>1, <2>2, <2>3, <2>4 DEF LockUnique, CacheOK
<1>4. ASSUME NEW t \in Threads, LockShared(t)
      PROVE  TypeInv'
  <2>1. ClientsOK'
    BY <1>4, OutcomeTypes DEF LockShared, ClientsOK, UniquePCs, SharedPCs
  <2>2. LockOK'
    BY <1>4 DEF LockShared, LockOK
  <2>3. LockInv'
    BY <1>4, StringsAssumption DEF LockShared, LockInv, ClientsOK, LockOK, UniquePCs, SharedPCs
  <2>4. ArgsInv'
    BY <1>4, OutcomeTypes, CallFields DEF LockShared, ArgsInv, ClientsOK, IsWrite, UniquePCs, SharedPCs
  <2> QED BY <1>4, <2>1, <2>2, <2>3, <2>4 DEF LockShared, CacheOK
<1>5. ASSUME NEW t \in Threads, AddLog(t)
      PROVE  TypeInv'
  <2>1. ClientsOK'
    BY <1>5, OutcomeTypes DEF AddLog, ClientsOK, UniquePCs, SharedPCs
  <2>2. DiskOK'
    <3>1. call[t].key \in KeyArgs
      BY CallFields DEF ClientsOK
    <3>2. LogPayload(call[t].key) \in Seq(0 .. 255)
      BY <3>1, LogPayloadType
    <3> QED BY <1>5, <3>2 DEF AddLog, DiskOK
  <2>3. LockInv'
    BY <1>5, StringsAssumption DEF AddLog, LockInv, ClientsOK, LockOK, UniquePCs, SharedPCs
  <2>4. ArgsInv'
    BY <1>5, OutcomeTypes, CallFields DEF AddLog, ArgsInv, ClientsOK, IsWrite, UniquePCs, SharedPCs
  <2> QED BY <1>5, <2>1, <2>2, <2>3, <2>4 DEF AddLog, CacheOK
<1>6. ASSUME NEW t \in Threads, WriteMem(t)
      PROVE  TypeInv'
  <2>1. ClientsOK'
    BY <1>6, OutcomeTypes DEF WriteMem, ClientsOK, UniquePCs, SharedPCs
  <2>2. MemTableOK'
    <3>1. call[t].key \in KeyArgs /\ call[t].val \in ValArgs
      BY <1>6, CallFields DEF WriteMem, ClientsOK, ArgsInv, IsWrite, UniquePCs
    <3>2. Name(t) \in KeyArgs /\ CStr[call[t].val] \in ValArgs /\ Empty \in ValArgs
      BY <3>1, StringsAssumption DEF Name, ValArgs
    <3> QED BY <1>6, <3>1, <3>2 DEF WriteMem, MemTableOK
  <2>3. HistoryOK'
    <3>1. call[t].key \in KeyArgs /\ call[t].val \in ValArgs
      BY <1>6, CallFields DEF WriteMem, ClientsOK, ArgsInv, IsWrite, UniquePCs
    <3>2. Name(t) \in KeyArgs /\ CStr[call[t].val] \in ValArgs /\ Empty \in ValArgs
      BY <3>1, StringsAssumption DEF Name, ValArgs
    <3> QED BY <1>6, <3>1, <3>2 DEF WriteMem, HistoryOK
  <2>4. LockInv'
    BY <1>6, StringsAssumption DEF WriteMem, LockInv, ClientsOK, LockOK, UniquePCs, SharedPCs
  <2>5. ArgsInv'
    BY <1>6, OutcomeTypes, CallFields DEF WriteMem, ArgsInv, ClientsOK, IsWrite, UniquePCs, SharedPCs
  <2> QED BY <1>6, <2>1, <2>2, <2>3, <2>4, <2>5 DEF WriteMem, CacheOK
<1>7. ASSUME NEW t \in Threads, CheckArgs(t)
      PROVE  TypeInv'
  <2>1. ClientsOK'
    BY <1>7, OutcomeTypes DEF CheckArgs, ClientsOK, UniquePCs, SharedPCs
  <2>2. LockInv'
    BY <1>7, StringsAssumption DEF CheckArgs, LockInv, ClientsOK, LockOK, UniquePCs, SharedPCs
  <2>3. ArgsInv'
    BY <1>7, OutcomeTypes, CallFields DEF CheckArgs, ArgsInv, ClientsOK, IsWrite, UniquePCs, SharedPCs
  <2> QED BY <1>7, <2>1, <2>2, <2>3 DEF CheckArgs, CacheOK
<1>8. ASSUME NEW t \in Threads, WriteCache(t)
      PROVE  TypeInv'
  <2>1. ClientsOK'
    BY <1>8, OutcomeTypes DEF WriteCache, ClientsOK, UniquePCs, SharedPCs
  <2>2. CacheOK'
    <3>1. call[t].key \in KeyArgs /\ call[t].val \in ValArgs
      BY <1>8, CallFields DEF WriteCache, ClientsOK, ArgsInv, IsWrite, UniquePCs
    <3>2. Name(t) \in KeyArgs
      BY <3>1, StringsAssumption DEF Name
    <3> QED BY <1>8, <3>1, <3>2, InsertKeepsCache, EraseKeepsCache DEF WriteCache
  <2>3. LockInv'
    BY <1>8, StringsAssumption DEF WriteCache, LockInv, ClientsOK, LockOK, UniquePCs, SharedPCs
  <2>4. ArgsInv'
    BY <1>8, OutcomeTypes, CallFields DEF WriteCache, ArgsInv, ClientsOK, IsWrite, UniquePCs, SharedPCs
  <2> QED BY <1>8, <2>1, <2>2, <2>3, <2>4 DEF WriteCache, CacheOK
<1>9. ASSUME NEW t \in Threads, MemTableToSST(t)
      PROVE  TypeInv'
  <2>0. /\ pc[t] = "flush"
        /\ pc' = pc \/ pc' = [pc EXCEPT ![t] = "newmem"]
        /\ call' = call /\ res' = res /\ writer' = writer /\ readers' = readers
    BY <1>9 DEF MemTableToSST
  <2>1. ClientsOK'
    BY <2>0, OutcomeTypes DEF ClientsOK, UniquePCs, SharedPCs
  <2>2. DiskOK'
    <3>1. /\ NoEntries \in [KeyArgs -> ValArgs \cup {Absent}]
          /\ Tabled(mem_table) \in [KeyArgs -> ValArgs \cup {Absent}]
      BY DEF NoEntries, Tabled, MemTableOK
    <3>2. /\ DOMAIN WithTable(Tabled(mem_table), TRUE) \subseteq Nat
          /\ \A f \in DOMAIN WithTable(Tabled(mem_table), TRUE) :
                WithTable(Tabled(mem_table), TRUE)[f] \in Seq(Tables)
      BY <3>1, WithTableType DEF MemTableOK
    <3>3. /\ DOMAIN WithTable(NoEntries, FALSE) \subseteq Nat
          /\ \A f \in DOMAIN WithTable(NoEntries, FALSE) :
                WithTable(NoEntries, FALSE)[f] \in Seq(Tables)
      BY <3>1, WithTableType DEF MemTableOK
    <3> QED BY <1>9, <3>2, <3>3 DEF MemTableToSST, DiskOK
  <2>3. LockInv'
    BY <2>0, StringsAssumption DEF LockInv, ClientsOK, LockOK, UniquePCs, SharedPCs
  <2>4. ArgsInv'
    BY <2>0, OutcomeTypes, CallFields DEF ArgsInv, ClientsOK, IsWrite, UniquePCs, SharedPCs
  <2>5. ProcOK'
    BY <1>9 DEF MemTableToSST, ProcOK
  <2> QED BY <1>9, <2>1, <2>2, <2>3, <2>4, <2>5 DEF MemTableToSST, CacheOK
<1>10. ASSUME NEW t \in Threads, NewMemTable(t)
      PROVE  TypeInv'
  <2>1. ClientsOK'
    BY <1>10, OutcomeTypes DEF NewMemTable, ClientsOK, UniquePCs, SharedPCs
  <2>2. MemTableOK'
    BY <1>10 DEF NewMemTable, MemTableOK, NoEntries
  <2>3. LockInv'
    BY <1>10, StringsAssumption DEF NewMemTable, LockInv, ClientsOK, LockOK, UniquePCs, SharedPCs
  <2>4. ArgsInv'
    BY <1>10, OutcomeTypes, CallFields DEF NewMemTable, ArgsInv, ClientsOK, IsWrite, UniquePCs, SharedPCs
  <2> QED BY <1>10, <2>1, <2>2, <2>3, <2>4 DEF NewMemTable, CacheOK
<1>11. ASSUME NEW t \in Threads, CacheContains(t)
      PROVE  TypeInv'
  <2>1. ClientsOK'
    BY <1>11, OutcomeTypes DEF CacheContains, ClientsOK, UniquePCs, SharedPCs
  <2>2. LockInv'
    BY <1>11, StringsAssumption DEF CacheContains, LockInv, ClientsOK, LockOK, UniquePCs, SharedPCs
  <2>3. ArgsInv'
    BY <1>11, OutcomeTypes, CallFields DEF CacheContains, ArgsInv, ClientsOK, IsWrite, UniquePCs, SharedPCs
  <2> QED BY <1>11, <2>1, <2>2, <2>3 DEF CacheContains, CacheOK
<1>12. ASSUME NEW t \in Threads, CacheGet(t)
      PROVE  TypeInv'
  <2>1. ClientsOK'
    <3>1. Name(t) \in KeyArgs
      BY CallFields, StringsAssumption DEF ClientsOK, Name
    <3>2. cached[Name(t)] # Absent => Success(cached[Name(t)]) \in Outcomes
      BY <3>1, OutcomeTypes DEF CacheOK, CacheTypeOK
    <3> QED BY <1>12, <3>2 DEF CacheGet, ClientsOK, SharedPCs
  <2>2. ProcOK'
    BY <1>12 DEF CacheGet, ProcOK
  <2>3. CacheOK'
    <3>1. Name(t) \in KeyArgs
      BY CallFields, StringsAssumption DEF ClientsOK, Name
    <3>2. CASE cached[Name(t)] = Absent
      BY <1>12, <3>2 DEF CacheGet
    <3>3. CASE cached[Name(t)] # Absent
      BY <1>12, <3>1, <3>3, ToFrontKeepsCache DEF CacheGet
    <3> QED BY <3>2, <3>3
  <2>4. LockInv'
    BY <1>12, StringsAssumption DEF CacheGet, LockInv, ClientsOK, LockOK, UniquePCs, SharedPCs
  <2>5. ArgsInv'
    <3>1. CASE cached[Name(t)] = Absent
      BY <1>12, <3>1 DEF CacheGet, ArgsInv, IsWrite
    <3>2. CASE cached[Name(t)] # Absent
      <4>1. /\ pc' = [pc EXCEPT ![t] = "rret"]
            /\ res' = [res EXCEPT ![t] = Success(cached[Name(t)])]
            /\ call' = call
            /\ pc[t] = "hit"
        BY <1>12, <3>2 DEF CacheGet
      <4>2. Success(cached[Name(t)]) # Pending
        BY OutcomeTypes
      <4> QED BY <4>1, <4>2 DEF ArgsInv, ClientsOK, IsWrite, UniquePCs, SharedPCs
    <3> QED BY <3>1, <3>2
  <2> QED BY <1>12, <2>1, <2>2, <2>3, <2>4, <2>5 DEF CacheGet, CacheOK
<1>13. ASSUME NEW t \in Threads, ReadMem(t)
      PROVE  TypeInv'
  <2>1. ClientsOK'
    <3>1. Name(t) \in KeyArgs
      BY CallFields, StringsAssumption DEF ClientsOK, Name
    <3>2. mem_table[Name(t)] # Absent => Success(mem_table[Name(t)]) \in Outcomes
      BY <3>1, OutcomeTypes DEF MemTableOK
    <3> QED BY <1>13, <3>2 DEF ReadMem, ClientsOK, SharedPCs
  <2>2. LockInv'
    BY <1>13, StringsAssumption DEF ReadMem, LockInv, ClientsOK, LockOK, UniquePCs, SharedPCs
  <2>3. ArgsInv'
    BY <1>13, OutcomeTypes, CallFields DEF ReadMem, ArgsInv, ClientsOK, IsWrite, UniquePCs, SharedPCs
  <2> QED BY <1>13, <2>1, <2>2, <2>3 DEF ReadMem, CacheOK
<1>14. ASSUME NEW t \in Threads, ReadSST(t)
      PROVE  TypeInv'
  <2>1. ProcOK'
    BY <1>14 DEF ReadSST, ProcOK
  <2>2. LockInv'
    BY <1>14, StringsAssumption DEF ReadSST, LockInv, ClientsOK, LockOK, UniquePCs, SharedPCs
  <2>3. ArgsInv'
    BY <1>14, OutcomeTypes, CallFields DEF ReadSST, ArgsInv, ClientsOK, IsWrite, UniquePCs, SharedPCs
  <2> QED BY <1>14, <2>1, <2>2, <2>3 DEF ReadSST, CacheOK
<1>15. ASSUME NEW t \in Threads, ReturnWrite(t)
      PROVE  TypeInv'
  <2>1. ClientsOK'
    BY <1>15, OutcomeTypes DEF ReturnWrite, ClientsOK, UniquePCs, SharedPCs
  <2>2. LockOK'
    BY <1>15 DEF ReturnWrite, LockOK
  <2>3. LockInv'
    BY <1>15, StringsAssumption DEF ReturnWrite, LockInv, ClientsOK, LockOK, UniquePCs, SharedPCs
  <2>4. ArgsInv'
    BY <1>15, OutcomeTypes, CallFields DEF ReturnWrite, ArgsInv, ClientsOK, IsWrite, UniquePCs, SharedPCs
  <2> QED BY <1>15, <2>1, <2>2, <2>3, <2>4 DEF ReturnWrite, CacheOK
<1>16. ASSUME NEW t \in Threads, ReturnRead(t)
      PROVE  TypeInv'
  <2>1. ClientsOK'
    BY <1>16, OutcomeTypes DEF ReturnRead, ClientsOK, UniquePCs, SharedPCs
  <2>2. LockOK'
    BY <1>16 DEF ReturnRead, LockOK
  <2>3. LockInv'
    BY <1>16, StringsAssumption DEF ReturnRead, LockInv, ClientsOK, LockOK, UniquePCs, SharedPCs
  <2>4. ArgsInv'
    BY <1>16, OutcomeTypes, CallFields DEF ReturnRead, ArgsInv, ClientsOK, IsWrite, UniquePCs, SharedPCs
  <2> QED BY <1>16, <2>1, <2>2, <2>3, <2>4 DEF ReturnRead, CacheOK
<1>17. CASE Crash
  <2>1. DiskOK'
    <3>1. NoEntries \in [KeyArgs -> ValArgs \cup {Absent}]
      BY DEF NoEntries
    <3>2. /\ DOMAIN WithTable(NoEntries, FALSE) \subseteq Nat
          /\ \A f \in DOMAIN WithTable(NoEntries, FALSE) :
                WithTable(NoEntries, FALSE)[f] \in Seq(Tables)
      BY <3>1, WithTableType DEF MemTableOK
    <3> QED BY <1>17, <3>2 DEF Crash, DiskOK
  <2>2. ProcOK'
    BY <1>17 DEF Crash, ProcOK
  <2>3. BoundsOK'
    BY <1>17, SwitchesAssumption DEF Crash, BoundsOK
  <2>4. LockInv'
    BY <1>17, StringsAssumption DEF Crash, LockInv, ClientsOK, LockOK, UniquePCs, SharedPCs
  <2>5. ArgsInv'
    BY <1>17, OutcomeTypes, CallFields DEF Crash, ArgsInv, ClientsOK, IsWrite, UniquePCs, SharedPCs
  <2> QED BY <1>17, <2>1, <2>2, <2>3, <2>4, <2>5 DEF Crash, CacheOK
<1>18. CASE Restart
  <2>1. ClientsOK'
    BY <1>18, OutcomeTypes DEF Restart, ClientsOK, UniquePCs, SharedPCs
  <2>2. LockOK'
    BY <1>18 DEF Restart, LockOK
  <2>3. MemTableOK'
    BY <1>18 DEF Restart, MemTableOK, NoEntries
  <2>4. CacheOK'
    <3>1. CacheTypeOK'
      BY <1>18 DEF Restart, CacheTypeOK, NoEntries
    <3>2. CacheCoherent'
      BY <1>18, SizesAssumption DEF Restart, CacheCoherent, NoEntries, ToSet, IsInjective
    <3> QED BY <3>1, <3>2 DEF CacheOK
  <2>5. ProcOK'
    BY <1>18 DEF Restart, ProcOK
  <2>6. HistoryOK'
    BY <1>18 DEF Restart, HistoryOK, NoEntries
  <2>7. LockInv'
    BY <1>18, StringsAssumption DEF Restart, LockInv, ClientsOK, LockOK, UniquePCs, SharedPCs
  <2>8. ArgsInv'
    BY <1>18, OutcomeTypes, CallFields DEF Restart, ArgsInv, ClientsOK, IsWrite, UniquePCs, SharedPCs
  <2> QED BY <1>18, <2>1, <2>2, <2>3, <2>4, <2>5, <2>6, <2>7, <2>8 DEF Restart, CacheOK
<1> QED BY <1>0, <1>1, <1>2, <1>3, <1>4, <1>5, <1>6, <1>7, <1>8, <1>9,
           <1>10, <1>11, <1>12, <1>13, <1>14, <1>15, <1>16, <1>17, <1>18 DEF Next, Step, Ask

\* Together: the invariant holds in every behaviour.
LEMMA TypeInvariant == Spec => []TypeInv
  BY TypeInit, TypeStep, PTL DEF Spec

\* Every variable always holds a value of its type.
THEOREM TypeCorrect == Spec => []TypeOK
<1>1. TypeInv => TypeOK
  BY DEF TypeInv
<1> QED BY <1>1, TypeInvariant, PTL

\* The list and the index of every shard of the cache always agree, for
\* every capacity, every hash of the keys and every number of threads.
THEOREM CacheAlwaysCoherent == Spec => []CacheCoherent
<1>1. TypeInv => CacheCoherent
  BY DEF TypeInv, CacheOK
<1> QED BY <1>1, TypeInvariant, PTL

(***************************************************************************)
(* The node that Get dereferences.                                         *)
(***************************************************************************)

\* Only a writer takes an entry out of the cache, and a writer excludes the
\* readers.
LEMMA NodeStep == TypeInv /\ NodeNeverNull /\ [Next]_vars => NodeNeverNull'
<1> SUFFICES ASSUME TypeInv, NodeNeverNull, [Next]_vars PROVE NodeNeverNull'
  OBVIOUS
<1> USE DEF TypeInv, TypeOK, ClientsOK, lockVars, cacheVars, diskVars, procVars, historyVars,
            boundVars, clientVars
<1>0. CASE UNCHANGED vars
  BY <1>0 DEF vars, NodeNeverNull, Name
<1>1. ASSUME NEW t \in Threads, NEW c \in CallSet, Call(t, c)
      PROVE  NodeNeverNull'
  BY <1>1 DEF Call, NodeNeverNull, Name
<1>2. ASSUME NEW t \in Threads, Close(t) \/ LockUnique(t) \/ LockShared(t)
      PROVE  NodeNeverNull'
  BY <1>2 DEF Close, LockUnique, LockShared, NodeNeverNull, Name
<1>3. ASSUME NEW t \in Threads, AddLog(t) \/ WriteMem(t) \/ CheckArgs(t)
      PROVE  NodeNeverNull'
  BY <1>3 DEF AddLog, WriteMem, CheckArgs, NodeNeverNull, Name
<1>4. ASSUME NEW t \in Threads, WriteCache(t)
      PROVE  NodeNeverNull'
  <2>1. \A u \in Threads : pc[u] # "hit"
    BY <1>4, StringsAssumption DEF WriteCache, LockInv, UniquePCs, SharedPCs
  <2>2. \A u \in Threads : pc'[u] # "hit"
    BY <1>4, <2>1 DEF WriteCache
  <2> QED BY <1>4, <2>2 DEF WriteCache, NodeNeverNull
<1>5. ASSUME NEW t \in Threads, MemTableToSST(t) \/ NewMemTable(t)
      PROVE  NodeNeverNull'
  BY <1>5 DEF MemTableToSST, NewMemTable, NodeNeverNull, Name
<1>6. ASSUME NEW t \in Threads, CacheContains(t)
      PROVE  NodeNeverNull'
  BY <1>6 DEF CacheContains, NodeNeverNull, Name
<1>7. ASSUME NEW t \in Threads, CacheGet(t)
      PROVE  NodeNeverNull'
  BY <1>7 DEF CacheGet, NodeNeverNull, Name
<1>8. ASSUME NEW t \in Threads, ReadMem(t) \/ ReadSST(t) \/ ReturnWrite(t) \/ ReturnRead(t)
      PROVE  NodeNeverNull'
  BY <1>8 DEF ReadMem, ReadSST, ReturnWrite, ReturnRead, NodeNeverNull, Name
<1>9. CASE Crash \/ Restart
  BY <1>9 DEF Crash, Restart, NodeNeverNull, Name
<1> QED BY <1>0, <1>1, <1>2, <1>3, <1>4, <1>5, <1>6, <1>7, <1>8, <1>9 DEF Next, Step, Ask

\* Whatever the threads do between Get's two calls on the cache, the node
\* it dereferences is there.
THEOREM NodeAlwaysThere == Spec => []NodeNeverNull
<1>1. Init => NodeNeverNull
  BY DEF Init, NodeNeverNull
<1> QED BY <1>1, TypeInvariant, NodeStep, PTL DEF Spec
=============================================================================
