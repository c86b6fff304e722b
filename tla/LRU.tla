--------------------------------- MODULE LRU ---------------------------------
(***************************************************************************)
(* smallkv::Cache and smallkv::LRU: the lists, the index, the reference    *)
(* counts, the garbage station and the lock of every shard.                *)
(*                                                                         *)
(* Users call the cache from threads of their own; DBImpl's readers do so  *)
(* at the same time.  A call is two steps: it takes the lock of the shard  *)
(* and looks the key up in the index; then it does its work on what it     *)
(* found, lets go of the lock and returns.  Nodes are numbered in the      *)
(* order of their allocation, so that a use after the free shows; 0 is no  *)
(* node.  held is a history variable: what get has returned and nobody has *)
(* released.                                                               *)
(***************************************************************************)
EXTENDS Integers, Sequences, SequencesExt, FiniteSets, FiniteSetsExt

CONSTANTS
    Users,
    Keys,
    Shards, ShardOf,    \* ShardOf[k]: hash_fn(k) % SHARDING_NUM
    cap,                \* the capacity of a shard
    LockType,           \* "MutexLock", "SpinLock" or "NullLock"
    NoUser,             \* nobody has the lock
    MaxCalls            \* bound: calls the users make

ASSUME CacheAssumption ==
    /\ ShardOf \in [Keys -> Shards]
    /\ cap \in Nat
    /\ LockType \in {"MutexLock", "SpinLock", "NullLock"}
    /\ NoUser \notin Users
    /\ MaxCalls \in Nat

VARIABLES
    cache,      \* nodes, index, garbage_station, and the nodes on the heap
    locker,     \* locker[s]: the user that has the lock of shard s
    call,       \* call[u]: the call u is in, its key and the node it found
    held,       \* history: held[u][n]: gets of node n by u less its releases
    calls       \* how much of the bound is used

vars == <<cache, locker, call, held, calls>>

NoNode == 0
Ids == 1 .. MaxCalls        \* a call allocates at most one node
Ops == {"insert", "erase", "get", "contains", "release"}
Idle == [op |-> "none"]

Init ==
    /\ cache = [nodes |-> [s \in Shards |-> <<>>],
                index |-> [k \in Keys |-> NoNode],
                garbage_station |-> [k \in Keys |-> NoNode],
                heap |-> <<>>]
    /\ locker = [s \in Shards |-> NoUser]
    /\ call = [u \in Users |-> Idle]
    /\ held = [u \in Users |-> [n \in Ids |-> 0]]
    /\ calls = 0

(***************************************************************************)
(* What a call does to the cache c.                                        *)
(***************************************************************************)
Shard(c, n) == ShardOf[c.heap[n].key]

Ref(c, n) == [c EXCEPT !.heap[n].ref_cnt = @ + 1]

\* Mutant: a deleted node stays in the garbage station.
Unref_KeepsGarbage(c, n) ==
    LET left == c.heap[n].ref_cnt - 1 IN
    [c EXCEPT !.heap[n].ref_cnt = left, !.heap[n].freed = @ \/ left <= 0]

\* Nobody uses the node any more: it leaves the garbage station, whatever
\* stands there under its key, and is deleted.
Unref(c, n) ==
    LET left == c.heap[n].ref_cnt - 1 IN
    [c EXCEPT !.heap[n].ref_cnt = left,
              !.heap[n].freed = @ \/ left <= 0,
              !.garbage_station[c.heap[n].key] = IF left <= 0 THEN NoNode ELSE @]

\* A node leaves the list and the index for the garbage station, where it
\* takes the place of an older node with its key.
PhantomEraseNode(c, n) ==
    Unref([c EXCEPT !.heap[n].in_cache = FALSE,
                    !.nodes[Shard(c, n)] = RemoveFirst(@, n),
                    !.index[c.heap[n].key] = NoNode,
                    !.garbage_station[c.heap[n].key] = n], n)

\* nodes.splice to the front.
ToFront(c, n) == [c EXCEPT !.nodes[Shard(c, n)] = <<n>> \o RemoveFirst(@, n)]

\* Mutant: the count starts at its default, 0.
NewNode_NoRef(k) == [key |-> k, ref_cnt |-> 0, in_cache |-> TRUE, freed |-> FALSE]

NewNode(k) == [key |-> k, ref_cnt |-> 1, in_cache |-> TRUE, freed |-> FALSE]

\* Mutant: the node evicted is the one used last.
PushFront_EvictsNewest(c, k) ==
    LET n == Len(c.heap) + 1
        s == ShardOf[k]
        full == Len(c.nodes[s]) >= cap
        d == IF full /\ cap > 0 THEN PhantomEraseNode(c, Head(c.nodes[s])) ELSE c
    IN  [d EXCEPT !.heap = Append(@, NewNode(k)), !.nodes[s] = <<n>> \o @, !.index[k] = n]

\* insert of a new key: its node comes first, and when there are now more
\* than cap the last one goes.
PushFront(c, k) ==
    LET n == Len(c.heap) + 1
        d == [c EXCEPT !.heap = Append(@, NewNode(k)),
                       !.nodes[ShardOf[k]] = <<n>> \o @,
                       !.index[k] = n]
    IN  IF Len(d.nodes[ShardOf[k]]) > cap THEN PhantomEraseNode(d, Last(d.nodes[ShardOf[k]]))
                                          ELSE d

\* Each operation on the node n its key was found at.  insert of a known
\* key moves the old node to the front; the new one is linked nowhere and
\* lost.
Insert(c, k, n) == IF n = NoNode THEN PushFront(c, k) ELSE ToFront(c, n)

\* Mutant: the cache's reference is dropped twice.
Erase_Twice(c, k, n) == IF n = NoNode THEN c ELSE Unref(PhantomEraseNode(c, n), n)

Erase(c, k, n) == IF n = NoNode THEN c ELSE PhantomEraseNode(c, n)

\* Mutant: a hit is not moved to the front.
Get_NoSplice(c, k, n) == IF n = NoNode THEN c ELSE Ref(c, n)

Get(c, k, n) == IF n = NoNode THEN c ELSE Ref(ToFront(c, n), n)

Release(c, k, n) == Unref(c, n)

Effect(c, op, k, n) ==
    CASE op = "insert"   -> Insert(c, k, n)
      [] op = "erase"    -> Erase(c, k, n)
      [] op = "get"      -> Get(c, k, n)
      [] op = "release"  -> Release(c, k, n)
      [] op = "contains" -> c

(***************************************************************************)
(* Calls.                                                                  *)
(***************************************************************************)

\* Mutant: the lock is not waited for.
Free_Always(s) == TRUE

\* MutexLock and SpinLock let one user in, NullLock everybody.
Free(s) == LockType # "NullLock" => locker[s] = NoUser

\* release dereferences index[key] without looking whether there is an
\* entry: only a user that still has the node that is cached under the key
\* may call it.
MayCall(u, op, k) == op = "release" => cache.index[k] # NoNode /\ held[u][cache.index[k]] > 0

\* The lock of the key's shard is taken, the key looked up.
Enter(u, op, k) ==
    /\ call[u] = Idle
    /\ calls < MaxCalls
    /\ Free(ShardOf[k])
    /\ MayCall(u, op, k)
    /\ locker' = [locker EXCEPT ![ShardOf[k]] = u]
    /\ call' = [call EXCEPT ![u] = [op |-> op, key |-> k, found |-> cache.index[k]]]
    /\ calls' = calls + 1
    /\ UNCHANGED <<cache, held>>

\* The gets less the releases of every node, h, after a call that found n.
OneMore(h, n) == [h EXCEPT ![n] = h[n] + 1]
OneLess(h, n) == [h EXCEPT ![n] = h[n] - 1]
After(h, op, n) ==
    IF n # NoNode /\ op = "get" THEN OneMore(h, n)
    ELSE IF n # NoNode /\ op = "release" THEN OneLess(h, n)
    ELSE h

\* The rest of the call, up to the end of the ScopedLock.
Leave(u) ==
    /\ call[u] # Idle
    /\ LET op == call[u].op
           k == call[u].key
           n == call[u].found
       IN  /\ cache' = Effect(cache, op, k, n)
           /\ held' = [held EXCEPT ![u] = After(@, op, n)]
           /\ locker' = [locker EXCEPT ![ShardOf[k]] = NoUser]
    /\ call' = [call EXCEPT ![u] = Idle]
    /\ UNCHANGED calls

Next ==
    \E u \in Users :
        \/ \E op \in Ops, k \in Keys : Enter(u, op, k)
        \/ Leave(u)

Spec == Init /\ [][Next]_vars

(***************************************************************************)
(* Properties.                                                             *)
(***************************************************************************)
Nodes == 1 .. Len(cache.heap)
Listed(n) == Contains(cache.nodes[Shard(cache, n)], n)

\* The gets of the node n that were not released: the user, and which of
\* its gets it is.
Gets(n) == UNION {{u} \X (1 .. held[u][n]) : u \in Users}
Holders(n) == Cardinality(Gets(n))

Node == [key : Keys, ref_cnt : Nat, in_cache : BOOLEAN, freed : BOOLEAN]

\* Every variable has the type of its C++ counterpart, and a reference
\* count is never negative.
TypeOK ==
    /\ cache \in [nodes : [Shards -> Seq(Nodes)],
                  index : [Keys -> Nodes \cup {NoNode}],
                  garbage_station : [Keys -> Nodes \cup {NoNode}],
                  heap : Seq(Node)]
    /\ locker \in [Shards -> Users \cup {NoUser}]
    /\ call \in [Users -> {Idle} \cup [op : Ops, key : Keys, found : Nodes \cup {NoNode}]]
    /\ held \in [Users -> [Ids -> Nat]]
    /\ calls \in 0 .. MaxCalls

\* List, index and in_cache agree after any calls of any users: the index
\* has exactly the nodes of the lists, each list has at most cap, and none
\* of them is deleted.
ListsIndexed ==
    /\ \A s \in Shards : Len(cache.nodes[s]) <= cap /\ IsInjective(cache.nodes[s])
    /\ \A n \in Nodes :
           /\ Listed(n) <=> cache.index[cache.heap[n].key] = n
           /\ Listed(n) <=> cache.heap[n].in_cache
           /\ Listed(n) => ~cache.heap[n].freed

\* The counts are exact: one for the cache and one for every get that was
\* not released, also when several users get, evict and release one node.
\* So a node that some user still has is not deleted, however often its key
\* is erased, evicted and inserted again, and one that nobody has is.
RefsExact ==
    \A n \in Nodes :
        /\ cache.heap[n].ref_cnt = Holders(n) + (IF Listed(n) THEN 1 ELSE 0)
        /\ cache.heap[n].freed <=> cache.heap[n].ref_cnt = 0

\* The garbage station has no deleted node, and it has every node that is
\* no longer cached and still in use, except where a younger node with the
\* same key has taken its place.
GarbageKept ==
    /\ \A k \in Keys :
           LET n == cache.garbage_station[k] IN
           n # NoNode => ~Listed(n) /\ ~cache.heap[n].freed /\ cache.heap[n].key = k
    /\ \A n \in Nodes :
           LET k == cache.heap[n].key IN
           ~Listed(n) /\ Holders(n) > 0 =>
               \/ cache.garbage_station[k] = n
               \/ \E m \in Nodes : m > n /\ cache.heap[m].key = k

KC == INSTANCE KeyCache WITH
    order <- [s \in Shards |-> [i \in DOMAIN cache.nodes[s] |-> cache.heap[cache.nodes[s][i]].key]]

\* The keys of every shard change as in KeyCache, the cache DBImpl is
\* modelled with.
ImplementsKeyCache == KC!Spec

\* A call of one user takes effect as if it were alone, on the order it
\* finds when it returns: a get that hits makes its key the last to be
\* evicted, an insert evicts the key that was not used for the longest
\* time, and a call that misses or only looks changes nothing.
CallsTakeEffect ==
    [][\A u \in Users :
        call[u] # Idle /\ call'[u] = Idle =>
            LET op == call[u].op
                k == call[u].key
            IN  \/ op = "insert" /\ KC!Insert(k)
                \/ op = "erase" /\ KC!Erase(k)
                \/ op = "get" /\ KC!Get(k)
                \/ /\ op \in {"contains", "release"} \/ (op = "get" /\ ~KC!Known(k))
                   /\ UNCHANGED cache.nodes]_vars
=============================================================================
