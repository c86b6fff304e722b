----------------------------- MODULE LRUProofs -----------------------------
(***************************************************************************)
(* What holds of the sharded LRU cache for every set of users, keys and    *)
(* shards, every capacity and every number of calls, when the lock of a    *)
(* shard is a real one: its types, the agreement of lists, index, counts   *)
(* and garbage station, and that it implements KeyCache.                   *)
(*                                                                         *)
(* Everything rests on CacheInv(c, h), which says of a value c of the      *)
(* cache and the number h[n] of gets of every node n that were not         *)
(* released what the calls rely on.  Each operation of LRU is shown to     *)
(* keep it, as a function of c; LRUInv then says who has which lock, and   *)
(* that what a call found is still so when it goes on.                     *)
(***************************************************************************)
EXTENDS LRU, ListLemmas, FiniteSetTheorems

CacheSet ==
    [nodes : [Shards -> Seq(Nat)], index : [Keys -> Nat], garbage_station : [Keys -> Nat],
     heap : Seq(Node)]

\* The list of a shard has exactly its nodes that are in the cache.
Linked(c, s) ==
    /\ IsInjective(c.nodes[s])
    /\ ToSet(c.nodes[s]) = {n \in 1 .. Len(c.heap) : c.heap[n].in_cache /\ Shard(c, n) = s}

\* The index has a node of the key; the cached node of a key is its youngest.
Indexed(c) ==
    /\ \A k \in Keys : c.index[k] # NoNode =>
           /\ c.index[k] \in 1 .. Len(c.heap)
           /\ c.heap[c.index[k]].key = k
           /\ c.heap[c.index[k]].in_cache
    /\ \A n \in 1 .. Len(c.heap) : c.heap[n].in_cache =>
           /\ c.index[c.heap[n].key] = n
           /\ \A m \in 1 .. Len(c.heap) : c.heap[m].key = c.heap[n].key => m <= n

Counted(c, h) ==
    \A n \in 1 .. Len(c.heap) :
        /\ c.heap[n].ref_cnt = h[n] + (IF c.heap[n].in_cache THEN 1 ELSE 0)
        /\ c.heap[n].freed <=> c.heap[n].ref_cnt = 0

Kept(c, h) ==
    /\ \A k \in Keys : c.garbage_station[k] # NoNode =>
           /\ c.garbage_station[k] \in 1 .. Len(c.heap)
           /\ c.heap[c.garbage_station[k]].key = k
           /\ ~c.heap[c.garbage_station[k]].in_cache
           /\ ~c.heap[c.garbage_station[k]].freed
    /\ \A n \in 1 .. Len(c.heap) : ~c.heap[n].in_cache /\ h[n] > 0 =>
           \/ c.garbage_station[c.heap[n].key] = n
           \/ \E m \in 1 .. Len(c.heap) : m > n /\ c.heap[m].key = c.heap[n].key

CacheInv(c, h) ==
    /\ c \in CacheSet
    /\ \A s \in Shards : Linked(c, s)
    /\ Indexed(c)
    /\ Counted(c, h)
    /\ Kept(c, h)

Counts == [n \in Ids |-> Holders(n)]

\* The last one of a list that is too long goes.
Capped(l) == IF Len(l) > cap THEN Front(l) ELSE l

CallSet == [op : Ops, key : Keys, found : Nat]

\* The users in a call.
Active == {u \in Users : call[u] # Idle}

ControlOK ==
    /\ locker \in [Shards -> Users \cup {NoUser}]
    /\ call \in [Users -> {Idle} \cup CallSet]
    /\ held \in [Users -> [Ids -> Nat]]
    /\ calls \in 0 .. MaxCalls

\* A user in a call has the lock of the shard, the node it found is still
\* the one in the index, and a user that releases a node has it.
LocksHeld ==
    \A u \in Active :
        /\ locker[ShardOf[call[u].key]] = u
        /\ call[u].found = cache.index[call[u].key]
        /\ call[u].op = "release" =>
              call[u].found # NoNode /\ held[u][call[u].found] > 0

\* A call makes at most one node, and nobody has got a node that is not
\* there yet.
Bounded ==
    /\ IsFiniteSet(Active)
    /\ Len(cache.heap) + Cardinality(Active) <= calls
    /\ \A n \in Ids : IsFiniteSet(Gets(n))
    /\ \A u \in Users, n \in Ids : n > Len(cache.heap) => held[u][n] = 0

LRUInv ==
    /\ CacheInv(cache, Counts)
    /\ \A s \in Shards : Len(cache.nodes[s]) <= cap
    /\ ControlOK
    /\ LocksHeld
    /\ Bounded

(***************************************************************************)
(* What each operation does, field by field.                               *)
(***************************************************************************)

\* Changing one node leaves the other ones alone.
LEMMA HeapExcept ==
    ASSUME NEW h \in Seq(Node), NEW n \in 1 .. Len(h), NEW x \in Node, NEW g,
           g = [h EXCEPT ![n] = x]
    PROVE  /\ g \in Seq(Node)
           /\ Len(g) = Len(h)
           /\ g[n] = x
           /\ \A m \in 1 .. Len(h) : m # n => g[m] = h[m]
  BY ExceptSeq

\* LRU::ref counts one up.
LEMMA RefFields ==
    ASSUME NEW c \in CacheSet, NEW n \in 1 .. Len(c.heap), NEW d, d = Ref(c, n)
    PROVE  /\ d \in CacheSet
           /\ d.nodes = c.nodes
           /\ d.index = c.index
           /\ d.garbage_station = c.garbage_station
           /\ Len(d.heap) = Len(c.heap)
           /\ \A m \in 1 .. Len(c.heap) : m # n => d.heap[m] = c.heap[m]
           /\ d.heap[n].key = c.heap[n].key
           /\ d.heap[n].ref_cnt = c.heap[n].ref_cnt + 1
           /\ d.heap[n].in_cache <=> c.heap[n].in_cache
           /\ d.heap[n].freed <=> c.heap[n].freed
<1>0. c.heap \in Seq(Node) /\ c.heap[n] \in Node
  BY DEF CacheSet
<1>1. d.nodes = c.nodes /\ d.index = c.index /\ d.garbage_station = c.garbage_station
  BY DEF Ref, CacheSet, Node
<1> DEFINE x == [c.heap[n] EXCEPT !.ref_cnt = c.heap[n].ref_cnt + 1]
<1>2. d.heap = [c.heap EXCEPT ![n] = x]
  BY DEF Ref, CacheSet, Node
<1>3. /\ x \in Node
      /\ x.key = c.heap[n].key
      /\ x.ref_cnt = c.heap[n].ref_cnt + 1
      /\ x.in_cache <=> c.heap[n].in_cache
      /\ x.freed <=> c.heap[n].freed
  BY <1>0 DEF Node
<1> HIDE DEF x
<1>4. /\ d.heap \in Seq(Node)
      /\ Len(d.heap) = Len(c.heap)
      /\ d.heap[n] = x
      /\ \A m \in 1 .. Len(c.heap) : m # n => d.heap[m] = c.heap[m]
  BY <1>0, <1>2, <1>3, HeapExcept
<1>5. d \in CacheSet
  BY <1>4 DEF Ref, CacheSet
<1> QED BY <1>1, <1>3, <1>4, <1>5

\* LRU::unref counts one down; at 0 it deletes the node.
LEMMA UnrefFields ==
    ASSUME NEW c \in CacheSet, NEW n \in 1 .. Len(c.heap), c.heap[n].ref_cnt > 0,
           NEW d, d = Unref(c, n)
    PROVE  /\ d \in CacheSet
           /\ d.nodes = c.nodes
           /\ d.index = c.index
           /\ \A k \in Keys : d.garbage_station[k] =
                 IF k = c.heap[n].key /\ c.heap[n].ref_cnt = 1 THEN NoNode ELSE c.garbage_station[k]
           /\ Len(d.heap) = Len(c.heap)
           /\ \A m \in 1 .. Len(c.heap) : m # n => d.heap[m] = c.heap[m]
           /\ d.heap[n].key = c.heap[n].key
           /\ d.heap[n].ref_cnt = c.heap[n].ref_cnt - 1
           /\ d.heap[n].in_cache <=> c.heap[n].in_cache
           /\ d.heap[n].freed <=> c.heap[n].freed \/ c.heap[n].ref_cnt = 1
<1>0. c.heap \in Seq(Node) /\ c.heap[n] \in Node
  BY DEF CacheSet
<1> DEFINE left == c.heap[n].ref_cnt - 1
           x == [c.heap[n] EXCEPT !.ref_cnt = left, !.freed = @ \/ left <= 0]
<1>1. left \in Nat /\ (left <= 0 <=> c.heap[n].ref_cnt = 1)
  <2>1. c.heap[n].ref_cnt \in Nat
    BY <1>0 DEF Node
  <2> QED BY <2>1
<1>2. d.nodes = c.nodes /\ d.index = c.index
  BY DEF Unref, CacheSet, Node
<1>3. d.heap = [c.heap EXCEPT ![n] = x]
  BY DEF Unref, CacheSet, Node
<1>4. d.garbage_station = [c.garbage_station EXCEPT ![c.heap[n].key] =
                              IF left <= 0 THEN NoNode ELSE @]
  BY DEF Unref, CacheSet, Node
<1>5. d.garbage_station \in [Keys -> Nat]
  <2>1. c.garbage_station \in [Keys -> Nat] /\ NoNode \in Nat
    BY DEF CacheSet, NoNode
  <2> QED BY <1>4, <2>1
<1>6. /\ x \in Node
      /\ x.key = c.heap[n].key
      /\ x.ref_cnt = left
      /\ x.in_cache <=> c.heap[n].in_cache
      /\ x.freed <=> c.heap[n].freed \/ left <= 0
  BY <1>0, <1>1 DEF Node
<1> HIDE DEF x
<1>7. /\ d.heap \in Seq(Node)
      /\ Len(d.heap) = Len(c.heap)
      /\ d.heap[n] = x
      /\ \A m \in 1 .. Len(c.heap) : m # n => d.heap[m] = c.heap[m]
  BY <1>0, <1>3, <1>6, HeapExcept
<1>8. d \in CacheSet
  BY <1>2, <1>5, <1>7 DEF Unref, CacheSet
<1>9. \A k \in Keys : d.garbage_station[k] =
         IF k = c.heap[n].key /\ c.heap[n].ref_cnt = 1 THEN NoNode ELSE c.garbage_station[k]
  BY <1>1, <1>4 DEF CacheSet
<1> QED BY <1>1, <1>2, <1>6, <1>7, <1>8, <1>9

\* d is c without the node n in list and index.
Erased(c, n, d) ==
    /\ d.nodes = [c.nodes EXCEPT ![Shard(c, n)] = RemoveFirst(c.nodes[Shard(c, n)], n)]
    /\ d.index = [c.index EXCEPT ![c.heap[n].key] = NoNode]
    /\ \A k \in Keys : d.garbage_station[k] =
          IF k # c.heap[n].key THEN c.garbage_station[k]
          ELSE IF c.heap[n].ref_cnt = 1 THEN NoNode ELSE n
    /\ Len(d.heap) = Len(c.heap)
    /\ \A m \in 1 .. Len(c.heap) : m # n => d.heap[m] = c.heap[m]
    /\ d.heap[n].key = c.heap[n].key
    /\ d.heap[n].ref_cnt = c.heap[n].ref_cnt - 1
    /\ ~d.heap[n].in_cache
    /\ d.heap[n].freed <=> c.heap[n].freed \/ c.heap[n].ref_cnt = 1

\* LRU::phantom_erase_node takes the node out of list and index.
LEMMA PhantomEraseFields ==
    ASSUME NEW c \in CacheSet, NEW n \in 1 .. Len(c.heap), c.heap[n].ref_cnt > 0,
           RemoveFirst(c.nodes[Shard(c, n)], n) \in Seq(Nat),
           NEW d, d = PhantomEraseNode(c, n)
    PROVE  d \in CacheSet /\ Erased(c, n, d)
<1> DEFINE rest == RemoveFirst(c.nodes[Shard(c, n)], n)
           x == [c.heap[n] EXCEPT !.in_cache = FALSE]
           b == [c EXCEPT !.heap[n].in_cache = FALSE,
                          !.nodes[Shard(c, n)] = RemoveFirst(@, n),
                          !.index[c.heap[n].key] = NoNode,
                          !.garbage_station[c.heap[n].key] = n]
<1>0. c.heap \in Seq(Node) /\ c.heap[n] \in Node
  BY DEF CacheSet
<1>1. c.heap[n].key \in Keys /\ n \in Nat
  BY <1>0 DEF Node
<1>2. Shard(c, n) \in Shards
  BY <1>1, CacheAssumption DEF Shard
<1>3. b.nodes = [c.nodes EXCEPT ![Shard(c, n)] = rest]
  BY DEF CacheSet, Node
<1>4. b.index = [c.index EXCEPT ![c.heap[n].key] = NoNode]
  BY DEF CacheSet, Node
<1>5. b.garbage_station = [c.garbage_station EXCEPT ![c.heap[n].key] = n]
  BY DEF CacheSet, Node
<1>6. b.heap = [c.heap EXCEPT ![n] = x]
  BY DEF CacheSet, Node
<1>7. /\ x \in Node
      /\ x.key = c.heap[n].key
      /\ x.ref_cnt = c.heap[n].ref_cnt
      /\ ~x.in_cache
      /\ x.freed <=> c.heap[n].freed
  BY <1>0 DEF Node
<1> HIDE DEF x
<1>8. /\ b.heap \in Seq(Node)
      /\ Len(b.heap) = Len(c.heap)
      /\ b.heap[n] = x
      /\ \A m \in 1 .. Len(c.heap) : m # n => b.heap[m] = c.heap[m]
  <2> HIDE DEF b
  <2> QED BY <1>0, <1>6, <1>7, HeapExcept
<1>9. b \in CacheSet
  <2>1. b.nodes \in [Shards -> Seq(Nat)] /\ b.index \in [Keys -> Nat]
    BY <1>2, <1>3, <1>4 DEF CacheSet, NoNode
  <2>2. b.garbage_station \in [Keys -> Nat]
    BY <1>1, <1>5 DEF CacheSet
  <2> QED BY <1>8, <2>1, <2>2 DEF CacheSet
<1>10. d = Unref(b, n)
  BY DEF PhantomEraseNode
<1> HIDE DEF b
<1>11. /\ d \in CacheSet
       /\ d.nodes = b.nodes
       /\ d.index = b.index
       /\ \A k \in Keys : d.garbage_station[k] =
             IF k = b.heap[n].key /\ b.heap[n].ref_cnt = 1 THEN NoNode ELSE b.garbage_station[k]
       /\ Len(d.heap) = Len(b.heap)
       /\ \A m \in 1 .. Len(b.heap) : m # n => d.heap[m] = b.heap[m]
       /\ d.heap[n].key = b.heap[n].key
       /\ d.heap[n].ref_cnt = b.heap[n].ref_cnt - 1
       /\ d.heap[n].in_cache <=> b.heap[n].in_cache
       /\ d.heap[n].freed <=> b.heap[n].freed \/ b.heap[n].ref_cnt = 1
  <2>1. n \in 1 .. Len(b.heap) /\ b.heap[n].ref_cnt > 0
    BY <1>7, <1>8
  <2> QED BY <1>9, <1>10, <2>1, UnrefFields
<1>12. \A k \in Keys : d.garbage_station[k] =
         IF k # c.heap[n].key THEN c.garbage_station[k]
         ELSE IF c.heap[n].ref_cnt = 1 THEN NoNode ELSE n
  <2>1. c.garbage_station \in [Keys -> Nat]
    BY DEF CacheSet
  <2>2. b.heap[n].key = c.heap[n].key /\ b.heap[n].ref_cnt = c.heap[n].ref_cnt
    BY <1>7, <1>8
  <2> QED BY <1>1, <1>5, <1>11, <2>1, <2>2
<1>13. /\ Len(d.heap) = Len(c.heap)
       /\ \A m \in 1 .. Len(c.heap) : m # n => d.heap[m] = c.heap[m]
  BY <1>8, <1>11
<1> QED BY <1>3, <1>4, <1>7, <1>8, <1>11, <1>12, <1>13 DEF Erased

\* nodes.splice changes the list of one shard only.
LEMMA ToFrontFields ==
    ASSUME NEW c \in CacheSet, NEW n \in 1 .. Len(c.heap),
           RemoveFirst(c.nodes[Shard(c, n)], n) \in Seq(Nat),
           NEW d, d = ToFront(c, n)
    PROVE  /\ d \in CacheSet
           /\ d.nodes = [c.nodes EXCEPT ![Shard(c, n)] =
                             <<n>> \o RemoveFirst(c.nodes[Shard(c, n)], n)]
           /\ d.index = c.index
           /\ d.garbage_station = c.garbage_station
           /\ d.heap = c.heap
<1>1. d.nodes = [c.nodes EXCEPT ![Shard(c, n)] = <<n>> \o RemoveFirst(c.nodes[Shard(c, n)], n)]
  BY DEF ToFront, CacheSet
<1>2. d.index = c.index /\ d.garbage_station = c.garbage_station /\ d.heap = c.heap
  BY DEF ToFront, CacheSet
<1>3. <<n>> \o RemoveFirst(c.nodes[Shard(c, n)], n) \in Seq(Nat)
  BY ConsProperties
<1>4. d.nodes \in [Shards -> Seq(Nat)]
  <2> HIDE DEF ToFront
  <2> QED BY <1>1, <1>3 DEF CacheSet
<1>5. d \in CacheSet
  BY <1>4 DEF ToFront, CacheSet
<1> QED BY <1>1, <1>2, <1>5

\* insert's new node, before the eviction.
Pushed(c, k) ==
    [c EXCEPT !.heap = Append(@, NewNode(k)),
              !.nodes[ShardOf[k]] = <<Len(c.heap) + 1>> \o @,
              !.index[k] = Len(c.heap) + 1]

\* What pushing a new node does to each part of the cache.
LEMMA PushedFields ==
    ASSUME NEW c \in CacheSet, NEW k \in Keys, NEW d, d = Pushed(c, k),
           NEW n, n = Len(c.heap) + 1
    PROVE  /\ d \in CacheSet
           /\ \A s \in Shards : d.nodes[s] =
                 IF s = ShardOf[k] THEN <<n>> \o c.nodes[s] ELSE c.nodes[s]
           /\ \A x \in Keys : d.index[x] = IF x = k THEN n ELSE c.index[x]
           /\ d.garbage_station = c.garbage_station
           /\ Len(d.heap) = n
           /\ \A m \in 1 .. Len(c.heap) : d.heap[m] = c.heap[m]
           /\ d.heap[n] = NewNode(k)
<1>0. c.heap \in Seq(Node) /\ Len(c.heap) \in Nat /\ n \in Nat
  BY DEF CacheSet
<1>1. d.nodes = [c.nodes EXCEPT ![ShardOf[k]] = <<n>> \o c.nodes[ShardOf[k]]]
  BY DEF Pushed, CacheSet
<1>2. d.index = [c.index EXCEPT ![k] = n] /\ d.garbage_station = c.garbage_station
  BY DEF Pushed, CacheSet
<1>3. d.heap = Append(c.heap, NewNode(k))
  BY DEF Pushed, CacheSet
<1>4. NewNode(k) \in Node
  BY DEF NewNode, Node
<1>5. /\ d.heap \in Seq(Node)
      /\ Len(d.heap) = n
      /\ \A m \in 1 .. Len(c.heap) : d.heap[m] = c.heap[m]
      /\ d.heap[n] = NewNode(k)
  BY <1>0, <1>3, <1>4, AppendProperties
<1>6. ShardOf[k] \in Shards
  BY CacheAssumption
<1>7. <<n>> \o c.nodes[ShardOf[k]] \in Seq(Nat)
  BY <1>0, <1>6, ConsProperties DEF CacheSet
<1>8. d.nodes \in [Shards -> Seq(Nat)] /\ d.index \in [Keys -> Nat]
  <2> HIDE DEF Pushed
  <2> QED BY <1>0, <1>1, <1>2, <1>7 DEF CacheSet
<1>9. d \in CacheSet
  BY <1>5, <1>8 DEF Pushed, CacheSet
<1>10. \A s \in Shards : d.nodes[s] = IF s = ShardOf[k] THEN <<n>> \o c.nodes[s] ELSE c.nodes[s]
  BY <1>1 DEF CacheSet
<1>11. \A x \in Keys : d.index[x] = IF x = k THEN n ELSE c.index[x]
  BY <1>2 DEF CacheSet
<1> QED BY <1>2, <1>5, <1>9, <1>10, <1>11

(***************************************************************************)
(* Each operation keeps CacheInv.                                          *)
(***************************************************************************)

\* A node and its key.
LEMMA NodeType ==
    ASSUME NEW c \in CacheSet, NEW n \in 1 .. Len(c.heap)
    PROVE  c.heap[n] \in Node /\ c.heap[n].key \in Keys
<1>1. c.heap[n] \in Node
  BY DEF CacheSet
<1> QED BY <1>1 DEF Node

\* The list of a node that is in the cache.
LEMMA InList ==
    ASSUME NEW c, NEW h, CacheInv(c, h), NEW n \in 1 .. Len(c.heap), c.heap[n].in_cache
    PROVE  /\ c.heap[n].key \in Keys
           /\ Shard(c, n) \in Shards
           /\ c.nodes[Shard(c, n)] \in Seq(Nat)
           /\ n \in ToSet(c.nodes[Shard(c, n)])
           /\ IsInjective(c.nodes[Shard(c, n)])
<1>1. c \in CacheSet /\ \A s \in Shards : Linked(c, s)
  BY DEF CacheInv
<1>2. c.heap[n] \in Node
  BY <1>1 DEF CacheSet
<1>3. c.heap[n].key \in Keys
  BY <1>2 DEF Node
<1>4. Shard(c, n) \in Shards
  BY <1>3, CacheAssumption DEF Shard
<1> QED BY <1>1, <1>3, <1>4 DEF Linked, CacheSet

\* get moves the node it found to the front.
LEMMA ToFrontKeeps ==
    ASSUME NEW c, NEW h, CacheInv(c, h), NEW n \in 1 .. Len(c.heap), c.heap[n].in_cache,
           NEW d, d = ToFront(c, n)
    PROVE  /\ CacheInv(d, h)
           /\ \A s \in Shards : Len(d.nodes[s]) = Len(c.nodes[s])
           /\ d.heap = c.heap
           /\ d.index = c.index
<1> DEFINE sh == Shard(c, n)
           rest == RemoveFirst(c.nodes[sh], n)
<1>0. c \in CacheSet
  BY DEF CacheInv
<1>1. /\ sh \in Shards
      /\ c.nodes[sh] \in Seq(Nat)
      /\ n \in ToSet(c.nodes[sh])
      /\ IsInjective(c.nodes[sh])
  BY InList
<1>2. /\ rest \in Seq(Nat)
      /\ Len(rest) = Len(c.nodes[sh]) - 1
      /\ ToSet(rest) = ToSet(c.nodes[sh]) \ {n}
      /\ IsInjective(rest)
  BY <1>1, RemoveFirstProperties
<1> HIDE DEF rest
<1>3. /\ <<n>> \o rest \in Seq(Nat)
      /\ Len(<<n>> \o rest) = Len(c.nodes[sh])
      /\ ToSet(<<n>> \o rest) = ToSet(c.nodes[sh])
      /\ IsInjective(<<n>> \o rest)
  <2>1. n \in Nat /\ n \notin ToSet(rest) /\ Len(c.nodes[sh]) \in Nat
    BY <1>1, <1>2
  <2>2. /\ <<n>> \o rest \in Seq(Nat)
        /\ Len(<<n>> \o rest) = Len(rest) + 1
        /\ ToSet(<<n>> \o rest) = ToSet(rest) \cup {n}
        /\ IsInjective(<<n>> \o rest)
    BY <1>2, <2>1, PushProperties
  <2>3. ToSet(<<n>> \o rest) = ToSet(c.nodes[sh])
    BY <1>1, <1>2, <2>2
  <2>4. Len(<<n>> \o rest) = Len(c.nodes[sh])
    BY <1>2, <2>1, <2>2
  <2> QED BY <2>2, <2>3, <2>4
<1>4. /\ d \in CacheSet
      /\ d.nodes = [c.nodes EXCEPT ![sh] = <<n>> \o rest]
      /\ d.index = c.index
      /\ d.garbage_station = c.garbage_station
      /\ d.heap = c.heap
  BY <1>0, <1>2, ToFrontFields DEF rest
<1>5. \A s \in Shards : d.nodes[s] = IF s = sh THEN <<n>> \o rest ELSE c.nodes[s]
  BY <1>0, <1>4 DEF CacheSet
<1>6. \A s \in Shards : Linked(d, s)
  BY <1>3, <1>4, <1>5 DEF CacheInv, Linked, Shard
<1>7. Indexed(d) /\ Counted(d, h) /\ Kept(d, h)
  BY <1>4 DEF CacheInv, Indexed, Counted, Kept
<1> QED BY <1>3, <1>4, <1>5, <1>6, <1>7 DEF CacheInv

\* get counts itself; h becomes g.
LEMMA RefKeeps ==
    ASSUME NEW c, NEW h \in [Ids -> Nat], CacheInv(c, h), NEW n \in 1 .. Len(c.heap),
           Len(c.heap) <= MaxCalls, c.heap[n].in_cache, NEW d, d = Ref(c, n),
           NEW g, g = OneMore(h, n)
    PROVE  /\ CacheInv(d, g)
           /\ d.nodes = c.nodes
           /\ d.index = c.index
           /\ Len(d.heap) = Len(c.heap)
           /\ \A m \in 1 .. Len(c.heap) : d.heap[m].key = c.heap[m].key
<1>0. c \in CacheSet
  BY DEF CacheInv
<1>1. /\ d \in CacheSet
      /\ d.nodes = c.nodes
      /\ d.index = c.index
      /\ d.garbage_station = c.garbage_station
      /\ Len(d.heap) = Len(c.heap)
      /\ \A m \in 1 .. Len(c.heap) : m # n => d.heap[m] = c.heap[m]
      /\ d.heap[n].key = c.heap[n].key
      /\ d.heap[n].ref_cnt = c.heap[n].ref_cnt + 1
      /\ d.heap[n].in_cache <=> c.heap[n].in_cache
      /\ d.heap[n].freed <=> c.heap[n].freed
  BY <1>0, RefFields
<1>2. \A m \in 1 .. Len(c.heap) :
         /\ d.heap[m].key = c.heap[m].key
         /\ d.heap[m].in_cache <=> c.heap[m].in_cache
         /\ d.heap[m].freed <=> c.heap[m].freed
         /\ d.heap[m].ref_cnt = IF m = n THEN c.heap[m].ref_cnt + 1 ELSE c.heap[m].ref_cnt
  BY <1>1
<1>3. \A m \in 1 .. Len(c.heap) : m \in Ids /\ h[m] \in Nat /\ g[m] = IF m = n THEN h[m] + 1 ELSE h[m]
  <2>1. Len(c.heap) \in Nat
    BY <1>0 DEF CacheSet
  <2> QED BY <2>1, CacheAssumption DEF Ids, OneMore
<1>4. \A s \in Shards : Linked(d, s)
  BY <1>1, <1>2 DEF CacheInv, Linked, Shard
<1>5. Indexed(d)
  BY <1>1, <1>2 DEF CacheInv, Indexed
<1>6. Counted(d, g)
  <2>1. Counted(c, h)
    BY DEF CacheInv
  <2>2. n \in 1 .. Len(c.heap) /\ c.heap[n].ref_cnt = h[n] + 1 /\ ~c.heap[n].freed
    BY <1>3, <2>1 DEF Counted
  <2> QED BY <1>1, <1>2, <1>3, <2>1, <2>2 DEF Counted
<1>7. Kept(d, g)
  <2>1. Kept(c, h)
    BY DEF CacheInv
  <2>2. \A m \in 1 .. Len(c.heap) : ~c.heap[m].in_cache /\ g[m] > 0 => h[m] > 0
    BY <1>3
  <2> QED BY <1>1, <1>2, <2>1, <2>2 DEF Kept
<1> QED BY <1>1, <1>2, <1>4, <1>5, <1>6, <1>7 DEF CacheInv

\* release takes one get back; the cache's own reference remains, so the
\* node is not deleted.
LEMMA UnrefKeeps ==
    ASSUME NEW c, NEW h \in [Ids -> Nat], CacheInv(c, h), NEW n \in 1 .. Len(c.heap),
           Len(c.heap) <= MaxCalls, c.heap[n].in_cache, h[n] > 0, NEW d, d = Unref(c, n),
           NEW g, g = OneLess(h, n)
    PROVE  /\ CacheInv(d, g)
           /\ d.nodes = c.nodes
           /\ d.index = c.index
           /\ Len(d.heap) = Len(c.heap)
           /\ \A m \in 1 .. Len(c.heap) : d.heap[m].key = c.heap[m].key
<1>0. c \in CacheSet /\ Counted(c, h) /\ Kept(c, h)
  BY DEF CacheInv
<1>1. \A m \in 1 .. Len(c.heap) : m \in Ids /\ h[m] \in Nat /\ g[m] = IF m = n THEN h[m] - 1 ELSE h[m]
  <2>1. Len(c.heap) \in Nat
    BY <1>0 DEF CacheSet
  <2> QED BY <2>1, CacheAssumption DEF Ids, OneLess
<1>2. /\ c.heap[n].ref_cnt = h[n] + 1
      /\ c.heap[n].ref_cnt > 0
      /\ c.heap[n].ref_cnt # 1
      /\ ~c.heap[n].freed
  BY <1>0, <1>1 DEF Counted
<1>3. /\ d \in CacheSet
      /\ d.nodes = c.nodes
      /\ d.index = c.index
      /\ \A k \in Keys : d.garbage_station[k] =
            IF k = c.heap[n].key /\ c.heap[n].ref_cnt = 1 THEN NoNode ELSE c.garbage_station[k]
      /\ Len(d.heap) = Len(c.heap)
      /\ \A m \in 1 .. Len(c.heap) : m # n => d.heap[m] = c.heap[m]
      /\ d.heap[n].key = c.heap[n].key
      /\ d.heap[n].ref_cnt = c.heap[n].ref_cnt - 1
      /\ d.heap[n].in_cache <=> c.heap[n].in_cache
      /\ d.heap[n].freed <=> c.heap[n].freed \/ c.heap[n].ref_cnt = 1
  BY <1>0, <1>2, UnrefFields
<1>4. \A k \in Keys : d.garbage_station[k] = c.garbage_station[k]
  BY <1>2, <1>3
<1>5. \A m \in 1 .. Len(c.heap) :
         /\ d.heap[m].key = c.heap[m].key
         /\ d.heap[m].in_cache <=> c.heap[m].in_cache
         /\ d.heap[m].freed <=> c.heap[m].freed
         /\ d.heap[m].ref_cnt = IF m = n THEN c.heap[m].ref_cnt - 1 ELSE c.heap[m].ref_cnt
  BY <1>2, <1>3
<1>6. \A s \in Shards : Linked(d, s)
  BY <1>3, <1>5 DEF CacheInv, Linked, Shard
<1>7. Indexed(d)
  BY <1>3, <1>5 DEF CacheInv, Indexed
<1>8. Counted(d, g)
  <2>1. Counted(c, h) /\ Len(d.heap) = Len(c.heap)
    BY <1>0, <1>3
  <2> SUFFICES ASSUME NEW m \in 1 .. Len(c.heap)
               PROVE  /\ d.heap[m].ref_cnt = g[m] + (IF d.heap[m].in_cache THEN 1 ELSE 0)
                      /\ d.heap[m].freed <=> d.heap[m].ref_cnt = 0
    BY <2>1 DEF Counted
  <2>2. CASE m = n
    BY <1>1, <1>2, <1>5, <2>2
  <2>3. CASE m # n
    BY <1>1, <1>5, <2>1, <2>3 DEF Counted
  <2> QED BY <2>2, <2>3
<1>9. Kept(d, g)
  <2>1. \A m \in 1 .. Len(c.heap) : ~c.heap[m].in_cache /\ g[m] > 0 => h[m] > 0
    BY <1>1
  <2>2. \A m \in 1 .. Len(c.heap) : c.heap[m].key \in Keys
    BY <1>0, NodeType
  <2>3. ASSUME NEW k \in Keys, d.garbage_station[k] # NoNode
        PROVE  LET x == d.garbage_station[k] IN
               /\ x \in 1 .. Len(d.heap)
               /\ d.heap[x].key = k
               /\ ~d.heap[x].in_cache
               /\ ~d.heap[x].freed
    <3>1. /\ c.garbage_station[k] \in 1 .. Len(c.heap)
          /\ c.heap[c.garbage_station[k]].key = k
          /\ ~c.heap[c.garbage_station[k]].in_cache
          /\ ~c.heap[c.garbage_station[k]].freed
      BY <1>0, <1>4, <2>3 DEF Kept
    <3> QED BY <1>3, <1>4, <1>5, <3>1
  <2>4. ASSUME NEW m \in 1 .. Len(c.heap), ~d.heap[m].in_cache, g[m] > 0
        PROVE  \/ d.garbage_station[d.heap[m].key] = m
               \/ \E x \in 1 .. Len(c.heap) : x > m /\ d.heap[x].key = d.heap[m].key
    <3>1. \/ c.garbage_station[c.heap[m].key] = m
          \/ \E x \in 1 .. Len(c.heap) : x > m /\ c.heap[x].key = c.heap[m].key
      BY <1>0, <1>5, <2>1, <2>4 DEF Kept
    <3> QED BY <1>4, <1>5, <2>2, <3>1
  <2> QED BY <1>3, <2>3, <2>4 DEF Kept
<1> QED BY <1>3, <1>5, <1>6, <1>7, <1>8, <1>9 DEF CacheInv

\* A node leaves the cache: the gets keep it, or it is deleted.
LEMMA PhantomEraseKeeps ==
    ASSUME NEW c, NEW h \in [Ids -> Nat], CacheInv(c, h), NEW n \in 1 .. Len(c.heap),
           Len(c.heap) <= MaxCalls, c.heap[n].in_cache, NEW d, d = PhantomEraseNode(c, n)
    PROVE  /\ CacheInv(d, h)
           /\ \A s \in Shards : d.nodes[s] =
                 IF s = Shard(c, n) THEN RemoveFirst(c.nodes[s], n) ELSE c.nodes[s]
           /\ Len(d.nodes[Shard(c, n)]) = Len(c.nodes[Shard(c, n)]) - 1
           /\ \A k \in Keys : d.index[k] = IF k = c.heap[n].key THEN NoNode ELSE c.index[k]
           /\ Len(d.heap) = Len(c.heap)
           /\ \A m \in 1 .. Len(c.heap) : d.heap[m].key = c.heap[m].key
<1> DEFINE sh == Shard(c, n)
           key == c.heap[n].key
           rest == RemoveFirst(c.nodes[sh], n)
<1>0. c \in CacheSet /\ Counted(c, h) /\ Kept(c, h) /\ Indexed(c)
  BY DEF CacheInv
<1>1. /\ key \in Keys
      /\ sh \in Shards
      /\ c.nodes[sh] \in Seq(Nat)
      /\ n \in ToSet(c.nodes[sh])
      /\ IsInjective(c.nodes[sh])
  BY InList
<1>2. /\ rest \in Seq(Nat)
      /\ Len(rest) = Len(c.nodes[sh]) - 1
      /\ ToSet(rest) = ToSet(c.nodes[sh]) \ {n}
      /\ IsInjective(rest)
  BY <1>1, RemoveFirstProperties
<1> HIDE DEF rest
<1>3. \A m \in 1 .. Len(c.heap) : m \in Ids /\ h[m] \in Nat
  <2>1. Len(c.heap) \in Nat
    BY <1>0 DEF CacheSet
  <2> QED BY <2>1, CacheAssumption DEF Ids
<1>4. c.heap[n].ref_cnt = h[n] + 1 /\ c.heap[n].ref_cnt > 0 /\ ~c.heap[n].freed
  BY <1>0, <1>3 DEF Counted
<1>5. /\ d \in CacheSet
      /\ d.nodes = [c.nodes EXCEPT ![sh] = rest]
      /\ d.index = [c.index EXCEPT ![key] = NoNode]
      /\ \A k \in Keys : d.garbage_station[k] =
            IF k # key THEN c.garbage_station[k]
            ELSE IF c.heap[n].ref_cnt = 1 THEN NoNode ELSE n
      /\ Len(d.heap) = Len(c.heap)
      /\ \A m \in 1 .. Len(c.heap) : m # n => d.heap[m] = c.heap[m]
      /\ d.heap[n].key = key
      /\ d.heap[n].ref_cnt = c.heap[n].ref_cnt - 1
      /\ ~d.heap[n].in_cache
      /\ d.heap[n].freed <=> c.heap[n].freed \/ c.heap[n].ref_cnt = 1
  <2>1. RemoveFirst(c.nodes[Shard(c, n)], n) \in Seq(Nat)
    BY <1>2 DEF rest
  <2>2. c \in CacheSet /\ c.heap[n].ref_cnt > 0
    BY <1>0, <1>4
  <2>3. d \in CacheSet /\ Erased(c, n, d)
    BY <2>1, <2>2, PhantomEraseFields
  <2> QED BY <2>3 DEF Erased, rest
<1>6. \A m \in 1 .. Len(c.heap) :
         /\ d.heap[m].key = c.heap[m].key
         /\ d.heap[m].in_cache <=> m # n /\ c.heap[m].in_cache
         /\ d.heap[m].freed <=> IF m = n THEN h[n] = 0 ELSE c.heap[m].freed
         /\ d.heap[m].ref_cnt = IF m = n THEN h[n] ELSE c.heap[m].ref_cnt
  BY <1>3, <1>4, <1>5
<1>7. \A s \in Shards : Linked(d, s)
  <2> SUFFICES ASSUME NEW s \in Shards
               PROVE  /\ IsInjective(d.nodes[s])
                      /\ ToSet(d.nodes[s]) =
                            {m \in 1 .. Len(d.heap) : d.heap[m].in_cache /\ Shard(d, m) = s}
    BY DEF Linked
  <2>1. d.nodes[s] = IF s = sh THEN rest ELSE c.nodes[s]
    BY <1>0, <1>5 DEF CacheSet
  <2>2. {m \in 1 .. Len(d.heap) : d.heap[m].in_cache /\ Shard(d, m) = s}
          = {m \in 1 .. Len(c.heap) : c.heap[m].in_cache /\ Shard(c, m) = s} \ {n}
    BY <1>5, <1>6 DEF Shard
  <2>3. Linked(c, s)
    BY DEF CacheInv
  <2>4. CASE s = sh
    BY <1>2, <2>1, <2>2, <2>3, <2>4 DEF Linked
  <2>5. CASE s # sh
    BY <2>1, <2>2, <2>3, <2>5 DEF Linked
  <2> QED BY <2>4, <2>5
<1>8. Indexed(d)
  <2>1. \A k \in Keys : d.index[k] = IF k = key THEN NoNode ELSE c.index[k]
    BY <1>0, <1>5 DEF CacheSet
  <2>2. ASSUME NEW k \in Keys, d.index[k] # NoNode
        PROVE  d.index[k] \in 1 .. Len(d.heap) /\ d.heap[d.index[k]].key = k
               /\ d.heap[d.index[k]].in_cache
    <3>1. k # key /\ d.index[k] = c.index[k]
      BY <2>1, <2>2
    <3>2. c.index[k] \in 1 .. Len(c.heap) /\ c.heap[c.index[k]].key = k /\ c.heap[c.index[k]].in_cache
      BY <1>0, <2>2, <3>1 DEF Indexed
    <3>3. c.index[k] # n
      BY <3>1, <3>2
    <3> QED BY <1>5, <1>6, <3>1, <3>2, <3>3
  <2>3. ASSUME NEW m \in 1 .. Len(c.heap), d.heap[m].in_cache
        PROVE  d.index[d.heap[m].key] = m
               /\ \A x \in 1 .. Len(c.heap) : d.heap[x].key = d.heap[m].key => x <= m
    <3>1. m # n /\ c.heap[m].in_cache /\ d.heap[m].key = c.heap[m].key
      BY <1>6, <2>3
    <3>2. /\ c.index[c.heap[m].key] = m
          /\ \A x \in 1 .. Len(c.heap) : c.heap[x].key = c.heap[m].key => x <= m
      BY <1>0, <3>1 DEF Indexed
    <3>3. c.heap[m].key # key
      BY <1>0, <3>1, <3>2 DEF Indexed
    <3>4. c.heap[m].key \in Keys
      BY <1>0, NodeType
    <3> QED BY <1>6, <2>1, <3>1, <3>2, <3>3, <3>4
  <2> QED BY <1>5, <2>2, <2>3 DEF Indexed
<1>9. Counted(d, h)
  BY <1>0, <1>3, <1>4, <1>5, <1>6 DEF Counted
<1>10. Kept(d, h)
  <2>1. ASSUME NEW k \in Keys, d.garbage_station[k] # NoNode
        PROVE  LET g == d.garbage_station[k] IN
               /\ g \in 1 .. Len(d.heap)
               /\ d.heap[g].key = k
               /\ ~d.heap[g].in_cache
               /\ ~d.heap[g].freed
    <3>1. CASE k = key
      <4>1. d.garbage_station[k] = n /\ h[n] # 0
        BY <1>3, <1>4, <1>5, <2>1, <3>1
      <4> QED BY <1>5, <1>6, <3>1, <4>1
    <3>2. CASE k # key
      <4>1. d.garbage_station[k] = c.garbage_station[k]
        BY <1>5, <3>2
      <4>2. /\ c.garbage_station[k] \in 1 .. Len(c.heap)
            /\ c.heap[c.garbage_station[k]].key = k
            /\ ~c.heap[c.garbage_station[k]].in_cache
            /\ ~c.heap[c.garbage_station[k]].freed
        BY <1>0, <2>1, <4>1 DEF Kept
      <4> QED BY <1>5, <1>6, <4>1, <4>2
    <3> QED BY <3>1, <3>2
  <2>2. ASSUME NEW m \in 1 .. Len(c.heap), ~d.heap[m].in_cache, h[m] > 0
        PROVE  \/ d.garbage_station[d.heap[m].key] = m
               \/ \E x \in 1 .. Len(c.heap) : x > m /\ d.heap[x].key = d.heap[m].key
    <3>1. CASE m = n
      BY <1>1, <1>3, <1>4, <1>5, <2>2, <3>1
    <3>2. CASE m # n /\ c.heap[m].key = key
      <4>1. m <= n /\ n > m
        BY <1>0, <3>2 DEF Indexed
      <4> QED BY <1>6, <3>2, <4>1
    <3>3. CASE m # n /\ c.heap[m].key # key
      <4>1. c.heap[m].key \in Keys
        BY <1>0, NodeType
      <4>2. d.garbage_station[c.heap[m].key] = c.garbage_station[c.heap[m].key]
        BY <1>5, <3>3, <4>1
      <4>3. \/ c.garbage_station[c.heap[m].key] = m
            \/ \E x \in 1 .. Len(c.heap) : x > m /\ c.heap[x].key = c.heap[m].key
        BY <1>0, <1>6, <2>2, <3>3 DEF Kept
      <4> QED BY <1>6, <4>2, <4>3
    <3> QED BY <3>1, <3>2, <3>3
  <2> QED BY <1>5, <2>1, <2>2 DEF Kept
<1>11. \A s \in Shards : d.nodes[s] = IF s = sh THEN rest ELSE c.nodes[s]
  BY <1>0, <1>5 DEF CacheSet
<1>12. \A k \in Keys : d.index[k] = IF k = key THEN NoNode ELSE c.index[k]
  BY <1>0, <1>5 DEF CacheSet
<1>13. CacheInv(d, h)
  BY <1>5, <1>7, <1>8, <1>9, <1>10 DEF CacheInv
<1> QED BY <1>1, <1>2, <1>5, <1>6, <1>11, <1>12, <1>13 DEF rest

\* The node of a new key joins list and index; nobody has got it yet.
LEMMA PushedKeeps ==
    ASSUME NEW c, NEW h \in [Ids -> Nat], CacheInv(c, h), NEW k \in Keys, c.index[k] = NoNode,
           NEW n, n = Len(c.heap) + 1, n <= MaxCalls, h[n] = 0, NEW d, d = Pushed(c, k)
    PROVE  /\ CacheInv(d, h)
           /\ \A s \in Shards : d.nodes[s] =
                 IF s = ShardOf[k] THEN <<n>> \o c.nodes[s] ELSE c.nodes[s]
           /\ Len(d.nodes[ShardOf[k]]) = Len(c.nodes[ShardOf[k]]) + 1
           /\ \A x \in Keys : d.index[x] = IF x = k THEN n ELSE c.index[x]
           /\ Len(d.heap) = n
           /\ \A m \in 1 .. Len(c.heap) : d.heap[m] = c.heap[m]
           /\ d.heap[n].key = k
<1> DEFINE sh == ShardOf[k]
<1>0. /\ c \in CacheSet
      /\ Counted(c, h)
      /\ Kept(c, h)
      /\ Indexed(c)
      /\ sh \in Shards
      /\ Len(c.heap) \in Nat
  BY CacheAssumption DEF CacheInv, CacheSet
<1>1. /\ d \in CacheSet
      /\ \A s \in Shards : d.nodes[s] = IF s = sh THEN <<n>> \o c.nodes[s] ELSE c.nodes[s]
      /\ \A x \in Keys : d.index[x] = IF x = k THEN n ELSE c.index[x]
      /\ d.garbage_station = c.garbage_station
      /\ Len(d.heap) = n
      /\ \A m \in 1 .. Len(c.heap) : d.heap[m] = c.heap[m]
      /\ d.heap[n] = NewNode(k)
  BY <1>0, PushedFields
<1>2. /\ d.heap[n].key = k
      /\ d.heap[n].ref_cnt = 1
      /\ d.heap[n].in_cache
      /\ ~d.heap[n].freed
  BY <1>1 DEF NewNode
<1>3. \A m \in 1 .. Len(d.heap) : m = n \/ (m \in 1 .. Len(c.heap) /\ d.heap[m] = c.heap[m])
  BY <1>0, <1>1
<1>4. n \notin 1 .. Len(c.heap) /\ n \in 1 .. Len(d.heap) /\ n \in Nat
  BY <1>0, <1>1
<1>5. \A m \in 1 .. Len(c.heap) : m \in 1 .. Len(d.heap) /\ m < n
  BY <1>0, <1>1
<1>6. \A m \in 1 .. Len(c.heap) : c.heap[m].in_cache => c.heap[m].key # k
  <2> SUFFICES ASSUME NEW m \in 1 .. Len(c.heap), c.heap[m].in_cache, c.heap[m].key = k
               PROVE  FALSE
    OBVIOUS
  <2>1. c.index[k] = m
    BY <1>0 DEF Indexed
  <2> QED BY <1>0, <2>1 DEF NoNode
<1>7. /\ <<n>> \o c.nodes[sh] \in Seq(Nat)
      /\ Len(<<n>> \o c.nodes[sh]) = Len(c.nodes[sh]) + 1
      /\ ToSet(<<n>> \o c.nodes[sh]) = ToSet(c.nodes[sh]) \cup {n}
      /\ IsInjective(<<n>> \o c.nodes[sh])
  <2>1. Linked(c, sh) /\ c.nodes[sh] \in Seq(Nat)
    BY <1>0 DEF CacheInv, CacheSet
  <2>2. n \notin ToSet(c.nodes[sh]) /\ IsInjective(c.nodes[sh])
    BY <1>4, <2>1 DEF Linked
  <2> QED BY <1>4, <2>1, <2>2, PushProperties
<1>8. \A s \in Shards : d.nodes[s] = IF s = sh THEN <<n>> \o c.nodes[sh] ELSE c.nodes[s]
  BY <1>1
<1>9. \A s \in Shards : Linked(d, s)
  <2> SUFFICES ASSUME NEW s \in Shards
               PROVE  /\ IsInjective(d.nodes[s])
                      /\ ToSet(d.nodes[s]) =
                            {m \in 1 .. Len(d.heap) : d.heap[m].in_cache /\ Shard(d, m) = s}
    BY DEF Linked
  <2>1. Linked(c, s)
    BY DEF CacheInv
  <2>2. Shard(d, n) = sh /\ \A m \in 1 .. Len(c.heap) : Shard(d, m) = Shard(c, m)
    BY <1>1, <1>2 DEF Shard
  <2>3. {m \in 1 .. Len(d.heap) : d.heap[m].in_cache /\ Shard(d, m) = s}
          = {m \in 1 .. Len(c.heap) : c.heap[m].in_cache /\ Shard(c, m) = s}
            \cup (IF s = sh THEN {n} ELSE {})
    BY <1>2, <1>3, <1>4, <1>5, <2>2
  <2>4. CASE s = sh
    BY <1>7, <1>8, <2>1, <2>3, <2>4 DEF Linked
  <2>5. CASE s # sh
    BY <1>8, <2>1, <2>3, <2>5 DEF Linked
  <2> QED BY <2>4, <2>5
<1>10. Indexed(d)
  <2>1. \A x \in Keys : d.index[x] = IF x = k THEN n ELSE c.index[x]
    BY <1>1
  <2>2. ASSUME NEW x \in Keys, d.index[x] # NoNode
        PROVE  d.index[x] \in 1 .. Len(d.heap) /\ d.heap[d.index[x]].key = x
               /\ d.heap[d.index[x]].in_cache
    <3>1. CASE x = k
      BY <1>2, <1>4, <2>1, <3>1
    <3>2. CASE x # k
      <4>1. c.index[x] \in 1 .. Len(c.heap) /\ c.heap[c.index[x]].key = x /\ c.heap[c.index[x]].in_cache
        BY <1>0, <2>1, <2>2, <3>2 DEF Indexed
      <4>2. d.index[x] = c.index[x]
        BY <2>1, <3>2
      <4>3. d.heap[c.index[x]] = c.heap[c.index[x]] /\ c.index[x] \in 1 .. Len(d.heap)
        BY <1>1, <1>5, <4>1
      <4> QED BY <4>1, <4>2, <4>3
    <3> QED BY <3>1, <3>2
  <2>3. ASSUME NEW m \in 1 .. Len(d.heap), d.heap[m].in_cache
        PROVE  d.index[d.heap[m].key] = m
               /\ \A x \in 1 .. Len(d.heap) : d.heap[x].key = d.heap[m].key => x <= m
    <3>1. CASE m = n
      BY <1>1, <1>2, <1>4, <2>1, <3>1
    <3>2. CASE m # n
      <4>1. m \in 1 .. Len(c.heap) /\ d.heap[m] = c.heap[m]
        BY <1>3, <3>2
      <4>2. /\ c.index[c.heap[m].key] = m
            /\ \A x \in 1 .. Len(c.heap) : c.heap[x].key = c.heap[m].key => x <= m
        BY <1>0, <2>3, <4>1 DEF Indexed
      <4>3. c.heap[m].key # k /\ c.heap[m].key \in Keys
        BY <1>0, <1>6, <2>3, <4>1, NodeType
      <4> QED BY <1>2, <1>3, <2>1, <4>1, <4>2, <4>3
    <3> QED BY <3>1, <3>2
  <2> QED BY <2>2, <2>3 DEF Indexed
<1>11. Counted(d, h)
  BY <1>0, <1>2, <1>3 DEF Counted
<1>12. Kept(d, h)
  <2>1. ASSUME NEW x \in Keys, d.garbage_station[x] # NoNode
        PROVE  LET g == d.garbage_station[x] IN
               /\ g \in 1 .. Len(d.heap)
               /\ d.heap[g].key = x
               /\ ~d.heap[g].in_cache
               /\ ~d.heap[g].freed
    <3>1. /\ c.garbage_station[x] \in 1 .. Len(c.heap)
          /\ c.heap[c.garbage_station[x]].key = x
          /\ ~c.heap[c.garbage_station[x]].in_cache
          /\ ~c.heap[c.garbage_station[x]].freed
      BY <1>0, <1>1, <2>1 DEF Kept
    <3> QED BY <1>1, <1>5, <3>1
  <2>2. ASSUME NEW m \in 1 .. Len(d.heap), ~d.heap[m].in_cache, h[m] > 0
        PROVE  \/ d.garbage_station[d.heap[m].key] = m
               \/ \E x \in 1 .. Len(d.heap) : x > m /\ d.heap[x].key = d.heap[m].key
    <3>1. m \in 1 .. Len(c.heap) /\ d.heap[m] = c.heap[m]
      BY <1>2, <1>3, <2>2
    <3>2. \/ c.garbage_station[c.heap[m].key] = m
          \/ \E x \in 1 .. Len(c.heap) : x > m /\ c.heap[x].key = c.heap[m].key
      BY <1>0, <2>2, <3>1 DEF Kept
    <3> QED BY <1>1, <1>5, <3>1, <3>2
  <2> QED BY <2>1, <2>2 DEF Kept
<1> QED BY <1>0, <1>1, <1>2, <1>7, <1>8, <1>9, <1>10, <1>11, <1>12 DEF CacheInv

\* d is c with the new node n of the key k, and with at most cap nodes in
\* the shard of k.
Inserted(c, k, d, n) ==
    /\ \A s \in Shards : Len(d.nodes[s]) <= cap
    /\ \A s \in Shards : s # ShardOf[k] => d.nodes[s] = c.nodes[s]
    /\ d.nodes[ShardOf[k]] = Capped(<<n>> \o c.nodes[ShardOf[k]])
    /\ \A x \in Keys : ShardOf[x] # ShardOf[k] => d.index[x] = c.index[x]
    /\ Len(d.heap) = n
    /\ \A m \in 1 .. Len(c.heap) : d.heap[m].key = c.heap[m].key
    /\ d.heap[n].key = k

\* insert of a new key: the last node of the list goes when there are more
\* than cap.
LEMMA PushFrontKeeps ==
    ASSUME NEW c, NEW h \in [Ids -> Nat], CacheInv(c, h), NEW k \in Keys, c.index[k] = NoNode,
           \A s \in Shards : Len(c.nodes[s]) <= cap,
           NEW n, n = Len(c.heap) + 1, n <= MaxCalls, h[n] = 0, NEW d, d = PushFront(c, k)
    PROVE  CacheInv(d, h) /\ Inserted(c, k, d, n)
<1> SUFFICES
      /\ CacheInv(d, h)
      /\ \A s \in Shards : Len(d.nodes[s]) <= cap
      /\ \A s \in Shards : s # ShardOf[k] => d.nodes[s] = c.nodes[s]
      /\ d.nodes[ShardOf[k]] = Capped(<<n>> \o c.nodes[ShardOf[k]])
      /\ \A x \in Keys : ShardOf[x] # ShardOf[k] => d.index[x] = c.index[x]
      /\ Len(d.heap) = n
      /\ \A m \in 1 .. Len(c.heap) : d.heap[m].key = c.heap[m].key
      /\ d.heap[n].key = k
  BY DEF Inserted
<1> DEFINE sh == ShardOf[k]
           b == Pushed(c, k)
           l == <<n>> \o c.nodes[sh]
<1>0. sh \in Shards /\ c \in CacheSet /\ c.nodes[sh] \in Seq(Nat) /\ Len(c.heap) \in Nat
  BY CacheAssumption DEF CacheInv, CacheSet
<1>1. /\ CacheInv(b, h)
      /\ \A s \in Shards : b.nodes[s] = IF s = sh THEN <<n>> \o c.nodes[s] ELSE c.nodes[s]
      /\ Len(b.nodes[sh]) = Len(c.nodes[sh]) + 1
      /\ \A x \in Keys : b.index[x] = IF x = k THEN n ELSE c.index[x]
      /\ Len(b.heap) = n
      /\ \A m \in 1 .. Len(c.heap) : b.heap[m] = c.heap[m]
      /\ b.heap[n].key = k
  BY PushedKeeps
<1>2. d = IF Len(b.nodes[sh]) > cap THEN PhantomEraseNode(b, Last(b.nodes[sh])) ELSE b
  BY DEF PushFront, Pushed
<1> HIDE DEF b
<1>3. b.nodes[sh] = l
  BY <1>0, <1>1
<1>4. CASE ~(Len(b.nodes[sh]) > cap)
  <2>1. d = b
    BY <1>2, <1>4
  <2>2. Len(b.nodes[sh]) <= cap
    BY <1>0, <1>1, <1>4, CacheAssumption
  <2>3. Capped(l) = l
    BY <1>3, <1>4 DEF Capped
  <2> QED BY <1>0, <1>1, <1>3, <2>1, <2>2, <2>3
<1>5. CASE Len(b.nodes[sh]) > cap
  <2> DEFINE e == Last(l)
  <2>1. l \in Seq(Nat) /\ l # <<>> /\ Len(l) = Len(c.nodes[sh]) + 1
    BY <1>0, ConsProperties
  <2>2. Linked(b, sh) /\ IsInjective(l)
    BY <1>0, <1>1, <1>3 DEF CacheInv, Linked
  <2> HIDE DEF l
  <2>3. e \in ToSet(l) /\ RemoveFirst(l, e) = Front(l) /\ Len(Front(l)) = Len(c.nodes[sh])
    <3>1. e \in ToSet(l) /\ Len(Front(l)) = Len(l) - 1
      BY <2>1, <2>2, DropLastProperties
    <3>2. RemoveFirst(l, e) = Front(l)
      BY <2>1, <2>2, RemoveLast
    <3> QED BY <1>0, <2>1, <3>1, <3>2
  <2> HIDE DEF e
  <2>4. e \in 1 .. Len(b.heap) /\ b.heap[e].in_cache /\ Shard(b, e) = sh
    BY <1>3, <2>2, <2>3 DEF Linked
  <2>5. d = PhantomEraseNode(b, e) /\ Len(b.heap) <= MaxCalls
    BY <1>1, <1>2, <1>3, <1>5 DEF e
  <2>6. /\ CacheInv(d, h)
        /\ \A s \in Shards : d.nodes[s] =
              IF s = Shard(b, e) THEN RemoveFirst(b.nodes[s], e) ELSE b.nodes[s]
        /\ \A x \in Keys : d.index[x] = IF x = b.heap[e].key THEN NoNode ELSE b.index[x]
        /\ Len(d.heap) = Len(b.heap)
        /\ \A m \in 1 .. Len(b.heap) : d.heap[m].key = b.heap[m].key
    BY <1>1, <2>4, <2>5, PhantomEraseKeeps
  <2>7. d.nodes[sh] = Front(l)
    BY <1>0, <1>3, <2>3, <2>4, <2>6
  <2>8. \A s \in Shards : s # sh => d.nodes[s] = c.nodes[s]
    BY <1>1, <2>4, <2>6
  <2>9. \A s \in Shards : Len(d.nodes[s]) <= cap
    BY <1>0, <2>3, <2>7, <2>8
  <2>10. \A x \in Keys : ShardOf[x] # sh => d.index[x] = c.index[x]
    BY <1>1, <2>4, <2>6 DEF Shard
  <2>11. /\ Len(d.heap) = n
         /\ \A m \in 1 .. Len(c.heap) : d.heap[m].key = c.heap[m].key
         /\ d.heap[n].key = k
    <3>1. \A m \in 1 .. Len(c.heap) : m \in 1 .. Len(b.heap)
      BY <1>0, <1>1
    <3>2. n \in 1 .. Len(b.heap)
      BY <1>0, <1>1
    <3> QED BY <1>1, <2>6, <3>1, <3>2
  <2>12. Capped(l) = Front(l)
    BY <1>3, <1>5 DEF Capped
  <2> QED BY <2>6, <2>7, <2>8, <2>9, <2>10, <2>11, <2>12 DEF l
<1> QED BY <1>4, <1>5

(***************************************************************************)
(* The gets that were not released.                                        *)
(***************************************************************************)

\* The members of Gets(n).
LEMMA GetsMembers ==
    ASSUME ControlOK, NEW n \in Ids
    PROVE  /\ \A u \in Users, i \in Nat : <<u, i>> \in Gets(n) <=> i \in 1 .. held[u][n]
           /\ \A p \in Gets(n) : \E u \in Users : \E i \in 1 .. held[u][n] : p = <<u, i>>
<1>1. \A u \in Users : held[u][n] \in Nat
  BY DEF ControlOK
<1> QED BY <1>1 DEF Gets

\* Only the gets of node n by u have changed.
OneNode(u, n) ==
    /\ held' \in [Users -> [Ids -> Nat]]
    /\ IsFiniteSet(Gets(n)')
    /\ \A m \in Ids : m # n => Gets(m)' = Gets(m)
    /\ \A w \in Users, m \in Ids : w # u \/ m # n => held'[w][m] = held[w][m]

\* A get by u of node n adds one to Counts[n].
LEMMA GetCounts ==
    ASSUME ControlOK, NEW u \in Users, NEW n \in Ids, IsFiniteSet(Gets(n)),
           held' = [held EXCEPT ![u] = OneMore(held[u], n)]
    PROVE  OneNode(u, n) /\ Counts' = OneMore(Counts, n)
<1> DEFINE x == <<u, held[u][n] + 1>>
<1>1. /\ held[u][n] \in Nat
      /\ held' \in [Users -> [Ids -> Nat]]
      /\ held'[u][n] = held[u][n] + 1
      /\ \A w \in Users, m \in Ids : w # u \/ m # n => held'[w][m] = held[w][m]
  BY DEF ControlOK, OneMore
<1>2. \A m \in Ids : m # n => Gets(m)' = Gets(m)
  BY <1>1 DEF Gets
<1>3. x \notin Gets(n)
  BY <1>1, GetsMembers
<1>4. Gets(n)' = Gets(n) \cup {x}
  <2>1. \A w \in Users : w # u => {w} \X (1 .. held'[w][n]) = {w} \X (1 .. held[w][n])
    BY <1>1
  <2>2. {u} \X (1 .. held'[u][n]) = ({u} \X (1 .. held[u][n])) \cup {x}
    BY <1>1
  <2> QED BY <2>1, <2>2 DEF Gets
<1>5. IsFiniteSet(Gets(n)') /\ Cardinality(Gets(n)') = Cardinality(Gets(n)) + 1
  BY <1>3, <1>4, FS_AddElement
<1>6. Counts' = OneMore(Counts, n)
  <2>1. \A m \in Ids : Holders(m)' = IF m = n THEN Holders(m) + 1 ELSE Holders(m)
    BY <1>2, <1>5 DEF Holders
  <2> QED BY <2>1 DEF Counts, OneMore
<1> QED BY <1>1, <1>2, <1>5, <1>6 DEF OneNode

\* A release by u of node n takes one from Counts[n].
LEMMA ReleaseCounts ==
    ASSUME ControlOK, NEW u \in Users, NEW n \in Ids, IsFiniteSet(Gets(n)), held[u][n] > 0,
           held' = [held EXCEPT ![u] = OneLess(held[u], n)]
    PROVE  OneNode(u, n) /\ Counts' = OneLess(Counts, n)
<1> DEFINE x == <<u, held[u][n]>>
<1>1. /\ held[u][n] \in Nat
      /\ held' \in [Users -> [Ids -> Nat]]
      /\ held'[u][n] = held[u][n] - 1
      /\ \A w \in Users, m \in Ids : w # u \/ m # n => held'[w][m] = held[w][m]
  <2>1. held[u][n] \in Nat /\ held[u][n] - 1 \in Nat
    BY DEF ControlOK
  <2> QED BY <2>1 DEF ControlOK, OneLess
<1>2. \A m \in Ids : m # n => Gets(m)' = Gets(m)
  BY <1>1 DEF Gets
<1>3. x \in Gets(n)
  BY <1>1, GetsMembers
<1>4. Gets(n)' = Gets(n) \ {x}
  <2>1. \A w \in Users : w # u => {w} \X (1 .. held'[w][n]) = {w} \X (1 .. held[w][n])
    BY <1>1
  <2>2. {u} \X (1 .. held'[u][n]) = ({u} \X (1 .. held[u][n])) \ {x}
    BY <1>1
  <2> QED BY <2>1, <2>2 DEF Gets
<1>5. IsFiniteSet(Gets(n)') /\ Cardinality(Gets(n)') = Cardinality(Gets(n)) - 1
  BY <1>3, <1>4, FS_RemoveElement
<1>6. Counts' = OneLess(Counts, n)
  <2>1. \A m \in Ids : Holders(m)' = IF m = n THEN Holders(m) - 1 ELSE Holders(m)
    BY <1>2, <1>5 DEF Holders
  <2> QED BY <2>1 DEF Counts, OneLess
<1> QED BY <1>1, <1>2, <1>5, <1>6 DEF OneNode

\* A call on a key of shard s turned the cache c into d: d is as good as c
\* for the counts g, no list has become too long, other shards are left
\* alone, and at most one node is new.
Good(c, d, g, s) ==
    /\ CacheInv(d, g)
    /\ \A t \in Shards : Len(d.nodes[t]) <= cap
    /\ \A x \in Keys : ShardOf[x] # s => d.index[x] = c.index[x]
    /\ Len(d.heap) \in Len(c.heap) .. Len(c.heap) + 1

\* A call that finds nothing to do.
LEMMA SameGood ==
    ASSUME NEW c, NEW h, CacheInv(c, h), \A t \in Shards : Len(c.nodes[t]) <= cap, NEW s
    PROVE  Good(c, c, h, s)
<1>1. Len(c.heap) \in Nat
  BY DEF CacheInv, CacheSet
<1>2. Len(c.heap) \in Len(c.heap) .. Len(c.heap) + 1
  BY <1>1
<1> QED BY <1>2 DEF Good

\* insert of a key that is not cached.
LEMMA PushFrontGood ==
    ASSUME NEW c, NEW h \in [Ids -> Nat], CacheInv(c, h), NEW k \in Keys, c.index[k] = NoNode,
           \A t \in Shards : Len(c.nodes[t]) <= cap,
           NEW n, n = Len(c.heap) + 1, n <= MaxCalls, h[n] = 0
    PROVE  Good(c, PushFront(c, k), h, ShardOf[k])
<1> DEFINE d == PushFront(c, k)
<1>0. CacheInv(d, h) /\ Inserted(c, k, d, n)
  BY PushFrontKeeps
<1> HIDE DEF d
<1>1. /\ CacheInv(d, h)
      /\ \A t \in Shards : Len(d.nodes[t]) <= cap
      /\ \A x \in Keys : ShardOf[x] # ShardOf[k] => d.index[x] = c.index[x]
      /\ Len(d.heap) = n
  BY <1>0 DEF Inserted
<1>2. Len(c.heap) \in Nat
  BY DEF CacheInv, CacheSet
<1>3. Len(d.heap) \in Len(c.heap) .. Len(c.heap) + 1
  BY <1>1, <1>2
<1>4. Good(c, d, h, ShardOf[k])
  BY <1>1, <1>3 DEF Good
<1> QED BY <1>4 DEF d

\* insert of a key that is cached, and the first half of a get.
LEMMA ToFrontGood ==
    ASSUME NEW c, NEW h, CacheInv(c, h), NEW n \in 1 .. Len(c.heap), c.heap[n].in_cache,
           \A t \in Shards : Len(c.nodes[t]) <= cap, NEW s
    PROVE  Good(c, ToFront(c, n), h, s)
<1> DEFINE d == ToFront(c, n)
<1>0. d = ToFront(c, n)
  OBVIOUS
<1> HIDE DEF d
<1>1. /\ CacheInv(d, h)
      /\ \A t \in Shards : Len(d.nodes[t]) = Len(c.nodes[t])
      /\ d.heap = c.heap
      /\ d.index = c.index
  BY <1>0, ToFrontKeeps
<1>2. Len(c.heap) \in Nat
  BY DEF CacheInv, CacheSet
<1>3. Len(d.heap) \in Len(c.heap) .. Len(c.heap) + 1
  BY <1>1, <1>2
<1>4. \A t \in Shards : Len(d.nodes[t]) <= cap
  BY <1>1
<1>5. Good(c, d, h, s)
  BY <1>1, <1>3, <1>4 DEF Good
<1> QED BY <1>0, <1>5

\* erase.
LEMMA PhantomEraseGood ==
    ASSUME NEW c, NEW h \in [Ids -> Nat], CacheInv(c, h), NEW n \in 1 .. Len(c.heap),
           c.heap[n].in_cache, Len(c.heap) <= MaxCalls, \A t \in Shards : Len(c.nodes[t]) <= cap
    PROVE  Good(c, PhantomEraseNode(c, n), h, Shard(c, n))
<1> DEFINE d == PhantomEraseNode(c, n)
<1>0. d = PhantomEraseNode(c, n)
  OBVIOUS
<1> HIDE DEF d
<1>1. /\ CacheInv(d, h)
      /\ \A t \in Shards : d.nodes[t] =
            IF t = Shard(c, n) THEN RemoveFirst(c.nodes[t], n) ELSE c.nodes[t]
      /\ Len(d.nodes[Shard(c, n)]) = Len(c.nodes[Shard(c, n)]) - 1
      /\ \A x \in Keys : d.index[x] = IF x = c.heap[n].key THEN NoNode ELSE c.index[x]
      /\ Len(d.heap) = Len(c.heap)
  BY <1>0, PhantomEraseKeeps
<1>2. Len(c.heap) \in Nat /\ \A t \in Shards : Len(c.nodes[t]) \in Nat
  BY DEF CacheInv, CacheSet
<1>3. Len(d.heap) \in Len(c.heap) .. Len(c.heap) + 1
  BY <1>1, <1>2
<1>4. \A t \in Shards : Len(d.nodes[t]) <= cap
  BY <1>1, <1>2, CacheAssumption
<1>5. \A x \in Keys : ShardOf[x] # Shard(c, n) => d.index[x] = c.index[x]
  BY <1>1 DEF Shard
<1>6. Good(c, d, h, Shard(c, n))
  BY <1>1, <1>3, <1>4, <1>5 DEF Good
<1> QED BY <1>0, <1>6

\* get of a cached key.
LEMMA GetGood ==
    ASSUME NEW c, NEW h \in [Ids -> Nat], CacheInv(c, h), NEW n \in 1 .. Len(c.heap),
           c.heap[n].in_cache, Len(c.heap) <= MaxCalls,
           \A t \in Shards : Len(c.nodes[t]) <= cap, NEW s,
           NEW g, g = OneMore(h, n)
    PROVE  Good(c, Ref(ToFront(c, n), n), g, s)
<1> DEFINE b == ToFront(c, n)
           d == Ref(b, n)
<1>0. b = ToFront(c, n) /\ d = Ref(b, n)
  OBVIOUS
<1> HIDE DEF b, d
<1>1. /\ CacheInv(b, h)
      /\ \A t \in Shards : Len(b.nodes[t]) = Len(c.nodes[t])
      /\ b.heap = c.heap
      /\ b.index = c.index
  BY <1>0, ToFrontKeeps
<1>2. n \in 1 .. Len(b.heap) /\ b.heap[n].in_cache /\ Len(b.heap) <= MaxCalls
  BY <1>1
<1>3. CacheInv(b, h)
  BY <1>1
<1>4. /\ CacheInv(d, g)
      /\ d.nodes = b.nodes
      /\ d.index = b.index
      /\ Len(d.heap) = Len(b.heap)
  BY <1>0, <1>2, <1>3, RefKeeps
<1>5. Len(c.heap) \in Nat
  BY DEF CacheInv, CacheSet
<1>6. Len(d.heap) \in Len(c.heap) .. Len(c.heap) + 1
  BY <1>1, <1>4, <1>5
<1>7. \A t \in Shards : Len(d.nodes[t]) <= cap
  BY <1>1, <1>4
<1>8. d.index = c.index
  BY <1>1, <1>4
<1>9. Good(c, d, g, s)
  BY <1>4, <1>6, <1>7, <1>8 DEF Good
<1> QED BY <1>0, <1>9

\* release of a node that is cached and that somebody has.
LEMMA UnrefGood ==
    ASSUME NEW c, NEW h \in [Ids -> Nat], CacheInv(c, h), NEW n \in 1 .. Len(c.heap),
           c.heap[n].in_cache, h[n] > 0, Len(c.heap) <= MaxCalls,
           \A t \in Shards : Len(c.nodes[t]) <= cap, NEW s,
           NEW g, g = OneLess(h, n)
    PROVE  Good(c, Unref(c, n), g, s)
<1> DEFINE d == Unref(c, n)
<1>0. d = Unref(c, n)
  OBVIOUS
<1> HIDE DEF d
<1>1. /\ CacheInv(d, g)
      /\ d.nodes = c.nodes
      /\ d.index = c.index
      /\ Len(d.heap) = Len(c.heap)
  BY <1>0, UnrefKeeps
<1>2. Len(c.heap) \in Nat
  BY DEF CacheInv, CacheSet
<1>3. Len(d.heap) \in Len(c.heap) .. Len(c.heap) + 1
  BY <1>1, <1>2
<1>4. \A t \in Shards : Len(d.nodes[t]) <= cap
  BY <1>1
<1>5. Good(c, d, g, s)
  BY <1>1, <1>3, <1>4 DEF Good
<1> QED BY <1>0, <1>5

\* Whatever the call does, the cache stays good.
LEMMA EffectGood ==
    ASSUME NEW c, NEW h \in [Ids -> Nat], CacheInv(c, h), NEW k \in Keys, NEW op \in Ops,
           \A t \in Shards : Len(c.nodes[t]) <= cap,
           Len(c.heap) + 1 <= MaxCalls, h[Len(c.heap) + 1] = 0,
           NEW n, n = c.index[k], op = "release" => n # NoNode /\ h[n] > 0
    PROVE  Good(c, Effect(c, op, k, n), After(h, op, n), ShardOf[k])
<1>1. Len(c.heap) \in Nat /\ Len(c.heap) <= MaxCalls
  <2>1. Len(c.heap) \in Nat
    BY DEF CacheInv, CacheSet
  <2> QED BY <2>1, CacheAssumption
<1>2. n # NoNode => n \in 1 .. Len(c.heap) /\ c.heap[n].in_cache /\ Shard(c, n) = ShardOf[k]
  BY DEF CacheInv, Indexed, Shard
<1>3. CASE op = "contains" \/ (op \in {"get", "erase"} /\ n = NoNode)
  <2>1. Effect(c, op, k, n) = c /\ After(h, op, n) = h
    BY <1>3 DEF Effect, Get, Erase, After
  <2>2. Good(c, c, h, ShardOf[k])
    BY SameGood
  <2> QED BY <2>1, <2>2
<1>4. CASE op = "insert" /\ n = NoNode
  <2>1. Effect(c, op, k, n) = PushFront(c, k) /\ After(h, op, n) = h
    BY <1>4 DEF Effect, Insert, After
  <2>2. Good(c, PushFront(c, k), h, ShardOf[k])
    BY <1>4, PushFrontGood
  <2> QED BY <2>1, <2>2
<1>5. CASE op = "insert" /\ n # NoNode
  <2>1. Effect(c, op, k, n) = ToFront(c, n) /\ After(h, op, n) = h
    BY <1>5 DEF Effect, Insert, After
  <2>2. Good(c, ToFront(c, n), h, ShardOf[k])
    BY <1>2, <1>5, ToFrontGood
  <2> QED BY <2>1, <2>2
<1>6. CASE op = "erase" /\ n # NoNode
  <2>1. Effect(c, op, k, n) = PhantomEraseNode(c, n) /\ After(h, op, n) = h
    BY <1>6 DEF Effect, Erase, After
  <2>2. Good(c, PhantomEraseNode(c, n), h, Shard(c, n))
    BY <1>1, <1>2, <1>6, PhantomEraseGood
  <2> QED BY <1>2, <1>6, <2>1, <2>2
<1>7. CASE op = "get" /\ n # NoNode
  <2>1. Effect(c, op, k, n) = Ref(ToFront(c, n), n) /\ After(h, op, n) = OneMore(h, n)
    BY <1>7 DEF Effect, Get, After
  <2>2. Good(c, Ref(ToFront(c, n), n), OneMore(h, n), ShardOf[k])
    BY <1>1, <1>2, <1>7, GetGood
  <2> QED BY <2>1, <2>2
<1>8. CASE op = "release"
  <2>1. Effect(c, op, k, n) = Unref(c, n) /\ After(h, op, n) = OneLess(h, n)
    BY <1>8 DEF Effect, Release, After
  <2>2. Good(c, Unref(c, n), OneLess(h, n), ShardOf[k])
    BY <1>1, <1>2, <1>8, UnrefGood
  <2> QED BY <2>1, <2>2
<1> QED BY <1>3, <1>4, <1>5, <1>6, <1>7, <1>8 DEF Ops

(***************************************************************************)
(* The inductive invariant.                                                *)
(***************************************************************************)

\* The empty cache.
LEMMA LRUInit == Init => LRUInv
<1> SUFFICES ASSUME Init PROVE LRUInv
  OBVIOUS
<1>0. /\ cache = [nodes |-> [s \in Shards |-> <<>>],
                  index |-> [k \in Keys |-> NoNode],
                  garbage_station |-> [k \in Keys |-> NoNode],
                  heap |-> <<>>]
      /\ locker = [s \in Shards |-> NoUser]
      /\ call = [u \in Users |-> Idle]
      /\ held = [u \in Users |-> [n \in Ids |-> 0]]
      /\ calls = 0
  BY DEF Init
<1>1. /\ cache.heap = <<>>
      /\ Len(cache.heap) = 0
      /\ \A s \in Shards : cache.nodes[s] = <<>>
      /\ \A k \in Keys : cache.index[k] = NoNode /\ cache.garbage_station[k] = NoNode
  BY <1>0
<1>2. cache \in CacheSet
  <2>1. <<>> \in Seq(Nat) /\ <<>> \in Seq(Node) /\ NoNode \in Nat
    BY DEF NoNode
  <2> QED BY <1>0, <2>1 DEF CacheSet
<1>3. \A s \in Shards : Linked(cache, s)
  BY <1>1 DEF Linked, IsInjective, ToSet
<1>4. Indexed(cache) /\ Counted(cache, Counts) /\ Kept(cache, Counts)
  BY <1>1 DEF Indexed, Counted, Kept
<1>5. \A s \in Shards : Len(cache.nodes[s]) <= cap
  BY <1>1, CacheAssumption
<1>6. ControlOK
  BY <1>0, CacheAssumption DEF ControlOK
<1>7. Active = {}
  BY <1>0 DEF Active
<1>8. LocksHeld
  BY <1>7 DEF LocksHeld
<1>9. \A n \in Ids : Gets(n) = {}
  BY <1>0 DEF Gets
<1>10. Bounded
  <2>1. IsFiniteSet(Active) /\ Cardinality(Active) = 0
    BY <1>7, FS_EmptySet
  <2>2. \A n \in Ids : IsFiniteSet(Gets(n))
    BY <1>9, FS_EmptySet
  <2> QED BY <1>0, <1>1, <2>1, <2>2 DEF Bounded
<1> QED BY <1>2, <1>3, <1>4, <1>5, <1>6, <1>8, <1>10 DEF LRUInv, CacheInv

\* What is known of the call u is in.
LEMMA InCall ==
    ASSUME LRUInv, NEW u \in Users, call[u] # Idle
    PROVE  /\ u \in Active
           /\ call[u] \in CallSet
           /\ call[u].op \in Ops
           /\ call[u].key \in Keys
           /\ call[u].found = cache.index[call[u].key]
           /\ call[u].found # NoNode =>
                 /\ call[u].found \in 1 .. Len(cache.heap)
                 /\ call[u].found \in Ids
                 /\ cache.heap[call[u].found].key = call[u].key
                 /\ cache.heap[call[u].found].in_cache
           /\ ShardOf[call[u].key] \in Shards
           /\ locker[ShardOf[call[u].key]] = u
           /\ Len(cache.heap) \in Nat
           /\ Len(cache.heap) + 1 <= MaxCalls
           /\ Len(cache.heap) + 1 \in Ids
<1>1. u \in Active
  BY DEF Active
<1>2. call[u] \in CallSet
  BY DEF LRUInv, ControlOK
<1>3. call[u].op \in Ops /\ call[u].key \in Keys /\ call[u].found = cache.index[call[u].key]
  BY <1>1, <1>2 DEF CallSet, LRUInv, LocksHeld
<1>4. Len(cache.heap) \in Nat
  BY DEF LRUInv, CacheInv, CacheSet
<1>5. Len(cache.heap) + 1 <= MaxCalls
  <2>1. Cardinality(Active) \in Nat /\ Cardinality(Active) # 0
    BY <1>1, FS_CardinalityType, FS_EmptySet DEF LRUInv, Bounded
  <2>2. Len(cache.heap) + Cardinality(Active) <= calls /\ calls \in 0 .. MaxCalls
    BY DEF LRUInv, Bounded, ControlOK
  <2> QED BY <1>4, <2>1, <2>2, CacheAssumption
<1>6. call[u].found # NoNode =>
         /\ call[u].found \in 1 .. Len(cache.heap)
         /\ cache.heap[call[u].found].key = call[u].key
         /\ cache.heap[call[u].found].in_cache
  BY <1>3 DEF LRUInv, CacheInv, Indexed
<1>7. ShardOf[call[u].key] \in Shards /\ locker[ShardOf[call[u].key]] = u
  BY <1>1, <1>3, CacheAssumption DEF LRUInv, LocksHeld
<1>8. Len(cache.heap) + 1 \in Ids /\ \A n \in 1 .. Len(cache.heap) : n \in Ids
  BY <1>4, <1>5, CacheAssumption DEF Ids
<1> QED BY <1>1, <1>2, <1>3, <1>4, <1>5, <1>6, <1>7, <1>8

\* The part of LRUInv that is about the data, and what a call leaves alone
\* in the shards of other users.
DataKept(u) ==
    /\ CacheInv(cache, Counts)'
    /\ \A s \in Shards : Len(cache'.nodes[s]) <= cap
    /\ \A k \in Keys : ShardOf[k] # ShardOf[call[u].key] => cache'.index[k] = cache.index[k]
    /\ Len(cache'.heap) \in Len(cache.heap) .. Len(cache.heap) + 1
    /\ held' \in [Users -> [Ids -> Nat]]
    /\ \A w \in Users : w # u => held'[w] = held[w]
    /\ \A n \in Ids : IsFiniteSet(Gets(n)')
    /\ \A w \in Users, n \in Ids : n > Len(cache'.heap) => held'[w][n] = 0

\* What a call does to the gets that were not released.
HeldKept(u) ==
    /\ held' \in [Users -> [Ids -> Nat]]
    /\ \A w \in Users : w # u => held'[w] = held[w]
    /\ \A m \in Ids : IsFiniteSet(Gets(m)')
    /\ \A w \in Users, m \in Ids : m > Len(cache.heap) => held'[w][m] = 0

\* A call that returns changes the counts of its own user alone.
LEMMA LeaveHeld ==
    ASSUME LRUInv, NEW u \in Users, Leave(u),
           NEW op, op = call[u].op, NEW n, n = call[u].found
    PROVE  HeldKept(u) /\ Counts' = After(Counts, op, n)
<1>1. call[u] # Idle
  BY DEF Leave
<1>2. held' = [held EXCEPT ![u] = After(held[u], op, n)]
  BY DEF Leave
<1>3. n # NoNode => n \in Ids /\ n <= Len(cache.heap)
  BY <1>1, InCall
<1>4. /\ ControlOK
      /\ held \in [Users -> [Ids -> Nat]]
      /\ \A m \in Ids : IsFiniteSet(Gets(m))
      /\ \A w \in Users, m \in Ids : m > Len(cache.heap) => held[w][m] = 0
  BY DEF LRUInv, ControlOK, Bounded
<1>5. op = "release" => n # NoNode /\ held[u][n] > 0
  BY <1>1, InCall DEF LRUInv, LocksHeld
<1>6. Len(cache.heap) \in Nat /\ \A m \in Ids : m \in Nat
  BY DEF LRUInv, CacheInv, CacheSet, Ids
<1>7. CASE n = NoNode \/ op \notin {"get", "release"}
  <2>1. held' = held
    BY <1>2, <1>4, <1>7 DEF After
  <2>2. Counts' = Counts /\ \A m \in Ids : Gets(m)' = Gets(m)
    BY <2>1 DEF Counts, Holders, Gets
  <2>3. After(Counts, op, n) = Counts
    BY <1>7 DEF After
  <2>4. HeldKept(u)
    BY <1>4, <2>1, <2>2 DEF HeldKept
  <2> QED BY <2>2, <2>3, <2>4
<1>8. CASE n # NoNode /\ op = "get"
  <2>1. held' = [held EXCEPT ![u] = OneMore(held[u], n)]
    BY <1>2, <1>8 DEF After
  <2>2. n \in Ids /\ IsFiniteSet(Gets(n)) /\ ControlOK
    BY <1>3, <1>4, <1>8
  <2>3. OneNode(u, n) /\ Counts' = OneMore(Counts, n)
    BY <2>1, <2>2, GetCounts
  <2>4. After(Counts, op, n) = OneMore(Counts, n)
    BY <1>8 DEF After
  <2>5. \A w \in Users : w # u => held'[w] = held[w]
    BY <1>4, <2>1
  <2>6. \A m \in Ids : IsFiniteSet(Gets(m)')
    <3> SUFFICES ASSUME NEW m \in Ids PROVE IsFiniteSet(Gets(m)')
      OBVIOUS
    <3>1. CASE m = n
      BY <2>3, <3>1 DEF OneNode
    <3>2. CASE m # n
      BY <1>4, <2>3, <3>2 DEF OneNode
    <3> QED BY <3>1, <3>2
  <2>7. \A w \in Users, m \in Ids : m > Len(cache.heap) => held'[w][m] = 0
    <3>1. \A m \in Ids : m > Len(cache.heap) => m # n
      BY <1>3, <1>6, <1>8
    <3> QED BY <1>4, <2>3, <3>1 DEF OneNode
  <2>8. HeldKept(u)
    BY <2>3, <2>5, <2>6, <2>7 DEF HeldKept, OneNode
  <2> QED BY <2>3, <2>4, <2>8
<1>9. CASE n # NoNode /\ op = "release"
  <2>1. held' = [held EXCEPT ![u] = OneLess(held[u], n)]
    BY <1>2, <1>9 DEF After
  <2>2. n \in Ids /\ IsFiniteSet(Gets(n)) /\ ControlOK /\ held[u][n] > 0
    BY <1>3, <1>4, <1>5, <1>9
  <2>3. OneNode(u, n) /\ Counts' = OneLess(Counts, n)
    BY <2>1, <2>2, ReleaseCounts
  <2>4. After(Counts, op, n) = OneLess(Counts, n)
    BY <1>9 DEF After
  <2>5. \A w \in Users : w # u => held'[w] = held[w]
    BY <1>4, <2>1
  <2>6. \A m \in Ids : IsFiniteSet(Gets(m)')
    <3> SUFFICES ASSUME NEW m \in Ids PROVE IsFiniteSet(Gets(m)')
      OBVIOUS
    <3>1. CASE m = n
      BY <2>3, <3>1 DEF OneNode
    <3>2. CASE m # n
      BY <1>4, <2>3, <3>2 DEF OneNode
    <3> QED BY <3>1, <3>2
  <2>7. \A w \in Users, m \in Ids : m > Len(cache.heap) => held'[w][m] = 0
    <3>1. \A m \in Ids : m > Len(cache.heap) => m # n
      BY <1>3, <1>6, <1>9
    <3> QED BY <1>4, <2>3, <3>1 DEF OneNode
  <2>8. HeldKept(u)
    BY <2>3, <2>5, <2>6, <2>7 DEF HeldKept, OneNode
  <2> QED BY <2>3, <2>4, <2>8
<1> QED BY <1>7, <1>8, <1>9

\* The counts are numbers; a get the node has not seen is not counted, and
\* the one about to be released is.
LEMMA CountsType ==
    ASSUME LRUInv
    PROVE  /\ Counts \in [Ids -> Nat]
           /\ \A n \in Ids : n > Len(cache.heap) => Counts[n] = 0
           /\ \A u \in Users, n \in Ids : held[u][n] > 0 => Counts[n] > 0
<1>1. \A n \in Ids : IsFiniteSet(Gets(n))
  BY DEF LRUInv, Bounded
<1>2. \A n \in Ids : Counts[n] = Cardinality(Gets(n)) /\ Counts[n] \in Nat
  BY <1>1, FS_CardinalityType DEF Counts, Holders
<1>3. ASSUME NEW n \in Ids, n > Len(cache.heap)
      PROVE  Counts[n] = 0
  <2>1. \A w \in Users : held[w][n] = 0
    BY <1>3 DEF LRUInv, Bounded
  <2>2. Gets(n) = {}
    BY <2>1 DEF Gets
  <2> QED BY <1>2, <2>2, FS_EmptySet
<1>4. ASSUME NEW u \in Users, NEW n \in Ids, held[u][n] > 0
      PROVE  Counts[n] > 0
  <2>1. ControlOK /\ held[u][n] \in Nat
    BY DEF LRUInv, ControlOK
  <2>2. <<u, held[u][n]>> \in Gets(n)
    BY <1>4, <2>1, GetsMembers
  <2>3. Cardinality(Gets(n)) # 0
    BY <1>1, <2>2, FS_EmptySet
  <2> QED BY <1>2, <2>3
<1>5. Counts \in [Ids -> Nat]
  BY <1>2 DEF Counts
<1> QED BY <1>3, <1>4, <1>5

\* The rest of a call keeps the data as they should be.
LEMMA LeaveData ==
    ASSUME LRUInv, NEW u \in Users, Leave(u),
           NEW op, op = call[u].op, NEW k, k = call[u].key, NEW n, n = call[u].found
    PROVE  DataKept(u)
<1>1. call[u] # Idle /\ cache' = Effect(cache, op, k, n)
  BY DEF Leave
<1>2. /\ op \in Ops
      /\ k \in Keys
      /\ n = cache.index[k]
      /\ n # NoNode => n \in Ids
      /\ Len(cache.heap) \in Nat
      /\ Len(cache.heap) + 1 <= MaxCalls
      /\ Len(cache.heap) + 1 \in Ids
  BY <1>1, InCall
<1>3. CacheInv(cache, Counts) /\ \A s \in Shards : Len(cache.nodes[s]) <= cap
  BY DEF LRUInv
<1>4. op = "release" => n # NoNode /\ held[u][n] > 0
  BY <1>1, InCall DEF LRUInv, LocksHeld
<1>5. /\ Counts \in [Ids -> Nat]
      /\ Counts[Len(cache.heap) + 1] = 0
      /\ op = "release" => n # NoNode /\ Counts[n] > 0
  BY <1>2, <1>4, CountsType
<1>6. HeldKept(u) /\ Counts' = After(Counts, op, n)
  BY LeaveHeld
<1>7. Good(cache, Effect(cache, op, k, n), After(Counts, op, n), ShardOf[k])
  BY <1>2, <1>3, <1>5, EffectGood
<1>8. Good(cache, cache', Counts', ShardOf[k])
  BY <1>1, <1>6, <1>7
<1>9. /\ CacheInv(cache', Counts')
      /\ \A t \in Shards : Len(cache'.nodes[t]) <= cap
      /\ \A x \in Keys : ShardOf[x] # ShardOf[k] => cache'.index[x] = cache.index[x]
      /\ Len(cache'.heap) \in Len(cache.heap) .. Len(cache.heap) + 1
  BY <1>8 DEF Good
<1>10. \A w \in Users, m \in Ids : m > Len(cache'.heap) => held'[w][m] = 0
  <2>1. \A m \in Ids : m > Len(cache'.heap) => m > Len(cache.heap)
    BY <1>2, <1>9 DEF Ids
  <2> QED BY <1>6, <2>1 DEF HeldKept
<1>11. CacheInv(cache, Counts)'
  BY <1>9
<1> QED BY <1>6, <1>9, <1>10, <1>11 DEF DataKept, HeldKept

\* Taking a free lock: the users in a call are in other shards.
LEMMA EnterKeeps ==
    ASSUME LockType # "NullLock", LRUInv, NEW u \in Users, NEW op \in Ops, NEW k \in Keys,
           Enter(u, op, k)
    PROVE  LRUInv'
<1>0. /\ call[u] = Idle
      /\ calls < MaxCalls
      /\ locker[ShardOf[k]] = NoUser
      /\ op = "release" => cache.index[k] # NoNode /\ held[u][cache.index[k]] > 0
      /\ locker' = [locker EXCEPT ![ShardOf[k]] = u]
      /\ call' = [call EXCEPT ![u] = [op |-> op, key |-> k, found |-> cache.index[k]]]
      /\ calls' = calls + 1
      /\ cache' = cache
      /\ held' = held
  BY DEF Enter, Free, MayCall
<1>1. /\ CacheInv(cache, Counts)
      /\ \A s \in Shards : Len(cache.nodes[s]) <= cap
      /\ ControlOK
      /\ LocksHeld
      /\ Bounded
  BY DEF LRUInv
<1>2. ShardOf[k] \in Shards /\ cache.index[k] \in Nat /\ Len(cache.heap) \in Nat
  BY <1>1, CacheAssumption DEF CacheInv, CacheSet
<1>3. [op |-> op, key |-> k, found |-> cache.index[k]] \in CallSet
  BY <1>2 DEF CallSet
<1>4. [op |-> op, key |-> k, found |-> cache.index[k]] # Idle
  BY DEF Idle, Ops
<1>5. /\ call'[u] = [op |-> op, key |-> k, found |-> cache.index[k]]
      /\ \A w \in Users : w # u => call'[w] = call[w]
  BY <1>0, <1>1 DEF ControlOK
<1>6. /\ locker'[ShardOf[k]] = u
      /\ \A s \in Shards : s # ShardOf[k] => locker'[s] = locker[s]
  BY <1>0, <1>1, <1>2 DEF ControlOK
<1>7. CacheInv(cache, Counts)' /\ \A s \in Shards : Len(cache'.nodes[s]) <= cap
  <2>1. Counts' = Counts
    BY <1>0 DEF Counts, Holders, Gets
  <2> QED BY <1>0, <1>1, <2>1
<1>8. ControlOK'
  <2>1. locker' \in [Shards -> Users \cup {NoUser}]
    BY <1>0, <1>1 DEF ControlOK
  <2>2. call' \in [Users -> {Idle} \cup CallSet]
    BY <1>0, <1>1, <1>3 DEF ControlOK
  <2>3. calls' \in 0 .. MaxCalls
    BY <1>0, <1>1, CacheAssumption DEF ControlOK
  <2> QED BY <1>0, <1>1, <2>1, <2>2, <2>3 DEF ControlOK
<1>9. u \notin Active /\ Active' = Active \cup {u}
  BY <1>0, <1>4, <1>5 DEF Active
<1>10. LocksHeld'
  <2>1. ASSUME NEW w \in Active, w # u
        PROVE  /\ locker'[ShardOf[call'[w].key]] = w
               /\ call'[w].found = cache'.index[call'[w].key]
               /\ call'[w].op = "release" =>
                     call'[w].found # NoNode /\ held'[w][call'[w].found] > 0
    <3>1. w \in Users /\ call[w] # Idle /\ call'[w] = call[w]
      BY <1>5, <2>1 DEF Active
    <3>2. ShardOf[call[w].key] \in Shards /\ locker[ShardOf[call[w].key]] = w
      BY <3>1, InCall
    <3>3. ShardOf[call[w].key] # ShardOf[k]
      BY <1>0, <3>1, <3>2, CacheAssumption
    <3>4. locker'[ShardOf[call'[w].key]] = w
      BY <1>6, <3>1, <3>2, <3>3
    <3>5. /\ call[w].found = cache.index[call[w].key]
          /\ call[w].op = "release" => call[w].found # NoNode /\ held[w][call[w].found] > 0
      BY <1>1 DEF LocksHeld
    <3> QED BY <1>0, <3>1, <3>4, <3>5
  <2>2. /\ locker'[ShardOf[call'[u].key]] = u
        /\ call'[u].found = cache'.index[call'[u].key]
        /\ call'[u].op = "release" => call'[u].found # NoNode /\ held'[u][call'[u].found] > 0
    BY <1>0, <1>5, <1>6
  <2> QED BY <1>9, <2>1, <2>2 DEF LocksHeld
<1>11. Bounded'
  <2>1. IsFiniteSet(Active) /\ Len(cache.heap) + Cardinality(Active) <= calls
    BY <1>1 DEF Bounded
  <2>2. IsFiniteSet(Active') /\ Cardinality(Active') = Cardinality(Active) + 1
    BY <1>9, <2>1, FS_AddElement
  <2>3. Len(cache'.heap) + Cardinality(Active') <= calls'
    <3>1. Cardinality(Active) \in Nat /\ calls \in Nat
      BY <1>1, <2>1, FS_CardinalityType DEF ControlOK
    <3> QED BY <1>0, <1>2, <2>1, <2>2, <3>1
  <2>4. \A n \in Ids : Gets(n)' = Gets(n)
    BY <1>0 DEF Gets
  <2>5. \A n \in Ids : IsFiniteSet(Gets(n)')
    BY <1>1, <2>4 DEF Bounded
  <2>6. \A w \in Users, n \in Ids : n > Len(cache'.heap) => held'[w][n] = 0
    BY <1>0, <1>1 DEF Bounded
  <2> QED BY <2>2, <2>3, <2>5, <2>6 DEF Bounded
<1> QED BY <1>7, <1>8, <1>10, <1>11 DEF LRUInv

\* Giving the lock back: the other users in a call are in other shards, so
\* what they found is still so.
LEMMA LeaveKeeps ==
    ASSUME LRUInv, NEW u \in Users, Leave(u)
    PROVE  LRUInv'
<1>0. /\ call[u] # Idle
      /\ locker' = [locker EXCEPT ![ShardOf[call[u].key]] = NoUser]
      /\ call' = [call EXCEPT ![u] = Idle]
      /\ calls' = calls
  BY DEF Leave
<1>1. DataKept(u)
  BY LeaveData
<1>2. ControlOK /\ LocksHeld /\ Bounded
  BY DEF LRUInv
<1>3. /\ u \in Active
      /\ ShardOf[call[u].key] \in Shards
      /\ locker[ShardOf[call[u].key]] = u
      /\ Len(cache.heap) \in Nat
  BY <1>0, InCall
<1>4. call'[u] = Idle /\ \A w \in Users : w # u => call'[w] = call[w]
  BY <1>0, <1>2 DEF ControlOK
<1>5. \A s \in Shards : s # ShardOf[call[u].key] => locker'[s] = locker[s]
  BY <1>0, <1>2 DEF ControlOK
<1>6. ControlOK'
  BY <1>0, <1>1, <1>2 DEF ControlOK, DataKept
<1>7. Active' = Active \ {u}
  BY <1>4 DEF Active
<1>8. LocksHeld'
  <2> SUFFICES ASSUME NEW w \in Active, w # u
               PROVE  /\ locker'[ShardOf[call'[w].key]] = w
                      /\ call'[w].found = cache'.index[call'[w].key]
                      /\ call'[w].op = "release" =>
                            call'[w].found # NoNode /\ held'[w][call'[w].found] > 0
    BY <1>7 DEF LocksHeld
  <2>1. w \in Users /\ call[w] # Idle /\ call'[w] = call[w]
    BY <1>4 DEF Active
  <2>2. /\ ShardOf[call[w].key] \in Shards
        /\ locker[ShardOf[call[w].key]] = w
        /\ call[w].key \in Keys
        /\ call[w].found = cache.index[call[w].key]
    BY <2>1, InCall
  <2>3. ShardOf[call[w].key] # ShardOf[call[u].key]
    BY <1>3, <2>2
  <2>4. cache'.index[call[w].key] = cache.index[call[w].key] /\ held'[w] = held[w]
    BY <1>1, <2>1, <2>2, <2>3 DEF DataKept
  <2>5. call[w].op = "release" => call[w].found # NoNode /\ held[w][call[w].found] > 0
    BY <1>2 DEF LocksHeld
  <2> QED BY <1>5, <2>1, <2>2, <2>3, <2>4, <2>5
<1>9. Bounded'
  <2>1. IsFiniteSet(Active) /\ Len(cache.heap) + Cardinality(Active) <= calls
    BY <1>2 DEF Bounded
  <2>2. IsFiniteSet(Active') /\ Cardinality(Active') = Cardinality(Active) - 1
    BY <1>3, <1>7, <2>1, FS_RemoveElement
  <2>3. Len(cache'.heap) + Cardinality(Active') <= calls'
    <3>1. Cardinality(Active) \in Nat /\ calls \in Nat
      BY <1>2, <2>1, FS_CardinalityType DEF ControlOK
    <3>2. Len(cache'.heap) \in Len(cache.heap) .. Len(cache.heap) + 1
      BY <1>1 DEF DataKept
    <3> QED BY <1>0, <1>3, <2>1, <2>2, <3>1, <3>2
  <2>4. \A n \in Ids : IsFiniteSet(Gets(n)')
    BY <1>1 DEF DataKept
  <2>5. \A w \in Users, n \in Ids : n > Len(cache'.heap) => held'[w][n] = 0
    BY <1>1 DEF DataKept
  <2> QED BY <2>2, <2>3, <2>4, <2>5 DEF Bounded
<1> QED BY <1>1, <1>6, <1>8, <1>9 DEF LRUInv, DataKept

\* LRUInv holds in every reachable state when shards are locked.
LEMMA LRUInductive ==
    ASSUME LockType # "NullLock"
    PROVE  Spec => []LRUInv
<1>1. LRUInv /\ [Next]_vars => LRUInv'
  <2> SUFFICES ASSUME LRUInv, [Next]_vars PROVE LRUInv'
    OBVIOUS
  <2>1. CASE Next
    <3>1. PICK u \in Users : (\E op \in Ops, k \in Keys : Enter(u, op, k)) \/ Leave(u)
      BY <2>1 DEF Next
    <3>2. CASE \E op \in Ops, k \in Keys : Enter(u, op, k)
      BY <3>2, EnterKeeps
    <3>3. CASE Leave(u)
      BY <3>3, LeaveKeeps
    <3> QED BY <3>1, <3>2, <3>3
  <2>2. CASE UNCHANGED vars
    BY <2>2 DEF vars, LRUInv, Counts, Holders, Gets, ControlOK, LocksHeld, Bounded, Active
  <2> QED BY <2>1, <2>2
<1> QED BY <1>1, LRUInit, PTL DEF Spec

(***************************************************************************)
(* What the invariant says of the properties.                              *)
(***************************************************************************)

\* A node is in the list of its shard if and only if it is marked cached;
\* the number of nodes is within the bound.
LEMMA ListedCached ==
    ASSUME LRUInv
    PROVE  /\ \A n \in Nodes : Listed(n) <=> cache.heap[n].in_cache
           /\ \A n \in Nodes : n \in Ids /\ Counts[n] = Holders(n) /\ cache.heap[n].key \in Keys
           /\ Len(cache.heap) \in Nat
<1>1. CacheInv(cache, Counts) /\ cache \in CacheSet /\ Len(cache.heap) \in Nat
  BY DEF LRUInv, CacheInv, CacheSet
<1>2. \A n \in Nodes : cache.heap[n].key \in Keys
  BY <1>1, NodeType DEF Nodes
<1>3. Len(cache.heap) <= MaxCalls
  <2>1. Cardinality(Active) \in Nat
    BY FS_CardinalityType DEF LRUInv, Bounded
  <2>2. Len(cache.heap) + Cardinality(Active) <= calls /\ calls \in 0 .. MaxCalls
    BY DEF LRUInv, Bounded, ControlOK
  <2> QED BY <1>1, <2>1, <2>2, CacheAssumption
<1>4. \A n \in Nodes : n \in Ids /\ Counts[n] = Holders(n)
  BY <1>1, <1>3, CacheAssumption DEF Nodes, Ids, Counts
<1>5. ASSUME NEW n \in Nodes
      PROVE  Listed(n) <=> cache.heap[n].in_cache
  <2>1. Shard(cache, n) \in Shards
    BY <1>2, CacheAssumption DEF Shard
  <2>2. Linked(cache, Shard(cache, n)) /\ cache.nodes[Shard(cache, n)] \in Seq(Nat)
    BY <1>1, <2>1 DEF CacheInv, CacheSet
  <2>3. Listed(n) <=> n \in ToSet(cache.nodes[Shard(cache, n)])
    BY <2>2 DEF Listed, Contains, ToSet
  <2> QED BY <2>2, <2>3 DEF Linked, Nodes
<1> QED BY <1>1, <1>2, <1>4, <1>5

\* The four properties, from the invariant.
LEMMA InvTypeOK ==
    ASSUME LRUInv
    PROVE  TypeOK
<1>1. CacheInv(cache, Counts) /\ cache \in CacheSet /\ ControlOK /\ LocksHeld
  BY DEF LRUInv, CacheInv
<1>2. cache.nodes \in [Shards -> Seq(Nodes)]
  <2>1. ASSUME NEW s \in Shards PROVE cache.nodes[s] \in Seq(Nodes)
    <3>1. Linked(cache, s) /\ cache.nodes[s] \in Seq(Nat)
      BY <1>1 DEF CacheInv, CacheSet
    <3>2. \A i \in 1 .. Len(cache.nodes[s]) : cache.nodes[s][i] \in Nodes
      BY <3>1 DEF Linked, ToSet, Nodes
    <3> QED BY <3>1, <3>2
  <2>2. cache.nodes \in [Shards -> Seq(Nat)]
    BY <1>1 DEF CacheSet
  <2> QED BY <2>1, <2>2
<1>3. cache.index \in [Keys -> Nodes \cup {NoNode}]
  BY <1>1 DEF CacheInv, CacheSet, Indexed, Nodes
<1>4. cache.garbage_station \in [Keys -> Nodes \cup {NoNode}]
  BY <1>1 DEF CacheInv, CacheSet, Kept, Nodes
<1>5. cache \in [nodes : [Shards -> Seq(Nodes)],
                 index : [Keys -> Nodes \cup {NoNode}],
                 garbage_station : [Keys -> Nodes \cup {NoNode}],
                 heap : Seq(Node)]
  BY <1>1, <1>2, <1>3, <1>4 DEF CacheSet
<1>6. call \in [Users -> {Idle} \cup [op : Ops, key : Keys, found : Nodes \cup {NoNode}]]
  <2>1. ASSUME NEW u \in Users, call[u] # Idle
        PROVE  call[u] \in [op : Ops, key : Keys, found : Nodes \cup {NoNode}]
    <3>1. /\ call[u] \in CallSet
          /\ call[u].key \in Keys
          /\ call[u].found = cache.index[call[u].key]
      BY <2>1, InCall
    <3>2. call[u].found \in Nodes \cup {NoNode}
      BY <1>3, <3>1
    <3> QED BY <3>1, <3>2 DEF CallSet
  <2>2. call \in [Users -> {Idle} \cup CallSet]
    BY <1>1 DEF ControlOK
  <2> QED BY <2>1, <2>2
<1> QED BY <1>1, <1>5, <1>6 DEF TypeOK, ControlOK

\* The lists and the index.
LEMMA InvListsIndexed ==
    ASSUME LRUInv
    PROVE  ListsIndexed
<1>1. CacheInv(cache, Counts) /\ Indexed(cache) /\ Counted(cache, Counts)
  BY DEF LRUInv, CacheInv
<1>2. \A s \in Shards : Len(cache.nodes[s]) <= cap /\ IsInjective(cache.nodes[s])
  BY DEF LRUInv, CacheInv, Linked
<1>3. /\ \A n \in Nodes : Listed(n) <=> cache.heap[n].in_cache
      /\ \A n \in Nodes : cache.heap[n].key \in Keys /\ n \in Ids
  BY ListedCached
<1>4. ASSUME NEW n \in Nodes
      PROVE  /\ cache.heap[n].in_cache <=> cache.index[cache.heap[n].key] = n
             /\ cache.heap[n].in_cache => ~cache.heap[n].freed
  <2>1. n \in 1 .. Len(cache.heap) /\ n # NoNode
    BY <1>3 DEF Nodes, Ids, NoNode
  <2>2. Counts[n] \in Nat
    BY <1>3, CountsType
  <2>3. cache.heap[n].in_cache <=> cache.index[cache.heap[n].key] = n
    BY <1>1, <1>3, <2>1 DEF Indexed
  <2>4. cache.heap[n].in_cache => ~cache.heap[n].freed
    BY <1>1, <2>1, <2>2 DEF Counted
  <2> QED BY <2>3, <2>4
<1> QED BY <1>2, <1>3, <1>4 DEF ListsIndexed

\* The reference counts.
LEMMA InvRefsExact ==
    ASSUME LRUInv
    PROVE  RefsExact
<1>1. Counted(cache, Counts)
  BY DEF LRUInv, CacheInv
<1>2. \A n \in Nodes : (Listed(n) <=> cache.heap[n].in_cache) /\ Counts[n] = Holders(n)
  BY ListedCached
<1> QED BY <1>1, <1>2 DEF RefsExact, Counted, Nodes

\* The garbage station.
LEMMA InvGarbageKept ==
    ASSUME LRUInv
    PROVE  GarbageKept
<1>1. Kept(cache, Counts)
  BY DEF LRUInv, CacheInv
<1>2. \A n \in Nodes : (Listed(n) <=> cache.heap[n].in_cache) /\ Counts[n] = Holders(n)
  BY ListedCached
<1>3. ASSUME NEW k \in Keys, cache.garbage_station[k] # NoNode
      PROVE  /\ ~Listed(cache.garbage_station[k])
             /\ ~cache.heap[cache.garbage_station[k]].freed
             /\ cache.heap[cache.garbage_station[k]].key = k
  BY <1>1, <1>2, <1>3 DEF Kept, Nodes
<1>4. ASSUME NEW n \in Nodes, ~Listed(n), Holders(n) > 0
      PROVE  \/ cache.garbage_station[cache.heap[n].key] = n
             \/ \E m \in Nodes : m > n /\ cache.heap[m].key = cache.heap[n].key
  BY <1>1, <1>2, <1>4 DEF Kept, Nodes
<1> QED BY <1>3, <1>4 DEF GarbageKept

\* Every variable of the cache keeps the type of its C++ counterpart: no
\* list, index entry or garbage entry names a node that was never made, and
\* ref_cnt, an int32_t in the code, is never taken below 0.
THEOREM LRUTypeCorrect ==
    ASSUME LockType # "NullLock"
    PROVE  Spec => []TypeOK
<1>1. LRUInv => TypeOK
  BY InvTypeOK
<1> QED BY <1>1, LRUInductive, PTL

\* The list, the index and in_cache of LRU agree whatever the users do at
\* the same time: push_front, splice, erase and the lookups of the index
\* never see a node that is gone or miss one that is there, and no list is
\* longer than cap.
THEOREM ListsAndIndexAgree ==
    ASSUME LockType # "NullLock"
    PROVE  Spec => []ListsIndexed
<1>1. LRUInv => ListsIndexed
  BY InvListsIndexed
<1> QED BY <1>1, LRUInductive, PTL

\* ref_cnt is exactly the number of gets that were not released, and one
\* more while the node is cached: unref deletes no node that some user
\* still has, and it does delete the node with the last reference.
THEOREM CountsAreExact ==
    ASSUME LockType # "NullLock"
    PROVE  Spec => []RefsExact
<1>1. LRUInv => RefsExact
  BY InvRefsExact
<1> QED BY <1>1, LRUInductive, PTL

\* The garbage station names no deleted node, and it names every node that
\* is in use and no longer cached, except one whose key has a younger node.
THEOREM GarbageIsKept ==
    ASSUME LockType # "NullLock"
    PROVE  Spec => []GarbageKept
<1>1. LRUInv => GarbageKept
  BY InvGarbageKept
<1> QED BY <1>1, LRUInductive, PTL

(***************************************************************************)
(* The sharded cache implements KeyCache, the cache DBImpl is modelled     *)
(* with.  The refinement mapping takes the list of nodes of a shard to the *)
(* list of their keys.  What makes it work is part of the invariant: the   *)
(* nodes of one list have different keys, so removing a node is removing   *)
(* its key, and what a call found in the index is still cached when it     *)
(* goes on.                                                                *)
(***************************************************************************)

\* The keys of the nodes in the list l.
KeysOf(h, l) == [i \in DOMAIN l |-> h[l[i]].key]

\* The nodes in l are known and have different keys.
Distinct(h, l) ==
    /\ l \in Seq(Nat)
    /\ IsInjective(l)
    /\ \A n \in ToSet(l) : h[n].key \in Keys
    /\ \A m, n \in ToSet(l) : h[m].key = h[n].key => m = n

\* The mapping: each shard's keys, the last used first.
Order(c) == [s \in Shards |-> KeysOf(c.heap, c.nodes[s])]

(***************************************************************************)
(* Keys of a list.                                                         *)
(***************************************************************************)

\* The keys of a list of nodes, one by one.
LEMMA KeysOfProperties ==
    ASSUME NEW h, NEW l \in Seq(Nat), \A n \in ToSet(l) : h[n].key \in Keys
    PROVE  /\ KeysOf(h, l) \in Seq(Keys)
           /\ Len(KeysOf(h, l)) = Len(l)
           /\ \A i \in 1 .. Len(l) : KeysOf(h, l)[i] = h[l[i]].key
<1>1. \A i \in 1 .. Len(l) : h[l[i]].key \in Keys
  BY DEF ToSet
<1>2. DOMAIN l = 1 .. Len(l) /\ Len(l) \in Nat
  OBVIOUS
<1> QED BY <1>1, <1>2 DEF KeysOf

\* Nodes with different keys give a list of keys without duplicates.
LEMMA KeysOfDistinct ==
    ASSUME NEW h, NEW l, Distinct(h, l)
    PROVE  /\ KeysOf(h, l) \in Seq(Keys)
           /\ IsInjective(KeysOf(h, l))
           /\ ToSet(KeysOf(h, l)) = {h[n].key : n \in ToSet(l)}
<1>1. /\ KeysOf(h, l) \in Seq(Keys)
      /\ Len(KeysOf(h, l)) = Len(l)
      /\ \A i \in 1 .. Len(l) : KeysOf(h, l)[i] = h[l[i]].key
  BY KeysOfProperties DEF Distinct
<1>2. l \in Seq(Nat) /\ DOMAIN l = 1 .. Len(l) /\ DOMAIN KeysOf(h, l) = 1 .. Len(l)
  BY <1>1 DEF Distinct
<1>3. \A i \in 1 .. Len(l) : l[i] \in ToSet(l)
  BY <1>2 DEF ToSet
<1>4. IsInjective(KeysOf(h, l))
  <2> SUFFICES ASSUME NEW i \in 1 .. Len(l), NEW j \in 1 .. Len(l), h[l[i]].key = h[l[j]].key
               PROVE  i = j
    BY <1>1, <1>2 DEF IsInjective
  <2>1. l[i] = l[j]
    BY <1>3 DEF Distinct
  <2> QED BY <1>2, <2>1 DEF Distinct, IsInjective
<1>5. ToSet(KeysOf(h, l)) = {h[n].key : n \in ToSet(l)}
  BY <1>1, <1>2 DEF ToSet
<1> QED BY <1>1, <1>4, <1>5

\* The key of a node put in front comes first.
LEMMA KeysOfCons ==
    ASSUME NEW h, NEW l \in Seq(Nat), \A m \in ToSet(l) : h[m].key \in Keys,
           NEW n \in Nat, h[n].key \in Keys
    PROVE  KeysOf(h, <<n>> \o l) = <<h[n].key>> \o KeysOf(h, l)
<1> DEFINE a == <<n>> \o l
           b == <<h[n].key>> \o KeysOf(h, l)
<1>1. /\ KeysOf(h, l) \in Seq(Keys)
      /\ Len(KeysOf(h, l)) = Len(l)
      /\ \A i \in 1 .. Len(l) : KeysOf(h, l)[i] = h[l[i]].key
  BY KeysOfProperties
<1>2. /\ a \in Seq(Nat)
      /\ Len(a) = Len(l) + 1
      /\ \A j \in 1 .. Len(l) + 1 : a[j] = IF j = 1 THEN n ELSE l[j - 1]
  BY ConsProperties
<1>3. /\ b \in Seq(Keys)
      /\ Len(b) = Len(l) + 1
      /\ \A j \in 1 .. Len(l) + 1 : b[j] = IF j = 1 THEN h[n].key ELSE KeysOf(h, l)[j - 1]
  BY <1>1, ConsProperties
<1>4. Len(l) \in Nat
  OBVIOUS
<1> HIDE DEF a, b
<1>5. \A m \in ToSet(a) : h[m].key \in Keys
  <2>1. \A j \in 1 .. Len(a) : h[a[j]].key \in Keys
    <3> SUFFICES ASSUME NEW j \in 1 .. Len(a) PROVE h[a[j]].key \in Keys
      OBVIOUS
    <3>1. CASE j = 1
      BY <1>2, <1>4, <3>1
    <3>2. CASE j # 1
      <4>1. j - 1 \in 1 .. Len(l) /\ a[j] = l[j - 1]
        BY <1>2, <1>4, <3>2
      <4> QED BY <4>1 DEF ToSet
    <3> QED BY <3>1, <3>2
  <2>2. DOMAIN a = 1 .. Len(a)
    BY <1>2
  <2> QED BY <2>1, <2>2 DEF ToSet
<1>6. /\ KeysOf(h, a) \in Seq(Keys)
      /\ Len(KeysOf(h, a)) = Len(a)
      /\ \A i \in 1 .. Len(a) : KeysOf(h, a)[i] = h[a[i]].key
  BY <1>2, <1>5, KeysOfProperties
<1>7. \A i \in 1 .. Len(a) : KeysOf(h, a)[i] = b[i]
  <2> SUFFICES ASSUME NEW i \in 1 .. Len(a) PROVE KeysOf(h, a)[i] = b[i]
    OBVIOUS
  <2>1. CASE i = 1
    BY <1>2, <1>3, <1>4, <1>6, <2>1
  <2>2. CASE i # 1
    <3>1. i - 1 \in 1 .. Len(l)
      BY <1>2, <1>4, <2>2
    <3>2. a[i] = l[i - 1] /\ b[i] = KeysOf(h, l)[i - 1]
      BY <1>2, <1>3, <1>4, <2>2
    <3>3. KeysOf(h, l)[i - 1] = h[l[i - 1]].key
      BY <1>1, <3>1
    <3> QED BY <1>6, <3>2, <3>3
  <2> QED BY <2>1, <2>2
<1>8. KeysOf(h, a) = b
  BY <1>2, <1>3, <1>6, <1>7, SeqEqual
<1> QED BY <1>8 DEF a, b

\* Without the node at position p, its key is gone.
LEMMA KeysOfRemoveAt ==
    ASSUME NEW h, NEW l \in Seq(Nat), \A m \in ToSet(l) : h[m].key \in Keys,
           NEW p \in 1 .. Len(l)
    PROVE  KeysOf(h, RemoveAt(l, p)) = RemoveAt(KeysOf(h, l), p)
<1> DEFINE a == RemoveAt(l, p)
           b == RemoveAt(KeysOf(h, l), p)
<1>1. /\ KeysOf(h, l) \in Seq(Keys)
      /\ Len(KeysOf(h, l)) = Len(l)
      /\ \A i \in 1 .. Len(l) : KeysOf(h, l)[i] = h[l[i]].key
  BY KeysOfProperties
<1>2. /\ a \in Seq(Nat)
      /\ Len(a) = Len(l) - 1
      /\ \A j \in 1 .. Len(l) - 1 : a[j] = IF j < p THEN l[j] ELSE l[j + 1]
  BY RemoveAtProperties
<1>3. /\ b \in Seq(Keys)
      /\ Len(b) = Len(l) - 1
      /\ \A j \in 1 .. Len(l) - 1 : b[j] = IF j < p THEN KeysOf(h, l)[j] ELSE KeysOf(h, l)[j + 1]
  BY <1>1, RemoveAtProperties
<1>4. Len(l) \in Nat
  OBVIOUS
<1> HIDE DEF a, b
<1>5. \A j \in 1 .. Len(a) : \E i \in 1 .. Len(l) : a[j] = l[i] /\ b[j] = h[l[i]].key
  <2> SUFFICES ASSUME NEW j \in 1 .. Len(a)
               PROVE  \E i \in 1 .. Len(l) : a[j] = l[i] /\ b[j] = h[l[i]].key
    OBVIOUS
  <2>1. j \in 1 .. Len(l) /\ j + 1 \in 1 .. Len(l) /\ j \in 1 .. Len(l) - 1
    BY <1>2, <1>4
  <2>2. CASE j < p
    <3>1. a[j] = l[j] /\ b[j] = KeysOf(h, l)[j]
      BY <1>2, <1>3, <2>1, <2>2
    <3> QED BY <1>1, <2>1, <3>1
  <2>3. CASE ~(j < p)
    <3>1. a[j] = l[j + 1] /\ b[j] = KeysOf(h, l)[j + 1]
      BY <1>2, <1>3, <2>1, <2>3
    <3> QED BY <1>1, <2>1, <3>1
  <2> QED BY <2>2, <2>3
<1>6. \A m \in ToSet(a) : h[m].key \in Keys
  <2>1. DOMAIN a = 1 .. Len(a)
    BY <1>2
  <2> QED BY <1>5, <2>1 DEF ToSet
<1>7. /\ KeysOf(h, a) \in Seq(Keys)
      /\ Len(KeysOf(h, a)) = Len(a)
      /\ \A i \in 1 .. Len(a) : KeysOf(h, a)[i] = h[a[i]].key
  BY <1>2, <1>6, KeysOfProperties
<1>8. \A i \in 1 .. Len(a) : KeysOf(h, a)[i] = b[i]
  BY <1>5, <1>7
<1>9. KeysOf(h, a) = b
  BY <1>2, <1>3, <1>7, <1>8, SeqEqual
<1> QED BY <1>9 DEF a, b

\* Removing a node is removing its key.
LEMMA KeysOfRemove ==
    ASSUME NEW h, NEW l, Distinct(h, l), NEW n \in ToSet(l)
    PROVE  KeysOf(h, RemoveFirst(l, n)) = RemoveFirst(KeysOf(h, l), h[n].key)
<1>1. l \in Seq(Nat) /\ IsInjective(l) /\ \A m \in ToSet(l) : h[m].key \in Keys
  BY DEF Distinct
<1>2. KeysOf(h, l) \in Seq(Keys) /\ IsInjective(KeysOf(h, l))
  BY KeysOfDistinct
<1>3. PICK p \in 1 .. Len(l) : l[p] = n
  BY <1>1 DEF ToSet
<1>4. Len(KeysOf(h, l)) = Len(l) /\ KeysOf(h, l)[p] = h[n].key
  BY <1>1, <1>3, KeysOfProperties
<1>5. RemoveFirst(l, n) = RemoveAt(l, p)
  BY <1>1, <1>3, RemoveFirstAt
<1>6. RemoveFirst(KeysOf(h, l), KeysOf(h, l)[p]) = RemoveAt(KeysOf(h, l), p)
  BY <1>2, <1>4, RemoveFirstAt
<1>7. KeysOf(h, RemoveAt(l, p)) = RemoveAt(KeysOf(h, l), p)
  BY <1>1, KeysOfRemoveAt
<1> QED BY <1>4, <1>5, <1>6, <1>7

\* The last node goes with its key.
LEMMA KeysOfCapped ==
    ASSUME NEW h, NEW l \in Seq(Nat), \A m \in ToSet(l) : h[m].key \in Keys
    PROVE  KeysOf(h, Capped(l)) = Capped(KeysOf(h, l))
<1>1. /\ KeysOf(h, l) \in Seq(Keys)
      /\ Len(KeysOf(h, l)) = Len(l)
      /\ \A i \in 1 .. Len(l) : KeysOf(h, l)[i] = h[l[i]].key
  BY KeysOfProperties
<1>2. CASE ~(Len(l) > cap)
  BY <1>1, <1>2 DEF Capped
<1>3. CASE Len(l) > cap
  <2> DEFINE a == Front(l)
             b == Front(KeysOf(h, l))
  <2>0. Len(l) \in Nat /\ l # <<>> /\ KeysOf(h, l) # <<>>
    BY <1>1, <1>3, CacheAssumption
  <2>1. a \in Seq(Nat) /\ Len(a) = Len(l) - 1 /\ \A j \in 1 .. Len(l) - 1 : a[j] = l[j]
    BY <2>0, FrontProperties
  <2>2. /\ b \in Seq(Keys)
        /\ Len(b) = Len(l) - 1
        /\ \A j \in 1 .. Len(l) - 1 : b[j] = KeysOf(h, l)[j]
    BY <1>1, <2>0, FrontProperties
  <2> HIDE DEF a, b
  <2>3. \A j \in 1 .. Len(a) : j \in 1 .. Len(l)
    BY <2>0, <2>1
  <2>4. \A m \in ToSet(a) : h[m].key \in Keys
    <3>1. DOMAIN a = 1 .. Len(a)
      BY <2>1
    <3>2. \A j \in 1 .. Len(a) : a[j] = l[j]
      BY <2>1
    <3>3. \A j \in 1 .. Len(l) : l[j] \in ToSet(l)
      BY DEF ToSet
    <3> QED BY <2>3, <3>1, <3>2, <3>3 DEF ToSet
  <2>5. /\ KeysOf(h, a) \in Seq(Keys)
        /\ Len(KeysOf(h, a)) = Len(a)
        /\ \A i \in 1 .. Len(a) : KeysOf(h, a)[i] = h[a[i]].key
    BY <2>1, <2>4, KeysOfProperties
  <2>6. \A i \in 1 .. Len(a) : KeysOf(h, a)[i] = b[i]
    BY <1>1, <2>1, <2>2, <2>3, <2>5
  <2>7. KeysOf(h, a) = b
    BY <2>1, <2>2, <2>5, <2>6, SeqEqual
  <2> QED BY <1>1, <1>3, <2>7 DEF Capped, a, b
<1> QED BY <1>2, <1>3

\* Nodes do not change their keys.
LEMMA KeysOfSame ==
    ASSUME NEW h, NEW g, NEW l \in Seq(Nat), \A n \in ToSet(l) : g[n].key = h[n].key
    PROVE  KeysOf(g, l) = KeysOf(h, l)
<1>1. \A i \in DOMAIN l : l[i] \in ToSet(l)
  BY DEF ToSet
<1> QED BY <1>1 DEF KeysOf

(***************************************************************************)
(* The order of a good cache, and what each operation does to it.          *)
(***************************************************************************)

\* The list of a shard has the keys of the shard that are in the index.
LEMMA OrderProperties ==
    ASSUME NEW c, NEW h, CacheInv(c, h), NEW s \in Shards
    PROVE  /\ c.nodes[s] \in Seq(Nat)
           /\ Distinct(c.heap, c.nodes[s])
           /\ Order(c)[s] = KeysOf(c.heap, c.nodes[s])
           /\ Order(c)[s] \in Seq(Keys)
           /\ Len(Order(c)[s]) = Len(c.nodes[s])
           /\ \A k \in Keys : ShardOf[k] = s =>
                 (k \in ToSet(Order(c)[s]) <=> c.index[k] # NoNode)
<1> DEFINE l == c.nodes[s]
<1>1. c \in CacheSet /\ l \in Seq(Nat) /\ Len(c.heap) \in Nat
  BY DEF CacheInv, CacheSet
<1>2. /\ IsInjective(l)
      /\ ToSet(l) = {n \in 1 .. Len(c.heap) : c.heap[n].in_cache /\ Shard(c, n) = s}
  BY DEF CacheInv, Linked
<1>3. Indexed(c)
  BY DEF CacheInv
<1> HIDE DEF l
<1>4. \A n \in ToSet(l) : n \in 1 .. Len(c.heap) /\ c.heap[n].in_cache /\ c.heap[n].key \in Keys
  BY <1>1, <1>2, NodeType
<1>5. \A m, n \in ToSet(l) : c.heap[m].key = c.heap[n].key => m = n
  BY <1>3, <1>4 DEF Indexed
<1>6. Distinct(c.heap, l)
  BY <1>1, <1>2, <1>4, <1>5 DEF Distinct
<1>7. Order(c)[s] = KeysOf(c.heap, l)
  BY DEF Order, l
<1>8. KeysOf(c.heap, l) \in Seq(Keys) /\ ToSet(KeysOf(c.heap, l)) = {c.heap[n].key : n \in ToSet(l)}
  BY <1>6, KeysOfDistinct
<1>9. Len(KeysOf(c.heap, l)) = Len(l)
  BY <1>1, <1>4, KeysOfProperties
<1>10. ASSUME NEW k \in Keys, ShardOf[k] = s
       PROVE  (\E n \in ToSet(l) : c.heap[n].key = k) <=> c.index[k] # NoNode
  <2>1. ASSUME NEW n \in ToSet(l), c.heap[n].key = k PROVE c.index[k] # NoNode
    BY <1>3, <1>4, <2>1 DEF Indexed, NoNode
  <2>2. ASSUME c.index[k] # NoNode PROVE \E n \in ToSet(l) : c.heap[n].key = k
    <3>1. /\ c.index[k] \in 1 .. Len(c.heap)
          /\ c.heap[c.index[k]].key = k
          /\ c.heap[c.index[k]].in_cache
      BY <1>3, <2>2 DEF Indexed
    <3>2. c.index[k] \in ToSet(l)
      BY <1>2, <1>10, <3>1 DEF Shard
    <3> QED BY <3>1, <3>2
  <2> QED BY <2>1, <2>2
<1>11. \A k \in Keys : ShardOf[k] = s => (k \in ToSet(KeysOf(c.heap, l)) <=> c.index[k] # NoNode)
  BY <1>8, <1>10
<1> QED BY <1>1, <1>6, <1>7, <1>8, <1>9, <1>11 DEF l

\* Only the list of shard s changes, and no key.
LEMMA OrderChange ==
    ASSUME NEW c, NEW h, CacheInv(c, h), NEW d, NEW s \in Shards, NEW q,
           \A m \in 1 .. Len(c.heap) : d.heap[m].key = c.heap[m].key,
           \A t \in Shards : t # s => d.nodes[t] = c.nodes[t],
           KeysOf(d.heap, d.nodes[s]) = q
    PROVE  Order(d) = [Order(c) EXCEPT ![s] = q]
<1>1. ASSUME NEW t \in Shards, t # s
      PROVE  KeysOf(d.heap, d.nodes[t]) = KeysOf(c.heap, c.nodes[t])
  <2>1. c.nodes[t] \in Seq(Nat) /\ \A m \in ToSet(c.nodes[t]) : m \in 1 .. Len(c.heap)
    BY DEF CacheInv, CacheSet, Linked
  <2>2. KeysOf(d.heap, c.nodes[t]) = KeysOf(c.heap, c.nodes[t])
    BY <2>1, KeysOfSame
  <2> QED BY <1>1, <2>2
<1> QED BY <1>1 DEF Order

\* Nodes and keys stay as they are.
LEMMA OrderSame ==
    ASSUME NEW c, NEW h, CacheInv(c, h), NEW d, d.nodes = c.nodes,
           \A m \in 1 .. Len(c.heap) : d.heap[m].key = c.heap[m].key
    PROVE  Order(d) = Order(c)
<1>1. ASSUME NEW t \in Shards
      PROVE  KeysOf(d.heap, d.nodes[t]) = KeysOf(c.heap, c.nodes[t])
  <2>1. c.nodes[t] \in Seq(Nat) /\ \A m \in ToSet(c.nodes[t]) : m \in 1 .. Len(c.heap)
    BY DEF CacheInv, CacheSet, Linked
  <2>2. KeysOf(d.heap, c.nodes[t]) = KeysOf(c.heap, c.nodes[t])
    BY <2>1, KeysOfSame
  <2> QED BY <2>2
<1> QED BY <1>1 DEF Order

\* A key put to the front of a list.
UsedFirst(l, k) == <<k>> \o RemoveFirst(l, k)

\* splice makes the key of the node the last used one of its shard.
LEMMA ToFrontOrder ==
    ASSUME NEW c, NEW h, CacheInv(c, h), NEW n \in 1 .. Len(c.heap), c.heap[n].in_cache,
           NEW d, d = ToFront(c, n), NEW s, s = Shard(c, n), NEW k, k = c.heap[n].key
    PROVE  Order(d) = [Order(c) EXCEPT ![s] = UsedFirst(Order(c)[s], k)]
<1> DEFINE l == c.nodes[s]
           r == RemoveFirst(l, n)
<1>1. k \in Keys /\ s \in Shards /\ l \in Seq(Nat) /\ n \in ToSet(l) /\ IsInjective(l)
  BY InList
<1>2. r \in Seq(Nat) /\ ToSet(r) = ToSet(l) \ {n}
  BY <1>1, RemoveFirstProperties
<1>3. c \in CacheSet
  BY DEF CacheInv
<1>4. d.nodes = [c.nodes EXCEPT ![s] = <<n>> \o r] /\ d.heap = c.heap
  <2>1. RemoveFirst(c.nodes[Shard(c, n)], n) \in Seq(Nat)
    BY <1>2
  <2>2. /\ d.nodes = [c.nodes EXCEPT ![Shard(c, n)] =
                        <<n>> \o RemoveFirst(c.nodes[Shard(c, n)], n)]
        /\ d.heap = c.heap
    BY <1>3, <2>1, ToFrontFields
  <2> QED BY <2>2
<1>5. d.nodes[s] = <<n>> \o r /\ \A t \in Shards : t # s => d.nodes[t] = c.nodes[t]
  BY <1>1, <1>3, <1>4 DEF CacheSet
<1>6. Distinct(c.heap, l) /\ Order(c)[s] = KeysOf(c.heap, l)
  BY <1>1, OrderProperties
<1> HIDE DEF l
<1>7. KeysOf(c.heap, r) = RemoveFirst(KeysOf(c.heap, l), k)
  BY <1>1, <1>6, KeysOfRemove
<1> HIDE DEF r
<1>8. KeysOf(c.heap, <<n>> \o r) = <<k>> \o KeysOf(c.heap, r)
  <2>1. \A m \in ToSet(r) : c.heap[m].key \in Keys
    BY <1>2, <1>6 DEF Distinct
  <2>2. n \in Nat /\ c.heap[n].key \in Keys /\ r \in Seq(Nat)
    BY <1>1, <1>2
  <2>3. KeysOf(c.heap, <<n>> \o r) = <<c.heap[n].key>> \o KeysOf(c.heap, r)
    BY <2>1, <2>2, KeysOfCons
  <2> QED BY <2>3
<1>9. KeysOf(d.heap, d.nodes[s]) = UsedFirst(Order(c)[s], k)
  BY <1>4, <1>5, <1>6, <1>7, <1>8 DEF UsedFirst
<1>10. \A m \in 1 .. Len(c.heap) : d.heap[m].key = c.heap[m].key
  BY <1>4
<1>11. s \in Shards /\ \A t \in Shards : t # s => d.nodes[t] = c.nodes[t]
  BY <1>1, <1>5
<1> QED BY <1>9, <1>10, <1>11, OrderChange

\* phantom_erase_node takes the key of the node out of its shard.
LEMMA PhantomEraseOrder ==
    ASSUME NEW c, NEW h \in [Ids -> Nat], CacheInv(c, h), NEW n \in 1 .. Len(c.heap),
           Len(c.heap) <= MaxCalls, c.heap[n].in_cache, NEW d, d = PhantomEraseNode(c, n),
           NEW s, s = Shard(c, n), NEW k, k = c.heap[n].key
    PROVE  Order(d) = [Order(c) EXCEPT ![s] = RemoveFirst(Order(c)[s], k)]
<1> DEFINE l == c.nodes[s]
           r == RemoveFirst(l, n)
<1>1. k \in Keys /\ s \in Shards /\ l \in Seq(Nat) /\ n \in ToSet(l) /\ IsInjective(l)
  BY InList
<1>2. /\ \A t \in Shards : d.nodes[t] = IF t = s THEN RemoveFirst(c.nodes[t], n) ELSE c.nodes[t]
      /\ \A m \in 1 .. Len(c.heap) : d.heap[m].key = c.heap[m].key
  BY PhantomEraseKeeps
<1>3. d.nodes[s] = r /\ \A t \in Shards : t # s => d.nodes[t] = c.nodes[t]
  BY <1>1, <1>2
<1>4. r \in Seq(Nat) /\ ToSet(r) = ToSet(l) \ {n}
  BY <1>1, RemoveFirstProperties
<1>5. Distinct(c.heap, l) /\ Order(c)[s] = KeysOf(c.heap, l)
  BY <1>1, OrderProperties
<1>6. \A m \in ToSet(l) : m \in 1 .. Len(c.heap)
  BY <1>1 DEF CacheInv, Linked
<1> HIDE DEF l
<1>7. KeysOf(c.heap, r) = RemoveFirst(KeysOf(c.heap, l), k)
  BY <1>1, <1>5, KeysOfRemove
<1> HIDE DEF r
<1>8. KeysOf(d.heap, r) = KeysOf(c.heap, r)
  <2>1. \A m \in ToSet(r) : d.heap[m].key = c.heap[m].key
    BY <1>2, <1>4, <1>6
  <2> QED BY <1>4, <2>1, KeysOfSame
<1>9. KeysOf(d.heap, d.nodes[s]) = RemoveFirst(Order(c)[s], k)
  BY <1>3, <1>5, <1>7, <1>8
<1>10. \A m \in 1 .. Len(c.heap) : d.heap[m].key = c.heap[m].key
  BY <1>2
<1>11. s \in Shards /\ \A t \in Shards : t # s => d.nodes[t] = c.nodes[t]
  BY <1>1, <1>3
<1> QED BY <1>9, <1>10, <1>11, OrderChange

\* insert of a new key puts it first and lets the last one go.
LEMMA PushFrontOrder ==
    ASSUME NEW c, NEW h \in [Ids -> Nat], CacheInv(c, h), NEW k \in Keys, c.index[k] = NoNode,
           \A s \in Shards : Len(c.nodes[s]) <= cap,
           NEW n, n = Len(c.heap) + 1, n <= MaxCalls, h[n] = 0, NEW d, d = PushFront(c, k),
           NEW s, s = ShardOf[k]
    PROVE  Order(d) = [Order(c) EXCEPT ![s] = Capped(UsedFirst(Order(c)[s], k))]
<1> DEFINE l == c.nodes[s]
           a == <<n>> \o l
<1>1. CacheInv(d, h) /\ Inserted(c, k, d, n)
  BY PushFrontKeeps
<1>2. /\ \A t \in Shards : t # s => d.nodes[t] = c.nodes[t]
      /\ d.nodes[s] = Capped(a)
      /\ \A m \in 1 .. Len(c.heap) : d.heap[m].key = c.heap[m].key
      /\ d.heap[n].key = k
  BY <1>1 DEF Inserted
<1>3. s \in Shards /\ Len(c.heap) \in Nat
  BY CacheAssumption DEF CacheInv, CacheSet
<1>4. /\ l \in Seq(Nat)
      /\ Distinct(c.heap, l)
      /\ Order(c)[s] = KeysOf(c.heap, l)
      /\ Order(c)[s] \in Seq(Keys)
      /\ k \notin ToSet(Order(c)[s])
  BY <1>3, OrderProperties
<1>5. \A m \in ToSet(l) : m \in 1 .. Len(c.heap)
  BY <1>3 DEF CacheInv, Linked
<1> HIDE DEF l
<1>6. RemoveFirst(Order(c)[s], k) = Order(c)[s]
  BY <1>4, RemoveFirstNone
<1>7. KeysOf(d.heap, l) = Order(c)[s]
  <2>1. \A m \in ToSet(l) : d.heap[m].key = c.heap[m].key
    BY <1>2, <1>5
  <2> QED BY <1>4, <2>1, KeysOfSame
<1>8. \A m \in ToSet(l) : d.heap[m].key \in Keys
  BY <1>2, <1>4, <1>5 DEF Distinct
<1>9. KeysOf(d.heap, a) = UsedFirst(Order(c)[s], k)
  <2>1. n \in Nat /\ d.heap[n].key \in Keys
    BY <1>2, <1>3
  <2>2. KeysOf(d.heap, <<n>> \o l) = <<d.heap[n].key>> \o KeysOf(d.heap, l)
    BY <1>4, <1>8, <2>1, KeysOfCons
  <2> QED BY <1>2, <1>6, <1>7, <2>2 DEF UsedFirst
<1>10. KeysOf(d.heap, Capped(a)) = Capped(KeysOf(d.heap, a))
  <2>1. n \in Nat
    BY <1>3
  <2>2. a \in Seq(Nat) /\ ToSet(a) = ToSet(l) \cup {n}
    <3>1. n \notin ToSet(l) /\ IsInjective(l)
      BY <1>3, <1>4, <1>5 DEF Distinct
    <3> QED BY <1>4, <2>1, <3>1, PushProperties
  <2>3. \A m \in ToSet(a) : d.heap[m].key \in Keys
    BY <1>2, <1>8, <2>2
  <2> HIDE DEF a
  <2> QED BY <2>2, <2>3, KeysOfCapped
<1>11. KeysOf(d.heap, d.nodes[s]) = Capped(UsedFirst(Order(c)[s], k))
  BY <1>2, <1>9, <1>10
<1> QED BY <1>2, <1>3, <1>11, OrderChange

\* The call op on the key k took the order of c to that of d as KeyCache
\* says.
OrderEffect(c, d, op, k) ==
    LET s == ShardOf[k]
        l == Order(c)[s]
    IN  \/ op = "insert" /\ Order(d) = [Order(c) EXCEPT ![s] = Capped(UsedFirst(l, k))]
        \/ op = "erase" /\ Order(d) = [Order(c) EXCEPT ![s] = RemoveFirst(l, k)]
        \/ op = "get" /\ k \in ToSet(l) /\ Order(d) = [Order(c) EXCEPT ![s] = UsedFirst(l, k)]
        \/ /\ op \in {"contains", "release"} \/ (op = "get" /\ k \notin ToSet(l))
           /\ d.nodes = c.nodes
           /\ Order(d) = Order(c)

\* What each operation does to the order of the keys.
LEMMA EffectOrder ==
    ASSUME NEW c, NEW h \in [Ids -> Nat], CacheInv(c, h), NEW k \in Keys, NEW op \in Ops,
           \A t \in Shards : Len(c.nodes[t]) <= cap,
           Len(c.heap) + 1 <= MaxCalls, h[Len(c.heap) + 1] = 0,
           NEW n, n = c.index[k], op = "release" => n # NoNode /\ h[n] > 0,
           NEW d, d = Effect(c, op, k, n)
    PROVE  OrderEffect(c, d, op, k)
<1> DEFINE s == ShardOf[k]
           l == Order(c)[s]
<1>0. s \in Shards /\ Len(c.heap) \in Nat /\ Len(c.heap) <= MaxCalls
  <2>1. Len(c.heap) \in Nat
    BY DEF CacheInv, CacheSet
  <2> QED BY <2>1, CacheAssumption
<1>1. n # NoNode => /\ n \in 1 .. Len(c.heap)
                    /\ c.heap[n].in_cache
                    /\ c.heap[n].key = k
                    /\ Shard(c, n) = s
  BY DEF CacheInv, Indexed, Shard
<1>2. l \in Seq(Keys) /\ (k \in ToSet(l) <=> n # NoNode) /\ Len(l) = Len(c.nodes[s])
  BY <1>0, OrderProperties
<1>3. CASE op = "contains" \/ (op = "get" /\ n = NoNode)
  <2>1. d = c
    BY <1>3 DEF Effect, Get
  <2> QED BY <1>2, <1>3, <2>1 DEF OrderEffect
<1>4. CASE op = "insert" /\ n = NoNode
  <2>1. d = PushFront(c, k)
    BY <1>4 DEF Effect, Insert
  <2>2. Order(d) = [Order(c) EXCEPT ![s] = Capped(UsedFirst(l, k))]
    <3> DEFINE new == Len(c.heap) + 1
    <3>1. new = Len(c.heap) + 1 /\ new <= MaxCalls /\ h[new] = 0 /\ c.index[k] = NoNode
      BY <1>4
    <3> HIDE DEF new
    <3> QED BY <2>1, <3>1, PushFrontOrder
  <2> QED BY <1>4, <2>2 DEF OrderEffect
<1>5. CASE op = "insert" /\ n # NoNode
  <2>1. d = ToFront(c, n)
    BY <1>5 DEF Effect, Insert
  <2>2. n \in 1 .. Len(c.heap) /\ c.heap[n].in_cache /\ c.heap[n].key = k /\ Shard(c, n) = s
    BY <1>1, <1>5
  <2>3. Order(d) = [Order(c) EXCEPT ![s] = UsedFirst(l, k)]
    BY <2>1, <2>2, ToFrontOrder
  <2>4. Capped(UsedFirst(l, k)) = UsedFirst(l, k)
    <3>1. k \in ToSet(l) /\ IsInjective(l)
      <4>1. Distinct(c.heap, c.nodes[s]) /\ l = KeysOf(c.heap, c.nodes[s])
        BY <1>0, OrderProperties
      <4> QED BY <1>2, <1>5, <4>1, KeysOfDistinct
    <3>2. RemoveFirst(l, k) \in Seq(Keys) /\ Len(RemoveFirst(l, k)) = Len(l) - 1
      BY <1>2, <3>1, RemoveFirstProperties
    <3>3. Len(UsedFirst(l, k)) = Len(RemoveFirst(l, k)) + 1
      BY <3>2, ConsProperties DEF UsedFirst
    <3>4. Len(c.nodes[s]) <= cap /\ Len(l) \in Nat
      BY <1>0, <1>2
    <3> HIDE DEF l
    <3>5. ~(Len(UsedFirst(l, k)) > cap)
      BY <1>2, <3>2, <3>3, <3>4, CacheAssumption
    <3> QED BY <3>5 DEF Capped
  <2> QED BY <1>5, <2>3, <2>4 DEF OrderEffect
<1>6. CASE op = "erase" /\ n = NoNode
  <2>1. d = c
    BY <1>6 DEF Effect, Erase
  <2>2. RemoveFirst(l, k) = l
    BY <1>2, <1>6, RemoveFirstNone
  <2>3. Order(c) = [Order(c) EXCEPT ![s] = l]
    BY <1>0 DEF Order
  <2> QED BY <1>6, <2>1, <2>2, <2>3 DEF OrderEffect
<1>7. CASE op = "erase" /\ n # NoNode
  <2>1. d = PhantomEraseNode(c, n)
    BY <1>7 DEF Effect, Erase
  <2>2. n \in 1 .. Len(c.heap) /\ c.heap[n].in_cache /\ c.heap[n].key = k /\ Shard(c, n) = s
    BY <1>1, <1>7
  <2>3. Order(d) = [Order(c) EXCEPT ![s] = RemoveFirst(l, k)]
    BY <1>0, <2>1, <2>2, PhantomEraseOrder
  <2> QED BY <1>7, <2>3 DEF OrderEffect
<1>8. CASE op = "get" /\ n # NoNode
  <2> DEFINE b == ToFront(c, n)
  <2>1. d = Ref(b, n)
    BY <1>8 DEF Effect, Get
  <2>2. n \in 1 .. Len(c.heap) /\ c.heap[n].in_cache /\ c.heap[n].key = k /\ Shard(c, n) = s
    BY <1>1, <1>8
  <2>3. Order(b) = [Order(c) EXCEPT ![s] = UsedFirst(l, k)]
    BY <2>2, ToFrontOrder
  <2>4. CacheInv(b, h) /\ b.heap = c.heap
    BY <2>2, ToFrontKeeps
  <2> HIDE DEF b
  <2>5. n \in 1 .. Len(b.heap) /\ b.heap[n].in_cache /\ Len(b.heap) <= MaxCalls
    BY <1>0, <2>2, <2>4
  <2>6. CacheInv(b, h)
    BY <2>4
  <2>7. d.nodes = b.nodes /\ \A m \in 1 .. Len(b.heap) : d.heap[m].key = b.heap[m].key
    BY <2>1, <2>5, <2>6, RefKeeps
  <2>8. Order(d) = Order(b)
    BY <2>6, <2>7, OrderSame
  <2> QED BY <1>2, <1>8, <2>3, <2>8 DEF OrderEffect
<1>9. CASE op = "release"
  <2>1. d = Unref(c, n)
    BY <1>9 DEF Effect, Release
  <2>2. n \in 1 .. Len(c.heap) /\ c.heap[n].in_cache /\ h[n] > 0
    BY <1>1, <1>9
  <2>3. d.nodes = c.nodes /\ \A m \in 1 .. Len(c.heap) : d.heap[m].key = c.heap[m].key
    BY <1>0, <2>1, <2>2, UnrefKeeps
  <2>4. Order(d) = Order(c)
    BY <2>3, OrderSame
  <2> QED BY <1>9, <2>3, <2>4 DEF OrderEffect
<1> QED BY <1>3, <1>4, <1>5, <1>6, <1>7, <1>8, <1>9 DEF Ops

\* The rest of a call does to the order what KeyCache says.
LEMMA LeaveOrder ==
    ASSUME LRUInv, NEW u \in Users, Leave(u)
    PROVE  call[u].key \in Keys /\ OrderEffect(cache, cache', call[u].op, call[u].key)
<1> DEFINE op == call[u].op
           k == call[u].key
           n == call[u].found
<1>1. call[u] # Idle /\ cache' = Effect(cache, op, k, n)
  BY DEF Leave
<1>2. /\ op \in Ops
      /\ k \in Keys
      /\ n = cache.index[k]
      /\ n # NoNode => n \in Ids
      /\ Len(cache.heap) \in Nat
      /\ Len(cache.heap) + 1 <= MaxCalls
      /\ Len(cache.heap) + 1 \in Ids
  BY <1>1, InCall
<1>3. CacheInv(cache, Counts) /\ \A s \in Shards : Len(cache.nodes[s]) <= cap
  BY DEF LRUInv
<1>4. op = "release" => n # NoNode /\ held[u][n] > 0
  BY <1>1, InCall DEF LRUInv, LocksHeld
<1>5. /\ Counts \in [Ids -> Nat]
      /\ Counts[Len(cache.heap) + 1] = 0
      /\ op = "release" => n # NoNode /\ Counts[n] > 0
  BY <1>2, <1>4, CountsType
<1> HIDE DEF op, k, n
<1>6. OrderEffect(cache, cache', op, k)
  BY <1>1, <1>2, <1>3, <1>5, EffectOrder
<1> QED BY <1>2, <1>6 DEF op, k

\* The operators of the instance KC are those of this module.
LEMMA KCOperators ==
    ASSUME NEW l, NEW k
    PROVE  /\ KC!RemoveFirst(l, k) = RemoveFirst(l, k)
           /\ KC!Used(l, k) = UsedFirst(l, k)
           /\ KC!Front(l) = Front(l)
<1>0. \A I : KC!Min(I) = Min(I)
  BY Zenon DEF KC!Min, Min
<1>1. KC!RemoveFirst(l, k) = RemoveFirst(l, k)
  BY <1>0 DEF KC!RemoveFirst, RemoveFirst, KC!RemoveAt, RemoveAt, KC!SelectInSeq, SelectInSeq
<1>2. KC!Front(l) = Front(l)
  BY DEF KC!Front, Front
<1> QED BY <1>1, <1>2 DEF KC!Used, UsedFirst

\* The mapping of the instance KC is Order.
LEMMA MappingIsOrder ==
    /\ [s \in Shards |-> [i \in DOMAIN cache.nodes[s] |-> cache.heap[cache.nodes[s][i]].key]]
          = Order(cache)
    /\ [s \in Shards |-> [i \in DOMAIN cache'.nodes[s] |-> cache'.heap[cache'.nodes[s][i]].key]]
          = Order(cache')
  BY DEF Order, KeysOf

\* A key is known to KeyCache if it is in the list.
LEMMA KnownOrder ==
    ASSUME LRUInv, NEW k \in Keys
    PROVE  KC!Known(k) <=> k \in ToSet(Order(cache)[ShardOf[k]])
<1>1. ShardOf[k] \in Shards /\ CacheInv(cache, Counts)
  BY CacheAssumption DEF LRUInv
<1>2. Order(cache)[ShardOf[k]] \in Seq(Keys)
  BY <1>1, OrderProperties
<1>3. KC!Known(k) <=> Contains(Order(cache)[ShardOf[k]], k)
  BY MappingIsOrder DEF KC!Known, KC!Contains, Contains
<1> QED BY <1>2, <1>3 DEF Contains, ToSet

\* A call that returns is a step of KeyCache, or none.
ReturnStep(op, k) ==
    \/ op = "insert" /\ KC!Insert(k)
    \/ op = "erase" /\ KC!Erase(k)
    \/ op = "get" /\ KC!Get(k)
    \/ /\ op \in {"contains", "release"} \/ (op = "get" /\ ~KC!Known(k))
       /\ cache'.nodes = cache.nodes
       /\ Order(cache') = Order(cache)

\* A call that returns is the step of KeyCache that its operation stands for.
LEMMA LeaveIsStep ==
    ASSUME LRUInv, NEW u \in Users, Leave(u), NEW op, op = call[u].op, NEW k, k = call[u].key
    PROVE  k \in Keys /\ ReturnStep(op, k)
<1> DEFINE s == ShardOf[k]
           l == Order(cache)[s]
           order == [t \in Shards |->
                       [i \in DOMAIN cache.nodes[t] |-> cache.heap[cache.nodes[t][i]].key]]
<1>o. order = Order(cache) /\ order' = Order(cache')
  BY MappingIsOrder
<1>i. KC!Insert(k) <=> order' = [order EXCEPT ![s] =
                                   LET q == KC!Used(order[s], k)
                                   IN  IF Len(q) > cap THEN KC!Front(q) ELSE q]
  BY DEF KC!Insert
<1>e. KC!Erase(k) <=> order' = [order EXCEPT ![s] = KC!RemoveFirst(order[s], k)]
  BY DEF KC!Erase
<1>g. KC!Get(k) <=> KC!Known(k) /\ order' = [order EXCEPT ![s] = KC!Used(order[s], k)]
  BY DEF KC!Get
<1> HIDE DEF order
<1>q. \A q : /\ KC!RemoveFirst(q, k) = RemoveFirst(q, k)
             /\ KC!Used(q, k) = UsedFirst(q, k)
             /\ KC!Front(q) = Front(q)
  BY KCOperators
<1>1. k \in Keys /\ OrderEffect(cache, cache', op, k)
  BY LeaveOrder
<1>2. KC!Known(k) <=> k \in ToSet(l)
  BY <1>1, KnownOrder
<1>3. CASE op = "insert" /\ Order(cache') = [Order(cache) EXCEPT ![s] = Capped(UsedFirst(l, k))]
  <2>1. KC!Insert(k)
    <3>1. KC!Used(order[s], k) = UsedFirst(l, k)
      BY <1>o, <1>q
    <3>2. Capped(UsedFirst(l, k)) = LET q == KC!Used(order[s], k)
                                    IN  IF Len(q) > cap THEN KC!Front(q) ELSE q
      BY <1>q, <3>1 DEF Capped
    <3> QED BY <1>3, <1>o, <1>i, <3>2
  <2> QED BY <1>1, <1>3, <2>1 DEF ReturnStep
<1>4. CASE op = "erase" /\ Order(cache') = [Order(cache) EXCEPT ![s] = RemoveFirst(l, k)]
  <2>1. KC!Erase(k)
    <3>1. KC!RemoveFirst(order[s], k) = RemoveFirst(l, k)
      BY <1>o, <1>q
    <3> QED BY <1>4, <1>o, <1>e, <3>1
  <2> QED BY <1>1, <1>4, <2>1 DEF ReturnStep
<1>5. CASE /\ op = "get"
           /\ k \in ToSet(l)
           /\ Order(cache') = [Order(cache) EXCEPT ![s] = UsedFirst(l, k)]
  <2>1. KC!Get(k)
    <3>1. KC!Used(order[s], k) = UsedFirst(l, k)
      BY <1>o, <1>q
    <3> QED BY <1>2, <1>5, <1>o, <1>g, <3>1
  <2> QED BY <1>1, <1>5, <2>1 DEF ReturnStep
<1>6. CASE /\ op \in {"contains", "release"} \/ (op = "get" /\ k \notin ToSet(l))
           /\ cache'.nodes = cache.nodes
           /\ Order(cache') = Order(cache)
  BY <1>1, <1>2, <1>6 DEF ReturnStep
<1> QED BY <1>1, <1>3, <1>4, <1>5, <1>6 DEF OrderEffect

\* Every call of a user takes effect at once and as if it were alone, in
\* the order KeyCache keeps: Cache::get makes its key the last to be
\* evicted, Cache::insert evicts the key that was not used for the longest
\* time, and a call that misses or only looks leaves every list as it is.
THEOREM CallsTakeEffectAtOnce ==
    ASSUME LockType # "NullLock"
    PROVE  Spec => CallsTakeEffect
<1> DEFINE A == \A u \in Users :
                  call[u] # Idle /\ call'[u] = Idle =>
                      LET op == call[u].op
                          k == call[u].key
                      IN  \/ op = "insert" /\ KC!Insert(k)
                          \/ op = "erase" /\ KC!Erase(k)
                          \/ op = "get" /\ KC!Get(k)
                          \/ /\ op \in {"contains", "release"} \/ (op = "get" /\ ~KC!Known(k))
                             /\ UNCHANGED cache.nodes
<1>1. LRUInv /\ [Next]_vars => [A]_vars
  <2> SUFFICES ASSUME LRUInv, Next, NEW u \in Users, call[u] # Idle, call'[u] = Idle
               PROVE  LET op == call[u].op
                          k == call[u].key
                      IN  \/ op = "insert" /\ KC!Insert(k)
                          \/ op = "erase" /\ KC!Erase(k)
                          \/ op = "get" /\ KC!Get(k)
                          \/ /\ op \in {"contains", "release"} \/ (op = "get" /\ ~KC!Known(k))
                             /\ UNCHANGED cache.nodes
    OBVIOUS
  <2>1. PICK w \in Users : (\E op \in Ops, k \in Keys : Enter(w, op, k)) \/ Leave(w)
    BY DEF Next
  <2>2. call \in [Users -> {Idle} \cup CallSet]
    BY DEF LRUInv, ControlOK
  <2>3. ASSUME NEW op \in Ops, NEW k \in Keys, Enter(w, op, k) PROVE FALSE
    BY <2>2, <2>3 DEF Enter, Idle, Ops
  <2>4. Leave(w)
    BY <2>1, <2>3
  <2>5. w = u
    BY <2>2, <2>4 DEF Leave
  <2>6. Leave(u)
    BY <2>4, <2>5
  <2>7. PICK op, k : op = call[u].op /\ k = call[u].key
    OBVIOUS
  <2>8. ReturnStep(op, k)
    BY <2>6, <2>7, LeaveIsStep
  <2> QED BY <2>7, <2>8 DEF ReturnStep, KC!Insert, KC!Erase, KC!Get, KC!Known
<1> QED BY <1>1, LRUInductive, PTL DEF Spec, CallsTakeEffect

\* The cache that DBImpl uses, with its nodes, reference counts, garbage
\* station and locks, implements the cache of keys that DBImpl is modelled
\* with.
THEOREM CacheRefinesKeyCache ==
    ASSUME LockType # "NullLock"
    PROVE  Spec => ImplementsKeyCache
<1> DEFINE order == [s \in Shards |->
                       [i \in DOMAIN cache.nodes[s] |-> cache.heap[cache.nodes[s][i]].key]]
<1>1. Init => KC!Init
  BY DEF Init, KC!Init
<1>2. LRUInv /\ [Next]_vars => [KC!Next]_order
  <2> SUFFICES ASSUME LRUInv, [Next]_vars PROVE KC!Next \/ order' = order
    OBVIOUS
  <2>1. ASSUME NEW u \in Users, NEW op \in Ops, NEW k \in Keys, Enter(u, op, k)
        PROVE  order' = order
    BY <2>1 DEF Enter
  <2>2. ASSUME NEW u \in Users, Leave(u)
        PROVE  KC!Next \/ order' = order
    <3>1. PICK op, k : op = call[u].op /\ k = call[u].key
      OBVIOUS
    <3>2. k \in Keys /\ ReturnStep(op, k)
      BY <2>2, <3>1, LeaveIsStep
    <3>3. Order(cache') = Order(cache) => order' = order
      BY MappingIsOrder
    <3> QED BY <3>2, <3>3 DEF KC!Next, ReturnStep
  <2>3. CASE UNCHANGED vars
    BY <2>3 DEF vars
  <2> QED BY <2>1, <2>2, <2>3 DEF Next
<1> QED BY <1>1, <1>2, LRUInductive, PTL DEF Spec, ImplementsKeyCache, KC!Spec
============================================================================
