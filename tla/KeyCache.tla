------------------------------ MODULE KeyCache ------------------------------
(***************************************************************************)
(* What a sharded LRU cache promises: every shard keeps its keys in the    *)
(* order of their last use and at most cap of them, and each call takes    *)
(* effect at once.                                                         *)
(***************************************************************************)
EXTENDS Naturals, Sequences, SequencesExt

CONSTANTS
    Keys,
    Shards, ShardOf,    \* ShardOf[k]: the shard of the key k
    cap                 \* the capacity of a shard

VARIABLE order          \* order[s]: the keys of shard s, the last used first

Init == order = [s \in Shards |-> <<>>]

Known(k) == Contains(order[ShardOf[k]], k)

Used(s, k) == <<k>> \o RemoveFirst(s, k)

Insert(k) ==
    order' = [order EXCEPT ![ShardOf[k]] =
                LET s == Used(@, k) IN IF Len(s) > cap THEN Front(s) ELSE s]

Erase(k) == order' = [order EXCEPT ![ShardOf[k]] = RemoveFirst(@, k)]

Get(k) == Known(k) /\ order' = [order EXCEPT ![ShardOf[k]] = Used(@, k)]

Next == \E k \in Keys : Insert(k) \/ Erase(k) \/ Get(k)

Spec == Init /\ [][Next]_order
=============================================================================
