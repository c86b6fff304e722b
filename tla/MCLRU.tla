-------------------------------- MODULE MCLRU --------------------------------
(***************************************************************************)
(* Constants for model checking LRU: a shard with three keys and room for  *)
(* two, and a shard with one key.                                          *)
(***************************************************************************)
EXTENDS LRU, TLC

MCShardOf == [k \in Keys |-> IF k = "d" THEN 2 ELSE 1]

Symmetry == Permutations(Users)
=============================================================================
