------------------------------ MODULE MCDBImpl ------------------------------
(***************************************************************************)
(* Constants for model checking DBImpl.  Strings are TLA+ strings; "0"     *)
(* stands for a NUL byte.                                                  *)
(***************************************************************************)
EXTENDS DBImpl

MCKeys == {"a", "b"}
MCNulKeys == {"a", "a0b", "0b"}
MCValues == {"x", "y"}
MCNulValues == {"x", "x0y", "xyz"}
MCOneValue == {"x"}

MCCStr == [s \in {"", "a", "b", "x", "y", "xyz"} |-> s]
          @@ [s \in {"a0b"} |-> "a"] @@ [s \in {"x0y"} |-> "x"] @@ [s \in {"0b"} |-> ""]

MCSizeOf == [s \in {""} |-> 0] @@ [s \in {"a", "b", "x", "y"} |-> 1]
            @@ [s \in {"0b"} |-> 2] @@ [s \in {"a0b", "x0y", "xyz"} |-> 3]

\* All keys in one shard, or the one that starts with a NUL in its own.
MCOneShard == [k \in KeyArgs |-> 1]
MCTwoShards == [k \in KeyArgs |-> IF k = "0b" THEN 2 ELSE 1]

Symmetry == Permutations(Threads)
=============================================================================
