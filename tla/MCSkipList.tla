----------------------------- MODULE MCSkipList -----------------------------
(***************************************************************************)
(* Constants for model checking SkipList.  Different keys and different    *)
(* values have different sizes, so that no two accounts agree by chance.   *)
(***************************************************************************)
EXTENDS SkipList

MCKeys == 1 .. 3
MCValues == {"x", "yy"}
MCKeySize == [k \in Keys |-> 2 * k]
MCValueSize == [v \in Values |-> IF v = "x" THEN 1 ELSE 10]
=============================================================================
