------------------------------ MODULE MCSSTable ------------------------------
(***************************************************************************)
(* Constants for model checking SSTable: keys that are prefixes of one     *)
(* another, agree again after they differ, or have a byte below a space or *)
(* with no successor; values that are empty, a newline, or long enough to  *)
(* fill a block.                                                           *)
(***************************************************************************)
EXTENDS SSTable

MCKeys == {<<97>>, <<97, 9>>, <<97, 98, 99>>, <<97, 98, 100>>, <<98, 100, 99>>, <<255>>}
\* Plain keys, the first of which is a prefix of the second.
DocKeys == {<<97>>, <<97, 98, 99>>}
MCValues == {<<>>, <<10>>, <<1, 2, 3, 4>>, [i \in 1 .. 30 |-> 5]}

MCHash == [k \in MCKeys |-> (7 * k[1] + 29 * Len(k) + 13 * k[Len(k)]) % 256]
=============================================================================
