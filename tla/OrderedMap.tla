----------------------------- MODULE OrderedMap -----------------------------
(***************************************************************************)
(* What the memtable expects of its skip list: a map from keys to values   *)
(* that can be read in the order of the keys.  Keys are represented by     *)
(* their rank in the order of strings.                                     *)
(***************************************************************************)
EXTENDS Integers, Sequences

CONSTANTS Keys, Values, Absent

\* insert and remove change the map, the others only read it.
Ops == {"Insert", "Delete", "Get", "Contains", "Scan"}

NoAnswer == [found |-> FALSE, val |-> Absent, keys |-> <<>>]

VARIABLES
    map,        \* map[k]: the value of k, or Absent
    req,        \* the operation that runs: its name, key and value
    step,       \* "idle", "asked" or "applied"
    ret         \* what the last operation answered

vars == <<map, req, step, ret>>

Present == {k \in Keys : map[k] # Absent}

Init ==
    /\ map = [k \in Keys |-> Absent]
    /\ req \in [op : Ops, key : Keys, val : Values]
    /\ step = "idle"
    /\ ret = NoAnswer

Ask(r) ==
    /\ step = "idle"
    /\ req' = r
    /\ step' = "asked"
    /\ ret' = NoAnswer
    /\ UNCHANGED map

\* Insert leaves a key that is there alone; Delete of a key that is not
\* there does nothing.
Apply ==
    /\ step = "asked"
    /\ req.op \in {"Insert", "Delete"}
    /\ map' = [map EXCEPT ![req.key] =
                 IF req.op = "Delete" THEN Absent ELSE IF @ = Absent THEN req.val ELSE @]
    /\ step' = "applied"
    /\ UNCHANGED <<req, ret>>

\* keys visits every key that is there once, in ascending order.
Visits(keys) ==
    /\ keys \in Seq(Keys)
    /\ \A a, b \in 1 .. Len(keys) : a < b => keys[a] < keys[b]
    /\ {keys[a] : a \in 1 .. Len(keys)} = Present

\* answer is what the operation has to answer.
Answers(answer) ==
    CASE req.op = "Get" ->
           answer = [NoAnswer EXCEPT !.found = map[req.key] # Absent, !.val = map[req.key]]
      [] req.op = "Contains" -> answer = [NoAnswer EXCEPT !.found = map[req.key] # Absent]
      [] req.op = "Scan" -> Visits(answer.keys) /\ answer = [NoAnswer EXCEPT !.keys = answer.keys]
      [] OTHER -> answer = NoAnswer

\* A write returns once it is applied.
Return ==
    /\ step = IF req.op \in {"Insert", "Delete"} THEN "applied" ELSE "asked"
    /\ step' = "idle"
    /\ Answers(ret')
    /\ UNCHANGED <<map, req>>

\* The write changes nothing: it returns at once.
ReturnUnchanged ==
    /\ step = "asked"
    /\ \/ req.op = "Insert" /\ map[req.key] # Absent
       \/ req.op = "Delete" /\ map[req.key] = Absent
    /\ step' = "idle"
    /\ UNCHANGED <<map, req, ret>>

Next ==
    \/ \E r \in [op : Ops, key : Keys, val : Values] : Ask(r)
    \/ Apply
    \/ Return
    \/ ReturnUnchanged

Spec == Init /\ [][Next]_vars
=============================================================================
