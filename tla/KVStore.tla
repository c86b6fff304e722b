------------------------------- MODULE KVStore -------------------------------
(***************************************************************************)
(* What a caller of smallkv::DB may rely on, whatever the interleaving:    *)
(* the abstract specification that DBImpl implements.                      *)
(*                                                                         *)
(* A key is known by its name, the bytes before its first NUL (the         *)
(* memtable and the cache look keys up by C string).  live[n] holds every  *)
(* value a Get of n may answer: the values written since the last Delete   *)
(* of n, or only the empty string just after one.  This is weaker than a   *)
(* map: a Put is not promised to hide the value it overwrites.  A value is *)
(* readable as it was given or cut at its first NUL.                       *)
(*                                                                         *)
(* Each thread runs one call at a time: Invoke, then (for a write) Apply,  *)
(* then Respond.  Lose is the death of the process: nothing written before *)
(* it can be read after it.                                                *)
(***************************************************************************)
CONSTANTS
    Threads,    \* client threads
    Keys,       \* non-empty keys
    Values,     \* non-empty values
    Empty,      \* the empty string
    CStr,       \* CStr[s]: s up to its first NUL byte
    NullPtr     \* Get called without an output string

KeyArgs == Keys \cup {Empty}
ValArgs == Values \cup {Empty}

(***************************************************************************)
(* A call: val is the value to write, Empty for Delete and for a Get with  *)
(* an output string, NullPtr for a Get without one.                        *)
(***************************************************************************)
CallSet ==
         [op : {"Put"}, key : KeyArgs, val : ValArgs]
    \cup [op : {"Delete"}, key : KeyArgs, val : {Empty}]
    \cup [op : {"Get"}, key : KeyArgs, val : {Empty, NullPtr}]

\* The outcome of a call: a status code and the string Get wrote.
Pending == [status |-> "Pending", val |-> Empty]
Fail    == [status |-> "InvalidArgs", val |-> Empty]
Done(v) == [status |-> "Success", val |-> v]

VARIABLES
    call,       \* call[t]: the last call of thread t
    phase,      \* phase[t]: "idle", "asked" or "applied"
    res,        \* res[t]: its outcome, Pending until it is known
    live        \* live[n]: the values a Get of the name n may answer

vars == <<call, phase, res, live>>

Init ==
    /\ call \in [Threads -> CallSet]
    /\ phase = [t \in Threads |-> "idle"]
    /\ res = [t \in Threads |-> Pending]
    /\ live = [n \in KeyArgs |-> {}]

\* Thread t starts the call c.
Invoke(t, c) ==
    /\ phase[t] = "idle"
    /\ call' = [call EXCEPT ![t] = c]
    /\ phase' = [phase EXCEPT ![t] = "asked"]
    /\ res' = [res EXCEPT ![t] = Pending]
    /\ UNCHANGED live

\* What the call c of a writer does to the readable values l.
AfterWrite(l, c) ==
    LET n == CStr[c.key] IN
    [l EXCEPT ![n] = IF c.op = "Put" THEN @ \cup {c.val, CStr[c.val]} ELSE {Empty}]

\* A Put takes effect; even a Put of an empty key or value does.
\* Delete takes effect only for a key that is not empty.
Apply(t) ==
    /\ phase[t] = "asked"
    /\ \/ call[t].op = "Put"
       \/ call[t].op = "Delete" /\ call[t].key # Empty
    /\ live' = AfterWrite(live, call[t])
    /\ phase' = [phase EXCEPT ![t] = "applied"]
    /\ UNCHANGED <<call, res>>

\* The outcomes the call of t may have now.
Outcomes(t) ==
    LET c == call[t] IN
    CASE c.op = "Put" ->
            IF phase[t] # "applied" THEN {}
            ELSE IF c.key = Empty \/ c.val = Empty THEN {Fail} ELSE {Done(Empty)}
      [] c.op = "Delete" ->
            IF c.key = Empty THEN {Fail}
            ELSE IF phase[t] = "applied" THEN {Done(Empty)} ELSE {}
      [] c.op = "Get" ->
            IF c.key = Empty \/ c.val = NullPtr THEN {Fail}
            ELSE {Done(v) : v \in live[CStr[c.key]]}

Respond(t) ==
    /\ phase[t] # "idle"
    /\ res[t] = Pending
    /\ \E r \in Outcomes(t) : res' = [res EXCEPT ![t] = r]
    /\ UNCHANGED <<call, phase, live>>

\* The call returns to the caller.
Return(t) ==
    /\ phase[t] # "idle"
    /\ res[t] # Pending
    /\ phase' = [phase EXCEPT ![t] = "idle"]
    /\ UNCHANGED <<call, res, live>>

\* The process dies and starts again: every name loses all its values.
Lose ==
    /\ phase' = [t \in Threads |-> "idle"]
    /\ live' = [n \in KeyArgs |-> {}]
    /\ UNCHANGED <<call, res>>

Next ==
    \/ \E t \in Threads :
          \/ \E c \in CallSet : Invoke(t, c)
          \/ Apply(t)
          \/ Respond(t)
          \/ Return(t)
    \/ Lose

Spec == Init /\ [][Next]_vars
=============================================================================
