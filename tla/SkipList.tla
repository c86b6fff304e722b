------------------------------ MODULE SkipList ------------------------------
(***************************************************************************)
(* smallkv::SkipList, one step per round of a loop.  A node is named by    *)
(* its key: keys are unique and a node's key never changes.  Keys are      *)
(* their rank in the order of strings; Head and Null are numbers that are  *)
(* not keys, Head below all of them.                                       *)
(*                                                                         *)
(* The list is not thread safe: one operation runs at a time.              *)
(***************************************************************************)
EXTENDS Integers, Sequences, SequencesExt, FiniteSets, FiniteSetsExt

CONSTANTS
    Keys,           \* ranks of the keys
    Values,         \* values
    Absent,         \* nullopt
    kMaxHeight,     \* the height of the head
    KeySize,        \* key.size()
    ValueSize       \* value.size()

ASSUME KeysAssumption ==
    /\ Keys \subseteq Nat
    /\ Keys # {}
    /\ Values # {}
    /\ Absent \notin Values
ASSUME HeightAssumption == kMaxHeight \in Nat \ {0}
ASSUME SizeAssumption ==
    /\ KeySize \in [Keys -> Nat]
    /\ ValueSize \in [Values -> Nat]

Head_ == -1
Null == -2
Nodes == Keys \cup {Head_}
Levels == 0 .. kMaxHeight - 1
Ops == {"Insert", "Delete", "Get", "Contains", "Scan"}
Requests == [op : Ops, key : Keys, val : Values]
NoAnswer == [found |-> FALSE, val |-> Absent, keys |-> <<>>]

VARIABLES
    next,       \* next[l][n]: the successor of node n on level l
    height,     \* height[k]: the length of k's next vector; 0: k has no node
    value,      \* value[k]: the value in k's node, or Absent
    max_level, size, mem_usage,
    req,        \* the operation that runs
    pc,         \* the loop it is in
    cur, level, \* the loop variables of a descent
    prev,       \* prev[l]: where key goes or is on level l; Null: not set
    target,     \* level_of_target_node
    i,          \* the loop variable of the linking loops
    ret         \* what the last operation returned; the scan so far

listVars == <<next, height, value>>
countVars == <<max_level, size, mem_usage>>
loopVars == <<cur, level, prev, target, i>>
vars == <<listVars, countVars, req, pc, loopVars, ret>>

NoPrev == [l \in Levels |-> Null]

Init ==
    /\ next = [l \in Levels |-> [n \in Nodes |-> Null]]
    /\ height = [k \in Keys |-> 0]
    /\ value = [k \in Keys |-> Absent]
    /\ max_level = 1
    /\ size = 0
    /\ mem_usage = 0
    /\ req = CHOOSE r \in Requests : TRUE
    /\ pc = "idle"
    /\ cur = Head_
    /\ level = 0
    /\ prev = NoPrev
    /\ target = -1
    /\ i = 0
    /\ ret = NoAnswer

\* Every descent starts at the head, on the highest level in use.
Descend(where) ==
    /\ pc' = where
    /\ cur' = Head_
    /\ level' = max_level - 1

\* The operation returns; its local variables are gone.
Finish(answer) ==
    /\ pc' = "idle"
    /\ ret' = answer
    /\ cur' = Head_
    /\ level' = 0
    /\ prev' = NoPrev
    /\ target' = -1
    /\ i' = 0

\* Insert and Delete begin with Contains.  A scan is MoveToFirst.
Start(r) ==
    /\ pc = "idle"
    /\ req' = r
    /\ ret' = NoAnswer
    /\ IF r.op = "Scan"
       THEN pc' = "scan" /\ cur' = next[0][Head_] /\ UNCHANGED level
       ELSE Descend("search")
    /\ UNCHANGED <<listVars, countVars, prev, target, i>>

(***************************************************************************)
(* The loop of Get and Contains.                                           *)
(***************************************************************************)
succ == next[level][cur]

SearchDown ==
    /\ pc = "search"
    /\ succ = Null \/ succ > req.key
    /\ level > 0
    /\ level' = level - 1
    /\ UNCHANGED <<listVars, countVars, req, pc, cur, prev, target, i, ret>>

SearchRight ==
    /\ pc = "search"
    /\ succ # Null
    /\ succ < req.key
    /\ cur' = succ
    /\ UNCHANGED <<listVars, countVars, req, pc, level, prev, target, i, ret>>

\* Mutant: the deleted key is still counted.
DeleteBegins_StillCounted ==
    /\ Descend("delfind")
    /\ UNCHANGED <<size, prev, target, i, ret>>

\* Delete counts the key off and looks for the nodes before it.
DeleteBegins ==
    /\ Descend("delfind")
    /\ size' = size - 1
    /\ UNCHANGED <<prev, target, i, ret>>

\* The key is there: Get and Contains answer, Insert gives up, Delete goes
\* on.
SearchFound ==
    /\ pc = "search"
    /\ succ = req.key
    /\ IF req.op = "Delete" THEN DeleteBegins
       ELSE /\ Finish([NoAnswer EXCEPT
                         !.found = req.op \in {"Get", "Contains"},
                         !.val = IF req.op = "Get" THEN value[succ] ELSE Absent])
            /\ UNCHANGED size
    /\ UNCHANGED <<listVars, max_level, mem_usage, req>>

\* Insert counts the key and looks for its place.
InsertBegins ==
    /\ Descend("findprev")
    /\ size' = size + 1
    /\ mem_usage' = mem_usage + KeySize[req.key] + ValueSize[req.val]
    /\ UNCHANGED <<prev, target, i, ret>>

\* The key is not there: Insert goes on, the others return.
SearchMissed ==
    /\ pc = "search"
    /\ succ = Null \/ succ > req.key
    /\ level = 0
    /\ IF req.op = "Insert" THEN InsertBegins
       ELSE /\ Finish(NoAnswer)
            /\ UNCHANGED <<size, mem_usage>>
    /\ UNCHANGED <<listVars, max_level, req>>

(***************************************************************************)
(* Insert: FindPrevNode, RandomLevel, and the loop that links the node.    *)
(***************************************************************************)
FindPrevRight ==
    /\ pc = "findprev"
    /\ succ # Null
    /\ succ < req.key
    /\ cur' = succ
    /\ UNCHANGED <<listVars, countVars, req, pc, level, prev, target, i, ret>>

\* Mutant: the level is noted but not left.
FindPrevDown_SameLevel ==
    /\ pc = "findprev"
    /\ succ = Null \/ succ >= req.key
    /\ level > 0
    /\ prev' = [prev EXCEPT ![level] = cur]
    /\ UNCHANGED <<listVars, countVars, req, pc, cur, level, target, i, ret>>

FindPrevDown ==
    /\ pc = "findprev"
    /\ succ = Null \/ succ >= req.key
    /\ level > 0
    /\ prev' = [prev EXCEPT ![level] = cur]
    /\ level' = level - 1
    /\ UNCHANGED <<listVars, countVars, req, pc, cur, target, i, ret>>

\* Mutant: one coin toss too many.
RandomLevel_OnePast == 1 .. kMaxHeight + 1

\* A coin is tossed until it falls tails or the node is as high as the head.
RandomLevel == 1 .. kMaxHeight

\* Mutant: the level the list has grown by is not counted.
NewNode_KeepsLevel(h) ==
    /\ pc = "findprev"
    /\ succ = Null \/ succ >= req.key
    /\ level = 0
    /\ prev' = [prev EXCEPT ![0] = cur]
    /\ height' = [height EXCEPT ![req.key] = h]
    /\ value' = [value EXCEPT ![req.key] = req.val]
    /\ i' = 0
    /\ pc' = "link"
    /\ UNCHANGED <<next, countVars, req, cur, level, target, ret>>

\* On level 0 the search ends; the new node gets a random height.
NewNode(h) ==
    /\ pc = "findprev"
    /\ succ = Null \/ succ >= req.key
    /\ level = 0
    /\ prev' = [prev EXCEPT ![0] = cur]
    /\ max_level' = IF h > max_level THEN h ELSE max_level
    /\ height' = [height EXCEPT ![req.key] = h]
    /\ value' = [value EXCEPT ![req.key] = req.val]
    /\ i' = 0
    /\ pc' = "link"
    /\ UNCHANGED <<next, size, mem_usage, req, cur, level, target, ret>>

\* Mutant: the new node forgets the rest of the level.
Link_CutsOff ==
    /\ pc = "link"
    /\ i < height[req.key]
    /\ next' = [next EXCEPT ![i][req.key] = Null,
                            ![i][IF prev[i] = Null THEN Head_ ELSE prev[i]] = req.key]
    /\ i' = i + 1
    /\ UNCHANGED <<height, value, countVars, req, pc, cur, level, prev, target, ret>>

\* One round of the loop that links the new node, level by level.
Link ==
    /\ pc = "link"
    /\ i < height[req.key]
    /\ next' = IF prev[i] = Null
               THEN [next EXCEPT ![i][req.key] = Null, ![i][Head_] = req.key]
               ELSE [next EXCEPT ![i][req.key] = next[i][prev[i]], ![i][prev[i]] = req.key]
    /\ i' = i + 1
    /\ UNCHANGED <<height, value, countVars, req, pc, cur, level, prev, target, ret>>

Linked ==
    /\ pc = "link"
    /\ i = height[req.key]
    /\ Finish(NoAnswer)
    /\ UNCHANGED <<listVars, countVars, req>>

(***************************************************************************)
(* Delete: its own descent, the accounts, and the unlinking loop.          *)
(***************************************************************************)
DeleteRight ==
    /\ pc = "delfind"
    /\ succ # Null
    /\ succ < req.key
    /\ cur' = succ
    /\ UNCHANGED <<listVars, countVars, req, pc, level, prev, target, i, ret>>

\* The end of a level: down, prev stays unset there.  The end of level 0
\* is the code's "A error point".
DeleteEnd ==
    /\ pc = "delfind"
    /\ succ = Null
    /\ IF level = 0 THEN pc' = "account" /\ UNCHANGED level
                    ELSE level' = level - 1 /\ UNCHANGED pc
    /\ UNCHANGED <<listVars, countVars, req, cur, prev, target, i, ret>>

\* Mutant: the descent stops where it finds the key.
DeleteDown_StopsEarly ==
    /\ pc = "delfind"
    /\ succ # Null
    /\ succ >= req.key
    /\ prev' = [prev EXCEPT ![level] = cur]
    /\ target' = IF succ = req.key THEN height[succ] ELSE target
    /\ IF level = 0 \/ succ = req.key
       THEN pc' = "account" /\ UNCHANGED level
       ELSE level' = level - 1 /\ UNCHANGED pc
    /\ UNCHANGED <<listVars, countVars, req, cur, i, ret>>

\* The key or a larger one: note the node before it and go down; below
\* level 0 the descent is over.
DeleteDown ==
    /\ pc = "delfind"
    /\ succ # Null
    /\ succ >= req.key
    /\ prev' = [prev EXCEPT ![level] = cur]
    /\ target' = IF succ = req.key THEN height[succ] ELSE target
    /\ IF level = 0 THEN pc' = "account" /\ UNCHANGED level
                    ELSE level' = level - 1 /\ UNCHANGED pc
    /\ UNCHANGED <<listVars, countVars, req, cur, i, ret>>

\* Mutant: only the key's size is taken off.
Account_KeyOnly ==
    /\ pc = "account"
    /\ mem_usage' = mem_usage - KeySize[req.key]
    /\ i' = 0
    /\ pc' = "unlink"
    /\ UNCHANGED <<listVars, max_level, size, req, cur, level, prev, target, ret>>

\* prev[0]->next[0] is the node to delete.
Account ==
    /\ pc = "account"
    /\ mem_usage' = mem_usage - KeySize[req.key] - ValueSize[value[next[0][prev[0]]]]
    /\ i' = 0
    /\ pc' = "unlink"
    /\ UNCHANGED <<listVars, max_level, size, req, cur, level, prev, target, ret>>

Unlink ==
    /\ pc = "unlink"
    /\ i < target
    /\ next' = IF prev[i] = Null THEN next
               ELSE [next EXCEPT ![i][prev[i]] = next[i][next[i][prev[i]]]]
    /\ i' = i + 1
    /\ UNCHANGED <<height, value, countVars, req, pc, cur, level, prev, target, ret>>

\* Nothing points to the node any more: nothing is known of it either.
Unlinked ==
    /\ pc = "unlink"
    /\ i >= target
    /\ next' = [l \in Levels |-> [next[l] EXCEPT ![req.key] = Null]]
    /\ height' = [height EXCEPT ![req.key] = 0]
    /\ value' = [value EXCEPT ![req.key] = Absent]
    /\ Finish(NoAnswer)
    /\ UNCHANGED <<countVars, req>>

(***************************************************************************)
(* SkipListIterator, from MoveToFirst until it is not Valid.               *)
(***************************************************************************)
ScanNext ==
    /\ pc = "scan"
    /\ cur # Null
    /\ ret' = [ret EXCEPT !.keys = Append(@, cur)]
    /\ cur' = next[0][cur]
    /\ UNCHANGED <<listVars, countVars, req, pc, level, prev, target, i>>

ScanEnd ==
    /\ pc = "scan"
    /\ cur = Null
    /\ Finish(ret)
    /\ UNCHANGED <<listVars, countVars, req>>

\* The rounds of the loops.
Step ==
    \/ SearchDown \/ SearchRight \/ SearchFound \/ SearchMissed
    \/ FindPrevRight \/ FindPrevDown \/ (\E h \in RandomLevel : NewNode(h))
    \/ Link \/ Linked
    \/ DeleteRight \/ DeleteEnd \/ DeleteDown
    \/ Account \/ Unlink \/ Unlinked
    \/ ScanNext \/ ScanEnd

Next == Step \/ \E r \in Requests : Start(r)

Spec == Init /\ [][Next]_vars

\* Whoever runs an operation runs it to the end.
FairSpec == Spec /\ WF_vars(Step)

(***************************************************************************)
(* Properties.                                                             *)
(***************************************************************************)
TypeOK ==
    /\ next \in [Levels -> [Nodes -> Keys \cup {Null}]]
    /\ height \in [Keys -> 0 .. kMaxHeight]
    /\ value \in [Keys -> Values \cup {Absent}]
    /\ max_level \in 1 .. kMaxHeight
    /\ size \in Int
    /\ mem_usage \in Int
    /\ req \in Requests
    /\ pc \in {"idle", "search", "findprev", "link", "delfind", "account", "unlink", "scan"}
    /\ cur \in Nodes \cup {Null}
    /\ level \in Levels
    /\ prev \in [Levels -> Nodes \cup {Null}]
    /\ target \in -1 .. kMaxHeight
    /\ i \in 0 .. kMaxHeight
    /\ ret \in [found : BOOLEAN, val : Values \cup {Absent}, keys : Seq(Keys)]

\* The keys on level l: a node is on every level below its height, except
\* those the running Insert has still to link or the running Delete has
\* already left.
On(l) ==
    {k \in Keys : /\ l < height[k]
                  /\ ~(pc = "link" /\ k = req.key /\ i <= l)
                  /\ ~(pc = "unlink" /\ k = req.key /\ l < i)}

\* Every level is the sorted list of the keys on it, from the head to the
\* end, also between two rounds of a linking loop: each node points to the
\* next larger key of its level.
LevelsSorted ==
    \A l \in Levels : \A n \in On(l) \cup {Head_} :
        IF next[l][n] = Null THEN \A k \in On(l) : k <= n
        ELSE /\ next[l][n] \in On(l)
             /\ next[l][n] > n
             /\ \A k \in On(l) : k <= n \/ next[l][n] <= k

\* No loop reads past the end of a node's next vector or follows nullptr.
InBounds ==
    /\ pc \in {"search", "findprev", "delfind"} =>
          cur = Head_ \/ (cur \in Keys /\ level < height[cur])
    /\ pc = "account" => prev[0] # Null /\ next[0][prev[0]] # Null
    /\ pc = "unlink" /\ i < target /\ prev[i] # Null =>
          /\ next[i][prev[i]] # Null
          /\ i < height[next[i][prev[i]]]
    /\ pc = "link" /\ i < height[req.key] /\ prev[i] \notin {Null, Head_} =>
          i < height[prev[i]]
    /\ pc = "scan" => cur # Head_

\* The keys that have a node.
Present == {k \in Keys : height[k] > 0}

\* Between operations size is the number of keys in the list.
SizeExact == pc = "idle" => size = Cardinality(Present)

\* Between operations mem_usage is what the keys and values in the list
\* take.
Accounts ==
    pc = "idle" =>
        mem_usage = MapThenSumSet(LAMBDA k : KeySize[k] + ValueSize[value[k]], Present)

\* How SkipList implements OrderedMap.  An Insert has taken effect when its
\* node exists, a Delete when it starts to unlink the node it has found.
Linking == pc \in {"link", "unlink"}
Map == [k \in Keys |-> IF pc = "unlink" /\ k = req.key THEN Absent ELSE value[k]]

Stage == IF pc = "idle" THEN "idle" ELSE IF Linking THEN "applied" ELSE "asked"
Told == IF pc = "scan" THEN NoAnswer ELSE ret

OM == INSTANCE OrderedMap WITH map <- Map, step <- Stage, ret <- Told

\* Every behaviour of the skip list is one of the ordered map, whatever
\* heights the nodes draw: a lookup finds a key exactly when it is there,
\* an Insert of a key that is there changes nothing, and the iterator
\* visits every key once, in order.
ImplementsMap == OM!Spec

\* Every operation ends.
OperationsEnd == pc # "idle" ~> pc = "idle"
=============================================================================
