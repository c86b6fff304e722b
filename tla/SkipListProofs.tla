--------------------------- MODULE SkipListProofs ---------------------------
(***************************************************************************)
(* What holds of the skip list for every set of keys and values, every     *)
(* height of the head and every height the nodes draw: its types, that     *)
(* every level is sorted at every step of every operation, that no loop    *)
(* leaves a node's next vector, that size and mem_usage count the keys and *)
(* what they take, and that it is an ordered map.                          *)
(*                                                                         *)
(* SkipInv adds to these what the loops rely on: where a descent is, what  *)
(* prev has noted on the levels it has left, and what the linking loops    *)
(* have still to do.                                                       *)
(***************************************************************************)
EXTENDS SkipList, ListLemmas

\* One level, with the successors nx, is the sorted list of the keys in S.
SortedLevel(nx, S) ==
    \A n \in S \cup {Head_} :
        IF nx[n] = Null THEN \A k \in S : k <= n
        ELSE /\ nx[n] \in S
             /\ nx[n] > n
             /\ \A k \in S : k <= n \/ nx[n] <= k

\* A node has a value, and no node is higher than the highest level in use.
NodesOK ==
    \A k \in Keys :
        /\ height[k] <= max_level
        /\ height[k] > 0 <=> value[k] # Absent

\* The node n of level l comes before the key of the request.
At(l, n) == n \in On(l) \cup {Head_} /\ n < req.key

\* The key of the request belongs between the node n of level l and the
\* next one.
Gap(l, n) == At(l, n) /\ (next[l][n] = Null \/ next[l][n] > req.key)

\* A descent is on a level in use, at a node before the key.
Descending ==
    pc \in {"search", "findprev", "delfind"} => level < max_level /\ At(level, cur)

\* FindPrevNode has noted the gap on the levels it has left.
Placing ==
    pc = "findprev" =>
        /\ height[req.key] = 0
        /\ \A l \in Levels : IF l >= max_level THEN prev[l] = Null
                             ELSE l > level => prev[l] # Null /\ Gap(l, prev[l])

\* On the levels still to be linked the gap is known, or the level is new.
LinkingOK ==
    pc = "link" =>
        /\ 0 < height[req.key]
        /\ i <= height[req.key]
        /\ \A l \in Levels : i <= l /\ l < height[req.key] =>
               IF prev[l] = Null THEN next[l][Head_] = Null ELSE Gap(l, prev[l])

\* On the levels from f on where the key is, prev has the node before it.
Noted(f) ==
    \A l \in Levels : f <= l /\ l < height[req.key] =>
        prev[l] # Null /\ At(l, prev[l]) /\ next[l][prev[l]] = req.key

Deleting ==
    /\ pc \in {"delfind", "account", "unlink"} => height[req.key] > 0
    /\ pc = "delfind" =>
           /\ Noted(level + 1)
           /\ level + 1 < height[req.key] => target = height[req.key]
    /\ pc \in {"account", "unlink"} => target = height[req.key]
    /\ pc = "account" => Noted(0)
    /\ pc = "unlink" => i <= height[req.key] /\ Noted(i)

Scanning == pc = "scan" => cur = Null \/ cur \in On(0)

LoopsOK ==
    /\ pc \in {"idle", "search"} => prev = NoPrev
    /\ Descending
    /\ Placing
    /\ LinkingOK
    /\ Deleting
    /\ Scanning

SkipInv == TypeOK /\ LevelsSorted /\ NodesOK /\ LoopsOK

\* size is the number of keys, except while an Insert has counted a key it
\* has not made yet, or a Delete one it has not yet removed.
SizeInv ==
    /\ IsFiniteSet(Present)
    /\ size = Cardinality(Present) +
          (IF pc = "findprev" THEN 1 ELSE IF pc \in {"delfind", "account", "unlink"} THEN -1 ELSE 0)

(***************************************************************************)
(* One level.                                                              *)
(***************************************************************************)

\* From a node before the key k, the next one is not behind k when k is
\* there, and is never k when it is not.
LEMMA SuccessorOf ==
    ASSUME NEW S \in SUBSET Keys, NEW nx \in [Nodes -> Keys \cup {Null}], SortedLevel(nx, S),
           NEW n \in S \cup {Head_}, NEW k \in Keys, n < k
    PROVE  /\ nx[n] # Null => nx[n] \in S /\ nx[n] > n
           /\ k \in S => nx[n] # Null /\ nx[n] <= k
           /\ k \notin S => nx[n] # k
<1>1. n \in Int /\ k \in Int /\ k # Null
  BY KeysAssumption DEF Head_, Null
<1>2. nx[n] # Null => nx[n] \in S /\ nx[n] > n /\ \A x \in S : x <= n \/ nx[n] <= x
  BY DEF SortedLevel
<1>3. nx[n] = Null => \A x \in S : x <= n
  BY DEF SortedLevel
<1>4. ASSUME k \in S PROVE nx[n] # Null /\ nx[n] <= k
  <2>1. ~(k <= n)
    BY <1>1
  <2> QED BY <1>2, <1>3, <1>4, <2>1
<1> QED BY <1>1, <1>2, <1>4

\* A key linked into its gap.
LEMMA LinkLevel ==
    ASSUME NEW S \in SUBSET Keys, NEW nx \in [Nodes -> Keys \cup {Null}], SortedLevel(nx, S),
           NEW n \in S \cup {Head_}, NEW k \in Keys, k \notin S, n < k,
           nx[n] = Null \/ nx[n] > k,
           NEW ny, ny = [nx EXCEPT ![k] = nx[n], ![n] = k]
    PROVE  SortedLevel(ny, S \cup {k})
<1>1. S \cup {Head_} \subseteq Nodes /\ n \in Nodes /\ k \in Nodes
  BY DEF Nodes
<1>2. \A m \in S \cup {k} \cup {Head_} : m \in Int
  BY KeysAssumption DEF Head_
<1>3. n # k /\ k # Null /\ k # Head_
  BY <1>2, KeysAssumption DEF Null, Head_
<1>4. ny[k] = nx[n] /\ ny[n] = k
  BY <1>1, <1>3
<1>5. \A m \in S \cup {Head_} : m # n => ny[m] = nx[m]
  BY <1>1, <1>3 DEF Head_
<1>6. nx[n] # Null => nx[n] \in S /\ nx[n] > n
  BY DEF SortedLevel
<1>7. \A m \in S : m <= n \/ (nx[n] # Null /\ nx[n] <= m)
  BY DEF SortedLevel
<1> SUFFICES ASSUME NEW m \in (S \cup {k}) \cup {Head_}
             PROVE  IF ny[m] = Null THEN \A x \in S \cup {k} : x <= m
                    ELSE /\ ny[m] \in S \cup {k}
                         /\ ny[m] > m
                         /\ \A x \in S \cup {k} : x <= m \/ ny[m] <= x
  BY DEF SortedLevel
<1>8. CASE m = k
  <2>1. CASE nx[n] = Null
    <3>1. \A x \in S : x <= k
      BY <1>2, <1>7, <2>1
    <3> QED BY <1>2, <1>4, <1>8, <2>1, <3>1
  <2>2. CASE nx[n] # Null
    <3>1. nx[n] \in S /\ nx[n] > k
      BY <1>6, <2>2
    <3>2. \A x \in S : x <= k \/ nx[n] <= x
      BY <1>2, <1>7
    <3>3. \A x \in S \cup {k} : x <= k \/ nx[n] <= x
      BY <1>2, <3>2
    <3> QED BY <1>4, <1>8, <2>2, <3>1, <3>3
  <2> QED BY <2>1, <2>2
<1>9. CASE m = n
  <2>1. \A x \in S : x <= n \/ k <= x
    BY <1>2, <1>6, <1>7
  <2>2. \A x \in S \cup {k} : x <= n \/ k <= x
    BY <1>2, <2>1
  <2>3. k > n
    BY <1>2
  <2> QED BY <1>3, <1>4, <1>9, <2>2, <2>3
<1>10. CASE m # k /\ m # n
  <2>1. m \in S \cup {Head_} /\ ny[m] = nx[m]
    BY <1>5, <1>10
  <2>2. CASE nx[m] = Null
    <3>1. \A x \in S : x <= m
      BY <2>1, <2>2 DEF SortedLevel
    <3>2. k <= m
      <4>1. m \in S \/ m = Head_
        BY <2>1
      <4>2. n = Head_ \/ n <= m
        BY <3>1
      <4>3. m \in S /\ n < m
        BY <1>2, <1>10, <4>1, <4>2, <3>1, KeysAssumption DEF Head_
      <4> QED BY <1>2, <1>6, <1>7, <3>1, <4>3
    <3> QED BY <1>2, <2>1, <2>2, <3>1, <3>2
  <2>3. CASE nx[m] # Null
    <3>1. nx[m] \in S /\ nx[m] > m /\ \A x \in S : x <= m \/ nx[m] <= x
      BY <2>1, <2>3 DEF SortedLevel
    <3>2. k <= m \/ nx[m] <= k
      <4>1. CASE n <= m
        <5>1. n < m /\ m \in S
          BY <1>2, <1>10, <2>1, <4>1, KeysAssumption DEF Head_
        <5> QED BY <1>2, <1>6, <1>7, <5>1
      <4>2. CASE ~(n <= m)
        <5>1. n \in S
          BY <1>2, <2>1, <4>2, KeysAssumption DEF Head_
        <5>2. nx[m] <= n
          BY <3>1, <4>2, <5>1
        <5> QED BY <1>2, <3>1, <5>1, <5>2
      <4> QED BY <4>1, <4>2
    <3> QED BY <2>1, <2>3, <3>1, <3>2
  <2> QED BY <2>2, <2>3
<1> QED BY <1>8, <1>9, <1>10

\* A key unlinked from the node before it.
LEMMA UnlinkLevel ==
    ASSUME NEW S \in SUBSET Keys, NEW nx \in [Nodes -> Keys \cup {Null}], SortedLevel(nx, S),
           NEW n \in S \cup {Head_}, NEW k \in S, nx[n] = k, n < k,
           NEW ny, ny = [nx EXCEPT ![n] = nx[k]]
    PROVE  SortedLevel(ny, S \ {k})
<1>1. S \cup {Head_} \subseteq Nodes /\ n \in Nodes /\ k \in Nodes
  BY DEF Nodes
<1>2. \A m \in S \cup {Head_} : m \in Int
  BY KeysAssumption DEF Head_
<1>3. n # k /\ k # Null /\ k # Head_
  BY <1>2, KeysAssumption DEF Null, Head_
<1>4. ny[n] = nx[k] /\ \A m \in S \cup {Head_} : m # n => ny[m] = nx[m]
  BY <1>1
<1>5. \A x \in S : x <= n \/ k <= x
  BY <1>3 DEF SortedLevel
<1>6. IF nx[k] = Null THEN \A x \in S : x <= k
      ELSE /\ nx[k] \in S
           /\ nx[k] > k
           /\ \A x \in S : x <= k \/ nx[k] <= x
  BY DEF SortedLevel
<1> SUFFICES ASSUME NEW m \in (S \ {k}) \cup {Head_}
             PROVE  IF ny[m] = Null THEN \A x \in S \ {k} : x <= m
                    ELSE /\ ny[m] \in S \ {k}
                         /\ ny[m] > m
                         /\ \A x \in S \ {k} : x <= m \/ ny[m] <= x
  BY DEF SortedLevel
<1>7. CASE m = n
  <2>1. CASE nx[k] = Null
    <3>1. \A x \in S \ {k} : x <= n
      BY <1>2, <1>5, <1>6, <2>1
    <3> QED BY <1>4, <1>7, <2>1, <3>1
  <2>2. CASE nx[k] # Null
    <3>1. nx[k] \in S \ {k} /\ nx[k] > n
      BY <1>2, <1>6, <2>2
    <3>2. \A x \in S \ {k} : x <= n \/ nx[k] <= x
      BY <1>2, <1>5, <1>6, <2>2
    <3> QED BY <1>4, <1>7, <2>2, <3>1, <3>2
  <2> QED BY <2>1, <2>2
<1>8. CASE m # n
  <2>1. m \in S \cup {Head_} /\ m # k /\ ny[m] = nx[m]
    BY <1>3, <1>4, <1>8
  <2>2. CASE nx[m] = Null
    <3>1. \A x \in S : x <= m
      BY <2>1, <2>2 DEF SortedLevel
    <3> QED BY <2>1, <2>2, <3>1
  <2>3. CASE nx[m] # Null
    <3>1. nx[m] \in S /\ nx[m] > m /\ \A x \in S : x <= m \/ nx[m] <= x
      BY <2>1, <2>3 DEF SortedLevel
    <3>2. nx[m] # k
      <4> SUFFICES ASSUME nx[m] = k PROVE FALSE
        OBVIOUS
      <4>1. CASE m < n
        <5>1. n \in S
          BY <1>2, <2>1, <4>1, KeysAssumption DEF Head_
        <5> QED BY <1>2, <2>1, <3>1, <4>1, <5>1
      <4>2. CASE ~(m < n)
        <5>1. m > n /\ m \in S
          BY <1>2, <1>8, <2>1, <4>2, KeysAssumption DEF Head_
        <5> QED BY <1>2, <1>5, <3>1, <5>1
      <4> QED BY <4>1, <4>2
    <3> QED BY <2>1, <2>3, <3>1, <3>2
  <2> QED BY <2>2, <2>3
<1> QED BY <1>7, <1>8

\* A level does not depend on the nodes that are not on it.
LEMMA SameLevel ==
    ASSUME NEW S, NEW nx, SortedLevel(nx, S), NEW ny, \A n \in S \cup {Head_} : ny[n] = nx[n]
    PROVE  SortedLevel(ny, S)
  BY DEF SortedLevel

(***************************************************************************)
(* What the invariant says of a step.                                      *)
(***************************************************************************)

\* Keys are numbers above the head and nullptr.
LEMMA KeyNumbers ==
    ASSUME TypeOK
    PROVE  /\ req.key \in Keys
           /\ req.key \in Nat
           /\ req.op \in Ops
           /\ req.val \in Values
           /\ Head_ < req.key
           /\ Null # Head_
           /\ Head_ \in Nodes
           /\ Null \notin Nodes
           /\ Null \notin Keys
           /\ Head_ \notin Keys
           /\ \A k \in Keys : k \in Nodes /\ k \in Nat
           /\ 0 \in Levels
           /\ kMaxHeight \in Nat
<1>1. req \in Requests
  BY DEF TypeOK
<1>2. req.key \in Keys /\ req.op \in Ops /\ req.val \in Values
  BY <1>1 DEF Requests
<1>3. 0 \in Levels /\ kMaxHeight \in Nat
  BY HeightAssumption DEF Levels
<1>4. \A k \in Keys : k \in Nodes /\ k \in Nat
  BY KeysAssumption DEF Nodes
<1>5. Head_ < req.key
  BY <1>2, <1>4 DEF Head_
<1>6. /\ Null # Head_
      /\ Null \notin Keys
      /\ Head_ \notin Keys
  BY <1>4 DEF Head_, Null
<1>7. Head_ \in Nodes /\ Null \notin Nodes
  BY <1>6 DEF Nodes
<1> QED BY <1>2, <1>3, <1>4, <1>5, <1>6, <1>7

\* Outside the linking loops a node is on all levels below its height.
LEMMA OnPlain ==
    ASSUME pc \notin {"link", "unlink"}
    PROVE  \A l \in Levels : On(l) = {k \in Keys : l < height[k]}
  BY DEF On

\* LevelsSorted, level by level, now and after a step.
LEMMA SortedLevels ==
    /\ LevelsSorted <=> \A l \in Levels : SortedLevel(next[l], On(l))
    /\ LevelsSorted' <=> \A l \in Levels : SortedLevel(next'[l], On(l)')
  BY DEF LevelsSorted, SortedLevel

\* The next node of a descent.
LEMMA Succ ==
    ASSUME SkipInv, pc \in {"search", "findprev", "delfind"}
    PROVE  /\ level \in Levels
           /\ level < max_level
           /\ cur \in Nodes
           /\ cur < req.key
           /\ cur = Head_ \/ (cur \in Keys /\ level < height[cur])
           /\ succ \in Keys \cup {Null}
           /\ succ # Null => succ \in Keys /\ level < height[succ] /\ succ > cur
           /\ level < height[req.key] => succ # Null /\ succ <= req.key
           /\ level >= height[req.key] => succ # req.key
<1>1. TypeOK /\ LevelsSorted /\ level < max_level /\ cur \in On(level) \cup {Head_} /\ cur < req.key
  BY DEF SkipInv, LoopsOK, Descending, At
<1>2. level \in Levels /\ next[level] \in [Nodes -> Keys \cup {Null}]
  BY <1>1 DEF TypeOK
<1>3. On(level) = {k \in Keys : level < height[k]}
  BY <1>2, OnPlain
<1>4. SortedLevel(next[level], On(level)) /\ req.key \in Keys /\ On(level) \in SUBSET Keys
  BY <1>1, <1>2, <1>3, SortedLevels, KeyNumbers
<1>5. /\ succ # Null => succ \in On(level) /\ succ > cur
      /\ req.key \in On(level) => succ # Null /\ succ <= req.key
      /\ req.key \notin On(level) => succ # req.key
  BY <1>1, <1>2, <1>4, SuccessorOf DEF succ
<1>6. cur \in Nodes /\ succ \in Keys \cup {Null}
  BY <1>1, <1>2, <1>3, KeyNumbers DEF succ
<1>7. level >= height[req.key] => req.key \notin On(level)
  <2>1. height[req.key] \in Nat /\ level \in Nat
    BY <1>1, <1>2, KeyNumbers DEF TypeOK, Levels
  <2> QED BY <1>3, <2>1
<1> QED BY <1>1, <1>2, <1>3, <1>4, <1>5, <1>6, <1>7

\* A step that leaves the list alone.
Quiet ==
    /\ UNCHANGED <<next, height, value, max_level>>
    /\ pc \notin {"link", "unlink"}
    /\ pc' \notin {"link", "unlink"}

\* A step that touches no link and no node keeps the levels as they are.
LEMMA QuietKeeps ==
    ASSUME SkipInv, Quiet
    PROVE  /\ \A l \in Levels : On(l)' = On(l)
           /\ \A l \in Levels : On(l) = {k \in Keys : l < height[k]}
           /\ LevelsSorted'
           /\ NodesOK'
<1>1. \A l \in Levels : On(l)' = On(l)
  BY DEF Quiet, On
<1>2. \A l \in Levels : On(l) = {k \in Keys : l < height[k]}
  BY OnPlain DEF Quiet
<1>3. LevelsSorted'
  BY <1>1, SortedLevels DEF Quiet, SkipInv
<1>4. NodesOK'
  BY DEF Quiet, SkipInv, NodesOK
<1> QED BY <1>1, <1>2, <1>3, <1>4

\* Types of what a quiet step leaves alone.
LEMMA QuietTypes ==
    ASSUME SkipInv, Quiet, size' \in Int, mem_usage' \in Int, req' \in Requests,
           pc' \in {"idle", "search", "findprev", "delfind", "account", "scan"},
           cur' \in Nodes \cup {Null}, level' \in Levels, prev' \in [Levels -> Nodes \cup {Null}],
           target' \in -1 .. kMaxHeight, i' \in 0 .. kMaxHeight,
           ret' \in [found : BOOLEAN, val : Values \cup {Absent}, keys : Seq(Keys)]
    PROVE  TypeOK'
  BY DEF Quiet, SkipInv, TypeOK

\* An operation returns: nothing is left of its loops.
LEMMA FinishKeeps ==
    ASSUME SkipInv, NEW answer \in [found : BOOLEAN, val : Values \cup {Absent}, keys : Seq(Keys)],
           Finish(answer)
    PROVE  /\ pc' = "idle"
           /\ cur' \in Nodes \cup {Null}
           /\ level' \in Levels
           /\ prev' \in [Levels -> Nodes \cup {Null}]
           /\ target' \in -1 .. kMaxHeight
           /\ i' \in 0 .. kMaxHeight
           /\ ret' \in [found : BOOLEAN, val : Values \cup {Absent}, keys : Seq(Keys)]
           /\ LoopsOK'
<1>1. Head_ \in Nodes /\ 0 \in Levels /\ kMaxHeight \in Nat
  BY KeyNumbers DEF SkipInv
<1>2. pc' = "idle" /\ cur' = Head_ /\ level' = 0 /\ prev' = NoPrev /\ target' = -1 /\ i' = 0
  BY DEF Finish
<1>3. LoopsOK'
  BY <1>2 DEF LoopsOK, Descending, Placing, LinkingOK, Deleting, Scanning
<1>4. prev' \in [Levels -> Nodes \cup {Null}]
  BY <1>2 DEF NoPrev
<1> QED BY <1>1, <1>2, <1>3, <1>4 DEF Finish

\* NoAnswer is an answer.
LEMMA NoAnswerType == NoAnswer \in [found : BOOLEAN, val : Values \cup {Absent}, keys : Seq(Keys)]
  BY DEF NoAnswer

(***************************************************************************)
(* The steps that leave the list alone.                                    *)
(***************************************************************************)

\* A new descent of the running request.
LEMMA DescendKeeps ==
    ASSUME SkipInv, Quiet, NEW where, Descend(where), req' \in Requests
    PROVE  /\ level' \in Levels
           /\ level' = max_level - 1
           /\ cur' \in Nodes \cup {Null}
           /\ Descending'
<1>1. max_level \in 1 .. kMaxHeight /\ kMaxHeight \in Nat
  BY KeyNumbers DEF SkipInv, TypeOK
<1>2. cur' = Head_ /\ level' = max_level - 1 /\ max_level' = max_level
  BY DEF Descend, Quiet
<1>3. req'.key \in Keys
  BY DEF Requests
<1>4. Head_ < req'.key
  <2>1. req'.key \in Nat
    BY <1>3, KeysAssumption
  <2> QED BY <2>1 DEF Head_
<1>5. level' < max_level'
  BY <1>1, <1>2
<1> QED BY <1>1, <1>2, <1>4, <1>5 DEF Levels, Nodes, Descending, At

\* The beginning of an operation keeps the invariant.
LEMMA StartKeeps ==
    ASSUME SkipInv, NEW r \in Requests, Start(r)
    PROVE  SkipInv'
<1>0. Quiet
  BY DEF Start, Quiet, Descend, listVars, countVars
<1>1. LevelsSorted' /\ NodesOK'
  BY <1>0, QuietKeeps
<1>2. /\ \A l \in Levels : On(l)' = On(l)
      /\ 0 \in Levels /\ Head_ \in Nodes
      /\ next[0] \in [Nodes -> Keys \cup {Null}]
  BY <1>0, QuietKeeps, KeyNumbers DEF SkipInv, TypeOK
<1>3. next[0][Head_] \in On(0) \cup {Null} /\ next[0][Head_] \in Nodes \cup {Null}
  <2>1. SortedLevel(next[0], On(0))
    BY <1>2, SortedLevels DEF SkipInv
  <2> QED BY <1>2, <2>1 DEF SortedLevel, Nodes
<1>4. /\ size' \in Int
      /\ mem_usage' \in Int
      /\ req' \in Requests
      /\ pc' \in {"search", "scan"}
      /\ prev' \in [Levels -> Nodes \cup {Null}]
      /\ prev' = NoPrev
      /\ target' \in -1 .. kMaxHeight
      /\ i' \in 0 .. kMaxHeight
      /\ ret' \in [found : BOOLEAN, val : Values \cup {Absent}, keys : Seq(Keys)]
  BY NoAnswerType DEF Start, Descend, SkipInv, LoopsOK, TypeOK, listVars, countVars
<1>5. CASE r.op = "Scan"
  <2>1. pc' = "scan" /\ cur' = next[0][Head_] /\ level' = level
    BY <1>5 DEF Start
  <2>2. TypeOK'
    BY <1>0, <1>3, <1>4, <2>1, QuietTypes DEF SkipInv, TypeOK
  <2>3. LoopsOK'
    BY <1>2, <1>3, <2>1 DEF LoopsOK, Descending, Placing, LinkingOK, Deleting, Scanning
  <2> QED BY <1>1, <2>2, <2>3 DEF SkipInv
<1>6. CASE r.op # "Scan"
  <2>1. Descend("search")
    BY <1>6 DEF Start
  <2>2. level' \in Levels /\ cur' \in Nodes \cup {Null} /\ Descending' /\ pc' = "search"
    BY <1>0, <1>4, <2>1, DescendKeeps DEF Descend
  <2>3. TypeOK'
    BY <1>0, <1>4, <2>2, QuietTypes
  <2>4. LoopsOK'
    BY <1>4, <2>2 DEF LoopsOK, Placing, LinkingOK, Deleting, Scanning
  <2> QED BY <1>1, <2>3, <2>4 DEF SkipInv
<1> QED BY <1>5, <1>6

\* A step of a loop that reads: Get, Contains, and the start of the others.
LEMMA SearchKeeps ==
    ASSUME SkipInv, SearchDown \/ SearchRight
    PROVE  SkipInv'
<1>0. Quiet /\ pc = "search" /\ pc' = "search"
  BY DEF SearchDown, SearchRight, Quiet, listVars, countVars
<1>1. LevelsSorted' /\ NodesOK' /\ \A l \in Levels : On(l)' = {k \in Keys : l < height[k]}
  BY <1>0, QuietKeeps
<1>2. /\ level \in Levels
      /\ level < max_level
      /\ cur \in Nodes
      /\ cur < req.key
      /\ cur = Head_ \/ (cur \in Keys /\ level < height[cur])
      /\ succ # Null => succ \in Keys /\ level < height[succ]
  BY <1>0, Succ
<1>3. /\ size' = size /\ mem_usage' = mem_usage /\ req' = req /\ prev' = prev /\ target' = target
      /\ i' = i /\ ret' = ret /\ max_level' = max_level
  BY DEF SearchDown, SearchRight, countVars
<1>4. cur' \in Nodes /\ level' \in Levels /\ level' < max_level' /\ At(level, cur)'
  <2>1. CASE SearchDown
    <3>1. level > 0 /\ level' = level - 1 /\ cur' = cur
      BY <2>1 DEF SearchDown
    <3>2. level' \in Levels /\ level' < level
      BY <1>2, <3>1, KeyNumbers DEF SkipInv, Levels
    <3>3. cur \in Keys => level' < height[cur]
      <4>1. cur \in Keys => height[cur] \in Nat
        BY DEF SkipInv, TypeOK
      <4>2. cur \in Keys => cur # Head_
        BY KeyNumbers DEF SkipInv
      <4> QED BY <1>2, <3>2, <4>1, <4>2 DEF Levels
    <3>4. level' < max_level'
      BY <1>2, <1>3, <3>2 DEF SkipInv, TypeOK, Levels
    <3> QED BY <1>1, <1>2, <1>3, <3>1, <3>2, <3>3, <3>4 DEF At
  <2>2. CASE SearchRight
    <3>1. succ # Null /\ succ < req.key /\ level' = level /\ cur' = succ
      BY <2>2 DEF SearchRight
    <3> QED BY <1>1, <1>2, <1>3, <3>1 DEF At, Nodes
  <2> QED BY <2>1, <2>2
<1>5. TypeOK'
  BY <1>0, <1>3, <1>4, QuietTypes DEF SkipInv, TypeOK
<1>6. LoopsOK'
  <2>1. prev' = NoPrev
    BY <1>0, <1>3 DEF SkipInv, LoopsOK
  <2> QED BY <1>0, <1>4, <2>1 DEF LoopsOK, Descending, Placing, LinkingOK, Deleting, Scanning
<1> QED BY <1>1, <1>5, <1>6 DEF SkipInv

\* So does the end of a search that has found the key.
LEMMA SearchFoundKeeps ==
    ASSUME SkipInv, SearchFound
    PROVE  SkipInv'
<1>0. pc = "search" /\ succ = req.key
  BY DEF SearchFound
<1>1. Quiet
  BY DEF SearchFound, DeleteBegins, Descend, Finish, Quiet, listVars
<1>2. LevelsSorted' /\ NodesOK' /\ \A l \in Levels : On(l)' = {k \in Keys : l < height[k]}
  BY <1>1, QuietKeeps
<1>3. req' = req /\ mem_usage' = mem_usage /\ max_level' = max_level /\ height' = height
  BY DEF SearchFound, listVars
<1>4. req.key \in Keys /\ req.key # Null
  BY KeyNumbers DEF SkipInv
<1>5. level < height[req.key] /\ level \in Levels
  BY <1>0, <1>4, Succ
<1>6. CASE req.op = "Delete"
  <2>1. Descend("delfind") /\ size' = size - 1 /\ UNCHANGED <<prev, target, i, ret>>
    BY <1>6 DEF SearchFound, DeleteBegins
  <2>2. /\ level' \in Levels
        /\ level' = max_level - 1
        /\ cur' \in Nodes \cup {Null}
        /\ Descending'
        /\ pc' = "delfind"
    BY <1>1, <1>3, <2>1, DescendKeeps DEF Descend, SkipInv, TypeOK
  <2>3. TypeOK'
    BY <1>1, <1>3, <2>1, <2>2, QuietTypes DEF SkipInv, TypeOK
  <2>4. Deleting'
    <3>1. height[req.key] > 0 /\ height[req.key] <= max_level
      BY <1>4, <1>5 DEF Levels, SkipInv, TypeOK, NodesOK
    <3>2. max_level \in Nat /\ height[req.key] \in Nat
      BY <1>4 DEF SkipInv, TypeOK
    <3>3. ~(level' + 1 < height'[req'.key]) /\ height'[req'.key] > 0
      BY <1>3, <2>2, <3>1, <3>2
    <3>4. \A l \in Levels : ~(level' + 1 <= l /\ l < height'[req'.key])
      BY <1>3, <2>2, <3>1, <3>2 DEF Levels
    <3> QED BY <2>2, <3>3, <3>4 DEF Deleting, Noted
  <2>5. LoopsOK'
    BY <2>2, <2>4 DEF LoopsOK, Placing, LinkingOK, Scanning
  <2> QED BY <1>2, <2>3, <2>5 DEF SkipInv
<1>7. CASE req.op # "Delete"
  <2> DEFINE answer == [NoAnswer EXCEPT
                          !.found = req.op \in {"Get", "Contains"},
                          !.val = IF req.op = "Get" THEN value[succ] ELSE Absent]
  <2>1. Finish(answer) /\ size' = size
    BY <1>7 DEF SearchFound
  <2>2. answer \in [found : BOOLEAN, val : Values \cup {Absent}, keys : Seq(Keys)]
    <3>1. value[succ] \in Values \cup {Absent}
      BY <1>0, <1>4 DEF SkipInv, TypeOK
    <3> DEFINE f == req.op \in {"Get", "Contains"}
               v == IF req.op = "Get" THEN value[succ] ELSE Absent
    <3>2. f \in BOOLEAN /\ v \in Values \cup {Absent}
      BY <3>1
    <3>3. answer = [NoAnswer EXCEPT !.found = f, !.val = v]
      OBVIOUS
    <3> HIDE DEF f, v, answer
    <3> QED BY <3>2, <3>3, NoAnswerType
  <2> HIDE DEF answer
  <2>3. /\ pc' = "idle"
        /\ cur' \in Nodes \cup {Null}
        /\ level' \in Levels
        /\ prev' \in [Levels -> Nodes \cup {Null}]
        /\ target' \in -1 .. kMaxHeight
        /\ i' \in 0 .. kMaxHeight
        /\ ret' \in [found : BOOLEAN, val : Values \cup {Absent}, keys : Seq(Keys)]
        /\ LoopsOK'
    BY <2>1, <2>2, FinishKeeps
  <2>4. TypeOK'
    BY <1>1, <1>3, <2>1, <2>3, QuietTypes DEF SkipInv, TypeOK
  <2> QED BY <1>2, <2>3, <2>4 DEF SkipInv
<1> QED BY <1>6, <1>7

\* So does the end of one that has not.
LEMMA SearchMissedKeeps ==
    ASSUME SkipInv, SearchMissed
    PROVE  SkipInv'
<1>0. pc = "search" /\ (succ = Null \/ succ > req.key) /\ level = 0
  BY DEF SearchMissed
<1>1. Quiet
  BY DEF SearchMissed, InsertBegins, Descend, Finish, Quiet, listVars
<1>2. LevelsSorted' /\ NodesOK' /\ \A l \in Levels : On(l)' = {k \in Keys : l < height[k]}
  BY <1>1, QuietKeeps
<1>3. req' = req /\ max_level' = max_level /\ height' = height
  BY DEF SearchMissed, listVars
<1>4. req.key \in Keys /\ req.key \in Nat /\ req.val \in Values
  BY KeyNumbers DEF SkipInv
<1>5. height[req.key] = 0
  <2>1. level < height[req.key] => succ # Null /\ succ <= req.key /\ succ \in Keys
    BY <1>0, Succ
  <2>2. height[req.key] \in Nat /\ \A k \in Keys : k \in Nat
    BY <1>4, KeysAssumption DEF SkipInv, TypeOK
  <2> QED BY <1>0, <1>4, <2>1, <2>2
<1>6. CASE req.op = "Insert"
  <2>1. /\ Descend("findprev")
        /\ size' = size + 1
        /\ mem_usage' = mem_usage + KeySize[req.key] + ValueSize[req.val]
        /\ UNCHANGED <<prev, target, i, ret>>
    BY <1>6 DEF SearchMissed, InsertBegins
  <2>2. /\ level' \in Levels
        /\ level' = max_level - 1
        /\ cur' \in Nodes \cup {Null}
        /\ Descending'
        /\ pc' = "findprev"
    BY <1>1, <1>3, <2>1, DescendKeeps DEF Descend, SkipInv, TypeOK
  <2>3. size' \in Int /\ mem_usage' \in Int
    <3>1. KeySize[req.key] \in Nat /\ ValueSize[req.val] \in Nat
      BY <1>4, SizeAssumption
    <3> QED BY <2>1, <3>1 DEF SkipInv, TypeOK
  <2>4. TypeOK'
    BY <1>1, <1>3, <2>1, <2>2, <2>3, QuietTypes DEF SkipInv, TypeOK
  <2>5. Placing'
    <3>1. prev' = NoPrev
      BY <1>0, <2>1 DEF SkipInv, LoopsOK
    <3>2. \A l \in Levels : prev'[l] = Null
      BY <3>1 DEF NoPrev
    <3>3. \A l \in Levels : ~(l >= max_level') => ~(l > level')
      BY <1>3, <2>2 DEF Levels, SkipInv, TypeOK
    <3> QED BY <1>3, <1>5, <3>2, <3>3 DEF Placing
  <2>6. LoopsOK'
    BY <2>2, <2>5 DEF LoopsOK, Deleting, LinkingOK, Scanning
  <2> QED BY <1>2, <2>4, <2>6 DEF SkipInv
<1>7. CASE req.op # "Insert"
  <2>1. Finish(NoAnswer) /\ size' = size /\ mem_usage' = mem_usage
    BY <1>7 DEF SearchMissed
  <2>2. /\ pc' = "idle"
        /\ cur' \in Nodes \cup {Null}
        /\ level' \in Levels
        /\ prev' \in [Levels -> Nodes \cup {Null}]
        /\ target' \in -1 .. kMaxHeight
        /\ i' \in 0 .. kMaxHeight
        /\ ret' \in [found : BOOLEAN, val : Values \cup {Absent}, keys : Seq(Keys)]
        /\ LoopsOK'
    BY <2>1, NoAnswerType, FinishKeeps
  <2>3. TypeOK'
    BY <1>1, <1>3, <2>1, <2>2, QuietTypes DEF SkipInv, TypeOK
  <2> QED BY <1>2, <2>2, <2>3 DEF SkipInv
<1> QED BY <1>6, <1>7

\* FindPrevNode, up to level 0.
LEMMA FindPrevKeeps ==
    ASSUME SkipInv, FindPrevRight \/ FindPrevDown
    PROVE  SkipInv'
<1>0. Quiet /\ pc = "findprev" /\ pc' = "findprev"
  BY DEF FindPrevRight, FindPrevDown, Quiet, listVars, countVars
<1>1. /\ LevelsSorted' /\ NodesOK'
      /\ \A l \in Levels : On(l) = {k \in Keys : l < height[k]} /\ On(l)' = On(l)
  BY <1>0, QuietKeeps
<1>2. /\ level \in Levels
      /\ level < max_level
      /\ cur \in Nodes
      /\ cur < req.key
      /\ cur = Head_ \/ (cur \in Keys /\ level < height[cur])
      /\ succ \in Keys \cup {Null}
      /\ succ # Null => succ \in Keys /\ level < height[succ]
      /\ level >= height[req.key] => succ # req.key
  BY <1>0, Succ
<1>3. /\ size' = size /\ mem_usage' = mem_usage /\ req' = req /\ target' = target
      /\ i' = i /\ ret' = ret /\ max_level' = max_level /\ height' = height /\ next' = next
  BY DEF FindPrevRight, FindPrevDown, countVars, listVars
<1>4. /\ height[req.key] = 0
      /\ \A l \in Levels : IF l >= max_level THEN prev[l] = Null
                           ELSE l > level => prev[l] # Null /\ Gap(l, prev[l])
  BY <1>0 DEF SkipInv, LoopsOK, Placing
<1>5. Head_ \in Nodes /\ \A k \in Keys : k \in Nodes /\ k \in Nat
  BY KeyNumbers DEF SkipInv
<1>6. ASSUME NEW l \in Levels, NEW n, Gap(l, n) PROVE Gap(l, n)'
  BY <1>1, <1>3, <1>6 DEF Gap, At
<1>7. req.key \in Nat /\ max_level \in Nat /\ \A l \in Levels : l \in Nat
  BY KeyNumbers DEF SkipInv, TypeOK, Levels
<1>8. CASE FindPrevRight
  <2>1. succ # Null /\ succ < req.key /\ level' = level /\ cur' = succ /\ prev' = prev
    BY <1>8 DEF FindPrevRight
  <2>2. TypeOK'
    BY <1>0, <1>2, <1>3, <1>5, <2>1, QuietTypes DEF SkipInv, TypeOK
  <2>3. Descending'
    BY <1>1, <1>2, <1>3, <2>1 DEF Descending, At
  <2>4. Placing'
    BY <1>3, <1>4, <1>6, <2>1 DEF Placing
  <2>5. LoopsOK'
    BY <1>0, <2>3, <2>4 DEF LoopsOK, LinkingOK, Deleting, Scanning
  <2> QED BY <1>1, <2>2, <2>5 DEF SkipInv
<1>9. CASE FindPrevDown
  <2>1. /\ succ = Null \/ succ >= req.key
        /\ level > 0
        /\ prev' = [prev EXCEPT ![level] = cur]
        /\ level' = level - 1
        /\ cur' = cur
    BY <1>9 DEF FindPrevDown
  <2>2. level' \in Levels /\ level' < level /\ level' < max_level'
    BY <1>2, <1>3, <1>7, <2>1, HeightAssumption DEF Levels
  <2>3. prev' \in [Levels -> Nodes \cup {Null}]
    BY <1>2, <2>1 DEF SkipInv, TypeOK
  <2>4. TypeOK'
    BY <1>0, <1>2, <1>3, <2>1, <2>2, <2>3, QuietTypes DEF SkipInv, TypeOK
  <2>5. Descending'
    <3>1. cur \in Keys => cur # Head_ /\ height[cur] \in Nat
      BY KeyNumbers DEF SkipInv, TypeOK
    <3>2. cur = Head_ \/ (cur \in Keys /\ level' < height[cur])
      BY <1>2, <1>7, <2>2, <3>1
    <3>3. At(level, cur)'
      BY <1>1, <1>2, <1>3, <2>1, <2>2, <3>2 DEF At
    <3> QED BY <2>2, <3>3 DEF Descending
  <2>6. Gap(level, cur)
    <3>1. succ # req.key
      BY <1>2, <1>4, <1>7
    <3>2. succ = Null \/ succ > req.key
      BY <1>2, <1>5, <1>7, <2>1, <3>1
    <3> QED BY <1>1, <1>2, <3>2 DEF Gap, At, succ
  <2>7. Placing'
    <3>1. ASSUME NEW l \in Levels
          PROVE  IF l >= max_level THEN prev'[l] = Null
                 ELSE l > level' => prev'[l] # Null /\ Gap(l, prev[l])'
      <4>1. CASE l = level
        <5>1. prev'[l] = cur /\ ~(l >= max_level)
          BY <1>2, <1>7, <2>1, <4>1 DEF SkipInv, TypeOK
        <5>2. Gap(l, cur)'
          BY <1>1, <1>3, <2>1, <2>6, <4>1 DEF Gap, At
        <5>3. Gap(l, prev[l])'
          BY <2>1, <5>1, <5>2 DEF Gap, At
        <5>4. cur # Null
          BY <1>2, KeyNumbers DEF SkipInv
        <5> QED BY <5>1, <5>3, <5>4
      <4>2. CASE l # level
        <5>1. prev'[l] = prev[l] /\ (l > level' => l > level)
          BY <1>2, <1>7, <2>1, <4>2 DEF SkipInv, TypeOK
        <5>2. ASSUME Gap(l, prev[l]) PROVE Gap(l, prev[l])'
          BY <1>1, <1>3, <5>1, <5>2 DEF Gap, At
        <5> QED BY <1>4, <5>1, <5>2
      <4> QED BY <4>1, <4>2
    <3> QED BY <1>3, <1>4, <3>1 DEF Placing
  <2>8. LoopsOK'
    BY <1>0, <2>5, <2>7 DEF LoopsOK, LinkingOK, Deleting, Scanning
  <2> QED BY <1>1, <2>4, <2>8 DEF SkipInv
<1> QED BY <1>8, <1>9

\* The descent of Delete.  Every level that has the key has noted the node
\* before it when the descent goes down, so level 0 is never left by its
\* end, the code's error point.
LEMMA DeleteFindKeeps ==
    ASSUME SkipInv, DeleteRight \/ DeleteEnd \/ DeleteDown
    PROVE  SkipInv'
<1>0. /\ Quiet
      /\ pc = "delfind"
      /\ pc' \in {"delfind", "account"}
  BY DEF DeleteRight, DeleteEnd, DeleteDown, Quiet, listVars, countVars
<1>1. /\ LevelsSorted' /\ NodesOK'
      /\ \A l \in Levels : On(l) = {k \in Keys : l < height[k]} /\ On(l)' = On(l)
  BY <1>0, QuietKeeps
<1>2. /\ level \in Levels
      /\ level < max_level
      /\ cur \in Nodes
      /\ cur < req.key
      /\ cur = Head_ \/ (cur \in Keys /\ level < height[cur])
      /\ succ \in Keys \cup {Null}
      /\ succ # Null => succ \in Keys /\ level < height[succ]
      /\ level < height[req.key] => succ # Null /\ succ <= req.key
  BY <1>0, Succ
<1>3. /\ size' = size /\ mem_usage' = mem_usage /\ req' = req
      /\ i' = i /\ ret' = ret /\ max_level' = max_level /\ height' = height /\ next' = next
  BY DEF DeleteRight, DeleteEnd, DeleteDown, countVars, listVars
<1>4. /\ height[req.key] > 0
      /\ Noted(level + 1)
      /\ level + 1 < height[req.key] => target = height[req.key]
  BY <1>0 DEF SkipInv, LoopsOK, Deleting
<1>5. /\ req.key \in Keys /\ req.key \in Nat /\ max_level \in Nat
      /\ height[req.key] \in 0 .. kMaxHeight /\ kMaxHeight \in Nat
      /\ \A l \in Levels : l \in Nat
      /\ \A k \in Keys : k \in Nodes /\ k \in Nat
  BY KeyNumbers DEF SkipInv, TypeOK, Levels
<1>6. CASE DeleteRight
  <2>1. /\ succ # Null /\ succ < req.key
        /\ level' = level /\ cur' = succ /\ prev' = prev /\ target' = target /\ pc' = pc
    BY <1>6 DEF DeleteRight
  <2>2. TypeOK'
    BY <1>0, <1>2, <1>3, <1>5, <2>1, QuietTypes DEF SkipInv, TypeOK
  <2>3. Descending'
    BY <1>1, <1>2, <1>3, <2>1 DEF Descending, At
  <2>4. Noted(level + 1)'
    BY <1>1, <1>3, <1>4, <2>1 DEF Noted, At
  <2>5. LoopsOK'
    BY <1>0, <1>3, <1>4, <2>1, <2>3, <2>4 DEF LoopsOK, Placing, LinkingOK, Deleting, Scanning
  <2> QED BY <1>1, <2>2, <2>5 DEF SkipInv
<1>7. CASE DeleteEnd
  <2>1. succ = Null /\ cur' = cur /\ prev' = prev /\ target' = target
    BY <1>7 DEF DeleteEnd
  <2>2. level >= height[req.key] /\ level # 0
    BY <1>2, <1>4, <1>5, <2>1
  <2>3. level' = level - 1 /\ pc' = pc
    BY <1>7, <2>2 DEF DeleteEnd
  <2>4. level' \in Levels /\ level' < level /\ level' < max_level'
    BY <1>2, <1>3, <1>5, <2>2, <2>3 DEF Levels
  <2>5. TypeOK'
    BY <1>0, <1>2, <1>3, <2>1, <2>3, <2>4, QuietTypes DEF SkipInv, TypeOK
  <2>6. Descending'
    <3>1. cur \in Keys => cur # Head_ /\ height[cur] \in Nat
      BY KeyNumbers DEF SkipInv, TypeOK
    <3>2. cur = Head_ \/ (cur \in Keys /\ level' < height[cur])
      BY <1>2, <1>5, <2>4, <3>1
    <3>3. At(level, cur)'
      BY <1>1, <1>2, <1>3, <2>1, <2>4, <3>2 DEF At
    <3> QED BY <2>4, <3>3 DEF Descending
  <2>7. Noted(level + 1)' /\ ~(level' + 1 < height[req.key])
    <3>1. level' + 1 = level
      BY <1>2, <1>5, <2>3
    <3>2. \A l \in Levels : ~(level <= l /\ l < height[req.key])
      BY <1>2, <1>5, <2>2
    <3> QED BY <1>2, <1>3, <1>5, <2>2, <3>1, <3>2 DEF Noted
  <2>8. LoopsOK'
    BY <1>0, <1>3, <1>4, <2>3, <2>6, <2>7 DEF LoopsOK, Placing, LinkingOK, Deleting, Scanning
  <2> QED BY <1>1, <2>5, <2>8 DEF SkipInv
<1>8. CASE DeleteDown
  <2>1. /\ succ # Null
        /\ succ >= req.key
        /\ prev' = [prev EXCEPT ![level] = cur]
        /\ target' = IF succ = req.key THEN height[succ] ELSE target
        /\ IF level = 0 THEN pc' = "account" /\ level' = level
                        ELSE level' = level - 1 /\ pc' = pc
        /\ cur' = cur
    BY <1>8 DEF DeleteDown
  <2>2. level < height[req.key] => succ = req.key
    BY <1>2, <1>5, <2>1
  <2>3. prev' \in [Levels -> Nodes \cup {Null}] /\ target' \in -1 .. kMaxHeight
    BY <1>2, <1>5, <2>1 DEF SkipInv, TypeOK
  <2>4. level' \in Levels
    BY <1>2, <1>5, <2>1 DEF Levels
  <2>5. TypeOK'
    BY <1>0, <1>2, <1>3, <2>1, <2>3, <2>4, QuietTypes DEF SkipInv, TypeOK
  <2>6. target' = height[req.key] \/ ~(level < height[req.key])
    BY <2>1, <2>2
  <2>7. ASSUME NEW f, f <= level => f = level, NEW l \in Levels, f <= l, l < height[req.key],
               level <= l
        PROVE  prev'[l] # Null /\ At(l, prev[l])' /\ next'[l][prev'[l]] = req'.key
    <3>1. CASE l = level
      <4>1. prev'[l] = cur /\ cur # Null
        BY <1>2, <2>1, <3>1, KeyNumbers DEF SkipInv, TypeOK
      <4>2. next[l][cur] = req.key
        BY <2>2, <2>7, <3>1 DEF succ
      <4>3. At(l, prev[l])'
        BY <1>1, <1>2, <1>3, <3>1, <4>1 DEF At
      <4> QED BY <1>3, <4>1, <4>2, <4>3
    <3>2. CASE l # level
      <4>1. prev'[l] = prev[l] /\ level + 1 <= l
        BY <1>2, <1>5, <2>1, <2>7, <3>2 DEF SkipInv, TypeOK
      <4>2. prev[l] # Null /\ At(l, prev[l]) /\ next[l][prev[l]] = req.key
        BY <1>4, <2>7, <4>1 DEF Noted
      <4>3. At(l, prev[l])'
        BY <1>1, <1>3, <4>1, <4>2 DEF At
      <4> QED BY <1>3, <4>1, <4>2, <4>3
    <3> QED BY <3>1, <3>2
  <2>8. CASE level = 0
    <3>1. pc' = "account" /\ level' = level
      BY <2>1, <2>8
    <3>2. Noted(0)'
      <4>1. \A l \in Levels : level <= l
        BY <1>5, <2>8
      <4> QED BY <1>3, <2>7, <2>8, <4>1 DEF Noted
    <3>3. target' = height[req.key]
      BY <1>4, <1>5, <2>6, <2>8
    <3>4. LoopsOK'
      BY <1>3, <1>4, <3>1, <3>2, <3>3
      DEF LoopsOK, Descending, Placing, LinkingOK, Deleting, Scanning
    <3> QED BY <1>1, <2>5, <3>4 DEF SkipInv
  <2>9. CASE level # 0
    <3>1. pc' = "delfind" /\ level' = level - 1 /\ level' + 1 = level /\ level' < level
      BY <1>0, <1>2, <1>5, <2>1, <2>9
    <3>2. level' < max_level'
      BY <1>2, <1>3, <1>5, <2>4, <3>1
    <3>3. Descending'
      <4>1. cur \in Keys => cur # Head_ /\ height[cur] \in Nat
        BY KeyNumbers DEF SkipInv, TypeOK
      <4>2. cur = Head_ \/ (cur \in Keys /\ level' < height[cur])
        BY <1>2, <1>5, <2>4, <3>1, <4>1
      <4>3. At(level, cur)'
        BY <1>1, <1>2, <1>3, <2>1, <2>4, <4>2 DEF At
      <4> QED BY <3>2, <4>3 DEF Descending
    <3>4. Noted(level + 1)'
      BY <1>3, <2>7, <3>1 DEF Noted
    <3>5. level' + 1 < height[req.key] => target' = height[req.key]
      BY <2>6, <3>1
    <3>6. LoopsOK'
      BY <1>3, <1>4, <3>1, <3>3, <3>4, <3>5 DEF LoopsOK, Placing, LinkingOK, Deleting, Scanning
    <3> QED BY <1>1, <2>5, <3>6 DEF SkipInv
  <2> QED BY <2>8, <2>9
<1> QED BY <1>6, <1>7, <1>8

\* The new node is on no level yet.  On the levels it adds to the list there
\* is nothing but the head.
LEMMA NewNodeKeeps ==
    ASSUME SkipInv, NEW h \in RandomLevel, NewNode(h)
    PROVE  SkipInv'
<1>1. /\ pc = "findprev" /\ pc' = "link" /\ i' = 0 /\ level = 0
      /\ succ = Null \/ succ >= req.key
      /\ prev' = [prev EXCEPT ![0] = cur]
      /\ max_level' = IF h > max_level THEN h ELSE max_level
      /\ height' = [height EXCEPT ![req.key] = h]
      /\ value' = [value EXCEPT ![req.key] = req.val]
      /\ next' = next /\ size' = size /\ mem_usage' = mem_usage /\ req' = req /\ cur' = cur
      /\ level' = level /\ target' = target /\ ret' = ret
  BY DEF NewNode
<1>2. TypeOK /\ LevelsSorted /\ NodesOK
  BY DEF SkipInv
<1>3. /\ req.key \in Keys /\ req.key \in Nat /\ req.val \in Values /\ req.val # Absent
      /\ 0 \in Levels /\ kMaxHeight \in Nat /\ Head_ < req.key /\ Head_ \in Nodes
      /\ h \in Nat /\ h > 0 /\ h <= kMaxHeight /\ max_level \in Nat /\ Null # Head_
      /\ \A l \in Levels : l \in Nat
      /\ \A k \in Keys : k \in Nat /\ height[k] \in Nat
  BY <1>2, KeyNumbers, KeysAssumption DEF RandomLevel, TypeOK, Levels
<1>4. /\ cur \in Nodes
      /\ cur < req.key
      /\ cur = Head_ \/ (cur \in Keys /\ level < height[cur])
      /\ succ \in Keys \cup {Null}
      /\ level >= height[req.key] => succ # req.key
  BY <1>1, Succ
<1>5. /\ height[req.key] = 0
      /\ \A l \in Levels : IF l >= max_level THEN prev[l] = Null
                           ELSE l > level => prev[l] # Null /\ Gap(l, prev[l])
  BY <1>1 DEF SkipInv, LoopsOK, Placing
<1>6. /\ height' \in [Keys -> 0 .. kMaxHeight]
      /\ \A k \in Keys : height'[k] = IF k = req.key THEN h ELSE height[k]
  BY <1>1, <1>2, <1>3 DEF TypeOK
<1>7. /\ value' \in [Keys -> Values \cup {Absent}]
      /\ \A k \in Keys : value'[k] = IF k = req.key THEN req.val ELSE value[k]
  BY <1>1, <1>2, <1>3 DEF TypeOK
<1>8. prev' \in [Levels -> Nodes \cup {Null}] /\ \A l \in Levels : prev'[l] = IF l = 0 THEN cur ELSE prev[l]
  BY <1>1, <1>2, <1>3, <1>4 DEF TypeOK
<1>9. max_level' \in 1 .. kMaxHeight /\ max_level' >= max_level /\ max_level' >= h
  BY <1>1, <1>2, <1>3 DEF TypeOK
<1>10. TypeOK'
  BY <1>1, <1>2, <1>3, <1>6, <1>7, <1>8, <1>9 DEF TypeOK
<1>11. ASSUME NEW l \in Levels
       PROVE  /\ On(l) = {k \in Keys : l < height[k]}
              /\ On(l)' = On(l)
  <2>1. On(l) = {k \in Keys : l < height[k]}
    BY <1>1, OnPlain
  <2>2. On(l)' = {k \in Keys : l < height'[k] /\ ~(k = req.key /\ 0 <= l)}
    BY <1>1 DEF On
  <2>3. \A k \in Keys : l < height'[k] /\ ~(k = req.key /\ 0 <= l) <=> l < height[k]
    BY <1>3, <1>5, <1>6
  <2> QED BY <2>1, <2>2, <2>3
<1>12. LevelsSorted'
  BY <1>1, <1>2, <1>11, SortedLevels
<1>13. NodesOK'
  <2>1. ASSUME NEW k \in Keys
        PROVE  height'[k] <= max_level' /\ (height'[k] > 0 <=> value'[k] # Absent)
    <3>1. height[k] <= max_level /\ (height[k] > 0 <=> value[k] # Absent)
      BY <1>2 DEF NodesOK
    <3> QED BY <1>3, <1>6, <1>7, <1>9, <3>1
  <2> QED BY <2>1 DEF NodesOK
<1>14. ASSUME NEW l \in Levels, l < h
       PROVE  IF prev'[l] = Null THEN next'[l][Head_] = Null ELSE Gap(l, prev[l])'
  <2>1. CASE l = 0
    <3>1. prev'[l] = cur
      BY <1>8, <2>1
    <3>2. succ = Null \/ succ > req.key
      BY <1>1, <1>3, <1>4, <1>5
    <3>3. cur \in On(0) \cup {Head_}
      BY <1>1, <1>4, <1>3, <1>11
    <3>4. cur # Null
      BY <1>2, <1>4, KeyNumbers
    <3>5. Gap(l, prev[l])'
      BY <1>1, <1>4, <1>11, <2>1, <3>1, <3>2, <3>3 DEF Gap, At, succ
    <3> QED BY <3>1, <3>4, <3>5
  <2>2. CASE l # 0 /\ l < max_level
    <3>1. prev'[l] = prev[l] /\ prev[l] # Null /\ Gap(l, prev[l])
      BY <1>1, <1>3, <1>5, <1>8, <2>2
    <3>2. Gap(l, prev[l])'
      BY <1>1, <1>11, <3>1 DEF Gap, At
    <3> QED BY <3>1, <3>2
  <2>3. CASE l # 0 /\ ~(l < max_level)
    <3>1. prev'[l] = Null
      BY <1>3, <1>5, <1>8, <2>3
    <3>2. \A k \in Keys : ~(l < height[k])
      BY <1>2, <1>3, <2>3 DEF NodesOK
    <3>3. On(l) = {}
      BY <1>11, <3>2
    <3>4. SortedLevel(next[l], {})
      BY <1>2, <3>3, SortedLevels
    <3>5. next[l][Head_] = Null
      BY <3>4 DEF SortedLevel
    <3> QED BY <1>1, <3>1, <3>5
  <2> QED BY <2>1, <2>2, <2>3
<1>15. LinkingOK'
  BY <1>1, <1>3, <1>6, <1>14 DEF LinkingOK
<1>16. LoopsOK'
  BY <1>1, <1>15 DEF LoopsOK, Descending, Placing, Deleting, Scanning
<1> QED BY <1>10, <1>12, <1>13, <1>16 DEF SkipInv

\* One level of the new node is linked: into the gap prev has noted, or
\* behind the head of a level that is new.
LEMMA LinkKeeps ==
    ASSUME SkipInv, Link
    PROVE  SkipInv'
<1>1. /\ pc = "link" /\ pc' = "link" /\ i' = i + 1
      /\ i < height[req.key]
      /\ next' = IF prev[i] = Null
                 THEN [next EXCEPT ![i][req.key] = Null, ![i][Head_] = req.key]
                 ELSE [next EXCEPT ![i][req.key] = next[i][prev[i]], ![i][prev[i]] = req.key]
      /\ height' = height /\ value' = value /\ max_level' = max_level /\ size' = size
      /\ mem_usage' = mem_usage /\ req' = req /\ cur' = cur
      /\ level' = level /\ prev' = prev /\ target' = target /\ ret' = ret
  BY DEF Link, countVars
<1>2. TypeOK /\ LevelsSorted /\ NodesOK
  BY DEF SkipInv
<1>3. /\ req.key \in Keys /\ req.key \in Nat /\ req.key \in Nodes
      /\ kMaxHeight \in Nat /\ Head_ < req.key /\ Head_ \in Nodes /\ Null # Head_
      /\ height[req.key] \in 0 .. kMaxHeight
      /\ \A l \in Levels : l \in Nat
      /\ \A k \in Keys : k \in Nat /\ k \in Nodes
  BY <1>2, KeyNumbers DEF TypeOK, Levels
<1>4. i \in Levels /\ i \in Nat /\ i' \in 0 .. kMaxHeight
  BY <1>1, <1>2, <1>3 DEF TypeOK, Levels
<1>5. /\ 0 < height[req.key]
      /\ \A l \in Levels : i <= l /\ l < height[req.key] =>
             IF prev[l] = Null THEN next[l][Head_] = Null ELSE Gap(l, prev[l])
  BY <1>1 DEF SkipInv, LoopsOK, LinkingOK
<1>6. PICK p : p = IF prev[i] = Null THEN Head_ ELSE prev[i]
  OBVIOUS
<1>7. /\ p \in On(i) \cup {Head_}
      /\ p < req.key
      /\ next[i][p] = Null \/ next[i][p] > req.key
  <2>1. IF prev[i] = Null THEN next[i][Head_] = Null ELSE Gap(i, prev[i])
    BY <1>1, <1>3, <1>4, <1>5
  <2> QED BY <1>3, <1>6, <2>1 DEF Gap, At
<1>8. p \in Nodes /\ p # req.key
  BY <1>3, <1>7 DEF On
<1>9. next \in [Levels -> [Nodes -> Keys \cup {Null}]]
  BY <1>2 DEF TypeOK
<1>10. next' = [next EXCEPT ![i] = [next[i] EXCEPT ![req.key] = next[i][p], ![p] = req.key]]
  <2>1. prev[i] = Null => next[i][Head_] = Null
    BY <1>1, <1>3, <1>4, <1>5
  <2> QED BY <1>1, <1>3, <1>4, <1>6, <1>8, <1>9, <2>1
<1>11. next' \in [Levels -> [Nodes -> Keys \cup {Null}]]
  BY <1>3, <1>4, <1>8, <1>9, <1>10
<1>12. TypeOK'
  BY <1>1, <1>2, <1>4, <1>11 DEF TypeOK
<1>13. /\ next'[i] = [next[i] EXCEPT ![req.key] = next[i][p], ![p] = req.key]
       /\ \A l \in Levels : l # i => next'[l] = next[l]
  BY <1>4, <1>9, <1>10
<1>14. ASSUME NEW l \in Levels
       PROVE  /\ On(l) = {k \in Keys : l < height[k] /\ ~(k = req.key /\ i <= l)}
              /\ On(l)' = {k \in Keys : l < height[k] /\ ~(k = req.key /\ i + 1 <= l)}
  BY <1>1 DEF On
<1>15. PICK j \in Levels : j = i
  BY <1>4
<1>16. On(j)' = On(j) \cup {req.key} /\ On(j) \in SUBSET Keys /\ req.key \notin On(j)
  <2>1. On(j) = {k \in Keys : j < height[k] /\ ~(k = req.key /\ i <= j)}
    BY <1>14
  <2>2. On(j)' = {k \in Keys : j < height[k] /\ ~(k = req.key /\ i + 1 <= j)}
    BY <1>14
  <2> QED BY <1>1, <1>3, <1>4, <1>15, <2>1, <2>2
<1>17. \A l \in Levels : l # j => On(l)' = On(l)
  <2>1. ASSUME NEW l \in Levels, l # j PROVE On(l)' = On(l)
    <3>1. i <= l <=> i + 1 <= l
      BY <1>3, <1>4, <1>15, <2>1
    <3> QED BY <1>14, <3>1
  <2> QED BY <2>1
<1>18. LevelsSorted'
  <2>1. ASSUME NEW l \in Levels PROVE SortedLevel(next'[l], On(l)')
    <3>1. SortedLevel(next[l], On(l))
      BY <1>2, SortedLevels
    <3>2. CASE l = j
      <4>1. SortedLevel(next'[j], On(j) \cup {req.key})
        <5> DEFINE S == On(j)
                   nx == next[j]
                   ny == next'[j]
                   k == req.key
        <5>1. /\ S \in SUBSET Keys /\ nx \in [Nodes -> Keys \cup {Null}] /\ SortedLevel(nx, S)
              /\ p \in S \cup {Head_} /\ k \in Keys /\ k \notin S /\ p < k
              /\ nx[p] = Null \/ nx[p] > k
              /\ ny = [nx EXCEPT ![k] = nx[p], ![p] = k]
          BY <1>3, <1>7, <1>9, <1>13, <1>15, <1>16, <3>1, <3>2
        <5> HIDE DEF S, nx, ny, k
        <5>2. SortedLevel(ny, S \cup {k})
          BY <5>1, LinkLevel
        <5> QED BY <5>2 DEF S, ny, k
      <4> QED BY <1>16, <3>2, <4>1
    <3>3. CASE l # j
      BY <1>13, <1>15, <1>17, <3>1, <3>3
    <3> QED BY <3>2, <3>3
  <2> QED BY <2>1, SortedLevels
<1>19. NodesOK'
  BY <1>1, <1>2 DEF NodesOK
<1>20. LinkingOK'
  <2>1. ASSUME NEW l \in Levels, i + 1 <= l, l < height[req.key]
        PROVE  IF prev'[l] = Null THEN next'[l][Head_] = Null ELSE Gap(l, prev[l])'
    <3>1. l # j /\ i <= l
      BY <1>3, <1>4, <1>15, <2>1
    <3>2. next'[l] = next[l] /\ On(l)' = On(l)
      BY <1>13, <1>15, <1>17, <3>1
    <3>3. IF prev[l] = Null THEN next[l][Head_] = Null ELSE Gap(l, prev[l])
      BY <1>5, <2>1, <3>1
    <3> QED BY <1>1, <3>2, <3>3 DEF Gap, At
  <2>2. i' <= height[req.key]
    BY <1>1, <1>3, <1>4
  <2> QED BY <1>1, <1>5, <2>1, <2>2 DEF LinkingOK
<1>21. LoopsOK'
  BY <1>1, <1>20 DEF LoopsOK, Descending, Placing, Deleting, Scanning
<1> QED BY <1>12, <1>18, <1>19, <1>21 DEF SkipInv

\* The last level is linked.
LEMMA LinkedKeeps ==
    ASSUME SkipInv, Linked
    PROVE  SkipInv'
<1>1. /\ pc = "link" /\ i = height[req.key] /\ Finish(NoAnswer)
      /\ next' = next /\ height' = height /\ value' = value /\ max_level' = max_level
      /\ size' = size /\ mem_usage' = mem_usage /\ req' = req
  BY DEF Linked, listVars, countVars
<1>2. TypeOK /\ LevelsSorted /\ NodesOK
  BY DEF SkipInv
<1>3. /\ pc' = "idle"
      /\ cur' \in Nodes \cup {Null}
      /\ level' \in Levels
      /\ prev' \in [Levels -> Nodes \cup {Null}]
      /\ target' \in -1 .. kMaxHeight
      /\ i' \in 0 .. kMaxHeight
      /\ ret' \in [found : BOOLEAN, val : Values \cup {Absent}, keys : Seq(Keys)]
      /\ LoopsOK'
  BY <1>1, NoAnswerType, FinishKeeps
<1>4. TypeOK'
  BY <1>1, <1>2, <1>3 DEF TypeOK
<1>5. ASSUME NEW l \in Levels PROVE On(l)' = On(l)
  <2>1. On(l)' = {k \in Keys : l < height[k]}
    BY <1>1, <1>3 DEF On
  <2>2. On(l) = {k \in Keys : l < height[k] /\ ~(k = req.key /\ height[req.key] <= l)}
    BY <1>1 DEF On
  <2>3. l \in Nat /\ \A k \in Keys : height[k] \in Nat
    BY <1>2 DEF TypeOK, Levels
  <2> QED BY <2>1, <2>2, <2>3
<1>6. LevelsSorted' /\ NodesOK'
  BY <1>1, <1>2, <1>5, SortedLevels DEF NodesOK
<1> QED BY <1>3, <1>4, <1>6 DEF SkipInv

\* The accounts of the node that prev[0] is before.
LEMMA AccountKeeps ==
    ASSUME SkipInv, Account
    PROVE  SkipInv'
<1>1. /\ pc = "account" /\ pc' = "unlink" /\ i' = 0
      /\ mem_usage' = mem_usage - KeySize[req.key] - ValueSize[value[next[0][prev[0]]]]
      /\ next' = next /\ height' = height /\ value' = value /\ max_level' = max_level
      /\ size' = size /\ req' = req /\ cur' = cur /\ level' = level /\ prev' = prev
      /\ target' = target /\ ret' = ret
  BY DEF Account, listVars
<1>2. TypeOK /\ LevelsSorted /\ NodesOK
  BY DEF SkipInv
<1>3. /\ req.key \in Keys /\ 0 \in Levels /\ kMaxHeight \in Nat
      /\ height[req.key] \in Nat /\ \A l \in Levels : l \in Nat
  BY <1>2, KeyNumbers DEF TypeOK, Levels
<1>4. height[req.key] > 0 /\ Noted(0) /\ target = height[req.key]
  BY <1>1 DEF SkipInv, LoopsOK, Deleting
<1>5. next[0][prev[0]] = req.key
  BY <1>3, <1>4 DEF Noted
<1>6. value[req.key] \in Values
  BY <1>2, <1>3, <1>4 DEF TypeOK, NodesOK
<1>7. KeySize[req.key] \in Nat /\ ValueSize[value[req.key]] \in Nat
  BY <1>3, <1>6, SizeAssumption
<1>8. mem_usage' \in Int
  BY <1>1, <1>2, <1>5, <1>7 DEF TypeOK
<1>9. TypeOK'
  BY <1>1, <1>2, <1>3, <1>8 DEF TypeOK
<1>10. ASSUME NEW l \in Levels PROVE On(l)' = On(l)
  BY <1>1, <1>3 DEF On
<1>11. LevelsSorted' /\ NodesOK'
  BY <1>1, <1>2, <1>10, SortedLevels DEF NodesOK
<1>12. Noted(0)'
  BY <1>1, <1>4, <1>10 DEF Noted, At
<1>13. Deleting'
  BY <1>1, <1>3, <1>4, <1>12 DEF Deleting
<1>14. LoopsOK'
  BY <1>1, <1>13 DEF LoopsOK, Descending, Placing, LinkingOK, Scanning
<1> QED BY <1>9, <1>11, <1>14 DEF SkipInv

\* One level of the node is unlinked.
LEMMA UnlinkKeeps ==
    ASSUME SkipInv, Unlink
    PROVE  SkipInv'
<1>1. /\ pc = "unlink" /\ pc' = "unlink" /\ i' = i + 1
      /\ i < target
      /\ next' = IF prev[i] = Null THEN next
                 ELSE [next EXCEPT ![i][prev[i]] = next[i][next[i][prev[i]]]]
      /\ height' = height /\ value' = value /\ max_level' = max_level /\ size' = size
      /\ mem_usage' = mem_usage /\ req' = req /\ cur' = cur
      /\ level' = level /\ prev' = prev /\ target' = target /\ ret' = ret
  BY DEF Unlink, countVars
<1>2. TypeOK /\ LevelsSorted /\ NodesOK
  BY DEF SkipInv
<1>3. /\ req.key \in Keys /\ req.key \in Nat /\ req.key \in Nodes
      /\ kMaxHeight \in Nat
      /\ height[req.key] \in 0 .. kMaxHeight
      /\ \A l \in Levels : l \in Nat
      /\ \A k \in Keys : k \in Nat /\ k \in Nodes
      /\ Head_ \in Nodes
  BY <1>2, KeyNumbers DEF TypeOK, Levels
<1>4. /\ height[req.key] > 0
      /\ target = height[req.key]
      /\ \A l \in Levels : i <= l /\ l < height[req.key] =>
             prev[l] # Null /\ At(l, prev[l]) /\ next[l][prev[l]] = req.key
  BY <1>1 DEF SkipInv, LoopsOK, Deleting, Noted
<1>5. i \in Levels /\ i \in Nat /\ i < height[req.key] /\ i' \in 0 .. kMaxHeight
  BY <1>1, <1>2, <1>3, <1>4 DEF TypeOK, Levels
<1>6. PICK j \in Levels, p \in Nodes \cup {Null} : j = i /\ p = prev[i]
  BY <1>5 DEF SkipInv, TypeOK
<1>7. p # Null /\ p \in On(j) \cup {Head_} /\ p < req.key /\ next[j][p] = req.key
  BY <1>4, <1>5, <1>6 DEF At
<1>8. next \in [Levels -> [Nodes -> Keys \cup {Null}]]
  BY <1>2 DEF TypeOK
<1>9. p \in Nodes
  BY <1>3, <1>7 DEF On
<1>10. next' = [next EXCEPT ![j] = [next[j] EXCEPT ![p] = next[j][req.key]]]
  BY <1>1, <1>6, <1>7, <1>8
<1>11. next' \in [Levels -> [Nodes -> Keys \cup {Null}]]
  BY <1>3, <1>8, <1>9, <1>10
<1>12. TypeOK'
  BY <1>1, <1>2, <1>5, <1>11 DEF TypeOK
<1>13. /\ next'[j] = [next[j] EXCEPT ![p] = next[j][req.key]]
       /\ \A l \in Levels : l # j => next'[l] = next[l]
  BY <1>8, <1>10
<1>14. ASSUME NEW l \in Levels
       PROVE  /\ On(l) = {k \in Keys : l < height[k] /\ ~(k = req.key /\ l < i)}
              /\ On(l)' = {k \in Keys : l < height[k] /\ ~(k = req.key /\ l < i + 1)}
  BY <1>1 DEF On
<1>15. On(j)' = On(j) \ {req.key} /\ On(j) \in SUBSET Keys /\ req.key \in On(j)
  <2>1. On(j) = {k \in Keys : j < height[k] /\ ~(k = req.key /\ j < i)}
    BY <1>14
  <2>2. On(j)' = {k \in Keys : j < height[k] /\ ~(k = req.key /\ j < i + 1)}
    BY <1>14
  <2> QED BY <1>3, <1>5, <1>6, <2>1, <2>2
<1>16. \A l \in Levels : l # j => On(l)' = On(l)
  <2>1. ASSUME NEW l \in Levels, l # j PROVE On(l)' = On(l)
    <3>1. l < i <=> l < i + 1
      BY <1>3, <1>5, <1>6, <2>1
    <3> QED BY <1>14, <3>1
  <2> QED BY <2>1
<1>17. LevelsSorted'
  <2>1. ASSUME NEW l \in Levels PROVE SortedLevel(next'[l], On(l)')
    <3>1. SortedLevel(next[l], On(l))
      BY <1>2, SortedLevels
    <3>2. CASE l = j
      <4>1. SortedLevel(next'[j], On(j) \ {req.key})
        <5> DEFINE S == On(j)
                   nx == next[j]
                   ny == next'[j]
                   k == req.key
        <5>1. /\ S \in SUBSET Keys /\ nx \in [Nodes -> Keys \cup {Null}] /\ SortedLevel(nx, S)
              /\ p \in S \cup {Head_} /\ k \in S /\ nx[p] = k /\ p < k
              /\ ny = [nx EXCEPT ![p] = nx[k]]
          BY <1>7, <1>8, <1>13, <1>15, <3>1, <3>2
        <5> HIDE DEF S, nx, ny, k
        <5>2. SortedLevel(ny, S \ {k})
          BY <5>1, UnlinkLevel
        <5> QED BY <5>2 DEF S, ny, k
      <4> QED BY <1>15, <3>2, <4>1
    <3>3. CASE l # j
      BY <1>13, <1>16, <3>1, <3>3
    <3> QED BY <3>2, <3>3
  <2> QED BY <2>1, SortedLevels
<1>18. NodesOK'
  BY <1>1, <1>2 DEF NodesOK
<1>19. Noted(i)'
  <2>1. ASSUME NEW l \in Levels, i + 1 <= l, l < height[req.key]
        PROVE  prev'[l] # Null /\ At(l, prev[l])' /\ next'[l][prev'[l]] = req'.key
    <3>1. l # j /\ i <= l
      BY <1>3, <1>5, <1>6, <2>1
    <3>2. next'[l] = next[l] /\ On(l)' = On(l)
      BY <1>13, <1>16, <3>1
    <3>3. prev[l] # Null /\ At(l, prev[l]) /\ next[l][prev[l]] = req.key
      BY <1>4, <2>1, <3>1
    <3>4. At(l, prev[l])'
      BY <1>1, <3>2, <3>3 DEF At
    <3> QED BY <1>1, <3>2, <3>3, <3>4
  <2> QED BY <1>1, <2>1 DEF Noted
<1>20. Deleting'
  <2>1. i' <= height[req.key]
    BY <1>1, <1>3, <1>5
  <2> QED BY <1>1, <1>4, <1>19, <2>1 DEF Deleting
<1>21. LoopsOK'
  BY <1>1, <1>20 DEF LoopsOK, Descending, Placing, LinkingOK, Scanning
<1> QED BY <1>12, <1>17, <1>18, <1>21 DEF SkipInv

\* The node is on no level any more, and is freed.
LEMMA UnlinkedKeeps ==
    ASSUME SkipInv, Unlinked
    PROVE  SkipInv'
<1>1. /\ pc = "unlink" /\ i >= target /\ Finish(NoAnswer)
      /\ next' = [l \in Levels |-> [next[l] EXCEPT ![req.key] = Null]]
      /\ height' = [height EXCEPT ![req.key] = 0]
      /\ value' = [value EXCEPT ![req.key] = Absent]
      /\ max_level' = max_level /\ size' = size /\ mem_usage' = mem_usage /\ req' = req
  BY DEF Unlinked, countVars
<1>2. TypeOK /\ LevelsSorted /\ NodesOK
  BY DEF SkipInv
<1>3. /\ req.key \in Keys /\ req.key \in Nodes /\ req.key # Head_
      /\ kMaxHeight \in Nat /\ max_level \in Nat
      /\ \A l \in Levels : l \in Nat
      /\ \A k \in Keys : height[k] \in Nat /\ k \in Nodes
      /\ Head_ \in Nodes
  BY <1>2, KeyNumbers DEF TypeOK, Levels
<1>4. i = height[req.key]
  <2>1. target = height[req.key] /\ i <= height[req.key]
    BY <1>1 DEF SkipInv, LoopsOK, Deleting
  <2>2. i \in Nat
    BY <1>2 DEF TypeOK
  <2> QED BY <1>1, <1>3, <2>1, <2>2
<1>5. /\ pc' = "idle"
      /\ cur' \in Nodes \cup {Null}
      /\ level' \in Levels
      /\ prev' \in [Levels -> Nodes \cup {Null}]
      /\ target' \in -1 .. kMaxHeight
      /\ i' \in 0 .. kMaxHeight
      /\ ret' \in [found : BOOLEAN, val : Values \cup {Absent}, keys : Seq(Keys)]
      /\ LoopsOK'
  BY <1>1, NoAnswerType, FinishKeeps
<1>6. /\ height' \in [Keys -> 0 .. kMaxHeight]
      /\ \A k \in Keys : height'[k] = IF k = req.key THEN 0 ELSE height[k]
  BY <1>1, <1>2, <1>3 DEF TypeOK
<1>7. /\ value' \in [Keys -> Values \cup {Absent}]
      /\ \A k \in Keys : value'[k] = IF k = req.key THEN Absent ELSE value[k]
  BY <1>1, <1>2, <1>3 DEF TypeOK
<1>8. next' \in [Levels -> [Nodes -> Keys \cup {Null}]]
  BY <1>1, <1>2 DEF TypeOK
<1>9. TypeOK'
  BY <1>1, <1>2, <1>5, <1>6, <1>7, <1>8 DEF TypeOK
<1>10. ASSUME NEW l \in Levels
       PROVE  On(l)' = On(l) /\ req.key \notin On(l) /\ On(l) \subseteq Keys
  <2>1. On(l)' = {k \in Keys : l < height'[k]}
    BY <1>5 DEF On
  <2>2. On(l) = {k \in Keys : l < height[k] /\ ~(k = req.key /\ l < height[req.key])}
    BY <1>1, <1>4 DEF On
  <2> QED BY <1>3, <1>6, <2>1, <2>2
<1>11. LevelsSorted'
  <2>1. ASSUME NEW l \in Levels PROVE SortedLevel(next'[l], On(l)')
    <3>1. SortedLevel(next[l], On(l))
      BY <1>2, SortedLevels
    <3>2. \A n \in On(l) \cup {Head_} : next'[l][n] = next[l][n]
      BY <1>1, <1>2, <1>3, <1>10 DEF TypeOK
    <3>3. SortedLevel(next'[l], On(l))
      BY <3>1, <3>2, SameLevel
    <3> QED BY <1>10, <3>3
  <2> QED BY <2>1, SortedLevels
<1>12. NodesOK'
  BY <1>1, <1>2, <1>3, <1>6, <1>7 DEF NodesOK
<1> QED BY <1>5, <1>9, <1>11, <1>12 DEF SkipInv

\* The iterator.
LEMMA ScanKeeps ==
    ASSUME SkipInv, ScanNext \/ ScanEnd
    PROVE  SkipInv'
<1>1. Quiet /\ pc = "scan"
  BY DEF ScanNext, ScanEnd, Quiet, Finish, listVars, countVars
<1>2. /\ LevelsSorted' /\ NodesOK'
      /\ \A l \in Levels : On(l)' = On(l) /\ On(l) = {k \in Keys : l < height[k]}
  BY <1>1, QuietKeeps
<1>3. size' = size /\ mem_usage' = mem_usage /\ req' = req
  BY DEF ScanNext, ScanEnd, countVars
<1>4. TypeOK /\ LevelsSorted /\ 0 \in Levels /\ (cur = Null \/ cur \in On(0))
  BY <1>1, KeyNumbers DEF SkipInv, LoopsOK, Scanning
<1>5. CASE ScanNext
  <2>1. /\ cur # Null
        /\ ret' = [ret EXCEPT !.keys = Append(@, cur)]
        /\ cur' = next[0][cur]
        /\ pc' = pc /\ level' = level /\ prev' = prev /\ target' = target /\ i' = i
    BY <1>5 DEF ScanNext
  <2>2. cur \in On(0) /\ cur \in Keys
    BY <1>2, <1>4, <2>1
  <2>3. next[0][cur] \in On(0) \cup {Null} /\ next[0][cur] \in Nodes \cup {Null}
    <3>1. SortedLevel(next[0], On(0))
      BY <1>4, SortedLevels
    <3>2. next[0][cur] = Null \/ next[0][cur] \in On(0)
      BY <2>2, <3>1 DEF SortedLevel
    <3> QED BY <1>2, <1>4, <3>2 DEF Nodes
  <2>4. ret' \in [found : BOOLEAN, val : Values \cup {Absent}, keys : Seq(Keys)]
    <3>1. ret \in [found : BOOLEAN, val : Values \cup {Absent}, keys : Seq(Keys)]
      BY <1>4 DEF TypeOK
    <3>2. Append(ret.keys, cur) \in Seq(Keys)
      BY <2>2, <3>1
    <3> QED BY <2>1, <3>1, <3>2
  <2>5. TypeOK'
    BY <1>1, <1>3, <1>4, <2>1, <2>3, <2>4, QuietTypes DEF TypeOK
  <2>6. LoopsOK'
    BY <1>1, <1>2, <1>4, <2>1, <2>3
    DEF LoopsOK, Descending, Placing, LinkingOK, Deleting, Scanning
  <2> QED BY <1>2, <2>5, <2>6 DEF SkipInv
<1>6. CASE ScanEnd
  <2>1. Finish(ret)
    BY <1>6 DEF ScanEnd
  <2>2. ret \in [found : BOOLEAN, val : Values \cup {Absent}, keys : Seq(Keys)]
    BY <1>4 DEF TypeOK
  <2>3. /\ pc' = "idle"
        /\ cur' \in Nodes \cup {Null}
        /\ level' \in Levels
        /\ prev' \in [Levels -> Nodes \cup {Null}]
        /\ target' \in -1 .. kMaxHeight
        /\ i' \in 0 .. kMaxHeight
        /\ ret' \in [found : BOOLEAN, val : Values \cup {Absent}, keys : Seq(Keys)]
        /\ LoopsOK'
    BY <2>1, <2>2, FinishKeeps
  <2>4. TypeOK'
    BY <1>1, <1>3, <1>4, <2>3, QuietTypes DEF TypeOK
  <2> QED BY <1>2, <2>3, <2>4 DEF SkipInv
<1> QED BY <1>5, <1>6

(***************************************************************************)
(* The invariant, and what follows from it.                                *)
(***************************************************************************)

\* The empty list.
LEMMA SkipInit == Init => SkipInv
<1> SUFFICES ASSUME Init PROVE SkipInv
  OBVIOUS
<1>1. req \in Requests
  <2>1. PICK k \in Keys, v \in Values : TRUE
    BY KeysAssumption
  <2>2. [op |-> "Get", key |-> k, val |-> v] \in Requests
    BY <2>1 DEF Requests, Ops
  <2>3. (CHOOSE r \in Requests : TRUE) \in Requests
    BY <2>2
  <2> QED BY <2>3 DEF Init
<1>2. TypeOK
  <2>1. next \in [Levels -> [Nodes -> Keys \cup {Null}]]
    BY DEF Init
  <2>2. /\ height \in [Keys -> 0 .. kMaxHeight]
        /\ value \in [Keys -> Values \cup {Absent}]
        /\ max_level \in 1 .. kMaxHeight
        /\ level \in Levels
        /\ target \in -1 .. kMaxHeight
        /\ i \in 0 .. kMaxHeight
    BY HeightAssumption DEF Init, Levels
  <2>3. cur \in Nodes \cup {Null} /\ prev \in [Levels -> Nodes \cup {Null}]
    BY DEF Init, Nodes, NoPrev
  <2> QED BY <1>1, <2>1, <2>2, <2>3, NoAnswerType DEF Init, TypeOK
<1>3. LevelsSorted
  <2>1. ASSUME NEW l \in Levels PROVE On(l) = {} /\ next[l][Head_] = Null
    <3>1. l \in Nat /\ \A k \in Keys : height[k] = 0
      BY DEF Init, Levels
    <3>2. On(l) = {}
      BY <3>1 DEF On
    <3> QED BY <3>2 DEF Init, Nodes
  <2> QED BY <2>1 DEF LevelsSorted
<1>4. NodesOK
  BY DEF Init, NodesOK
<1>5. LoopsOK
  BY DEF Init, LoopsOK, Descending, Placing, LinkingOK, Deleting, Scanning
<1> QED BY <1>2, <1>3, <1>4, <1>5 DEF SkipInv

\* Every step keeps the invariant.
LEMMA NextKeeps == SkipInv /\ [Next]_vars => SkipInv'
<1> SUFFICES ASSUME SkipInv, [Next]_vars PROVE SkipInv'
  OBVIOUS
<1>1. CASE UNCHANGED vars
  <2>1. /\ UNCHANGED <<next, height, value, max_level, size, mem_usage, req, pc>>
        /\ UNCHANGED <<cur, level, prev, target, i, ret>>
    BY <1>1 DEF vars, listVars, countVars, loopVars
  <2>2. \A l \in Levels : On(l)' = On(l)
    BY <2>1 DEF On
  <2>3. LevelsSorted'
    BY <2>1, <2>2, SortedLevels DEF SkipInv
  <2>4. TypeOK' /\ NodesOK'
    BY <2>1 DEF SkipInv, TypeOK, NodesOK
  <2>5. \A l \in Levels : At(l, cur)' <=> At(l, cur)
    BY <2>1, <2>2 DEF At
  <2>6. \A l \in Levels : At(l, prev[l])' <=> At(l, prev[l])
    BY <2>1, <2>2 DEF At
  <2>7. \A l \in Levels : Gap(l, prev[l])' <=> Gap(l, prev[l])
    BY <2>1, <2>6 DEF Gap
  <2>8. Descending'
    <3>1. level \in Levels
      BY DEF SkipInv, TypeOK
    <3>2. At(level, cur)' <=> At(level, cur)
      BY <2>1, <2>2, <3>1 DEF At
    <3> QED BY <2>1, <3>2 DEF SkipInv, LoopsOK, Descending
  <2>9. Placing' /\ LinkingOK'
    BY <2>1, <2>7 DEF SkipInv, LoopsOK, Placing, LinkingOK
  <2>10. Deleting'
    BY <2>1, <2>6 DEF SkipInv, LoopsOK, Deleting, Noted
  <2>11. Scanning'
    BY <2>1, <2>2, HeightAssumption DEF SkipInv, LoopsOK, Scanning, Levels
  <2> QED BY <2>1, <2>3, <2>4, <2>8, <2>9, <2>10, <2>11 DEF SkipInv, LoopsOK
<1>2. CASE Step
  <2>1. CASE SearchDown \/ SearchRight
    BY <2>1, SearchKeeps
  <2>2. CASE SearchFound
    BY <2>2, SearchFoundKeeps
  <2>3. CASE SearchMissed
    BY <2>3, SearchMissedKeeps
  <2>4. CASE FindPrevRight \/ FindPrevDown
    BY <2>4, FindPrevKeeps
  <2>5. CASE \E h \in RandomLevel : NewNode(h)
    BY <2>5, NewNodeKeeps
  <2>6. CASE Link
    BY <2>6, LinkKeeps
  <2>7. CASE Linked
    BY <2>7, LinkedKeeps
  <2>8. CASE DeleteRight \/ DeleteEnd \/ DeleteDown
    BY <2>8, DeleteFindKeeps
  <2>9. CASE Account
    BY <2>9, AccountKeeps
  <2>10. CASE Unlink
    BY <2>10, UnlinkKeeps
  <2>11. CASE Unlinked
    BY <2>11, UnlinkedKeeps
  <2>12. CASE ScanNext \/ ScanEnd
    BY <2>12, ScanKeeps
  <2> QED BY <1>2, <2>1, <2>2, <2>3, <2>4, <2>5, <2>6, <2>7, <2>8, <2>9, <2>10, <2>11, <2>12 DEF Step
<1>3. CASE \E r \in Requests : Start(r)
  BY <1>3, StartKeeps
<1> QED BY <1>1, <1>2, <1>3 DEF Next

\* SkipInv is an invariant.
THEOREM SkipInductive == Spec => []SkipInv
  BY SkipInit, NextKeeps, PTL DEF Spec

\* The types of the skip list's state: in particular i, level and the
\* heights stay in the range of the next vectors of skiplist.h.
THEOREM SkipListTypeCorrect == Spec => []TypeOK
<1>1. SkipInv => TypeOK
  BY DEF SkipInv
<1> QED BY <1>1, SkipInductive, PTL

\* Every level is the sorted list of the keys on it, at every step of Insert
\* and Delete, whatever heights RandomLevel draws.
THEOREM LevelsStaySorted == Spec => []LevelsSorted
<1>1. SkipInv => LevelsSorted
  BY DEF SkipInv
<1> QED BY <1>1, SkipInductive, PTL

\* No loop of the skip list reads past the end of a node's next vector or
\* follows nullptr; Delete never gets to its "A error point" and finds
\* the node it accounts for.
THEOREM LoopsStayInBounds == Spec => []InBounds
<1>1. SkipInv => InBounds
  <2> SUFFICES ASSUME SkipInv PROVE InBounds
    OBVIOUS
  <2>1. TypeOK /\ LoopsOK
    BY DEF SkipInv
  <2>2. /\ req.key \in Keys /\ 0 \in Levels /\ Null # Head_ /\ Null \notin Keys /\ Head_ \notin Keys
        /\ kMaxHeight \in Nat /\ i \in Nat
        /\ \A k \in Keys : height[k] \in 0 .. kMaxHeight
    BY <2>1, KeyNumbers DEF TypeOK
  <2>3. pc \in {"search", "findprev", "delfind"} =>
            cur = Head_ \/ (cur \in Keys /\ level < height[cur])
    BY Succ
  <2>4. pc = "account" => prev[0] # Null /\ next[0][prev[0]] # Null
    BY <2>1, <2>2 DEF LoopsOK, Deleting, Noted
  <2>5. pc = "unlink" /\ i < target /\ prev[i] # Null =>
            /\ next[i][prev[i]] # Null
            /\ i < height[next[i][prev[i]]]
    <3> SUFFICES ASSUME pc = "unlink", i < target
                 PROVE  next[i][prev[i]] # Null /\ i < height[next[i][prev[i]]]
      OBVIOUS
    <3>1. target = height[req.key] /\ Noted(i)
      BY <2>1 DEF LoopsOK, Deleting
    <3>2. i \in Levels
      BY <2>2, <3>1 DEF Levels
    <3> QED BY <2>2, <3>1, <3>2 DEF Noted
  <2>6. pc = "link" /\ i < height[req.key] /\ prev[i] \notin {Null, Head_} => i < height[prev[i]]
    <3> SUFFICES ASSUME pc = "link", i < height[req.key], prev[i] \notin {Null, Head_}
                 PROVE  i < height[prev[i]]
      OBVIOUS
    <3>1. i \in Levels
      BY <2>2 DEF Levels
    <3>2. Gap(i, prev[i])
      BY <2>1, <2>2, <3>1 DEF LoopsOK, LinkingOK
    <3> QED BY <3>2 DEF Gap, At, On
  <2>7. pc = "scan" => cur # Head_
    BY <2>1, <2>2 DEF LoopsOK, Scanning, On
  <2> QED BY <2>3, <2>4, <2>5, <2>6, <2>7 DEF InBounds
<1> QED BY <1>1, SkipInductive, PTL

(***************************************************************************)
(* size.                                                                   *)
(***************************************************************************)

\* Insert counts its key before the node exists, and Delete counts it off
\* before the node is gone; the two agree again when the operation returns.
LEMMA SizeKeeps == SkipInv /\ SizeInv /\ [Next]_vars => SizeInv'
<1> SUFFICES ASSUME SkipInv, SizeInv, [Next]_vars PROVE SizeInv'
  OBVIOUS
<1>1. IsFiniteSet(Present) /\ Cardinality(Present) \in Nat /\ size \in Int
  BY FS_CardinalityType DEF SizeInv, SkipInv, TypeOK
<1> DEFINE d(p) == IF p = "findprev" THEN 1
                   ELSE IF p \in {"delfind", "account", "unlink"} THEN -1 ELSE 0
<1>2. size = Cardinality(Present) + d(pc)
  BY DEF SizeInv
<1>3. ASSUME height' = height, size' - d(pc') = size - d(pc), size' \in Int PROVE SizeInv'
  <2>1. Present' = Present
    BY <1>3 DEF Present
  <2>2. d(pc) \in Int /\ d(pc') \in Int
    OBVIOUS
  <2> HIDE DEF d
  <2>3. size' = Cardinality(Present) + d(pc')
    BY <1>1, <1>2, <1>3, <2>2
  <2> QED BY <1>1, <2>1, <2>3 DEF SizeInv, d
<1>4. /\ req.key \in Keys
      /\ height \in [Keys -> 0 .. kMaxHeight]
      /\ kMaxHeight \in Nat
  BY KeyNumbers DEF SkipInv, TypeOK
<1>5. CASE UNCHANGED vars
  <2>1. height' = height /\ size' = size /\ pc' = pc
    BY <1>5 DEF vars, listVars, countVars
  <2> QED BY <1>1, <1>3, <2>1
<1>6. CASE SearchFound \/ SearchMissed
  <2>1. height' = height /\ size' - d(pc') = size - d(pc) /\ size' \in Int
    BY <1>1, <1>6
    DEF SearchFound, SearchMissed, InsertBegins, DeleteBegins, Descend, Finish, listVars
  <2> QED BY <1>3, <2>1
<1>7. CASE \/ SearchDown \/ SearchRight \/ FindPrevRight \/ FindPrevDown \/ Link \/ Linked
           \/ DeleteRight \/ DeleteEnd \/ DeleteDown \/ Account \/ Unlink \/ ScanNext \/ ScanEnd
           \/ \E r \in Requests : Start(r)
  <2>1. height' = height /\ size' = size
    BY <1>7
    DEF SearchDown, SearchRight, FindPrevRight, FindPrevDown, Link, Linked, DeleteRight, DeleteEnd,
        DeleteDown, Account, Unlink, ScanNext, ScanEnd, Start, listVars, countVars
  <2>2. d(pc') = d(pc)
    BY <1>7
    DEF SearchDown, SearchRight, FindPrevRight, FindPrevDown, Link, Linked, DeleteRight, DeleteEnd,
        DeleteDown, Account, Unlink, ScanNext, ScanEnd, Start, Finish, Descend
  <2> HIDE DEF d
  <2> QED BY <1>1, <1>3, <2>1, <2>2
<1>8. ASSUME NEW h \in RandomLevel, NewNode(h) PROVE SizeInv'
  <2>1. /\ pc = "findprev" /\ pc' = "link" /\ size' = size
        /\ height' = [height EXCEPT ![req.key] = h]
    BY <1>8 DEF NewNode
  <2>2. height[req.key] = 0 /\ h > 0 /\ h \in Nat
    BY <1>4, <2>1 DEF SkipInv, LoopsOK, Placing, RandomLevel
  <2>3. Present' = Present \cup {req.key} /\ req.key \notin Present
    BY <1>4, <2>1, <2>2 DEF Present
  <2>4. IsFiniteSet(Present') /\ Cardinality(Present') = Cardinality(Present) + 1
    BY <1>1, <2>3, FS_AddElement
  <2> QED BY <1>1, <1>2, <2>1, <2>4 DEF SizeInv
<1>9. CASE Unlinked
  <2>1. /\ pc = "unlink" /\ pc' = "idle" /\ size' = size
        /\ height' = [height EXCEPT ![req.key] = 0]
    BY <1>9 DEF Unlinked, Finish, countVars
  <2>2. height[req.key] > 0
    BY <2>1 DEF SkipInv, LoopsOK, Deleting
  <2>3. Present' = Present \ {req.key} /\ req.key \in Present
    BY <1>4, <2>1, <2>2 DEF Present
  <2>4. IsFiniteSet(Present') /\ Cardinality(Present') = Cardinality(Present) - 1
    BY <1>1, <2>3, FS_RemoveElement
  <2> QED BY <1>1, <1>2, <2>1, <2>4 DEF SizeInv
<1> QED BY <1>5, <1>6, <1>7, <1>8, <1>9 DEF Next, Step

\* Between operations size, which GetSize returns and by which the debugging
\* print follows the list, is the number of keys in it: Insert and Delete
\* count a key exactly when they add or remove it.
THEOREM SizeIsExact == Spec => []SizeExact
<1>1. Init => SizeInv
  <2> SUFFICES ASSUME Init PROVE SizeInv
    OBVIOUS
  <2>1. Present = {}
    BY DEF Init, Present
  <2>2. IsFiniteSet(Present) /\ Cardinality(Present) = 0
    BY <2>1, FS_EmptySet
  <2> QED BY <2>2 DEF Init, SizeInv
<1>2. SkipInv /\ SizeInv /\ [Next]_vars => SizeInv'
  BY SizeKeeps
<1>3. SizeInv => SizeExact
  <2> SUFFICES ASSUME SizeInv, pc = "idle" PROVE size = Cardinality(Present)
    BY DEF SizeExact
  <2>1. Cardinality(Present) \in Nat
    BY FS_CardinalityType DEF SizeInv
  <2> QED BY <2>1 DEF SizeInv
<1> QED BY <1>1, <1>2, <1>3, SkipInductive, PTL DEF Spec

(***************************************************************************)
(* mem_usage.                                                              *)
(***************************************************************************)

\* What the keys in S take with the values v, and each of them.
Total(v, S) == MapThenSumSet(LAMBDA k : KeySize[k] + ValueSize[v[k]], S)
Weight(v, k) == KeySize[k] + ValueSize[v[k]]
Weights(v, S) == [k \in S |-> Weight(v, k)]

\* The total is a sum, so the keys may be added in any order.
LEMMA TotalIsSum ==
    ASSUME NEW v \in [Keys -> Values \cup {Absent}], NEW S \in SUBSET Keys, IsFiniteSet(S),
           \A k \in S : v[k] \in Values
    PROVE  /\ \A k \in S : Weights(v, S)[k] = Weight(v, k) /\ Weight(v, k) \in Int
           /\ \E pick, h : /\ IsPick(pick, S)
                           /\ IsSum(h, S, pick, Weights(v, S))
                           /\ Total(v, S) = h[S]
<1>1. ASSUME NEW k \in S PROVE Weights(v, S)[k] = Weight(v, k) /\ Weight(v, k) \in Int
  BY SizeAssumption DEF Weights, Weight
<1> DEFINE pick == [s \in SUBSET S |-> CHOOSE x \in s : TRUE]
           w == Weights(v, S)
           iter == CHOOSE it : it = [s \in SUBSET S |->
                       IF s = {} THEN 0
                       ELSE (KeySize[CHOOSE x \in s : TRUE] + ValueSize[v[CHOOSE x \in s : TRUE]])
                                + it[s \ {CHOOSE x \in s : TRUE}]]
<1>2. IsPick(pick, S)
  BY DEF IsPick
<1>3. \A x \in S : w[x] \in Int
  BY <1>1
<1>4. ASSUME NEW it
      PROVE  IsSum(it, S, pick, w) <=>
             it = [s \in SUBSET S |->
                       IF s = {} THEN 0
                       ELSE (KeySize[CHOOSE x \in s : TRUE] + ValueSize[v[CHOOSE x \in s : TRUE]])
                                + it[s \ {CHOOSE x \in s : TRUE}]]
  <2>1. ASSUME NEW s \in SUBSET S, s # {}
        PROVE  w[pick[s]] + it[Without(s, pick[s])]
               = (KeySize[CHOOSE x \in s : TRUE] + ValueSize[v[CHOOSE x \in s : TRUE]])
                     + it[s \ {CHOOSE x \in s : TRUE}]
    <3>1. PICK x \in S : x = pick[s] /\ x = CHOOSE y \in s : TRUE
      BY <2>1
    <3>2. w[x] = KeySize[x] + ValueSize[v[x]]
      BY DEF Weights, Weight
    <3>3. Without(s, x) = s \ {x}
      BY DEF Without
    <3> HIDE DEF pick, w
    <3> QED BY <3>1, <3>2, <3>3
  <2> HIDE DEF pick, w
  <2> QED BY <2>1 DEF IsSum
<1>5. PICK h : IsSum(h, S, pick, w)
  <2> HIDE DEF pick, w
  <2> QED BY <1>2, <1>3, SumDefined
<1>6. IsSum(iter, S, pick, w)
  <2> DEFINE P(it) == it = [s \in SUBSET S |->
                       IF s = {} THEN 0
                       ELSE (KeySize[CHOOSE x \in s : TRUE] + ValueSize[v[CHOOSE x \in s : TRUE]])
                                + it[s \ {CHOOSE x \in s : TRUE}]]
  <2>1. \A it : IsSum(it, S, pick, w) <=> P(it)
    <3> HIDE DEF pick, w
    <3> QED BY <1>4
  <2>2. iter = CHOOSE it : P(it)
    OBVIOUS
  <2> HIDE DEF pick, w, P, iter
  <2>3. P(h)
    BY <1>5, <2>1
  <2>4. P(CHOOSE it : P(it))
    BY <2>3, Zenon
  <2> QED BY <2>1, <2>2, <2>4
<1>7. Total(v, S) = iter[S]
  BY DEF Total, MapThenSumSet, MapThenFoldSet
<1> HIDE DEF pick, iter
<1> QED BY <1>1, <1>2, <1>6, <1>7

\* Nothing takes nothing.
LEMMA TotalOfNone ==
    ASSUME NEW v \in [Keys -> Values \cup {Absent}]
    PROVE  Total(v, {}) = 0
<1>1. IsFiniteSet({}) /\ {} \in SUBSET Keys /\ (\A k \in {} : v[k] \in Values)
  BY FS_EmptySet
<1>2. PICK pick, h : /\ IsPick(pick, {})
                     /\ IsSum(h, {}, pick, Weights(v, {}))
                     /\ Total(v, {}) = h[{}]
  BY <1>1, TotalIsSum
<1>3. \A x \in {} : Weights(v, {})[x] \in Int
  OBVIOUS
<1>4. h[{}] = 0
  BY <1>1, <1>2, <1>3, SumAt
<1> QED BY <1>2, <1>4

\* One key more takes what it weighs, as long as the other keys keep their
\* values.
LEMMA TotalWithKey ==
    ASSUME NEW v \in [Keys -> Values \cup {Absent}], NEW u \in [Keys -> Values \cup {Absent}],
           NEW S \in SUBSET Keys, IsFiniteSet(S), NEW k \in Keys, k \notin S,
           \A x \in S : v[x] \in Values /\ u[x] = v[x],
           u[k] \in Values
    PROVE  /\ Total(u, S \cup {k}) = Weight(u, k) + Total(v, S)
           /\ Total(v, S) \in Int
           /\ Weight(u, k) \in Int
<1>1. PICK T \in SUBSET Keys : T = S \cup {k}
  OBVIOUS
<1>2. IsFiniteSet(T) /\ S \subseteq T /\ k \in T /\ Without(T, k) = S /\ T \in SUBSET T
  BY <1>1, FS_AddElement DEF Without
<1>3. \A x \in T : u[x] \in Values
  BY <1>1
<1>4. /\ \A x \in S : Weights(v, S)[x] = Weight(v, x) /\ Weight(v, x) \in Int
      /\ \E pick, h : IsPick(pick, S) /\ IsSum(h, S, pick, Weights(v, S)) /\ Total(v, S) = h[S]
  BY TotalIsSum
<1>5. /\ \A x \in T : Weights(u, T)[x] = Weight(u, x) /\ Weight(u, x) \in Int
      /\ \E pick, h : IsPick(pick, T) /\ IsSum(h, T, pick, Weights(u, T)) /\ Total(u, T) = h[T]
  BY <1>2, <1>3, TotalIsSum
<1>6. PICK p, g : IsPick(p, S) /\ IsSum(g, S, p, Weights(v, S)) /\ Total(v, S) = g[S]
  BY <1>4
<1>7. PICK q, h : IsPick(q, T) /\ IsSum(h, T, q, Weights(u, T)) /\ Total(u, T) = h[T]
  BY <1>5
<1>8. /\ \A x \in S : Weights(v, S)[x] \in Int
      /\ \A x \in T : Weights(u, T)[x] \in Int
      /\ \A x \in S : Weights(v, S)[x] = Weights(u, T)[x]
  <2>1. \A x \in S : Weight(v, x) = Weight(u, x)
    BY DEF Weight
  <2> QED BY <1>2, <1>4, <1>5, <2>1
<1>9. h[T] = Weights(u, T)[k] + h[Without(T, k)]
  BY <1>2, <1>7, <1>8, SumAny
<1>10. g[S] = h[S]
  <2>1. S \subseteq S
    OBVIOUS
  <2> QED BY <1>2, <1>6, <1>7, <1>8, <2>1, SumsAgree
<1>11. g[S] \in Int
  <2>1. S \in SUBSET S
    OBVIOUS
  <2> QED BY <1>6, <1>8, <2>1, SumAt
<1> QED BY <1>1, <1>2, <1>5, <1>6, <1>7, <1>9, <1>10, <1>11

\* mem_usage is what the keys and values in the list take, except while an
\* Insert has counted the pair it has not made yet, or a Delete no longer
\* counts the one it has not yet removed.
MemInv ==
    mem_usage = Total(value, Present) +
        (IF pc = "findprev" THEN KeySize[req.key] + ValueSize[req.val]
         ELSE IF pc = "unlink" THEN -Weight(value, req.key) ELSE 0)

\* The keys in the list take some number of bytes.
LEMMA TotalIsNumber == SkipInv /\ SizeInv => Total(value, Present) \in Int
<1> SUFFICES ASSUME SkipInv, SizeInv PROVE Total(value, Present) \in Int
  OBVIOUS
<1>1. value \in [Keys -> Values \cup {Absent}] /\ height \in [Keys -> 0 .. kMaxHeight]
  BY DEF SkipInv, TypeOK
<1>2. IsFiniteSet(Present) /\ Present \in SUBSET Keys /\ (\A k \in Present : value[k] \in Values)
  BY <1>1 DEF SizeInv, Present, SkipInv, NodesOK
<1>3. Total(value, Present) \in Int
  <2>1. CASE Present = {}
    BY <1>1, <2>1, TotalOfNone
  <2>2. CASE Present # {}
    <3>1. PICK k \in Present : TRUE
      BY <2>2
    <3>2. PICK S \in SUBSET Keys : S = Present \ {k}
      BY <1>2
    <3>3. IsFiniteSet(S) /\ k \notin S /\ Present = S \cup {k} /\ k \in Keys
      BY <1>2, <3>1, <3>2, FS_RemoveElement
    <3>4. \A x \in S : value[x] \in Values /\ value[x] = value[x]
      BY <1>2, <3>2
    <3>5. value[k] \in Values
      BY <1>2
    <3>6. /\ Total(value, S \cup {k}) = Weight(value, k) + Total(value, S)
          /\ Total(value, S) \in Int
          /\ Weight(value, k) \in Int
      BY <1>1, <3>3, <3>4, <3>5, TotalWithKey
    <3> QED BY <3>3, <3>6
  <2> QED BY <2>1, <2>2
<1> QED BY <1>3

\* Delete reads the size of the value it takes off at prev[0]->next[0],
\* which is the node of its key.
LEMMA MemKeeps == SkipInv /\ SizeInv /\ MemInv /\ [Next]_vars => MemInv'
<1> SUFFICES ASSUME SkipInv, SizeInv, MemInv, [Next]_vars PROVE MemInv'
  OBVIOUS
<1>1. /\ value \in [Keys -> Values \cup {Absent}]
      /\ height \in [Keys -> 0 .. kMaxHeight]
      /\ req \in Requests
      /\ req.key \in Keys
      /\ req.val \in Values
      /\ kMaxHeight \in Nat
      /\ mem_usage \in Int
  BY KeyNumbers DEF SkipInv, TypeOK, Requests
<1>2. IsFiniteSet(Present) /\ Present \in SUBSET Keys /\ (\A k \in Present : value[k] \in Values)
  BY <1>1 DEF SizeInv, Present, SkipInv, NodesOK
<1>3. Total(value, Present) \in Int
  BY TotalIsNumber
<1>4. KeySize[req.key] \in Nat /\ ValueSize[req.val] \in Nat
  BY <1>1, SizeAssumption
<1>5. pc \in {"delfind", "account", "unlink"} => req.key \in Present
  BY <1>1 DEF SkipInv, LoopsOK, Deleting, Present
<1>6. pc \in {"account", "unlink"} => Weight(value, req.key) \in Nat
  BY <1>1, <1>2, <1>5, SizeAssumption DEF Weight
<1>7. ASSUME value' = value, height' = height, mem_usage' = mem_usage,
             pc \notin {"findprev", "unlink"}, pc' \notin {"findprev", "unlink"}
      PROVE  MemInv'
  BY <1>7 DEF MemInv, Present
<1>8. ASSUME value' = value, height' = height, mem_usage' = mem_usage, req' = req, pc' = pc
      PROVE  MemInv'
  BY <1>8 DEF MemInv, Present, Weight
<1>9. CASE UNCHANGED vars
  BY <1>8, <1>9 DEF vars, listVars, countVars
<1>10. CASE SearchFound
  <2>1. /\ value' = value /\ height' = height /\ mem_usage' = mem_usage
        /\ pc = "search" /\ pc' \in {"delfind", "idle"}
    BY <1>10 DEF SearchFound, DeleteBegins, Descend, Finish, listVars
  <2> QED BY <1>7, <2>1
<1>11. CASE SearchMissed
  <2>1. value' = value /\ height' = height /\ req' = req /\ pc = "search"
    BY <1>11 DEF SearchMissed, listVars
  <2>2. CASE req.op = "Insert"
    <3>1. /\ pc' = "findprev"
          /\ mem_usage' = mem_usage + KeySize[req.key] + ValueSize[req.val]
      BY <1>11, <2>2 DEF SearchMissed, InsertBegins, Descend
    <3>2. mem_usage = Total(value, Present)
      BY <1>3, <2>1 DEF MemInv
    <3>3. Total(value, Present)' = Total(value, Present)
      BY <2>1 DEF Present
    <3> QED BY <1>3, <1>4, <2>1, <3>1, <3>2, <3>3 DEF MemInv
  <2>3. CASE req.op # "Insert"
    BY <1>7, <1>11, <2>1, <2>3 DEF SearchMissed, Finish
  <2> QED BY <2>2, <2>3
<1>12. CASE \/ SearchDown \/ SearchRight \/ FindPrevRight \/ FindPrevDown \/ Link
            \/ DeleteRight \/ Unlink \/ ScanNext
  BY <1>8, <1>12
  DEF SearchDown, SearchRight, FindPrevRight, FindPrevDown, Link, DeleteRight, Unlink, ScanNext,
      listVars, countVars
<1>13. CASE \/ Linked \/ DeleteEnd \/ DeleteDown \/ ScanEnd \/ \E r \in Requests : Start(r)
  BY <1>7, <1>13
  DEF Linked, DeleteEnd, DeleteDown, ScanEnd, Start, Finish, Descend, listVars, countVars
<1>14. ASSUME NEW h \in RandomLevel, NewNode(h) PROVE MemInv'
  <2>1. /\ pc = "findprev" /\ pc' = "link" /\ mem_usage' = mem_usage
        /\ height' = [height EXCEPT ![req.key] = h]
        /\ value' = [value EXCEPT ![req.key] = req.val]
    BY <1>14 DEF NewNode
  <2>2. height[req.key] = 0 /\ h > 0 /\ h \in Nat
    BY <1>1, <2>1 DEF SkipInv, LoopsOK, Placing, RandomLevel
  <2>3. Present' = Present \cup {req.key} /\ req.key \notin Present
    BY <1>1, <2>1, <2>2 DEF Present
  <2>4. /\ value' \in [Keys -> Values \cup {Absent}]
        /\ value'[req.key] = req.val
        /\ \A x \in Present : value[x] \in Values /\ value'[x] = value[x]
    BY <1>1, <1>2, <2>1, <2>3
  <2>5. Total(value', Present \cup {req.key}) = Weight(value', req.key) + Total(value, Present)
    BY <1>1, <1>2, <2>3, <2>4, TotalWithKey
  <2>6. Weight(value', req.key) = KeySize[req.key] + ValueSize[req.val]
    BY <2>4 DEF Weight
  <2> QED BY <1>3, <1>4, <2>1, <2>3, <2>5, <2>6 DEF MemInv
<1>15. CASE Account
  <2>1. /\ value' = value /\ height' = height /\ req' = req /\ pc = "account" /\ pc' = "unlink"
        /\ mem_usage' = mem_usage - KeySize[req.key] - ValueSize[value[next[0][prev[0]]]]
    BY <1>15 DEF Account, listVars
  <2>2. next[0][prev[0]] = req.key
    <3>1. 0 \in Levels /\ 0 < height[req.key]
      BY <1>1, <1>5, <2>1, HeightAssumption DEF Levels, Present
    <3> QED BY <1>1, <2>1, <3>1 DEF SkipInv, LoopsOK, Deleting, Noted
  <2>3. KeySize[req.key] \in Nat /\ ValueSize[value[req.key]] \in Nat
    BY <1>1, <1>2, <1>5, <2>1, SizeAssumption
  <2>4. mem_usage = Total(value, Present)
    BY <1>3, <2>1 DEF MemInv
  <2>5. Total(value, Present)' = Total(value, Present) /\ Weight(value, req.key)' = Weight(value, req.key)
    BY <2>1 DEF Present, Weight
  <2>6. mem_usage' = Total(value, Present) + -Weight(value, req.key)
    BY <1>3, <2>1, <2>2, <2>3, <2>4 DEF Weight
  <2> QED BY <2>1, <2>5, <2>6 DEF MemInv
<1>16. CASE Unlinked
  <2>1. /\ pc = "unlink" /\ pc' = "idle" /\ mem_usage' = mem_usage
        /\ height' = [height EXCEPT ![req.key] = 0]
        /\ value' = [value EXCEPT ![req.key] = Absent]
    BY <1>16 DEF Unlinked, Finish, countVars
  <2>2. PICK S \in SUBSET Keys : S = Present'
    BY DEF Present
  <2>3. S = Present \ {req.key} /\ req.key \in Present
    BY <1>1, <1>5, <2>1, <2>2 DEF Present
  <2>4. IsFiniteSet(S) /\ req.key \notin S /\ Present = S \cup {req.key}
    BY <1>2, <2>3, FS_RemoveElement
  <2>5. value' \in [Keys -> Values \cup {Absent}] /\ value[req.key] \in Values
    BY <1>1, <1>2, <2>1, <2>3
  <2>6. \A x \in S : value'[x] \in Values /\ value[x] = value'[x]
    BY <1>1, <1>2, <2>1, <2>3
  <2>7. /\ Total(value, S \cup {req.key}) = Weight(value, req.key) + Total(value', S)
        /\ Total(value', S) \in Int
        /\ Weight(value, req.key) \in Int
    BY <1>1, <2>4, <2>5, <2>6, TotalWithKey
  <2>8. mem_usage = Total(value', S)
    BY <2>1, <2>4, <2>7 DEF MemInv
  <2> QED BY <2>1, <2>2, <2>7, <2>8 DEF MemInv
<1> QED BY <1>9, <1>10, <1>11, <1>12, <1>13, <1>14, <1>15, <1>16 DEF Next, Step

\* Between operations mem_usage, by which MemTable decides that it is full,
\* is exactly what the keys and values in the list take, for any sizes: no
\* Insert of a key that is there adds to it, and a Delete takes off what the
\* Insert has added.
THEOREM MemUsageIsExact == Spec => []Accounts
<1>1. Init => SizeInv /\ MemInv
  <2> SUFFICES ASSUME Init PROVE SizeInv /\ MemInv
    OBVIOUS
  <2>1. Present = {}
    BY DEF Init, Present
  <2>2. IsFiniteSet(Present) /\ Cardinality(Present) = 0
    BY <2>1, FS_EmptySet
  <2>3. Total(value, Present) = 0
    <3>1. value \in [Keys -> Values \cup {Absent}]
      BY DEF Init
    <3> QED BY <2>1, <3>1, TotalOfNone
  <2> QED BY <2>2, <2>3 DEF Init, SizeInv, MemInv
<1>2. SkipInv /\ SizeInv /\ MemInv /\ [Next]_vars => SizeInv' /\ MemInv'
  BY SizeKeeps, MemKeeps
<1>3. SkipInv /\ SizeInv /\ MemInv => Accounts
  <2> SUFFICES ASSUME SkipInv, SizeInv, MemInv, pc = "idle"
               PROVE  mem_usage = Total(value, Present)
    BY DEF Accounts, Total
  <2>1. Total(value, Present) \in Int
    BY TotalIsNumber
  <2> QED BY <2>1 DEF MemInv
<1> QED BY <1>1, <1>2, <1>3, SkipInductive, PTL DEF Spec

(***************************************************************************)
(* The skip list implements the ordered map.                               *)
(***************************************************************************)

\* Which operation is in which loop; an operation that runs has not answered.
Running ==
    /\ pc \in {"findprev", "link"} => req.op = "Insert"
    /\ pc \in {"delfind", "account", "unlink"} => req.op = "Delete"
    /\ pc = "scan" => req.op = "Scan"
    /\ pc = "search" => req.op # "Scan"
    /\ pc \notin {"idle", "scan"} => ret = NoAnswer

\* s is strictly ascending.
Ascending(s) == \A a, b \in 1 .. Len(s) : a < b => s[a] < s[b]

\* The elements of s.
Elements(s) == {s[a] : a \in 1 .. Len(s)}

\* A scan has visited the keys before the one it is at, in order.
Visited ==
    pc = "scan" =>
        /\ ret = [NoAnswer EXCEPT !.keys = ret.keys]
        /\ Ascending(ret.keys)
        /\ Elements(ret.keys) = {k \in On(0) : cur = Null \/ k < cur}

MapInv == Running /\ Visited

\* One more key, larger than those before it.
LEMMA AppendAscending ==
    ASSUME NEW s \in Seq(Keys), Ascending(s), NEW k \in Keys, \A x \in Elements(s) : x < k
    PROVE  /\ Append(s, k) \in Seq(Keys)
           /\ Ascending(Append(s, k))
           /\ Elements(Append(s, k)) = Elements(s) \cup {k}
<1> DEFINE t == Append(s, k)
<1>1. /\ t \in Seq(Keys) /\ Len(t) = Len(s) + 1 /\ Len(s) \in Nat /\ t[Len(s) + 1] = k
      /\ \A a \in 1 .. Len(s) : t[a] = s[a]
  OBVIOUS
<1> HIDE DEF t
<1>2. \A a \in 1 .. Len(t) : a \in 1 .. Len(s) \/ a = Len(s) + 1
  BY <1>1
<1>3. Ascending(t)
  <2> SUFFICES ASSUME NEW a \in 1 .. Len(t), NEW b \in 1 .. Len(t), a < b PROVE t[a] < t[b]
    BY DEF Ascending
  <2>1. a \in 1 .. Len(s)
    BY <1>1
  <2>2. CASE b \in 1 .. Len(s)
    BY <1>1, <2>1, <2>2 DEF Ascending
  <2>3. CASE b = Len(s) + 1
    BY <1>1, <2>1, <2>3 DEF Elements
  <2> QED BY <1>2, <2>2, <2>3
<1>4. Elements(t) = Elements(s) \cup {k}
  <2>1. 1 .. Len(s) \subseteq 1 .. Len(t) /\ Len(s) + 1 \in 1 .. Len(t)
    BY <1>1
  <2> QED BY <1>1, <1>2, <2>1 DEF Elements
<1> QED BY <1>1, <1>3, <1>4 DEF t

\* The iterator moves on: it has visited the key it was at, and there is no
\* key between that one and the next.
LEMMA VisitedMovesOn ==
    ASSUME SkipInv, Visited, ScanNext
    PROVE  Visited'
<1>1. /\ pc = "scan" /\ cur # Null /\ pc' = pc /\ cur' = next[0][cur]
      /\ ret' = [ret EXCEPT !.keys = Append(@, cur)]
      /\ next' = next /\ height' = height /\ value' = value /\ max_level' = max_level
  BY DEF ScanNext, listVars, countVars
<1>2. 0 \in Levels /\ \A k \in Keys : k \in Nat /\ k # Null
  BY KeyNumbers DEF SkipInv
<1>3. On(0)' = On(0) /\ On(0) \subseteq Keys
  BY <1>1 DEF On
<1>4. cur \in On(0) /\ cur \in Keys
  BY <1>1, <1>3 DEF SkipInv, LoopsOK, Scanning
<1>5. SortedLevel(next[0], On(0))
  BY <1>2, SortedLevels DEF SkipInv
<1>6. /\ next[0][cur] = Null => \A k \in On(0) : k <= cur
      /\ next[0][cur] # Null =>
             /\ next[0][cur] \in On(0) /\ next[0][cur] > cur
             /\ \A k \in On(0) : k <= cur \/ next[0][cur] <= k
  BY <1>4, <1>5 DEF SortedLevel
<1>7. /\ ret = [NoAnswer EXCEPT !.keys = ret.keys]
      /\ Ascending(ret.keys)
      /\ Elements(ret.keys) = {k \in On(0) : k < cur}
  BY <1>1 DEF Visited
<1>8. ret.keys \in Seq(Keys)
  BY DEF SkipInv, TypeOK
<1>9. /\ Ascending(Append(ret.keys, cur))
      /\ Elements(Append(ret.keys, cur)) = Elements(ret.keys) \cup {cur}
  BY <1>4, <1>7, <1>8, AppendAscending
<1>10. ret'.keys = Append(ret.keys, cur) /\ ret' = [NoAnswer EXCEPT !.keys = ret'.keys]
  BY <1>1, <1>7 DEF NoAnswer
<1>11. {k \in On(0) : next[0][cur] = Null \/ k < next[0][cur]} = {k \in On(0) : k < cur} \cup {cur}
  BY <1>2, <1>3, <1>4, <1>6
<1> QED BY <1>1, <1>3, <1>7, <1>9, <1>10, <1>11 DEF Visited

\* MapInv is kept.
LEMMA MapKeeps == SkipInv /\ MapInv /\ [Next]_vars => MapInv'
<1> SUFFICES ASSUME SkipInv, MapInv, [Next]_vars PROVE MapInv'
  OBVIOUS
<1>1. CASE UNCHANGED vars
  BY <1>1 DEF vars, listVars, countVars, loopVars, MapInv, Running, Visited, On
<1>2. CASE ScanNext
  <2>1. Visited'
    BY <1>2, VisitedMovesOn DEF MapInv
  <2>2. Running'
    BY <1>2 DEF ScanNext, MapInv, Running
  <2> QED BY <2>1, <2>2 DEF MapInv
<1>3. ASSUME NEW r \in Requests, Start(r) PROVE MapInv'
  <2>1. /\ pc = "idle" /\ req' = r /\ ret' = NoAnswer /\ next' = next /\ height' = height
        /\ IF r.op = "Scan" THEN pc' = "scan" /\ cur' = next[0][Head_] ELSE pc' = "search"
    BY <1>3 DEF Start, Descend, listVars
  <2>2. Running'
    BY <2>1 DEF Running
  <2>3. Visited'
    <3> SUFFICES ASSUME pc' = "scan" PROVE Visited'
      BY DEF Visited
    <3>1. cur' = next[0][Head_]
      BY <2>1
    <3>2. On(0)' = On(0) /\ On(0) \subseteq Keys
      BY <2>1 DEF On
    <3>3. 0 \in Levels /\ \A k \in Keys : k \in Nat
      BY KeyNumbers DEF SkipInv
    <3>4. SortedLevel(next[0], On(0))
      BY <3>3, SortedLevels DEF SkipInv
    <3>5. {k \in On(0) : next[0][Head_] = Null \/ k < next[0][Head_]} = {}
      BY <3>2, <3>3, <3>4 DEF SortedLevel, Head_
    <3>6. ret'.keys = <<>> /\ ret' = [NoAnswer EXCEPT !.keys = ret'.keys]
      BY <2>1 DEF NoAnswer
    <3>7. Ascending(<<>>) /\ Elements(<<>>) = {}
      BY DEF Ascending, Elements
    <3> QED BY <3>1, <3>2, <3>5, <3>6, <3>7 DEF Visited
  <2> QED BY <2>2, <2>3 DEF MapInv
<1>4. CASE \/ SearchDown \/ SearchRight \/ SearchFound \/ SearchMissed
           \/ FindPrevRight \/ FindPrevDown \/ (\E h \in RandomLevel : NewNode(h))
           \/ Link \/ Linked \/ DeleteRight \/ DeleteEnd \/ DeleteDown
           \/ Account \/ Unlink \/ Unlinked \/ ScanEnd
  <2>1. pc' # "scan"
    BY <1>4
    DEF SearchDown, SearchRight, SearchFound, SearchMissed, FindPrevRight, FindPrevDown, NewNode,
        Link, Linked, DeleteRight, DeleteEnd, DeleteDown, Account, Unlink, Unlinked, ScanEnd,
        Finish, DeleteBegins, InsertBegins, Descend
  <2>2. Running'
    <3>1. CASE SearchFound \/ SearchMissed
      BY <3>1 DEF SearchFound, SearchMissed, Finish, DeleteBegins, InsertBegins, Descend, MapInv, Running
    <3>2. CASE Linked \/ Unlinked \/ ScanEnd
      BY <3>2 DEF Linked, Unlinked, ScanEnd, Finish, Running
    <3>3. CASE \/ SearchDown \/ SearchRight \/ FindPrevRight \/ FindPrevDown
               \/ (\E h \in RandomLevel : NewNode(h)) \/ Link
      BY <3>3 DEF SearchDown, SearchRight, FindPrevRight, FindPrevDown, NewNode, Link, MapInv, Running
    <3>4. CASE DeleteRight \/ DeleteEnd \/ DeleteDown \/ Account \/ Unlink
      BY <3>4 DEF DeleteRight, DeleteEnd, DeleteDown, Account, Unlink, MapInv, Running
    <3> QED BY <1>4, <3>1, <3>2, <3>3, <3>4
  <2> QED BY <2>1, <2>2 DEF MapInv, Visited
<1> QED BY <1>1, <1>2, <1>3, <1>4 DEF Next, Step

\* The answers of the map are those of the list.
LEMMA MapNames ==
    /\ OM!NoAnswer = NoAnswer
    /\ OM!Ops = Ops
    /\ [op : OM!Ops, key : Keys, val : Values] = Requests
  BY DEF OM!NoAnswer, NoAnswer, OM!Ops, Ops, Requests

\* The initial states are those of the map.
LEMMA MapInit == Init => OM!Init
<1> SUFFICES ASSUME Init PROVE OM!Init
  OBVIOUS
<1>1. req \in Requests
  BY SkipInit DEF SkipInv, TypeOK
<1>2. Map = [k \in Keys |-> Absent] /\ Stage = "idle" /\ Told = NoAnswer
  BY DEF Init, Map, Stage, Told
<1> QED BY <1>1, <1>2, MapNames DEF OM!Init

\* Answers that differ from NoAnswer in nothing, or in found.
LEMMA FieldsOfAnswers ==
    /\ [NoAnswer EXCEPT !.found = FALSE] = NoAnswer
    /\ [NoAnswer EXCEPT !.found = FALSE, !.val = Absent] = NoAnswer
    /\ [NoAnswer EXCEPT !.found = TRUE, !.val = Absent] = [NoAnswer EXCEPT !.found = TRUE]
<1>1. ASSUME NEW r, r = [NoAnswer EXCEPT !.found = FALSE] PROVE r = NoAnswer
  BY <1>1 DEF NoAnswer
<1>2. ASSUME NEW r, r = [NoAnswer EXCEPT !.found = FALSE, !.val = Absent] PROVE r = NoAnswer
  BY <1>2 DEF NoAnswer
<1>3. ASSUME NEW r, r = [NoAnswer EXCEPT !.found = TRUE]
      PROVE  r = [found |-> TRUE, val |-> Absent, keys |-> <<>>]
  BY <1>3 DEF NoAnswer
<1>4. ASSUME NEW r, r = [NoAnswer EXCEPT !.found = TRUE, !.val = Absent]
      PROVE  r = [found |-> TRUE, val |-> Absent, keys |-> <<>>]
  BY <1>4 DEF NoAnswer
<1>5. [NoAnswer EXCEPT !.found = FALSE] = NoAnswer
  BY <1>1
<1>6. [NoAnswer EXCEPT !.found = FALSE, !.val = Absent] = NoAnswer
  BY <1>2
<1>7. [NoAnswer EXCEPT !.found = TRUE] = [found |-> TRUE, val |-> Absent, keys |-> <<>>]
  BY <1>3
<1>8. [NoAnswer EXCEPT !.found = TRUE, !.val = Absent] = [found |-> TRUE, val |-> Absent, keys |-> <<>>]
  BY <1>4
<1> QED BY <1>5, <1>6, <1>7, <1>8

\* A step that the map does not see.
LEMMA MapStutters ==
    ASSUME value' = value, req' = req, Told' = Told, Stage' = Stage,
           pc = "unlink" <=> pc' = "unlink"
    PROVE  UNCHANGED OM!vars
<1>1. Map' = Map
  BY DEF Map
<1> QED BY <1>1 DEF OM!vars

\* Every step of a loop is a step of the map, or one it does not see.
LEMMA MapStep == SkipInv /\ MapInv /\ [Next]_vars => OM!Next \/ UNCHANGED OM!vars
<1> SUFFICES ASSUME SkipInv, MapInv, [Next]_vars PROVE OM!Next \/ UNCHANGED OM!vars
  OBVIOUS
<1>1. /\ Running
      /\ Visited
      /\ TypeOK
      /\ NodesOK
  BY DEF SkipInv, MapInv
<1>2. /\ req.key \in Keys /\ req.op \in Ops /\ req.val \in Values /\ req.val # Absent
      /\ Null \notin Keys /\ \A k \in Keys : k \in Nat
      /\ height[req.key] \in Nat
      /\ value \in [Keys -> Values \cup {Absent}]
      /\ \A l \in Levels : l \in Nat
      /\ kMaxHeight \in Nat
  BY <1>1, KeyNumbers, KeysAssumption DEF TypeOK, Levels
<1>3. CASE UNCHANGED vars
  BY <1>3, MapStutters DEF vars, listVars, Told, Stage, Linking
<1>4. CASE \/ SearchDown \/ SearchRight \/ FindPrevRight \/ FindPrevDown
           \/ DeleteRight \/ DeleteEnd \/ DeleteDown \/ Link \/ Unlink
  <2>1. value' = value /\ req' = req /\ ret' = ret
    BY <1>4 DEF SearchDown, SearchRight, FindPrevRight, FindPrevDown, DeleteRight, DeleteEnd,
                DeleteDown, Link, Unlink, listVars
  <2>2. pc' = pc \/ (pc = "delfind" /\ pc' = "account")
    BY <1>4 DEF SearchDown, SearchRight, FindPrevRight, FindPrevDown, DeleteRight, DeleteEnd,
                DeleteDown, Link, Unlink
  <2> QED BY <2>1, <2>2, MapStutters DEF Told, Stage, Linking
<1>5. CASE ScanNext
  <2>1. value' = value /\ req' = req /\ pc = "scan" /\ pc' = "scan"
    BY <1>5 DEF ScanNext, listVars
  <2> QED BY <2>1, MapStutters DEF Told, Stage, Linking
<1>6. ASSUME NEW r \in Requests, Start(r) PROVE OM!Next
  <2>1. /\ pc = "idle" /\ pc' \in {"scan", "search"} /\ req' = r /\ ret' = NoAnswer
        /\ value' = value
    BY <1>6 DEF Start, Descend, listVars
  <2>2. Stage = "idle" /\ Stage' = "asked" /\ Told' = NoAnswer /\ Map' = Map
    BY <2>1 DEF Stage, Linking, Told, Map
  <2>3. OM!Ask(r)
    BY <2>1, <2>2, MapNames DEF OM!Ask
  <2> QED BY <2>3, MapNames DEF OM!Next
<1>7. ASSUME pc = "search" PROVE Stage = "asked" /\ Told = NoAnswer /\ Map = value
                                 /\ req.op # "Scan"
  BY <1>1, <1>2, <1>7 DEF Stage, Linking, Told, Map, Running
<1>8. ASSUME pc' = "idle" PROVE Stage' = "idle" /\ Told' = ret'
  BY <1>8 DEF Stage, Told
<1>9. ASSUME pc' = "idle", value' \in [Keys -> Values \cup {Absent}] PROVE Map' = value'
  BY <1>9 DEF Map
<1>10. CASE SearchFound
  <2>1. /\ pc = "search" /\ succ = req.key /\ value' = value /\ req' = req
    BY <1>10 DEF SearchFound, listVars
  <2>2. value[req.key] # Absent
    <3>1. level < height[req.key]
      BY <2>1, <1>2, Succ
    <3>2. level \in Nat
      BY <1>1, <1>2 DEF TypeOK
    <3> QED BY <1>1, <1>2, <3>1, <3>2 DEF NodesOK
  <2>3. CASE req.op = "Delete"
    <3>1. pc' = "delfind" /\ ret' = ret
      BY <1>10, <2>3 DEF SearchFound, DeleteBegins, Descend
    <3> QED BY <2>1, <3>1, MapStutters DEF Told, Stage, Linking
  <2>4. CASE req.op # "Delete"
    <3>1. /\ pc' = "idle"
          /\ ret' = [NoAnswer EXCEPT
                       !.found = req.op \in {"Get", "Contains"},
                       !.val = IF req.op = "Get" THEN value[req.key] ELSE Absent]
      BY <1>10, <2>1, <2>4 DEF SearchFound, Finish
    <3>2. Stage' = "idle" /\ Told' = ret' /\ Map' = Map
      BY <1>2, <1>7, <1>8, <1>9, <2>1, <3>1
    <3>3. CASE req.op = "Get"
      <4>1. Told' = [NoAnswer EXCEPT !.found = Map[req.key] # Absent, !.val = Map[req.key]]
        BY <1>7, <2>1, <2>2, <3>1, <3>2, <3>3 DEF NoAnswer
      <4>2. OM!Return
        BY <1>7, <2>1, <3>2, <3>3, <4>1, MapNames DEF OM!Return, OM!Answers
      <4> QED BY <4>2 DEF OM!Next
    <3>4. CASE req.op = "Contains"
      <4>3. (req.op \in {"Get", "Contains"}) = TRUE /\ (Map[req.key] # Absent) = TRUE
        BY <1>7, <2>1, <2>2, <3>4
      <4>1. Told' = [NoAnswer EXCEPT !.found = Map[req.key] # Absent]
        <5>1. ret' = [NoAnswer EXCEPT !.found = TRUE, !.val = Absent]
          BY <3>1, <3>4, <4>3
        <5>2. ret' = [NoAnswer EXCEPT !.found = TRUE]
          BY <5>1, FieldsOfAnswers
        <5> QED BY <3>2, <4>3, <5>2
      <4>2. OM!Return
        BY <1>7, <2>1, <3>2, <3>4, <4>1, MapNames DEF OM!Return, OM!Answers
      <4> QED BY <4>2 DEF OM!Next
    <3>5. CASE req.op = "Insert"
      <4>1. Told' = Told
        <5>1. (req.op \in {"Get", "Contains"}) = FALSE
          BY <3>5
        <5>2. ret' = [NoAnswer EXCEPT !.found = FALSE, !.val = Absent]
          BY <3>1, <3>5, <5>1
        <5>3. ret' = NoAnswer
          BY <5>2 DEF NoAnswer
        <5> QED BY <1>7, <2>1, <3>2, <5>3
      <4>2. OM!ReturnUnchanged
        BY <1>7, <2>1, <2>2, <3>2, <3>5, <4>1 DEF OM!ReturnUnchanged
      <4> QED BY <4>2 DEF OM!Next
    <3> QED BY <1>2, <1>7, <2>1, <2>4, <3>3, <3>4, <3>5 DEF Ops
  <2> QED BY <2>3, <2>4
<1>11. CASE SearchMissed
  <2>1. /\ pc = "search" /\ (succ = Null \/ succ > req.key) /\ level = 0
        /\ value' = value /\ req' = req
    BY <1>11 DEF SearchMissed, listVars
  <2>2. value[req.key] = Absent
    <3>1. height[req.key] = 0
      BY <1>2, <2>1, Succ
    <3> QED BY <1>1, <1>2, <3>1 DEF NodesOK
  <2>3. CASE req.op = "Insert"
    <3>1. pc' = "findprev" /\ ret' = ret
      BY <1>11, <2>3 DEF SearchMissed, InsertBegins, Descend
    <3> QED BY <2>1, <3>1, MapStutters DEF Told, Stage, Linking
  <2>4. CASE req.op # "Insert"
    <3>1. pc' = "idle" /\ ret' = NoAnswer
      BY <1>11, <2>4 DEF SearchMissed, Finish
    <3>2. Stage' = "idle" /\ Told' = NoAnswer /\ Map' = Map
      BY <1>2, <1>7, <1>8, <1>9, <2>1, <3>1
    <3>3. CASE req.op \in {"Get", "Contains"}
      <4>1. /\ NoAnswer = [NoAnswer EXCEPT !.found = Map[req.key] # Absent, !.val = Map[req.key]]
            /\ NoAnswer = [NoAnswer EXCEPT !.found = Map[req.key] # Absent]
        <5>1. (Map[req.key] # Absent) = FALSE /\ Map[req.key] = Absent
          BY <1>7, <2>1, <2>2
        <5> QED BY <5>1, FieldsOfAnswers
      <4>2. OM!Return
        BY <1>7, <2>1, <3>2, <3>3, <4>1, MapNames DEF OM!Return, OM!Answers
      <4> QED BY <4>2 DEF OM!Next
    <3>4. CASE req.op = "Delete"
      <4>1. OM!ReturnUnchanged
        BY <1>7, <2>1, <2>2, <3>2, <3>4 DEF OM!ReturnUnchanged
      <4> QED BY <4>1 DEF OM!Next
    <3> QED BY <1>2, <1>7, <2>1, <2>4, <3>3, <3>4 DEF Ops
  <2> QED BY <2>3, <2>4
<1>12. ASSUME NEW h \in RandomLevel, NewNode(h) PROVE OM!Next
  <2>1. /\ pc = "findprev" /\ pc' = "link" /\ req' = req /\ ret' = ret
        /\ value' = [value EXCEPT ![req.key] = req.val]
    BY <1>12 DEF NewNode
  <2>2. value[req.key] = Absent /\ req.op = "Insert"
    <3>1. height[req.key] = 0
      BY <2>1 DEF SkipInv, LoopsOK, Placing
    <3> QED BY <1>1, <1>2, <2>1, <3>1 DEF NodesOK, Running
  <2>3. Stage = "asked" /\ Stage' = "applied" /\ Told' = Told
    BY <2>1 DEF Stage, Linking, Told
  <2>4. Map = value /\ Map' = value'
    BY <1>2, <2>1 DEF Map
  <2>5. Map' = [Map EXCEPT ![req.key] = req.val] /\ Map[req.key] = Absent
    BY <2>1, <2>2, <2>4
  <2>6. OM!Apply
    BY <2>1, <2>2, <2>3, <2>5 DEF OM!Apply
  <2> QED BY <2>6 DEF OM!Next
<1>13. CASE Linked
  <2>1. pc = "link" /\ pc' = "idle" /\ ret' = NoAnswer /\ value' = value /\ req' = req
    BY <1>13 DEF Linked, Finish, listVars
  <2>2. /\ Stage = "applied" /\ Stage' = "idle" /\ Told' = NoAnswer /\ Map' = Map
        /\ req.op = "Insert"
    BY <1>1, <2>1 DEF Stage, Linking, Told, Map, Running
  <2>3. OM!Return
    BY <2>1, <2>2, MapNames DEF OM!Return, OM!Answers
  <2> QED BY <2>3 DEF OM!Next
<1>14. CASE Account
  <2>1. pc = "account" /\ pc' = "unlink" /\ ret' = ret /\ value' = value /\ req' = req
    BY <1>14 DEF Account, listVars
  <2>2. /\ Stage = "asked" /\ Stage' = "applied" /\ Told' = Told /\ req.op = "Delete"
    BY <1>1, <2>1 DEF Stage, Linking, Told, Running
  <2>3. Map' = [Map EXCEPT ![req.key] = Absent]
    BY <1>2, <2>1 DEF Map
  <2>4. OM!Apply
    BY <2>1, <2>2, <2>3 DEF OM!Apply
  <2> QED BY <2>4 DEF OM!Next
<1>15. CASE Unlinked
  <2>1. /\ pc = "unlink" /\ pc' = "idle" /\ ret' = NoAnswer /\ req' = req
        /\ value' = [value EXCEPT ![req.key] = Absent]
    BY <1>15 DEF Unlinked, Finish
  <2>2. Stage = "applied" /\ Stage' = "idle" /\ Told' = NoAnswer /\ req.op = "Delete"
    BY <1>1, <2>1 DEF Stage, Linking, Told, Running
  <2>3. Map' = Map
    BY <1>2, <2>1 DEF Map
  <2>4. OM!Return
    BY <2>1, <2>2, <2>3, MapNames DEF OM!Return, OM!Answers
  <2> QED BY <2>4 DEF OM!Next
<1>16. CASE ScanEnd
  <2>1. pc = "scan" /\ cur = Null /\ pc' = "idle" /\ ret' = ret /\ req' = req /\ value' = value
    BY <1>16 DEF ScanEnd, Finish, listVars
  <2>2. Stage = "asked" /\ Stage' = "idle" /\ Told' = ret /\ Map' = Map /\ req.op = "Scan"
    BY <1>1, <2>1 DEF Stage, Linking, Told, Map, Running
  <2>3. On(0) = OM!Present
    <3>1. On(0) = {k \in Keys : height[k] > 0}
      BY <2>1 DEF On
    <3>2. \A k \in Keys : Map[k] = value[k]
      BY <2>1 DEF Map
    <3> QED BY <1>1, <3>1, <3>2 DEF NodesOK, OM!Present
  <2>4. /\ ret = [NoAnswer EXCEPT !.keys = ret.keys]
        /\ Ascending(ret.keys)
        /\ Elements(ret.keys) = On(0)
    BY <1>1, <2>1 DEF Visited
  <2>5. OM!Visits(ret.keys)
    <3>1. ret.keys \in Seq(Keys)
      BY <1>1 DEF TypeOK
    <3> QED BY <2>3, <2>4, <3>1 DEF OM!Visits, Ascending, Elements
  <2>6. OM!Return
    BY <2>1, <2>2, <2>4, <2>5, MapNames DEF OM!Return, OM!Answers
  <2> QED BY <2>6 DEF OM!Next
<1> QED BY <1>3, <1>4, <1>5, <1>6, <1>10, <1>11, <1>12, <1>13, <1>14, <1>15, <1>16 DEF Next, Step

\* The skip list implements the ordered map, for every set of keys and every
\* height of its nodes: Get and Contains find a key exactly when it is
\* there, Insert leaves a key that is there alone, Delete removes one that
\* is, and the iterator visits every key once, in order.
THEOREM SkipListRefinesMap == Spec => ImplementsMap
<1>1. Init => MapInv
  BY DEF Init, MapInv, Running, Visited
<1>2. Spec => []MapInv
  BY <1>1, MapKeeps, SkipInductive, PTL DEF Spec
<1> QED BY <1>2, SkipInductive, MapInit, MapStep, PTL DEF Spec, ImplementsMap, OM!Spec
=============================================================================
