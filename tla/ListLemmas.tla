---------------------------- MODULE ListLemmas ----------------------------
(***************************************************************************)
(* Lists: what erasing, pushing, moving and dropping do to a sequence, and *)
(* to one without duplicates; least numbers and smallest sets; folds, sums *)
(* and joined sequences.                                                   *)
(***************************************************************************)
EXTENDS Integers, Sequences, SequencesExt, FiniteSetsExt, SequenceTheorems,
        FiniteSetTheorems, WellFoundedInduction, TLAPS

\* The elements before position i.
LEMMA PrefixType ==
    ASSUME NEW S, NEW s \in Seq(S), NEW i \in 1 .. Len(s)
    PROVE  SubSeq(s, 1, i - 1) \in Seq(S)
  OBVIOUS

\* The sequence without its element at position i.
LEMMA RemoveAtProperties ==
    ASSUME NEW S, NEW s \in Seq(S), NEW i \in 1 .. Len(s)
    PROVE  /\ RemoveAt(s, i) \in Seq(S)
           /\ Len(RemoveAt(s, i)) = Len(s) - 1
           /\ \A j \in 1 .. Len(s) - 1 :
                 RemoveAt(s, i)[j] = IF j < i THEN s[j] ELSE s[j + 1]
<1> DEFINE a == SubSeq(s, 1, i - 1)
          b == SubSeq(s, i + 1, Len(s))
<1>1. /\ a \in Seq(S)
      /\ Len(a) = i - 1
      /\ \A j \in 1 .. i - 1 : a[j] = s[j]
  OBVIOUS
<1>2. /\ b \in Seq(S)
      /\ Len(b) = Len(s) - i
      /\ \A j \in 1 .. Len(s) - i : b[j] = s[i + j]
  OBVIOUS
<1> HIDE DEF a, b
<1>3. /\ a \o b \in Seq(S)
      /\ Len(a \o b) = Len(s) - 1
      /\ \A j \in 1 .. Len(s) - 1 : (a \o b)[j] = IF j < i THEN a[j] ELSE b[j - (i - 1)]
  <2>1. /\ a \o b \in Seq(S)
        /\ Len(a \o b) = Len(a) + Len(b)
        /\ \A j \in 1 .. Len(a) + Len(b) :
              (a \o b)[j] = IF j <= Len(a) THEN a[j] ELSE b[j - Len(a)]
    BY <1>1, <1>2, ConcatProperties
  <2>2. Len(s) \in Nat
    BY LenProperties
  <2> QED BY <1>1, <1>2, <2>1, <2>2
<1>4. RemoveAt(s, i) = a \o b
  BY DEF RemoveAt, a, b
<1> QED BY <1>1, <1>2, <1>3, <1>4

\* The sequence with an element put in front of it.
LEMMA ConsProperties ==
    ASSUME NEW S, NEW s \in Seq(S), NEW x \in S
    PROVE  /\ <<x>> \o s \in Seq(S)
           /\ Len(<<x>> \o s) = Len(s) + 1
           /\ \A j \in 1 .. Len(s) + 1 :
                 (<<x>> \o s)[j] = IF j = 1 THEN x ELSE s[j - 1]
  OBVIOUS

\* Two elements.
LEMMA PairProperties ==
    ASSUME NEW S, NEW x \in S, NEW y \in S
    PROVE  \E s \in Seq(S) : s = <<x, y>> /\ Len(s) = 2 /\ s[1] = x /\ s[2] = y
<1> DEFINE p == <<x, y>>
<1>1. p \in Seq(S) /\ Len(p) = 2 /\ p[1] = x /\ p[2] = y
  OBVIOUS
<1>2. p = <<x, y>>
  OBVIOUS
<1> HIDE DEF p
<1> QED BY <1>1, <1>2

\* Two pairs behind each other.
LEMMA PairsProperties ==
    ASSUME NEW S, NEW x \in S, NEW y \in S, NEW v \in S, NEW w \in S,
           NEW p, p = <<x, y>>, NEW q, q = <<v, w>>, NEW s, s = p \o q
    PROVE  s \in Seq(S) /\ Len(s) = 4 /\ s[1] = x /\ s[2] = y /\ s[3] = v /\ s[4] = w
<1>1. p \in Seq(S) /\ Len(p) = 2 /\ p[1] = x /\ p[2] = y
  BY PairProperties
<1>2. q \in Seq(S) /\ Len(q) = 2 /\ q[1] = v /\ q[2] = w
  BY PairProperties
<1>3. /\ s \in Seq(S)
      /\ Len(s) = Len(p) + Len(q)
      /\ \A i \in 1 .. Len(p) + Len(q) : s[i] = IF i <= Len(p) THEN p[i] ELSE q[i - Len(p)]
  BY <1>1, <1>2, ConcatProperties
<1>4. Len(s) = 4 /\ \A i \in 1 .. 4 : s[i] = IF i <= 2 THEN p[i] ELSE q[i - 2]
  BY <1>1, <1>2, <1>3
<1>5. s[1] = p[1] /\ s[2] = p[2] /\ s[3] = q[1] /\ s[4] = q[2]
  BY <1>4
<1> QED BY <1>1, <1>2, <1>3, <1>4, <1>5

\* The part of a sequence between a position and itself.
LEMMA SubSeqOne ==
    ASSUME NEW S, NEW s \in Seq(S), NEW i \in 1 .. Len(s)
    PROVE  SubSeq(s, i, i) = <<s[i]>>
<1>1. SubSeq(s, i, i) = <<s[i]>> \o SubSeq(s, i + 1, i)
  BY SubSeqRecursiveFirst
<1>2. SubSeq(s, i + 1, i) = <<>>
  BY SubSeqEmpty
<1>3. <<s[i]>> \in Seq(S)
  OBVIOUS
<1> QED BY <1>1, <1>2, <1>3, ConcatEmptySeq

\* The sequence without its last element.
LEMMA FrontProperties ==
    ASSUME NEW S, NEW s \in Seq(S), s # <<>>
    PROVE  /\ Front(s) \in Seq(S)
           /\ Len(Front(s)) = Len(s) - 1
           /\ \A j \in 1 .. Len(s) - 1 : Front(s)[j] = s[j]
           /\ Last(s) = s[Len(s)]
           /\ Last(s) \in S
<1>1. Len(s) \in 1 .. Len(s)
  OBVIOUS
<1>2. PICK n \in 1 .. Len(s) : n = Len(s)
  BY <1>1
<1>3. /\ SubSeq(s, 1, n - 1) \in Seq(S)
      /\ Len(SubSeq(s, 1, n - 1)) = n - 1
      /\ \A j \in 1 .. n - 1 : SubSeq(s, 1, n - 1)[j] = s[j]
  OBVIOUS
<1>4. s[n] \in S
  OBVIOUS
<1> QED BY <1>2, <1>3, <1>4 DEF Front, Last

\* Erasing an element of a list without duplicates.
LEMMA RemoveAtInjective ==
    ASSUME NEW S, NEW s \in Seq(S), NEW p \in 1 .. Len(s), IsInjective(s)
    PROVE  /\ RemoveAt(s, p) \in Seq(S)
           /\ Len(RemoveAt(s, p)) = Len(s) - 1
           /\ ToSet(RemoveAt(s, p)) = ToSet(s) \ {s[p]}
           /\ IsInjective(RemoveAt(s, p))
<1> DEFINE u == RemoveAt(s, p)
           k == s[p]
<1>1. p \in 1 .. Len(s) /\ s[p] = k
  OBVIOUS
<1>2. \A i, j \in 1 .. Len(s) : s[i] = s[j] => i = j
  BY DEF IsInjective
<1> HIDE DEF k
<1>3. /\ u \in Seq(S)
      /\ Len(u) = Len(s) - 1
      /\ \A j \in 1 .. Len(s) - 1 : u[j] = IF j < p THEN s[j] ELSE s[j + 1]
  BY <1>1, RemoveAtProperties
<1> HIDE DEF u
<1>4. \A i, j \in 1 .. Len(u) : u[i] = u[j] => i = j
  <2> DEFINE At(i) == IF i < p THEN i ELSE i + 1
  <2>1. \A i \in 1 .. Len(u) : At(i) \in 1 .. Len(s) /\ u[i] = s[At(i)]
    BY <1>1, <1>3
  <2>2. \A i, j \in 1 .. Len(u) : At(i) = At(j) => i = j
    BY <1>1, <1>3
  <2> HIDE DEF At
  <2> QED BY <1>2, <2>1, <2>2
<1>5. ASSUME NEW j \in 1 .. Len(u)
      PROVE  u[j] # k /\ \E i \in 1 .. Len(s) : u[j] = s[i]
  <2>1. CASE j < p
    BY <1>1, <1>2, <1>3, <2>1
  <2>2. CASE ~(j < p)
    <3>1. j + 1 \in 1 .. Len(s) /\ u[j] = s[j + 1] /\ j + 1 # p
      BY <1>1, <1>3, <2>2
    <3> QED BY <1>1, <1>2, <3>1
  <2> QED BY <2>1, <2>2
<1>6. ASSUME NEW i \in 1 .. Len(s), s[i] # k
      PROVE  \E j \in 1 .. Len(u) : u[j] = s[i]
  <2>1. CASE i < p
    <3>1. i \in 1 .. Len(u) /\ u[i] = s[i]
      BY <1>1, <1>3, <2>1
    <3> QED BY <3>1
  <2>2. CASE i > p
    <3>1. i - 1 \in 1 .. Len(u) /\ u[i - 1] = s[i]
      BY <1>1, <1>3, <2>2
    <3> QED BY <3>1
  <2> QED BY <1>1, <1>6, <2>1, <2>2
<1>7. ToSet(u) = ToSet(s) \ {k}
  <2>1. DOMAIN u = 1 .. Len(u) /\ DOMAIN s = 1 .. Len(s)
    BY <1>3
  <2>2. ToSet(u) = {u[j] : j \in 1 .. Len(u)} /\ ToSet(s) = {s[i] : i \in 1 .. Len(s)}
    BY <2>1 DEF ToSet
  <2> QED BY <1>5, <1>6, <2>2
<1>8. IsInjective(u)
  BY <1>3, <1>4 DEF IsInjective
<1> QED BY <1>1, <1>3, <1>7, <1>8 DEF u

\* Putting a new k in front.
LEMMA PushProperties ==
    ASSUME NEW S, NEW s \in Seq(S), NEW k \in S, k \notin ToSet(s), IsInjective(s)
    PROVE  /\ <<k>> \o s \in Seq(S)
           /\ Len(<<k>> \o s) = Len(s) + 1
           /\ ToSet(<<k>> \o s) = ToSet(s) \cup {k}
           /\ IsInjective(<<k>> \o s)
<1> DEFINE f == <<k>> \o s
<1>1. /\ f \in Seq(S)
      /\ Len(f) = Len(s) + 1
      /\ \A j \in 1 .. Len(s) + 1 : f[j] = IF j = 1 THEN k ELSE s[j - 1]
  BY ConsProperties
<1> HIDE DEF f
<1>2. \A i, j \in 1 .. Len(s) : s[i] = s[j] => i = j
  BY DEF IsInjective
<1>3. \A i \in 1 .. Len(s) : s[i] # k
  BY DEF ToSet
<1>4. \A i, j \in 1 .. Len(f) : f[i] = f[j] => i = j
  <2> SUFFICES ASSUME NEW i \in 1 .. Len(f), NEW j \in 1 .. Len(f), f[i] = f[j]
               PROVE  i = j
    OBVIOUS
  <2>1. i = 1 => f[i] = k
    BY <1>1
  <2>2. i # 1 => i - 1 \in 1 .. Len(s) /\ f[i] = s[i - 1]
    BY <1>1
  <2>3. j = 1 => f[j] = k
    BY <1>1
  <2>4. j # 1 => j - 1 \in 1 .. Len(s) /\ f[j] = s[j - 1]
    BY <1>1
  <2> QED BY <1>2, <1>3, <2>1, <2>2, <2>3, <2>4
<1>5. \A i \in 1 .. Len(s) : i + 1 \in 1 .. Len(f) /\ f[i + 1] = s[i]
  BY <1>1
<1>6. \A j \in 1 .. Len(f) : j = 1 \/ (j - 1 \in 1 .. Len(s) /\ f[j] = s[j - 1])
  BY <1>1
<1>7. ToSet(f) = ToSet(s) \cup {k}
  <2>1. DOMAIN f = 1 .. Len(f) /\ DOMAIN s = 1 .. Len(s)
    BY <1>1
  <2>2. 1 \in 1 .. Len(f) /\ f[1] = k
    BY <1>1
  <2> QED BY <1>5, <1>6, <2>1, <2>2 DEF ToSet
<1>8. IsInjective(f)
  BY <1>1, <1>4 DEF IsInjective
<1> QED BY <1>1, <1>7, <1>8 DEF f

\* Dropping the last element.
LEMMA DropLastProperties ==
    ASSUME NEW S, NEW s \in Seq(S), s # <<>>, IsInjective(s)
    PROVE  /\ Front(s) \in Seq(S)
           /\ Len(Front(s)) = Len(s) - 1
           /\ ToSet(Front(s)) = ToSet(s) \ {Last(s)}
           /\ Last(s) \in ToSet(s)
           /\ IsInjective(Front(s))
<1> DEFINE f == Front(s)
<1>1. /\ f \in Seq(S)
      /\ Len(f) = Len(s) - 1
      /\ \A j \in 1 .. Len(s) - 1 : f[j] = s[j]
      /\ Last(s) = s[Len(s)]
  BY FrontProperties
<1> HIDE DEF f
<1>2. \A i, j \in 1 .. Len(s) : s[i] = s[j] => i = j
  BY DEF IsInjective
<1>3. Len(s) \in 1 .. Len(s)
  OBVIOUS
<1>4. DOMAIN f = 1 .. Len(f) /\ DOMAIN s = 1 .. Len(s)
  BY <1>1
<1>5. \A j \in 1 .. Len(f) : j \in 1 .. Len(s) /\ j # Len(s) /\ f[j] = s[j]
  BY <1>1
<1>6. \A i \in 1 .. Len(s) : s[i] # Last(s) => i \in 1 .. Len(f) /\ f[i] = s[i]
  BY <1>1, <1>3
<1>7. ToSet(f) = ToSet(s) \ {Last(s)}
  <2>1. ToSet(f) = {f[j] : j \in 1 .. Len(f)} /\ ToSet(s) = {s[i] : i \in 1 .. Len(s)}
    BY <1>4 DEF ToSet
  <2>2. \A j \in 1 .. Len(f) : f[j] # Last(s)
    BY <1>1, <1>2, <1>3, <1>5
  <2> QED BY <1>5, <1>6, <2>1, <2>2
<1>8. Last(s) \in ToSet(s)
  BY <1>1, <1>3, <1>4 DEF ToSet
<1>9. IsInjective(f)
  BY <1>2, <1>4, <1>5 DEF IsInjective
<1> QED BY <1>1, <1>7, <1>8, <1>9 DEF f

\* In a list without duplicates the first occurrence is the only one.
LEMMA RemoveFirstAt ==
    ASSUME NEW S, NEW s \in Seq(S), NEW p \in 1 .. Len(s), IsInjective(s)
    PROVE  RemoveFirst(s, s[p]) = RemoveAt(s, p)
<1> DEFINE places == {i \in 1 .. Len(s) : s[i] = s[p]}
<1>1. places = {p}
  BY DEF IsInjective
<1>2. Min(places) = p
  BY <1>1 DEF Min
<1>3. RemoveFirst(s, s[p]) = RemoveAt(s, Min(places))
  BY <1>1 DEF RemoveFirst, SelectInSeq
<1> QED BY <1>2, <1>3

\* Erasing a member of a list without duplicates.
LEMMA RemoveFirstProperties ==
    ASSUME NEW S, NEW s \in Seq(S), NEW e \in ToSet(s), IsInjective(s)
    PROVE  /\ RemoveFirst(s, e) \in Seq(S)
           /\ Len(RemoveFirst(s, e)) = Len(s) - 1
           /\ ToSet(RemoveFirst(s, e)) = ToSet(s) \ {e}
           /\ IsInjective(RemoveFirst(s, e))
<1>1. PICK p \in 1 .. Len(s) : s[p] = e
  BY DEF ToSet
<1> QED BY <1>1, RemoveFirstAt, RemoveAtInjective

\* Erasing what is not there.
LEMMA RemoveFirstNone ==
    ASSUME NEW S, NEW s \in Seq(S), NEW e, e \notin ToSet(s)
    PROVE  RemoveFirst(s, e) = s
  BY DEF RemoveFirst, ToSet

\* Erasing the last element of a list without duplicates.
LEMMA RemoveLast ==
    ASSUME NEW S, NEW s \in Seq(S), s # <<>>, IsInjective(s)
    PROVE  RemoveFirst(s, Last(s)) = Front(s)
<1>1. Len(s) \in 1 .. Len(s) /\ Last(s) = s[Len(s)]
  BY DEF Last
<1>2. RemoveFirst(s, Last(s)) = RemoveAt(s, Len(s))
  BY <1>1, RemoveFirstAt
<1>3. /\ RemoveAt(s, Len(s)) \in Seq(S)
      /\ Len(RemoveAt(s, Len(s))) = Len(s) - 1
      /\ \A j \in 1 .. Len(s) - 1 : RemoveAt(s, Len(s))[j] = s[j]
  BY <1>1, RemoveAtProperties
<1>4. /\ Front(s) \in Seq(S)
      /\ Len(Front(s)) = Len(s) - 1
      /\ \A j \in 1 .. Len(s) - 1 : Front(s)[j] = s[j]
  BY FrontProperties
<1>5. RemoveAt(s, Len(s)) = Front(s)
  BY <1>3, <1>4, SeqEqual
<1> QED BY <1>2, <1>5

(***************************************************************************)
(* Folds.  A fold over a finite set takes the elements one by one, each    *)
(* time the one that pick names of those that are left.                    *)
(***************************************************************************)

\* Of some subsets of a finite set there is one that has none of the others
\* below it: the case in which an induction over finite sets would fail
\* first.
LEMMA SmallestSubset ==
    ASSUME NEW S, IsFiniteSet(S), NEW B \in SUBSET (SUBSET S), B # {}
    PROVE  \E T \in B : \A U \in B : U \subseteq T => U = T
<1>1. IsWellFoundedOn(StrictSubsetOrdering(S), SUBSET S)
  BY FS_StrictSubsetOrderingWellFounded, FS_FiniteSubsetsOfFinite
<1>2. PICK T \in B : \A U \in B : ~(<<U, T>> \in StrictSubsetOrdering(S))
  BY <1>1, WFMin
<1>3. ASSUME NEW U \in B, U \subseteq T PROVE U = T
  <2>1. <<U, T>> \in (SUBSET S) \X (SUBSET S) /\ <<U, T>>[1] = U /\ <<U, T>>[2] = T
    OBVIOUS
  <2> QED BY <1>2, <1>3, <2>1 DEF StrictSubsetOrdering
<1> QED BY <1>3

\* The same for natural numbers.
LEMMA LeastNumber ==
    ASSUME NEW B \in SUBSET Nat, B # {}
    PROVE  \E n \in B : \A m \in B : n <= m
<1> DEFINE R == {p \in Nat \X Nat : p[1] < p[2]}
<1>1. IsWellFoundedOn(R, Nat)
  BY NatLessThanWellFounded, Zenon DEF OpToRel
<1>2. PICK n \in B : \A m \in B : <<m, n>> \notin R
  <2> HIDE DEF R
  <2> QED BY <1>1, WFMin
<1>3. ASSUME NEW m \in B PROVE n <= m
  <2>1. n \in Nat /\ m \in Nat
    OBVIOUS
  <2>2. <<m, n>> \in Nat \X Nat /\ <<m, n>>[1] = m /\ <<m, n>>[2] = n
    BY <2>1
  <2>3. m < n => <<m, n>> \in R
    BY <2>2
  <2> QED BY <1>2, <2>1, <2>3
<1> QED BY <1>3

\* A set of natural numbers below a bound has a largest element.
LEMMA LargestNatural ==
    ASSUME NEW b \in Nat, NEW S \in SUBSET (0 .. b - 1), S # {}
    PROVE  \E m \in S : \A x \in S : x <= m
<1> DEFINE T == {d \in Nat : b - d \in S}
<1>1. T \in SUBSET Nat /\ T # {}
  <2>1. PICK x \in S : TRUE
    OBVIOUS
  <2>2. b - x \in Nat /\ b - (b - x) = x
    OBVIOUS
  <2> QED BY <2>2
<1>2. PICK d \in T : \A e \in T : d <= e
  <2> HIDE DEF T
  <2> QED BY <1>1, LeastNumber
<1>3. ASSUME NEW x \in S PROVE x <= b - d
  <2>1. b - x \in Nat /\ b - (b - x) = x
    OBVIOUS
  <2>2. b - x \in T
    BY <2>1
  <2>3. d \in Nat /\ d <= b - x
    BY <1>2, <2>2
  <2> QED BY <2>1, <2>3
<1> QED BY <1>3

\* s without its element x.
Without(s, x) == s \ {x}

\* pick names an element of every set that has one.
IsPick(pick, S) == \A s \in SUBSET S : s # {} => pick[s] \in s

\* h is the fold over T and over every subset of it.
IsFold(h, T, pick, base, op) ==
    h = [s \in SUBSET T |-> IF s = {} THEN base ELSE op[pick[s]][h[Without(s, pick[s])]]]

\* A fold at the empty set and at any other.
LEMMA FoldAt ==
    ASSUME NEW h, NEW T, NEW pick, NEW base, NEW op, IsFold(h, T, pick, base, op)
    PROVE  /\ h[{}] = base
           /\ \A s \in SUBSET T : s # {} => h[s] = op[pick[s]][h[Without(s, pick[s])]]
<1>1. \A s \in SUBSET T : h[s] = IF s = {} THEN base ELSE op[pick[s]][h[Without(s, pick[s])]]
  BY DEF IsFold
<1> QED BY <1>1

\* Two folds by the same rule agree wherever both are defined.
LEMMA FoldsAgree ==
    ASSUME NEW r, IsFiniteSet(r), NEW pick, IsPick(pick, r), NEW base, NEW op,
           NEW T, NEW U, r \subseteq T, r \subseteq U, NEW g, NEW h,
           IsFold(g, T, pick, base, op), IsFold(h, U, pick, base, op)
    PROVE  g[r] = h[r]
<1> DEFINE B == {s \in SUBSET r : g[s] # h[s]}
<1>1. ASSUME B # {} PROVE FALSE
  <2>1. PICK s \in B : \A q \in B : q \subseteq s => q = s
    <3>1. B \in SUBSET (SUBSET r)
      OBVIOUS
    <3> HIDE DEF B
    <3> QED BY <1>1, <3>1, SmallestSubset
  <2>2. s \in SUBSET T /\ s \in SUBSET U /\ s \in SUBSET r
    OBVIOUS
  <2>3. CASE s = {}
    BY <2>3, FoldAt
  <2>4. CASE s # {}
    <3>1. pick[s] \in s
      BY <2>2, <2>4 DEF IsPick
    <3>2. Without(s, pick[s]) \notin B
      BY <2>1, <3>1 DEF Without
    <3>3. g[Without(s, pick[s])] = h[Without(s, pick[s])]
      BY <2>2, <3>2 DEF Without
    <3>4. g[s] = op[pick[s]][g[Without(s, pick[s])]] /\ h[s] = op[pick[s]][h[Without(s, pick[s])]]
      BY <2>2, <2>4, FoldAt
    <3> QED BY <3>3, <3>4
  <2> QED BY <2>3, <2>4
<1>2. r \in SUBSET r
  OBVIOUS
<1> QED BY <1>1, <1>2

\* A fold over a finite set is defined and has a value of the operator's
\* type.
LEMMA FoldDefined ==
    ASSUME NEW S, IsFiniteSet(S), NEW pick, IsPick(pick, S),
           NEW V, NEW base \in V, NEW op \in [S -> [V -> V]]
    PROVE  \E h \in [SUBSET S -> V] : IsFold(h, S, pick, base, op)
<1> DEFINE Folds(T) == {g \in [SUBSET T -> V] : IsFold(g, T, pick, base, op)}
           B == {T \in SUBSET S : Folds(T) = {}}
           Fold(T) == CHOOSE g \in Folds(T) : TRUE
<1>1. ASSUME NEW T \in SUBSET S, Folds(T) # {}
      PROVE  Fold(T) \in [SUBSET T -> V] /\ IsFold(Fold(T), T, pick, base, op)
  <2>1. Fold(T) \in Folds(T)
    <3> HIDE DEF Folds
    <3> QED BY <1>1
  <2> HIDE DEF Fold
  <2> QED BY <2>1
<1>2. ASSUME NEW T \in SUBSET S, NEW U \in SUBSET S, Folds(T) # {}, Folds(U) # {},
             U \subseteq T
      PROVE  Fold(T)[U] = Fold(U)[U]
  <2> HIDE DEF Fold, Folds
  <2>1. IsFold(Fold(T), T, pick, base, op) /\ IsFold(Fold(U), U, pick, base, op)
    BY <1>1, <1>2
  <2>2. PICK g : g = Fold(T)
    OBVIOUS
  <2>3. PICK h : h = Fold(U)
    OBVIOUS
  <2>4. IsFold(g, T, pick, base, op) /\ IsFold(h, U, pick, base, op)
    BY <2>1, <2>2, <2>3
  <2>5. IsFiniteSet(U) /\ IsPick(pick, U) /\ U \subseteq U
    BY FS_Subset DEF IsPick
  <2>6. g[U] = h[U]
    BY <1>2, <2>4, <2>5, FoldsAgree
  <2> QED BY <2>2, <2>3, <2>6
<1>3. ASSUME NEW T \in SUBSET S, \A U \in SUBSET T : U # T => Folds(U) # {}
      PROVE  Folds(T) # {}
  <2> DEFINE last == IF T = {} THEN base
                     ELSE op[pick[T]][Fold(Without(T, pick[T]))[Without(T, pick[T])]]
             f == [s \in SUBSET T |-> IF s = T THEN last ELSE Fold(s)[s]]
  <2>0. ASSUME NEW s \in SUBSET T, s # T
        PROVE  /\ s \in SUBSET S
               /\ s \in SUBSET s
               /\ Folds(s) # {}
               /\ Fold(s) \in [SUBSET s -> V]
               /\ IsFold(Fold(s), s, pick, base, op)
    <3> HIDE DEF Fold, Folds
    <3> QED BY <1>1, <1>3, <2>0
  <2>1. \A s \in SUBSET T : s # T => Fold(s)[s] \in V
    <3> SUFFICES ASSUME NEW s \in SUBSET T, s # T PROVE Fold(s)[s] \in V
      OBVIOUS
    <3> HIDE DEF Fold, Folds
    <3>1. Fold(s) \in [SUBSET s -> V] /\ s \in SUBSET s
      BY <2>0
    <3> QED BY <3>1
  <2>2. last \in V
    <3> HIDE DEF Fold, Folds
    <3>1. CASE T = {}
      BY <3>1
    <3>2. CASE T # {}
      <4>1. pick[T] \in T
        BY <3>2 DEF IsPick
      <4>2. Fold(Without(T, pick[T]))[Without(T, pick[T])] \in V
        BY <2>1, <4>1 DEF Without
      <4> QED BY <3>2, <4>1, <4>2
    <3> QED BY <3>1, <3>2
  <2>3. f \in [SUBSET T -> V]
    <3> HIDE DEF Fold, Folds, last
    <3> QED BY <2>1, <2>2
  <2>4. ASSUME NEW s \in SUBSET T
        PROVE  f[s] = IF s = {} THEN base ELSE op[pick[s]][f[Without(s, pick[s])]]
    <3> HIDE DEF Fold, Folds
    <3>1. CASE s = {} /\ s = T
      BY <3>1
    <3>2. CASE s = {} /\ s # T
      <4>1. Fold(s)[s] = base
        <5>1. PICK g : g = Fold(s)
          OBVIOUS
        <5>2. IsFold(g, s, pick, base, op)
          BY <2>0, <3>2, <5>1
        <5>3. g[{}] = base
          BY <5>2, FoldAt
        <5> QED BY <3>2, <5>1, <5>3
      <4> QED BY <3>2, <4>1
    <3>3. CASE s # {}
      <4> DEFINE r == Without(s, pick[s])
      <4>1. r \in SUBSET T /\ r # T /\ r # s /\ r \in SUBSET s
        BY <3>3 DEF IsPick, Without
      <4>2. f[r] = Fold(r)[r]
        BY <4>1
      <4>3. CASE s = T
        BY <3>3, <4>2, <4>3
      <4>4. CASE s # T
        <5>1. Fold(s)[s] = op[pick[s]][Fold(s)[r]]
          <6>1. PICK g : g = Fold(s)
            OBVIOUS
          <6>2. IsFold(g, s, pick, base, op) /\ s \in SUBSET s
            BY <2>0, <4>4, <6>1
          <6>3. g[s] = op[pick[s]][g[Without(s, pick[s])]]
            BY <3>3, <6>2, FoldAt
          <6> QED BY <6>1, <6>3
        <5>2. Fold(s)[r] = Fold(r)[r]
          <6>1. Folds(s) # {} /\ Folds(r) # {} /\ s \in SUBSET S /\ r \in SUBSET S /\ r \subseteq s
            BY <2>0, <4>1, <4>4
          <6> HIDE DEF r
          <6> QED BY <1>2, <6>1
        <5> QED BY <3>3, <4>2, <4>4, <5>1, <5>2
      <4> QED BY <4>3, <4>4
    <3> QED BY <3>1, <3>2, <3>3
  <2>5. IsFold(f, T, pick, base, op)
    <3> HIDE DEF f
    <3> QED BY <2>3, <2>4 DEF IsFold
  <2>6. f \in Folds(T)
    <3> HIDE DEF f
    <3> QED BY <2>3, <2>5
  <2> HIDE DEF Folds, f
  <2> QED BY <2>6
<1>4. B = {}
  <2> SUFFICES ASSUME B # {} PROVE FALSE
    OBVIOUS
  <2>1. PICK T \in B : \A U \in B : U \subseteq T => U = T
    <3>1. B \in SUBSET (SUBSET S)
      OBVIOUS
    <3> HIDE DEF B
    <3> QED BY <3>1, SmallestSubset
  <2>2. \A U \in SUBSET T : U # T => Folds(U) # {}
    <3> HIDE DEF Folds
    <3> QED BY <2>1
  <2> HIDE DEF Folds
  <2> QED BY <1>3, <2>1, <2>2
<1>5. Folds(S) # {}
  <2> HIDE DEF Folds
  <2> QED BY <1>4
<1> QED BY <1>5

(***************************************************************************)
(* Sums.                                                                   *)
(***************************************************************************)

\* h is the sum of the weights w over T and over every subset of it.
IsSum(h, T, pick, w) ==
    h = [s \in SUBSET T |-> IF s = {} THEN 0 ELSE w[pick[s]] + h[Without(s, pick[s])]]

\* A sum of numbers is a number, and one round of the loop adds one of them.
LEMMA SumAt ==
    ASSUME NEW T, IsFiniteSet(T), NEW pick, IsPick(pick, T), NEW w, \A x \in T : w[x] \in Int,
           NEW h, IsSum(h, T, pick, w)
    PROVE  /\ h[{}] = 0
           /\ \A s \in SUBSET T : h[s] \in Int
           /\ \A s \in SUBSET T : s # {} => h[s] = w[pick[s]] + h[Without(s, pick[s])]
<1>1. \A s \in SUBSET T : h[s] = IF s = {} THEN 0 ELSE w[pick[s]] + h[Without(s, pick[s])]
  BY DEF IsSum
<1> DEFINE B == {s \in SUBSET T : h[s] \notin Int}
<1>2. ASSUME B # {} PROVE FALSE
  <2>1. PICK s \in B : \A q \in B : q \subseteq s => q = s
    <3>1. B \in SUBSET (SUBSET T)
      OBVIOUS
    <3> HIDE DEF B
    <3> QED BY <1>2, <3>1, SmallestSubset
  <2>2. s # {}
    BY <1>1
  <2>3. pick[s] \in s
    BY <2>2 DEF IsPick
  <2>4. Without(s, pick[s]) \notin B
    BY <2>1, <2>3 DEF Without
  <2>5. h[Without(s, pick[s])] \in Int
    BY <2>4 DEF Without
  <2> QED BY <1>1, <2>2, <2>3, <2>5
<1> QED BY <1>1, <1>2

\* Every sum over a finite set is defined.
LEMMA SumDefined ==
    ASSUME NEW T, IsFiniteSet(T), NEW pick, IsPick(pick, T), NEW w, \A x \in T : w[x] \in Int
    PROVE  \E h : IsSum(h, T, pick, w)
<1> DEFINE op == [x \in T |-> [v \in Int |-> w[x] + v]]
<1>1. op \in [T -> [Int -> Int]]
  OBVIOUS
<1>2. \A x \in T : \A v \in Int : op[x][v] = w[x] + v
  OBVIOUS
<1> HIDE DEF op
<1>3. PICK h \in [SUBSET T -> Int] : IsFold(h, T, pick, 0, op)
  <2>1. 0 \in Int
    OBVIOUS
  <2> QED BY <1>1, <2>1, FoldDefined, Zenon
<1>4. ASSUME NEW s \in SUBSET T
      PROVE  h[s] = IF s = {} THEN 0 ELSE w[pick[s]] + h[Without(s, pick[s])]
  <2>1. CASE s = {}
    BY <1>3, <2>1, FoldAt
  <2>2. CASE s # {}
    <3>1. h[s] = op[pick[s]][h[Without(s, pick[s])]]
      BY <1>3, <2>2, FoldAt
    <3>2. pick[s] \in T /\ h[Without(s, pick[s])] \in Int
      BY <1>3, <2>2 DEF IsPick, Without
    <3> QED BY <1>2, <2>2, <3>1, <3>2
  <2> QED BY <2>1, <2>2
<1>5. IsSum(h, T, pick, w)
  BY <1>3, <1>4 DEF IsSum
<1> QED BY <1>5

\* It does not matter which element is added last.
LEMMA SumAny ==
    ASSUME NEW T, IsFiniteSet(T), NEW pick, IsPick(pick, T), NEW w, \A x \in T : w[x] \in Int,
           NEW h, IsSum(h, T, pick, w), NEW s \in SUBSET T, NEW x \in s
    PROVE  h[s] = w[x] + h[Without(s, x)]
<1> DEFINE B == {r \in SUBSET T : \E y \in r : h[r] # w[y] + h[Without(r, y)]}
<1>1. /\ \A r \in SUBSET T : h[r] \in Int
      /\ \A r \in SUBSET T : r # {} => h[r] = w[pick[r]] + h[Without(r, pick[r])]
  BY SumAt
<1>2. ASSUME B # {} PROVE FALSE
  <2>1. PICK r \in B : \A q \in B : q \subseteq r => q = r
    <3>1. B \in SUBSET (SUBSET T)
      OBVIOUS
    <3> HIDE DEF B
    <3> QED BY <1>2, <3>1, SmallestSubset
  <2>2. PICK y \in r : h[r] # w[y] + h[Without(r, y)]
    OBVIOUS
  <2>3. PICK p \in r : p = pick[r]
    BY DEF IsPick
  <2>4. r \in SUBSET T /\ h[r] = w[p] + h[Without(r, p)] /\ p # y
    BY <1>1, <2>2, <2>3
  <2>5. /\ Without(r, p) \in SUBSET T
        /\ Without(r, y) \in SUBSET T
        /\ Without(r, p) \notin B
        /\ Without(r, y) \notin B
    BY <2>1, <2>2, <2>3 DEF Without
  <2>6. y \in Without(r, p) /\ p \in Without(r, y)
    BY <2>2, <2>3, <2>4 DEF Without
  <2>7. h[Without(r, p)] = w[y] + h[Without(Without(r, p), y)]
    BY <2>5, <2>6
  <2>8. h[Without(r, y)] = w[p] + h[Without(Without(r, y), p)]
    BY <2>5, <2>6
  <2>9. PICK u \in SUBSET T : u = Without(Without(r, p), y) /\ u = Without(Without(r, y), p)
    <3>1. Without(Without(r, p), y) = Without(Without(r, y), p)
      BY DEF Without
    <3>2. Without(Without(r, p), y) \in SUBSET T
      BY DEF Without
    <3> QED BY <3>1, <3>2
  <2>10. w[p] \in Int /\ w[y] \in Int /\ h[u] \in Int
    BY <1>1, <2>2, <2>3, <2>9
  <2>11. h[Without(r, p)] = w[y] + h[u] /\ h[Without(r, y)] = w[p] + h[u]
    BY <2>7, <2>8, <2>9
  <2> QED BY <2>2, <2>4, <2>10, <2>11
<1> QED BY <1>2

\* A sum depends on the elements and their weights only.
LEMMA SumsAgree ==
    ASSUME NEW r, IsFiniteSet(r), NEW T, NEW U, r \subseteq T, r \subseteq U,
           IsFiniteSet(T), IsFiniteSet(U),
           NEW pick, IsPick(pick, T), NEW choose, IsPick(choose, U),
           NEW w, NEW v, \A x \in T : w[x] \in Int, \A x \in U : v[x] \in Int,
           \A x \in r : w[x] = v[x],
           NEW g, NEW h, IsSum(g, T, pick, w), IsSum(h, U, choose, v)
    PROVE  g[r] = h[r]
<1> DEFINE B == {s \in SUBSET r : g[s] # h[s]}
<1>1. ASSUME B # {} PROVE FALSE
  <2>1. PICK s \in B : \A q \in B : q \subseteq s => q = s
    <3>1. B \in SUBSET (SUBSET r)
      OBVIOUS
    <3> HIDE DEF B
    <3> QED BY <1>1, <3>1, SmallestSubset
  <2>2. g[{}] = 0 /\ h[{}] = 0
    BY SumAt
  <2>3. PICK x \in s : TRUE
    BY <2>2
  <2>4. s \in SUBSET T /\ s \in SUBSET U /\ s \in SUBSET r
    OBVIOUS
  <2>5. Without(s, x) \notin B
    BY <2>1, <2>3 DEF Without
  <2>6. g[Without(s, x)] = h[Without(s, x)]
    BY <2>4, <2>5 DEF Without
  <2>7. g[s] = w[x] + g[Without(s, x)]
    BY <2>3, <2>4, SumAny
  <2>8. h[s] = v[x] + h[Without(s, x)]
    BY <2>3, <2>4, SumAny
  <2> QED BY <2>3, <2>4, <2>6, <2>7, <2>8
<1>2. r \in SUBSET r
  OBVIOUS
<1> QED BY <1>1, <1>2

(***************************************************************************)
(* Sequences joined into one.                                              *)
(***************************************************************************)

\* f[i] is what the first i of the sequences make together.
IsJoin(f, seqs) ==
    f = [i \in 1 .. Len(seqs) |-> IF i = 1 THEN seqs[i] ELSE f[i - 1] \o seqs[i]]

\* There is such an f, with sequences for values.
LEMMA JoinDefined ==
    ASSUME NEW S, NEW seqs \in Seq(Seq(S))
    PROVE  \E f : IsJoin(f, seqs)
<1> DEFINE n == Len(seqs)
           Joins(m) == {g \in [1 .. m -> Seq(S)] :
                           \A i \in 1 .. m : g[i] = IF i = 1 THEN seqs[i] ELSE g[i - 1] \o seqs[i]}
           B == {m \in Nat : m <= n /\ Joins(m) = {}}
<1>1. n \in Nat /\ \A i \in 1 .. n : seqs[i] \in Seq(S)
  OBVIOUS
<1> HIDE DEF n
<1>2. Joins(0) # {}
  <2> DEFINE g == [i \in 1 .. 0 |-> <<>>]
  <2>1. g \in [1 .. 0 -> Seq(S)]
    OBVIOUS
  <2>2. g \in Joins(0)
    BY <2>1
  <2> HIDE DEF Joins
  <2> QED BY <2>2
<1>3. ASSUME NEW m \in Nat, m + 1 <= n, Joins(m) # {} PROVE Joins(m + 1) # {}
  <2>1. PICK g \in [1 .. m -> Seq(S)] :
           \A i \in 1 .. m : g[i] = IF i = 1 THEN seqs[i] ELSE g[i - 1] \o seqs[i]
    BY <1>3
  <2> DEFINE next == IF m = 0 THEN seqs[1] ELSE g[m] \o seqs[m + 1]
             h == [i \in 1 .. m + 1 |-> IF i <= m THEN g[i] ELSE next]
  <2>2. next \in Seq(S)
    <3>1. CASE m = 0
      BY <1>1, <1>3, <3>1
    <3>2. CASE m # 0
      <4>1. m \in 1 .. m /\ m + 1 \in 1 .. n
        BY <1>1, <1>3, <3>2
      <4>2. g[m] \in Seq(S) /\ seqs[m + 1] \in Seq(S)
        BY <1>1, <4>1
      <4> QED BY <3>2, <4>2, ConcatProperties
    <3> QED BY <3>1, <3>2
  <2>3. h \in [1 .. m + 1 -> Seq(S)]
    <3> HIDE DEF next
    <3> QED BY <2>2
  <2>4. ASSUME NEW i \in 1 .. m + 1
        PROVE  h[i] = IF i = 1 THEN seqs[i] ELSE h[i - 1] \o seqs[i]
    <3>1. CASE i <= m
      <4>1. i \in 1 .. m /\ (i # 1 => i - 1 \in 1 .. m)
        BY <3>1
      <4>2. h[i] = g[i] /\ (i # 1 => h[i - 1] = g[i - 1])
        <5> HIDE DEF next
        <5> QED BY <4>1
      <4> HIDE DEF h
      <4> QED BY <2>1, <4>1, <4>2
    <3>2. CASE i = m + 1
      <4>1. h[i] = next
        <5> HIDE DEF next
        <5> QED BY <3>2
      <4>2. m # 0 => h[m] = g[m]
        <5> HIDE DEF next
        <5> QED OBVIOUS
      <4> HIDE DEF h
      <4> QED BY <3>2, <4>1, <4>2
    <3> QED BY <3>1, <3>2
  <2>5. h \in Joins(m + 1)
    <3> HIDE DEF h
    <3> QED BY <2>3, <2>4
  <2> HIDE DEF Joins
  <2> QED BY <2>5
<1>4. B = {}
  <2> SUFFICES ASSUME B # {} PROVE FALSE
    OBVIOUS
  <2>1. PICK m \in B : \A k \in B : m <= k
    <3>1. B \in SUBSET Nat
      OBVIOUS
    <3> HIDE DEF B
    <3> QED BY <3>1, LeastNumber
  <2> HIDE DEF Joins
  <2>2. m \in Nat /\ m <= n /\ Joins(m) = {} /\ m # 0
    BY <1>2, <2>1
  <2>3. m - 1 \in Nat /\ (m - 1) + 1 = m /\ m - 1 \notin B
    BY <2>1, <2>2
  <2> QED BY <1>1, <1>3, <2>2, <2>3
<1>5. PICK g \in [1 .. n -> Seq(S)] :
         \A i \in 1 .. n : g[i] = IF i = 1 THEN seqs[i] ELSE g[i - 1] \o seqs[i]
  <2>1. Joins(n) # {}
    <3> HIDE DEF Joins
    <3>1. n \notin B
      BY <1>4
    <3> QED BY <1>1, <3>1
  <2> QED BY <2>1
<1>6. g = [i \in 1 .. n |-> IF i = 1 THEN seqs[i] ELSE g[i - 1] \o seqs[i]]
  BY <1>5
<1> QED BY <1>6 DEF IsJoin, n

\* FlattenSeq is the last of these.
LEMMA FlattenIsJoin ==
    ASSUME NEW S, NEW seqs \in Seq(Seq(S)), seqs # <<>>
    PROVE  \E f : IsJoin(f, seqs) /\ FlattenSeq(seqs) = f[Len(seqs)]
<1> DEFINE P(g) == IsJoin(g, seqs)
           f == CHOOSE g : P(g)
<1>1. P(f)
  <2>1. \E g : P(g)
    BY JoinDefined
  <2> HIDE DEF P
  <2> QED BY <2>1, Zenon
<1>2. FlattenSeq(seqs) = f[Len(seqs)]
  BY DEF FlattenSeq, IsJoin
<1> HIDE DEF f
<1> QED BY <1>1, <1>2

\* off[i] is where the sequence i ends, counting from the front of s.
IsLayout(off, seqs, s) ==
    /\ off[0] = 0
    /\ \A i \in 0 .. Len(seqs) : off[i] \in 0 .. Len(s)
    /\ \A i \in 1 .. Len(seqs) :
          /\ off[i] = off[i - 1] + Len(seqs[i])
          /\ \A j \in 1 .. Len(seqs[i]) : s[off[i - 1] + j] = seqs[i][j]
    /\ off[Len(seqs)] = Len(s)

\* The sequences lie behind each other in what they make together.
LEMMA FlattenLayout ==
    ASSUME NEW S, NEW seqs \in Seq(Seq(S)), seqs # <<>>
    PROVE  FlattenSeq(seqs) \in Seq(S) /\ \E off : IsLayout(off, seqs, FlattenSeq(seqs))
<1>1. PICK f : IsJoin(f, seqs) /\ FlattenSeq(seqs) = f[Len(seqs)]
  BY FlattenIsJoin
<1> DEFINE n == Len(seqs)
<1>2. n \in Nat /\ n >= 1 /\ \A i \in 1 .. n : seqs[i] \in Seq(S)
  OBVIOUS
<1>3. \A i \in 1 .. n : f[i] = IF i = 1 THEN seqs[i] ELSE f[i - 1] \o seqs[i]
  BY <1>1 DEF IsJoin
<1> DEFINE off == [i \in 0 .. n |-> IF i = 0 THEN 0 ELSE Len(f[i])]
           Good(m) == /\ f[m] \in Seq(S)
                      /\ \A i \in 0 .. m : off[i] \in 0 .. Len(f[m])
                      /\ \A i \in 1 .. m :
                            /\ off[i] = off[i - 1] + Len(seqs[i])
                            /\ \A j \in 1 .. Len(seqs[i]) : f[m][off[i - 1] + j] = seqs[i][j]
           B == {m \in Nat : m \in 1 .. n /\ ~Good(m)}
<1>4. off[0] = 0 /\ \A i \in 1 .. n : off[i] = Len(f[i])
  BY <1>2
<1> HIDE DEF n, off
<1>5. Good(1)
  <2>1. f[1] = seqs[1] /\ off[1] = Len(seqs[1]) /\ off[0] = 0 /\ seqs[1] \in Seq(S)
    BY <1>2, <1>3, <1>4
  <2>2. ASSUME NEW i \in 0 .. 1 PROVE off[i] \in 0 .. Len(f[1])
    <3>1. i = 0 \/ i = 1
      OBVIOUS
    <3> QED BY <2>1, <3>1, LenProperties
  <2>3. ASSUME NEW i \in 1 .. 1
        PROVE  /\ off[i] = off[i - 1] + Len(seqs[i])
               /\ \A j \in 1 .. Len(seqs[i]) : f[1][off[i - 1] + j] = seqs[i][j]
    <3>1. i = 1 /\ Len(seqs[1]) \in Nat
      BY <2>1, LenProperties
    <3> QED BY <2>1, <3>1
  <2> QED BY <2>1, <2>2, <2>3
<1>6. ASSUME NEW m \in 1 .. n, m + 1 <= n, Good(m) PROVE Good(m + 1)
  <2>1. f[m + 1] = f[m] \o seqs[m + 1] /\ seqs[m + 1] \in Seq(S) /\ m + 1 \in 1 .. n
    <3>1. m + 1 \in 1 .. n /\ m + 1 # 1 /\ (m + 1) - 1 = m
      BY <1>2, <1>6
    <3> QED BY <1>2, <1>3, <3>1
  <2>2. PICK a \in Nat, b \in Nat : a = Len(f[m]) /\ b = Len(seqs[m + 1])
    BY <1>6, <2>1, LenProperties
  <2>21. f[m] \in Seq(S)
    BY <1>6
  <2>22. f[m + 1] \in Seq(S) /\ Len(f[m + 1]) = a + b
    BY <2>1, <2>2, <2>21, ConcatProperties
  <2>23. \A x \in 1 .. a + b : f[m + 1][x] = IF x <= a THEN f[m][x] ELSE seqs[m + 1][x - a]
    BY <2>1, <2>2, <2>21, ConcatProperties
  <2>3. off[m + 1] = a + b /\ off[m] = a
    BY <1>4, <2>1, <2>2, <2>22
  <2>4. ASSUME NEW i \in 0 .. m + 1 PROVE off[i] \in 0 .. Len(f[m + 1])
    <3>1. CASE i \in 0 .. m
      <4>1. off[i] \in 0 .. a
        BY <1>6, <2>2, <3>1
      <4> QED BY <2>22, <4>1
    <3>2. CASE i = m + 1
      BY <2>22, <2>3, <3>2
    <3> QED BY <3>1, <3>2
  <2>5. ASSUME NEW i \in 1 .. m + 1
        PROVE  /\ off[i] = off[i - 1] + Len(seqs[i])
               /\ \A j \in 1 .. Len(seqs[i]) : f[m + 1][off[i - 1] + j] = seqs[i][j]
    <3>1. CASE i \in 1 .. m
      <4>1. /\ off[i] = off[i - 1] + Len(seqs[i])
            /\ \A j \in 1 .. Len(seqs[i]) : f[m][off[i - 1] + j] = seqs[i][j]
        BY <1>6, <3>1
      <4>2. PICK o \in Nat, c \in Nat : o = off[i - 1] /\ c = Len(seqs[i]) /\ o + c <= a
        <5>1. off[i] \in 0 .. a /\ off[i - 1] \in 0 .. a
          BY <1>6, <2>2, <3>1
        <5>2. Len(seqs[i]) \in Nat
          BY <1>2, <1>6, <3>1, LenProperties
        <5> QED BY <4>1, <5>1, <5>2
      <4>3. ASSUME NEW j \in 1 .. Len(seqs[i]) PROVE f[m + 1][off[i - 1] + j] = seqs[i][j]
        <5>1. o + j \in 1 .. a + b /\ o + j <= a
          BY <4>2
        <5>2. f[m + 1][o + j] = f[m][o + j]
          BY <2>23, <5>1
        <5> QED BY <4>1, <4>2, <5>2
      <4> QED BY <4>1, <4>3
    <3>2. CASE i = m + 1
      <4>1. ASSUME NEW j \in 1 .. b PROVE f[m + 1][a + j] = seqs[m + 1][j]
        <5>1. a + j \in 1 .. a + b /\ ~(a + j <= a) /\ (a + j) - a = j
          OBVIOUS
        <5> QED BY <2>23, <5>1
      <4>2. i - 1 = m
        BY <3>2
      <4> QED BY <2>2, <2>3, <3>2, <4>1, <4>2
    <3> QED BY <3>1, <3>2
  <2> QED BY <2>22, <2>4, <2>5
<1> HIDE DEF Good
<1>7. B = {}
  <2> SUFFICES ASSUME B # {} PROVE FALSE
    OBVIOUS
  <2>1. PICK m \in B : \A k \in B : m <= k
    <3>1. B \in SUBSET Nat
      OBVIOUS
    <3> HIDE DEF B
    <3> QED BY <3>1, LeastNumber
  <2>2. m \in 1 .. n /\ ~Good(m) /\ m # 1
    BY <1>5, <2>1
  <2>3. m - 1 \in 1 .. n /\ (m - 1) + 1 = m /\ m - 1 \notin B
    BY <1>2, <2>1, <2>2
  <2>4. Good(m - 1)
    BY <2>3
  <2> QED BY <1>6, <2>2, <2>3, <2>4
<1>8. Good(n)
  <2>1. n \notin B
    BY <1>7
  <2> QED BY <1>2, <2>1
<1>9. IsLayout(off, seqs, f[n])
  BY <1>2, <1>4, <1>8 DEF Good, IsLayout, n
<1> QED BY <1>1, <1>8, <1>9 DEF Good, n
===========================================================================
