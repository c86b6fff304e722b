---------------------------- MODULE ServerProofs ----------------------------
(***************************************************************************)
(* What holds of the server for every number of connections, every set of  *)
(* requests whose lengths have one digit, and every way TCP cuts what is   *)
(* sent: parseRESP is the inverse of the encoding, the types, that a GET   *)
(* answers what was SET, and that the process goes down only for a key     *)
(* nobody has written since the memtable was last flushed.                 *)
(***************************************************************************)
EXTENDS Server, ListLemmas

(***************************************************************************)
(* The pieces of the parser.                                               *)
(***************************************************************************)

\* The ten digits are different from each other and from what ends or
\* begins a number.
LEMMA DigitFacts ==
    /\ \A x \in 0 .. 9 : /\ DigitOf(x) \in Byte
                         /\ DigitOf(x) \in ToSet(Digit)
                         /\ DigitOf(x) \notin {"SP", "CR", "LF", "MINUS"}
    /\ \A x, y \in 0 .. 9 : DigitOf(x) = DigitOf(y) => x = y
    /\ \A d \in ToSet(Digit) : \E x \in 0 .. 9 : DigitOf(x) = d
    /\ "CR" \notin ToSet(Digit)
<1>1. DOMAIN Digit = 1 .. 10
  BY DEF Digit
<1>2. /\ DigitOf(0) = "0" /\ DigitOf(1) = "1" /\ DigitOf(2) = "2" /\ DigitOf(3) = "3"
      /\ DigitOf(4) = "4" /\ DigitOf(5) = "5" /\ DigitOf(6) = "6" /\ DigitOf(7) = "7"
      /\ DigitOf(8) = "8" /\ DigitOf(9) = "9"
  BY DEF DigitOf, Digit
<1>3. ToSet(Digit) = {DigitOf(x) : x \in 0 .. 9}
  <2>1. ToSet(Digit) = {Digit[j] : j \in 1 .. 10}
    BY <1>1 DEF ToSet
  <2>2. ASSUME NEW j \in 1 .. 10 PROVE j - 1 \in 0 .. 9 /\ DigitOf(j - 1) = Digit[j]
    BY DEF DigitOf
  <2>3. ASSUME NEW x \in 0 .. 9 PROVE x + 1 \in 1 .. 10 /\ DigitOf(x) = Digit[x + 1]
    BY DEF DigitOf
  <2> QED BY <2>1, <2>2, <2>3
<1>4. \A x \in 0 .. 9 : \/ x = 0 \/ x = 1 \/ x = 2 \/ x = 3 \/ x = 4
                        \/ x = 5 \/ x = 6 \/ x = 7 \/ x = 8 \/ x = 9
  OBVIOUS
<1>5. ASSUME NEW x \in 0 .. 9
      PROVE  DigitOf(x) \in Byte /\ DigitOf(x) \notin {"SP", "CR", "LF", "MINUS"}
  <2>1. DigitOf(x) \in Byte
    BY <1>3 DEF Byte
  <2>2. DigitOf(x) \notin {"SP", "CR", "LF", "MINUS"}
    BY <1>2, <1>4
  <2> QED BY <2>1, <2>2
<1>6. ASSUME NEW x \in 0 .. 9, NEW y \in 0 .. 9, DigitOf(x) = DigitOf(y) PROVE x = y
  BY <1>2, <1>4, <1>6
<1> QED BY <1>3, <1>5, <1>6

\* find('\n', pos) + 1 finds the first newline behind pos.
LEMMA AfterLineIs ==
    ASSUME NEW s \in Seq(Byte), NEW pos \in Nat, NEW k \in pos + 1 .. Len(s), s[k] = "LF",
           \A j \in pos + 1 .. k - 1 : s[j] # "LF"
    PROVE  AfterLine(s, pos) = k
<1> DEFINE I == {j \in pos + 1 .. Len(s) : s[j] = "LF"}
<1>1. k \in I /\ \A y \in I : k <= y
  OBVIOUS
<1>2. \A x \in I : x \in Int
  OBVIOUS
<1>3. AfterLine(s, pos) = Min(I)
  BY <1>1 DEF AfterLine, SelectInSubSeq
<1> HIDE DEF I
<1>4. \A x \in I : (\A y \in I : x <= y) => x = k
  BY <1>1, <1>2
<1>5. Min(I) \in I /\ \A y \in I : Min(I) <= y
  BY <1>1 DEF Min
<1> QED BY <1>3, <1>4, <1>5

\* It is a position, or 0.
LEMMA AfterLineType ==
    ASSUME NEW s \in Seq(Byte), NEW pos \in Nat
    PROVE  AfterLine(s, pos) \in Nat
<1> DEFINE I == {j \in pos + 1 .. Len(s) : s[j] = "LF"}
<1>1. AfterLine(s, pos) = IF I # {} THEN Min(I) ELSE 0
  BY DEF AfterLine, SelectInSubSeq
<1>2. I \in SUBSET Nat
  OBVIOUS
<1> HIDE DEF I
<1>3. ASSUME I # {} PROVE Min(I) \in Nat
  <2>1. PICK x \in I : \A y \in I : x <= y
    BY <1>2, <1>3, LeastNumber
  <2>2. Min(I) \in I
    BY <2>1 DEF Min
  <2> QED BY <1>2, <2>2
<1> QED BY <1>1, <1>3

\* Skip stops at the first byte that is not in set, or at the end.
LEMMA SkipIs ==
    ASSUME NEW s \in Seq(Byte), NEW i \in Nat, NEW set, NEW j \in i .. Len(s),
           \A k \in i + 1 .. j : s[k] \in set,
           j < Len(s) => s[j + 1] \notin set
    PROVE  Skip(s, i, set) = j
<1> DEFINE P(x) == /\ \A k \in i + 1 .. x : s[k] \in set
                   /\ x < Len(s) => s[x + 1] \notin set
<1>1. \A x \in i .. Len(s) : P(x) => x = j
  <2> SUFFICES ASSUME NEW x \in i .. Len(s), P(x) PROVE x = j
    OBVIOUS
  <2>1. x < j => x + 1 \in i + 1 .. j
    OBVIOUS
  <2>2. j < x => j + 1 \in i + 1 .. x
    OBVIOUS
  <2> QED BY <2>1, <2>2
<1>2. Skip(s, i, set) = CHOOSE x \in i .. Len(s) : P(x)
  BY DEF Skip
<1>3. P(j)
  OBVIOUS
<1> HIDE DEF P
<1> QED BY <1>1, <1>2, <1>3

\* Skip stops somewhere.
LEMMA SkipStops ==
    ASSUME NEW s \in Seq(Byte), NEW i \in 0 .. Len(s), NEW set
    PROVE  /\ Skip(s, i, set) \in i .. Len(s)
           /\ \A k \in i + 1 .. Skip(s, i, set) : s[k] \in set
<1> DEFINE B == {x \in Nat : x \in i .. Len(s) /\ (x < Len(s) => s[x + 1] \notin set)}
<1>1. Len(s) \in B
  BY LenProperties
<1>2. PICK j \in B : \A x \in B : j <= x
  <2>1. B \in SUBSET Nat /\ B # {}
    BY <1>1
  <2> HIDE DEF B
  <2> QED BY <2>1, LeastNumber
<1>3. ASSUME NEW k \in i + 1 .. j PROVE s[k] \in set
  <2>1. k - 1 \in Nat /\ k - 1 < j /\ k - 1 \in i .. Len(s) /\ k - 1 < Len(s) /\ (k - 1) + 1 = k
    BY LenProperties
  <2>2. k - 1 \notin B
    BY <1>2, <2>1
  <2> QED BY <2>1, <2>2
<1>4. Skip(s, i, set) = j
  BY <1>2, <1>3, SkipIs, LenProperties
<1> QED BY <1>2, <1>3, <1>4

(***************************************************************************)
(* std::stoi.                                                              *)
(***************************************************************************)

\* What the digits ds are worth, and one of them.
Value(ds) == FoldLeft(LAMBDA n, d : 10 * n + (CHOOSE x \in 0 .. 9 : DigitOf(x) = d), 0, ds)
DigitValue(d) == CHOOSE x \in 0 .. 9 : DigitOf(x) = d

\* A digit is worth what it says.
LEMMA DigitValues ==
    /\ \A d \in ToSet(Digit) : DigitValue(d) \in 0 .. 9
    /\ \A x \in 0 .. 9 : DigitValue(DigitOf(x)) = x
<1>1. ASSUME NEW d \in ToSet(Digit) PROVE DigitValue(d) \in 0 .. 9 /\ DigitOf(DigitValue(d)) = d
  <2>1. \E x \in 0 .. 9 : DigitOf(x) = d
    BY DigitFacts
  <2> QED BY <2>1 DEF DigitValue
<1>2. ASSUME NEW x \in 0 .. 9 PROVE DigitValue(DigitOf(x)) = x
  <2>1. DigitOf(x) \in ToSet(Digit)
    BY DigitFacts
  <2>2. /\ DigitValue(DigitOf(x)) \in 0 .. 9
        /\ DigitOf(DigitValue(DigitOf(x))) = DigitOf(x)
    BY <1>1, <2>1
  <2> QED BY <2>2, DigitFacts
<1> QED BY <1>1, <1>2

\* The largest of some positions is one of them.
LEMMA MaxPicks ==
    ASSUME NEW n \in Nat, NEW s \in SUBSET (1 .. n), s # {}
    PROVE  Max(s) \in s
<1>1. s \in SUBSET (0 .. (n + 1) - 1) /\ n + 1 \in Nat
  OBVIOUS
<1>2. PICK m \in s : \A x \in s : x <= m
  BY <1>1, LargestNatural
<1>3. \A y \in s : m >= y
  BY <1>2
<1> QED BY <1>3 DEF Max

\* The value of some digits, from the last to the first.
LEMMA ValueIsFold ==
    ASSUME NEW ds \in Seq(ToSet(Digit))
    PROVE  \E it : /\ Value(ds) = it[1 .. Len(ds)]
                   /\ it[{}] = 0
                   /\ \A s \in SUBSET (1 .. Len(ds)) :
                         /\ it[s] \in Int
                         /\ s # {} => it[s] = 10 * it[Without(s, Max(s))] + DigitValue(ds[Max(s)])
<1> DEFINE D == 1 .. Len(ds)
           pick == [s \in SUBSET D |-> Max(s)]
           op == [j \in D |-> [n \in Int |-> 10 * n + DigitValue(ds[j])]]
           P(it) == it = [s \in SUBSET D |->
                       IF s = {} THEN 0
                       ELSE 10 * it[s \ {Max(s)}] + (CHOOSE x \in 0 .. 9 : DigitOf(x) = ds[Max(s)])]
           iter == CHOOSE it : P(it)
<1>1. Len(ds) \in Nat /\ DOMAIN ds = D /\ IsFiniteSet(D)
  BY FS_Interval
<1>2. \A s \in SUBSET D : s # {} => Max(s) \in s
  BY <1>1, MaxPicks
<1>3. IsPick(pick, D)
  BY <1>2 DEF IsPick
<1>4. \A j \in D : DigitValue(ds[j]) \in Int
  BY DigitValues
<1>5. op \in [D -> [Int -> Int]]
  BY <1>4
<1>6. ASSUME NEW it, P(it), NEW s \in SUBSET D
      PROVE  it[s] = IF s = {} THEN 0 ELSE 10 * it[Without(s, Max(s))] + DigitValue(ds[Max(s)])
  BY <1>6 DEF Without, DigitValue
<1>7. \E h : P(h)
  <2>1. PICK h \in [SUBSET D -> Int] : IsFold(h, D, pick, 0, op)
    <3>1. 0 \in Int
      OBVIOUS
    <3> HIDE DEF D, pick, op
    <3> QED BY <1>1, <1>3, <1>5, <3>1, FoldDefined, Zenon
  <2>2. ASSUME NEW s \in SUBSET D
        PROVE  h[s] = IF s = {} THEN 0
                      ELSE 10 * h[s \ {Max(s)}] + (CHOOSE x \in 0 .. 9 : DigitOf(x) = ds[Max(s)])
    <3>1. CASE s = {}
      <4> HIDE DEF pick, op, D
      <4> QED BY <2>1, <3>1, FoldAt
    <3>2. CASE s # {}
      <4>1. h[s] = op[pick[s]][h[Without(s, pick[s])]]
        <5> HIDE DEF pick, op, D
        <5> QED BY <2>1, <3>2, FoldAt
      <4>2. pick[s] = Max(s) /\ Max(s) \in D
        BY <1>2, <3>2
      <4>3. Without(s, Max(s)) = s \ {Max(s)} /\ s \ {Max(s)} \in SUBSET D
        BY DEF Without
      <4>4. h[s \ {Max(s)}] \in Int
        BY <2>1, <4>3
      <4>5. op[Max(s)][h[s \ {Max(s)}]] = 10 * h[s \ {Max(s)}] + DigitValue(ds[Max(s)])
        BY <4>2, <4>4
      <4>6. h[s] = 10 * h[s \ {Max(s)}] + DigitValue(ds[Max(s)])
        <5> HIDE DEF op, pick
        <5> QED BY <4>1, <4>2, <4>3, <4>5
      <4> QED BY <3>2, <4>6 DEF DigitValue
    <3> QED BY <3>1, <3>2
  <2>3. P(h)
    BY <2>1, <2>2
  <2> QED BY <2>3
<1>8. P(iter)
  <2> HIDE DEF P
  <2> QED BY <1>7, Zenon
<1>9. Value(ds) = iter[D]
  BY <1>1 DEF Value, FoldLeft, MapThenFoldSet
<1> HIDE DEF P, iter
<1>10. \A s \in SUBSET D :
         iter[s] = IF s = {} THEN 0 ELSE 10 * iter[Without(s, Max(s))] + DigitValue(ds[Max(s)])
  BY <1>6, <1>8
<1>11. \A s \in SUBSET D : iter[s] \in Int
  <2> DEFINE B == {s \in SUBSET D : iter[s] \notin Int}
  <2> SUFFICES ASSUME B # {} PROVE FALSE
    OBVIOUS
  <2>1. PICK s \in B : \A q \in B : q \subseteq s => q = s
    <3>1. B \in SUBSET (SUBSET D)
      OBVIOUS
    <3> HIDE DEF B, D
    <3> QED BY <1>1, <3>1, SmallestSubset
  <2>2. s \in SUBSET D /\ s # {} /\ iter[s] \notin Int
    <3>1. s \in SUBSET D /\ iter[s] \notin Int
      OBVIOUS
    <3>2. s = {} => iter[s] = 0
      BY <1>10, <3>1
    <3> QED BY <3>1, <3>2
  <2>3. Max(s) \in s
    BY <1>2, <2>2
  <2>4. Without(s, Max(s)) \notin B /\ Without(s, Max(s)) \in SUBSET D
    BY <2>1, <2>3 DEF Without
  <2>5. iter[Without(s, Max(s))] \in Int
    BY <2>4
  <2>6. DigitValue(ds[Max(s)]) \in Int
    BY <1>4, <2>2, <2>3
  <2> HIDE DEF B
  <2> QED BY <1>10, <2>2, <2>5, <2>6
<1>12. {} \in SUBSET D
  OBVIOUS
<1> QED BY <1>9, <1>10, <1>11, <1>12

\* Digits are worth a number.
LEMMA ValueType ==
    ASSUME NEW ds \in Seq(ToSet(Digit))
    PROVE  Value(ds) \in Int
<1>1. 1 .. Len(ds) \in SUBSET (1 .. Len(ds))
  OBVIOUS
<1> QED BY <1>1, ValueIsFold

\* A single digit is worth what it says.
LEMMA ValueOfDigit ==
    ASSUME NEW n \in 0 .. 9
    PROVE  Value(<<DigitOf(n)>>) = n
<1> DEFINE ds == <<DigitOf(n)>>
<1>1. ds \in Seq(ToSet(Digit)) /\ Len(ds) = 1 /\ ds[1] = DigitOf(n)
  BY DigitFacts
<1> HIDE DEF ds
<1>2. PICK it : /\ Value(ds) = it[1 .. Len(ds)]
                /\ it[{}] = 0
                /\ \A s \in SUBSET (1 .. Len(ds)) :
                      /\ it[s] \in Int
                      /\ s # {} => it[s] = 10 * it[Without(s, Max(s))] + DigitValue(ds[Max(s)])
  BY <1>1, ValueIsFold
<1>3. 1 .. Len(ds) = {1} /\ {1} \in SUBSET (1 .. Len(ds)) /\ {1} # {}
  BY <1>1
<1>4. Max({1}) = 1
  BY <1>1, <1>3, MaxPicks
<1>5. Without({1}, 1) = {}
  BY DEF Without
<1>6. it[{1}] = 10 * it[Without({1}, Max({1}))] + DigitValue(ds[Max({1})])
  BY <1>2, <1>3
<1>7. DigitValue(ds[1]) = n
  BY <1>1, DigitValues
<1>8. it[{1}] = 10 * 0 + n
  BY <1>2, <1>4, <1>5, <1>6, <1>7
<1> QED BY <1>2, <1>3, <1>8 DEF ds

\* Number finds digits.
LEMMA NumberType ==
    ASSUME NEW s \in Seq(Byte), NEW i \in 0 .. Len(s)
    PROVE  Number(s, i).digits \in Seq(ToSet(Digit)) /\ Number(s, i).minus \in BOOLEAN
<1> DEFINE start == Skip(s, i, {"SP", "CR", "LF"})
           minus == start < Len(s) /\ s[start + 1] = "MINUS"
           first == IF minus THEN start + 1 ELSE start
           end == Skip(s, first, ToSet(Digit))
<1>1. start \in i .. Len(s)
  BY SkipStops
<1>2. first \in 0 .. Len(s)
  <2> HIDE DEF start
  <2> QED BY <1>1, LenProperties
<1>3. end \in first .. Len(s) /\ \A k \in first + 1 .. end : s[k] \in ToSet(Digit)
  <2> HIDE DEF first
  <2> QED BY <1>2, SkipStops
<1>4. SubSeq(s, first + 1, end) \in Seq(ToSet(Digit))
  <2> HIDE DEF first, end
  <2>1. Len(s) \in Nat /\ first \in Nat /\ end \in Nat /\ end <= Len(s) /\ first <= end
    BY <1>2, <1>3
  <2>2. /\ SubSeq(s, first + 1, end) \in Seq(Byte)
        /\ Len(SubSeq(s, first + 1, end)) = end - first
        /\ \A k \in 1 .. end - first : SubSeq(s, first + 1, end)[k] = s[first + k]
    BY <2>1
  <2>3. \A k \in 1 .. end - first : SubSeq(s, first + 1, end)[k] \in ToSet(Digit)
    BY <1>3, <2>1, <2>2
  <2> HIDE DEF start, minus
  <2>4. PICK u \in Seq(Byte) : u = SubSeq(s, first + 1, end)
    BY <2>2
  <2>5. \A k \in 1 .. Len(u) : u[k] \in ToSet(Digit)
    BY <2>1, <2>2, <2>3, <2>4
  <2>6. u \in Seq(ToSet(Digit))
    BY <2>5, IsASeq
  <2> QED BY <2>4, <2>6
<1>5. Number(s, i).digits = SubSeq(s, first + 1, end)
  BY DEF Number
<1>6. Number(s, i).minus \in BOOLEAN
  BY DEF Number
<1> HIDE DEF first, end
<1> QED BY <1>4, <1>5, <1>6

\* stoi returns a number, or throws.
LEMMA StoiType ==
    ASSUME NEW s \in Seq(Byte), NEW i \in 0 .. Len(s)
    PROVE  Stoi(s, i) \in Int
<1>1. Stoi(s, i) = IF Number(s, i).minus THEN -Value(Number(s, i).digits)
                   ELSE Value(Number(s, i).digits)
  BY DEF Stoi, Value
<1>2. Value(Number(s, i).digits) \in Int
  BY NumberType, ValueType
<1> QED BY <1>1, <1>2

\* Where one digit is followed by the end of the line, stoi reads it.
LEMMA StoiOfDigit ==
    ASSUME NEW s \in Seq(Byte), NEW i \in Nat, i + 1 < Len(s), NEW n \in 0 .. 9,
           s[i + 1] = DigitOf(n), s[i + 2] = "CR"
    PROVE  Stoi(s, i) = n /\ ~Throws(s, i)
<1>1. Len(s) \in Nat /\ i \in 0 .. Len(s) /\ i \in i .. Len(s) /\ i + 1 \in i .. Len(s)
  OBVIOUS
<1>2. Skip(s, i, {"SP", "CR", "LF"}) = i
  <2>1. s[i + 1] \notin {"SP", "CR", "LF"}
    BY DigitFacts
  <2>2. \A k \in i + 1 .. i : s[k] \in {"SP", "CR", "LF"}
    OBVIOUS
  <2> QED BY <1>1, <2>1, <2>2, SkipIs
<1>3. s[i + 1] # "MINUS"
  BY DigitFacts
<1>4. Skip(s, i, ToSet(Digit)) = i + 1
  <2>1. \A k \in i + 1 .. i + 1 : s[k] \in ToSet(Digit)
    BY DigitFacts
  <2>2. s[(i + 1) + 1] \notin ToSet(Digit)
    BY DigitFacts
  <2> QED BY <1>1, <2>1, <2>2, SkipIs
<1>5. SubSeq(s, i + 1, i + 1) = <<DigitOf(n)>>
  <2>1. i + 1 \in 1 .. Len(s)
    BY <1>1
  <2> QED BY <2>1, SubSeqOne
<1>6. Number(s, i) = [minus |-> FALSE, digits |-> <<DigitOf(n)>>]
  BY <1>2, <1>3, <1>4, <1>5 DEF Number
<1>7. Number(s, i).digits = <<DigitOf(n)>> /\ Number(s, i).minus = FALSE
  BY <1>6
<1>8. Stoi(s, i) = Value(<<DigitOf(n)>>)
  BY <1>7 DEF Stoi, Value
<1>9. <<DigitOf(n)>> # <<>>
  OBVIOUS
<1> QED BY <1>7, <1>8, <1>9, ValueOfDigit DEF Throws

(***************************************************************************)
(* The loop of parseRESP.                                                  *)
(***************************************************************************)

\* One round reads a string and goes on at some position.
LEMMA NextArgType ==
    ASSUME NEW s \in Seq(Byte), NEW pos \in Nat, pos < Len(s)
    PROVE  NextArg(s, pos).arg \in Seq(Byte) /\ NextArg(s, pos).pos \in Nat
<1> DEFINE p == AfterLine(s, pos)
           n == Stoi(s, pos + 1)
           e == IF n < 0 \/ p + n > Len(s) THEN Len(s) ELSE p + n
<1>1. p \in Nat /\ AfterLine(s, p) \in Nat
  BY AfterLineType
<1>2. n \in Int
  <2>1. pos + 1 \in 0 .. Len(s)
    BY LenProperties
  <2> QED BY <2>1, StoiType
<1>3. NextArg(s, pos) = [arg |-> SubSeq(s, p + 1, e), pos |-> AfterLine(s, p)]
  BY DEF NextArg, Substr
<1> HIDE DEF p, n
<1>4. e \in Int /\ e <= Len(s) /\ Len(s) \in Nat
  BY <1>1, <1>2, LenProperties
<1> HIDE DEF e
<1>5. SubSeq(s, p + 1, e) \in Seq(Byte)
  BY <1>1, <1>4
<1> QED BY <1>1, <1>3, <1>5

\* Where the loop ends before round i.
Stops(s, n, i, pos) == i >= n \/ pos >= Len(s) \/ s[pos + 1] # "DOLLAR" \/ Throws(s, pos + 1)

\* f is the loop over the bytes s for n arguments.
IsLoop(f, s, n) ==
    f = [i \in Nat |->
            [pos \in Nat |->
                IF Stops(s, n, i, pos) THEN <<>>
                ELSE <<NextArg(s, pos).arg>> \o f[i + 1][NextArg(s, pos).pos]]]

\* The loop is defined for any bytes and any count, negative ones too.
LEMMA LoopDefined ==
    ASSUME NEW s \in Seq(Byte), NEW n \in Int
    PROVE  \E f : IsLoop(f, s, n)
<1> DEFINE V == Seq(Seq(Byte))
           Round(g, i, pos) == IF Stops(s, n, i, pos) THEN <<>>
                               ELSE <<NextArg(s, pos).arg>> \o g[i + 1][NextArg(s, pos).pos]
           Upto(m) == {g \in [Nat -> [Nat -> V]] :
                          \A i \in Nat : i >= n - m =>
                              \A pos \in Nat : g[i][pos] = Round(g, i, pos)}
           B == {m \in Nat : Upto(m) = {}}
<1>1. ASSUME NEW g \in [Nat -> [Nat -> V]], NEW i \in Nat, NEW pos \in Nat
      PROVE  Round(g, i, pos) \in V
  <2>1. CASE Stops(s, n, i, pos)
    BY <2>1
  <2>2. CASE ~Stops(s, n, i, pos)
    <3>1. pos < Len(s)
      BY <2>2, LenProperties DEF Stops
    <3>2. NextArg(s, pos).arg \in Seq(Byte) /\ NextArg(s, pos).pos \in Nat
      BY <3>1, NextArgType
    <3>3. g[i + 1][NextArg(s, pos).pos] \in V
      <4>1. i + 1 \in Nat
        OBVIOUS
      <4> HIDE DEF V
      <4> QED BY <3>2, <4>1
    <3> QED BY <2>2, <3>2, <3>3, ConsProperties
  <2> QED BY <2>1, <2>2
<1>2. Upto(0) # {}
  <2> DEFINE g == [i \in Nat |-> [pos \in Nat |-> <<>>]]
  <2>1. g \in [Nat -> [Nat -> V]]
    OBVIOUS
  <2>2. ASSUME NEW i \in Nat, i >= n - 0, NEW pos \in Nat PROVE g[i][pos] = Round(g, i, pos)
    BY <2>2 DEF Stops
  <2>3. g \in Upto(0)
    <3> HIDE DEF g, Round
    <3> QED BY <2>1, <2>2
  <2> HIDE DEF Upto
  <2> QED BY <2>3
<1>3. ASSUME NEW m \in Nat, Upto(m) # {} PROVE Upto(m + 1) # {}
  <2>1. PICK g \in [Nat -> [Nat -> V]] :
           \A i \in Nat : i >= n - m => \A pos \in Nat : g[i][pos] = Round(g, i, pos)
    BY <1>3
  <2> DEFINE h == [i \in Nat |-> [pos \in Nat |-> IF i >= n - m THEN g[i][pos] ELSE Round(g, i, pos)]]
  <2>2. h \in [Nat -> [Nat -> V]]
    <3> HIDE DEF Round, V
    <3> QED BY <1>1, <2>1
  <2>3. ASSUME NEW i \in Nat, i >= n - (m + 1), NEW pos \in Nat
        PROVE  h[i][pos] = Round(h, i, pos)
    <3>1. h[i][pos] = Round(g, i, pos)
      <4> HIDE DEF Round
      <4> QED BY <2>1
    <3>2. i + 1 \in Nat /\ i + 1 >= n - m
      BY <2>3
    <3>3. \A q \in Nat : h[i + 1][q] = g[i + 1][q]
      <4> HIDE DEF Round
      <4> QED BY <3>2
    <3>4. Round(h, i, pos) = Round(g, i, pos)
      <4>1. CASE Stops(s, n, i, pos)
        BY <4>1
      <4>2. CASE ~Stops(s, n, i, pos)
        <5>1. pos < Len(s)
          BY <4>2, LenProperties DEF Stops
        <5>2. NextArg(s, pos).pos \in Nat
          BY <5>1, NextArgType
        <5> HIDE DEF h
        <5> QED BY <3>3, <5>2
      <4> QED BY <4>1, <4>2
    <3> QED BY <3>1, <3>4
  <2>4. h \in Upto(m + 1)
    <3> HIDE DEF h, Round, V
    <3> QED BY <2>2, <2>3
  <2> HIDE DEF Upto
  <2> QED BY <2>4
<1>4. B = {}
  <2> SUFFICES ASSUME B # {} PROVE FALSE
    OBVIOUS
  <2>1. PICK m \in B : \A k \in B : m <= k
    <3>1. B \in SUBSET Nat
      OBVIOUS
    <3> HIDE DEF B
    <3> QED BY <3>1, LeastNumber
  <2> HIDE DEF Upto
  <2>2. m \in Nat /\ Upto(m) = {} /\ m # 0
    BY <1>2, <2>1
  <2>3. m - 1 \in Nat /\ (m - 1) + 1 = m /\ m - 1 \notin B
    BY <2>1, <2>2
  <2> QED BY <1>3, <2>2, <2>3
<1>5. PICK m \in Nat : n - m <= 0
  <2>1. CASE n < 0
    BY <2>1
  <2>2. CASE n >= 0
    BY <2>2
  <2> QED BY <2>1, <2>2
<1>6. PICK g \in [Nat -> [Nat -> V]] :
         \A i \in Nat : i >= n - m => \A pos \in Nat : g[i][pos] = Round(g, i, pos)
  <2>1. Upto(m) # {}
    <3> HIDE DEF Upto
    <3> QED BY <1>4
  <2> QED BY <2>1
<1>7. \A i \in Nat : \A pos \in Nat : g[i][pos] = Round(g, i, pos)
  <2>1. \A i \in Nat : i >= n - m
    BY <1>5
  <2> HIDE DEF Round
  <2> QED BY <1>6, <2>1
<1>8. g = [i \in Nat |-> [pos \in Nat |-> Round(g, i, pos)]]
  <2> HIDE DEF Round, V
  <2> QED BY <1>6, <1>7
<1> QED BY <1>8 DEF IsLoop

(***************************************************************************)
(* Where the parts of an encoded request are.                              *)
(***************************************************************************)

\* An argument as Encode writes it.
Piece(a) == <<"DOLLAR", DigitOf(Len(a))>> \o CRLF \o a \o CRLF

\* At position p, counting from 0, s has the argument a.
HasPiece(s, p, a) ==
    /\ s[p + 1] = "DOLLAR"
    /\ s[p + 2] = DigitOf(Len(a))
    /\ s[p + 3] = "CR"
    /\ s[p + 4] = "LF"
    /\ \A j \in 1 .. Len(a) : s[p + 4 + j] = a[j]
    /\ s[p + 5 + Len(a)] = "CR"
    /\ s[p + 6 + Len(a)] = "LF"

\* s is the request m, and off[i] the position behind its argument i.
IsMessage(s, off, m) ==
    /\ s[1] = "STAR"
    /\ s[2] = DigitOf(Len(m))
    /\ s[3] = "CR"
    /\ s[4] = "LF"
    /\ off[0] = 4
    /\ off[Len(m)] = Len(s)
    /\ \A i \in 0 .. Len(m) : off[i] \in 4 .. Len(s)
    /\ \A i \in 1 .. Len(m) : off[i] = off[i - 1] + Len(m[i]) + 6 /\ HasPiece(s, off[i - 1], m[i])

\* A request that Encode can write with one digit for every length.
IsShort(m) == /\ m \in Seq(Seq(Byte))
              /\ Len(m) \in 1 .. 9
              /\ \A i \in 1 .. Len(m) : Len(m[i]) <= 9

\* Two bytes and the end of a line.
LEMMA LineBytes ==
    ASSUME NEW x \in Byte, NEW y \in Byte
    PROVE  \E u \in Seq(Byte) : /\ u = <<x, y>> \o CRLF
                                /\ Len(u) = 4
                                /\ u[1] = x /\ u[2] = y /\ u[3] = "CR" /\ u[4] = "LF"
<1>1. "CR" \in Byte /\ "LF" \in Byte
  BY DEF Byte
<1>2. PICK cr \in Byte, lf \in Byte : cr = "CR" /\ lf = "LF"
  BY <1>1
<1>3. PICK p : p = <<x, y>>
  OBVIOUS
<1>4. PICK q : q = <<cr, lf>>
  OBVIOUS
<1>5. PICK u : u = p \o q
  OBVIOUS
<1>6. u \in Seq(Byte) /\ Len(u) = 4 /\ u[1] = x /\ u[2] = y /\ u[3] = cr /\ u[4] = lf
  BY <1>3, <1>4, <1>5, PairsProperties
<1>7. u = <<x, y>> \o CRLF
  BY <1>2, <1>3, <1>4, <1>5 DEF CRLF
<1> QED BY <1>2, <1>6, <1>7

\* The bytes of an argument.
LEMMA PieceIs ==
    ASSUME NEW a \in Seq(Byte), Len(a) <= 9
    PROVE  /\ Piece(a) \in Seq(Byte)
           /\ Len(Piece(a)) = Len(a) + 6
           /\ HasPiece(Piece(a), 0, a)
<1>1. Len(a) \in 0 .. 9
  <2>1. PICK k \in Nat : k = Len(a)
    BY LenProperties
  <2>2. k <= 9
    BY <2>1
  <2>3. k \in 0 .. 9
    BY <2>2
  <2> QED BY <2>1, <2>3
<1> DEFINE d == DigitOf(Len(a))
<1>2. d \in Byte /\ "DOLLAR" \in Byte /\ "CR" \in Byte /\ "LF" \in Byte
  BY <1>1, DigitFacts DEF Byte
<1>3. PICK u \in Seq(Byte) : /\ u = <<"DOLLAR", d>> \o CRLF
                             /\ Len(u) = 4
                             /\ u[1] = "DOLLAR" /\ u[2] = d /\ u[3] = "CR" /\ u[4] = "LF"
  <2> HIDE DEF d
  <2> QED BY <1>2, LineBytes
<1>4. PICK e \in Seq(Byte) : e = CRLF /\ Len(e) = 2 /\ e[1] = "CR" /\ e[2] = "LF"
  BY <1>2, PairProperties DEF CRLF
<1>5. PICK w \in Seq(Byte) : /\ w = u \o a
                             /\ Len(w) = Len(a) + 4
                             /\ \A j \in 1 .. Len(a) + 4 : w[j] = IF j <= 4 THEN u[j] ELSE a[j - 4]
  <2>1. /\ u \o a \in Seq(Byte)
        /\ Len(u \o a) = Len(u) + Len(a)
        /\ \A j \in 1 .. Len(u) + Len(a) :
              (u \o a)[j] = IF j <= Len(u) THEN u[j] ELSE a[j - Len(u)]
    BY ConcatProperties
  <2>2. Len(u) = 4 /\ Len(u) + Len(a) = Len(a) + 4
    BY <1>1, <1>3
  <2> QED BY <2>1, <2>2
<1>6. PICK n \in 0 .. 9 : n = Len(a)
  BY <1>1
<1>7. PICK p \in Seq(Byte) : /\ p = w \o e
                             /\ Len(p) = n + 6
                             /\ \A j \in 1 .. n + 6 : p[j] = IF j <= n + 4 THEN w[j] ELSE e[j - (n + 4)]
  <2>1. /\ w \o e \in Seq(Byte)
        /\ Len(w \o e) = Len(w) + Len(e)
        /\ \A j \in 1 .. Len(w) + Len(e) :
              (w \o e)[j] = IF j <= Len(w) THEN w[j] ELSE e[j - Len(w)]
    BY ConcatProperties
  <2>2. Len(w) = n + 4 /\ Len(w) + Len(e) = n + 6
    BY <1>4, <1>5, <1>6
  <2> QED BY <2>1, <2>2
<1>8. Piece(a) = p
  BY <1>3, <1>4, <1>5, <1>7 DEF Piece
<1>9. p[1] = "DOLLAR" /\ p[2] = d /\ p[3] = "CR" /\ p[4] = "LF"
  <2> HIDE DEF d
  <2> QED BY <1>3, <1>5, <1>6, <1>7
<1>10. ASSUME NEW j \in 1 .. n PROVE p[4 + j] = a[j]
  <2>1. 4 + j \in 1 .. n + 6 /\ 4 + j <= n + 4 /\ 4 + j \in 1 .. n + 4 /\ ~(4 + j <= 4) /\ (4 + j) - 4 = j
    OBVIOUS
  <2> QED BY <1>5, <1>6, <1>7, <2>1
<1>11. p[5 + n] = "CR" /\ p[6 + n] = "LF"
  <2>1. 5 + n \in 1 .. n + 6 /\ ~(5 + n <= n + 4) /\ (5 + n) - (n + 4) = 1
    OBVIOUS
  <2>2. 6 + n \in 1 .. n + 6 /\ ~(6 + n <= n + 4) /\ (6 + n) - (n + 4) = 2
    OBVIOUS
  <2> QED BY <1>4, <1>7, <2>1, <2>2
<1>12. HasPiece(p, 0, a)
  BY <1>6, <1>9, <1>10, <1>11 DEF HasPiece
<1> QED BY <1>6, <1>7, <1>8, <1>12

\* The bytes of a request.
LEMMA EncodeLayout ==
    ASSUME NEW m, IsShort(m)
    PROVE  Encode(m) \in Seq(Byte) /\ \E off : IsMessage(Encode(m), off, m)
<1> DEFINE n == Len(m)
           ps == [i \in 1 .. n |-> Piece(m[i])]
<1>1. n \in 1 .. 9 /\ \A i \in 1 .. n : m[i] \in Seq(Byte) /\ Len(m[i]) <= 9
  BY DEF IsShort
<1>2. \A i \in 1 .. n : /\ Piece(m[i]) \in Seq(Byte)
                        /\ Len(Piece(m[i])) = Len(m[i]) + 6
                        /\ HasPiece(Piece(m[i]), 0, m[i])
  BY <1>1, PieceIs
<1>3. ps \in Seq(Seq(Byte)) /\ Len(ps) = n /\ ps # <<>> /\ \A i \in 1 .. n : ps[i] = Piece(m[i])
  <2> HIDE DEF n
  <2> QED BY <1>1, <1>2
<1>4. Encode(m) = <<"STAR", DigitOf(n)>> \o CRLF \o FlattenSeq(ps)
  BY DEF Encode, Piece
<1> HIDE DEF n, ps
<1>5. PICK t \in Seq(Byte) : t = FlattenSeq(ps) /\ \E at : IsLayout(at, ps, t)
  BY <1>3, FlattenLayout
<1>6. PICK at : IsLayout(at, ps, t)
  BY <1>5
<1>7. DigitOf(n) \in Byte /\ "STAR" \in Byte /\ "CR" \in Byte /\ "LF" \in Byte
  BY <1>1, DigitFacts DEF Byte
<1>8. PICK u \in Seq(Byte) : /\ u = <<"STAR", DigitOf(n)>> \o CRLF
                             /\ Len(u) = 4
                             /\ u[1] = "STAR" /\ u[2] = DigitOf(n) /\ u[3] = "CR" /\ u[4] = "LF"
  BY <1>7, LineBytes
<1>9. PICK l \in Nat : l = Len(t)
  BY LenProperties
<1>10. PICK s \in Seq(Byte) : /\ s = u \o t
                              /\ Len(s) = l + 4
                              /\ \A x \in 1 .. l + 4 : s[x] = IF x <= 4 THEN u[x] ELSE t[x - 4]
  <2>1. /\ u \o t \in Seq(Byte)
        /\ Len(u \o t) = Len(u) + Len(t)
        /\ \A x \in 1 .. Len(u) + Len(t) :
              (u \o t)[x] = IF x <= Len(u) THEN u[x] ELSE t[x - Len(u)]
    BY ConcatProperties
  <2>2. Len(u) = 4 /\ Len(u) + Len(t) = l + 4
    BY <1>8, <1>9
  <2> QED BY <2>1, <2>2
<1>11. Encode(m) = s
  BY <1>4, <1>5, <1>8, <1>10
<1> DEFINE off == [i \in 0 .. n |-> at[i] + 4]
<1>12. \A i \in 0 .. n : at[i] \in 0 .. l
  BY <1>3, <1>6, <1>9 DEF IsLayout
<1>13. \A i \in 0 .. n : off[i] = at[i] + 4
  OBVIOUS
<1> HIDE DEF off
<1>14. ASSUME NEW i \in 1 .. n
       PROVE  off[i] = off[i - 1] + Len(m[i]) + 6 /\ HasPiece(s, off[i - 1], m[i])
  <2>1. PICK c \in Nat : c = Len(m[i])
    BY <1>1, LenProperties
  <2>2. Len(ps[i]) = c + 6 /\ HasPiece(ps[i], 0, m[i])
    BY <1>2, <1>3, <2>1
  <2>3. i \in 0 .. n /\ i - 1 \in 0 .. n
    BY <1>1
  <2>4. PICK o \in 0 .. l : o = at[i - 1]
    BY <1>12, <2>3
  <2>5. at[i] = o + c + 6 /\ at[i] \in 0 .. l
    <3>1. at[i] = at[i - 1] + Len(ps[i])
      BY <1>3, <1>6 DEF IsLayout
    <3>2. at[i] \in 0 .. l
      BY <1>12, <2>3
    <3>3. at[i] = o + (c + 6)
      BY <2>2, <2>4, <3>1
    <3>4. at[i] = o + c + 6
      BY <3>2, <3>3
    <3> QED BY <3>2, <3>4
  <2>6. off[i] = o + c + 10 /\ off[i - 1] = o + 4
    <3>1. off[i] = at[i] + 4 /\ off[i - 1] = at[i - 1] + 4
      BY <1>13, <2>3
    <3> QED BY <2>4, <2>5, <3>1
  <2>7. ASSUME NEW x \in 1 .. c + 6 PROVE s[(o + 4) + x] = ps[i][x]
    <3>1. t[o + x] = ps[i][x]
      BY <1>3, <1>6, <2>2, <2>4 DEF IsLayout
    <3>2. (o + 4) + x \in 1 .. l + 4 /\ ~((o + 4) + x <= 4) /\ ((o + 4) + x) - 4 = o + x
      BY <1>9, <2>5
    <3> QED BY <1>10, <3>1, <3>2
  <2>8. HasPiece(s, o + 4, m[i])
    <3>1. /\ ps[i][1] = "DOLLAR" /\ ps[i][2] = DigitOf(c) /\ ps[i][3] = "CR" /\ ps[i][4] = "LF"
          /\ \A j \in 1 .. c : ps[i][4 + j] = m[i][j]
          /\ ps[i][5 + c] = "CR" /\ ps[i][6 + c] = "LF"
      BY <2>1, <2>2 DEF HasPiece
    <3>2. /\ s[(o + 4) + 1] = "DOLLAR" /\ s[(o + 4) + 2] = DigitOf(c)
          /\ s[(o + 4) + 3] = "CR" /\ s[(o + 4) + 4] = "LF"
      <4>1. 1 \in 1 .. c + 6 /\ 2 \in 1 .. c + 6 /\ 3 \in 1 .. c + 6 /\ 4 \in 1 .. c + 6
        OBVIOUS
      <4> QED BY <2>7, <3>1, <4>1
    <3>3. ASSUME NEW j \in 1 .. c PROVE s[(o + 4) + 4 + j] = m[i][j]
      <4>1. 4 + j \in 1 .. c + 6 /\ (o + 4) + (4 + j) = (o + 4) + 4 + j
        OBVIOUS
      <4> QED BY <2>7, <3>1, <4>1
    <3>4. s[(o + 4) + 5 + c] = "CR" /\ s[(o + 4) + 6 + c] = "LF"
      <4>1. 5 + c \in 1 .. c + 6 /\ (o + 4) + (5 + c) = (o + 4) + 5 + c
        OBVIOUS
      <4>2. 6 + c \in 1 .. c + 6 /\ (o + 4) + (6 + c) = (o + 4) + 6 + c
        OBVIOUS
      <4> QED BY <2>7, <3>1, <4>1, <4>2
    <3> QED BY <2>1, <3>2, <3>3, <3>4 DEF HasPiece
  <2>9. off[i] = off[i - 1] + c + 6
    BY <2>6
  <2> QED BY <2>1, <2>6, <2>8, <2>9
<1>15. off[0] = 4 /\ off[n] = l + 4 /\ \A i \in 0 .. n : off[i] \in 4 .. l + 4
  <2>1. at[0] = 0 /\ at[n] = l /\ 0 \in 0 .. n /\ n \in 0 .. n
    BY <1>1, <1>3, <1>6, <1>9 DEF IsLayout
  <2>2. ASSUME NEW i \in 0 .. n PROVE off[i] \in 4 .. l + 4
    <3>1. at[i] \in 0 .. l /\ off[i] = at[i] + 4
      BY <1>12, <1>13
    <3> QED BY <3>1
  <2>3. off[0] = 0 + 4 /\ off[n] = l + 4
    BY <1>13, <2>1
  <2> QED BY <2>2, <2>3
<1>16. s[1] = "STAR" /\ s[2] = DigitOf(n) /\ s[3] = "CR" /\ s[4] = "LF"
  BY <1>8, <1>10
<1>17. IsMessage(s, off, m)
  BY <1>10, <1>14, <1>15, <1>16 DEF IsMessage, n
<1> QED BY <1>11, <1>17

(***************************************************************************)
(* parseRESP, and that it is the inverse of the encoding.                  *)
(***************************************************************************)

\* One round of the loop.
LEMMA LoopAt ==
    ASSUME NEW s, NEW n, NEW f, IsLoop(f, s, n), NEW i \in Nat, NEW pos \in Nat
    PROVE  f[i][pos] = IF Stops(s, n, i, pos) THEN <<>>
                       ELSE <<NextArg(s, pos).arg>> \o f[i + 1][NextArg(s, pos).pos]
<1> DEFINE R(g, j, p) == IF Stops(s, n, j, p) THEN <<>>
                         ELSE <<NextArg(s, p).arg>> \o g[j + 1][NextArg(s, p).pos]
<1>1. f = [j \in Nat |-> [p \in Nat |-> R(f, j, p)]]
  BY DEF IsLoop
<1> HIDE DEF R
<1>2. f[i] = [p \in Nat |-> R(f, i, p)]
  BY <1>1, Zenon
<1>3. f[i][pos] = R(f, i, pos)
  BY <1>2, Zenon
<1> QED BY <1>3 DEF R

\* What the loop returns from any round and position on is a request.
LEMMA LoopType ==
    ASSUME NEW s \in Seq(Byte), NEW n \in Int, NEW f, IsLoop(f, s, n),
           NEW i \in Nat, NEW pos \in Nat
    PROVE  f[i][pos] \in Seq(Seq(Byte))
<1> DEFINE V == Seq(Seq(Byte))
           B == {d \in Nat : \E j, p \in Nat : n - j <= d /\ f[j][p] \notin V}
<1>1. \A j, p \in Nat :
         f[j][p] = IF Stops(s, n, j, p) THEN <<>>
                   ELSE <<NextArg(s, p).arg>> \o f[j + 1][NextArg(s, p).pos]
  BY LoopAt
<1>2. <<>> \in V
  OBVIOUS
<1>3. B = {}
  <2> SUFFICES ASSUME B # {} PROVE FALSE
    OBVIOUS
  <2>1. PICK d \in B : \A e \in B : d <= e
    <3>1. B \in SUBSET Nat
      OBVIOUS
    <3> HIDE DEF B
    <3> QED BY <3>1, LeastNumber
  <2>2. PICK j \in Nat, p \in Nat : n - j <= d /\ f[j][p] \notin V
    BY <2>1
  <2>3. ~Stops(s, n, j, p)
    BY <1>1, <1>2, <2>2
  <2>4. j < n /\ p < Len(s)
    <3>1. Len(s) \in Nat
      BY LenProperties
    <3> QED BY <2>3, <3>1 DEF Stops
  <2>5. NextArg(s, p).arg \in Seq(Byte) /\ NextArg(s, p).pos \in Nat
    BY <2>4, NextArgType
  <2>6. d \in Nat /\ d - 1 \in Nat /\ n - (j + 1) <= d - 1 /\ j + 1 \in Nat
    BY <2>2, <2>4
  <2>7. d - 1 \notin B
    <3> HIDE DEF B
    <3> QED BY <2>1, <2>6
  <2>8. f[j + 1][NextArg(s, p).pos] \in V
    <3> HIDE DEF V
    <3> QED BY <2>5, <2>6, <2>7
  <2>9. <<NextArg(s, p).arg>> \o f[j + 1][NextArg(s, p).pos] \in V
    BY <2>5, <2>8, ConsProperties
  <2> HIDE DEF V
  <2> QED BY <1>1, <2>2, <2>3, <2>9
<1>4. PICK d \in Nat : n - i <= d
  <2>1. CASE n - i < 0
    BY <2>1
  <2>2. CASE n - i >= 0
    BY <2>2
  <2> QED BY <2>1, <2>2
<1>5. d \notin B
  BY <1>3
<1> HIDE DEF V
<1> QED BY <1>4, <1>5 DEF V

\* parseRESP is the loop behind the count.
LEMMA ParseIs ==
    ASSUME NEW s \in Seq(Byte), s # <<>>
    PROVE  \E f : /\ IsLoop(f, s, Stoi(s, 1))
                  /\ ParseRESP(s) = IF s[1] # "STAR" \/ Throws(s, 1) THEN <<>>
                                    ELSE f[0][AfterLine(s, 0)]
<1> DEFINE P(g) == IsLoop(g, s, Stoi(s, 1))
           f == CHOOSE g : P(g)
<1>1. Stoi(s, 1) \in Int
  <2>1. 1 \in 0 .. Len(s)
    OBVIOUS
  <2> QED BY <2>1, StoiType
<1>2. P(f)
  <2>1. \E g : P(g)
    BY <1>1, LoopDefined
  <2> HIDE DEF P
  <2> QED BY <2>1, Zenon
<1>3. ParseRESP(s) = IF s[1] # "STAR" \/ Throws(s, 1) THEN <<>> ELSE f[0][AfterLine(s, 0)]
  BY DEF ParseRESP, IsLoop, Stops
<1> HIDE DEF f
<1> QED BY <1>2, <1>3

\* parseRESP returns arguments, whatever the bytes.
LEMMA ParseType ==
    ASSUME NEW s \in Seq(Byte), s # <<>>
    PROVE  ParseRESP(s) \in Seq(Seq(Byte))
<1>1. PICK f : /\ IsLoop(f, s, Stoi(s, 1))
               /\ ParseRESP(s) = IF s[1] # "STAR" \/ Throws(s, 1) THEN <<>>
                                 ELSE f[0][AfterLine(s, 0)]
  BY ParseIs
<1>2. Stoi(s, 1) \in Int
  <2>1. 1 \in 0 .. Len(s)
    OBVIOUS
  <2> QED BY <2>1, StoiType
<1>3. f[0][AfterLine(s, 0)] \in Seq(Seq(Byte))
  BY <1>1, <1>2, AfterLineType, LoopType
<1> QED BY <1>1, <1>3

\* One round of the loop at an argument that Encode wrote: the argument is
\* read, and without a newline in it the next round starts at the next one.
LEMMA RoundReads ==
    ASSUME NEW s \in Seq(Byte), NEW pos \in Nat, NEW a \in Seq(Byte), Len(a) \in 0 .. 9,
           HasPiece(s, pos, a), pos + 6 + Len(a) <= Len(s)
    PROVE  /\ ~Throws(s, pos + 1)
           /\ NextArg(s, pos).arg = a
           /\ NextArg(s, pos).pos \in Nat
           /\ ~Contains(a, "LF") => NextArg(s, pos).pos = pos + 6 + Len(a)
<1>1. PICK n \in 0 .. 9, l \in Nat : n = Len(a) /\ l = Len(s) /\ pos + 6 + n <= l
  BY LenProperties
<1>2. /\ s[pos + 1] = "DOLLAR" /\ s[pos + 2] = DigitOf(n) /\ s[pos + 3] = "CR" /\ s[pos + 4] = "LF"
      /\ \A j \in 1 .. n : s[pos + 4 + j] = a[j]
      /\ s[pos + 5 + n] = "CR" /\ s[pos + 6 + n] = "LF"
  BY <1>1 DEF HasPiece
<1>3. Stoi(s, pos + 1) = n /\ ~Throws(s, pos + 1)
  <2>1. pos + 1 \in Nat /\ (pos + 1) + 1 < Len(s) /\ (pos + 1) + 1 = pos + 2 /\ (pos + 1) + 2 = pos + 3
    BY <1>1
  <2>2. s[(pos + 1) + 1] = DigitOf(n) /\ s[(pos + 1) + 2] = "CR"
    BY <1>2, <2>1
  <2> QED BY <2>1, <2>2, StoiOfDigit
<1>4. AfterLine(s, pos) = pos + 4
  <2>1. pos + 4 \in pos + 1 .. Len(s)
    BY <1>1
  <2>2. ASSUME NEW j \in pos + 1 .. (pos + 4) - 1 PROVE s[j] # "LF"
    <3>1. j = pos + 1 \/ j = pos + 2 \/ j = pos + 3
      OBVIOUS
    <3>2. DigitOf(n) # "LF"
      BY DigitFacts
    <3> QED BY <1>2, <3>1, <3>2
  <2> QED BY <1>2, <2>1, <2>2, AfterLineIs
<1>5. NextArg(s, pos).arg = SubSeq(s, pos + 5, pos + 4 + n)
  <2>1. ~(n < 0 \/ (pos + 4) + n > Len(s)) /\ (pos + 4) + 1 = pos + 5
    BY <1>1
  <2> QED BY <1>3, <1>4, <2>1 DEF NextArg, Substr
<1>6. SubSeq(s, pos + 5, pos + 4 + n) = a
  <2>1. \A i \in pos + 5 .. pos + 4 + n : s[i] \in Byte
    <3> SUFFICES ASSUME NEW i \in pos + 5 .. pos + 4 + n PROVE s[i] \in Byte
      OBVIOUS
    <3>1. i \in 1 .. Len(s)
      BY <1>1
    <3> QED BY <3>1
  <2>2. PICK u : u = SubSeq(s, pos + 5, pos + 4 + n)
    OBVIOUS
  <2>3. /\ u \in Seq(Byte)
        /\ Len(u) = IF pos + 5 <= pos + 4 + n THEN (pos + 4 + n) - (pos + 5) + 1 ELSE 0
        /\ \A i \in 1 .. (pos + 4 + n) - (pos + 5) + 1 : u[i] = s[(pos + 5) + i - 1]
    <3>1. pos + 5 \in Int /\ pos + 4 + n \in Int
      OBVIOUS
    <3> QED BY <2>1, <2>2, <3>1, SubSeqProperties
  <2>4. Len(u) = n
    BY <2>3
  <2>5. ASSUME NEW i \in 1 .. n PROVE u[i] = a[i]
    <3>1. i \in 1 .. (pos + 4 + n) - (pos + 5) + 1 /\ (pos + 5) + i - 1 = pos + 4 + i
      OBVIOUS
    <3> QED BY <1>2, <2>3, <3>1
  <2>6. u = a
    BY <1>1, <2>3, <2>4, <2>5, SeqEqual
  <2> QED BY <2>2, <2>6
<1>7. NextArg(s, pos).pos = AfterLine(s, pos + 4)
  BY <1>4 DEF NextArg
<1>8. AfterLine(s, pos + 4) \in Nat
  <2>1. pos + 4 \in Nat
    OBVIOUS
  <2> QED BY <2>1, AfterLineType
<1>9. ASSUME ~Contains(a, "LF") PROVE AfterLine(s, pos + 4) = pos + 6 + n
  <2>1. pos + 6 + n \in (pos + 4) + 1 .. Len(s) /\ pos + 4 \in Nat
    BY <1>1
  <2>2. ASSUME NEW j \in (pos + 4) + 1 .. (pos + 6 + n) - 1 PROVE s[j] # "LF"
    <3>1. CASE j = pos + 5 + n
      BY <1>2, <3>1
    <3>2. CASE j # pos + 5 + n
      <4>1. j - (pos + 4) \in 1 .. n /\ pos + 4 + (j - (pos + 4)) = j
        BY <3>2
      <4>2. s[j] = a[j - (pos + 4)]
        BY <1>2, <4>1
      <4> QED BY <1>1, <1>9, <4>1, <4>2 DEF Contains
    <3> QED BY <3>1, <3>2
  <2> QED BY <1>2, <2>1, <2>2, AfterLineIs
<1> QED BY <1>1, <1>3, <1>5, <1>6, <1>7, <1>8, <1>9

\* What arrives in one piece is read as it was written, as long as no
\* argument but the last has a newline.
LEMMA ParseEncode ==
    ASSUME NEW m, IsShort(m), Plain(m)
    PROVE  ParseRESP(Encode(m)) = m
<1>1. PICK s : s = Encode(m)
  OBVIOUS
<1>2. s \in Seq(Byte) /\ \E off : IsMessage(s, off, m)
  BY <1>1, EncodeLayout
<1>3. PICK off : IsMessage(s, off, m)
  BY <1>2
<1>4. PICK n \in 1 .. 9, l \in Nat : n = Len(m) /\ l = Len(s)
  BY <1>2, LenProperties DEF IsShort
<1>5. m \in Seq(Seq(Byte)) /\ \A i \in 1 .. n : m[i] \in Seq(Byte) /\ Len(m[i]) \in 0 .. 9
  <2>1. m \in Seq(Seq(Byte)) /\ \A i \in 1 .. n : m[i] \in Seq(Byte) /\ Len(m[i]) <= 9
    BY <1>4 DEF IsShort
  <2>2. ASSUME NEW i \in 1 .. n PROVE Len(m[i]) \in 0 .. 9
    <3>1. PICK k \in Nat : k = Len(m[i])
      BY <2>1, LenProperties
    <3>2. k <= 9
      BY <2>1, <3>1
    <3>3. k \in 0 .. 9
      BY <3>2
    <3> QED BY <3>1, <3>3
  <2> QED BY <2>1, <2>2
<1>6. /\ s[1] = "STAR" /\ s[2] = DigitOf(n) /\ s[3] = "CR" /\ s[4] = "LF"
      /\ off[0] = 4 /\ off[n] = l
      /\ \A i \in 0 .. n : off[i] \in 4 .. l
      /\ \A i \in 1 .. n : off[i] = off[i - 1] + Len(m[i]) + 6 /\ HasPiece(s, off[i - 1], m[i])
  BY <1>3, <1>4 DEF IsMessage
<1>7. l >= 10
  <2>1. 1 \in 1 .. n /\ 1 \in 0 .. n
    OBVIOUS
  <2>2. PICK c \in 0 .. 9 : c = Len(m[1])
    BY <1>5, <2>1
  <2>3. off[1] = off[1 - 1] + c + 6 /\ off[1] \in 4 .. l
    BY <1>6, <2>1, <2>2
  <2>4. off[1 - 1] = 4
    BY <1>6
  <2> QED BY <2>3, <2>4
<1>8. s # <<>> /\ s \in Seq(Byte)
  BY <1>2, <1>4, <1>7
<1>9. PICK f : /\ IsLoop(f, s, Stoi(s, 1))
               /\ ParseRESP(s) = IF s[1] # "STAR" \/ Throws(s, 1) THEN <<>>
                                 ELSE f[0][AfterLine(s, 0)]
  BY <1>8, ParseIs
<1>10. Stoi(s, 1) = n /\ ~Throws(s, 1)
  <2>1. 1 \in Nat /\ 1 + 1 < Len(s) /\ n \in 0 .. 9 /\ 1 + 1 = 2 /\ 1 + 2 = 3
    <3>1. 1 + 1 < l
      BY <1>7
    <3>2. 1 + 1 < Len(s)
      BY <1>4, <3>1, Zenon
    <3>3. n \in 0 .. 9
      OBVIOUS
    <3>4. 1 + 1 = 2 /\ 1 + 2 = 3 /\ 1 \in Nat
      OBVIOUS
    <3> QED BY <3>2, <3>3, <3>4
  <2>2. s[1 + 1] = DigitOf(n) /\ s[1 + 2] = "CR"
    <3> QED BY <1>6, <2>1
  <2> QED BY <1>8, <2>1, <2>2, StoiOfDigit
<1>11. AfterLine(s, 0) = 4
  <2>1. 4 \in 0 + 1 .. Len(s)
    BY <1>4, <1>7
  <2>2. ASSUME NEW j \in 0 + 1 .. 4 - 1 PROVE s[j] # "LF"
    <3>1. j = 1 \/ j = 2 \/ j = 3
      OBVIOUS
    <3>2. n \in 0 .. 9
      OBVIOUS
    <3>3. DigitOf(n) # "LF"
      BY <3>2, DigitFacts
    <3> QED BY <1>6, <3>1, <3>3
  <2> QED BY <1>6, <1>8, <2>1, <2>2, AfterLineIs
<1>12. ParseRESP(s) = f[0][off[0]]
  BY <1>6, <1>9, <1>10, <1>11
<1>13. IsLoop(f, s, n)
  BY <1>9, <1>10
<1>14. ASSUME NEW k \in 0 .. n - 1
       PROVE  \E q \in Nat : /\ f[k][off[k]] = <<m[k + 1]>> \o f[k + 1][q]
                             /\ k + 1 < n => q = off[k + 1]
  <2>1. k + 1 \in 1 .. n /\ (k + 1) - 1 = k /\ k \in 0 .. n /\ k + 1 \in 0 .. n /\ k \in Nat
    OBVIOUS
  <2>2. PICK c \in 0 .. 9 : c = Len(m[k + 1])
    BY <1>5, <2>1
  <2>3. PICK p \in 4 .. l : p = off[k]
    BY <1>6, <2>1
  <2>4. off[k + 1] = p + c + 6 /\ HasPiece(s, p, m[k + 1]) /\ off[k + 1] \in 4 .. l
    BY <1>6, <2>1, <2>2, <2>3
  <2>5. p \in Nat /\ p + 6 + c <= l /\ off[k + 1] = p + 6 + c
    BY <2>4
  <2>6. /\ ~Throws(s, p + 1)
        /\ NextArg(s, p).arg = m[k + 1]
        /\ NextArg(s, p).pos \in Nat
        /\ ~Contains(m[k + 1], "LF") => NextArg(s, p).pos = p + 6 + c
    <3>1. m[k + 1] \in Seq(Byte) /\ Len(m[k + 1]) \in 0 .. 9 /\ p + 6 + Len(m[k + 1]) <= Len(s)
      BY <1>4, <1>5, <2>1, <2>2, <2>5
    <3> QED BY <1>8, <2>2, <2>4, <2>5, <3>1, RoundReads
  <2>7. s[p + 1] = "DOLLAR"
    BY <2>4 DEF HasPiece
  <2>8. ~Stops(s, n, k, p)
    BY <1>4, <2>1, <2>5, <2>6, <2>7 DEF Stops
  <2>9. f[k][p] = <<NextArg(s, p).arg>> \o f[k + 1][NextArg(s, p).pos]
    <3>1. f[k][p] = IF Stops(s, n, k, p) THEN <<>>
                    ELSE <<NextArg(s, p).arg>> \o f[k + 1][NextArg(s, p).pos]
      <4>1. k \in Nat /\ p \in Nat
        BY <2>1, <2>5
      <4> QED BY <1>13, <4>1, LoopAt
    <3> QED BY <2>8, <3>1
  <2>10. k + 1 < n => ~Contains(m[k + 1], "LF")
    <3>1. k + 1 < n => k + 1 \in 1 .. Len(m) - 1
      BY <1>4
    <3> QED BY <3>1 DEF Plain
  <2> QED BY <2>3, <2>5, <2>6, <2>9, <2>10
<1>15. \A q \in Nat : f[n][q] = <<>>
  <2> SUFFICES ASSUME NEW q \in Nat PROVE f[n][q] = <<>>
    OBVIOUS
  <2>1. Stops(s, n, n, q) /\ n \in Nat
    BY DEF Stops
  <2> QED BY <1>13, <2>1, LoopAt
<1> DEFINE B == {d \in Nat : d \in 1 .. n /\ f[n - d][off[n - d]] # SubSeq(m, n - d + 1, n)}
<1>16. B = {}
  <2> SUFFICES ASSUME B # {} PROVE FALSE
    OBVIOUS
  <2>1. PICK d \in B : \A e \in B : d <= e
    <3>1. B \in SUBSET Nat
      OBVIOUS
    <3> HIDE DEF B
    <3> QED BY <3>1, LeastNumber
  <2>2. PICK k \in 0 .. n - 1 : k = n - d
    BY <2>1
  <2>3. d \in 1 .. n /\ f[k][off[k]] # SubSeq(m, k + 1, n)
    BY <2>1, <2>2
  <2>4. PICK q \in Nat : /\ f[k][off[k]] = <<m[k + 1]>> \o f[k + 1][q]
                         /\ k + 1 < n => q = off[k + 1]
    BY <1>14
  <2>5. f[k + 1][q] = SubSeq(m, (k + 1) + 1, n)
    <3>1. CASE k + 1 = n
      <4>1. SubSeq(m, n + 1, n) = <<>>
        BY SubSeqEmpty
      <4> QED BY <1>15, <3>1, <4>1
    <3>2. CASE k + 1 # n
      <4>1. d - 1 \in 1 .. n /\ n - (d - 1) = k + 1 /\ k + 1 < n /\ d - 1 \in Nat
        <5>1. d \in 1 .. n
          BY <2>3
        <5> HIDE DEF B
        <5> QED BY <2>2, <3>2, <5>1
      <4>2. d - 1 \notin B
        <5> HIDE DEF B
        <5> QED BY <2>1, <2>3, <4>1
      <4>3. f[k + 1][off[k + 1]] = SubSeq(m, (k + 1) + 1, n)
        BY <4>1, <4>2
      <4> QED BY <2>4, <4>1, <4>3
    <3> QED BY <3>1, <3>2
  <2>6. SubSeq(m, k + 1, n) = <<m[k + 1]>> \o SubSeq(m, (k + 1) + 1, n)
    <3>1. k + 1 \in 1 .. Len(m) /\ n \in (k + 1) .. Len(m)
      BY <1>4
    <3> QED BY <1>5, <3>1, SubSeqRecursiveFirst
  <2> QED BY <2>3, <2>4, <2>5, <2>6
<1>17. f[0][off[0]] = SubSeq(m, 1, n)
  <2>1. n \in Nat /\ n \in 1 .. n /\ n - n = 0 /\ 0 + 1 = 1
    OBVIOUS
  <2>2. n \notin B
    BY <1>16
  <2> QED BY <2>1, <2>2
<1>18. SubSeq(m, 1, n) = m
  BY <1>4, <1>5, SubSeqFull
<1> QED BY <1>1, <1>12, <1>17, <1>18

(***************************************************************************)
(* The database.                                                           *)
(***************************************************************************)

\* A memtable or a cache, and both.
Table == UNION {[D -> Seq(Byte)] : D \in SUBSET Seq(Byte)}
DB == [mem : Table, cache : Table]

\* The empty table.
LEMMA EmptyTable == <<>> \in Table /\ DOMAIN <<>> = {}
<1>1. <<>> \in [{} -> Seq(Byte)]
  OBVIOUS
<1>2. {} \in SUBSET Seq(Byte)
  OBVIOUS
<1> QED BY <1>1, <1>2 DEF Table

\* Writing one key.
LEMMA SetProperties ==
    ASSUME NEW f, NEW k, NEW v
    PROVE  /\ DOMAIN Set(f, k, v) = DOMAIN f \cup {k}
           /\ \A x \in DOMAIN f \cup {k} : Set(f, k, v)[x] = IF x = k THEN v ELSE f[x]
  BY DEF Set

\* A table stays one.
LEMMA SetType ==
    ASSUME NEW f \in Table, NEW k \in Seq(Byte), NEW v \in Seq(Byte)
    PROVE  Set(f, k, v) \in Table
<1>1. PICK D \in SUBSET Seq(Byte) : f \in [D -> Seq(Byte)]
  BY DEF Table
<1> DEFINE E == D \cup {k}
<1>2. E \in SUBSET Seq(Byte)
  OBVIOUS
<1>3. Set(f, k, v) \in [E -> Seq(Byte)]
  BY <1>1 DEF Set
<1> HIDE DEF E
<1> QED BY <1>2, <1>3 DEF Table

\* Fewer keys.
LEMMA RestrictType ==
    ASSUME NEW f \in Table, NEW S \in SUBSET DOMAIN f
    PROVE  Restrict(f, S) \in Table
<1>1. PICK D \in SUBSET Seq(Byte) : f \in [D -> Seq(Byte)]
  BY DEF Table
<1>2. S \in SUBSET Seq(Byte) /\ Restrict(f, S) \in [S -> Seq(Byte)]
  BY <1>1 DEF Restrict
<1> QED BY <1>2 DEF Table

\* Writing the memtable leaves the cache alone.
LEMMA WrittenType ==
    ASSUME NEW db \in DB, NEW k \in Seq(Byte), NEW v \in Seq(Byte)
    PROVE  /\ Written(db, k, v) \in DB
           /\ Written(db, k, v).mem = Set(db.mem, k, v)
           /\ Written(db, k, v).cache = db.cache
<1>1. PICK mem \in Table, cache \in Table : mem = db.mem /\ cache = db.cache
  BY DEF DB
<1>2. Written(db, k, v) = [mem |-> Set(mem, k, v), cache |-> cache]
  BY <1>1 DEF Written
<1>3. Set(mem, k, v) \in Table
  BY SetType
<1> QED BY <1>1, <1>2, <1>3 DEF DB

\* What the cache has after an insertion it had before, but for the key
\* that is inserted.
LEMMA InsertedType ==
    ASSUME NEW f \in Table, NEW k \in Seq(Byte), NEW v \in Seq(Byte), NEW g \in Inserted(f, k, v)
    PROVE  /\ g \in Table
           /\ \A x \in DOMAIN g : \/ x \in DOMAIN f /\ g[x] = f[x]
                                  \/ x = k /\ g[x] = v
<1>1. CASE k \in DOMAIN f
  <2>1. g = f
    BY <1>1 DEF Inserted
  <2> QED BY <2>1
<1>2. CASE k \notin DOMAIN f
  <2>1. PICK kept \in SUBSET DOMAIN f : g = Set(Restrict(f, kept), k, v)
    BY <1>2 DEF Inserted
  <2>2. g \in Table
    BY <2>1, RestrictType, SetType
  <2>3. PICK h : h = Restrict(f, kept)
    OBVIOUS
  <2>4. DOMAIN h = kept /\ \A x \in kept : h[x] = f[x]
    BY <2>3 DEF Restrict
  <2>5. /\ DOMAIN g = DOMAIN h \cup {k}
        /\ \A x \in DOMAIN h \cup {k} : g[x] = IF x = k THEN v ELSE h[x]
    BY <2>1, <2>3 DEF Set
  <2> QED BY <2>2, <2>4, <2>5
<1> QED BY <1>1, <1>2

\* What a Put that succeeds may leave.
LEMMA StoredType ==
    ASSUME NEW db \in DB, NEW k \in Seq(Byte), NEW v \in Seq(Byte), NEW d \in Stored(db, k, v)
    PROVE  /\ d \in DB
           /\ d.mem = Set(db.mem, k, v) \/ d.mem = <<>>
           /\ d.cache \in Inserted(db.cache, k, v)
<1>1. PICK f \in Table, c \in Table : f = db.mem /\ c = db.cache
  BY DEF DB
<1>2. PICK mem \in {Set(f, k, v), <<>>}, cache \in Inserted(c, k, v) :
         d = [mem |-> mem, cache |-> cache]
  BY <1>1 DEF Stored
<1>3. mem \in Table
  BY <1>2, SetType, EmptyTable
<1>4. cache \in Table
  BY <1>2, InsertedType
<1>5. d \in DB /\ d.mem = mem /\ d.cache = cache
  BY <1>2, <1>3, <1>4 DEF DB
<1> QED BY <1>1, <1>2, <1>5

\* What DEL does for the keys t.
Erase(db, t) == FoldLeft(LAMBDA d, k : Written(d, k, <<>>), db, t)

\* d is db with the keys in K erased.
IsErased(d, db, K) ==
    /\ d \in DB
    /\ d.cache = db.cache
    /\ DOMAIN d.mem = DOMAIN db.mem \cup K
    /\ \A k \in DOMAIN d.mem : d.mem[k] = IF k \in K THEN <<>> ELSE db.mem[k]

\* One more key is erased.
LEMMA EraseOne ==
    ASSUME NEW db \in DB, NEW K, NEW d, IsErased(d, db, K), NEW k \in Seq(Byte)
    PROVE  IsErased(Written(d, k, <<>>), db, K \cup {k})
<1>1. d \in DB /\ <<>> \in Seq(Byte)
  BY DEF IsErased
<1>2. /\ Written(d, k, <<>>) \in DB
      /\ Written(d, k, <<>>).mem = Set(d.mem, k, <<>>)
      /\ Written(d, k, <<>>).cache = d.cache
  BY <1>1, WrittenType
<1>3. PICK e : e = Written(d, k, <<>>)
  OBVIOUS
<1>4. /\ DOMAIN e.mem = DOMAIN d.mem \cup {k}
      /\ \A x \in DOMAIN d.mem \cup {k} : e.mem[x] = IF x = k THEN <<>> ELSE d.mem[x]
  <2>1. PICK h : h = d.mem
    OBVIOUS
  <2>2. e.mem = Set(h, k, <<>>)
    BY <1>2, <1>3, <2>1
  <2>3. /\ DOMAIN Set(h, k, <<>>) = DOMAIN h \cup {k}
        /\ \A x \in DOMAIN h \cup {k} : Set(h, k, <<>>)[x] = IF x = k THEN <<>> ELSE h[x]
    BY DEF Set
  <2> QED BY <2>1, <2>2, <2>3
<1>5. /\ d.cache = db.cache
      /\ DOMAIN d.mem = DOMAIN db.mem \cup K
      /\ \A x \in DOMAIN d.mem : d.mem[x] = IF x \in K THEN <<>> ELSE db.mem[x]
  BY DEF IsErased
<1>6. e \in DB /\ e.cache = db.cache
  BY <1>2, <1>3, <1>5
<1>7. DOMAIN e.mem = DOMAIN db.mem \cup (K \cup {k})
  BY <1>4, <1>5
<1>8. ASSUME NEW x \in DOMAIN e.mem PROVE e.mem[x] = IF x \in K \cup {k} THEN <<>> ELSE db.mem[x]
  BY <1>4, <1>5
<1>9. IsErased(e, db, K \cup {k})
  BY <1>6, <1>7, <1>8 DEF IsErased
<1> QED BY <1>3, <1>9

\* DEL writes the empty value for every one of its keys, however often a
\* key is among them, and leaves the cache alone.
LEMMA EraseIs ==
    ASSUME NEW db \in DB, NEW t \in Seq(Seq(Byte))
    PROVE  IsErased(Erase(db, t), db, ToSet(t))
<1> DEFINE D == 1 .. Len(t)
           pick == [s \in SUBSET D |-> Max(s)]
           op == [j \in D |-> [d \in DB |-> Written(d, t[j], <<>>)]]
           P(it) == it = [s \in SUBSET D |->
                       IF s = {} THEN db ELSE Written(it[s \ {Max(s)}], t[Max(s)], <<>>)]
           iter == CHOOSE it : P(it)
           Keys(s) == {t[j] : j \in s}
<1>1. Len(t) \in Nat /\ DOMAIN t = D /\ IsFiniteSet(D)
  BY FS_Interval
<1>2. \A s \in SUBSET D : s # {} => Max(s) \in s
  BY <1>1, MaxPicks
<1>3. IsPick(pick, D)
  BY <1>2 DEF IsPick
<1>4. \A j \in D : t[j] \in Seq(Byte)
  OBVIOUS
<1>5. op \in [D -> [DB -> DB]]
  <2>1. ASSUME NEW j \in D, NEW d \in DB PROVE Written(d, t[j], <<>>) \in DB
    <3>1. <<>> \in Seq(Byte) /\ t[j] \in Seq(Byte)
      BY <1>4
    <3> QED BY <3>1, WrittenType
  <2> HIDE DEF D
  <2> QED BY <2>1
<1>6. ASSUME NEW it, P(it), NEW s \in SUBSET D
      PROVE  it[s] = IF s = {} THEN db ELSE Written(it[Without(s, Max(s))], t[Max(s)], <<>>)
  BY <1>6 DEF Without
<1>7. \E h : P(h)
  <2>1. PICK h \in [SUBSET D -> DB] : IsFold(h, D, pick, db, op)
    <3> HIDE DEF D, pick, op
    <3> QED BY <1>1, <1>3, <1>5, FoldDefined, Zenon
  <2>2. ASSUME NEW s \in SUBSET D
        PROVE  h[s] = IF s = {} THEN db ELSE Written(h[s \ {Max(s)}], t[Max(s)], <<>>)
    <3>1. CASE s = {}
      <4> HIDE DEF pick, op, D
      <4> QED BY <2>1, <3>1, FoldAt
    <3>2. CASE s # {}
      <4>1. h[s] = op[pick[s]][h[Without(s, pick[s])]]
        <5> HIDE DEF pick, op, D
        <5> QED BY <2>1, <3>2, FoldAt
      <4>2. pick[s] = Max(s) /\ Max(s) \in D
        BY <1>2, <3>2
      <4>3. Without(s, Max(s)) = s \ {Max(s)} /\ s \ {Max(s)} \in SUBSET D
        BY DEF Without
      <4>4. h[s \ {Max(s)}] \in DB
        BY <2>1, <4>3
      <4>5. op[Max(s)][h[s \ {Max(s)}]] = Written(h[s \ {Max(s)}], t[Max(s)], <<>>)
        BY <4>2, <4>4
      <4> HIDE DEF op, pick
      <4> QED BY <3>2, <4>1, <4>2, <4>3, <4>5
    <3> QED BY <3>1, <3>2
  <2>3. P(h)
    BY <2>1, <2>2
  <2> QED BY <2>3
<1>8. P(iter)
  <2> HIDE DEF P
  <2> QED BY <1>7, Zenon
<1>9. Erase(db, t) = iter[D]
  BY <1>1 DEF Erase, FoldLeft, MapThenFoldSet
<1> HIDE DEF P, iter
<1>10. \A s \in SUBSET D :
         iter[s] = IF s = {} THEN db ELSE Written(iter[Without(s, Max(s))], t[Max(s)], <<>>)
  BY <1>6, <1>8
<1>11. \A s \in SUBSET D : IsErased(iter[s], db, Keys(s))
  <2> DEFINE B == {s \in SUBSET D : ~IsErased(iter[s], db, Keys(s))}
  <2> SUFFICES ASSUME B # {} PROVE FALSE
    OBVIOUS
  <2>1. PICK s \in B : \A q \in B : q \subseteq s => q = s
    <3>1. B \in SUBSET (SUBSET D)
      OBVIOUS
    <3> HIDE DEF B, D
    <3> QED BY <1>1, <3>1, SmallestSubset
  <2>2. s \in SUBSET D /\ ~IsErased(iter[s], db, Keys(s))
    OBVIOUS
  <2>3. s # {}
    <3> SUFFICES ASSUME s = {} PROVE FALSE
      OBVIOUS
    <3>1. iter[s] = db /\ Keys(s) = {}
      BY <1>10, <2>2
    <3>2. IsErased(db, db, {})
      BY DEF IsErased
    <3> QED BY <2>2, <3>1, <3>2
  <2>4. Max(s) \in s /\ Max(s) \in D
    BY <1>2, <2>2, <2>3
  <2>5. PICK q : q = Without(s, Max(s))
    OBVIOUS
  <2>6. q \in SUBSET D /\ q \notin B /\ s = q \cup {Max(s)}
    BY <2>1, <2>4, <2>5 DEF Without
  <2>7. IsErased(iter[q], db, Keys(q))
    BY <2>6
  <2>8. Keys(s) = Keys(q) \cup {t[Max(s)]}
    BY <2>6
  <2>9. iter[s] = Written(iter[q], t[Max(s)], <<>>)
    BY <1>10, <2>2, <2>3, <2>5
  <2>10. t[Max(s)] \in Seq(Byte)
    BY <1>4, <2>4
  <2> HIDE DEF Keys, B
  <2> QED BY <2>2, <2>7, <2>8, <2>9, <2>10, EraseOne
<1>12. Keys(D) = ToSet(t) /\ D \in SUBSET D
  BY <1>1 DEF ToSet
<1> HIDE DEF Keys
<1> QED BY <1>9, <1>11, <1>12

(***************************************************************************)
(* The handlers.                                                           *)
(***************************************************************************)

\* The handler that a request with arguments gets.
Dispatch(db, args) ==
    IF args[1] = <<"S", "E", "T">> THEN HandleSet(db, args)
    ELSE IF args[1] = <<"G", "E", "T">> THEN HandleGet(db, args)
    ELSE IF args[1] = <<"D", "E", "L">> THEN HandleDel(db, args)
    ELSE {Reply(db, Error)}

\* The names of the commands are different.
LEMMA NamesDiffer ==
    /\ <<"S", "E", "T">> # <<"G", "E", "T">>
    /\ <<"S", "E", "T">> # <<"D", "E", "L">>
    /\ <<"G", "E", "T">> # <<"D", "E", "L">>
  OBVIOUS

\* A line without a count in front is no RESP.
LEMMA ParsesNothing ==
    ASSUME NEW s, s[1] # "STAR"
    PROVE  ParseRESP(s) = <<>>
  BY DEF ParseRESP

\* The one request that is not RESP and is no error.
LEMMA PingIsNoRESP ==
    ParseRESP(<<"P", "I", "N", "G">> \o CRLF) = <<>>
<1>1. (<<"P", "I", "N", "G">> \o <<"CR", "LF">>)[1] = "P"
  OBVIOUS
<1>2. (<<"P", "I", "N", "G">> \o CRLF)[1] # "STAR"
  BY <1>1 DEF CRLF
<1> QED BY <1>2, ParsesNothing

\* handleRequest without arguments.
LEMMA HandleNothing ==
    ASSUME NEW db, NEW s, ParseRESP(s) = <<>>
    PROVE  \/ HandleRequest(db, s) = {Reply(db, Answer("pong", <<>>))}
           \/ HandleRequest(db, s) = {Reply(db, Error)}
  BY DEF HandleRequest

\* handleRequest with arguments.
LEMMA HandleArgs ==
    ASSUME NEW db, NEW s, NEW args, ParseRESP(s) = args, args # <<>>
    PROVE  HandleRequest(db, s) = Dispatch(db, args)
<1>1. s # <<"P", "I", "N", "G">> \o CRLF
  BY PingIsNoRESP
<1>2. HandleRequest(db, s) =
        CASE args[1] = <<"S", "E", "T">> -> HandleSet(db, args)
          [] args[1] = <<"G", "E", "T">> -> HandleGet(db, args)
          [] args[1] = <<"D", "E", "L">> -> HandleDel(db, args)
          [] OTHER -> {Reply(db, Error)}
  BY <1>1 DEF HandleRequest
<1> QED BY <1>2, NamesDiffer DEF Dispatch

\* What a cache promises: it holds values.
CacheOK(db) ==
    \A k \in DOMAIN db.cache : db.cache[k] # <<>>

\* What a handler returns.
IsResult(r) ==
    /\ r.db \in DB
    /\ CacheOK(r.db)
    /\ r.answer.kind \in {"none", "pong", "error", "ok", "bulk", "int"}
    /\ r.down \in BOOLEAN

\* A reply with a database that keeps the promise.
LEMMA ReplyType ==
    ASSUME NEW db \in DB, CacheOK(db), NEW val,
           NEW kind \in {"none", "pong", "error", "ok", "bulk", "int"}
    PROVE  IsResult(Reply(db, Answer(kind, val)))
<1>1. PICK a : a = Answer(kind, val)
  OBVIOUS
<1>2. /\ Reply(db, a).db = db
      /\ Reply(db, a).answer.kind = kind
      /\ Reply(db, a).down = FALSE
  BY <1>1 DEF Reply, Answer
<1> QED BY <1>1, <1>2 DEF IsResult

\* An error is a reply.
LEMMA ErrorType ==
    ASSUME NEW db \in DB, CacheOK(db)
    PROVE  IsResult(Reply(db, Error))
  BY ReplyType DEF Error

\* Put keeps the promise of the cache.
LEMMA PutKeepsCache ==
    ASSUME NEW db \in DB, CacheOK(db), NEW k \in Seq(Byte), NEW v \in Seq(Byte),
           NEW d \in Put(db, k, v)
    PROVE  d \in DB /\ CacheOK(d)
<1>1. PICK cache \in Table : cache = db.cache
  BY DEF DB
<1>2. \A x \in DOMAIN cache : cache[x] # <<>>
  BY <1>1 DEF CacheOK
<1>3. CASE PutSucceeds(k, v)
  <2>1. d \in Stored(db, k, v) /\ v # <<>>
    BY <1>3 DEF Put, PutSucceeds
  <2>2. d \in DB /\ d.cache \in Inserted(cache, k, v)
    BY <1>1, <2>1, StoredType
  <2>3. PICK g : g = d.cache
    OBVIOUS
  <2>4. \A x \in DOMAIN g : \/ x \in DOMAIN cache /\ g[x] = cache[x]
                            \/ x = k /\ g[x] = v
    BY <2>2, <2>3, InsertedType
  <2>5. \A x \in DOMAIN g : g[x] # <<>>
    BY <1>2, <2>1, <2>4
  <2> QED BY <2>2, <2>3, <2>5 DEF CacheOK
<1>4. CASE ~PutSucceeds(k, v)
  <2>1. d = Written(db, k, v)
    BY <1>4 DEF Put
  <2>2. d \in DB /\ d.cache = cache
    BY <1>1, <2>1, WrittenType
  <2> QED BY <1>2, <2>2 DEF CacheOK
<1> QED BY <1>3, <1>4

\* DEL does.
LEMMA EraseKeepsCache ==
    ASSUME NEW db \in DB, CacheOK(db), NEW t \in Seq(Seq(Byte))
    PROVE  Erase(db, t) \in DB /\ CacheOK(Erase(db, t))
<1>1. PICK d : d = Erase(db, t)
  OBVIOUS
<1>2. d \in DB /\ d.cache = db.cache
  BY <1>1, EraseIs DEF IsErased
<1> QED BY <1>1, <1>2 DEF CacheOK

\* The arguments of a SET are byte strings.
LEMMA SetArgs ==
    ASSUME NEW m \in Seq(Seq(Byte)), Len(m) = 3
    PROVE  m[2] \in Seq(Byte) /\ m[3] \in Seq(Byte)
<1>1. 2 \in 1 .. Len(m) /\ 3 \in 1 .. Len(m)
  OBVIOUS
<1> QED BY <1>1, ElementOfSeq

\* Whatever the arguments, a handler returns a database and an answer.
LEMMA DispatchType ==
    ASSUME NEW db \in DB, CacheOK(db), NEW args \in Seq(Seq(Byte)), NEW r \in Dispatch(db, args)
    PROVE  IsResult(r)
<1>1. IsResult(Reply(db, Error))
  BY ErrorType
<1>2. ASSUME r \in HandleSet(db, args) PROVE IsResult(r)
  <2>1. CASE Len(args) # 3
    BY <1>1, <1>2, <2>1 DEF HandleSet
  <2>2. CASE Len(args) = 3
    <3>1. args[2] \in Seq(Byte) /\ args[3] \in Seq(Byte)
      BY <2>2, SetArgs
    <3>2. PICK d \in Put(db, args[2], args[3]) :
             r = Reply(d, IF PutSucceeds(args[2], args[3]) THEN Answer("ok", <<>>) ELSE Error)
      BY <1>2, <2>2 DEF HandleSet
    <3>3. r = Reply(d, Answer("ok", <<>>)) \/ r = Reply(d, Error)
      BY <3>2
    <3>4. d \in DB /\ CacheOK(d)
      BY <3>1, <3>2, PutKeepsCache
    <3>5. IsResult(Reply(d, Answer("ok", <<>>))) /\ IsResult(Reply(d, Error))
      BY <3>4, ReplyType, ErrorType
    <3> QED BY <3>3, <3>5
  <2> QED BY <2>1, <2>2
<1>3. ASSUME r \in HandleGet(db, args) PROVE IsResult(r)
  <2>1. PICK down : down = [db |-> db, answer |-> Error, down |-> TRUE]
    OBVIOUS
  <2>2. IsResult(down)
    BY <2>1 DEF IsResult, Error, Answer
  <2>3. \/ r = Reply(db, Error)
        \/ \E val : r = Reply(db, Answer("bulk", val))
        \/ r = down
    BY <1>3, <2>1 DEF HandleGet
  <2> QED BY <1>1, <2>2, <2>3, ReplyType
<1>4. ASSUME r \in HandleDel(db, args) PROVE IsResult(r)
  <2>1. CASE Len(args) < 2
    BY <1>1, <1>4, <2>1 DEF HandleDel
  <2>2. CASE ~(Len(args) < 2)
    <3>1. Tail(args) \in Seq(Seq(Byte))
      BY <2>2
    <3>2. PICK d \in DB : d = Erase(db, Tail(args)) /\ CacheOK(d)
      BY <3>1, EraseKeepsCache
    <3>3. \E val : r = Reply(d, Answer("int", val))
      BY <1>4, <2>2, <3>2 DEF HandleDel, Erase
    <3> QED BY <3>2, <3>3, ReplyType
  <2> QED BY <2>1, <2>2
<1> QED BY <1>1, <1>2, <1>3, <1>4 DEF Dispatch

\* So does the server, whatever has arrived.
LEMMA RequestType ==
    ASSUME NEW db \in DB, CacheOK(db), NEW s \in Seq(Byte), s # <<>>,
           NEW r \in HandleRequest(db, s)
    PROVE  IsResult(r)
<1>1. CASE ParseRESP(s) = <<>>
  <2>1. IsResult(Reply(db, Answer("pong", <<>>))) /\ IsResult(Reply(db, Error))
    BY ReplyType, ErrorType
  <2> QED BY <1>1, <2>1, HandleNothing
<1>2. CASE ParseRESP(s) # <<>>
  <2>1. PICK args \in Seq(Seq(Byte)) : args = ParseRESP(s)
    BY ParseType
  <2>2. r \in Dispatch(db, args)
    BY <1>2, <2>1, HandleArgs
  <2> QED BY <2>1, <2>2, DispatchType
<1> QED BY <1>1, <1>2

(***************************************************************************)
(* Types.                                                                  *)
(***************************************************************************)

\* The database as a handler gets it.
Now == [mem |-> mem_table, cache |-> cached]

\* The types, with those of what TypeOK leaves out: bytes are bytes, and
\* the tables are tables of byte strings.
TypeInv ==
    /\ wire \in [Conns -> Seq(Byte)]
    /\ buf \in [Conns -> Seq(Byte)]
    /\ asked \in [Conns -> Requests \cup {NoCommand}]
    /\ DOMAIN answer = Conns
    /\ mem_table \in Table
    /\ cached \in Table
    /\ TypeOK

\* The parts of the database.
LEMMA NowIs ==
    ASSUME TypeInv
    PROVE  /\ Now \in DB
           /\ CacheOK(Now)
           /\ Now.mem = mem_table
           /\ Now.cache = cached
  BY DEF TypeInv, TypeOK, Now, DB, CacheOK

\* What clients send can be written with one digit for every length.
LEMMA RequestFacts ==
    ASSUME NEW m \in Requests
    PROVE  IsShort(m) /\ m # <<>> /\ m # NoCommand
<1>1. m \in Seq(Seq(Byte)) /\ Len(m) \in 1 .. 9 /\ \A i \in 1 .. Len(m) : Len(m[i]) <= 9
  BY RequestAssumption
<1>2. m # <<>>
  <2> SUFFICES ASSUME m = <<>> PROVE FALSE
    OBVIOUS
  <2>1. Len(m) = 0
    OBVIOUS
  <2>2. Len(m) \in 1 .. 9
    BY <1>1
  <2> QED BY <2>1, <2>2
<1> QED BY <1>1, <1>2 DEF IsShort, NoCommand

\* What clients send are bytes.
LEMMA SentBytes ==
    /\ \A m \in Commands : m \in Requests /\ Encode(m) \in Seq(Byte)
    /\ \A bytes \in Raw : <<bytes>> \in Requests /\ bytes \in Seq(Byte)
<1>1. ASSUME NEW m \in Commands PROVE m \in Requests /\ Encode(m) \in Seq(Byte)
  <2>1. m \in Requests
    BY DEF Requests
  <2> QED BY <2>1, RequestFacts, EncodeLayout
<1>2. ASSUME NEW bytes \in Raw PROVE <<bytes>> \in Requests /\ bytes \in Seq(Byte)
  <2>1. PICK m : m = <<bytes>>
    OBVIOUS
  <2>2. m \in Requests
    BY <2>1 DEF Requests
  <2>3. m \in Seq(Seq(Byte)) /\ Len(m) = 1 /\ m[1] = bytes
    BY <2>1, <2>2, RequestFacts DEF IsShort
  <2> QED BY <2>1, <2>2, <2>3
<1> QED BY <1>1, <1>2

\* The initial state.
LEMMA TypeInit ==
    ASSUME Init
    PROVE  TypeInv
<1>1. <<>> \in Seq(Byte) /\ <<>> \in Table /\ DOMAIN <<>> = {}
  BY EmptyTable
<1>2. TypeOK
  <2>1. ASSUME NEW c \in Conns
        PROVE  /\ asked[c] \in Requests \cup {NoCommand}
               /\ answer[c].kind \in {"none", "pong", "error", "ok", "bulk", "int"}
    BY DEF Init, Answer
  <2>2. cuts \in 0 .. MaxCuts /\ sends \in 0 .. MaxSends
    BY BoundAssumption DEF Init
  <2>3. \A k \in DOMAIN cached : cached[k] # <<>>
    BY <1>1 DEF Init
  <2>4. proc \in {"up", "down"} /\ misread \in BOOLEAN
    BY DEF Init
  <2> QED BY <2>1, <2>2, <2>3, <2>4 DEF TypeOK
<1>3. /\ wire \in [Conns -> Seq(Byte)]
      /\ buf \in [Conns -> Seq(Byte)]
      /\ mem_table \in Table
      /\ cached \in Table
      /\ DOMAIN answer = Conns
  BY <1>1 DEF Init
<1>4. asked \in [Conns -> Requests \cup {NoCommand}]
  BY DEF Init
<1> QED BY <1>2, <1>3, <1>4 DEF TypeInv

\* A request is sent.
LEMMA TypeSend ==
    ASSUME TypeInv, NEW c \in Conns, Send(c)
    PROVE  TypeInv'
<1>1. /\ wire \in [Conns -> Seq(Byte)] /\ buf \in [Conns -> Seq(Byte)]
      /\ asked \in [Conns -> Requests \cup {NoCommand}]
      /\ DOMAIN answer = Conns
      /\ mem_table \in Table /\ cached \in Table
      /\ TypeOK
  BY DEF TypeInv
<1>2. PICK m \in Requests, bytes \in Seq(Byte) :
         asked' = [asked EXCEPT ![c] = m] /\ wire' = [wire EXCEPT ![c] = @ \o bytes]
  <2>1. \/ \E m \in Commands :
              asked' = [asked EXCEPT ![c] = m] /\ wire' = [wire EXCEPT ![c] = @ \o Encode(m)]
        \/ \E bytes \in Raw :
              asked' = [asked EXCEPT ![c] = <<bytes>>] /\ wire' = [wire EXCEPT ![c] = @ \o bytes]
    BY DEF Send
  <2>2. CASE \E m \in Commands :
              asked' = [asked EXCEPT ![c] = m] /\ wire' = [wire EXCEPT ![c] = @ \o Encode(m)]
    BY <2>2, SentBytes
  <2>3. CASE \E bytes \in Raw :
              asked' = [asked EXCEPT ![c] = <<bytes>>] /\ wire' = [wire EXCEPT ![c] = @ \o bytes]
    BY <2>3, SentBytes
  <2> QED BY <2>1, <2>2, <2>3
<1>3. wire' \in [Conns -> Seq(Byte)]
  <2>1. wire[c] \o bytes \in Seq(Byte)
    BY <1>1, ConcatProperties
  <2> QED BY <1>1, <1>2, <2>1
<1>4. asked' \in [Conns -> Requests \cup {NoCommand}]
  BY <1>1, <1>2
<1>5. UNCHANGED <<buf, answer, mem_table, cached, proc, cuts, misread>>
  BY DEF Send, dbVars, historyVars
<1>6. sends' \in 0 .. MaxSends
  BY <1>1, BoundAssumption DEF Send, TypeOK
<1>7. TypeOK'
  BY <1>1, <1>4, <1>5, <1>6 DEF TypeOK
<1> QED BY <1>1, <1>3, <1>4, <1>5, <1>7 DEF TypeInv

\* Bytes arrive.
LEMMA TypeArrive ==
    ASSUME TypeInv, NEW c \in Conns, Arrive(c)
    PROVE  TypeInv'
<1>1. /\ wire \in [Conns -> Seq(Byte)] /\ buf \in [Conns -> Seq(Byte)]
      /\ asked \in [Conns -> Requests \cup {NoCommand}]
      /\ DOMAIN answer = Conns
      /\ mem_table \in Table /\ cached \in Table
      /\ TypeOK
  BY DEF TypeInv
<1>2. PICK s \in Prefixes(wire[c]) \ {<<>>} :
         /\ s # wire[c] => cuts < MaxCuts /\ Len(s) \in Cuts
         /\ cuts' = IF s = wire[c] THEN cuts ELSE cuts + 1
         /\ buf' = [buf EXCEPT ![c] = @ \o s]
         /\ wire' = [wire EXCEPT ![c] = SubSeq(@, Len(s) + 1, Len(@))]
  BY DEF Arrive
<1>3. PICK w \in Seq(Byte) : w = wire[c]
  BY <1>1
<1>4. s \in Seq(Byte)
  <2>1. PICK l \in 0 .. Len(w) : s = SubSeq(w, 1, l)
    BY <1>2, <1>3 DEF Prefixes
  <2> QED BY <2>1
<1>5. SubSeq(w, Len(s) + 1, Len(w)) \in Seq(Byte)
  <2>1. PICK n \in Nat, l \in Nat : n = Len(s) /\ l = Len(w)
    BY <1>4, LenProperties
  <2>2. n + 1 \in Int /\ l \in Int /\ \A i \in n + 1 .. l : w[i] \in Byte
    BY <2>1
  <2>3. SubSeq(w, n + 1, l) \in Seq(Byte)
    BY <2>2, SubSeqProperties
  <2> QED BY <2>1, <2>3
<1>6. buf' \in [Conns -> Seq(Byte)] /\ wire' \in [Conns -> Seq(Byte)]
  <2>1. buf[c] \o s \in Seq(Byte)
    BY <1>1, <1>4, ConcatProperties
  <2> QED BY <1>1, <1>2, <1>3, <1>5, <2>1
<1>7. UNCHANGED <<asked, answer, mem_table, cached, proc, sends, misread>>
  BY DEF Arrive, dbVars, historyVars
<1>8. cuts' \in 0 .. MaxCuts
  BY <1>1, <1>2, BoundAssumption DEF TypeOK
<1>9. TypeOK'
  BY <1>1, <1>7, <1>8 DEF TypeOK
<1> QED BY <1>1, <1>6, <1>7, <1>9 DEF TypeInv

\* r is what onMessage makes of what has arrived on c.
IsHandled(c, r) ==
    /\ r \in HandleRequest(Now, buf[c])
    /\ proc = "up"
    /\ buf[c] # <<>>
    /\ buf' = [buf EXCEPT ![c] = <<>>]
    /\ wire' = wire
    /\ mem_table' = r.db.mem
    /\ cached' = r.db.cache
    /\ \/ r.down /\ proc' = "down" /\ UNCHANGED <<asked, answer, acked, fresh, erased, recent>>
       \/ ~r.down /\ proc' = proc /\ Sent(c, r.answer) /\ Remember(asked[c], r.answer)

\* onMessage in one piece.
LEMMA OnMessageIs ==
    ASSUME NEW c, OnMessage(c)
    PROVE  /\ \E r : IsHandled(c, r)
           /\ sends' = sends /\ cuts' = cuts
           /\ misread' = (misread \/ ~Readable(c))
<1>1. PICK r \in HandleRequest(Now, buf[c]) :
         /\ mem_table' = r.db.mem
         /\ cached' = r.db.cache
         /\ IF r.down
            THEN proc' = "down" /\ UNCHANGED <<asked, answer, acked, fresh, erased, recent>>
            ELSE UNCHANGED proc /\ Sent(c, r.answer) /\ Remember(asked[c], r.answer)
  BY DEF OnMessage, Now
<1>2. proc = "up" /\ buf[c] # <<>> /\ buf' = [buf EXCEPT ![c] = <<>>] /\ wire' = wire
  BY DEF OnMessage, RetrieveAll
<1>3. IsHandled(c, r)
  BY <1>1, <1>2 DEF IsHandled
<1>4. sends' = sends /\ cuts' = cuts
  BY DEF OnMessage, boundVars
<1>5. misread' = (misread \/ ~Readable(c))
  BY DEF OnMessage
<1> QED BY <1>3, <1>4, <1>5

\* onMessage keeps the types, whatever has arrived.
LEMMA TypeOnMessage ==
    ASSUME TypeInv, NEW c \in Conns, OnMessage(c)
    PROVE  TypeInv'
<1>1. /\ wire \in [Conns -> Seq(Byte)] /\ buf \in [Conns -> Seq(Byte)]
      /\ asked \in [Conns -> Requests \cup {NoCommand}]
      /\ DOMAIN answer = Conns
      /\ TypeOK
  BY DEF TypeInv
<1>2. PICK r : IsHandled(c, r)
  BY OnMessageIs
<1>3. Now \in DB /\ CacheOK(Now) /\ buf[c] \in Seq(Byte) /\ buf[c] # <<>>
  BY <1>1, <1>2, NowIs DEF IsHandled
<1>4. IsResult(r)
  BY <1>2, <1>3, RequestType DEF IsHandled
<1>5. PICK d : d = r.db
  OBVIOUS
<1>6. d.mem \in Table /\ d.cache \in Table /\ CacheOK(d) /\ mem_table' = d.mem /\ cached' = d.cache
  BY <1>2, <1>4, <1>5 DEF IsResult, DB, IsHandled
<1>7. wire' \in [Conns -> Seq(Byte)] /\ buf' \in [Conns -> Seq(Byte)]
  <2>1. <<>> \in Seq(Byte)
    OBVIOUS
  <2> QED BY <1>1, <1>2, <2>1 DEF IsHandled
<1>8. /\ asked' \in [Conns -> Requests \cup {NoCommand}]
      /\ DOMAIN answer' = Conns
      /\ \A x \in Conns : answer'[x].kind \in {"none", "pong", "error", "ok", "bulk", "int"}
      /\ proc' \in {"up", "down"}
  <2>1. \A x \in Conns : answer[x].kind \in {"none", "pong", "error", "ok", "bulk", "int"}
    BY <1>1 DEF TypeOK
  <2>2. CASE proc' = "down" /\ UNCHANGED <<asked, answer, acked, fresh, erased, recent>>
    BY <1>1, <2>1, <2>2
  <2>3. CASE proc' = proc /\ Sent(c, r.answer)
    <3>1. answer' = [answer EXCEPT ![c] = r.answer] /\ asked' = [asked EXCEPT ![c] = NoCommand]
      BY <2>3 DEF Sent
    <3>2. r.answer.kind \in {"none", "pong", "error", "ok", "bulk", "int"}
      BY <1>4 DEF IsResult
    <3>3. asked' \in [Conns -> Requests \cup {NoCommand}]
      BY <1>1, <3>1
    <3>4. DOMAIN answer' = Conns /\ \A x \in Conns : answer'[x] = IF x = c THEN r.answer ELSE answer[x]
      BY <1>1, <3>1
    <3>5. proc' \in {"up", "down"}
      BY <1>1, <2>3 DEF TypeOK
    <3> QED BY <2>1, <3>2, <3>3, <3>4, <3>5
  <2> QED BY <1>2, <2>2, <2>3 DEF IsHandled
<1>9. misread' \in BOOLEAN /\ sends' = sends /\ cuts' = cuts
  <2>1. misread' = (misread \/ ~Readable(c))
    BY OnMessageIs
  <2>2. misread' \in BOOLEAN
    BY <2>1
  <2> QED BY <2>2, OnMessageIs
<1>10. TypeOK'
  BY <1>1, <1>6, <1>8, <1>9 DEF TypeOK, CacheOK
<1> QED BY <1>6, <1>7, <1>8, <1>10 DEF TypeInv

\* Every step keeps the types.
LEMMA TypeStep ==
    ASSUME TypeInv, [Next]_vars
    PROVE  TypeInv'
<1>1. CASE UNCHANGED vars
  BY <1>1 DEF vars, dbVars, boundVars, historyVars, TypeInv, TypeOK
<1>2. CASE Next
  BY <1>2, TypeSend, TypeArrive, TypeOnMessage DEF Next
<1> QED BY <1>1, <1>2

\* Bytes, answers, tables and counters have their types after every step,
\* and the cache holds no empty value, also when a callback finds parts of
\* requests.
THEOREM ServerTypes == Spec => []TypeOK
<1>1. Init => TypeInv
  BY TypeInit
<1>2. TypeInv /\ [Next]_vars => TypeInv'
  BY TypeStep
<1>3. TypeInv => TypeOK
  BY DEF TypeInv
<1> QED BY <1>1, <1>2, <1>3, PTL DEF Spec

\* parseRESP is the inverse of the encoding for every request whose counts
\* and lengths have one digit, and whose newlines are in the last argument.
THEOREM ParserInvertsEncoding == Spec => []ParseInverts
<1>1. Init => TypeInv
  BY TypeInit
<1>2. TypeInv /\ [Next]_vars => TypeInv'
  BY TypeStep
<1>3. ASSUME TypeInv PROVE ParseInverts
  <2> SUFFICES ASSUME NEW c \in Conns, buf[c] = Encode(asked[c]), Waits(c), Plain(asked[c])
               PROVE  ParseRESP(buf[c]) = asked[c]
    BY DEF ParseInverts
  <2>1. asked[c] \in Requests
    BY <1>3 DEF TypeInv, Waits
  <2>2. IsShort(asked[c])
    BY <2>1, RequestFacts
  <2>3. ParseRESP(Encode(asked[c])) = asked[c]
    BY <2>2, ParseEncode
  <2> QED BY <2>3
<1> QED BY <1>1, <1>2, <1>3, PTL DEF Spec

(***************************************************************************)
(* What is known of the database as long as every request arrives in one   *)
(* piece and can be read.                                                  *)
(***************************************************************************)

\* Nothing is on its way but what somebody waits for.
Quiet == ~misread => \A c \in Conns : ~Waits(c) => buf[c] = <<>> /\ wire[c] = <<>>

\* The tables hold what was SET, or the empty value of an erased key, and a
\* key that was named in a SET or a DEL since the last flush is in the
\* memtable.  (What a refused SET leaves under the empty key, no GET asks
\* for.)
Backed ==
    ~misread =>
        /\ \A k \in DOMAIN cached : k \in DOMAIN acked /\ cached[k] \in acked[k]
        /\ \A k \in DOMAIN mem_table :
              k # <<>> => \/ k \in DOMAIN acked /\ mem_table[k] \in acked[k]
                          \/ k \in erased /\ mem_table[k] = <<>>
        /\ recent \subseteq DOMAIN mem_table

\* The process has gone down for a key nobody had written since the last
\* flush, and nothing more arrives from the client that asked.
Down ==
    proc = "down" /\ ~misread =>
        \E c \in Conns : /\ IsGet(asked[c])
                         /\ buf[c] = <<>> /\ wire[c] = <<>>
                         /\ asked[c][2] \notin recent

\* The inductive invariant.
ServerInv == TypeInv /\ Quiet /\ Backed /\ Down

\* What a callback does that finds one whole request m and makes r of it:
\* nothing to the tables nor to what the client knows of them, or what the
\* handler of a SET, a GET or a DEL does.
Ignored(m, r) == /\ r.db = Now
                 /\ ~r.down
                 /\ r.answer.kind # "ok"
                 /\ ~IsSet(m) /\ ~IsDel(m)
                 /\ IsGet(m) => m[2] = <<>>
DoesSet(m, r) == IsSet(m) /\ r \in HandleSet(Now, m)
DoesGet(m, r) == IsGet(m) /\ m[2] # <<>> /\ r \in HandleGet(Now, m)
DoesDel(m, r) == IsDel(m) /\ r \in HandleDel(Now, m)

\* A refusal changes nothing.
LEMMA RefusalIs ==
    ASSUME NEW r, r = Reply(Now, Error)
    PROVE  r.db = Now /\ ~r.down /\ r.answer.kind # "ok"
  BY DEF Reply, Error, Answer

\* What a callback does that finds one whole request that can be read.
LEMMA Outcomes ==
    ASSUME TypeInv, Quiet, NEW c \in Conns, OnMessage(c), ~misread', NEW r, IsHandled(c, r)
    PROVE  /\ ~misread /\ wire[c] = <<>> /\ asked[c] \in Requests
           /\ \/ Ignored(asked[c], r)
              \/ DoesSet(asked[c], r)
              \/ DoesGet(asked[c], r)
              \/ DoesDel(asked[c], r)
<1>1. PICK m : m = asked[c]
  OBVIOUS
<1>2. PICK s : s = buf[c]
  OBVIOUS
<1>3. /\ ~misread /\ wire[c] = <<>>
      /\ \/ s = Encode(m) /\ Plain(m)
         \/ <<s>> = m /\ ParseRESP(s) = <<>>
  <2>1. misread' = (misread \/ ~Readable(c))
    BY OnMessageIs
  <2> QED BY <1>1, <1>2, <2>1 DEF Readable
<1>4. r \in HandleRequest(Now, s) /\ s # <<>>
  BY <1>2 DEF IsHandled
<1>5. m \in Requests
  BY <1>1, <1>2, <1>3, <1>4 DEF Quiet, Waits, TypeInv
<1>6. IsShort(m) /\ m # <<>> /\ Len(m) \in 1 .. 9
  BY <1>5, RequestFacts DEF IsShort
<1>7. CASE <<s>> = m /\ ParseRESP(s) = <<>>
  <2>1. Len(m) = 1 /\ m[1] = s
    BY <1>7
  <2>3. r = Reply(Now, Answer("pong", <<>>)) \/ r = Reply(Now, Error)
    BY <1>4, <1>7, HandleNothing
  <2>4. r.db = Now /\ ~r.down /\ r.answer.kind # "ok"
    BY <2>3, RefusalIs DEF Reply, Answer
  <2>5. ~IsSet(m) /\ ~IsDel(m) /\ ~IsGet(m)
    BY <2>1 DEF IsSet, IsDel, IsGet
  <2> QED BY <1>1, <1>3, <1>5, <2>4, <2>5 DEF Ignored
<1>9. CASE s = Encode(m) /\ Plain(m)
  <2>1. ParseRESP(s) = m
    BY <1>6, <1>9, ParseEncode
  <2>2. r \in Dispatch(Now, m)
    BY <1>4, <1>6, <2>1, HandleArgs
  <2>3. CASE m[1] = <<"S", "E", "T">>
    <3>1. r \in HandleSet(Now, m) /\ ~IsDel(m) /\ ~IsGet(m)
      BY <2>2, <2>3, NamesDiffer DEF Dispatch, IsDel, IsGet
    <3>2. CASE Len(m) = 3
      BY <1>1, <1>3, <1>5, <1>9, <2>3, <3>1, <3>2 DEF DoesSet, IsSet
    <3>3. CASE Len(m) # 3
      <4>1. r = Reply(Now, Error) /\ ~IsSet(m)
        BY <3>1, <3>3 DEF HandleSet, IsSet
      <4> QED BY <1>1, <1>3, <1>5, <3>1, <4>1, RefusalIs DEF Ignored
    <3> QED BY <3>2, <3>3
  <2>4. CASE m[1] = <<"G", "E", "T">>
    <3>1. r \in HandleGet(Now, m) /\ ~IsDel(m) /\ ~IsSet(m)
      BY <2>2, <2>4, NamesDiffer DEF Dispatch, IsDel, IsSet
    <3>2. CASE Len(m) = 2 /\ m[2] # <<>>
      BY <1>1, <1>3, <1>5, <2>4, <3>1, <3>2 DEF DoesGet, IsGet
    <3>3. CASE ~(Len(m) = 2 /\ m[2] # <<>>)
      <4>1. r = Reply(Now, Error)
        BY <3>1, <3>3 DEF HandleGet
      <4>2. IsGet(m) => m[2] = <<>>
        BY <3>3 DEF IsGet
      <4> QED BY <1>1, <1>3, <1>5, <3>1, <4>1, <4>2, RefusalIs DEF Ignored
    <3> QED BY <3>2, <3>3
  <2>5. CASE m[1] = <<"D", "E", "L">>
    <3>1. r \in HandleDel(Now, m) /\ ~IsGet(m) /\ ~IsSet(m)
      BY <2>2, <2>5, NamesDiffer DEF Dispatch, IsGet, IsSet
    <3>2. CASE Len(m) < 2
      <4>1. r = Reply(Now, Error)
        BY <3>1, <3>2 DEF HandleDel
      <4>2. ~IsDel(m)
        BY <1>6, <3>2 DEF IsDel
      <4> QED BY <1>1, <1>3, <1>5, <3>1, <4>1, <4>2, RefusalIs DEF Ignored
    <3>3. CASE ~(Len(m) < 2)
      <4>1. IsDel(m)
        BY <1>6, <2>5, <3>3 DEF IsDel
      <4> QED BY <1>1, <1>3, <1>5, <1>9, <3>1, <4>1 DEF DoesDel
    <3> QED BY <3>2, <3>3
  <2>6. CASE m[1] \notin {<<"S", "E", "T">>, <<"G", "E", "T">>, <<"D", "E", "L">>}
    <3>1. r = Reply(Now, Error)
      BY <2>2, <2>6 DEF Dispatch
    <3>2. ~IsSet(m) /\ ~IsDel(m) /\ ~IsGet(m)
      BY <2>6 DEF IsSet, IsDel, IsGet
    <3> QED BY <1>1, <1>3, <1>5, <3>1, <3>2, RefusalIs DEF Ignored
  <2> QED BY <2>3, <2>4, <2>5, <2>6
<1> QED BY <1>3, <1>7, <1>9

\* The initial state.
LEMMA InvInit ==
    ASSUME Init
    PROVE  ServerInv
<1>1. TypeInv
  BY TypeInit
<1>2. Quiet
  BY DEF Init, Quiet
<1>3. Backed
  BY EmptyTable DEF Init, Backed
<1>4. Down
  BY DEF Init, Down
<1> QED BY <1>1, <1>2, <1>3, <1>4 DEF ServerInv

\* A request is sent.
LEMMA InvSend ==
    ASSUME ServerInv, NEW c \in Conns, Send(c)
    PROVE  ServerInv'
<1>1. TypeInv /\ Quiet /\ Backed /\ Down /\ TypeInv'
  BY TypeSend DEF ServerInv
<1>2. /\ proc = "up"
      /\ UNCHANGED <<buf, mem_table, cached, proc, misread, acked, erased, recent>>
  BY DEF Send, dbVars, historyVars
<1>3. PICK m \in Requests, bytes \in Seq(Byte) :
         asked' = [asked EXCEPT ![c] = m] /\ wire' = [wire EXCEPT ![c] = @ \o bytes]
  <2>1. \/ \E m \in Commands :
              asked' = [asked EXCEPT ![c] = m] /\ wire' = [wire EXCEPT ![c] = @ \o Encode(m)]
        \/ \E bytes \in Raw :
              asked' = [asked EXCEPT ![c] = <<bytes>>] /\ wire' = [wire EXCEPT ![c] = @ \o bytes]
    BY DEF Send
  <2> QED BY <2>1, SentBytes
<1>4. Quiet'
  <2> SUFFICES ASSUME ~misread', NEW x \in Conns, ~Waits(x)'
               PROVE  buf'[x] = <<>> /\ wire'[x] = <<>>
    BY DEF Quiet
  <2>1. x # c
    BY <1>1, <1>3, RequestFacts DEF Waits, TypeInv
  <2>2. asked'[x] = asked[x] /\ wire'[x] = wire[x] /\ ~misread
    BY <1>1, <1>2, <1>3, <2>1 DEF TypeInv
  <2> QED BY <1>1, <1>2, <2>2 DEF Quiet, Waits
<1>5. Backed'
  BY <1>1, <1>2 DEF Backed
<1>6. Down'
  BY <1>2 DEF Down
<1> QED BY <1>1, <1>4, <1>5, <1>6 DEF ServerInv

\* Bytes arrive.
LEMMA InvArrive ==
    ASSUME ServerInv, NEW c \in Conns, Arrive(c)
    PROVE  ServerInv'
<1>1. TypeInv /\ Quiet /\ Backed /\ Down /\ TypeInv'
  BY TypeArrive DEF ServerInv
<1>2. UNCHANGED <<asked, mem_table, cached, proc, misread, acked, erased, recent>>
  BY DEF Arrive, dbVars, historyVars
<1>3. PICK s \in Prefixes(wire[c]) \ {<<>>} :
         /\ buf' = [buf EXCEPT ![c] = @ \o s]
         /\ wire' = [wire EXCEPT ![c] = SubSeq(@, Len(s) + 1, Len(@))]
  BY DEF Arrive
<1>4. wire[c] # <<>>
  <2> SUFFICES ASSUME wire[c] = <<>> PROVE FALSE
    OBVIOUS
  <2>1. PICK l \in 0 .. Len(<<>>) : s = SubSeq(<<>>, 1, l)
    BY <1>3 DEF Prefixes
  <2>2. l = 0
    BY <2>1
  <2>3. s = <<>>
    BY <2>1, <2>2, SubSeqEmpty
  <2> QED BY <1>3, <2>3
<1>5. \A x \in Conns : x # c => buf'[x] = buf[x] /\ wire'[x] = wire[x]
  BY <1>1, <1>3 DEF TypeInv
<1>6. Quiet'
  <2> SUFFICES ASSUME ~misread', NEW x \in Conns, ~Waits(x)'
               PROVE  buf'[x] = <<>> /\ wire'[x] = <<>>
    BY DEF Quiet
  <2>1. buf[x] = <<>> /\ wire[x] = <<>>
    BY <1>1, <1>2 DEF Quiet, Waits
  <2> QED BY <1>4, <1>5, <2>1
<1>7. Backed'
  BY <1>1, <1>2 DEF Backed
<1>8. Down'
  <2> SUFFICES ASSUME proc' = "down", ~misread'
               PROVE  \E x \in Conns : /\ IsGet(asked'[x])
                                       /\ buf'[x] = <<>> /\ wire'[x] = <<>>
                                       /\ asked'[x][2] \notin recent'
    BY DEF Down
  <2>1. PICK x \in Conns : /\ IsGet(asked[x])
                           /\ buf[x] = <<>> /\ wire[x] = <<>>
                           /\ asked[x][2] \notin recent
    BY <1>1, <1>2 DEF Down
  <2>2. x # c
    BY <1>4, <2>1
  <2> QED BY <1>2, <1>5, <2>1, <2>2
<1> QED BY <1>1, <1>6, <1>7, <1>8 DEF ServerInv

(***************************************************************************)
(* What a callback does to the invariant.                                  *)
(***************************************************************************)

\* What is remembered of a request that names no key to write.
LEMMA RememberNothing ==
    ASSUME NEW m, NEW a, ~IsSet(m), ~IsDel(m), Remember(m, a)
    PROVE  erased' = erased /\ acked' = acked /\ recent' \subseteq recent
  BY DEF Remember

\* GET leaves the tables alone, and answers what they have.
LEMMA GetIs ==
    ASSUME TypeInv, NEW m, NEW r, DoesGet(m, r)
    PROVE  /\ r.db = Now
           /\ r.answer.kind # "ok"
           /\ r.down => m[2] \notin DOMAIN mem_table
           /\ ~r.down => /\ r.answer.kind = "bulk"
                         /\ \/ m[2] \in DOMAIN cached /\ r.answer.val = cached[m[2]]
                            \/ m[2] \in DOMAIN mem_table /\ r.answer.val = mem_table[m[2]]
<1>1. Len(m) = 2 /\ m[2] # <<>> /\ r \in HandleGet(Now, m)
  BY DEF DoesGet, IsGet
<1>2. Now.mem = mem_table /\ Now.cache = cached
  BY NowIs
<1>3. CASE m[2] \in DOMAIN cached
  <2>1. r = Reply(Now, Answer("bulk", cached[m[2]]))
    BY <1>1, <1>2, <1>3 DEF HandleGet
  <2> QED BY <1>3, <2>1 DEF Reply, Answer
<1>4. CASE m[2] \notin DOMAIN cached /\ m[2] \in DOMAIN mem_table
  <2>1. r = Reply(Now, Answer("bulk", mem_table[m[2]]))
    BY <1>1, <1>2, <1>4 DEF HandleGet
  <2> QED BY <1>4, <2>1 DEF Reply, Answer
<1>5. CASE m[2] \notin DOMAIN cached /\ m[2] \notin DOMAIN mem_table
  <2>1. r = [db |-> Now, answer |-> Error, down |-> TRUE]
    BY <1>1, <1>2, <1>5 DEF HandleGet
  <2> QED BY <1>5, <2>1 DEF Error, Answer
<1> QED BY <1>3, <1>4, <1>5

\* GET is none of those that write.
LEMMA GetOnlyReads ==
    ASSUME NEW m, IsGet(m)
    PROVE  ~IsSet(m) /\ ~IsDel(m)
  BY NamesDiffer DEF IsGet, IsSet, IsDel

\* A SET writes the memtable first and is accepted or refused then; one that
\* is accepted may have the memtable flushed.
LEMMA SetBacked ==
    ASSUME TypeInv, Backed, ~misread, NEW m \in Requests, NEW r, DoesSet(m, r),
           mem_table' = r.db.mem, cached' = r.db.cache, ~r.down => Remember(m, r.answer)
    PROVE  ~r.down /\ Backed'
<1>1. Len(m) = 3 /\ m[1] = <<"S", "E", "T">> /\ r \in HandleSet(Now, m) /\ IsSet(m)
  BY DEF DoesSet, IsSet
<1>2. PICK k \in Seq(Byte), v \in Seq(Byte) : k = m[2] /\ v = m[3]
  <2>1. m \in Seq(Seq(Byte))
    BY RequestFacts DEF IsShort
  <2>2. m[2] \in Seq(Byte) /\ m[3] \in Seq(Byte)
    BY <1>1, <2>1, SetArgs
  <2> QED BY <2>2
<1>3. PICK a : a = IF PutSucceeds(k, v) THEN Answer("ok", <<>>) ELSE Error
  OBVIOUS
<1>4. PICK d \in Put(Now, k, v) : r = Reply(d, a)
  BY <1>1, <1>2, <1>3 DEF HandleSet
<1>5. r.db = d /\ r.answer = a /\ ~r.down
  BY <1>4 DEF Reply
<1>6. mem_table' = d.mem /\ cached' = d.cache /\ Remember(m, a)
  BY <1>5
<1>7. Now \in DB /\ Now.mem = mem_table /\ Now.cache = cached
  BY NowIs
<1>8. ~IsDel(m)
  BY <1>1, NamesDiffer DEF IsDel
<1>9. recent' = IF mem_table' = <<>> THEN {} ELSE recent \cup {k}
  BY <1>1, <1>2, <1>6, <1>8 DEF Remember
<1>10. PICK new : new = Set(mem_table, k, v)
  OBVIOUS
<1>11. /\ DOMAIN new = DOMAIN mem_table \cup {k}
       /\ \A x \in DOMAIN mem_table \cup {k} : new[x] = IF x = k THEN v ELSE mem_table[x]
  BY <1>10 DEF Set
<1>12. /\ \A x \in DOMAIN cached : x \in DOMAIN acked /\ cached[x] \in acked[x]
       /\ \A x \in DOMAIN mem_table :
             x # <<>> => \/ x \in DOMAIN acked /\ mem_table[x] \in acked[x]
                         \/ x \in erased /\ mem_table[x] = <<>>
       /\ recent \subseteq DOMAIN mem_table
  BY DEF Backed
<1>13. ASSUME mem_table' = new \/ mem_table' = <<>>
       PROVE  recent' \subseteq DOMAIN mem_table'
  <2>1. CASE mem_table' = <<>>
    BY <1>9, <2>1
  <2>2. CASE mem_table' # <<>> /\ mem_table' = new
    BY <1>9, <1>11, <1>12, <2>2
  <2> QED BY <1>13, <2>1, <2>2
<1>14. CASE PutSucceeds(k, v)
  <2>1. a = Answer("ok", <<>>) /\ a.kind = "ok" /\ a # Error
    <3>1. a = Answer("ok", <<>>)
      BY <1>3, <1>14
    <3>2. a.kind = "ok" /\ Error.kind = "error"
      BY <3>1 DEF Answer, Error
    <3> QED BY <3>1, <3>2
  <2>2. d \in Stored(Now, k, v)
    BY <1>4, <1>14 DEF Put
  <2>3. mem_table' = new \/ mem_table' = <<>>
    BY <1>6, <1>7, <1>10, <2>2, StoredType
  <2>4. cached \in Table /\ cached' \in Inserted(cached, k, v)
    BY <1>6, <1>7, <2>2, StoredType DEF TypeInv
  <2>5. PICK old : old = IF k \in DOMAIN acked THEN acked[k] ELSE {}
    OBVIOUS
  <2>6. acked' = Set(acked, k, old \cup {v})
    BY <1>1, <1>2, <1>6, <2>1, <2>5 DEF Remember
  <2>7. erased' = erased
    BY <1>1, <1>6, <1>8, <2>1 DEF Remember
  <2>8. /\ DOMAIN acked' = DOMAIN acked \cup {k}
        /\ \A x \in DOMAIN acked \cup {k} : acked'[x] = IF x = k THEN old \cup {v} ELSE acked[x]
    BY <2>6 DEF Set
  <2>9. \A x \in DOMAIN acked : acked[x] \subseteq acked'[x] /\ x \in DOMAIN acked'
    BY <2>5, <2>8
  <2>10. k \in DOMAIN acked' /\ v \in acked'[k]
    BY <2>8
  <2>11. ASSUME NEW x \in DOMAIN cached' PROVE x \in DOMAIN acked' /\ cached'[x] \in acked'[x]
    <3>1. PICK g : g = cached'
      OBVIOUS
    <3>2. (x \in DOMAIN cached /\ g[x] = cached[x]) \/ (x = k /\ g[x] = v)
      BY <2>4, <2>11, <3>1, InsertedType
    <3> QED BY <1>12, <2>9, <2>10, <3>1, <3>2
  <2>12. ASSUME NEW x \in DOMAIN mem_table', x # <<>>
        PROVE  \/ x \in DOMAIN acked' /\ mem_table'[x] \in acked'[x]
               \/ x \in erased' /\ mem_table'[x] = <<>>
    <3>1. mem_table' = new
      BY <2>3, <2>12, EmptyTable
    <3>2. CASE x = k
      BY <1>11, <2>10, <3>1, <3>2
    <3>3. CASE x # k
      BY <1>11, <1>12, <2>7, <2>9, <2>12, <3>1, <3>3
    <3> QED BY <3>2, <3>3
  <2> QED BY <1>5, <1>13, <2>3, <2>11, <2>12 DEF Backed
<1>15. CASE ~PutSucceeds(k, v)
  <2>1. a = Error /\ a.kind # "ok" /\ (k = <<>> \/ v = <<>>)
    <3>1. a = Error
      BY <1>3, <1>15
    <3> QED BY <1>15, <3>1 DEF PutSucceeds, Error, Answer
  <2>2. d = Written(Now, k, v)
    BY <1>4, <1>15 DEF Put
  <2>3. mem_table' = new /\ cached' = cached
    BY <1>6, <1>7, <1>10, <2>2, WrittenType
  <2>4. acked' = acked
    BY <1>6, <2>1 DEF Remember
  <2>5. erased' = erased \cup {k}
    BY <1>1, <1>2, <1>6, <1>8, <2>1 DEF Remember
  <2>6. ASSUME NEW x \in DOMAIN mem_table', x # <<>>
        PROVE  \/ x \in DOMAIN acked' /\ mem_table'[x] \in acked'[x]
               \/ x \in erased' /\ mem_table'[x] = <<>>
    <3>1. CASE x = k
      BY <1>11, <2>1, <2>3, <2>5, <2>6, <3>1
    <3>2. CASE x # k
      BY <1>11, <1>12, <2>3, <2>4, <2>5, <2>6, <3>2
    <3> QED BY <3>1, <3>2
  <2> QED BY <1>5, <1>12, <1>13, <2>3, <2>4, <2>6 DEF Backed
<1> QED BY <1>14, <1>15

\* A DEL writes the empty value under each of its keys.
LEMMA DelBacked ==
    ASSUME TypeInv, Backed, ~misread, NEW m \in Requests, NEW r, DoesDel(m, r),
           mem_table' = r.db.mem, cached' = r.db.cache, ~r.down => Remember(m, r.answer)
    PROVE  ~r.down /\ Backed'
<1>1. Len(m) >= 2 /\ m[1] = <<"D", "E", "L">> /\ r \in HandleDel(Now, m) /\ IsDel(m)
  BY DEF DoesDel, IsDel
<1>2. m \in Seq(Seq(Byte)) /\ m # <<>> /\ Len(m) \in Nat
  BY RequestFacts DEF IsShort
<1>3. PICK t \in Seq(Seq(Byte)) : t = Tail(m)
  BY <1>2, HeadTailProperties
<1>4. PICK d : d = Erase(Now, t)
  OBVIOUS
<1>5. /\ d.cache = cached
      /\ DOMAIN d.mem = DOMAIN mem_table \cup ToSet(t)
      /\ \A x \in DOMAIN d.mem : d.mem[x] = IF x \in ToSet(t) THEN <<>> ELSE mem_table[x]
  <2>1. IsErased(d, Now, ToSet(t))
    BY <1>4, NowIs, EraseIs
  <2> QED BY <2>1, NowIs DEF IsErased
<1>6. PICK a, n : r = Reply(d, a) /\ a = Answer("int", n)
  <2>1. ~(Len(m) < 2)
    BY <1>1, <1>2
  <2> QED BY <1>1, <1>3, <1>4, <2>1 DEF HandleDel, Erase
<1>7. r.db = d /\ r.answer = a /\ ~r.down /\ a.kind # "ok"
  BY <1>6 DEF Reply, Answer
<1>8. mem_table' = d.mem /\ cached' = cached /\ Remember(m, a)
  BY <1>5, <1>7
<1>9. acked' = acked
  BY <1>7, <1>8 DEF Remember
<1>10. /\ erased' = erased \cup ToSet(t)
       /\ recent' \subseteq recent \cup ToSet(t)
  BY <1>1, <1>3, <1>8 DEF Remember
<1>11. /\ \A x \in DOMAIN cached : x \in DOMAIN acked /\ cached[x] \in acked[x]
       /\ \A x \in DOMAIN mem_table :
             x # <<>> => \/ x \in DOMAIN acked /\ mem_table[x] \in acked[x]
                         \/ x \in erased /\ mem_table[x] = <<>>
       /\ recent \subseteq DOMAIN mem_table
  BY DEF Backed
<1>12. ASSUME NEW x \in DOMAIN mem_table', x # <<>>
       PROVE  \/ x \in DOMAIN acked' /\ mem_table'[x] \in acked'[x]
              \/ x \in erased' /\ mem_table'[x] = <<>>
  <2>1. CASE x \in ToSet(t)
    BY <1>5, <1>8, <1>10, <2>1
  <2>2. CASE x \notin ToSet(t)
    BY <1>5, <1>8, <1>9, <1>10, <1>11, <1>12, <2>2
  <2> QED BY <2>1, <2>2
<1>13. recent' \subseteq DOMAIN mem_table'
  BY <1>5, <1>8, <1>10, <1>11
<1> QED BY <1>7, <1>8, <1>9, <1>11, <1>12, <1>13 DEF Backed

\* onMessage keeps the invariant.
LEMMA InvOnMessage ==
    ASSUME ServerInv, NEW c \in Conns, OnMessage(c)
    PROVE  ServerInv'
<1>1. TypeInv /\ Quiet /\ Backed /\ Down /\ TypeInv'
  BY TypeOnMessage DEF ServerInv
<1>2. CASE misread'
  BY <1>1, <1>2 DEF ServerInv, Quiet, Backed, Down
<1>3. CASE ~misread'
  <2>1. PICK r : IsHandled(c, r)
    BY OnMessageIs
  <2>2. PICK m : m = asked[c]
    OBVIOUS
  <2>3. /\ ~misread /\ wire[c] = <<>> /\ m \in Requests
        /\ Ignored(m, r) \/ DoesSet(m, r) \/ DoesGet(m, r) \/ DoesDel(m, r)
    BY <1>1, <1>3, <2>1, <2>2, Outcomes
  <2>4. /\ proc = "up"
        /\ buf' = [buf EXCEPT ![c] = <<>>] /\ wire' = wire
        /\ mem_table' = r.db.mem /\ cached' = r.db.cache
        /\ r.down => /\ proc' = "down" /\ asked' = asked
                     /\ acked' = acked /\ erased' = erased /\ recent' = recent
        /\ ~r.down => /\ proc' = proc
                      /\ asked' = [asked EXCEPT ![c] = NoCommand]
                      /\ Remember(m, r.answer)
    BY <2>1, <2>2 DEF IsHandled, Sent
  <2>5. Quiet'
    <3> SUFFICES ASSUME NEW x \in Conns, ~Waits(x)'
                 PROVE  buf'[x] = <<>> /\ wire'[x] = <<>>
      BY DEF Quiet
    <3>1. CASE x = c
      BY <1>1, <2>3, <2>4, <3>1 DEF TypeInv
    <3>2. CASE x # c
      <4>1. asked'[x] = asked[x] /\ buf'[x] = buf[x] /\ wire'[x] = wire[x]
        BY <1>1, <2>4, <3>2 DEF TypeInv
      <4> QED BY <1>1, <2>3, <4>1 DEF Quiet, Waits
    <3> QED BY <3>1, <3>2
  <2>6. CASE Ignored(m, r)
    <3>1. r.db = Now /\ ~r.down /\ ~IsSet(m) /\ ~IsDel(m)
      BY <2>6 DEF Ignored
    <3>2. erased' = erased /\ acked' = acked /\ recent' \subseteq recent
      BY <2>4, <3>1, RememberNothing
    <3>3. mem_table' = mem_table /\ cached' = cached
      BY <1>1, <2>4, <3>1, NowIs
    <3>4. Backed'
      BY <1>1, <2>3, <3>2, <3>3 DEF Backed
    <3>5. Down'
      BY <2>4, <3>1 DEF Down
    <3> QED BY <1>1, <2>5, <3>4, <3>5 DEF ServerInv
  <2>7. CASE DoesSet(m, r) \/ DoesDel(m, r)
    <3>1. ~r.down /\ Backed'
      BY <1>1, <2>3, <2>4, <2>7, SetBacked, DelBacked
    <3>2. Down'
      BY <2>4, <3>1 DEF Down
    <3> QED BY <1>1, <2>5, <3>1, <3>2 DEF ServerInv
  <2>8. CASE DoesGet(m, r)
    <3>1. /\ r.db = Now /\ r.answer.kind # "ok"
          /\ r.down => m[2] \notin DOMAIN mem_table
      BY <1>1, <2>8, GetIs
    <3>2. IsGet(m)
      BY <2>8 DEF DoesGet
    <3>3. erased' = erased /\ acked' = acked /\ recent' \subseteq recent
      BY <2>4, <3>2, GetOnlyReads, RememberNothing
    <3>4. mem_table' = mem_table /\ cached' = cached
      BY <1>1, <2>4, <3>1, NowIs
    <3>5. Backed'
      BY <1>1, <2>3, <3>3, <3>4 DEF Backed
    <3>6. Down'
      <4> SUFFICES ASSUME proc' = "down"
                   PROVE  \E x \in Conns : /\ IsGet(asked'[x])
                                           /\ buf'[x] = <<>> /\ wire'[x] = <<>>
                                           /\ asked'[x][2] \notin recent'
        BY DEF Down
      <4>1. r.down
        BY <2>4
      <4>2. m[2] \notin recent
        BY <1>1, <2>3, <3>1, <4>1 DEF Backed
      <4>3. asked'[c] = m /\ buf'[c] = <<>> /\ wire'[c] = <<>>
        BY <1>1, <2>2, <2>3, <2>4, <4>1 DEF TypeInv
      <4> QED BY <3>2, <3>3, <4>2, <4>3
    <3> QED BY <1>1, <2>5, <3>5, <3>6 DEF ServerInv
  <2> QED BY <2>3, <2>6, <2>7, <2>8
<1> QED BY <1>2, <1>3

\* Every step keeps it.
LEMMA InvStep ==
    ASSUME ServerInv, [Next]_vars
    PROVE  ServerInv'
<1>1. CASE UNCHANGED vars
  <2>1. TypeInv'
    BY TypeStep DEF ServerInv
  <2>2. UNCHANGED <<wire, buf, asked, mem_table, cached, proc, misread, acked, erased, recent>>
    BY <1>1 DEF vars, dbVars, historyVars
  <2> QED BY <2>1, <2>2 DEF ServerInv, Quiet, Backed, Down, Waits
<1>2. CASE Next
  BY <1>2, InvSend, InvArrive, InvOnMessage DEF Next
<1> QED BY <1>1, <1>2

\* The invariant, for any number of clients and any way TCP cuts what they
\* send.
LEMMA InvHolds == Spec => []ServerInv
<1>1. Init => ServerInv
  BY InvInit
<1>2. ServerInv /\ [Next]_vars => ServerInv'
  BY InvStep
<1> QED BY <1>1, <1>2, PTL DEF Spec

\* As long as every request arrives in one piece and can be read, the
\* process goes down only for a GET of a key that nobody has named in a SET
\* or a DEL, accepted or refused, since the memtable was last flushed.
THEOREM ServerKnowsRecentKeys == Spec => []RecentKeysAnswered
<1>1. ServerInv => RecentKeysAnswered
  BY DEF ServerInv, Down, RecentKeysAnswered
<1> QED BY <1>1, InvHolds, PTL

\* As long as every request arrives in one piece and can be read, a GET
\* that is answered answers a value the key was SET to by some client,
\* whatever was flushed or evicted since, or the empty value of an erased
\* key.
THEOREM ServerAnswersSets == Spec => GetsAnswerSets
<1> DEFINE Step == \A c \in Conns :
              IsGet(asked[c]) /\ ~Waits(c)' /\ ~misread' /\ asked[c][2] # <<>> =>
                  LET k == asked[c][2] IN
                  /\ answer'[c].kind = "bulk"
                  /\ answer'[c].val \in (IF k \in DOMAIN acked THEN acked[k] ELSE {})
                                          \cup (IF k \in erased THEN {<<>>} ELSE {})
<1>1. ASSUME ServerInv, [Next]_vars PROVE [Step]_vars
  <2> SUFFICES ASSUME Next, NEW c \in Conns,
                      IsGet(asked[c]), ~Waits(c)', ~misread', asked[c][2] # <<>>
               PROVE  /\ answer'[c].kind = "bulk"
                      /\ answer'[c].val \in
                            (IF asked[c][2] \in DOMAIN acked THEN acked[asked[c][2]] ELSE {})
                              \cup (IF asked[c][2] \in erased THEN {<<>>} ELSE {})
    BY <1>1
  <2>1. TypeInv /\ Quiet /\ Backed
    BY <1>1 DEF ServerInv
  <2>2. asked[c] # <<>> /\ asked'[c] = <<>>
    <3>1. Len(asked[c]) = 2
      BY DEF IsGet
    <3>2. Len(<<>>) = 0
      OBVIOUS
    <3> QED BY <3>1, <3>2 DEF Waits, NoCommand
  <2>3. OnMessage(c)
    <3>1. PICK x \in Conns : Send(x) \/ Arrive(x) \/ OnMessage(x)
      BY DEF Next
    <3>2. CASE Arrive(x)
      BY <2>2, <3>2 DEF Arrive
    <3>3. CASE Send(x)
      <4>1. x # c
        BY <2>2, <3>3 DEF Send, Waits, NoCommand
      <4>2. \E m : asked' = [asked EXCEPT ![x] = m]
        BY <3>3 DEF Send
      <4> QED BY <2>1, <2>2, <4>1, <4>2 DEF TypeInv
    <3>4. CASE OnMessage(x) /\ x # c
      <4>1. PICK r : IsHandled(x, r)
        BY <3>4, OnMessageIs
      <4>2. asked' = asked \/ asked' = [asked EXCEPT ![x] = NoCommand]
        BY <4>1 DEF IsHandled, Sent
      <4> QED BY <2>1, <2>2, <3>4, <4>2 DEF TypeInv
    <3> QED BY <3>1, <3>2, <3>3, <3>4
  <2>4. PICK r : IsHandled(c, r)
    BY <2>3, OnMessageIs
  <2>5. PICK m : m = asked[c]
    OBVIOUS
  <2>6. /\ ~misread
        /\ Ignored(m, r) \/ DoesSet(m, r) \/ DoesGet(m, r) \/ DoesDel(m, r)
    BY <2>1, <2>3, <2>4, <2>5, Outcomes
  <2>7. DoesGet(m, r)
    <3>1. ~IsSet(m) /\ ~IsDel(m) /\ IsGet(m) /\ m[2] # <<>>
      BY <2>5, NamesDiffer DEF IsGet, IsSet, IsDel
    <3> QED BY <2>6, <3>1 DEF Ignored, DoesSet, DoesDel
  <2>8. ~r.down /\ Sent(c, r.answer)
    BY <2>2, <2>4 DEF IsHandled
  <2>9. answer'[c] = r.answer
    BY <2>1, <2>8 DEF Sent, TypeInv
  <2>10. /\ r.answer.kind = "bulk"
         /\ \/ m[2] \in DOMAIN cached /\ r.answer.val = cached[m[2]]
            \/ m[2] \in DOMAIN mem_table /\ r.answer.val = mem_table[m[2]]
    BY <2>1, <2>7, <2>8, GetIs
  <2>11. /\ \A x \in DOMAIN cached : x \in DOMAIN acked /\ cached[x] \in acked[x]
         /\ \A x \in DOMAIN mem_table :
               x # <<>> => \/ x \in DOMAIN acked /\ mem_table[x] \in acked[x]
                           \/ x \in erased /\ mem_table[x] = <<>>
    BY <2>1, <2>6 DEF Backed
  <2>12. \/ m[2] \in DOMAIN acked /\ r.answer.val \in acked[m[2]]
         \/ m[2] \in erased /\ r.answer.val = <<>>
    BY <2>5, <2>10, <2>11
  <2> QED BY <2>5, <2>9, <2>10, <2>12
<1>2. GetsAnswerSets <=> [][Step]_vars
  BY DEF GetsAnswerSets
<1> QED BY <1>1, <1>2, InvHolds, PTL DEF Spec
=============================================================================
