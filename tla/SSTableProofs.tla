---------------------------- MODULE SSTableProofs ----------------------------
(***************************************************************************)
(* What holds of every .sst file, for every set of keys and values, every  *)
(* hash, block size, restart interval and size of the filter: the types,   *)
(* that the footer says where everything is, that the filter in the file   *)
(* has no false negatives, and that Parse finds the blocks.                *)
(***************************************************************************)
EXTENDS SSTable, ListLemmas

(***************************************************************************)
(* The codec.                                                              *)
(***************************************************************************)

\* Four elements.
LEMMA QuadProperties ==
    ASSUME NEW S, NEW a \in S, NEW b \in S, NEW c \in S, NEW d \in S, NEW s, s = <<a, b, c, d>>
    PROVE  s \in Seq(S) /\ Len(s) = 4 /\ s[1] = a /\ s[2] = b /\ s[3] = c /\ s[4] = d
  OBVIOUS

\* An int is written as four bytes.
LEMMA EncodeProperties ==
    ASSUME NEW n \in Int
    PROVE  /\ EncodeFixed32(n) \in Seq(Byte)
           /\ Len(EncodeFixed32(n)) = 4
           /\ EncodeFixed32(n)[1] = n % 256
           /\ EncodeFixed32(n)[2] = (n \div 256) % 256
           /\ EncodeFixed32(n)[3] = (n \div 65536) % 256
           /\ EncodeFixed32(n)[4] = (n \div 16777216) % 256
<1>1. /\ n % 256 \in Byte
      /\ (n \div 256) % 256 \in Byte
      /\ (n \div 65536) % 256 \in Byte
      /\ (n \div 16777216) % 256 \in Byte
  BY DEF Byte
<1>2. EncodeFixed32(n) = <<n % 256, (n \div 256) % 256, (n \div 65536) % 256, (n \div 16777216) % 256>>
  BY DEF EncodeFixed32
<1> QED BY <1>1, <1>2, QuadProperties

\* Only that.
LEMMA EncodeType ==
    ASSUME NEW n \in Int
    PROVE  EncodeFixed32(n) \in Seq(Byte) /\ Len(EncodeFixed32(n)) = 4
  BY EncodeProperties, SMT

\* The numbers an int has for offsets and sizes.
Sizes == {n \in Nat : n < 2147483648}

\* A number below 2^31 is read back as it was written.
LEMMA DecodeEncoded ==
    ASSUME NEW n \in Sizes, NEW s, NEW i \in Nat,
           \A j \in 1 .. 4 : s[i + j] = EncodeFixed32(n)[j]
    PROVE  DecodeFixed32(s, i) = n
<1>1. n \in Int
  BY SMT DEF Sizes
<1>2. /\ s[i + 1] = n % 256
      /\ s[i + 2] = (n \div 256) % 256
      /\ s[i + 3] = (n \div 65536) % 256
      /\ s[i + 4] = (n \div 16777216) % 256
  BY <1>1, EncodeProperties, SMT
<1>3. /\ n = (n % 256) + 256 * ((n \div 256) % 256) + 65536 * ((n \div 65536) % 256)
                 + 16777216 * ((n \div 16777216) % 256)
      /\ (n \div 16777216) % 256 < 128
  BY SMT DEF Sizes
<1>4. PICK b1 \in Int, b2 \in Int, b3 \in Int, b4 \in Int :
         /\ b1 = n % 256
         /\ b2 = (n \div 256) % 256
         /\ b3 = (n \div 65536) % 256
         /\ b4 = (n \div 16777216) % 256
  BY <1>1, SMT
<1>5. n = b1 + 256 * b2 + 65536 * b3 + 16777216 * b4 /\ b4 < 128
  BY <1>3, <1>4, SMT
<1>6. s[i + 1] = b1 /\ s[i + 2] = b2 /\ s[i + 3] = b3 /\ s[i + 4] = b4
  BY <1>2, <1>4, SMT
<1>7. DecodeFixed32(s, i) = b1 + 256 * b2 + 65536 * b3 + 16777216 * b4
  BY <1>5, <1>6, SMT DEF DecodeFixed32
<1> QED BY <1>5, <1>7, SMT

\* An OffsetInfo takes eight bytes.
LEMMA OffsetInfoProperties ==
    ASSUME NEW size \in Int, NEW offset \in Int
    PROVE  /\ OffsetInfo(size, offset) \in Seq(Byte)
           /\ Len(OffsetInfo(size, offset)) = 8
           /\ \A j \in 1 .. 4 : OffsetInfo(size, offset)[j] = EncodeFixed32(size)[j]
           /\ \A j \in 1 .. 4 : OffsetInfo(size, offset)[4 + j] = EncodeFixed32(offset)[j]
<1>1. PICK a \in Seq(Byte), b \in Seq(Byte) :
         a = EncodeFixed32(size) /\ b = EncodeFixed32(offset) /\ Len(a) = 4 /\ Len(b) = 4
  BY EncodeProperties
<1>2. PICK s : s = a \o b
  OBVIOUS
<1>3. s \in Seq(Byte) /\ Len(s) = 8 /\ \A j \in 1 .. 8 : s[j] = IF j <= 4 THEN a[j] ELSE b[j - 4]
  <2>1. /\ a \o b \in Seq(Byte)
        /\ Len(a \o b) = Len(a) + Len(b)
        /\ \A j \in 1 .. Len(a) + Len(b) : (a \o b)[j] = IF j <= Len(a) THEN a[j] ELSE b[j - Len(a)]
    BY ConcatProperties
  <2> QED BY <1>1, <1>2, <2>1
<1>4. \A j \in 1 .. 4 : s[j] = a[j] /\ s[4 + j] = b[j]
  <2> SUFFICES ASSUME NEW j \in 1 .. 4 PROVE s[j] = a[j] /\ s[4 + j] = b[j]
    OBVIOUS
  <2>1. j \in 1 .. 8 /\ 4 + j \in 1 .. 8 /\ ~(4 + j <= 4) /\ (4 + j) - 4 = j
    OBVIOUS
  <2> QED BY <1>3, <2>1
<1>5. OffsetInfo(size, offset) = s
  BY <1>1, <1>2 DEF OffsetInfo
<1> QED BY <1>1, <1>3, <1>4, <1>5

(***************************************************************************)
(* What the builders of the parts write is bytes.                          *)
(***************************************************************************)

\* The parts behind each other.
LEMMA TwoParts ==
    ASSUME NEW S, NEW a \in Seq(S), NEW b \in Seq(S)
    PROVE  /\ a \o b \in Seq(S)
           /\ Len(a \o b) = Len(a) + Len(b)
           /\ \A j \in 1 .. Len(a) : (a \o b)[j] = a[j]
           /\ \A j \in 1 .. Len(b) : (a \o b)[Len(a) + j] = b[j]
<1>1. PICK m \in Nat, n \in Nat : m = Len(a) /\ n = Len(b)
  BY LenProperties
<1>2. PICK s : s = a \o b
  OBVIOUS
<1>3. s \in Seq(S) /\ Len(s) = m + n /\ \A j \in 1 .. m + n : s[j] = IF j <= m THEN a[j] ELSE b[j - m]
  BY <1>1, <1>2, ConcatProperties
<1>4. ASSUME NEW j \in 1 .. m PROVE s[j] = a[j]
  <2>1. j \in 1 .. m + n /\ j <= m
    OBVIOUS
  <2> QED BY <1>3, <2>1
<1>5. ASSUME NEW j \in 1 .. n PROVE s[m + j] = b[j]
  <2>1. m + j \in 1 .. m + n /\ ~(m + j <= m) /\ (m + j) - m = j
    OBVIOUS
  <2> QED BY <1>3, <2>1
<1> QED BY <1>1, <1>2, <1>3, <1>4, <1>5

\* calc_shared_size counts bytes of the key it is given.
LEMMA SharedKeyLenType ==
    ASSUME NEW key \in Seq(Byte), NEW prev \in Seq(Byte)
    PROVE  SharedKeyLen(key, prev) \in 0 .. Len(key)
<1> DEFINE C == CommonPrefixes({key, prev})
           Longest(p) == \A other \in C : Len(other) <= Len(p)
           Lens == {Len(p) : p \in C}
<1>1. <<>> \in C
  <2>1. /\ <<>> \in Prefixes(key)
        /\ Len(<<>>) = 0
    BY DEF Prefixes
  <2>2. ASSUME NEW t \in Seq(Byte) PROVE IsPrefix(<<>>, t)
    BY DEF IsPrefix
  <2> QED BY <2>1, <2>2 DEF CommonPrefixes
<1>2. ASSUME NEW p \in C PROVE Len(p) \in 0 .. Len(key)
  <2>1. IsPrefix(p, key)
    BY DEF CommonPrefixes
  <2>2. p \in Prefixes(key) \/ p \in Prefixes(prev)
    BY DEF CommonPrefixes
  <2>3. p \in Seq(Byte)
    BY <2>2 DEF Prefixes
  <2>4. Len(p) \in Nat /\ Len(key) \in Nat /\ Len(p) <= Len(key)
    BY <2>1, <2>3, LenProperties DEF IsPrefix
  <2> QED BY <2>4
<1> HIDE DEF C
<1>3. \E p \in C : Longest(p)
  <2>1. PICK b \in Nat : b = Len(key)
    BY LenProperties
  <2>2. Lens \in SUBSET (0 .. (b + 1) - 1) /\ Lens # {} /\ b + 1 \in Nat
    <3>1. Len(<<>>) \in Lens
      BY <1>1
    <3>2. ASSUME NEW x \in Lens PROVE x \in 0 .. (b + 1) - 1
      <4>1. PICK p \in C : x = Len(p)
        OBVIOUS
      <4>2. x \in 0 .. b /\ (b + 1) - 1 = b
        BY <1>2, <2>1, <4>1
      <4> QED BY <4>2
    <3> HIDE DEF Lens
    <3> QED BY <3>1, <3>2
  <2>3. PICK m \in Lens : \A x \in Lens : x <= m
    <3> HIDE DEF Lens
    <3> QED BY <2>2, LargestNatural
  <2>4. PICK p \in C : m = Len(p)
    OBVIOUS
  <2>5. ASSUME NEW other \in C PROVE Len(other) <= Len(p)
    BY <2>3, <2>4
  <2> QED BY <2>5
<1>4. LongestCommonPrefix({key, prev}) = CHOOSE p \in C : Longest(p)
  BY DEF LongestCommonPrefix, C
<1>5. (CHOOSE p \in C : Longest(p)) \in C
  <2> HIDE DEF Longest
  <2> QED BY <1>3
<1> QED BY <1>2, <1>4, <1>5 DEF SharedKeyLen

\* A record is three ints, the part of the key that is not shared, and the
\* value.
LEMMA RecordType ==
    ASSUME NEW key \in Seq(Byte), NEW value \in Seq(Byte), NEW shared \in 0 .. Len(key)
    PROVE  Record(shared, key, value) \in Seq(Byte)
<1>1. PICK n \in Nat, m \in Nat : n = Len(key) /\ m = Len(value)
  BY LenProperties
<1>2. shared \in Int /\ n - shared \in Int /\ m \in Int
  BY <1>1
<1>3. /\ EncodeFixed32(shared) \in Seq(Byte)
      /\ EncodeFixed32(Len(key) - shared) \in Seq(Byte)
      /\ EncodeFixed32(Len(value)) \in Seq(Byte)
  BY <1>1, <1>2, EncodeProperties
<1>4. SubSeq(key, shared + 1, Len(key)) \in Seq(Byte)
  <2>1. \A i \in shared + 1 .. n : key[i] \in Byte
    BY <1>1, ElementOfSeq
  <2>2. shared + 1 \in Int /\ n \in Int
    OBVIOUS
  <2> QED BY <1>1, <2>1, <2>2, SubSeqProperties
<1>5. PICK a \in Seq(Byte) : a = EncodeFixed32(shared) \o EncodeFixed32(Len(key) - shared)
  BY <1>3, ConcatProperties
<1>6. PICK b \in Seq(Byte) : b = a \o EncodeFixed32(Len(value))
  BY <1>3, ConcatProperties
<1>7. PICK c \in Seq(Byte) : c = b \o SubSeq(key, shared + 1, Len(key))
  BY <1>4, ConcatProperties
<1>8. c \o value \in Seq(Byte)
  BY ConcatProperties
<1> QED BY <1>5, <1>6, <1>7, <1>8 DEF Record

\* What the type invariant says of a block under construction.
BlockType(b) ==
    /\ b.data \in Seq(Byte)
    /\ b.groups \in Seq(0 .. Len(b.data))
    /\ b.pre_key \in Keys \cup {<<>>}
    /\ b.record_num \in Nat

\* Keys and values are bytes.
LEMMA KeyBytes ==
    /\ \A key \in Keys \cup {<<>>} : key \in Seq(Byte)
    /\ \A val \in Values : val \in Seq(Byte)
<1>1. Keys \subseteq Seq(Byte) \ {<<>>} /\ Values \subseteq Seq(Byte)
  BY TableAssumption
<1>2. <<>> \in Seq(Byte)
  BY EmptySeq
<1> QED BY <1>1, <1>2, Zenon

\* DataBlockBuilder::add keeps the types.
LEMMA DataBlockAddType ==
    ASSUME NEW b, BlockType(b), NEW key \in Keys, NEW val \in Values
    PROVE  /\ BlockType(DataBlockAdd(b, key, val))
           /\ DataBlockAdd(b, key, val).pre_key = key
<1> DEFINE first == b.record_num % RESTART_INTERVAL = 0
<1>1. PICK shared : shared = IF first THEN 0 ELSE SharedKeyLen(key, b.pre_key)
  OBVIOUS
<1>2. key \in Seq(Byte) /\ val \in Seq(Byte) /\ b.pre_key \in Seq(Byte)
  BY KeyBytes DEF BlockType
<1>3. shared \in 0 .. Len(key)
  <2>1. Len(key) \in Nat
    BY <1>2, LenProperties
  <2> QED BY <1>1, <1>2, <2>1, SharedKeyLenType
<1>4. PICK r \in Seq(Byte) : r = Record(shared, key, val)
  BY <1>2, <1>3, RecordType
<1>5. PICK d \in Seq(Byte) : d = b.data /\ b.groups \in Seq(0 .. Len(d)) /\ b.record_num \in Nat
  BY DEF BlockType
<1>6. PICK g : g = IF first THEN Append(b.groups, Len(d)) ELSE b.groups
  OBVIOUS
<1>7. PICK c : c = [data |-> d \o r, groups |-> g, pre_key |-> key, record_num |-> b.record_num + 1]
  OBVIOUS
<1>8. DataBlockAdd(b, key, val) = c
  BY <1>1, <1>4, <1>5, <1>6, <1>7, Zenon DEF DataBlockAdd
<1>9. c.data = d \o r /\ c.groups = g /\ c.pre_key = key /\ c.record_num = b.record_num + 1
  BY <1>7
<1>10. d \o r \in Seq(Byte)
  BY ConcatProperties
<1>11. g \in Seq(0 .. Len(d \o r))
  <2>1. PICK m \in Nat, n \in Nat : m = Len(d) /\ n = Len(r)
    BY LenProperties
  <2>2. Len(d \o r) = m + n
    BY <2>1, ConcatProperties
  <2>3. (0 .. m) \subseteq (0 .. m + n) /\ m \in 0 .. m + n
    OBVIOUS
  <2>4. b.groups \in Seq(0 .. m)
    BY <1>5, <2>1
  <2>5. b.groups \in Seq(0 .. m + n)
    BY <2>3, <2>4, SeqMonotonic
  <2>6. Append(b.groups, m) \in Seq(0 .. m + n)
    BY <2>3, <2>5, AppendProperties
  <2>7. g \in Seq(0 .. m + n)
    BY <1>6, <2>1, <2>5, <2>6
  <2> QED BY <2>2, <2>7
<1>12. b.record_num + 1 \in Nat
  BY <1>5
<1> QED BY <1>8, <1>9, <1>10, <1>11, <1>12 DEF BlockType

\* A restart point is an int and an OffsetInfo.
LEMMA RestartPointType ==
    ASSUME NEW b, BlockType(b), NEW i \in 1 .. Len(b.groups)
    PROVE  RestartPoint(b, i) \in Seq(Byte)
<1>1. PICK d \in Nat : d = Len(b.data)
  BY LenProperties DEF BlockType
<1>2. PICK n \in Nat : n = Len(b.groups)
  BY LenProperties DEF BlockType
<1>3. \A j \in 1 .. n : b.groups[j] \in 0 .. d
  BY <1>1, <1>2, ElementOfSeq DEF BlockType
<1>5. PICK end \in Int : end = IF i = n THEN d ELSE b.groups[i + 1]
  <2>1. CASE i = n
    BY <2>1
  <2>2. CASE i # n
    <3>1. i + 1 \in 1 .. n
      BY <1>2, <2>2
    <3> QED BY <1>3, <2>2, <3>1
  <2> QED BY <2>1, <2>2
<1>6. PICK at \in Int : at = b.groups[i]
  BY <1>2, <1>3
<1>7. PICK num \in Int : num = IF i = n THEN b.record_num % RESTART_INTERVAL ELSE RESTART_INTERVAL
  <2>1. b.record_num % RESTART_INTERVAL \in Int /\ RESTART_INTERVAL \in Int
    BY TableAssumption DEF BlockType
  <2> QED BY <2>1
<1>8. PICK size \in Int : size = end - at
  OBVIOUS
<1>9. RestartPoint(b, i) = EncodeFixed32(num) \o OffsetInfo(size, at)
  BY <1>1, <1>2, <1>5, <1>6, <1>7, <1>8, Zenon DEF RestartPoint
<1>10. EncodeFixed32(num) \in Seq(Byte)
  BY EncodeProperties
<1>11. OffsetInfo(size, at) \in Seq(Byte)
  BY OffsetInfoProperties
<1> QED BY <1>9, <1>10, <1>11, ConcatProperties

\* A block is its records, its restart points and their number.
LEMMA FinishDataBlockType ==
    ASSUME NEW b, BlockType(b)
    PROVE  FinishDataBlock(b) \in Seq(Byte)
<1>1. PICK n \in Nat : n = Len(b.groups)
  BY LenProperties DEF BlockType
<1>2. PICK ps : ps = [i \in 1 .. n |-> RestartPoint(b, i)]
  OBVIOUS
<1>3. ps \in Seq(Seq(Byte)) /\ Len(ps) = n
  <2>1. \A i \in 1 .. n : RestartPoint(b, i) \in Seq(Byte)
    BY <1>1, RestartPointType
  <2> QED BY <1>2, <2>1
<1>4. FlattenSeq(ps) \in Seq(Byte)
  <2>1. CASE ps = <<>>
    BY <2>1 DEF FlattenSeq
  <2>2. CASE ps # <<>>
    BY <1>3, <2>2, FlattenLayout
  <2> QED BY <2>1, <2>2
<1>5. PICK m \in Int : m = (2 * b.record_num - 1) \div (2 * RESTART_INTERVAL) + 1
  BY TableAssumption DEF BlockType
<1>6. EncodeFixed32(m) \in Seq(Byte)
  BY EncodeProperties
<1>7. b.data \o FlattenSeq(ps) \in Seq(Byte)
  BY <1>4, ConcatProperties DEF BlockType
<1>8. (b.data \o FlattenSeq(ps)) \o EncodeFixed32(m) \in Seq(Byte)
  BY <1>6, <1>7, ConcatProperties
<1> QED BY <1>1, <1>2, <1>5, <1>8, Zenon DEF FinishDataBlock

(***************************************************************************)
(* The filter.                                                             *)
(***************************************************************************)

\* The eight bits of a byte.
Bits == 0 .. 7
Weight(b) == 2 ^ b
Sum(S) == MapThenSumSet(LAMBDA b : 2 ^ b, S)

\* What they stand for.
LEMMA WeightOf ==
    /\ Weight(0) = 1 /\ Weight(1) = 2 /\ Weight(2) = 4 /\ Weight(3) = 8
    /\ Weight(4) = 16 /\ Weight(5) = 32 /\ Weight(6) = 64 /\ Weight(7) = 128
  BY DEF Weight

\* One of eight.
LEMMA EightBits ==
    ASSUME NEW b \in Bits
    PROVE  b = 0 \/ b = 1 \/ b = 2 \/ b = 3 \/ b = 4 \/ b = 5 \/ b = 6 \/ b = 7
  BY DEF Bits

\* A bit stands for a number above 0.
LEMMA WeightType ==
    ASSUME NEW b \in Bits
    PROVE  Weight(b) \in Nat /\ Weight(b) > 0
  BY WeightOf, EightBits

\* There are finitely many.
LEMMA FiniteBits == IsFiniteSet(Bits)
<1>1. PICK a \in Int, b \in Int : a = 0 /\ b = 7
  OBVIOUS
<1>2. IsFiniteSet(a .. b)
  BY FS_Interval
<1> QED BY <1>1, <1>2 DEF Bits

\* The sum does not depend on the order of the bits.
LEMMA SumIsSum ==
    ASSUME NEW S \in SUBSET Bits
    PROVE  \E pick, w, h : /\ IsPick(pick, S)
                           /\ \A b \in S : w[b] = Weight(b)
                           /\ IsSum(h, S, pick, w)
                           /\ Sum(S) = h[S]
<1> DEFINE pick == [s \in SUBSET S |-> CHOOSE x \in s : TRUE]
           w == [b \in S |-> 2 ^ b]
           iter == CHOOSE it : it = [s \in SUBSET S |->
                       IF s = {} THEN 0
                       ELSE 2 ^ (CHOOSE x \in s : TRUE) + it[s \ {CHOOSE x \in s : TRUE}]]
<1>1. IsFiniteSet(S)
  BY FiniteBits, FS_Subset
<1>2. IsPick(pick, S)
  BY DEF IsPick
<1>3. \A b \in S : w[b] = Weight(b)
  BY DEF Weight
<1>4. \A b \in S : w[b] \in Int
  <2> HIDE DEF w
  <2> QED BY <1>3, WeightType
<1>5. ASSUME NEW it
      PROVE  IsSum(it, S, pick, w) <=>
             it = [s \in SUBSET S |->
                       IF s = {} THEN 0
                       ELSE 2 ^ (CHOOSE x \in s : TRUE) + it[s \ {CHOOSE x \in s : TRUE}]]
  <2>1. ASSUME NEW s \in SUBSET S, s # {}
        PROVE  w[pick[s]] + it[Without(s, pick[s])]
               = 2 ^ (CHOOSE x \in s : TRUE) + it[s \ {CHOOSE x \in s : TRUE}]
    <3>1. PICK x \in S : x = pick[s] /\ x = CHOOSE y \in s : TRUE
      BY <2>1
    <3>2. w[x] = 2 ^ x
      OBVIOUS
    <3>3. Without(s, x) = s \ {x}
      BY DEF Without
    <3> HIDE DEF pick, w
    <3> QED BY <3>1, <3>2, <3>3
  <2> HIDE DEF pick, w
  <2> QED BY <2>1 DEF IsSum
<1>6. PICK h : IsSum(h, S, pick, w)
  <2> HIDE DEF pick, w
  <2> QED BY <1>1, <1>2, <1>4, SumDefined
<1>7. IsSum(iter, S, pick, w)
  <2> DEFINE P(it) == it = [s \in SUBSET S |->
                       IF s = {} THEN 0
                       ELSE 2 ^ (CHOOSE x \in s : TRUE) + it[s \ {CHOOSE x \in s : TRUE}]]
  <2>1. \A it : IsSum(it, S, pick, w) <=> P(it)
    <3> HIDE DEF pick, w
    <3> QED BY <1>5
  <2>2. iter = CHOOSE it : P(it)
    OBVIOUS
  <2> HIDE DEF pick, w, P, iter
  <2>3. P(h)
    BY <1>6, <2>1
  <2>4. P(CHOOSE it : P(it))
    BY <2>3, Zenon
  <2> QED BY <2>1, <2>2, <2>4
<1>8. Sum(S) = iter[S]
  BY DEF Sum, MapThenSumSet, MapThenFoldSet
<1> HIDE DEF pick, w, iter
<1> QED BY <1>2, <1>3, <1>7, <1>8

\* A bit that is in S adds what it stands for.
Share(b, S) == IF b \in S THEN Weight(b) ELSE 0

\* All of them together.
LEMMA SumOfBits ==
    ASSUME NEW S \in SUBSET Bits
    PROVE  Sum(S) = Share(0, S) + Share(1, S) + Share(2, S) + Share(3, S)
                        + Share(4, S) + Share(5, S) + Share(6, S) + Share(7, S)
<1>1. PICK pick, w, h : /\ IsPick(pick, S)
                        /\ \A b \in S : w[b] = Weight(b)
                        /\ IsSum(h, S, pick, w)
                        /\ Sum(S) = h[S]
  BY SumIsSum
<1>2. IsFiniteSet(S)
  BY FiniteBits, FS_Subset
<1>3. \A b \in S : w[b] \in Int
  BY <1>1, WeightType
<1>4. h[{}] = 0 /\ \A s \in SUBSET S : h[s] \in Int
  BY <1>1, <1>2, <1>3, SumAt
<1> DEFINE From(n) == {b \in S : b >= n}
<1>41. \A b \in S : b \in Int /\ 0 <= b /\ b <= 7
  BY DEF Bits
<1>5. ASSUME NEW n \in Bits
      PROVE  h[From(n)] = Share(n, S) + h[From(n + 1)] /\ h[From(n + 1)] \in Int
  <2>1. From(n) \in SUBSET S /\ From(n + 1) \in SUBSET S
    OBVIOUS
  <2>2. h[From(n)] \in Int /\ h[From(n + 1)] \in Int
    BY <1>4, <2>1
  <2>3. CASE n \in S
    <3>1. n \in Int
      BY DEF Bits
    <3>2. n \in From(n)
      BY <2>3, <3>1
    <3>3. \A b \in S : (b >= n /\ b # n) <=> b >= n + 1
      BY <1>41, <3>1
    <3>4. Without(From(n), n) = From(n + 1)
      BY <3>3 DEF Without
    <3>5. h[From(n)] = w[n] + h[Without(From(n), n)]
      <4> HIDE DEF From
      <4> QED BY <1>1, <1>2, <1>3, <2>1, <3>2, SumAny
    <3> HIDE DEF From
    <3> QED BY <1>1, <2>2, <2>3, <3>4, <3>5 DEF Share
  <2>4. CASE n \notin S
    <3>1. n \in Int
      BY DEF Bits
    <3>2. \A b \in S : b >= n <=> b >= n + 1
      BY <1>41, <2>4, <3>1
    <3>3. From(n) = From(n + 1)
      BY <3>2
    <3> HIDE DEF From
    <3> QED BY <2>2, <2>4, <3>3 DEF Share
  <2> QED BY <2>3, <2>4
<1>6. From(0) = S /\ From(8) = {}
  <2>1. \A b \in S : b >= 0 /\ ~(b >= 8)
    BY <1>41
  <2> QED BY <2>1
<1>7. \A b \in Bits : Share(b, S) \in Int
  BY WeightType DEF Share
<1>8. PICK f : \A n \in 0 .. 8 : f[n] = h[From(n)]
  <2> DEFINE g == [n \in 0 .. 8 |-> h[From(n)]]
  <2>1. \A n \in 0 .. 8 : g[n] = h[From(n)]
    <3> HIDE DEF From
    <3> QED OBVIOUS
  <2> HIDE DEF g
  <2> QED BY <2>1
<1> HIDE DEF From
<1>9. ASSUME NEW n \in Bits PROVE f[n] = Share(n, S) + f[n + 1] /\ f[n + 1] \in Int
  <2>1. n \in 0 .. 8 /\ n + 1 \in 0 .. 8
    BY DEF Bits
  <2> QED BY <1>5, <1>8, <2>1
<1>10. /\ f[0] = Share(0, S) + f[1] /\ f[1] = Share(1, S) + f[2] /\ f[2] = Share(2, S) + f[3]
       /\ f[3] = Share(3, S) + f[4] /\ f[4] = Share(4, S) + f[5] /\ f[5] = Share(5, S) + f[6]
       /\ f[6] = Share(6, S) + f[7] /\ f[7] = Share(7, S) + f[8]
  <2>1. ASSUME NEW n \in Bits, NEW m, m = n + 1 PROVE f[n] = Share(n, S) + f[m]
    BY <1>9, <2>1
  <2> QED BY <2>1 DEF Bits
<1>11. f[8] = 0 /\ f[0] = Sum(S)
  <2>1. 0 \in 0 .. 8 /\ 8 \in 0 .. 8
    OBVIOUS
  <2>2. f[0] = h[From(0)] /\ f[8] = h[From(8)]
    BY <1>8, <2>1
  <2> QED BY <1>1, <1>4, <1>6, <2>2
<1>12. /\ Share(0, S) \in Int /\ Share(1, S) \in Int /\ Share(2, S) \in Int /\ Share(3, S) \in Int
       /\ Share(4, S) \in Int /\ Share(5, S) \in Int /\ Share(6, S) \in Int /\ Share(7, S) \in Int
  BY <1>7 DEF Bits
<1> QED BY <1>10, <1>11, <1>12

\* Bits ORed into an empty byte make a byte that has them all.
LEMMA OrByteSets ==
    ASSUME NEW S \in SUBSET Bits
    PROVE  /\ OrByte(0, S) \in Byte
           /\ \A b \in S : (OrByte(0, S) \div 2 ^ b) % 2 = 1
<1>1. OrByte(0, S) = 0 + Sum({b \in S : (0 \div 2 ^ b) % 2 = 0})
  BY DEF OrByte, Sum
<1>2. {b \in S : (0 \div 2 ^ b) % 2 = 0} = S
  <2>1. ASSUME NEW b \in Bits PROVE (0 \div 2 ^ b) % 2 = 0
    <3>1. PICK w \in Nat : w = 2 ^ b /\ w > 0
      BY WeightType DEF Weight
    <3>2. (0 \div w) % 2 = 0
      BY <3>1
    <3> QED BY <3>1, <3>2
  <2> QED BY <2>1
<1>3. PICK s0, s1, s2, s3, s4, s5, s6, s7 :
         /\ s0 = Share(0, S) /\ s1 = Share(1, S) /\ s2 = Share(2, S) /\ s3 = Share(3, S)
         /\ s4 = Share(4, S) /\ s5 = Share(5, S) /\ s6 = Share(6, S) /\ s7 = Share(7, S)
  OBVIOUS
<1>4. /\ s0 \in {0, 1} /\ s1 \in {0, 2} /\ s2 \in {0, 4} /\ s3 \in {0, 8}
      /\ s4 \in {0, 16} /\ s5 \in {0, 32} /\ s6 \in {0, 64} /\ s7 \in {0, 128}
  BY <1>3, WeightOf DEF Share
<1>5. PICK v : v = s0 + s1 + s2 + s3 + s4 + s5 + s6 + s7
  OBVIOUS
<1>6. v \in Int /\ OrByte(0, S) = v
  <2>1. v \in Int /\ Sum(S) = v
    BY <1>3, <1>4, <1>5, SumOfBits
  <2>2. OrByte(0, S) = 0 + Sum(S)
    BY <1>1, <1>2, Zenon
  <2> QED BY <2>1, <2>2
<1>7. v \in Byte
  BY <1>4, <1>5 DEF Byte
<1>8. /\ s0 = 1 => (v \div 1) % 2 = 1
      /\ s1 = 2 => (v \div 2) % 2 = 1
      /\ s2 = 4 => (v \div 4) % 2 = 1
      /\ s3 = 8 => (v \div 8) % 2 = 1
      /\ s4 = 16 => (v \div 16) % 2 = 1
      /\ s5 = 32 => (v \div 32) % 2 = 1
      /\ s6 = 64 => (v \div 64) % 2 = 1
      /\ s7 = 128 => (v \div 128) % 2 = 1
  BY <1>4, <1>5
<1>9. ASSUME NEW b \in S PROVE (v \div Weight(b)) % 2 = 1
  <2>1. Share(b, S) = Weight(b) /\ b \in Bits
    BY DEF Share
  <2> QED BY <1>3, <1>8, <2>1, WeightOf, EightBits
<1> QED BY <1>6, <1>7, <1>9 DEF Weight

\* A power of two is the number of subsets of a set.
LEMMA PowerType ==
    ASSUME NEW n \in Nat
    PROVE  2 ^ n \in Nat /\ 2 ^ n > 0
<1>1. PICK a \in Int : a = 1
  OBVIOUS
<1>2. PICK S : S = a .. n
  OBVIOUS
<1>3. IsFiniteSet(S) /\ Cardinality(S) = n
  BY <1>1, <1>2, FS_Interval
<1>4. IsFiniteSet(SUBSET S) /\ Cardinality(SUBSET S) = 2 ^ n
  BY <1>3, FS_SUBSET
<1>5. PICK T : T = SUBSET S
  OBVIOUS
<1>6. T # {}
  BY <1>5
<1>7. Cardinality(T) \in Nat /\ Cardinality(T) # 0
  BY <1>4, <1>5, <1>6, FS_CardinalityType, FS_EmptySet
<1> QED BY <1>4, <1>5, <1>7

\* The bit a hash function looks at is one of the filter's.
LEMMA BitPosType ==
    ASSUME NEW key \in Keys, NEW j \in Nat, NEW bits, Len(bits) \in Nat, Len(bits) > 0
    PROVE  BitPos(key, j, bits) \in 0 .. 8 * Len(bits) - 1
<1>1. HASH_BITS \in Nat /\ HIGH_BITS \in Nat /\ HASH_BITS - HIGH_BITS \in Nat
  BY HashAssumption
<1>2. PICK P \in Nat : P = 2 ^ HASH_BITS /\ P > 0
  BY <1>1, PowerType
<1>3. PICK Q \in Nat : Q = 2 ^ HIGH_BITS /\ Q > 0
  BY <1>1, PowerType
<1>4. PICK e \in Nat : e = HASH_BITS - HIGH_BITS
  BY <1>1
<1>5. PICK R \in Nat : R = 2 ^ (HASH_BITS - HIGH_BITS)
  BY <1>4, PowerType
<1>6. PICK h \in Int : h = Hash[key]
  <2>1. key \in DOMAIN Hash
    BY TableAssumption
  <2>2. Hash[key] \in 0 .. 2 ^ HASH_BITS - 1
    BY <2>1, HashAssumption
  <2> QED BY <1>2, <2>2
<1>7. PICK d \in Int : d = Delta(h)
  <2>1. (h \div Q) \in Int /\ (h % Q) \in Int
    BY <1>3
  <2>2. (h \div Q) + (h % Q) * R \in Int
    BY <2>1
  <2> QED BY <1>3, <1>5, <2>2 DEF Delta
<1>8. PICK m \in Nat : m = 8 * Len(bits) /\ m > 0
  OBVIOUS
<1>9. PICK x \in Int : x = h + j * d
  OBVIOUS
<1>10. PICK y \in Int : y = x % P
  BY <1>2
<1>11. y % m \in 0 .. m - 1
  BY <1>8
<1>12. BitPos(key, j, bits) = y % m
  BY <1>2, <1>6, <1>7, <1>8, <1>9, <1>10, Zenon DEF BitPos
<1> QED BY <1>8, <1>11, <1>12

\* Bits set in an empty filter are bytes in which they are set.
LEMMA SetBitsSets ==
    ASSUME NEW n \in Nat, NEW bits, bits = [i \in 1 .. n |-> 0], NEW P \in SUBSET (0 .. 8 * n - 1)
    PROVE  /\ SetBits(bits, P) \in Seq(Byte)
           /\ Len(SetBits(bits, P)) = n
           /\ \A p \in P : BitIsSet(SetBits(bits, P), p)
<1> DEFINE In(i) == {p % 8 : p \in {q \in P : q \div 8 = i - 1}}
<1>1. Len(bits) = n /\ \A i \in 1 .. n : bits[i] = 0
  OBVIOUS
<1>2. ASSUME NEW i \in 1 .. n PROVE In(i) \in SUBSET Bits
  <2>1. \A p \in P : p % 8 \in Bits
    BY DEF Bits
  <2> QED BY <2>1
<1>3. PICK s : s = [i \in 1 .. n |-> OrByte(0, In(i))]
  OBVIOUS
<1>4. SetBits(bits, P) = s
  <2>1. ASSUME NEW i \in 1 .. n PROVE OrByte(bits[i], In(i)) = OrByte(0, In(i))
    <3> HIDE DEF In
    <3> QED BY <1>1
  <2>2. SetBits(bits, P) = [i \in 1 .. n |-> OrByte(bits[i], In(i))]
    BY <1>1, Zenon DEF SetBits
  <2> HIDE DEF In
  <2> QED BY <1>3, <2>1, <2>2
<1>5. ASSUME NEW i \in 1 .. n
      PROVE  s[i] = OrByte(0, In(i)) /\ s[i] \in Byte /\ \A b \in In(i) : (s[i] \div 2 ^ b) % 2 = 1
  <2> HIDE DEF In
  <2>1. s[i] = OrByte(0, In(i))
    BY <1>3
  <2>2. OrByte(0, In(i)) \in Byte /\ \A b \in In(i) : (OrByte(0, In(i)) \div 2 ^ b) % 2 = 1
    BY <1>2, OrByteSets
  <2> QED BY <2>1, <2>2
<1>6. s \in Seq(Byte) /\ Len(s) = n
  <2> HIDE DEF In
  <2> QED BY <1>3, <1>5
<1>7. ASSUME NEW p \in P PROVE BitIsSet(s, p)
  <2>1. PICK i \in 1 .. n : i = p \div 8 + 1
    <3>1. p \in Int /\ 0 <= p /\ p <= 8 * n - 1
      OBVIOUS
    <3>2. PICK q \in Int : q = p \div 8 /\ 0 <= q /\ q <= n - 1
      BY <3>1
    <3> QED BY <3>2
  <2>2. p \div 8 = i - 1
    <3>1. p \div 8 \in Int
      OBVIOUS
    <3> QED BY <2>1, <3>1
  <2>3. p % 8 \in In(i)
    BY <2>2
  <2>4. (s[i] \div 2 ^ (p % 8)) % 2 = 1
    <3> HIDE DEF In
    <3> QED BY <1>5, <2>3
  <2> QED BY <2>1, <2>4 DEF BitIsSet
<1> QED BY <1>4, <1>6, <1>7

\* The constructor asks for at least one byte and between 1 and 32 hash
\* functions.
LEMMA FilterSizes ==
    /\ BitsSize(KEYS_NUM) \in Nat
    /\ BitsSize(KEYS_NUM) > 0
    /\ HashFuncNum(KEYS_NUM) \in 1 .. 32
<1>1. PICK k \in Nat : k = KEYS_NUM /\ k > 0
  BY TableAssumption
<1>2. PICK n \in Nat : n = BitsSize(KEYS_NUM) /\ n > 0
  <2>1. PICK a \in Int : a = (9585 * k) \div 1000 /\ a >= 9
    BY <1>1, SMT
  <2>2. PICK b \in Int : b = (a + 7) \div 8 /\ b >= 1
    BY <2>1, SMT
  <2> QED BY <1>1, <2>1, <2>2, SMT DEF BitsSize
<1>3. PICK m \in Int : m = (693147 * ((8 * BitsSize(KEYS_NUM)) \div KEYS_NUM)) \div 1000000
  <2>1. PICK c \in Int : c = (8 * n) \div k
    BY <1>1, SMT
  <2>2. (693147 * c) \div 1000000 \in Int
    BY SMT
  <2> QED BY <1>1, <1>2, <2>1, <2>2, SMT
<1>4. PICK u : u = Min({m, 32})
  OBVIOUS
<1>5. u \in Int /\ u <= 32
  <2>1. u = CHOOSE x \in {m, 32} : \A y \in {m, 32} : x =< y
    BY <1>4 DEF Min
  <2>2. \E x \in {m, 32} : \A y \in {m, 32} : x =< y
    OBVIOUS
  <2> QED BY <2>1, <2>2
<1>6. PICK v : v = Max({1, u})
  OBVIOUS
<1>7. v \in 1 .. 32
  <2>1. v = CHOOSE x \in {1, u} : \A y \in {1, u} : x >= y
    BY <1>6 DEF Max
  <2>2. \E x \in {1, u} : \A y \in {1, u} : x >= y
    BY <1>5
  <2>3. v \in {1, u} /\ v >= 1
    BY <2>1, <2>2
  <2> QED BY <1>5, <2>3
<1>8. HashFuncNum(KEYS_NUM) = v
  BY <1>3, <1>4, <1>6, SMT DEF HashFuncNum
<1> QED BY <1>2, <1>7, <1>8

\* The filter made of some keys admits every one of them.
LEMMA FilterAdmits ==
    ASSUME NEW keys \in Seq(Keys)
    PROVE  /\ FilterBits(keys) \in Seq(Byte)
           /\ Len(FilterBits(keys)) = BitsSize(KEYS_NUM)
           /\ \A i \in 1 .. Len(keys) : Exists(keys[i], HashFuncNum(KEYS_NUM), FilterBits(keys))
<1>1. PICK n \in Nat : n = BitsSize(KEYS_NUM) /\ n > 0
  BY FilterSizes
<1>2. PICK f \in Nat : f = HashFuncNum(KEYS_NUM)
  BY FilterSizes
<1>3. PICK bits : bits = [i \in 1 .. n |-> 0]
  OBVIOUS
<1>4. NoBits(KEYS_NUM) = bits /\ Len(bits) = n
  BY <1>1, <1>3 DEF NoBits
<1>5. PICK l \in Nat : l = Len(keys)
  BY LenProperties
<1>6. \A i \in 1 .. l : keys[i] \in Keys
  BY <1>5, ElementOfSeq
<1>7. PICK P : P = UNION {BitPositions(keys[i], f, bits) : i \in 1 .. l}
  OBVIOUS
<1>8. ASSUME NEW i \in 1 .. l PROVE BitPositions(keys[i], f, bits) \subseteq 0 .. 8 * n - 1
  <2>1. ASSUME NEW j \in 0 .. f - 1 PROVE BitPos(keys[i], j, bits) \in 0 .. 8 * n - 1
    <3>1. PICK key \in Keys : key = keys[i]
      BY <1>6
    <3>2. Len(bits) \in Nat /\ Len(bits) > 0 /\ j \in Nat
      BY <1>1, <1>4
    <3>3. BitPos(key, j, bits) \in 0 .. 8 * Len(bits) - 1
      BY <3>2, BitPosType
    <3> QED BY <1>4, <3>1, <3>3
  <2> QED BY <2>1 DEF BitPositions
<1>9. P \in SUBSET (0 .. 8 * n - 1)
  BY <1>7, <1>8
<1>10. PICK s : s = SetBits(bits, P)
  OBVIOUS
<1>11. s \in Seq(Byte) /\ Len(s) = n /\ \A p \in P : BitIsSet(s, p)
  BY <1>3, <1>9, <1>10, SetBitsSets
<1>12. FilterBits(keys) = s
  BY <1>2, <1>4, <1>5, <1>7, <1>10, Zenon DEF FilterBits, CreateFilter
<1>13. ASSUME NEW i \in 1 .. l PROVE Exists(keys[i], f, s)
  <2>1. keys[i] # <<>>
    BY <1>6, TableAssumption
  <2>2. BitPositions(keys[i], f, s) = BitPositions(keys[i], f, bits)
    <3>1. \A j \in 0 .. f - 1 : BitPos(keys[i], j, s) = BitPos(keys[i], j, bits)
      BY <1>4, <1>11 DEF BitPos
    <3> QED BY <3>1 DEF BitPositions
  <2>3. BitPositions(keys[i], f, bits) \subseteq P
    BY <1>7
  <2> QED BY <1>11, <2>1, <2>2, <2>3 DEF Exists
<1> QED BY <1>1, <1>2, <1>5, <1>11, <1>12, <1>13

(***************************************************************************)
(* The index and the footer.                                               *)
(***************************************************************************)

\* back() += 1 leaves bytes.
LEMMA BumpedType ==
    ASSUME NEW s \in Seq(Byte), s # <<>>
    PROVE  /\ Bumped(s) \in Seq(Byte)
           /\ Len(Bumped(s)) = Len(s)
           /\ Bumped(s)[Len(s)] = (s[Len(s)] + 1) % 256
           /\ \A i \in 1 .. Len(s) - 1 : Bumped(s)[i] = s[i]
<1>1. PICK n \in Nat : n = Len(s) /\ n > 0
  BY EmptySeq
<1>2. n \in 1 .. n
  BY <1>1
<1>3. PICK e \in Byte : e = (s[n] + 1) % 256
  <2>1. PICK x \in Byte : x = s[n]
    BY <1>1, <1>2, ElementOfSeq
  <2>2. PICK y \in Int : y = x + 1
    BY DEF Byte
  <2>3. y % 256 \in Byte
    BY DEF Byte
  <2> QED BY <2>1, <2>2, <2>3
<1>4. Bumped(s) = [s EXCEPT ![n] = e]
  BY <1>1, <1>3 DEF Bumped
<1>5. PICK t : t = [s EXCEPT ![n] = e]
  OBVIOUS
<1>6. t \in Seq(Byte) /\ Len(t) = n /\ \A j \in 1 .. n : t[j] = IF j = n THEN e ELSE s[j]
  BY <1>1, <1>2, <1>5, ExceptSeq
<1>7. t[n] = e
  BY <1>2, <1>6
<1>8. ASSUME NEW i \in 1 .. n - 1 PROVE t[i] = s[i]
  <2>1. i \in 1 .. n /\ i # n
    OBVIOUS
  <2> QED BY <1>6, <2>1
<1> QED BY <1>1, <1>3, <1>4, <1>5, <1>6, <1>7, <1>8

\* The number of positions at which two keys agree.
Agree(key1, key2) == Quantify(1 .. Min2(Len(key1), Len(key2)), LAMBDA i : key1[i] = key2[i])

\* They are positions of the first key.
LEMMA AgreeType ==
    ASSUME NEW key1 \in Seq(Byte), NEW key2 \in Seq(Byte)
    PROVE  Agree(key1, key2) \in 0 .. Len(key1)
<1>1. PICK m \in Nat, n \in Nat : m = Len(key1) /\ n = Len(key2)
  BY LenProperties
<1>2. PICK c \in Nat : c = Min2(m, n) /\ c <= m
  BY DEF Min2
<1>3. PICK S : S = {i \in 1 .. c : key1[i] = key2[i]}
  OBVIOUS
<1>4. Agree(key1, key2) = Cardinality(S)
  BY <1>1, <1>2, <1>3, Zenon DEF Agree, Quantify
<1>5. PICK a \in Int : a = 1
  OBVIOUS
<1>6. IsFiniteSet(a .. c) /\ Cardinality(a .. c) = IF a > c THEN 0 ELSE c - a + 1
  BY FS_Interval
<1>7. Cardinality(a .. c) = c /\ S \in SUBSET (a .. c)
  BY <1>3, <1>5, <1>6
<1>8. IsFiniteSet(S) /\ Cardinality(S) <= c
  BY <1>6, <1>7, FS_Subset
<1>9. Cardinality(S) \in Nat
  BY <1>8, FS_CardinalityType
<1> QED BY <1>1, <1>2, <1>4, <1>8, <1>9

\* An index key is not empty.
LEMMA FindShortestKeyType ==
    ASSUME NEW key1 \in Seq(Byte), NEW key2 \in Seq(Byte)
    PROVE  FindShortestKey(key1, key2) \in Seq(Byte)
<1>1. PICK cnt \in Nat : cnt = Agree(key1, key2) /\ cnt <= Len(key1)
  BY AgreeType, LenProperties
<1>2. FindShortestKey(key1, key2) =
         IF cnt = Len(key1) THEN Append(key1, 32) ELSE Bumped(SubSeq(key1, 1, cnt + 1))
  BY <1>1, Zenon DEF FindShortestKey, Agree
<1>3. CASE cnt = Len(key1)
  <2>1. 32 \in Byte
    BY DEF Byte
  <2> QED BY <1>2, <1>3, <2>1, AppendProperties
<1>4. CASE cnt # Len(key1)
  <2>1. PICK s : s = SubSeq(key1, 1, cnt + 1)
    OBVIOUS
  <2>2. s \in Seq(Byte) /\ Len(s) = cnt + 1
    <3>1. PICK n \in Nat : n = Len(key1) /\ cnt + 1 <= n
      BY <1>1, <1>4, LenProperties
    <3>2. \A i \in 1 .. cnt + 1 : key1[i] \in Byte
      BY <3>1, ElementOfSeq
    <3> QED BY <2>1, <3>2, SubSeqProperties
  <2>3. s # <<>>
    BY <2>2
  <2> QED BY <1>2, <1>4, <2>1, <2>2, <2>3, BumpedType
<1> QED BY <1>3, <1>4

\* An index entry is the length of the key, the key and an OffsetInfo.
LEMMA IndexEntryType ==
    ASSUME NEW key \in Seq(Byte), NEW size \in Int, NEW offset \in Int
    PROVE  IndexEntry(key, size, offset) \in Seq(Byte) /\ Len(IndexEntry(key, size, offset)) = Len(key) + 12
<1>1. PICK n \in Nat : n = Len(key)
  BY LenProperties
<1>2. PICK a \in Seq(Byte) : a = EncodeFixed32(n) /\ Len(a) = 4
  <2>1. n \in Int
    OBVIOUS
  <2>2. EncodeFixed32(n) \in Seq(Byte) /\ Len(EncodeFixed32(n)) = 4
    BY <2>1, EncodeType
  <2> QED BY <2>2
<1>3. PICK o \in Seq(Byte) : o = OffsetInfo(size, offset) /\ Len(o) = 8
  BY OffsetInfoProperties
<1>4. PICK b : b = a \o key
  OBVIOUS
<1>5. b \in Seq(Byte) /\ Len(b) = 4 + n
  <2>1. b \in Seq(Byte) /\ Len(b) = Len(a) + Len(key)
    BY <1>4, ConcatProperties
  <2> QED BY <1>1, <1>2, <2>1
<1>51. PICK c : c = b \o o
  OBVIOUS
<1>52. c \in Seq(Byte) /\ Len(c) = n + 12
  <2>1. c \in Seq(Byte) /\ Len(c) = Len(b) + Len(o)
    BY <1>5, <1>51, ConcatProperties
  <2> QED BY <1>3, <1>5, <2>1
<1>6. IndexEntry(key, size, offset) = c
  BY <1>1, <1>2, <1>3, <1>4, <1>51, Zenon DEF IndexEntry
<1> QED BY <1>1, <1>52, <1>6

\* The footer of s says this of the filter and the index.
HasFooter(s, filterSize, filterOffset, indexSize, indexOffset) ==
    /\ Header(s).MetaBlock.size = filterSize
    /\ Header(s).MetaBlock.offset = filterOffset
    /\ Header(s).IndexBlock.size = indexSize
    /\ Header(s).IndexBlock.offset = indexOffset

\* The footer is read back as it was written.
LEMMA FooterRead ==
    ASSUME NEW body \in Seq(Byte), NEW a \in Sizes, NEW b \in Sizes, NEW c \in Sizes, NEW d \in Sizes,
           NEW s, s = body \o (OffsetInfo(a, b) \o OffsetInfo(c, d))
    PROVE  HasFooter(s, a, b, c, d)
<1>1. PICK n \in Nat : n = Len(body)
  BY LenProperties
<1>2. a \in Int /\ b \in Int /\ c \in Int /\ d \in Int
  BY SMT DEF Sizes
<1>3. PICK o \in Seq(Byte) : /\ o = OffsetInfo(a, b) /\ Len(o) = 8
                             /\ \A j \in 1 .. 4 : o[j] = EncodeFixed32(a)[j]
                             /\ \A j \in 1 .. 4 : o[4 + j] = EncodeFixed32(b)[j]
  BY <1>2, OffsetInfoProperties
<1>4. PICK p \in Seq(Byte) : /\ p = OffsetInfo(c, d) /\ Len(p) = 8
                             /\ \A j \in 1 .. 4 : p[j] = EncodeFixed32(c)[j]
                             /\ \A j \in 1 .. 4 : p[4 + j] = EncodeFixed32(d)[j]
  BY <1>2, OffsetInfoProperties
<1>5. PICK t : t = o \o p
  OBVIOUS
<1>51. /\ t \in Seq(Byte) /\ Len(t) = 16
       /\ \A j \in 1 .. 8 : t[j] = o[j]
       /\ \A j \in 1 .. 8 : t[8 + j] = p[j]
  <2>1. /\ t \in Seq(Byte) /\ Len(t) = Len(o) + Len(p)
        /\ \A j \in 1 .. Len(o) : t[j] = o[j]
        /\ \A j \in 1 .. Len(p) : t[Len(o) + j] = p[j]
    BY <1>5, TwoParts
  <2>2. Len(o) = 8 /\ Len(p) = 8
    BY <1>3, <1>4
  <2> QED BY <2>1, <2>2
<1>6. s = body \o t
  BY <1>3, <1>4, <1>5
<1>7. /\ s \in Seq(Byte) /\ Len(s) = n + 16
      /\ \A j \in 1 .. 16 : s[n + j] = t[j]
  <2>1. t \in Seq(Byte) /\ s = body \o t
    BY <1>51, <1>6
  <2>2. /\ body \o t \in Seq(Byte) /\ Len(body \o t) = Len(body) + Len(t)
        /\ \A j \in 1 .. Len(t) : (body \o t)[Len(body) + j] = t[j]
    BY <2>1, TwoParts
  <2>3. /\ s \in Seq(Byte) /\ Len(s) = Len(body) + Len(t)
        /\ \A j \in 1 .. Len(t) : s[Len(body) + j] = t[j]
    BY <2>1, <2>2, Zenon
  <2> QED BY <1>1, <1>51, <2>3
<1>8. ASSUME NEW j \in 1 .. 4
      PROVE  /\ s[n + j] = EncodeFixed32(a)[j]
             /\ s[(n + 4) + j] = EncodeFixed32(b)[j]
             /\ s[(n + 8) + j] = EncodeFixed32(c)[j]
             /\ s[(n + 12) + j] = EncodeFixed32(d)[j]
  <2>1. /\ j \in 1 .. 8 /\ j \in 1 .. 16 /\ 4 + j \in 1 .. 8 /\ 4 + j \in 1 .. 16
        /\ 8 + j \in 1 .. 16 /\ 8 + (4 + j) \in 1 .. 16
        /\ (n + 4) + j = n + (4 + j) /\ (n + 8) + j = n + (8 + j)
        /\ (n + 12) + j = n + (8 + (4 + j))
    OBVIOUS
  <2>2. s[n + j] = o[j] /\ s[n + (4 + j)] = o[4 + j]
    BY <1>51, <1>7, <2>1
  <2>3. s[n + (8 + j)] = p[j] /\ s[n + (8 + (4 + j))] = p[4 + j]
    BY <1>51, <1>7, <2>1
  <2> QED BY <1>3, <1>4, <2>1, <2>2, <2>3
<1>9. n + 4 \in Nat /\ n + 8 \in Nat /\ n + 12 \in Nat
  OBVIOUS
<1>10. /\ DecodeFixed32(s, n) = a /\ DecodeFixed32(s, n + 4) = b
       /\ DecodeFixed32(s, n + 8) = c /\ DecodeFixed32(s, n + 12) = d
  BY <1>8, <1>9, DecodeEncoded
<1>11. Len(s) - 16 = n /\ Len(s) - 8 = n + 8 /\ (n + 8) + 4 = n + 12
  BY <1>7
<1>12. /\ Header(s).MetaBlock.size = DecodeFixed32(s, Len(s) - 16)
       /\ Header(s).MetaBlock.offset = DecodeFixed32(s, (Len(s) - 16) + 4)
       /\ Header(s).IndexBlock.size = DecodeFixed32(s, Len(s) - 8)
       /\ Header(s).IndexBlock.offset = DecodeFixed32(s, (Len(s) - 8) + 4)
  BY DEF Header, OffsetInfoAt
<1> QED BY <1>10, <1>11, <1>12 DEF HasFooter

\* The filter block is the filter and the number of hash functions.
LEMMA FilterBlockProperties ==
    ASSUME NEW keys \in Seq(Keys)
    PROVE  /\ FilterBlock(keys) \in Seq(Byte)
           /\ Len(FilterBlock(keys)) = BitsSize(KEYS_NUM) + 4
           /\ \A j \in 1 .. BitsSize(KEYS_NUM) : FilterBlock(keys)[j] = FilterBits(keys)[j]
           /\ \A j \in 1 .. 4 : FilterBlock(keys)[BitsSize(KEYS_NUM) + j]
                                    = EncodeFixed32(HashFuncNum(KEYS_NUM))[j]
<1>1. PICK n \in Nat : n = BitsSize(KEYS_NUM)
  BY FilterSizes
<1>2. PICK h \in Int : h = HashFuncNum(KEYS_NUM)
  BY FilterSizes
<1>3. PICK f \in Seq(Byte) : f = FilterBits(keys) /\ Len(f) = n
  BY <1>1, FilterAdmits
<1>4. PICK e \in Seq(Byte) : e = EncodeFixed32(h) /\ Len(e) = 4
  BY EncodeType
<1>5. PICK s : s = f \o e
  OBVIOUS
<1>6. /\ s \in Seq(Byte) /\ Len(s) = Len(f) + Len(e)
      /\ \A j \in 1 .. Len(f) : s[j] = f[j]
      /\ \A j \in 1 .. Len(e) : s[Len(f) + j] = e[j]
  BY <1>5, TwoParts
<1>7. FilterBlock(keys) = s
  BY <1>2, <1>3, <1>4, <1>5 DEF FilterBlock
<1> QED BY <1>1, <1>2, <1>3, <1>4, <1>6, <1>7

\* s is a file whose blocks take n bytes: where the footer says the filter
\* and the index are, there they are.
FileLayout(s, n, keys, index) ==
    /\ Len(s) = n + BitsSize(KEYS_NUM) + 4 + Len(index) + 16
    /\ Header(s).MetaBlock.offset = n
    /\ Header(s).MetaBlock.size = BitsSize(KEYS_NUM) + 4
    /\ Header(s).IndexBlock.offset = n + BitsSize(KEYS_NUM) + 4
    /\ Header(s).IndexBlock.size = Len(index)
    /\ \A j \in 1 .. BitsSize(KEYS_NUM) : s[n + j] = FilterBits(keys)[j]
    /\ DecodeFixed32(s, n + BitsSize(KEYS_NUM)) = HashFuncNum(KEYS_NUM)
    /\ \A j \in 1 .. Len(index) : s[n + BitsSize(KEYS_NUM) + 4 + j] = index[j]

\* A finished file is one, whatever its blocks.
LEMMA FinishedFile ==
    ASSUME NEW body \in Seq(Byte), NEW keys \in Seq(Keys), NEW index \in Seq(Byte),
           NEW s, s = ((body \o FilterBlock(keys)) \o index)
                          \o Footer(FilterBlock(keys), Len(body), index),
           Len(s) \in Sizes
    PROVE  FileLayout(s, Len(body), keys, index)
<1>1. PICK n \in Nat, i \in Nat : n = Len(body) /\ i = Len(index)
  BY LenProperties
<1>2. PICK k \in Nat : k = BitsSize(KEYS_NUM)
  BY FilterSizes
<1>3. PICK f \in Seq(Byte) : /\ f = FilterBlock(keys) /\ Len(f) = k + 4
                             /\ \A j \in 1 .. k : f[j] = FilterBits(keys)[j]
                             /\ \A j \in 1 .. 4 : f[k + j] = EncodeFixed32(HashFuncNum(KEYS_NUM))[j]
  BY <1>2, FilterBlockProperties
<1>4. PICK a : a = body \o f
  OBVIOUS
<1>5. /\ a \in Seq(Byte) /\ Len(a) = n + k + 4
      /\ \A j \in 1 .. k + 4 : a[n + j] = f[j]
  <2>1. /\ a \in Seq(Byte) /\ Len(a) = Len(body) + Len(f)
        /\ \A j \in 1 .. Len(f) : a[Len(body) + j] = f[j]
    BY <1>4, TwoParts
  <2> QED BY <1>1, <1>3, <2>1
<1>6. PICK b : b = a \o index
  OBVIOUS
<1>7. /\ b \in Seq(Byte) /\ Len(b) = n + k + 4 + i
      /\ \A j \in 1 .. n + k + 4 : b[j] = a[j]
      /\ \A j \in 1 .. i : b[n + k + 4 + j] = index[j]
  <2>1. a \in Seq(Byte)
    BY <1>5
  <2>2. /\ b \in Seq(Byte) /\ Len(b) = Len(a) + Len(index)
        /\ \A j \in 1 .. Len(a) : b[j] = a[j]
        /\ \A j \in 1 .. Len(index) : b[Len(a) + j] = index[j]
    BY <1>6, <2>1, TwoParts
  <2> QED BY <1>1, <1>5, <2>2
<1>8. PICK o : o = OffsetInfo(k + 4, n) \o OffsetInfo(i, n + (k + 4))
  OBVIOUS
<1>9. s = b \o o
  BY <1>1, <1>3, <1>4, <1>6, <1>8 DEF Footer
<1>10. o \in Seq(Byte) /\ Len(o) = 16
  <2>1. k + 4 \in Int /\ n \in Int /\ i \in Int /\ n + (k + 4) \in Int
    OBVIOUS
  <2>2. PICK x \in Seq(Byte) : x = OffsetInfo(k + 4, n) /\ Len(x) = 8
    BY <2>1, OffsetInfoProperties
  <2>3. PICK y \in Seq(Byte) : y = OffsetInfo(i, n + (k + 4)) /\ Len(y) = 8
    BY <2>1, OffsetInfoProperties
  <2>4. o \in Seq(Byte) /\ Len(o) = Len(x) + Len(y)
    BY <1>8, <2>2, <2>3, ConcatProperties
  <2> QED BY <2>2, <2>3, <2>4
<1>11. /\ Len(s) = n + k + 4 + i + 16
       /\ \A j \in 1 .. n + k + 4 + i : s[j] = b[j]
  <2>1. b \in Seq(Byte) /\ o \in Seq(Byte)
    BY <1>7, <1>10
  <2>2. /\ Len(b \o o) = Len(b) + Len(o)
        /\ \A j \in 1 .. Len(b) : (b \o o)[j] = b[j]
    BY <2>1, TwoParts
  <2> QED BY <1>7, <1>9, <1>10, <2>2
<1>12. k + 4 \in Sizes /\ n \in Sizes /\ i \in Sizes /\ n + (k + 4) \in Sizes
  BY <1>11, SMT DEF Sizes
<1>13. HasFooter(s, k + 4, n, i, n + (k + 4))
  <2>1. PICK x \in Sizes, y \in Sizes : x = k + 4 /\ y = n + (k + 4)
    BY <1>12
  <2>2. n \in Sizes /\ i \in Sizes /\ b \in Seq(Byte)
    BY <1>7, <1>12
  <2>3. PICK u : u = b \o (OffsetInfo(x, n) \o OffsetInfo(i, y))
    OBVIOUS
  <2>4. HasFooter(u, x, n, i, y)
    BY <2>2, <2>3, FooterRead, Zenon
  <2>5. u = s
    BY <1>8, <1>9, <2>1, <2>3
  <2> QED BY <2>1, <2>4, <2>5
<1>14. ASSUME NEW j \in 1 .. k + 4 PROVE s[n + j] = f[j]
  <2>1. n + j \in 1 .. n + k + 4 /\ n + j \in 1 .. n + k + 4 + i
    OBVIOUS
  <2> QED BY <1>5, <1>7, <1>11, <2>1
<1>15. ASSUME NEW j \in 1 .. k PROVE s[n + j] = FilterBits(keys)[j]
  <2>1. j \in 1 .. k + 4
    OBVIOUS
  <2> QED BY <1>3, <1>14, <2>1
<1>16. DecodeFixed32(s, n + k) = HashFuncNum(KEYS_NUM)
  <2>1. ASSUME NEW j \in 1 .. 4 PROVE s[(n + k) + j] = EncodeFixed32(HashFuncNum(KEYS_NUM))[j]
    <3>1. k + j \in 1 .. k + 4 /\ (n + k) + j = n + (k + j)
      OBVIOUS
    <3> QED BY <1>3, <1>14, <3>1
  <2>2. HashFuncNum(KEYS_NUM) \in Sizes /\ n + k \in Nat
    <3>1. PICK h \in Nat : h = HashFuncNum(KEYS_NUM) /\ h <= 32
      BY FilterSizes
    <3>2. h < 2147483648
      BY <3>1, SMT
    <3> QED BY <3>1, <3>2, SMT DEF Sizes
  <2> QED BY <2>1, <2>2, DecodeEncoded
<1>17. ASSUME NEW j \in 1 .. i PROVE s[n + k + 4 + j] = index[j]
  <2>1. n + k + 4 + j \in 1 .. n + k + 4 + i
    OBVIOUS
  <2> QED BY <1>7, <1>11, <2>1
<1>18. n + (k + 4) = n + k + 4
  OBVIOUS
<1> QED BY <1>1, <1>2, <1>11, <1>13, <1>15, <1>16, <1>17, <1>18 DEF HasFooter, FileLayout

(***************************************************************************)
(* The blocks written.                                                     *)
(***************************************************************************)
Pairs == Seq(Keys \X Values)
Blocks == [offset : Nat, size : Nat, pairs : Pairs]

\* Each block starts where the one before it ends, the first at 0.
Chained(ws) ==
    /\ ws # <<>> => ws[1].offset = 0
    /\ \A i \in 1 .. Len(ws) - 1 : ws[i + 1].offset = ws[i].offset + ws[i].size

\* Where the last block ends.
EndOf(ws) == IF ws = <<>> THEN 0 ELSE ws[Len(ws)].offset + ws[Len(ws)].size

\* The keys of some pairs, and of some blocks.
KeysOf(pairs) == {p[1] : p \in ToSet(pairs)}
KeysOfBlocks(ws) == UNION {KeysOf(ws[j].pairs) : j \in 1 .. Len(ws)}

\* One more block.
LEMMA OneMoreBlock ==
    ASSUME NEW ws \in Seq(Blocks), Chained(ws), NEW w \in Blocks, w.offset = EndOf(ws),
           NEW vs, vs = Append(ws, w)
    PROVE  /\ vs \in Seq(Blocks)
           /\ vs # <<>>
           /\ Chained(vs)
           /\ EndOf(vs) = w.offset + w.size
           /\ KeysOfBlocks(vs) \subseteq KeysOfBlocks(ws) \cup KeysOf(w.pairs)
<1>1. PICK n \in Nat : n = Len(ws)
  BY LenProperties
<1>2. /\ vs \in Seq(Blocks) /\ Len(vs) = n + 1 /\ vs[n + 1] = w
      /\ \A i \in 1 .. n : vs[i] = ws[i]
  BY <1>1, AppendProperties
<1>3. vs # <<>>
  BY <1>1, <1>2
<1>4. EndOf(vs) = w.offset + w.size
  BY <1>2, <1>3 DEF EndOf
<1>5. vs[1].offset = 0
  <2>1. CASE n = 0
    <3>1. ws = <<>>
      BY <1>1, <2>1, EmptySeq
    <3> QED BY <1>2, <2>1, <3>1 DEF EndOf
  <2>2. CASE n # 0
    <3>1. ws # <<>> /\ 1 \in 1 .. n
      BY <1>1, <2>2
    <3> QED BY <1>2, <3>1 DEF Chained
  <2> QED BY <2>1, <2>2
<1>6. ASSUME NEW i \in 1 .. (n + 1) - 1 PROVE vs[i + 1].offset = vs[i].offset + vs[i].size
  <2>1. CASE i = n
    <3>1. ws # <<>> /\ n \in 1 .. n
      BY <1>1, <2>1
    <3>2. EndOf(ws) = ws[n].offset + ws[n].size
      BY <1>1, <3>1 DEF EndOf
    <3> QED BY <1>2, <2>1, <3>1, <3>2
  <2>2. CASE i # n
    <3>1. i \in 1 .. n - 1 /\ i \in 1 .. n /\ i + 1 \in 1 .. n
      BY <2>2
    <3>2. ws[i + 1].offset = ws[i].offset + ws[i].size
      BY <1>1, <3>1 DEF Chained
    <3> QED BY <1>2, <3>1, <3>2
  <2> QED BY <2>1, <2>2
<1>7. Chained(vs)
  BY <1>2, <1>5, <1>6 DEF Chained
<1>8. KeysOfBlocks(vs) \subseteq KeysOfBlocks(ws) \cup KeysOf(w.pairs)
  <2>1. ASSUME NEW j \in 1 .. n + 1
        PROVE  KeysOf(vs[j].pairs) \subseteq KeysOfBlocks(ws) \cup KeysOf(w.pairs)
    <3>1. CASE j = n + 1
      BY <1>2, <3>1
    <3>2. CASE j # n + 1
      <4>1. j \in 1 .. n
        BY <3>2
      <4> QED BY <1>1, <1>2, <4>1 DEF KeysOfBlocks
    <3> QED BY <3>1, <3>2
  <2> QED BY <1>2, <2>1 DEF KeysOfBlocks
<1> QED BY <1>2, <1>3, <1>4, <1>7, <1>8

(***************************************************************************)
(* The inductive invariant.                                                *)
(***************************************************************************)

\* The history keeps blocks one behind the other.
HistoryOK == pending \in Pairs /\ written \in Seq(Blocks) /\ Chained(written)

\* While the builder is at work, the file holds the blocks written and
\* nothing else, and the filter knows the key of every pair.
Building ==
    builder = "building" =>
        /\ EndOf(written) = Len(file)
        /\ written = <<>> => index_data = <<>>
        /\ block.data # <<>> => pre_key # <<>>
        /\ KeysOf(pending) \subseteq ToSet(key_data)
        /\ KeysOfBlocks(written) \subseteq ToSet(key_data)

\* When it has finished, file and history do not change any more.
Done == Len(file) \in Sizes => FooterLocates /\ NoFalseNegatives

TableInv == TypeOK /\ HistoryOK /\ Building /\ Done

\* Another pair, and its key for the filter.
LEMMA OneMorePair ==
    ASSUME NEW pairs \in Pairs, NEW keys \in Seq(Keys), KeysOf(pairs) \subseteq ToSet(keys),
           NEW key \in Keys, NEW val \in Values
    PROVE  /\ Append(pairs, <<key, val>>) \in Pairs
           /\ Append(keys, key) \in Seq(Keys)
           /\ ToSet(keys) \subseteq ToSet(Append(keys, key))
           /\ KeysOf(Append(pairs, <<key, val>>)) \subseteq ToSet(Append(keys, key))
<1>1. PICK p \in Keys \X Values : p = <<key, val>> /\ p[1] = key
  <2>1. <<key, val>> \in Keys \X Values /\ <<key, val>>[1] = key
    OBVIOUS
  <2> QED BY <2>1
<1>2. PICK m \in Nat, n \in Nat : m = Len(pairs) /\ n = Len(keys)
  BY LenProperties DEF Pairs
<1>3. PICK qs : qs = Append(pairs, p)
  OBVIOUS
<1>4. /\ qs \in Pairs /\ Len(qs) = m + 1 /\ qs[m + 1] = p
      /\ \A i \in 1 .. m : qs[i] = pairs[i]
  BY <1>2, <1>3, AppendProperties DEF Pairs
<1>5. PICK ks : ks = Append(keys, key)
  OBVIOUS
<1>6. /\ ks \in Seq(Keys) /\ Len(ks) = n + 1 /\ ks[n + 1] = key
      /\ \A i \in 1 .. n : ks[i] = keys[i]
  BY <1>2, <1>5, AppendProperties
<1>7. /\ DOMAIN keys = 1 .. n /\ DOMAIN ks = 1 .. n + 1
      /\ DOMAIN pairs = 1 .. m /\ DOMAIN qs = 1 .. m + 1
  BY <1>2, <1>4, <1>6, LenProperties DEF Pairs
<1>8. key \in ToSet(ks) /\ ToSet(keys) \subseteq ToSet(ks)
  <2>1. n + 1 \in 1 .. n + 1 /\ \A i \in 1 .. n : i \in 1 .. n + 1
    OBVIOUS
  <2> QED BY <1>6, <1>7, <2>1 DEF ToSet
<1>9. ASSUME NEW i \in 1 .. m + 1 PROVE qs[i][1] \in ToSet(ks)
  <2>1. CASE i = m + 1
    BY <1>1, <1>4, <1>8, <2>1
  <2>2. CASE i # m + 1
    <3>1. i \in 1 .. m
      BY <2>2
    <3>2. pairs[i][1] \in KeysOf(pairs)
      BY <1>7, <3>1 DEF KeysOf, ToSet
    <3> QED BY <1>4, <1>8, <3>1, <3>2
  <2> QED BY <2>1, <2>2
<1>10. KeysOf(qs) \subseteq ToSet(ks)
  <2>1. ASSUME NEW q \in ToSet(qs) PROVE q[1] \in ToSet(ks)
    BY <1>7, <1>9, <2>1 DEF ToSet
  <2> QED BY <2>1 DEF KeysOf
<1> QED BY <1>1, <1>3, <1>4, <1>5, <1>6, <1>8, <1>10

\* The builder starts with nothing.
LEMMA TableInit == Init => TableInv
<1> SUFFICES ASSUME Init PROVE TableInv
  OBVIOUS
<1> USE DEF Init
<1>1. /\ block.data = <<>> /\ block.groups = <<>> /\ block.pre_key = <<>> /\ block.record_num = 0
  BY DEF EmptyBlock
<1>2. TypeOK
  BY <1>1, EmptySeq DEF TypeOK
<1>3. HistoryOK
  BY DEF HistoryOK, Pairs, Chained
<1>4. KeysOf(<<>>) = {} /\ KeysOfBlocks(<<>>) = {}
  BY DEF KeysOf, KeysOfBlocks, ToSet
<1>5. Building
  BY <1>1, <1>4 DEF Building, EndOf
<1>6. Done
  BY DEF Done, FooterLocates, NoFalseNegatives, Finished
<1> QED BY <1>2, <1>3, <1>5, <1>6 DEF TableInv

\* A block is written.
LEMMA BlockOnDisk ==
    ASSUME TableInv, builder = "building", NEW b, BlockType(b), NEW pairs \in Pairs,
           NEW bytes, bytes = FinishDataBlock(b), NEW vs, vs = BlockWritten(bytes, pairs)
    PROVE  /\ bytes \in Seq(Byte)
           /\ vs \in Seq(Blocks)
           /\ vs # <<>>
           /\ Chained(vs)
           /\ EndOf(vs) = Len(file) + Len(bytes)
           /\ file \o bytes \in Seq(Byte)
           /\ Len(file \o bytes) = Len(file) + Len(bytes)
           /\ KeysOfBlocks(vs) \subseteq KeysOfBlocks(written) \cup KeysOf(pairs)
<1>1. bytes \in Seq(Byte)
  BY FinishDataBlockType
<1>2. file \in Seq(Byte)
  BY DEF TableInv, TypeOK
<1>3. PICK m \in Nat, n \in Nat : m = Len(file) /\ n = Len(bytes)
  BY <1>1, <1>2, LenProperties
<1>4. PICK w : w = [offset |-> m, size |-> n, pairs |-> pairs]
  OBVIOUS
<1>5. w \in Blocks /\ w.offset = m /\ w.size = n /\ w.pairs = pairs
  BY <1>4 DEF Blocks
<1>6. written \in Seq(Blocks) /\ Chained(written) /\ EndOf(written) = m
  BY <1>3 DEF TableInv, HistoryOK, Building
<1>7. vs = Append(written, w)
  BY <1>3, <1>4 DEF BlockWritten
<1>8. /\ vs \in Seq(Blocks) /\ vs # <<>> /\ Chained(vs) /\ EndOf(vs) = w.offset + w.size
      /\ KeysOfBlocks(vs) \subseteq KeysOfBlocks(written) \cup KeysOf(w.pairs)
  <2>1. w \in Blocks /\ w.offset = EndOf(written)
    BY <1>5, <1>6
  <2> QED BY <1>6, <1>7, <2>1, OneMoreBlock
<1>9. file \o bytes \in Seq(Byte) /\ Len(file \o bytes) = Len(file) + Len(bytes)
  BY <1>1, <1>2, ConcatProperties
<1> QED BY <1>1, <1>3, <1>5, <1>8, <1>9

\* SSTableBuilder::add keeps the invariant.
LEMMA AddKeeps ==
    ASSUME TableInv, NEW key \in Keys, NEW val \in Values, Add(key, val)
    PROVE  TableInv'
<1>1. /\ builder = "building"
      /\ key_data' = Append(key_data, key)
      /\ parser' = parser
  BY DEF Add
<1>2. BlockType(block) /\ key_data \in Seq(Keys) /\ index_data \in Seq(Byte) /\ file \in Seq(Byte)
  BY DEF TableInv, TypeOK, BlockType
<1>3. /\ pending \in Pairs /\ written \in Seq(Blocks) /\ Chained(written)
      /\ EndOf(written) = Len(file) /\ filter_offset = Len(file)
      /\ written = <<>> => index_data = <<>>
      /\ KeysOf(pending) \subseteq ToSet(key_data)
      /\ KeysOfBlocks(written) \subseteq ToSet(key_data)
  BY <1>1 DEF TableInv, TypeOK, HistoryOK, Building
<1>4. PICK b : b = DataBlockAdd(block, key, val)
  OBVIOUS
<1>5. BlockType(b)
  BY <1>2, <1>4, DataBlockAddType
<1>6. PICK pairs : pairs = Append(pending, <<key, val>>)
  OBVIOUS
<1>7. /\ pairs \in Pairs
      /\ key_data' \in Seq(Keys)
      /\ ToSet(key_data) \subseteq ToSet(key_data')
      /\ KeysOf(pairs) \subseteq ToSet(key_data')
  BY <1>1, <1>2, <1>3, <1>6, OneMorePair
<1>8. key # <<>> /\ key \in Seq(Byte)
  BY TableAssumption, KeyBytes
<1>9. CASE ~(Len(b.data) > MAX_DATA_BLOCK_SIZE)
  <2>1. /\ block' = b /\ pre_key' = key /\ pending' = pairs
        /\ UNCHANGED <<index_data, filter_offset, file, builder, written>>
    BY <1>4, <1>6, <1>9 DEF Add
  <2>2. TypeOK'
    BY <1>1, <1>2, <1>3, <1>5, <1>7, <2>1 DEF TypeOK, BlockType
  <2>3. HistoryOK'
    BY <1>3, <1>7, <2>1 DEF HistoryOK
  <2>4. Building'
    BY <1>1, <1>3, <1>7, <1>8, <2>1 DEF Building
  <2>5. Done'
    BY <1>1, <2>1 DEF Done, FooterLocates, NoFalseNegatives, Finished
  <2> QED BY <2>2, <2>3, <2>4, <2>5 DEF TableInv
<1>10. CASE Len(b.data) > MAX_DATA_BLOCK_SIZE
  <2>1. WriteBlock(b, key, pairs)
    BY <1>4, <1>6, <1>10 DEF Add
  <2>2. PICK bytes : bytes = FinishDataBlock(b)
    OBVIOUS
  <2>3. PICK vs : vs = BlockWritten(bytes, pairs)
    OBVIOUS
  <2>4. /\ bytes \in Seq(Byte) /\ vs \in Seq(Blocks) /\ vs # <<>> /\ Chained(vs)
        /\ EndOf(vs) = Len(file) + Len(bytes)
        /\ file \o bytes \in Seq(Byte) /\ Len(file \o bytes) = Len(file) + Len(bytes)
        /\ KeysOfBlocks(vs) \subseteq KeysOfBlocks(written) \cup KeysOf(pairs)
    BY <1>1, <1>5, <1>7, <2>2, <2>3, BlockOnDisk
  <2>5. file' = file \o bytes /\ filter_offset' = filter_offset + Len(bytes)
    BY <2>1, <2>2 DEF WriteBlock, NextOffset
  <2>6. CASE pre_key = <<>>
    <3>1. builder' = "aborted" /\ UNCHANGED <<block, pre_key, index_data, historyVars>>
      BY <2>1, <2>6 DEF WriteBlock
    <3>2. TypeOK'
      BY <1>2, <1>7, <2>4, <2>5, <2>6, <3>1 DEF TypeOK, BlockType
    <3>3. HistoryOK'
      BY <1>3, <3>1 DEF HistoryOK, historyVars
    <3>4. Building' /\ Done'
      BY <3>1 DEF Building, Done, FooterLocates, NoFalseNegatives, Finished
    <3> QED BY <3>2, <3>3, <3>4 DEF TableInv
  <2>7. CASE pre_key # <<>>
    <3>1. PICK entry : entry = IndexEntry(FindShortestKey(pre_key, key), Len(bytes), filter_offset')
      OBVIOUS
    <3>2. /\ index_data' = index_data \o entry
          /\ block' = EmptyBlock /\ pre_key' = key /\ pending' = <<>> /\ written' = vs
          /\ builder' = builder
      BY <2>1, <2>2, <2>3, <2>7, <3>1 DEF WriteBlock, NextOffset
    <3>3. index_data' \in Seq(Byte)
      <4>1. pre_key \in Seq(Byte)
        BY KeyBytes DEF TableInv, TypeOK
      <4>2. FindShortestKey(pre_key, key) \in Seq(Byte)
        BY <1>8, <4>1, FindShortestKeyType
      <4>3. Len(bytes) \in Int /\ filter_offset' \in Int
        <5>1. Len(bytes) \in Nat /\ Len(file) \in Nat
          BY <1>2, <2>4, LenProperties
        <5> QED BY <1>3, <2>5, <5>1
      <4>4. entry \in Seq(Byte)
        BY <3>1, <4>2, <4>3, IndexEntryType
      <4> QED BY <1>2, <3>2, <4>4, ConcatProperties
    <3>4. /\ block'.data = <<>> /\ block'.groups = <<>> /\ block'.pre_key = <<>>
          /\ block'.record_num = 0
      BY <3>2 DEF EmptyBlock
    <3>5. filter_offset' = Len(file')
      BY <1>3, <2>4, <2>5
    <3>6. TypeOK'
      BY <1>1, <1>7, <2>4, <2>5, <3>2, <3>3, <3>4, <3>5, EmptySeq DEF TypeOK
    <3>7. HistoryOK'
      BY <2>4, <3>2, EmptySeq DEF HistoryOK, Pairs
    <3>8. KeysOf(<<>>) = {}
      BY DEF KeysOf, ToSet
    <3>9. EndOf(written') = Len(file') /\ KeysOfBlocks(written') \subseteq ToSet(key_data')
      BY <1>3, <1>7, <2>4, <2>5, <3>2
    <3>10. Building'
      BY <2>4, <3>2, <3>4, <3>8, <3>9 DEF Building
    <3>11. Done'
      BY <1>1, <3>2 DEF Done, FooterLocates, NoFalseNegatives, Finished
    <3> QED BY <3>6, <3>7, <3>10, <3>11 DEF TableInv
  <2> QED BY <2>6, <2>7
<1> QED BY <1>9, <1>10

\* The bytes behind the first n.
LEMMA Slice ==
    ASSUME NEW s, NEW n \in Nat, NEW k \in Nat, NEW f \in Seq(Byte), Len(f) = k,
           \A j \in 1 .. k : s[n + j] = f[j]
    PROVE  SubSeq(s, n + 1, n + k) = f
<1>1. ASSUME NEW x \in n + 1 .. n + k PROVE s[x] \in Byte
  <2>1. PICK j \in 1 .. k : x = n + j
    <3>1. x - n \in 1 .. k /\ x = n + (x - n)
      OBVIOUS
    <3> QED BY <3>1
  <2>2. f[j] \in Byte
    BY ElementOfSeq
  <2> QED BY <2>1, <2>2
<1>2. PICK p \in Int, q \in Int : p = n + 1 /\ q = n + k
  OBVIOUS
<1>3. PICK t : t = SubSeq(s, p, q)
  OBVIOUS
<1>4. \A x \in p .. q : s[x] \in Byte
  BY <1>1, <1>2
<1>5. /\ t \in Seq(Byte) /\ Len(t) = IF p <= q THEN q - p + 1 ELSE 0
      /\ \A j \in 1 .. q - p + 1 : t[j] = s[p + j - 1]
  BY <1>3, <1>4, SubSeqProperties
<1>6. q - p + 1 = k
  BY <1>2
<1>7. Len(t) = k
  BY <1>2, <1>5, <1>6
<1>8. ASSUME NEW j \in 1 .. k PROVE t[j] = f[j]
  <2>1. p + j - 1 = n + j
    BY <1>2
  <2>2. t[j] = s[p + j - 1]
    BY <1>5, <1>6
  <2> QED BY <2>1, <2>2
<1>9. t \in Seq(Byte)
  BY <1>5
<1>10. t = f
  BY <1>7, <1>8, <1>9, SeqEqual
<1> QED BY <1>2, <1>3, <1>10

\* What FooterLocates and NoFalseNegatives say of a file s with the blocks vs.
Locates(s, vs) ==
    LET meta == Header(s).MetaBlock
        index == Header(s).IndexBlock
        ends == [i \in 1 .. Len(vs) |-> vs[i].offset + vs[i].size]
    IN  /\ vs[1].offset = 0
        /\ \A i \in 1 .. Len(vs) - 1 : vs[i + 1].offset = ends[i]
        /\ meta.offset = Last(ends)
        /\ meta.size = BitsSize(KEYS_NUM) + 4
        /\ index.offset = meta.offset + meta.size
        /\ index.offset + index.size + 16 = Len(s)

Admits(s, keys) ==
    LET meta == Header(s).MetaBlock
        bits == SubSeq(s, meta.offset + 1, meta.offset + meta.size - 4)
        hash_func_num == DecodeFixed32(s, meta.offset + meta.size - 4)
    IN  \A key \in keys : Exists(key, hash_func_num, bits)

\* Both hold of the file finish_sst leaves.
LEMMA FinishedHolds ==
    ASSUME NEW s, NEW n \in Nat, NEW keys \in Seq(Keys), NEW index \in Seq(Byte),
           FileLayout(s, n, keys, index),
           NEW vs \in Seq(Blocks), vs # <<>>, Chained(vs), EndOf(vs) = n
    PROVE  Locates(s, vs) /\ Admits(s, ToSet(keys))
<1>1. PICK i \in Nat : i = Len(index)
  BY LenProperties
<1>2. PICK k \in Nat : k = BitsSize(KEYS_NUM)
  BY FilterSizes
<1>3. /\ Len(s) = n + k + 4 + i + 16
      /\ Header(s).MetaBlock.offset = n
      /\ Header(s).MetaBlock.size = k + 4
      /\ Header(s).IndexBlock.offset = n + k + 4
      /\ Header(s).IndexBlock.size = i
      /\ \A j \in 1 .. k : s[n + j] = FilterBits(keys)[j]
      /\ DecodeFixed32(s, n + k) = HashFuncNum(KEYS_NUM)
  BY <1>1, <1>2 DEF FileLayout
<1>4. Locates(s, vs)
  <2>1. PICK ends : ends = [x \in 1 .. Len(vs) |-> vs[x].offset + vs[x].size]
    OBVIOUS
  <2>2. PICK l \in Nat : l = Len(vs) /\ l > 0
    BY EmptySeq
  <2>3. Len(ends) = l /\ \A x \in 1 .. l : ends[x] = vs[x].offset + vs[x].size
    BY <2>1, <2>2
  <2>4. Last(ends) = n
    <3>1. Last(ends) = vs[l].offset + vs[l].size
      BY <2>2, <2>3 DEF Last
    <3> QED BY <1>1, <2>2, <3>1 DEF EndOf
  <2>5. vs[1].offset = 0 /\ \A x \in 1 .. l - 1 : vs[x + 1].offset = ends[x]
    <3>1. \A x \in 1 .. l - 1 : x \in 1 .. l
      OBVIOUS
    <3> QED BY <2>2, <2>3, <3>1 DEF Chained
  <2>6. n + k + 4 = n + (k + 4) /\ (n + k + 4) + i + 16 = Len(s)
    BY <1>3
  <2> QED BY <1>2, <1>3, <2>1, <2>2, <2>4, <2>5, <2>6 DEF Locates
<1>5. Admits(s, ToSet(keys))
  <2>1. n + (k + 4) - 4 = n + k
    OBVIOUS
  <2>2. PICK f \in Seq(Byte) : f = FilterBits(keys) /\ Len(f) = k
    BY <1>2, FilterAdmits
  <2>3. SubSeq(s, n + 1, n + k) = f
    <3>1. \A j \in 1 .. k : s[n + j] = f[j]
      BY <1>3, <2>2
    <3> QED BY <2>2, <3>1, Slice
  <2>4. ASSUME NEW key \in ToSet(keys) PROVE Exists(key, HashFuncNum(KEYS_NUM), f)
    <3>1. PICK x \in 1 .. Len(keys) : key = keys[x]
      BY LenProperties DEF ToSet
    <3> QED BY <2>2, <3>1, FilterAdmits
  <2> QED BY <1>3, <2>1, <2>3, <2>4 DEF Admits
<1> QED BY <1>4, <1>5

\* What finish_sst writes: the bytes of the last block, the index, and the
\* blocks with the last one.
FinishParts(bytes, index, vs) ==
    /\ bytes = IF block.data # <<>> THEN FinishDataBlock(block) ELSE <<>>
    /\ index = IF block.data # <<>>
               THEN index_data \o IndexEntry(Bumped(pre_key), Len(bytes), filter_offset)
               ELSE index_data
    /\ vs = IF block.data # <<>> THEN BlockWritten(bytes, pending) ELSE written
    /\ written' = vs
    /\ bytes \in Seq(Byte) /\ vs \in Seq(Blocks) /\ Chained(vs)
    /\ file \o bytes \in Seq(Byte)
    /\ Len(file \o bytes) = filter_offset + Len(bytes)
    /\ EndOf(vs) = Len(file \o bytes)
    /\ KeysOfBlocks(vs) \subseteq ToSet(key_data)
    /\ index \in Seq(Byte)
    /\ index # <<>> => vs # <<>>

\* It does so.
LEMMA FinishWrites ==
    ASSUME TableInv, FinishSST
    PROVE  \E bytes, index, vs : FinishParts(bytes, index, vs)
<1>1. builder = "building" /\ pending' = <<>> /\ parser' = parser
  BY DEF FinishSST
<1>2. BlockType(block) /\ key_data \in Seq(Keys) /\ index_data \in Seq(Byte) /\ file \in Seq(Byte)
  BY DEF TableInv, TypeOK, BlockType
<1>3. /\ pending \in Pairs /\ written \in Seq(Blocks) /\ Chained(written)
      /\ EndOf(written) = Len(file) /\ filter_offset = Len(file)
      /\ written = <<>> => index_data = <<>>
      /\ block.data # <<>> => pre_key # <<>>
      /\ KeysOf(pending) \subseteq ToSet(key_data)
      /\ KeysOfBlocks(written) \subseteq ToSet(key_data)
  BY <1>1 DEF TableInv, TypeOK, HistoryOK, Building
<1>4. PICK bytes : bytes = IF block.data # <<>> THEN FinishDataBlock(block) ELSE <<>>
  OBVIOUS
<1>5. PICK index : index = IF block.data # <<>>
                           THEN index_data \o IndexEntry(Bumped(pre_key), Len(bytes), filter_offset)
                           ELSE index_data
  OBVIOUS
<1>7. PICK vs : vs = IF block.data # <<>> THEN BlockWritten(bytes, pending) ELSE written
  OBVIOUS
<1>8. /\ bytes \in Seq(Byte) /\ vs \in Seq(Blocks) /\ Chained(vs)
      /\ file \o bytes \in Seq(Byte)
      /\ Len(file \o bytes) = filter_offset + Len(bytes)
      /\ EndOf(vs) = Len(file \o bytes)
      /\ KeysOfBlocks(vs) \subseteq ToSet(key_data)
      /\ index \in Seq(Byte)
      /\ index # <<>> => vs # <<>>
  <2>1. CASE block.data # <<>>
    <3>1. bytes = FinishDataBlock(block) /\ vs = BlockWritten(bytes, pending)
      BY <1>4, <1>7, <2>1
    <3>2. /\ bytes \in Seq(Byte) /\ vs \in Seq(Blocks) /\ vs # <<>> /\ Chained(vs)
          /\ EndOf(vs) = Len(file) + Len(bytes)
          /\ file \o bytes \in Seq(Byte) /\ Len(file \o bytes) = Len(file) + Len(bytes)
          /\ KeysOfBlocks(vs) \subseteq KeysOfBlocks(written) \cup KeysOf(pending)
      BY <1>1, <1>2, <1>3, <3>1, BlockOnDisk
    <3>3. PICK key \in Seq(Byte) : key = Bumped(pre_key)
      <4>1. pre_key \in Seq(Byte) /\ pre_key # <<>>
        BY <1>3, <2>1, KeyBytes DEF TableInv, TypeOK
      <4> QED BY <4>1, BumpedType
    <3>4. Len(bytes) \in Int /\ filter_offset \in Int
      <4>1. Len(bytes) \in Nat /\ Len(file) \in Nat
        BY <1>2, <3>2, LenProperties
      <4> QED BY <1>3, <4>1
    <3>5. IndexEntry(key, Len(bytes), filter_offset) \in Seq(Byte)
      BY <3>4, IndexEntryType
    <3>6. index \in Seq(Byte)
      BY <1>2, <1>5, <2>1, <3>3, <3>5, ConcatProperties
    <3> QED BY <1>3, <3>2, <3>6
  <2>2. CASE block.data = <<>>
    <3>1. bytes = <<>> /\ vs = written /\ index = index_data
      BY <1>4, <1>5, <1>7, <2>2
    <3>2. file \o bytes = file
      BY <1>2, <3>1, ConcatEmptySeq
    <3>3. bytes \in Seq(Byte) /\ Len(bytes) = 0 /\ Len(file) \in Nat
      BY <1>2, <3>1, EmptySeq, LenProperties
    <3> QED BY <1>2, <1>3, <3>1, <3>2, <3>3
  <2> QED BY <2>1, <2>2
<1>9. written' = vs
  BY <1>4, <1>7, Zenon DEF FinishSST
<1>10. FinishParts(bytes, index, vs)
  BY <1>4, <1>5, <1>7, <1>8, <1>9 DEF FinishParts
<1> QED BY <1>10

\* The file it leaves, when there is an index.
LEMMA FinishedLayout ==
    ASSUME TableInv, FinishSST, NEW bytes, NEW index, NEW vs, FinishParts(bytes, index, vs),
           index # <<>>, NEW filter, filter = FilterBlock(key_data)
    PROVE  /\ builder' = "finished"
           /\ block' = EmptyBlock /\ key_data' = <<>> /\ pre_key' = <<>> /\ index_data' = <<>>
           /\ file' \in Seq(Byte)
           /\ Len(file') \in Sizes => FileLayout(file', Len(file \o bytes), key_data, index)
<1>1. key_data \in Seq(Keys)
  BY DEF TableInv, TypeOK
<1>2. /\ bytes = IF block.data # <<>> THEN FinishDataBlock(block) ELSE <<>>
      /\ index = IF block.data # <<>>
                 THEN index_data \o IndexEntry(Bumped(pre_key), Len(bytes), filter_offset)
                 ELSE index_data
  BY DEF FinishParts
<1>3. /\ file \o bytes \in Seq(Byte)
      /\ Len(file \o bytes) = filter_offset + Len(bytes)
      /\ index \in Seq(Byte)
  BY DEF FinishParts
<1>4. filter \in Seq(Byte)
  BY <1>1, FilterBlockProperties
<1>5. /\ builder' = "finished"
      /\ file' = file \o bytes \o filter \o index
                     \o Footer(filter, filter_offset + Len(bytes), index)
      /\ block' = EmptyBlock /\ key_data' = <<>> /\ pre_key' = <<>> /\ index_data' = <<>>
  BY <1>2, Zenon DEF FinishSST
<1>6. PICK body \in Seq(Byte) : body = file \o bytes
  BY <1>3
<1>7. file' = ((body \o filter) \o index) \o Footer(filter, Len(body), index)
  BY <1>3, <1>5, <1>6
<1>8. file' \in Seq(Byte)
  <2>1. body \o filter \in Seq(Byte)
    BY <1>4, ConcatProperties
  <2>2. (body \o filter) \o index \in Seq(Byte)
    BY <1>3, <2>1, ConcatProperties
  <2>3. PICK m \in Nat, n \in Nat, l \in Nat : m = Len(body) /\ n = Len(filter) /\ l = Len(index)
    BY <1>3, <1>4, LenProperties
  <2>4. Footer(filter, Len(body), index) = OffsetInfo(n, m) \o OffsetInfo(l, m + n)
    BY <2>3 DEF Footer
  <2>5. n \in Int /\ m \in Int /\ l \in Int /\ m + n \in Int
    OBVIOUS
  <2>6. OffsetInfo(n, m) \in Seq(Byte) /\ OffsetInfo(l, m + n) \in Seq(Byte)
    BY <2>5, OffsetInfoProperties
  <2>7. Footer(filter, Len(body), index) \in Seq(Byte)
    BY <2>4, <2>6, ConcatProperties
  <2> QED BY <1>7, <2>2, <2>7, ConcatProperties
<1>9. ASSUME Len(file') \in Sizes PROVE FileLayout(file', Len(file \o bytes), key_data, index)
  <2>1. PICK s : s = file'
    OBVIOUS
  <2>2. index \in Seq(Byte)
    BY <1>3
  <2>3. /\ Len(s) \in Sizes
        /\ s = ((body \o FilterBlock(key_data)) \o index)
                    \o Footer(FilterBlock(key_data), Len(body), index)
    BY <1>7, <1>9, <2>1
  <2>4. FileLayout(s, Len(body), key_data, index)
    BY <1>1, <2>2, <2>3, FinishedFile
  <2> QED BY <1>6, <2>1, <2>4
<1> QED BY <1>5, <1>8, <1>9

\* finish_sst keeps the invariant.
LEMMA FinishKeeps ==
    ASSUME TableInv, FinishSST
    PROVE  TableInv'
<1>1. builder = "building" /\ pending' = <<>> /\ parser' = parser
  BY DEF FinishSST
<1>2. key_data \in Seq(Keys) /\ file \in Seq(Byte)
  BY DEF TableInv, TypeOK
<1>3. PICK bytes, index, vs : FinishParts(bytes, index, vs)
  BY FinishWrites
<1>4. /\ bytes = IF block.data # <<>> THEN FinishDataBlock(block) ELSE <<>>
      /\ index = IF block.data # <<>>
                 THEN index_data \o IndexEntry(Bumped(pre_key), Len(bytes), filter_offset)
                 ELSE index_data
  BY <1>3 DEF FinishParts
<1>6. PICK filter : filter = FilterBlock(key_data)
  OBVIOUS
<1>8. /\ bytes \in Seq(Byte) /\ vs \in Seq(Blocks) /\ Chained(vs)
      /\ EndOf(vs) = Len(file \o bytes)
      /\ file \o bytes \in Seq(Byte)
      /\ KeysOfBlocks(vs) \subseteq ToSet(key_data)
      /\ index # <<>> => vs # <<>>
      /\ index \in Seq(Byte)
  BY <1>3 DEF FinishParts
<1>9. written' = vs
  BY <1>3 DEF FinishParts
<1>10. HistoryOK'
  BY <1>1, <1>8, <1>9, EmptySeq DEF HistoryOK, Pairs
<1>11. filter \in Seq(Byte)
  BY <1>2, <1>6, FilterBlockProperties
<1>12. CASE index = <<>>
  <2>1. builder' = "aborted" /\ file' = file \o filter /\ UNCHANGED builderVars
    BY <1>4, <1>6, <1>12, Zenon DEF FinishSST
  <2>2. file' \in Seq(Byte)
    BY <1>2, <1>11, <2>1, ConcatProperties
  <2>3. TypeOK'
    BY <2>1, <2>2 DEF TableInv, TypeOK, builderVars
  <2>4. Building' /\ Done'
    BY <2>1 DEF Building, Done, FooterLocates, NoFalseNegatives, Finished
  <2> QED BY <1>10, <2>3, <2>4 DEF TableInv
<1>13. CASE index # <<>>
  <2>1. /\ builder' = "finished"
        /\ block' = EmptyBlock /\ key_data' = <<>> /\ pre_key' = <<>> /\ index_data' = <<>>
        /\ file' \in Seq(Byte)
        /\ Len(file') \in Sizes => FileLayout(file', Len(file \o bytes), key_data, index)
    BY <1>3, <1>6, <1>13, FinishedLayout
  <2>5. /\ block'.data = <<>> /\ block'.groups = <<>> /\ block'.pre_key = <<>>
        /\ block'.record_num = 0
    BY <2>1 DEF EmptyBlock
  <2>6. TypeOK'
    BY <2>1, <2>5, EmptySeq DEF TypeOK
  <2>7. Building'
    BY <2>1 DEF Building
  <2>8. ASSUME Len(file') \in Sizes PROVE Locates(file', vs) /\ Admits(file', ToSet(key_data))
    <3>1. PICK n \in Nat : n = Len(file \o bytes)
      BY <1>8, LenProperties
    <3>2. vs \in Seq(Blocks) /\ vs # <<>> /\ Chained(vs) /\ EndOf(vs) = n /\ index \in Seq(Byte)
      BY <1>8, <1>13, <3>1
    <3>3. PICK s : s = file'
      OBVIOUS
    <3>4. FileLayout(s, n, key_data, index)
      BY <2>1, <2>8, <3>1, <3>3
    <3>5. Locates(s, vs) /\ Admits(s, ToSet(key_data))
      BY <1>2, <3>2, <3>4, FinishedHolds
    <3> QED BY <3>3, <3>5
  <2>9. ASSUME Len(file') \in Sizes PROVE FooterLocates'
    BY <1>9, <2>8, <2>9 DEF FooterLocates, Locates
  <2>10. ASSUME Len(file') \in Sizes PROVE NoFalseNegatives'
    <3>1. AddedKeys' \subseteq ToSet(key_data)
      BY <1>8, <1>9 DEF AddedKeys, KeysOfBlocks, KeysOf
    <3> QED BY <2>8, <2>10, <3>1 DEF NoFalseNegatives, Admits
  <2>11. Done'
    BY <2>9, <2>10 DEF Done
  <2> QED BY <1>10, <2>6, <2>7, <2>11 DEF TableInv
<1> QED BY <1>12, <1>13

\* Parse leaves all of it alone.
LEMMA UnchangedKeeps ==
    ASSUME TableInv, UNCHANGED <<builderVars, file, builder, historyVars>>
    PROVE  TableInv'
<1> USE DEF builderVars, historyVars
<1>1. TypeOK'
  BY DEF TableInv, TypeOK
<1>2. HistoryOK'
  BY DEF TableInv, HistoryOK
<1>3. Building'
  BY DEF TableInv, Building
<1>4. Done'
  <2>1. AddedKeys' = AddedKeys
    BY DEF AddedKeys
  <2>2. FooterLocates' = FooterLocates
    BY DEF FooterLocates, Finished
  <2>3. NoFalseNegatives' = NoFalseNegatives
    BY <2>1 DEF NoFalseNegatives, Finished
  <2> QED BY <2>2, <2>3 DEF TableInv, Done
<1> QED BY <1>1, <1>2, <1>3, <1>4 DEF TableInv

\* The invariant is inductive.
LEMMA TableStep == TableInv /\ [Next]_vars => TableInv'
<1> SUFFICES ASSUME TableInv, [Next]_vars PROVE TableInv'
  OBVIOUS
<1>1. CASE \E key \in Keys, val \in Values : Add(key, val)
  BY <1>1, AddKeeps
<1>2. CASE FinishSST
  BY <1>2, FinishKeeps
<1>3. CASE Parse
  BY <1>3, UnchangedKeeps DEF Parse
<1>4. CASE UNCHANGED vars
  BY <1>4, UnchangedKeeps DEF vars
<1> QED BY <1>1, <1>2, <1>3, <1>4 DEF Next

LEMMA TableInductive == Spec => []TableInv
  BY TableInit, TableStep, PTL DEF Spec

\* The builders keep to their types, and the offset the builder counts is
\* the number of bytes it has handed to the FileWriter.
THEOREM TableTypes == Spec => []TypeOK
  BY TableInductive, PTL DEF TableInv

\* In a file whose offsets fit the 32-bit OffsetInfo, the footer finish_sst
\* writes says where the blocks end and the filter and the index are.
THEOREM FooterIsRight == Spec => [](Len(file) \in Sizes => FooterLocates)
<1>1. TableInv => (Len(file) \in Sizes => FooterLocates)
  BY DEF TableInv, Done
<1> QED BY <1>1, TableInductive, PTL

\* Such a file has a filter, with its number of hash functions, that admits
\* every key of the table: create_filter and exists look at the same bits.
THEOREM FilterIsComplete == Spec => [](Len(file) \in Sizes => NoFalseNegatives)
<1>1. TableInv => (Len(file) \in Sizes => NoFalseNegatives)
  BY DEF TableInv, Done
<1> QED BY <1>1, TableInductive, PTL

(***************************************************************************)
(* The order of the index keys.                                            *)
(***************************************************************************)
AtMost(s, t) == s = t \/ Less(s, t)

\* Strings are ordered.
LEMMA LessTransitive ==
    ASSUME NEW s \in Seq(Byte), NEW t \in Seq(Byte), NEW u \in Seq(Byte), Less(s, t), Less(t, u)
    PROVE  Less(s, u)
<1>1. PICK a \in Nat, b \in Nat, c \in Nat : a = Len(s) /\ b = Len(t) /\ c = Len(u)
  BY LenProperties
<1>2. PICK i \in 1 .. b : (\A j \in 1 .. i - 1 : j <= a /\ s[j] = t[j]) /\ (i <= a => s[i] < t[i])
  BY <1>1 DEF Less
<1>3. PICK k \in 1 .. c : (\A j \in 1 .. k - 1 : j <= b /\ t[j] = u[j]) /\ (k <= b => t[k] < u[k])
  BY <1>1 DEF Less
<1>4. /\ \A j \in 1 .. a : s[j] \in Int
      /\ \A j \in 1 .. b : t[j] \in Int
      /\ \A j \in 1 .. c : u[j] \in Int
  <2>1. \A x \in Byte : x \in Int
    BY DEF Byte
  <2>2. \A j \in 1 .. a : s[j] \in Byte
    BY <1>1, ElementOfSeq
  <2>3. \A j \in 1 .. b : t[j] \in Byte
    BY <1>1, ElementOfSeq
  <2>4. \A j \in 1 .. c : u[j] \in Byte
    BY <1>1, ElementOfSeq
  <2> QED BY <2>1, <2>2, <2>3, <2>4
<1>5. PICK m \in 1 .. c : m <= i /\ m <= k /\ (m = i \/ m = k)
  <2>1. CASE i <= k
    <3>1. i \in 1 .. c
      BY <2>1
    <3>2. i <= i /\ i <= k
      BY <2>1
    <3> QED BY <3>1, <3>2
  <2>2. CASE k < i
    BY <2>2
  <2> QED BY <2>1, <2>2
<1>6. ASSUME NEW j \in 1 .. m - 1 PROVE j <= a /\ s[j] = u[j]
  <2>1. j \in 1 .. i - 1 /\ j \in 1 .. k - 1
    BY <1>5
  <2> QED BY <1>2, <1>3, <2>1
<1>7. ASSUME m <= a PROVE s[m] < u[m]
  <2>1. m \in 1 .. a /\ m \in 1 .. c /\ m \in 1 .. b
    BY <1>5, <1>7
  <2>2. s[m] \in Int /\ t[m] \in Int /\ u[m] \in Int
    BY <1>4, <2>1
  <2>3. s[m] < t[m] \/ (s[m] = t[m] /\ m # i)
    <3>1. CASE m = i
      BY <1>2, <1>7, <3>1
    <3>2. CASE m # i
      <4>1. m \in 1 .. i - 1
        BY <1>5, <3>2
      <4> QED BY <1>2, <3>2, <4>1
    <3> QED BY <3>1, <3>2
  <2>4. t[m] < u[m] \/ (t[m] = u[m] /\ m # k)
    <3>1. CASE m = k
      <4>1. k <= b
        BY <2>1, <3>1
      <4> QED BY <1>3, <3>1, <4>1
    <3>2. CASE m # k
      <4>1. m \in 1 .. k - 1
        BY <1>5, <3>2
      <4> QED BY <1>3, <3>2, <4>1
    <3> QED BY <3>1, <3>2
  <2> QED BY <1>5, <2>2, <2>3, <2>4
<1> QED BY <1>1, <1>6, <1>7 DEF Less

\* A plain key with one added to its last byte is above the key.
LEMMA BumpedAbove ==
    ASSUME NEW key \in Seq(Byte), key # <<>>, NEW s \in Seq(Byte), Len(s) <= Len(key),
           s # <<>>, \A i \in 1 .. Len(s) : s[i] = key[i], Plain(key)
    PROVE  /\ Less(key, Bumped(s))
           /\ Bumped(s)[Len(s)] = key[Len(s)] + 1
<1>1. PICK n \in Nat, m \in Nat : n = Len(key) /\ m = Len(s) /\ m > 0 /\ m <= n
  BY LenProperties, EmptySeq
<1>2. PICK t : t = Bumped(s)
  OBVIOUS
<1>3. /\ t \in Seq(Byte) /\ Len(t) = m /\ t[m] = (s[m] + 1) % 256
      /\ \A i \in 1 .. m - 1 : t[i] = s[i]
  BY <1>1, <1>2, BumpedType
<1>4. m \in 1 .. m /\ m \in 1 .. n
  BY <1>1
<1>5. key[m] \in 33 .. 254 /\ s[m] = key[m]
  BY <1>1, <1>4 DEF Plain
<1>6. PICK x \in 33 .. 254 : x = key[m]
  BY <1>5
<1>7. (x + 1) % 256 = x + 1
  OBVIOUS
<1>8. t[m] = key[m] + 1 /\ key[m] < t[m]
  BY <1>3, <1>5, <1>6, <1>7
<1>9. \A j \in 1 .. m - 1 : j <= n /\ key[j] = t[j]
  <2> SUFFICES ASSUME NEW j \in 1 .. m - 1 PROVE j <= n /\ key[j] = t[j]
    OBVIOUS
  <2>1. j \in 1 .. m /\ j <= n
    BY <1>1
  <2> QED BY <1>1, <1>3, <2>1
<1>10. Less(key, t)
  BY <1>1, <1>3, <1>4, <1>8, <1>9 DEF Less
<1> QED BY <1>1, <1>2, <1>8, <1>10

\* For plain keys, the key find_shortest_key makes is above the first and
\* not above the second, although it counts agreeing positions behind the
\* common prefix too.
LEMMA ShortestBetween ==
    ASSUME NEW key1 \in Seq(Byte), NEW key2 \in Seq(Byte), key1 # <<>>,
           Plain(key1), Plain(key2), Less(key1, key2)
    PROVE  /\ Less(key1, FindShortestKey(key1, key2))
           /\ AtMost(FindShortestKey(key1, key2), key2)
<1>1. PICK m \in Nat, n \in Nat : m = Len(key1) /\ n = Len(key2) /\ m > 0
  BY LenProperties, EmptySeq
<1>2. PICK i \in 1 .. n : /\ \A j \in 1 .. i - 1 : j <= m /\ key1[j] = key2[j]
                          /\ i <= m => key1[i] < key2[i]
  BY <1>1 DEF Less
<1>3. PICK c \in Nat : c = Min2(m, n) /\ c <= m /\ c <= n /\ (c = m \/ c = n)
  BY DEF Min2
<1>4. PICK S : S = {j \in 1 .. c : key1[j] = key2[j]}
  OBVIOUS
<1>5. PICK cnt \in Nat : cnt = Agree(key1, key2) /\ cnt = Cardinality(S)
  <2>1. Agree(key1, key2) = Cardinality(S)
    BY <1>1, <1>3, <1>4, Zenon DEF Agree, Quantify
  <2>2. Agree(key1, key2) \in Nat
    BY <1>1, AgreeType
  <2> QED BY <2>1, <2>2
<1>6. PICK k : k = FindShortestKey(key1, key2)
  OBVIOUS
<1>7. k = IF cnt = m THEN Append(key1, 32) ELSE Bumped(SubSeq(key1, 1, cnt + 1))
  BY <1>1, <1>5, <1>6, Zenon DEF FindShortestKey, Agree
<1>8. ASSUME NEW a \in Nat PROVE IsFiniteSet(1 .. a) /\ Cardinality(1 .. a) = a
  <2>1. PICK o \in Int : o = 1
    OBVIOUS
  <2>2. IsFiniteSet(o .. a) /\ Cardinality(o .. a) = IF o > a THEN 0 ELSE a - o + 1
    BY FS_Interval
  <2> QED BY <2>1, <2>2
<1>9. CASE i > m
  <2>1. i - 1 = m /\ c = m
    <3>1. ~(i - 1 > m)
      <4> SUFFICES ASSUME i - 1 > m PROVE FALSE
        OBVIOUS
      <4>1. i - 1 \in 1 .. i - 1
        BY <1>1
      <4> QED BY <1>2, <4>1
    <3> QED BY <1>3, <1>9, <3>1
  <2>2. S = 1 .. m
    BY <1>2, <1>4, <2>1
  <2>3. k = Append(key1, 32)
    BY <1>5, <1>7, <1>8, <2>2
  <2>4. k \in Seq(Byte) /\ Len(k) = m + 1 /\ k[m + 1] = 32 /\ \A j \in 1 .. m : k[j] = key1[j]
    <3>1. 32 \in Byte
      BY DEF Byte
    <3> QED BY <1>1, <2>3, <3>1, AppendProperties
  <2>5. Less(key1, k)
    <3>1. m + 1 \in 1 .. m + 1 /\ ~(m + 1 <= m) /\ \A j \in 1 .. (m + 1) - 1 : j <= m /\ j \in 1 .. m
      OBVIOUS
    <3> QED BY <1>1, <2>4, <3>1 DEF Less
  <2>6. Less(k, key2)
    <3>1. i = m + 1
      BY <2>1
    <3>2. PICK y \in Int : y = key2[i] /\ y >= 33
      BY <1>1 DEF Plain
    <3>21. k[i] = 32
      BY <2>4, <3>1
    <3>3. k[i] < key2[i]
      BY <3>2, <3>21
    <3>4. ASSUME NEW j \in 1 .. i - 1 PROVE j <= Len(k) /\ k[j] = key2[j]
      <4>1. j \in 1 .. m /\ j <= m + 1
        BY <3>1
      <4> QED BY <1>2, <2>4, <4>1
    <3> QED BY <1>1, <3>3, <3>4 DEF Less
  <2> QED BY <1>6, <2>5, <2>6 DEF AtMost
<1>10. CASE i <= m
  <2>1. i <= c /\ i \in 1 .. m /\ key1[i] < key2[i] /\ i \in 1 .. n
    BY <1>2, <1>3, <1>10
  <2>2. PICK x \in Int, y \in Int : x = key1[i] /\ y = key2[i]
    <3>1. key1[i] \in 33 .. 254 /\ key2[i] \in 33 .. 254
      BY <1>1, <2>1 DEF Plain
    <3>2. \A z \in 33 .. 254 : z \in Int
      OBVIOUS
    <3> QED BY <3>1, <3>2, Zenon
  <2>21. x < y
    BY <2>1, <2>2
  <2>3. i \notin S
    BY <1>4, <2>2, <2>21
  <2>4. S \subseteq (1 .. m) \ {i}
    BY <1>3, <1>4, <2>3
  <2>5. (1 .. i - 1) \subseteq S
    BY <1>2, <1>3, <1>4, <2>1
  <2>6. cnt <= m - 1
    <3>1. /\ IsFiniteSet((1 .. m) \ {i})
          /\ Cardinality((1 .. m) \ {i}) = m - 1
      <4>1. IsFiniteSet(1 .. m) /\ Cardinality(1 .. m) = m
        BY <1>8
      <4> QED BY <2>1, <4>1, FS_RemoveElement
    <3>2. PICK T : T = (1 .. m) \ {i}
      OBVIOUS
    <3>3. IsFiniteSet(T) /\ Cardinality(T) = m - 1 /\ S \in SUBSET T
      BY <2>4, <3>1, <3>2
    <3>4. Cardinality(S) <= Cardinality(T)
      BY <3>3, FS_Subset
    <3> QED BY <1>5, <3>3, <3>4
  <2>7. i - 1 <= cnt
    <3>1. IsFiniteSet(S)
      <4>1. IsFiniteSet(1 .. m) /\ S \subseteq 1 .. m
        BY <1>8, <2>4
      <4> QED BY <4>1, FS_Subset
    <3>2. i - 1 \in Nat
      OBVIOUS
    <3>3. Cardinality(1 .. i - 1) = i - 1
      BY <1>8, <3>2
    <3> QED BY <1>5, <2>5, <3>1, <3>3, FS_Subset
  <2>8. PICK l \in Nat : l = cnt + 1 /\ l <= m /\ i <= l /\ l > 0
    BY <2>6, <2>7
  <2>9. PICK s : s = SubSeq(key1, 1, l)
    OBVIOUS
  <2>10. s \in Seq(Byte) /\ Len(s) = l /\ \A j \in 1 .. l : s[j] = key1[j]
    <3>1. \A j \in 1 .. l : key1[j] \in Byte
      BY <1>1, <2>8, ElementOfSeq
    <3>2. /\ SubSeq(key1, 1, l) \in Seq(Byte)
          /\ Len(SubSeq(key1, 1, l)) = IF 1 <= l THEN l - 1 + 1 ELSE 0
          /\ \A j \in 1 .. l - 1 + 1 : SubSeq(key1, 1, l)[j] = key1[1 + j - 1]
      BY <3>1, SubSeqProperties
    <3>3. l - 1 + 1 = l /\ 1 <= l /\ \A j \in 1 .. l : 1 + j - 1 = j
      BY <2>8
    <3> QED BY <2>9, <3>2, <3>3
  <2>11. s # <<>>
    BY <2>8, <2>10
  <2>12. k = Bumped(s)
    BY <1>7, <2>6, <2>8, <2>9
  <2>13. Less(key1, k) /\ k[l] = key1[l] + 1
    <3>1. Len(s) <= Len(key1) /\ s \in Seq(Byte) /\ \A j \in 1 .. Len(s) : s[j] = key1[j]
      BY <1>1, <2>8, <2>10
    <3> QED BY <2>10, <2>11, <2>12, <3>1, BumpedAbove
  <2>14. /\ k \in Seq(Byte) /\ Len(k) = l
         /\ \A j \in 1 .. l - 1 : k[j] = key1[j]
    <3>1. s \in Seq(Byte)
      BY <2>10
    <3>2. /\ k \in Seq(Byte) /\ Len(k) = Len(s)
          /\ \A j \in 1 .. Len(s) - 1 : k[j] = s[j]
      BY <2>11, <2>12, <3>1, BumpedType
    <3>3. \A j \in 1 .. l - 1 : j \in 1 .. l
      OBVIOUS
    <3> QED BY <2>10, <3>2, <3>3
  <2>15. ASSUME NEW j \in 1 .. i - 1 PROVE j <= l /\ k[j] = key2[j]
    <3>1. j \in 1 .. l - 1 /\ j <= l
      BY <2>8
    <3> QED BY <1>2, <2>14, <3>1
  <2>16. CASE l # i
    <3>1. i \in 1 .. l - 1
      BY <2>8, <2>16
    <3>2. k[i] = key1[i]
      BY <2>14, <3>1
    <3>3. Less(k, key2)
      BY <1>1, <2>1, <2>14, <2>15, <3>2 DEF Less
    <3> QED BY <1>6, <2>13, <3>3 DEF AtMost
  <2>17. CASE l = i /\ k[i] < key2[i]
    <3>1. Less(k, key2)
      BY <1>1, <2>14, <2>15, <2>17 DEF Less
    <3> QED BY <1>6, <2>13, <3>1 DEF AtMost
  <2>18. CASE l = i /\ ~(k[i] < key2[i])
    <3>1. k[i] = key2[i]
      <4>1. k[i] = x + 1 /\ ~(x + 1 < y)
        BY <2>2, <2>13, <2>18
      <4> QED BY <2>2, <2>21, <4>1
    <3>2. ASSUME NEW j \in 1 .. l PROVE k[j] = key2[j]
      <4>1. j = i \/ j \in 1 .. i - 1
        BY <2>18
      <4> QED BY <2>15, <3>1, <4>1
    <3>3. CASE n = l
      <4>1. k = key2
        BY <1>1, <2>14, <3>2, <3>3, SeqEqual
      <4> QED BY <1>6, <2>13, <4>1 DEF AtMost
    <3>4. CASE n # l
      <4>1. l + 1 \in 1 .. n /\ ~(l + 1 <= l) /\ \A j \in 1 .. (l + 1) - 1 : j \in 1 .. l /\ j <= l
        BY <2>18, <3>4
      <4>2. Less(k, key2)
        BY <1>1, <2>14, <3>2, <4>1 DEF Less
      <4> QED BY <1>6, <2>13, <4>2 DEF AtMost
    <3> QED BY <3>3, <3>4
  <2> QED BY <2>16, <2>17, <2>18
<1> QED BY <1>9, <1>10

(***************************************************************************)
(* The loop over the index.                                                *)
(***************************************************************************)

\* What the parser makes of the entry at offset x with a key of size bytes.
EntryRead(s, x, size) ==
    [key |-> SubSeq(s, x + 5, x + 4 + size), at |-> OffsetInfoAt(s, x + 4 + size)]

\* There is an entry at offset x; and the result when there is none.
EntryThere(s, end, x) ==
    ~(x >= end) /\ Inside(s, x, 12) /\ Inside(s, x + 12, DecodeFixed32(s, x))
NoEntry(end, x) ==
    IF x >= end THEN [ok |-> x = end, entries |-> <<>>] ELSE [ok |-> FALSE, entries |-> <<>>]

\* f[x] is what the loop makes of the bytes from x up to end.
Round(f, s, end, x) ==
    IF EntryThere(s, end, x)
    THEN [f[x + EntrySize(DecodeFixed32(s, x))] EXCEPT
             !.entries = <<EntryRead(s, x, DecodeFixed32(s, x))>> \o @]
    ELSE NoEntry(end, x)
IsReading(f, s, end) == f = [x \in Int |-> Round(f, s, end, x)]

\* An entry lies inside the content and takes at least 12 bytes.
LEMMA EntryMoves ==
    ASSUME NEW s \in Seq(Byte), NEW end \in Nat, NEW x \in Int, EntryThere(s, end, x)
    PROVE  /\ x >= 0
           /\ x + EntrySize(DecodeFixed32(s, x)) \in Int
           /\ x + EntrySize(DecodeFixed32(s, x)) > x
<1>1. PICK n \in Nat : n = Len(s)
  BY LenProperties
<1>2. x >= 0 /\ DecodeFixed32(s, x) \in 0 .. n
  BY <1>1 DEF EntryThere, Inside
<1>3. PICK size \in Nat : size = DecodeFixed32(s, x)
  BY <1>2
<1>4. x + EntrySize(size) \in Int /\ x + EntrySize(size) > x
  BY DEF EntrySize
<1> QED BY <1>2, <1>3, <1>4

\* The loop is defined on all content: it only moves forward.
LEMMA ReadingDefined ==
    ASSUME NEW s \in Seq(Byte), NEW end \in Nat
    PROVE  \E f : IsReading(f, s, end)
<1> DEFINE Sat(g, k) == /\ g = [x \in Int |-> g[x]]
                        /\ \A x \in Int : x >= k \/ x < 0 => g[x] = Round(g, s, end, x)
           B == {d \in Nat : d <= end /\ ~ \E g : Sat(g, end - d)}
<1>1. ASSUME NEW x \in Int, x >= end \/ x < 0 PROVE ~EntryThere(s, end, x)
  <2>1. CASE x >= end
    BY <2>1 DEF EntryThere
  <2>2. CASE x < 0
    <3>1. ~(x >= 0)
      BY <2>2
    <3> QED BY <3>1 DEF EntryThere, Inside
  <2> QED BY <1>1, <2>1, <2>2
<1>2. \E g : Sat(g, end - 0)
  <2> DEFINE g == [x \in Int |-> NoEntry(end, x)]
  <2>1. g = [x \in Int |-> g[x]] /\ \A x \in Int : g[x] = NoEntry(end, x)
    OBVIOUS
  <2> HIDE DEF g
  <2>2. ASSUME NEW x \in Int, x >= end - 0 \/ x < 0 PROVE g[x] = Round(g, s, end, x)
    <3>1. ~EntryThere(s, end, x)
      BY <1>1, <2>2
    <3> QED BY <2>1, <3>1 DEF Round
  <2>3. Sat(g, end - 0)
    BY <2>1, <2>2
  <2> HIDE DEF Sat
  <2> QED BY <2>3
<1>3. ASSUME NEW k \in Nat, NEW g, Sat(g, k + 1) PROVE \E h : Sat(h, k)
  <2> DEFINE h == [x \in Int |-> IF x = k THEN Round(g, s, end, k) ELSE g[x]]
  <2>1. /\ h = [x \in Int |-> h[x]]
        /\ \A x \in Int : x # k => h[x] = g[x]
        /\ h[k] = Round(g, s, end, k)
    OBVIOUS
  <2> HIDE DEF h
  <2>2. ASSUME NEW x \in Int, x >= k \/ x < 0 PROVE Round(h, s, end, x) = Round(g, s, end, x)
    <3>1. CASE EntryThere(s, end, x)
      <4>1. PICK y \in Int : y = x + EntrySize(DecodeFixed32(s, x)) /\ y > x /\ x >= 0
        BY <3>1, EntryMoves
      <4>2. h[y] = g[y]
        BY <2>1, <2>2, <4>1
      <4> QED BY <3>1, <4>1, <4>2 DEF Round
    <3>2. CASE ~EntryThere(s, end, x)
      BY <3>2 DEF Round
    <3> QED BY <3>1, <3>2
  <2>3. ASSUME NEW x \in Int, x >= k \/ x < 0 PROVE h[x] = Round(h, s, end, x)
    <3>1. CASE x = k
      BY <2>1, <2>2, <2>3, <3>1
    <3>2. CASE x # k
      <4>1. x >= k + 1 \/ x < 0
        BY <2>3, <3>2
      <4>2. g[x] = Round(g, s, end, x)
        BY <1>3, <4>1
      <4> QED BY <2>1, <2>2, <2>3, <3>2, <4>2
    <3> QED BY <3>1, <3>2
  <2>4. Sat(h, k)
    BY <2>1, <2>3
  <2> HIDE DEF Sat
  <2> QED BY <2>4
<1>4. B = {}
  <2> SUFFICES ASSUME B # {} PROVE FALSE
    OBVIOUS
  <2>1. PICK d \in B : \A e \in B : d <= e
    <3>1. B \in SUBSET Nat
      OBVIOUS
    <3> HIDE DEF B
    <3> QED BY <3>1, LeastNumber
  <2> HIDE DEF Sat
  <2>2. d \in Nat /\ d <= end /\ ~(\E g : Sat(g, end - d)) /\ d # 0
    BY <1>2, <2>1
  <2>3. PICK k \in Nat : k = end - d /\ k + 1 = end - (d - 1) /\ d - 1 \in Nat /\ d - 1 <= end
    BY <2>2
  <2>4. d - 1 \notin B
    <3>1. ~(d <= d - 1)
      BY <2>2
    <3> HIDE DEF B
    <3> QED BY <2>1, <3>1
  <2>5. PICK g : Sat(g, k + 1)
    BY <2>3, <2>4
  <2>6. \E h : Sat(h, k)
    BY <1>3, <2>5
  <2> QED BY <2>2, <2>3, <2>6
<1>5. PICK g : Sat(g, 0)
  <2> HIDE DEF Sat
  <2>1. end \in Nat /\ end <= end /\ end - end = 0
    OBVIOUS
  <2> QED BY <1>4, <2>1
<1>6. \A x \in Int : g[x] = Round(g, s, end, x)
  <2>1. \A x \in Int : x >= 0 \/ x < 0
    OBVIOUS
  <2> QED BY <1>5, <2>1
<1>7. g = [x \in Int |-> g[x]]
  BY <1>5
<1>8. IsReading(g, s, end)
  BY <1>6, <1>7 DEF IsReading
<1> QED BY <1>8

\* IndexBlocks is such a reading.
LEMMA IndexBlocksReads ==
    ASSUME NEW s \in Seq(Byte), NEW begin \in Int, NEW end \in Nat
    PROVE  \E f : IsReading(f, s, end) /\ IndexBlocks(s, begin, end) = f[begin]
<1> DEFINE P(from) ==
              from = [start \in Int |->
                  IF start >= end THEN [ok |-> start = end, entries |-> <<>>]
                  ELSE IF ~Inside(s, start, 12) THEN [ok |-> FALSE, entries |-> <<>>]
                  ELSE IF ~Inside(s, start + 12, DecodeFixed32(s, start))
                       THEN [ok |-> FALSE, entries |-> <<>>]
                       ELSE [from[start + EntrySize(DecodeFixed32(s, start))] EXCEPT
                                !.entries = <<[key |-> SubSeq(s, start + 5, start + 4 + DecodeFixed32(s, start)),
                                               at |-> OffsetInfoAt(s, start + 4 + DecodeFixed32(s, start))]>> \o @]]
           f == CHOOSE from : P(from)
<1>1. \A g : IsReading(g, s, end) <=> P(g)
  <2> SUFFICES ASSUME NEW g PROVE IsReading(g, s, end) <=> P(g)
    OBVIOUS
  <2> DEFINE body(start) ==
                  IF start >= end THEN [ok |-> start = end, entries |-> <<>>]
                  ELSE IF ~Inside(s, start, 12) THEN [ok |-> FALSE, entries |-> <<>>]
                  ELSE IF ~Inside(s, start + 12, DecodeFixed32(s, start))
                       THEN [ok |-> FALSE, entries |-> <<>>]
                       ELSE [g[start + EntrySize(DecodeFixed32(s, start))] EXCEPT
                                !.entries = <<[key |-> SubSeq(s, start + 5, start + 4 + DecodeFixed32(s, start)),
                                               at |-> OffsetInfoAt(s, start + 4 + DecodeFixed32(s, start))]>> \o @]
  <2>1. ASSUME NEW x \in Int PROVE Round(g, s, end, x) = body(x)
    <3>1. CASE x >= end
      BY <3>1, Zenon DEF Round, EntryThere, NoEntry
    <3>2. CASE ~(x >= end) /\ ~Inside(s, x, 12)
      BY <3>2, Zenon DEF Round, EntryThere, NoEntry
    <3>3. CASE ~(x >= end) /\ Inside(s, x, 12) /\ ~Inside(s, x + 12, DecodeFixed32(s, x))
      BY <3>3, Zenon DEF Round, EntryThere, NoEntry
    <3>4. CASE ~(x >= end) /\ Inside(s, x, 12) /\ Inside(s, x + 12, DecodeFixed32(s, x))
      BY <3>4, Zenon DEF Round, EntryThere, EntryRead
    <3> QED BY <3>1, <3>2, <3>3, <3>4, Zenon
  <2>2. P(g) <=> g = [x \in Int |-> body(x)]
    OBVIOUS
  <2> HIDE DEF body, P
  <2>3. [x \in Int |-> Round(g, s, end, x)] = [x \in Int |-> body(x)]
    BY <2>1
  <2> QED BY <2>2, <2>3, Zenon DEF IsReading
<1>2. IndexBlocks(s, begin, end) = f[begin]
  BY DEF IndexBlocks
<1> HIDE DEF P
<1>3. \E g : P(g)
  BY <1>1, ReadingDefined
<1>4. P(CHOOSE from : P(from))
  BY <1>3, Zenon
<1>5. IsReading(f, s, end)
  BY <1>1, <1>4
<1> HIDE DEF f
<1> QED BY <1>2, <1>5

\* The entry for a block of size bytes with this key is at offset o.
EntryAt(s, o, key, size) ==
    /\ \A j \in 1 .. 4 : s[o + j] = EncodeFixed32(Len(key))[j]
    /\ \A j \in 1 .. Len(key) : s[o + 4 + j] = key[j]
    /\ \A j \in 1 .. 4 : s[o + 4 + Len(key) + j] = EncodeFixed32(size)[j]

\* The entries with the keys ks for blocks of the sizes zs start at
\* off[0] and end at off[Len(ks)].
IndexLayout(s, off, ks, zs) ==
    /\ \A i \in 0 .. Len(ks) : off[i] \in Nat
    /\ \A i \in 1 .. Len(ks) :
          /\ off[i] = off[i - 1] + EntrySize(Len(ks[i]))
          /\ EntryAt(s, off[i - 1], ks[i], zs[i])
          /\ off[i] <= off[Len(ks)]

\* A reading that found the entries es.
Found(r, es, E) == r \in [ok : BOOLEAN, entries : Seq(E)] /\ r.ok = TRUE /\ r.entries = es

\* The entries of a result replaced.
LEMMA EntriesReplaced ==
    ASSUME NEW E, NEW r, NEW es, Found(r, es, E), NEW xs \in Seq(E)
    PROVE  Found([r EXCEPT !.entries = xs], xs, E)
  BY DEF Found

\* The loop f is about to read the entry at o, with the entries es at y
\* behind it.
BeforeEntry(s, o, key, size, l, end, y, f, E, e, es, xs) ==
    /\ s \in Seq(Byte) /\ end \in Nat /\ end <= Len(s) /\ IsReading(f, s, end)
    /\ o \in Nat /\ key \in Seq(Byte) /\ size \in Sizes /\ EntryAt(s, o, key, size)
    /\ l \in Nat /\ l \in Sizes /\ l = Len(key)
    /\ y \in Nat /\ y = o + EntrySize(l) /\ y <= end /\ Found(f[y], es, E)
    /\ e = EntryRead(s, o, l) /\ xs \in Seq(E) /\ xs = <<e>> \o es

\* One round of the loop reads one entry.
LEMMA EntryIsRead ==
    ASSUME NEW s, NEW o, NEW key, NEW size, NEW l, NEW end, NEW y, NEW f, NEW E, NEW e, NEW es,
           NEW xs, BeforeEntry(s, o, key, size, l, end, y, f, E, e, es, xs)
    PROVE  /\ Found(f[o], xs, E)
           /\ e.key = key
           /\ e.at.size = size
<1>01. /\ s \in Seq(Byte) /\ end \in Nat /\ end <= Len(s) /\ IsReading(f, s, end)
       /\ o \in Nat /\ key \in Seq(Byte) /\ size \in Sizes /\ EntryAt(s, o, key, size)
  BY DEF BeforeEntry
<1>02. l \in Nat /\ l \in Sizes /\ l = Len(key) /\ y \in Nat /\ y = o + EntrySize(l) /\ y <= end
  BY DEF BeforeEntry
<1>03. Found(f[y], es, E) /\ e = EntryRead(s, o, l) /\ xs \in Seq(E) /\ xs = <<e>> \o es
  BY DEF BeforeEntry
<1>1. PICK n \in Nat : n = Len(s)
  BY <1>01, LenProperties
<1>2. DecodeFixed32(s, o) = l
  <2>1. \A j \in 1 .. 4 : s[o + j] = EncodeFixed32(l)[j]
    BY <1>01, <1>02, <1>1 DEF EntryAt
  <2> QED BY <1>01, <1>02, <2>1, DecodeEncoded
<1>3. o + 12 + l <= end /\ end <= n
  BY <1>01, <1>02, <1>1 DEF EntrySize
<1>4. EntryThere(s, end, o)
  <2>1. Inside(s, o, 12)
    BY <1>01, <1>02, <1>1, <1>3 DEF Inside
  <2>2. Inside(s, o + 12, l)
    BY <1>01, <1>02, <1>1, <1>3 DEF Inside
  <2>3. ~(o >= end)
    BY <1>01, <1>02, <1>3
  <2> QED BY <1>2, <2>1, <2>2, <2>3 DEF EntryThere
<1>6. f[o] = Round(f, s, end, o)
  <2>1. o \in Int
    BY <1>01
  <2>2. f = [x \in Int |-> Round(f, s, end, x)]
    BY <1>01 DEF IsReading
  <2>3. \A x \in Int : [z \in Int |-> Round(f, s, end, z)][x] = Round(f, s, end, x)
    OBVIOUS
  <2> QED BY <2>1, <2>2, <2>3, Zenon
<1>7. PICK r : r = f[y]
  OBVIOUS
<1>8. Round(f, s, end, o) = [r EXCEPT !.entries = <<e>> \o @]
  BY <1>02, <1>03, <1>2, <1>4, <1>7, Zenon DEF Round
<1>9. Found([r EXCEPT !.entries = <<e>> \o @], xs, E)
  <2>1. Found(r, es, E)
    BY <1>03, <1>7
  <2>2. r.entries = es
    BY <2>1 DEF Found
  <2>3. Found([r EXCEPT !.entries = xs], xs, E)
    BY <1>03, <2>1, EntriesReplaced
  <2> QED BY <1>03, <2>2, <2>3, Zenon
<1>10. e.key = SubSeq(s, o + 5, o + 4 + l) /\ e.at.size = DecodeFixed32(s, o + 4 + l)
  BY <1>03 DEF EntryRead, OffsetInfoAt
<1>11. e.key = key
  <2>1. PICK p \in Nat : p = o + 4
    BY <1>01
  <2>2. \A j \in 1 .. l : s[p + j] = key[j]
    BY <1>01, <1>02, <1>1, <2>1 DEF EntryAt
  <2>3. SubSeq(s, p + 1, p + l) = key
    <3> HIDE DEF Sizes
    <3>1. Len(key) = l /\ l \in Nat /\ key \in Seq(Byte)
      BY <1>01, <1>02
    <3> QED BY <2>2, <3>1, Slice
  <2>4. p + 1 = o + 5 /\ p + l = o + 4 + l
    BY <1>01, <1>02, <2>1
  <2> QED BY <1>10, <2>3, <2>4
<1>12. e.at.size = size
  <2>1. PICK p \in Nat : p = o + 4 + l
    BY <1>01, <1>02
  <2>2. \A j \in 1 .. 4 : s[p + j] = EncodeFixed32(size)[j]
    BY <1>01, <1>02, <1>1, <2>1 DEF EntryAt
  <2>3. DecodeFixed32(s, p) = size
    BY <1>01, <2>2, DecodeEncoded
  <2> QED BY <1>10, <2>1, <2>3
<1> QED BY <1>6, <1>8, <1>9, <1>11, <1>12

\* The lengths in an index fit an int, and it lies inside the content.
Fits(s, ks, zs, off) ==
    /\ off[Len(ks)] <= Len(s)
    /\ \A i \in 1 .. Len(ks) : zs[i] \in Sizes /\ Len(ks[i]) \in Sizes

\* The loop finds all entries.
LEMMA IndexIsRead ==
    ASSUME NEW s \in Seq(Byte), NEW ks \in Seq(Seq(Byte)), NEW zs, NEW off,
           IndexLayout(s, off, ks, zs), Fits(s, ks, zs, off),
           NEW res, res = IndexBlocks(s, off[0], off[Len(ks)])
    PROVE  /\ res.ok
           /\ Len(res.entries) = Len(ks)
           /\ \A i \in 1 .. Len(ks) : res.entries[i].key = ks[i] /\ res.entries[i].at.size = zs[i]
<1>1. PICK n \in Nat : n = Len(ks)
  BY LenProperties
<1>2. \A i \in 0 .. n : off[i] \in Nat
  BY <1>1 DEF IndexLayout
<1>3. PICK end \in Nat : end = off[n] /\ end <= Len(s)
  <2>1. n \in 0 .. n
    OBVIOUS
  <2> QED BY <1>1, <1>2, <2>1 DEF Fits
<1>4. PICK f : IsReading(f, s, end) /\ IndexBlocks(s, off[0], end) = f[off[0]]
  <2>1. PICK b \in Int : b = off[0]
    BY <1>2
  <2>2. \E f : IsReading(f, s, end) /\ IndexBlocks(s, b, end) = f[b]
    BY IndexBlocksReads
  <2> QED BY <2>1, <2>2
<1> DEFINE E == {EntryRead(s, x, m) : x \in Int, m \in Int}
           Read(i, es) == /\ es \in Seq(E) /\ Len(es) = n - i
                          /\ Found(f[off[i]], es, E)
                          /\ \A j \in 1 .. n - i : es[j].key = ks[i + j] /\ es[j].at.size = zs[i + j]
           B == {d \in Nat : d <= n /\ ~ \E es : Read(n - d, es)}
<1>5. \A x \in Int, m \in Int : EntryRead(s, x, m) \in E
  OBVIOUS
<1> HIDE DEF E
<1>6. \E es : Read(n - 0, es)
  <2>1. f[end] = [ok |-> TRUE, entries |-> <<>>]
    <3>1. f = [x \in Int |-> Round(f, s, end, x)]
      BY <1>4 DEF IsReading
    <3>2. \A x \in Int : [y \in Int |-> Round(f, s, end, y)][x] = Round(f, s, end, x)
      OBVIOUS
    <3>3. end \in Int /\ end >= end
      OBVIOUS
    <3>4. f[end] = Round(f, s, end, end)
      BY <3>1, <3>2, <3>3, Zenon
    <3>5. ~EntryThere(s, end, end)
      BY <3>3 DEF EntryThere
    <3>6. Round(f, s, end, end) = NoEntry(end, end)
      BY <3>5, Zenon DEF Round
    <3>7. NoEntry(end, end) = [ok |-> TRUE, entries |-> <<>>]
      BY <3>3 DEF NoEntry
    <3> QED BY <3>4, <3>6, <3>7
  <2>2. n - 0 = n /\ n - n = 0
    OBVIOUS
  <2>3. <<>> \in Seq(E) /\ Len(<<>>) = 0
    BY EmptySeq
  <2>5. Found(f[end], <<>>, E)
    BY <2>1, <2>3 DEF Found
  <2>4. Read(n - 0, <<>>)
    BY <1>3, <2>5, <2>2, <2>3
  <2> HIDE DEF Read
  <2> QED BY <2>4
<1>7. ASSUME NEW i \in 1 .. n, NEW es, Read(i, es) PROVE \E xs : Read(i - 1, xs)
  <2>1. PICK o \in Nat : o = off[i - 1]
    <3>1. i - 1 \in 0 .. n
      OBVIOUS
    <3> QED BY <1>2, <3>1
  <2>2. PICK key \in Seq(Byte) : key = ks[i]
    BY <1>1, ElementOfSeq
  <2>3. PICK size \in Sizes : size = zs[i]
    BY <1>1 DEF Fits
  <2>4. PICK l \in Nat : l = Len(key)
    BY LenProperties
  <2>5. /\ EntryAt(s, o, key, size)
        /\ off[i] = o + EntrySize(l)
        /\ off[i] <= end
    BY <1>1, <1>3, <2>1, <2>2, <2>3, <2>4 DEF IndexLayout
  <2>6. l \in Sizes
    BY <1>1, <2>2, <2>4 DEF Fits
  <2>7. PICK e \in E : e = EntryRead(s, o, l)
    BY <1>5, <2>4
  <2>8. PICK y \in Nat : y = o + EntrySize(l) /\ y <= end /\ Found(f[y], es, E)
    BY <1>2, <1>7, <2>5
  <2>81. es \in Seq(E)
    BY <1>7
  <2>82. PICK EE : EE = E
    OBVIOUS
  <2>83. es \in Seq(EE) /\ e \in EE
    BY <2>81, <2>82
  <2>84. PICK v : v = <<e>> \o es
    OBVIOUS
  <2>85. v \in Seq(EE) /\ Len(v) = Len(es) + 1
    BY <2>83, <2>84, ConsProperties
  <2>86. \A j \in 1 .. Len(es) + 1 : v[j] = IF j = 1 THEN e ELSE es[j - 1]
    BY <2>83, <2>84, ConsProperties
  <2>10. PICK xs \in Seq(E) : /\ xs = <<e>> \o es
                              /\ Len(xs) = Len(es) + 1
                              /\ \A j \in 1 .. Len(es) + 1 : xs[j] = IF j = 1 THEN e ELSE es[j - 1]
    BY <2>82, <2>84, <2>85, <2>86
  <2>9. /\ Found(f[o], xs, E)
        /\ e.key = key
        /\ e.at.size = size
    <3>1. IsReading(f, s, end) /\ end <= Len(s) /\ EntryAt(s, o, key, size)
      BY <1>3, <1>4, <2>5
    <3>2. xs = <<e>> \o es
      BY <2>10
    <3>3. y = o + EntrySize(l) /\ y <= end /\ Found(f[y], es, E)
      BY <2>8
    <3>4. BeforeEntry(s, o, key, size, l, end, y, f, E, e, es, xs)
      BY <2>4, <2>6, <2>7, <3>1, <3>2, <3>3 DEF BeforeEntry
    <3> QED BY <3>4, EntryIsRead
  <2>11. PICK m \in Nat : m = n - i /\ Len(es) = m /\ n - (i - 1) = m + 1
    BY <1>7
  <2>12. /\ xs \in Seq(E) /\ Len(xs) = m + 1 /\ xs[1] = e
         /\ \A j \in 1 .. m : xs[j + 1] = es[j]
    BY <2>10, <2>11
  <2>13. ASSUME NEW j \in 1 .. m + 1
         PROVE  xs[j].key = ks[(i - 1) + j] /\ xs[j].at.size = zs[(i - 1) + j]
    <3>1. CASE j = 1
      <4>1. (i - 1) + 1 = i
        OBVIOUS
      <4> QED BY <2>2, <2>3, <2>9, <2>12, <3>1, <4>1
    <3>2. CASE j # 1
      <4>1. PICK p \in 1 .. m : j = p + 1 /\ i + p = (i - 1) + j
        <5>1. j - 1 \in 1 .. m /\ j = (j - 1) + 1 /\ i + (j - 1) = (i - 1) + j
          BY <3>2
        <5> QED BY <5>1
      <4>2. es[p].key = ks[i + p] /\ es[p].at.size = zs[i + p]
        BY <1>7, <2>11
      <4> QED BY <2>12, <4>1, <4>2
    <3> QED BY <3>1, <3>2
  <2>14. Read(i - 1, xs)
    BY <2>1, <2>9, <2>10, <2>11, <2>12, <2>13
  <2> HIDE DEF Read
  <2> QED BY <2>14
<1>8. B = {}
  <2> SUFFICES ASSUME B # {} PROVE FALSE
    OBVIOUS
  <2>1. PICK d \in B : \A e \in B : d <= e
    <3>1. B \in SUBSET Nat
      OBVIOUS
    <3> HIDE DEF B
    <3> QED BY <3>1, LeastNumber
  <2> HIDE DEF Read
  <2>2. d \in Nat /\ d <= n /\ ~(\E es : Read(n - d, es)) /\ d # 0
    BY <1>6, <2>1
  <2>3. PICK i \in 1 .. n : i = n - (d - 1) /\ i - 1 = n - d /\ d - 1 \in Nat /\ d - 1 <= n
    <3>1. n - (d - 1) \in 1 .. n /\ (n - (d - 1)) - 1 = n - d /\ d - 1 \in Nat /\ d - 1 <= n
      BY <2>2
    <3> QED BY <3>1
  <2>4. d - 1 \notin B
    <3>1. ~(d <= d - 1)
      BY <2>2
    <3> HIDE DEF B
    <3> QED BY <2>1, <3>1
  <2>5. PICK es : Read(i, es)
    BY <2>3, <2>4
  <2>6. \E xs : Read(i - 1, xs)
    BY <1>7, <2>5
  <2> QED BY <2>2, <2>3, <2>6
<1>9. PICK es : Read(0, es)
  <2> HIDE DEF Read
  <2>1. n \in Nat /\ n <= n /\ n - n = 0
    OBVIOUS
  <2> QED BY <1>8, <2>1
<1>10. Found(res, es, E)
  BY <1>1, <1>3, <1>4, <1>9
<1>11. res.ok /\ res.entries = es
  BY <1>10 DEF Found
<1>12. n - 0 = n /\ \A i \in 1 .. n : 0 + i = i
  OBVIOUS
<1> QED BY <1>1, <1>9, <1>11, <1>12

\* What IndexBlockBuilder::add appends is such an entry.
LEMMA EntryOfBlock ==
    ASSUME NEW key \in Seq(Byte), NEW size \in Int, NEW offset \in Int,
           NEW s, s = IndexEntry(key, size, offset)
    PROVE  /\ s \in Seq(Byte)
           /\ Len(s) = EntrySize(Len(key))
           /\ EntryAt(s, 0, key, size)
<1>1. PICK n \in Nat : n = Len(key)
  BY LenProperties
<1>2. PICK a \in Seq(Byte) : a = EncodeFixed32(n) /\ Len(a) = 4
  <2>1. n \in Int
    OBVIOUS
  <2>2. EncodeFixed32(n) \in Seq(Byte) /\ Len(EncodeFixed32(n)) = 4
    BY <2>1, EncodeType
  <2> QED BY <2>2
<1>3. PICK o \in Seq(Byte) : /\ o = OffsetInfo(size, offset) /\ Len(o) = 8
                             /\ \A j \in 1 .. 4 : o[j] = EncodeFixed32(size)[j]
  BY OffsetInfoProperties
<1>4. PICK b : b = a \o key
  OBVIOUS
<1>5. /\ b \in Seq(Byte) /\ Len(b) = Len(a) + Len(key)
      /\ \A j \in 1 .. Len(a) : b[j] = a[j]
      /\ \A j \in 1 .. Len(key) : b[Len(a) + j] = key[j]
  BY <1>4, TwoParts
<1>6. /\ b \in Seq(Byte) /\ Len(b) = 4 + n
      /\ \A j \in 1 .. 4 : b[j] = a[j]
      /\ \A j \in 1 .. n : b[4 + j] = key[j]
  BY <1>1, <1>2, <1>5
<1>7. PICK c : c = b \o o
  OBVIOUS
<1>8. /\ c \in Seq(Byte) /\ Len(c) = Len(b) + Len(o)
      /\ \A j \in 1 .. Len(b) : c[j] = b[j]
      /\ \A j \in 1 .. Len(o) : c[Len(b) + j] = o[j]
  <2>1. b \in Seq(Byte)
    BY <1>6
  <2> QED BY <1>7, <2>1, TwoParts
<1>9. s = c
  BY <1>1, <1>2, <1>3, <1>4, <1>7, Zenon DEF IndexEntry
<1>10. Len(c) = EntrySize(n)
  BY <1>3, <1>6, <1>8 DEF EntrySize
<1>11. ASSUME NEW j \in 1 .. 4 PROVE c[0 + j] = EncodeFixed32(n)[j]
  <2>1. 0 + j = j /\ j \in 1 .. 4 + n
    OBVIOUS
  <2> QED BY <1>2, <1>6, <1>8, <2>1
<1>12. ASSUME NEW j \in 1 .. n PROVE c[0 + 4 + j] = key[j]
  <2>1. 0 + 4 + j = 4 + j /\ 4 + j \in 1 .. 4 + n
    OBVIOUS
  <2> QED BY <1>6, <1>8, <2>1
<1>13. ASSUME NEW j \in 1 .. 4 PROVE c[0 + 4 + n + j] = EncodeFixed32(size)[j]
  <2>1. 0 + 4 + n + j = (4 + n) + j /\ j \in 1 .. 8
    OBVIOUS
  <2>2. c[(4 + n) + j] = o[j]
    BY <1>3, <1>6, <1>8, <2>1
  <2> QED BY <1>3, <2>1, <2>2
<1>14. EntryAt(c, 0, key, size)
  BY <1>1, <1>11, <1>12, <1>13 DEF EntryAt
<1> QED BY <1>1, <1>8, <1>9, <1>10, <1>14

\* An entry stays one where the bytes are copied to.
LEMMA EntryMoved ==
    ASSUME NEW s, NEW t, NEW p \in Nat, NEW m \in Nat, \A j \in 1 .. m : t[p + j] = s[j],
           NEW o \in Nat, NEW key \in Seq(Byte), NEW size, EntryAt(s, o, key, size),
           o + EntrySize(Len(key)) <= m, NEW r, r = p + o
    PROVE  EntryAt(t, r, key, size)
<1>1. PICK n \in Nat : n = Len(key)
  BY LenProperties
<1>2. o + 12 + n <= m
  BY <1>1 DEF EntrySize
<1>3. ASSUME NEW j \in 1 .. 4 PROVE t[r + j] = EncodeFixed32(n)[j]
  <2>1. r + j = p + (o + j) /\ o + j \in 1 .. m
    BY <1>2
  <2>2. s[o + j] = EncodeFixed32(n)[j]
    BY <1>1 DEF EntryAt
  <2> QED BY <2>1, <2>2
<1>4. ASSUME NEW j \in 1 .. n PROVE t[r + 4 + j] = key[j]
  <2>1. r + 4 + j = p + (o + 4 + j) /\ o + 4 + j \in 1 .. m
    BY <1>2
  <2>2. s[o + 4 + j] = key[j]
    BY <1>1 DEF EntryAt
  <2> QED BY <2>1, <2>2
<1>5. ASSUME NEW j \in 1 .. 4 PROVE t[r + 4 + n + j] = EncodeFixed32(size)[j]
  <2>1. r + 4 + n + j = p + (o + 4 + n + j) /\ o + 4 + n + j \in 1 .. m
    BY <1>2
  <2>2. s[o + 4 + n + j] = EncodeFixed32(size)[j]
    BY <1>1 DEF EntryAt
  <2> QED BY <2>1, <2>2
<1> QED BY <1>1, <1>3, <1>4, <1>5 DEF EntryAt

\* The index in the first m bytes of s is at offset p of t.
Moved(s, t, p, m, ks, off, zs, pos) ==
    /\ p \in Nat /\ m \in Nat /\ \A j \in 1 .. m : t[p + j] = s[j]
    /\ ks \in Seq(Seq(Byte)) /\ IndexLayout(s, off, ks, zs) /\ off[Len(ks)] <= m
    /\ pos = [i \in 0 .. Len(ks) |-> p + off[i]]

\* So do all the entries of an index.
LEMMA LayoutMoved ==
    ASSUME NEW s, NEW t, NEW p, NEW m, NEW ks, NEW off, NEW zs, NEW pos,
           Moved(s, t, p, m, ks, off, zs, pos)
    PROVE  IndexLayout(t, pos, ks, zs)
<1>01. p \in Nat /\ m \in Nat /\ \A j \in 1 .. m : t[p + j] = s[j]
  BY DEF Moved
<1>02. ks \in Seq(Seq(Byte)) /\ IndexLayout(s, off, ks, zs) /\ off[Len(ks)] <= m
  BY DEF Moved
<1>03. pos = [i \in 0 .. Len(ks) |-> p + off[i]]
  BY DEF Moved
<1>1. PICK n \in Nat : n = Len(ks)
  BY <1>02, LenProperties
<1>2. \A i \in 0 .. n : off[i] \in Nat
  BY <1>02, <1>1 DEF IndexLayout
<1>3. \A i \in 0 .. n : pos[i] = p + off[i]
  BY <1>03, <1>1
<1>4. ASSUME NEW i \in 0 .. n PROVE pos[i] \in Nat
  <2>1. PICK a \in Nat : a = off[i]
    BY <1>2
  <2>2. p + a \in Nat
    BY <1>01
  <2> QED BY <1>3, <2>1, <2>2
<1>5. ASSUME NEW i \in 1 .. n
      PROVE  /\ pos[i] = pos[i - 1] + EntrySize(Len(ks[i]))
             /\ EntryAt(t, pos[i - 1], ks[i], zs[i])
             /\ pos[i] <= pos[n]
  <2>1. i \in 0 .. n /\ i - 1 \in 0 .. n /\ n \in 0 .. n
    OBVIOUS
  <2>2. PICK a \in Nat, b \in Nat, c \in Nat : a = off[i - 1] /\ b = off[i] /\ c = off[n]
    BY <1>2, <2>1
  <2>3. PICK key \in Seq(Byte) : key = ks[i]
    BY <1>02, <1>1, ElementOfSeq
  <2>4. PICK l \in Nat : l = Len(key)
    BY LenProperties
  <2>5. b = a + EntrySize(l) /\ EntryAt(s, a, key, zs[i]) /\ b <= c /\ c <= m
    BY <1>02, <1>1, <2>2, <2>3, <2>4 DEF IndexLayout
  <2>6. EntrySize(l) \in Nat
    BY DEF EntrySize
  <2>7. a + EntrySize(l) <= m
    BY <1>01, <2>5, <2>6
  <2>8. PICK r \in Nat : r = p + a
    BY <1>01
  <2>9. EntryAt(t, r, key, zs[i])
    BY <1>01, <2>4, <2>5, <2>7, <2>8, EntryMoved
  <2>10. pos[i - 1] = r /\ pos[i] = p + b /\ pos[n] = p + c
    BY <1>3, <2>1, <2>2, <2>8
  <2>11. p + b = r + EntrySize(l) /\ p + b <= p + c
    BY <1>01, <2>5, <2>6, <2>8
  <2> QED BY <2>3, <2>4, <2>9, <2>10, <2>11
<1> QED BY <1>1, <1>4, <1>5 DEF IndexLayout

(***************************************************************************)
(* The index describes the blocks.                                         *)
(***************************************************************************)
SizesOf(ws) == [i \in 1 .. Len(ws) |-> ws[i].size]

\* The index consists of one entry for every block of ws, with the keys ks.
Describes(index, ks, ws) ==
    /\ Len(ks) = Len(ws)
    /\ \E off : /\ IndexLayout(index, off, ks, SizesOf(ws))
                /\ off[0] = 0
                /\ off[Len(ks)] = Len(index)

Increasing(ks) == \A i \in 1 .. Len(ks) - 1 : Less(ks[i], ks[i + 1])

\* Its keys increase up to last, if the keys added are plain.
Ordered(ks, keys, last) ==
    (\A k \in keys : Plain(k)) =>
        Increasing(ks) /\ (ks # <<>> => AtMost(ks[Len(ks)], last))

\* One more element, as the definition below wants it.
LEMMA OneMore ==
    ASSUME NEW S, NEW s \in Seq(S), NEW x \in S, NEW t, t = Append(s, x), NEW n, n = Len(s)
    PROVE  t \in Seq(S) /\ Len(t) = n + 1 /\ t[n + 1] = x /\ \A i \in 1 .. n : t[i] = s[i]
  BY AppendProperties

\* One more block and its entry.
LEMMA DescribesMore ==
    ASSUME NEW index \in Seq(Byte), NEW ks \in Seq(Seq(Byte)), NEW ws \in Seq(Blocks),
           Describes(index, ks, ws), NEW key \in Seq(Byte), NEW w \in Blocks,
           NEW offset \in Int, NEW entry, entry = IndexEntry(key, w.size, offset),
           NEW more, more = index \o entry, NEW ls, ls = Append(ks, key),
           NEW vs, vs = Append(ws, w)
    PROVE  Describes(more, ls, vs)
<1>1. PICK n \in Nat : n = Len(ks) /\ n = Len(ws)
  BY LenProperties DEF Describes
<1>2. PICK off : /\ IndexLayout(index, off, ks, SizesOf(ws))
                 /\ off[0] = 0
                 /\ off[n] = Len(index)
  BY <1>1 DEF Describes
<1>3. PICK q \in Nat : q = Len(index)
  BY LenProperties
<1>4. PICK l \in Nat : l = Len(key)
  BY LenProperties
<1>5. PICK size \in Nat : size = w.size
  BY DEF Blocks
<1>6. /\ entry \in Seq(Byte)
      /\ Len(entry) = EntrySize(l)
      /\ EntryAt(entry, 0, key, size)
  <2>1. size \in Int
    OBVIOUS
  <2>2. entry = IndexEntry(key, size, offset)
    BY <1>5
  <2> QED BY <1>4, <2>1, <2>2, EntryOfBlock
<1>7. PICK z \in Nat : z = EntrySize(l)
  BY DEF EntrySize
<1>8. /\ Len(more) = q + z
      /\ \A j \in 1 .. q : more[j] = index[j]
      /\ \A j \in 1 .. z : more[q + j] = entry[j]
  <2>1. entry \in Seq(Byte)
    BY <1>6
  <2>2. /\ Len(more) = Len(index) + Len(entry)
        /\ \A j \in 1 .. Len(index) : more[j] = index[j]
        /\ \A j \in 1 .. Len(entry) : more[Len(index) + j] = entry[j]
    BY <2>1, TwoParts
  <2> QED BY <1>3, <1>6, <1>7, <2>2
<1>9. ls \in Seq(Seq(Byte)) /\ Len(ls) = n + 1 /\ ls[n + 1] = key /\ \A i \in 1 .. n : ls[i] = ks[i]
  <2>1. PICK S : S = Seq(Byte)
    OBVIOUS
  <2>2. ks \in Seq(S) /\ key \in S
    BY <2>1
  <2>3. n = Len(ks)
    BY <1>1
  <2>4. ls \in Seq(S) /\ Len(ls) = n + 1 /\ ls[n + 1] = key /\ \A i \in 1 .. n : ls[i] = ks[i]
    BY <2>2, <2>3, OneMore
  <2> QED BY <2>1, <2>4
<1>10. vs \in Seq(Blocks) /\ Len(vs) = n + 1 /\ vs[n + 1] = w /\ \A i \in 1 .. n : vs[i] = ws[i]
  BY <1>1, AppendProperties
<1>11. PICK ys, zs : ys = SizesOf(ws) /\ zs = SizesOf(vs)
  OBVIOUS
<1>12. /\ \A i \in 1 .. n : ys[i] = ws[i].size
       /\ \A i \in 1 .. n + 1 : zs[i] = vs[i].size
  BY <1>1, <1>10, <1>11 DEF SizesOf
<1>13. zs[n + 1] = size /\ \A i \in 1 .. n : zs[i] = ys[i]
  <2>1. n + 1 \in 1 .. n + 1 /\ \A i \in 1 .. n : i \in 1 .. n + 1
    OBVIOUS
  <2> QED BY <1>5, <1>10, <1>12, <2>1
<1>14. PICK pos : pos = [i \in 0 .. n + 1 |-> IF i <= n THEN off[i] ELSE q + z]
  OBVIOUS
<1>15. pos[n + 1] = q + z /\ \A i \in 0 .. n : pos[i] = off[i]
  <2>1. n + 1 \in 0 .. n + 1 /\ ~(n + 1 <= n) /\ \A i \in 0 .. n : i \in 0 .. n + 1 /\ i <= n
    OBVIOUS
  <2> QED BY <1>14, <2>1
<1>16. \A i \in 0 .. n : off[i] \in Nat
  BY <1>1, <1>2 DEF IndexLayout
<1>17. ASSUME NEW i \in 0 .. n + 1 PROVE pos[i] \in Nat
  <2>1. CASE i = n + 1
    BY <1>15, <2>1
  <2>2. CASE i # n + 1
    <3>1. i \in 0 .. n
      BY <2>2
    <3> QED BY <1>15, <1>16, <3>1
  <2> QED BY <2>1, <2>2
<1>18. ASSUME NEW i \in 1 .. n + 1
       PROVE  /\ pos[i] = pos[i - 1] + EntrySize(Len(ls[i]))
              /\ EntryAt(more, pos[i - 1], ls[i], zs[i])
              /\ pos[i] <= pos[n + 1]
  <2>1. CASE i = n + 1
    <3>1. i - 1 = n /\ n \in 0 .. n
      BY <2>1
    <3>2. pos[i - 1] = q
      BY <1>2, <1>3, <1>15, <3>1
    <3>3. EntryAt(more, q, key, size)
      <4>1. 0 + EntrySize(Len(key)) <= z /\ q = q + 0
        BY <1>4, <1>7
      <4> QED BY <1>6, <1>8, <4>1, EntryMoved
    <3> QED BY <1>4, <1>7, <1>9, <1>13, <1>15, <2>1, <3>2, <3>3
  <2>2. CASE i # n + 1
    <3>1. i \in 1 .. n /\ i \in 0 .. n /\ i - 1 \in 0 .. n
      BY <2>2
    <3>2. PICK a \in Nat, b \in Nat : a = off[i - 1] /\ b = off[i]
      BY <1>16, <3>1
    <3>3. PICK k \in Seq(Byte) : k = ks[i]
      BY <1>1, <3>1, ElementOfSeq
    <3>4. b = a + EntrySize(Len(k)) /\ EntryAt(index, a, k, ys[i]) /\ b <= q
      BY <1>1, <1>2, <1>3, <1>11, <3>1, <3>2, <3>3 DEF IndexLayout
    <3>5. EntryAt(more, a, k, ys[i])
      <4>1. a + EntrySize(Len(k)) <= q /\ a = 0 + a /\ \A j \in 1 .. q : 0 + j = j
        BY <3>4
      <4>2. \A j \in 1 .. q : more[0 + j] = index[j]
        BY <1>8, <4>1
      <4>3. PICK y : y = ys[i]
        OBVIOUS
      <4>4. EntryAt(index, a, k, y)
        BY <3>4, <4>3
      <4>5. EntryAt(more, a, k, y)
        BY <4>1, <4>2, <4>4, EntryMoved
      <4> QED BY <4>3, <4>5
    <3>6. pos[i - 1] = a /\ pos[i] = b /\ ls[i] = k /\ zs[i] = ys[i]
      BY <1>9, <1>13, <1>15, <3>1, <3>2, <3>3
    <3>7. b <= q + z
      BY <3>4
    <3> QED BY <1>15, <3>4, <3>5, <3>6, <3>7
  <2> QED BY <2>1, <2>2
<1>19. IndexLayout(more, pos, ls, zs)
  BY <1>9, <1>17, <1>18 DEF IndexLayout
<1>20. pos[0] = 0 /\ pos[n + 1] = Len(more)
  BY <1>2, <1>8, <1>15
<1> QED BY <1>9, <1>10, <1>11, <1>19, <1>20 DEF Describes

\* A record is not empty, and so there is something in a block once a pair
\* has been added to it.
LEMMA AddedData ==
    ASSUME NEW b, BlockType(b), NEW key \in Keys, NEW val \in Values
    PROVE  DataBlockAdd(b, key, val).data # <<>>
<1>1. PICK shared : shared = IF b.record_num % RESTART_INTERVAL = 0
                             THEN 0 ELSE SharedKeyLen(key, b.pre_key)
  OBVIOUS
<1>2. key \in Seq(Byte) /\ val \in Seq(Byte) /\ b.pre_key \in Seq(Byte)
  BY KeyBytes DEF BlockType
<1>3. PICK n \in Nat, m \in Nat : n = Len(key) /\ m = Len(val)
  BY <1>2, LenProperties
<1>4. shared \in 0 .. n
  BY <1>1, <1>2, <1>3, SharedKeyLenType
<1>5. PICK e \in Seq(Byte) : e = EncodeFixed32(shared) /\ Len(e) = 4
  <2>1. shared \in Int
    BY <1>4
  <2>2. EncodeFixed32(shared) \in Seq(Byte) /\ Len(EncodeFixed32(shared)) = 4
    BY <2>1, EncodeType
  <2> QED BY <2>2
<1>6. PICK f \in Seq(Byte) : f = EncodeFixed32(n - shared)
  <2>1. n - shared \in Int
    BY <1>4
  <2> QED BY <2>1, EncodeType
<1>7. PICK g \in Seq(Byte) : g = EncodeFixed32(m)
  <2>1. m \in Int
    OBVIOUS
  <2> QED BY <2>1, EncodeType
<1>8. PICK h \in Seq(Byte) : h = SubSeq(key, shared + 1, n)
  <2>1. \A i \in shared + 1 .. n : key[i] \in Byte
    BY <1>2, <1>3, <1>4, ElementOfSeq
  <2>2. shared + 1 \in Int /\ n \in Int
    BY <1>4
  <2> QED BY <2>1, <2>2, SubSeqProperties
<1>9. ASSUME NEW s \in Seq(Byte), NEW t \in Seq(Byte), Len(s) > 0 \/ Len(t) > 0
      PROVE  s \o t \in Seq(Byte) /\ Len(s \o t) > 0
  <2>1. s \o t \in Seq(Byte) /\ Len(s \o t) = Len(s) + Len(t)
    BY ConcatProperties
  <2>2. Len(s) \in Nat /\ Len(t) \in Nat
    BY LenProperties
  <2> QED BY <1>9, <2>1, <2>2
<1>10. PICK p \in Seq(Byte) : p = e \o f /\ Len(p) > 0
  <2>1. Len(e) > 0
    BY <1>5
  <2> QED BY <1>9, <2>1
<1>11. PICK q \in Seq(Byte) : q = p \o g /\ Len(q) > 0
  BY <1>9, <1>10
<1>12. PICK r \in Seq(Byte) : r = q \o h /\ Len(r) > 0
  BY <1>9, <1>11
<1>13. PICK u \in Seq(Byte) : u = r \o val /\ Len(u) > 0
  BY <1>2, <1>9, <1>12
<1>14. u = Record(shared, key, val)
  BY <1>3, <1>5, <1>6, <1>7, <1>8, <1>10, <1>11, <1>12, <1>13, Zenon DEF Record
<1>15. PICK d \in Seq(Byte) : d = b.data
  BY DEF BlockType
<1>16. DataBlockAdd(b, key, val).data = d \o u
  BY <1>1, <1>14, <1>15 DEF DataBlockAdd
<1>17. Len(d \o u) > 0
  BY <1>9, <1>13
<1>18. Len(<<>>) = 0 /\ ~(0 > 0)
  BY EmptySeq
<1> QED BY <1>16, <1>17, <1>18

\* The keys of the blocks include those of one more block.
LEMMA BlocksKept ==
    ASSUME NEW ws \in Seq(Blocks), NEW w \in Blocks, NEW vs, vs = Append(ws, w)
    PROVE  KeysOfBlocks(ws) \cup KeysOf(w.pairs) \subseteq KeysOfBlocks(vs)
<1>1. PICK n \in Nat : n = Len(ws)
  BY LenProperties
<1>2. Len(vs) = n + 1 /\ vs[n + 1] = w /\ \A i \in 1 .. n : vs[i] = ws[i]
  BY <1>1, AppendProperties
<1>3. KeysOf(w.pairs) \subseteq KeysOfBlocks(vs)
  <2>1. n + 1 \in 1 .. n + 1
    OBVIOUS
  <2> QED BY <1>2, <2>1 DEF KeysOfBlocks
<1>4. ASSUME NEW j \in 1 .. n PROVE KeysOf(ws[j].pairs) \subseteq KeysOfBlocks(vs)
  <2>1. j \in 1 .. n + 1
    OBVIOUS
  <2> QED BY <1>2, <2>1 DEF KeysOfBlocks
<1>5. KeysOfBlocks(ws) \subseteq KeysOfBlocks(vs)
  BY <1>1, <1>4 DEF KeysOfBlocks
<1> QED BY <1>3, <1>5

\* Every key the filter is given is the key of a pair.
LEMMA KeysKept ==
    ASSUME NEW pairs \in Pairs, NEW keys \in Seq(Keys), NEW key \in Keys, NEW val \in Values,
           NEW R, ToSet(keys) \subseteq R \cup KeysOf(pairs)
    PROVE  /\ ToSet(Append(keys, key)) \subseteq R \cup KeysOf(Append(pairs, <<key, val>>))
           /\ key \in ToSet(Append(keys, key))
<1>1. PICK p \in Keys \X Values : p = <<key, val>> /\ p[1] = key
  <2>1. <<key, val>> \in Keys \X Values /\ <<key, val>>[1] = key
    OBVIOUS
  <2> QED BY <2>1
<1>2. PICK m \in Nat, n \in Nat : m = Len(pairs) /\ n = Len(keys)
  BY LenProperties DEF Pairs
<1>3. PICK qs : qs = Append(pairs, p)
  OBVIOUS
<1>4. qs \in Pairs /\ Len(qs) = m + 1 /\ qs[m + 1] = p /\ \A i \in 1 .. m : qs[i] = pairs[i]
  BY <1>2, <1>3, AppendProperties DEF Pairs
<1>5. PICK ks : ks = Append(keys, key)
  OBVIOUS
<1>6. ks \in Seq(Keys) /\ Len(ks) = n + 1 /\ ks[n + 1] = key /\ \A i \in 1 .. n : ks[i] = keys[i]
  BY <1>2, <1>5, AppendProperties
<1>7. /\ DOMAIN keys = 1 .. n /\ DOMAIN ks = 1 .. n + 1
      /\ DOMAIN pairs = 1 .. m /\ DOMAIN qs = 1 .. m + 1
  BY <1>2, <1>4, <1>6, LenProperties DEF Pairs
<1>8. key \in ToSet(ks) /\ p \in ToSet(qs) /\ ToSet(pairs) \subseteq ToSet(qs)
  <2>1. n + 1 \in 1 .. n + 1 /\ m + 1 \in 1 .. m + 1 /\ \A i \in 1 .. m : i \in 1 .. m + 1
    OBVIOUS
  <2>2. key \in ToSet(ks)
    BY <1>6, <1>7, <2>1 DEF ToSet
  <2>3. p \in ToSet(qs)
    BY <1>4, <1>7, <2>1 DEF ToSet
  <2>4. ASSUME NEW i \in 1 .. m PROVE pairs[i] \in ToSet(qs)
    <3>1. qs[i] = pairs[i] /\ i \in DOMAIN qs
      BY <1>4, <1>7, <2>1
    <3> QED BY <3>1 DEF ToSet
  <2>5. ToSet(pairs) \subseteq ToSet(qs)
    BY <1>7, <2>4 DEF ToSet
  <2> QED BY <2>2, <2>3, <2>5
<1>9. key \in KeysOf(qs) /\ KeysOf(pairs) \subseteq KeysOf(qs)
  BY <1>1, <1>8 DEF KeysOf
<1>10. ASSUME NEW i \in 1 .. n + 1 PROVE ks[i] \in R \cup KeysOf(qs)
  <2>1. CASE i = n + 1
    BY <1>6, <1>9, <2>1
  <2>2. CASE i # n + 1
    <3>1. i \in 1 .. n
      BY <2>2
    <3>2. keys[i] \in ToSet(keys)
      BY <1>7, <3>1 DEF ToSet
    <3> QED BY <1>6, <1>9, <3>1, <3>2
  <2> QED BY <2>1, <2>2
<1>11. ToSet(ks) \subseteq R \cup KeysOf(qs)
  <2>1. ASSUME NEW k \in ToSet(ks) PROVE k \in R \cup KeysOf(qs)
    BY <1>7, <1>10, <2>1 DEF ToSet
  <2> QED BY <2>1
<1> QED BY <1>1, <1>3, <1>5, <1>8, <1>11

\* The keys still increase with one above the limit.
LEMMA IncreasingMore ==
    ASSUME NEW ks \in Seq(Seq(Byte)), NEW k \in Seq(Byte), NEW pre \in Seq(Byte), Less(pre, k),
           Increasing(ks), ks # <<>> => AtMost(ks[Len(ks)], pre), NEW ls, ls = Append(ks, k)
    PROVE  Increasing(ls) /\ ls[Len(ls)] = k
<1>1. PICK n \in Nat : n = Len(ks)
  BY LenProperties
<1>2. PICK S : S = Seq(Byte)
  OBVIOUS
<1>3. Len(ls) = n + 1 /\ ls[n + 1] = k /\ \A i \in 1 .. n : ls[i] = ks[i]
  <2>1. ks \in Seq(S) /\ k \in S
    BY <1>2
  <2> QED BY <1>1, <2>1, OneMore
<1>4. ASSUME NEW i \in 1 .. (n + 1) - 1 PROVE Less(ls[i], ls[i + 1])
  <2>1. CASE i = n
    <3>1. n \in 1 .. n /\ ks # <<>>
      BY <1>1, <2>1
    <3>2. PICK x \in Seq(Byte) : x = ks[n]
      BY <1>1, <3>1, ElementOfSeq
    <3>3. x = pre \/ Less(x, pre)
      BY <1>1, <3>1, <3>2 DEF AtMost
    <3>4. Less(x, k)
      BY <3>3, LessTransitive
    <3> QED BY <1>3, <2>1, <3>1, <3>2, <3>4
  <2>2. CASE i # n
    <3>1. i \in 1 .. n - 1 /\ i \in 1 .. n /\ i + 1 \in 1 .. n
      BY <2>2
    <3>2. Less(ks[i], ks[i + 1])
      BY <1>1, <3>1 DEF Increasing
    <3> QED BY <1>3, <3>1, <3>2
  <2> QED BY <2>1, <2>2
<1> QED BY <1>3, <1>4 DEF Increasing

(***************************************************************************)
(* The invariant for the index and what Parse makes of it.                 *)
(***************************************************************************)

\* While the builder is at work, the index describes the blocks written.
\* No key of the filter is forgotten by the history: the block and its
\* pairs are empty together.
Indexing ==
    builder = "building" =>
        /\ \E ks \in Seq(Seq(Byte)) :
              Describes(index_data, ks, written) /\ Ordered(ks, ToSet(key_data), pre_key)
        /\ block.data = <<>> => pending = <<>>
        /\ ToSet(key_data) \subseteq KeysOfBlocks(written) \cup KeysOf(pending)
        /\ pre_key # <<>> => pre_key \in ToSet(key_data)
        /\ \A i \in 1 .. Len(written) : written[i].size <= Len(file)

\* The footer of s leads to an index at offset n that describes ws.
Readable(s, ws, ks, index, n) ==
    /\ ks \in Seq(Seq(Byte)) /\ index \in Seq(Byte) /\ n \in Nat
    /\ Describes(index, ks, ws)
    /\ Header(s).IndexBlock.offset = n
    /\ Header(s).IndexBlock.size = Len(index)
    /\ n + Len(index) <= Len(s)
    /\ \A j \in 1 .. Len(index) : s[n + j] = index[j]
    /\ \A i \in 1 .. Len(ws) : ws[i].size <= Len(s)
    /\ (\A k \in KeysOfBlocks(ws) : Plain(k)) => Increasing(ks)

Indexed ==
    Finished /\ Len(file) \in Sizes => \E ks, index, n : Readable(file, written, ks, index, n)

\* What Parse makes of the index of s.
IndexIn(s) ==
    LET index == Header(s).IndexBlock
    IN  IF Inside(s, index.offset, index.size)
        THEN IndexBlocks(s, index.offset, index.offset + index.size)
        ELSE [ok |-> FALSE, entries |-> <<>>]

Parsed == parser.run => Finished /\ parser.index = IndexIn(ReadAll(file))

IndexInv == Indexing /\ Indexed /\ Parsed

\* There are no blocks and no entries at first.
LEMMA IndexInit == Init => IndexInv
<1> SUFFICES ASSUME Init PROVE IndexInv
  OBVIOUS
<1>1. /\ block.data = <<>> /\ key_data = <<>> /\ pre_key = <<>> /\ index_data = <<>>
      /\ builder = "building" /\ parser.run = FALSE /\ pending = <<>> /\ written = <<>>
  BY DEF Init, EmptyBlock
<1>2. PICK ks \in Seq(Seq(Byte)) : ks = <<>> /\ Len(ks) = 0
  BY EmptySeq
<1>3. Describes(index_data, ks, written)
  <2>1. PICK off : off = [i \in 0 .. 0 |-> 0]
    OBVIOUS
  <2>2. off[0] = 0 /\ Len(index_data) = 0 /\ Len(written) = 0
    BY <1>1, <2>1, EmptySeq
  <2>3. \A i \in 0 .. 0 : off[i] \in Nat
    BY <2>1
  <2>4. IndexLayout(index_data, off, ks, SizesOf(written))
    BY <1>2, <2>3 DEF IndexLayout
  <2> QED BY <1>2, <2>2, <2>4 DEF Describes
<1>4. Ordered(ks, ToSet(key_data), pre_key)
  BY <1>2 DEF Ordered, Increasing
<1>5. ToSet(key_data) = {} /\ Len(written) = 0
  BY <1>1, EmptySeq DEF ToSet
<1>6. Indexing
  BY <1>1, <1>3, <1>4, <1>5 DEF Indexing
<1>7. Indexed /\ Parsed
  BY <1>1 DEF Indexed, Parsed, Finished
<1> QED BY <1>6, <1>7 DEF IndexInv

\* An entry with this key may follow in the index, if the keys are plain:
\* it is above pre, and not above last.
MayFollow(index, ks, ws, keys, pre, key, more, last) ==
    /\ index \in Seq(Byte) /\ ks \in Seq(Seq(Byte)) /\ ws \in Seq(Blocks)
    /\ Describes(index, ks, ws)
    /\ pre \in Seq(Byte) /\ Ordered(ks, keys, pre) /\ keys \subseteq more
    /\ key \in Seq(Byte) /\ last \in Seq(Byte)
    /\ (\A k \in more : Plain(k)) => Less(pre, key) /\ AtMost(key, last)

\* The index after one more block whose keys are plain.
LEMMA EntryAdded ==
    ASSUME NEW index, NEW ks, NEW ws, NEW keys, NEW pre, NEW key, NEW more, NEW last,
           MayFollow(index, ks, ws, keys, pre, key, more, last),
           NEW w \in Blocks, NEW offset \in Int
    PROVE  \E ls \in Seq(Seq(Byte)) :
              /\ Describes(index \o IndexEntry(key, w.size, offset), ls, Append(ws, w))
              /\ Ordered(ls, more, last)
<1>01. /\ index \in Seq(Byte) /\ ks \in Seq(Seq(Byte)) /\ ws \in Seq(Blocks)
       /\ Describes(index, ks, ws) /\ key \in Seq(Byte)
  BY DEF MayFollow
<1>02. /\ pre \in Seq(Byte) /\ Ordered(ks, keys, pre) /\ keys \subseteq more /\ last \in Seq(Byte)
       /\ (\A k \in more : Plain(k)) => Less(pre, key) /\ AtMost(key, last)
  BY DEF MayFollow
<1>1. PICK ls : ls = Append(ks, key)
  OBVIOUS
<1>2. PICK S : S = Seq(Byte)
  OBVIOUS
<1>3. ls \in Seq(Seq(Byte))
  <2>1. ks \in Seq(S) /\ key \in S
    BY <1>01, <1>2
  <2>2. ls \in Seq(S)
    BY <1>1, <2>1, OneMore
  <2> QED BY <1>2, <2>2
<1>4. Describes(index \o IndexEntry(key, w.size, offset), ls, Append(ws, w))
  BY <1>01, <1>1, DescribesMore
<1>5. ASSUME \A k \in more : Plain(k)
      PROVE  Increasing(ls) /\ (ls # <<>> => AtMost(ls[Len(ls)], last))
  <2>1. Increasing(ks) /\ (ks # <<>> => AtMost(ks[Len(ks)], pre))
    BY <1>02, <1>5 DEF Ordered
  <2>2. Less(pre, key) /\ AtMost(key, last)
    BY <1>02, <1>5
  <2>3. Increasing(ls) /\ ls[Len(ls)] = key
    BY <1>01, <1>02, <1>1, <2>1, <2>2, IncreasingMore
  <2> QED BY <2>2, <2>3
<1> QED BY <1>3, <1>4, <1>5 DEF Ordered

\* The sizes stay below a limit that grows.
LEMMA SizesBelow ==
    ASSUME NEW ws \in Seq(Blocks), NEW m \in Nat, \A i \in 1 .. Len(ws) : ws[i].size <= m,
           NEW w \in Blocks, NEW l \in Nat, m <= l, w.size <= l, NEW vs, vs = Append(ws, w)
    PROVE  \A i \in 1 .. Len(vs) : vs[i].size <= l
<1>1. PICK n \in Nat : n = Len(ws)
  BY LenProperties
<1>2. Len(vs) = n + 1 /\ vs[n + 1] = w /\ \A i \in 1 .. n : vs[i] = ws[i]
  BY <1>1, OneMore
<1>3. ASSUME NEW i \in 1 .. n + 1 PROVE vs[i].size <= l
  <2>1. CASE i = n + 1
    BY <1>2, <2>1
  <2>2. CASE i # n + 1
    <3>1. i \in 1 .. n
      BY <2>2
    <3>2. PICK x \in Nat : x = ws[i].size
      <4>1. PICK v \in Blocks : v = ws[i]
        BY <1>1, <3>1, ElementOfSeq
      <4>2. v.size \in Nat
        BY DEF Blocks
      <4> QED BY <4>1, <4>2
    <3>3. x <= m
      BY <1>1, <3>1, <3>2
    <3> QED BY <1>2, <3>1, <3>2, <3>3
  <2> QED BY <2>1, <2>2
<1> QED BY <1>2, <1>3

\* The record BlockWritten appends.
LEMMA BlockAppended ==
    ASSUME NEW bytes \in Seq(Byte), NEW pairs \in Pairs, file \in Seq(Byte)
    PROVE  \E w \in Blocks : /\ BlockWritten(bytes, pairs) = Append(written, w)
                             /\ w.size = Len(bytes)
                             /\ w.pairs = pairs
<1>1. PICK m \in Nat, n \in Nat : m = Len(file) /\ n = Len(bytes)
  BY LenProperties
<1>2. PICK w : w = [offset |-> m, size |-> n, pairs |-> pairs]
  OBVIOUS
<1>3. w \in Blocks /\ w.size = n /\ w.pairs = pairs
  BY <1>2 DEF Blocks
<1>4. BlockWritten(bytes, pairs) = Append(written, w)
  BY <1>1, <1>2 DEF BlockWritten
<1> QED BY <1>1, <1>3, <1>4

\* SSTableBuilder::add keeps the index in step with the blocks.
LEMMA AddIndexes ==
    ASSUME TableInv, IndexInv, NEW key \in Keys, NEW val \in Values, Add(key, val)
    PROVE  IndexInv'
<1>1. /\ builder = "building" /\ Less(pre_key, key)
      /\ key_data' = Append(key_data, key)
      /\ parser' = parser
  BY DEF Add
<1>2. BlockType(block) /\ key_data \in Seq(Keys) /\ index_data \in Seq(Byte) /\ file \in Seq(Byte)
  BY DEF TableInv, TypeOK, BlockType
<1>3. pending \in Pairs /\ written \in Seq(Blocks) /\ filter_offset = Len(file)
  BY <1>1 DEF TableInv, TypeOK, HistoryOK
<1>4. pre_key \in Seq(Byte) /\ key \in Seq(Byte) /\ key # <<>>
  <2>1. pre_key \in Seq(Byte)
    BY KeyBytes DEF TableInv, TypeOK
  <2> QED BY <2>1, KeyBytes, TableAssumption
<1>5. PICK ks \in Seq(Seq(Byte)) :
         Describes(index_data, ks, written) /\ Ordered(ks, ToSet(key_data), pre_key)
  BY <1>1 DEF IndexInv, Indexing
<1>6. /\ ToSet(key_data) \subseteq KeysOfBlocks(written) \cup KeysOf(pending)
      /\ pre_key # <<>> => pre_key \in ToSet(key_data)
      /\ \A i \in 1 .. Len(written) : written[i].size <= Len(file)
  BY <1>1 DEF IndexInv, Indexing
<1>7. ~parser'.run
  BY <1>1 DEF IndexInv, Parsed, Finished
<1>8. Parsed'
  BY <1>7 DEF Parsed
<1>9. PICK b : b = DataBlockAdd(block, key, val)
  OBVIOUS
<1>10. BlockType(b) /\ b.data # <<>>
  BY <1>2, <1>9, DataBlockAddType, AddedData
<1>11. PICK pairs : pairs = Append(pending, <<key, val>>)
  OBVIOUS
<1>12. pairs \in Pairs
  <2>1. <<key, val>> \in Keys \X Values
    OBVIOUS
  <2> QED BY <1>3, <1>11, <2>1, AppendProperties DEF Pairs
<1>13. /\ ToSet(key_data') \subseteq KeysOfBlocks(written) \cup KeysOf(pairs)
       /\ key \in ToSet(key_data')
  <2>1. PICK R : R = KeysOfBlocks(written)
    OBVIOUS
  <2>2. ToSet(key_data) \subseteq R \cup KeysOf(pending)
    BY <1>6, <2>1
  <2>3. /\ ToSet(Append(key_data, key)) \subseteq R \cup KeysOf(Append(pending, <<key, val>>))
        /\ key \in ToSet(Append(key_data, key))
    BY <1>2, <1>3, <2>2, KeysKept
  <2> QED BY <1>1, <1>11, <2>1, <2>3
<1>14. ToSet(key_data) \subseteq ToSet(key_data')
  <2>1. PICK n \in Nat : n = Len(key_data)
    BY <1>2, LenProperties
  <2>2. PICK t : t = Append(key_data, key)
    OBVIOUS
  <2>3. t \in Seq(Keys) /\ Len(t) = n + 1 /\ \A i \in 1 .. n : t[i] = key_data[i]
    BY <1>2, <2>1, <2>2, OneMore
  <2>4. DOMAIN t = 1 .. n + 1 /\ DOMAIN key_data = 1 .. n
    BY <1>2, <2>1, <2>3, LenProperties
  <2>5. ASSUME NEW i \in 1 .. n PROVE key_data[i] \in ToSet(t)
    <3>1. i \in DOMAIN t /\ t[i] = key_data[i]
      BY <2>3, <2>4
    <3> QED BY <3>1 DEF ToSet
  <2>6. ToSet(key_data) \subseteq ToSet(t)
    BY <2>4, <2>5 DEF ToSet
  <2> QED BY <1>1, <2>2, <2>6
<1>15. CASE ~(Len(b.data) > MAX_DATA_BLOCK_SIZE)
  <2>1. /\ block' = b /\ pre_key' = key /\ pending' = pairs
        /\ UNCHANGED <<index_data, filter_offset, file, builder, written>>
    BY <1>9, <1>11, <1>15 DEF Add
  <2>2. Ordered(ks, ToSet(key_data'), key)
    <3> SUFFICES ASSUME \A k \in ToSet(key_data') : Plain(k)
                 PROVE  Increasing(ks) /\ (ks # <<>> => AtMost(ks[Len(ks)], key))
      BY DEF Ordered
    <3>1. Increasing(ks) /\ (ks # <<>> => AtMost(ks[Len(ks)], pre_key))
      BY <1>5, <1>14 DEF Ordered
    <3>2. ASSUME ks # <<>> PROVE Less(ks[Len(ks)], key)
      <4>1. PICK n \in Nat : n = Len(ks) /\ n \in 1 .. n
        BY <3>2, EmptySeq, LenProperties
      <4>2. PICK x \in Seq(Byte) : x = ks[n]
        BY <4>1, ElementOfSeq
      <4>3. x = pre_key \/ Less(x, pre_key)
        BY <3>1, <3>2, <4>1, <4>2 DEF AtMost
      <4>4. Less(x, key)
        BY <1>1, <1>4, <4>3, LessTransitive
      <4> QED BY <4>1, <4>2, <4>4
    <3> QED BY <3>1, <3>2 DEF AtMost
  <2>3. Describes(index_data', ks, written')
    BY <1>5, <2>1
  <2>4. Indexing'
    BY <1>6, <1>10, <1>13, <2>1, <2>2, <2>3 DEF Indexing
  <2>5. Indexed'
    BY <1>1, <2>1 DEF Indexed, Finished
  <2> QED BY <1>8, <2>4, <2>5 DEF IndexInv
<1>16. CASE Len(b.data) > MAX_DATA_BLOCK_SIZE
  <2>1. WriteBlock(b, key, pairs)
    BY <1>9, <1>11, <1>16 DEF Add
  <2>2. PICK bytes \in Seq(Byte) : bytes = FinishDataBlock(b)
    BY <1>10, FinishDataBlockType
  <2>3. file' = file \o bytes /\ filter_offset' = filter_offset + Len(bytes)
    BY <2>1, <2>2 DEF WriteBlock, NextOffset
  <2>4. PICK m \in Nat, n \in Nat : m = Len(file) /\ n = Len(bytes)
    BY <1>2, LenProperties
  <2>5. Len(file') = m + n /\ filter_offset' = m + n
    <3>1. Len(file \o bytes) = Len(file) + Len(bytes)
      BY <1>2, ConcatProperties
    <3> QED BY <1>3, <2>3, <2>4, <3>1
  <2>6. CASE pre_key = <<>>
    <3>1. builder' = "aborted"
      BY <2>1, <2>6 DEF WriteBlock
    <3>2. Indexing' /\ Indexed'
      BY <3>1 DEF Indexing, Indexed, Finished
    <3> QED BY <1>8, <3>2 DEF IndexInv
  <2>7. CASE pre_key # <<>>
    <3>1. PICK k \in Seq(Byte) : k = FindShortestKey(pre_key, key)
      BY <1>4, FindShortestKeyType
    <3>2. /\ index_data' = index_data \o IndexEntry(k, n, filter_offset')
          /\ block' = EmptyBlock /\ pre_key' = key /\ pending' = <<>>
          /\ written' = BlockWritten(bytes, pairs)
          /\ builder' = builder
      BY <2>1, <2>2, <2>4, <2>7, <3>1 DEF WriteBlock, NextOffset
    <3>3. PICK w \in Blocks : /\ BlockWritten(bytes, pairs) = Append(written, w)
                              /\ w.size = Len(bytes)
                              /\ w.pairs = pairs
      BY <1>2, <1>12, BlockAppended
    <3>4. PICK more : more = ToSet(key_data')
      OBVIOUS
    <3>5. (\A x \in more : Plain(x)) => Less(pre_key, k) /\ AtMost(k, key)
      <4> SUFFICES ASSUME \A x \in more : Plain(x) PROVE Less(pre_key, k) /\ AtMost(k, key)
        OBVIOUS
      <4>1. Plain(pre_key) /\ Plain(key)
        BY <1>6, <1>13, <1>14, <2>7, <3>4
      <4> QED BY <1>1, <1>4, <2>7, <3>1, <4>1, ShortestBetween
    <3>6. PICK offset \in Int : offset = filter_offset'
      BY <2>5
    <3>7. \E ls \in Seq(Seq(Byte)) :
             /\ Describes(index_data \o IndexEntry(k, w.size, offset), ls, Append(written, w))
             /\ Ordered(ls, more, key)
      <4>1. PICK keys : keys = ToSet(key_data)
        OBVIOUS
      <4>2. Ordered(ks, keys, pre_key) /\ keys \subseteq more
        BY <1>5, <1>14, <3>4, <4>1
      <4>3. MayFollow(index_data, ks, written, keys, pre_key, k, more, key)
        BY <1>2, <1>3, <1>4, <1>5, <3>5, <4>2 DEF MayFollow
      <4> QED BY <4>3, EntryAdded
    <3>8. \E ls \in Seq(Seq(Byte)) :
             Describes(index_data', ls, written') /\ Ordered(ls, ToSet(key_data'), pre_key')
      BY <2>4, <3>2, <3>3, <3>4, <3>6, <3>7
    <3>9. ToSet(key_data') \subseteq KeysOfBlocks(written') \cup KeysOf(pending')
      <4>1. KeysOfBlocks(written) \cup KeysOf(w.pairs) \subseteq KeysOfBlocks(Append(written, w))
        BY <1>3, BlocksKept
      <4> QED BY <1>13, <3>2, <3>3, <4>1
    <3>10. \A i \in 1 .. Len(written') : written'[i].size <= Len(file')
      <4>1. PICK l \in Nat : l = m + n /\ m <= l /\ w.size <= l
        <5>1. m + n \in Nat /\ m <= m + n /\ n <= m + n
          OBVIOUS
        <5> QED BY <2>4, <3>3, <5>1
      <4>2. \A i \in 1 .. Len(written) : written[i].size <= m
        BY <1>6, <2>4
      <4>3. PICK vs : vs = Append(written, w)
        OBVIOUS
      <4>4. \A i \in 1 .. Len(vs) : vs[i].size <= l
        BY <1>3, <4>1, <4>2, <4>3, SizesBelow
      <4> QED BY <2>5, <3>2, <3>3, <4>1, <4>3, <4>4
    <3>11. Indexing'
      BY <1>13, <3>2, <3>8, <3>9, <3>10 DEF Indexing
    <3>12. Indexed'
      BY <1>1, <3>2 DEF Indexed, Finished
    <3> QED BY <1>8, <3>11, <3>12 DEF IndexInv
  <2> QED BY <2>6, <2>7
<1> QED BY <1>15, <1>16

\* The index finish_sst writes describes all the blocks.
LEMMA LastIndex ==
    ASSUME TableInv, IndexInv, builder = "building",
           NEW bytes, NEW index, NEW vs, FinishParts(bytes, index, vs)
    PROVE  /\ \E ks \in Seq(Seq(Byte)) :
                 /\ Describes(index, ks, vs)
                 /\ (\A k \in KeysOfBlocks(vs) : Plain(k)) => Increasing(ks)
           /\ \A i \in 1 .. Len(vs) : vs[i].size <= Len(file \o bytes)
<1>1. key_data \in Seq(Keys) /\ index_data \in Seq(Byte) /\ file \in Seq(Byte)
  BY DEF TableInv, TypeOK
<1>2. /\ pending \in Pairs /\ written \in Seq(Blocks) /\ filter_offset = Len(file)
      /\ block.data # <<>> => pre_key # <<>>
  BY DEF TableInv, TypeOK, HistoryOK, Building
<1>3. PICK ks \in Seq(Seq(Byte)) :
         Describes(index_data, ks, written) /\ Ordered(ks, ToSet(key_data), pre_key)
  BY DEF IndexInv, Indexing
<1>4. /\ ToSet(key_data) \subseteq KeysOfBlocks(written) \cup KeysOf(pending)
      /\ pre_key # <<>> => pre_key \in ToSet(key_data)
      /\ block.data = <<>> => pending = <<>>
      /\ \A i \in 1 .. Len(written) : written[i].size <= Len(file)
  BY DEF IndexInv, Indexing
<1>5. bytes \in Seq(Byte)
  BY DEF FinishParts
<1>6. PICK m \in Nat, n \in Nat : m = Len(file) /\ n = Len(bytes)
  BY <1>1, <1>5, LenProperties
<1>7. Len(file \o bytes) = m + n
  <2>1. Len(file \o bytes) = Len(file) + Len(bytes)
    BY <1>1, <1>5, ConcatProperties
  <2> QED BY <1>6, <2>1
<1>8. CASE block.data # <<>>
  <2>1. /\ index = index_data \o IndexEntry(Bumped(pre_key), Len(bytes), filter_offset)
        /\ vs = BlockWritten(bytes, pending)
    BY <1>8 DEF FinishParts
  <2>2. PICK w \in Blocks : /\ BlockWritten(bytes, pending) = Append(written, w)
                            /\ w.size = Len(bytes)
                            /\ w.pairs = pending
    BY <1>1, <1>2, <1>5, BlockAppended
  <2>3. pre_key \in Seq(Byte) /\ pre_key # <<>>
    BY <1>2, <1>8, KeyBytes DEF TableInv, TypeOK
  <2>4. PICK key \in Seq(Byte) : key = Bumped(pre_key)
    BY <2>3, BumpedType
  <2>5. PICK keys : keys = ToSet(key_data)
    OBVIOUS
  <2>6. ASSUME \A k \in keys : Plain(k) PROVE Less(pre_key, key) /\ AtMost(key, key)
    <3>1. Plain(pre_key)
      BY <1>4, <2>3, <2>5, <2>6
    <3>2. Len(pre_key) <= Len(pre_key) /\ \A i \in 1 .. Len(pre_key) : pre_key[i] = pre_key[i]
      <4>1. Len(pre_key) \in Nat
        BY <2>3, LenProperties
      <4> QED BY <4>1
    <3>3. Less(pre_key, key)
      BY <2>3, <2>4, <3>1, <3>2, BumpedAbove
    <3> QED BY <3>3 DEF AtMost
  <2>7. MayFollow(index_data, ks, written, keys, pre_key, key, keys, key)
    BY <1>1, <1>2, <1>3, <2>3, <2>5, <2>6 DEF MayFollow
  <2>8. PICK offset \in Int : offset = filter_offset
    BY <1>2, <1>6
  <2>9. PICK ls \in Seq(Seq(Byte)) :
           /\ Describes(index_data \o IndexEntry(key, w.size, offset), ls, Append(written, w))
           /\ Ordered(ls, keys, key)
    BY <2>7, EntryAdded
  <2>10. Describes(index, ls, vs)
    BY <2>1, <2>2, <2>4, <2>8, <2>9
  <2>11. keys \subseteq KeysOfBlocks(vs)
    <3>1. KeysOfBlocks(written) \cup KeysOf(w.pairs) \subseteq KeysOfBlocks(Append(written, w))
      BY <1>2, BlocksKept
    <3> QED BY <1>4, <2>1, <2>2, <2>5, <3>1
  <2>12. (\A k \in KeysOfBlocks(vs) : Plain(k)) => Increasing(ls)
    BY <2>9, <2>11 DEF Ordered
  <2>13. \A i \in 1 .. Len(vs) : vs[i].size <= m + n
    <3>1. PICK l \in Nat : l = m + n /\ m <= l /\ w.size <= l
      <4>1. m + n \in Nat /\ m <= m + n /\ n <= m + n
        OBVIOUS
      <4> QED BY <1>6, <2>2, <4>1
    <3>2. \A i \in 1 .. Len(written) : written[i].size <= m
      BY <1>4, <1>6
    <3>3. \A i \in 1 .. Len(vs) : vs[i].size <= l
      BY <1>2, <2>1, <2>2, <3>1, <3>2, SizesBelow
    <3> QED BY <3>1, <3>3
  <2> QED BY <1>7, <2>10, <2>12, <2>13
<1>9. CASE block.data = <<>>
  <2>1. index = index_data /\ vs = written /\ bytes = <<>>
    BY <1>9 DEF FinishParts
  <2>2. KeysOf(pending) = {}
    <3>1. pending = <<>>
      BY <1>4, <1>9
    <3> QED BY <3>1 DEF KeysOf, ToSet
  <2>3. (\A k \in KeysOfBlocks(vs) : Plain(k)) => Increasing(ks)
    BY <1>3, <1>4, <2>1, <2>2 DEF Ordered
  <2>4. m + n = Len(file)
    BY <1>6, <2>1, EmptySeq
  <2> QED BY <1>3, <1>4, <1>7, <2>1, <2>3, <2>4
<1> QED BY <1>8, <1>9

\* finish_sst writes it where the footer says.
LEMMA FinishIndexes ==
    ASSUME TableInv, IndexInv, FinishSST
    PROVE  IndexInv'
<1>1. builder = "building" /\ parser' = parser
  BY DEF FinishSST
<1>2. Parsed'
  BY <1>1 DEF IndexInv, Parsed, Finished
<1>3. PICK bytes, index, vs : FinishParts(bytes, index, vs)
  BY FinishWrites
<1>4. /\ bytes = IF block.data # <<>> THEN FinishDataBlock(block) ELSE <<>>
      /\ index = IF block.data # <<>>
                 THEN index_data \o IndexEntry(Bumped(pre_key), Len(bytes), filter_offset)
                 ELSE index_data
      /\ written' = vs
      /\ index \in Seq(Byte)
      /\ file \o bytes \in Seq(Byte)
  BY <1>3 DEF FinishParts
<1>5. CASE index = <<>>
  <2>1. builder' = "aborted"
    BY <1>4, <1>5, Zenon DEF FinishSST
  <2>2. Indexing' /\ Indexed'
    BY <2>1 DEF Indexing, Indexed, Finished
  <2> QED BY <1>2, <2>2 DEF IndexInv
<1>6. CASE index # <<>>
  <2>1. /\ builder' = "finished"
        /\ Len(file') \in Sizes => FileLayout(file', Len(file \o bytes), key_data, index)
    BY <1>3, <1>6, FinishedLayout
  <2>2. Indexing'
    BY <2>1 DEF Indexing
  <2>3. ASSUME Len(file') \in Sizes PROVE \E ks, x, n : Readable(file', written', ks, x, n)
    <3>1. PICK l \in Nat : l = Len(file \o bytes)
      BY <1>4, LenProperties
    <3>2. PICK b \in Nat : b = BitsSize(KEYS_NUM)
      BY FilterSizes
    <3>3. PICK z \in Nat : z = Len(index)
      BY <1>4, LenProperties
    <3>4. PICK s : s = file'
      OBVIOUS
    <3>5. /\ Len(s) = l + b + 4 + z + 16
          /\ Header(s).IndexBlock.offset = l + b + 4
          /\ Header(s).IndexBlock.size = z
          /\ \A j \in 1 .. z : s[l + b + 4 + j] = index[j]
      BY <2>1, <2>3, <3>1, <3>2, <3>3, <3>4 DEF FileLayout
    <3>6. PICK ks \in Seq(Seq(Byte)) :
             /\ Describes(index, ks, vs)
             /\ (\A k \in KeysOfBlocks(vs) : Plain(k)) => Increasing(ks)
      BY <1>1, <1>3, LastIndex
    <3>7. \A i \in 1 .. Len(vs) : vs[i].size <= l
      BY <1>1, <1>3, <3>1, LastIndex
    <3>8. PICK n \in Nat : n = l + b + 4
      OBVIOUS
    <3>9. n + z <= Len(s)
      BY <3>5, <3>8
    <3>10. ASSUME NEW i \in 1 .. Len(vs) PROVE vs[i].size <= Len(s)
      <4>1. vs \in Seq(Blocks)
        BY <1>3 DEF FinishParts
      <4>2. PICK v \in Blocks : v = vs[i]
        BY <4>1, ElementOfSeq
      <4>3. PICK y \in Nat : y = v.size
        BY DEF Blocks
      <4>4. y <= l
        BY <3>7, <4>2, <4>3
      <4>5. y <= l + b + 4 + z + 16
        BY <4>4
      <4> QED BY <3>5, <4>2, <4>3, <4>5
    <3>11. Readable(s, vs, ks, index, n)
      BY <1>4, <3>3, <3>5, <3>6, <3>8, <3>9, <3>10 DEF Readable
    <3> QED BY <1>4, <3>4, <3>11
  <2>4. Indexed'
    BY <2>3 DEF Indexed
  <2> QED BY <1>2, <2>2, <2>4 DEF IndexInv
<1> QED BY <1>5, <1>6

\* Parse reads the file there is.
LEMMA ParseIndexes ==
    ASSUME IndexInv, Parse
    PROVE  IndexInv'
<1>1. /\ builder = "finished"
      /\ parser' = [run |-> TRUE, header |-> Header(ReadAll(file)), index |-> IndexIn(ReadAll(file))]
  BY Zenon DEF Parse, IndexIn
<1>2. UNCHANGED <<block, key_data, pre_key, index_data, filter_offset, file, builder, pending, written>>
  BY DEF Parse, builderVars, historyVars
<1>3. parser'.index = IndexIn(ReadAll(file))
  BY <1>1
<1>4. IndexIn(ReadAll(file))' = IndexIn(ReadAll(file))
  BY <1>2 DEF IndexIn
<1>5. Parsed'
  BY <1>1, <1>2, <1>3, <1>4 DEF Parsed, Finished
<1>6. Indexing'
  BY <1>1, <1>2 DEF Indexing
<1>7. Indexed'
  BY <1>2 DEF IndexInv, Indexed, Finished
<1> QED BY <1>5, <1>6, <1>7 DEF IndexInv

\* A step that changes nothing.
LEMMA IndexStutters ==
    ASSUME IndexInv, UNCHANGED vars
    PROVE  IndexInv'
<1>1. /\ UNCHANGED <<block, key_data, pre_key, index_data, filter_offset, file, builder>>
      /\ UNCHANGED <<parser, pending, written>>
  BY DEF vars, builderVars, historyVars
<1>2. Indexing'
  BY <1>1 DEF IndexInv, Indexing
<1>3. Indexed'
  BY <1>1 DEF IndexInv, Indexed, Finished
<1>4. IndexIn(ReadAll(file))' = IndexIn(ReadAll(file))
  BY <1>1 DEF IndexIn
<1>5. Parsed'
  BY <1>1, <1>4 DEF IndexInv, Parsed, Finished
<1> QED BY <1>2, <1>3, <1>5 DEF IndexInv

\* Together with the invariant of the table it is inductive.
LEMMA IndexStep == TableInv /\ IndexInv /\ [Next]_vars => IndexInv'
<1> SUFFICES ASSUME TableInv, IndexInv, [Next]_vars PROVE IndexInv'
  OBVIOUS
<1>1. CASE \E key \in Keys, val \in Values : Add(key, val)
  BY <1>1, AddIndexes
<1>2. CASE FinishSST
  BY <1>2, FinishIndexes
<1>3. CASE Parse
  BY <1>3, ParseIndexes
<1>4. CASE UNCHANGED vars
  BY <1>4, IndexStutters
<1> QED BY <1>1, <1>2, <1>3, <1>4 DEF Next

LEMMA IndexInductive == Spec => []IndexInv
<1>1. TableInv /\ IndexInv /\ [Next]_vars => IndexInv'
  BY IndexStep
<1> QED BY <1>1, IndexInit, TableInductive, PTL DEF Spec

\* Parse finds the entries of a readable file.
LEMMA ReadFinds ==
    ASSUME NEW s \in Seq(Byte), Len(s) \in Sizes, NEW ws \in Seq(Blocks),
           NEW ks, NEW index, NEW n, Readable(s, ws, ks, index, n), NEW res, res = IndexIn(s)
    PROVE  /\ res.ok
           /\ Len(res.entries) = Len(ws)
           /\ \A i \in 1 .. Len(res.entries) : res.entries[i].at.size = ws[i].size
           /\ (\A k \in KeysOfBlocks(ws) : Plain(k)) =>
                 \A i \in 1 .. Len(res.entries) - 1 :
                    Less(res.entries[i].key, res.entries[i + 1].key)
<1>1. ks \in Seq(Seq(Byte)) /\ index \in Seq(Byte) /\ n \in Nat /\ Describes(index, ks, ws)
  BY DEF Readable
<1>2. PICK z \in Nat, m \in Nat, l \in Nat : z = Len(index) /\ m = Len(s) /\ l = Len(ks)
  BY <1>1, LenProperties
<1>3. /\ Header(s).IndexBlock.offset = n
      /\ Header(s).IndexBlock.size = z
      /\ n + z <= m
      /\ \A j \in 1 .. z : s[n + j] = index[j]
      /\ \A i \in 1 .. Len(ws) : ws[i].size <= m
      /\ (\A k \in KeysOfBlocks(ws) : Plain(k)) => Increasing(ks)
  BY <1>2 DEF Readable
<1>4. l = Len(ws)
  BY <1>1, <1>2 DEF Describes
<1>5. PICK zs : zs = SizesOf(ws) /\ \A i \in 1 .. l : zs[i] = ws[i].size
  <2>1. \A i \in 1 .. l : SizesOf(ws)[i] = ws[i].size
    BY <1>4 DEF SizesOf
  <2> QED BY <2>1
<1>6. PICK off : IndexLayout(index, off, ks, zs) /\ off[0] = 0 /\ off[l] = z
  BY <1>1, <1>2, <1>5 DEF Describes
<1>7. PICK pos : pos = [i \in 0 .. l |-> n + off[i]]
  OBVIOUS
<1>8. pos[0] = n /\ pos[l] = n + z
  <2>1. 0 \in 0 .. l /\ l \in 0 .. l /\ n + 0 = n
    BY <1>1
  <2> QED BY <1>6, <1>7, <2>1
<1>9. IndexLayout(s, pos, ks, zs)
  <2>1. off[Len(ks)] <= z
    BY <1>2, <1>6
  <2>2. pos = [i \in 0 .. Len(ks) |-> n + off[i]]
    BY <1>2, <1>7
  <2>3. Moved(index, s, n, z, ks, off, zs, pos)
    BY <1>1, <1>3, <1>6, <2>1, <2>2 DEF Moved
  <2> QED BY <2>3, LayoutMoved
<1>10. ASSUME NEW x \in Nat, x <= m PROVE x \in Sizes
  <2>1. m < 2147483648
    BY <1>2, SMT DEF Sizes
  <2>2. x < 2147483648
    BY <1>10, <2>1, SMT
  <2> QED BY <2>2, SMT DEF Sizes
<1>11. ASSUME NEW i \in 1 .. l PROVE zs[i] \in Sizes /\ Len(ks[i]) \in Sizes
  <2>1. PICK w \in Blocks : w = ws[i]
    BY <1>4, ElementOfSeq
  <2>2. PICK y \in Nat : y = w.size
    BY DEF Blocks
  <2>3. y <= m
    BY <1>3, <1>4, <2>1, <2>2
  <2>4. zs[i] \in Sizes
    BY <1>5, <1>10, <2>1, <2>2, <2>3
  <2>5. PICK key \in Seq(Byte) : key = ks[i]
    BY <1>1, <1>2, ElementOfSeq
  <2>6. PICK p \in Nat : p = Len(key)
    BY LenProperties
  <2>7. i - 1 \in 0 .. l /\ i \in 0 .. l
    OBVIOUS
  <2>8. PICK a \in Nat, b \in Nat : a = off[i - 1] /\ b = off[i]
    BY <1>2, <1>6, <2>7 DEF IndexLayout
  <2>9. b = a + EntrySize(p) /\ b <= z
    BY <1>2, <1>6, <2>5, <2>6, <2>8 DEF IndexLayout
  <2>10. p <= m
    BY <1>1, <1>3, <2>9 DEF EntrySize
  <2> QED BY <1>10, <2>4, <2>5, <2>6, <2>10
<1>12. res = IndexBlocks(s, n, n + z)
  <2>1. Inside(s, n, z)
    BY <1>1, <1>2, <1>3 DEF Inside
  <2> QED BY <1>3, <2>1, Zenon DEF IndexIn
<1>13. /\ res.ok
       /\ Len(res.entries) = l
       /\ \A i \in 1 .. l : res.entries[i].key = ks[i] /\ res.entries[i].at.size = zs[i]
  <2>1. Fits(s, ks, zs, pos)
    BY <1>2, <1>3, <1>8, <1>11 DEF Fits
  <2>2. res = IndexBlocks(s, pos[0], pos[Len(ks)])
    BY <1>2, <1>8, <1>12
  <2>3. ks \in Seq(Seq(Byte))
    BY <1>1
  <2>4. /\ res.ok
        /\ Len(res.entries) = Len(ks)
        /\ \A i \in 1 .. Len(ks) : res.entries[i].key = ks[i] /\ res.entries[i].at.size = zs[i]
    BY <1>9, <2>1, <2>2, <2>3, IndexIsRead
  <2> QED BY <1>2, <2>4
<1>14. ASSUME \A k \in KeysOfBlocks(ws) : Plain(k), NEW i \in 1 .. l - 1
       PROVE  Less(res.entries[i].key, res.entries[i + 1].key)
  <2>1. Less(ks[i], ks[i + 1])
    BY <1>2, <1>3, <1>14 DEF Increasing
  <2>2. i \in 1 .. l /\ i + 1 \in 1 .. l
    OBVIOUS
  <2> QED BY <1>13, <2>1, <2>2
<1> QED BY <1>4, <1>5, <1>13, <1>14

\* If no byte of the file is a newline and its offsets fit an int, Parse
\* finds one entry for every block, in their order and with their sizes,
\* and the keys of the entries of plain keys increase: find_shortest_key
\* and back() += 1 make keys between those of one block and the next.
THEOREM ParserFindsBlocks == Spec => [](Len(file) \in Sizes => ParseFindsBlocks)
<1>1. ASSUME TableInv, IndexInv, Len(file) \in Sizes PROVE ParseFindsBlocks
  <2> SUFFICES ASSUME parser.run, ReadAll(file) = file
               PROVE  LET entries == parser.index.entries
                      IN  /\ parser.index.ok
                          /\ Len(entries) = Len(written)
                          /\ \A i \in 1 .. Len(entries) : entries[i].at.size = written[i].size
                          /\ (\A key \in AddedKeys : Plain(key)) =>
                                \A i \in 1 .. Len(entries) - 1 : Less(entries[i].key, entries[i + 1].key)
    BY Zenon DEF ParseFindsBlocks
  <2>1. PICK res : res = IndexIn(file) /\ res = parser.index
    BY <1>1 DEF IndexInv, Parsed
  <2>2. PICK ks, index, n : Readable(file, written, ks, index, n)
    BY <1>1 DEF IndexInv, Indexed, Parsed
  <2>3. file \in Seq(Byte) /\ written \in Seq(Blocks)
    BY <1>1 DEF TableInv, TypeOK, HistoryOK
  <2>4. AddedKeys = KeysOfBlocks(written)
    BY DEF AddedKeys, KeysOfBlocks, KeysOf
  <2>5. /\ res.ok
        /\ Len(res.entries) = Len(written)
        /\ \A i \in 1 .. Len(res.entries) : res.entries[i].at.size = written[i].size
        /\ (\A k \in KeysOfBlocks(written) : Plain(k)) =>
              \A i \in 1 .. Len(res.entries) - 1 :
                 Less(res.entries[i].key, res.entries[i + 1].key)
    BY <1>1, <2>1, <2>2, <2>3, ReadFinds
  <2> QED BY <2>1, <2>4, <2>5
<1>2. TableInv /\ IndexInv => (Len(file) \in Sizes => ParseFindsBlocks)
  BY <1>1
<1> QED BY <1>2, TableInductive, IndexInductive, PTL
=============================================================================
