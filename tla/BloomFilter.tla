---------------------------- MODULE BloomFilter ----------------------------
(***************************************************************************)
(* smallkv::BloomFilter over byte strings, and the fixed-width integers of *)
(* utils/codec.  A byte is a number in 0 .. 255 and a byte string a        *)
(* sequence of them; a bit array is a sequence of bytes, bit 0 of a byte   *)
(* the lowest.                                                             *)
(*                                                                         *)
(* The hash is a parameter, and its width too: murmur_hash2 returns 32     *)
(* bits and the code swaps the upper 17 with the lower 15.                 *)
(***************************************************************************)
EXTENDS Integers, Sequences, SequencesExt, FiniteSetsExt

CONSTANTS
    Hash,           \* Hash[key]: what murmur_hash2 returns for a key
    HASH_BITS,      \* the width of a hash; 32 in the code
    HIGH_BITS       \* how far the hash is shifted right to get delta; 17

Byte == 0 .. 255

ASSUME HashAssumption ==
    /\ HASH_BITS \in Nat \ {0}
    /\ HIGH_BITS \in 0 .. HASH_BITS
    /\ \A key \in DOMAIN Hash : Hash[key] \in 0 .. 2 ^ HASH_BITS - 1

(***************************************************************************)
(* The codec.  An int is signed and little endian; DecodeFixed32(s, i) is  *)
(* the one at offset i of s, counting from 0.                              *)
(***************************************************************************)
EncodeFixed32(n) ==
    <<n % 256, (n \div 256) % 256, (n \div 65536) % 256, (n \div 16777216) % 256>>

DecodeFixed32(s, i) ==
    s[i + 1] + 256 * s[i + 2] + 65536 * s[i + 3]
        + 16777216 * (IF s[i + 4] < 128 THEN s[i + 4] ELSE s[i + 4] - 256)

(***************************************************************************)
(* The filter.                                                             *)
(***************************************************************************)

\* The constructor, for the default false_positive of 0.01: 9.585 bits for
\* every key, in whole bytes, and between 1 and 32 hash functions, 0.693
\* for every bit of a key.
BitsSize(keys_num) == (((9585 * keys_num) \div 1000) + 7) \div 8

HashFuncNum(keys_num) ==
    LET bits_per_key == (8 * BitsSize(keys_num)) \div keys_num
        n == (693147 * bits_per_key) \div 1000000
    IN  Max({1, Min({n, 32})})

NoBits(keys_num) == [i \in 1 .. BitsSize(keys_num) |-> 0]

\* (h >> 17) | (h << 15) in HASH_BITS bits.
Delta(h) ==
    (h \div 2 ^ HIGH_BITS) + (h % 2 ^ HIGH_BITS) * 2 ^ (HASH_BITS - HIGH_BITS)

\* The bit that round j of the loops over the hash functions looks at.
BitPos(key, j, bits) ==
    ((Hash[key] + j * Delta(Hash[key])) % 2 ^ HASH_BITS) % (8 * Len(bits))

BitPositions(key, hash_func_num, bits) ==
    {BitPos(key, j, bits) : j \in 0 .. hash_func_num - 1}

BitIsSet(bits, p) == (bits[p \div 8 + 1] \div 2 ^ (p % 8)) % 2 = 1

\* A byte with the bits of a set ORed in.
OrByte(byte, ps) ==
    byte + MapThenSumSet(LAMBDA b : 2 ^ b, {b \in ps : (byte \div 2 ^ b) % 2 = 0})

SetBits(bits, ps) ==
    [i \in 1 .. Len(bits) |-> OrByte(bits[i], {p % 8 : p \in {q \in ps : q \div 8 = i - 1}})]

\* create_filter adds the bits of every key to those already there.
CreateFilter(bits, hash_func_num, keys) ==
    SetBits(bits, UNION {BitPositions(keys[i], hash_func_num, bits) : i \in 1 .. Len(keys)})

\* exists: never the empty key; every other key all of whose bits are set.
Exists(key, hash_func_num, bits) ==
    /\ key # <<>>
    /\ \A p \in BitPositions(key, hash_func_num, bits) : BitIsSet(bits, p)
=============================================================================
