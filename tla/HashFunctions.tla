---------------------------- MODULE HashFunctions ----------------------------
(***************************************************************************)
(* The hash functions of the containers, over words whose width is a       *)
(* parameter: detail/hash_functions/xxhash.h and murmurhash3.h, and the    *)
(* copy of XXH64 for int32 and int64 keys in detail/hyperloglog/hash.h     *)
(* that works on two 32-bit halves, because the vector cores have no       *)
(* 64-bit multiplier.                                                      *)
(*                                                                         *)
(* A 64-bit word is 2 * HalfBits bits wide here, a 32-bit word HalfBits    *)
(* bits, and a byte an eighth of the former.  The primes and the distances *)
(* of the rotations and shifts are scaled with the width: what is kept is  *)
(* which step uses which, where a carry goes from one half to the other,   *)
(* and which bytes of the key each step reads.                             *)
(***************************************************************************)
EXTENDS Integers, Sequences, Bitwise

CONSTANTS
    HalfBits,   \* the width of a 32-bit word
    Prime1, Prime2, Prime3, Prime4, Prime5

Half == 2 ^ HalfBits
Full == Half * Half
FullBits == 2 * HalfBits
BitsOfByte == FullBits \div 8

-----------------------------------------------------------------------------
(* XXHash_64. *)

\* Rotl64.
Rotl64(x, r) == ((x * 2 ^ r) % Full) + (x \div 2 ^ (FullBits - r))

\* A shift to the right exclusive-ored into the word.
Fold(x, r) == x ^^ (x \div 2 ^ r)

\* XXHash_64::Finalize, with the shifts 33, 29 and 32.
Finalize64(h) ==
    LET a == (Fold(h, HalfBits + 1) * Prime2) % Full
        b == (Fold(a, HalfBits - 1) * Prime3) % Full
    IN  Fold(b, HalfBits)

\* The branches of XXHash_64::operator() for a key of four bytes and of eight:
\* no bytes are read, the key is used as a number.
Hash4(key, seed) ==
    LET h == ((seed + Prime5 + 4) % Full) ^^ ((key * Prime1) % Full)
    IN  Finalize64(((Rotl64(h, 2) * Prime2) + Prime3) % Full)

Hash8(key, seed) ==
    LET lane == (Rotl64((key * Prime2) % Full, 3) * Prime1) % Full
        h == ((seed + Prime5 + 8) % Full) ^^ lane
    IN  Finalize64(((Rotl64(h, 3) * Prime1) + Prime4) % Full)

\* LoadChunk: the number in the little-endian bytes at offset .. offset+width-1.
LoadChunk[bytes \in Seq(Nat), offset \in Nat, width \in Nat] ==
    IF width = 0
    THEN 0
    ELSE bytes[offset + 1]
           + 2 ^ BitsOfByte * LoadChunk[bytes, offset + 1, width - 1]

(***************************************************************************)
(* The tail of XXHash_64::ComputeHash, which keys of less than 32 bytes    *)
(* have alone: chunks of eight bytes, then of four, then single bytes.     *)
(***************************************************************************)
TailHash[bytes \in Seq(Nat), offset \in Nat, h \in Nat] ==
    LET left == Len(bytes) - offset
        chunk(width) == LoadChunk[bytes, offset, width]
    IN  IF left >= 8
        THEN LET k == (Rotl64((chunk(8) * Prime2) % Full, 3) * Prime1) % Full
             IN  TailHash[bytes, offset + 8,
                          ((Rotl64(h ^^ k, 3) * Prime1) + Prime4) % Full]
        ELSE IF left >= 4
        THEN LET k == (chunk(4) * Prime1) % Full
             IN  TailHash[bytes, offset + 4,
                          ((Rotl64(h ^^ k, 2) * Prime2) + Prime3) % Full]
        ELSE IF left >= 1
        THEN LET k == (chunk(1) * Prime5) % Full
             IN  TailHash[bytes, offset + 1, (Rotl64(h ^^ k, 1) * Prime1) % Full]
        ELSE h

ComputeTail(bytes, seed) ==
    Finalize64(TailHash[bytes, 0, (seed + Prime5 + Len(bytes)) % Full])

-----------------------------------------------------------------------------
(* The same hash on two halves (detail/hyperloglog/hash.h). *)

\* The halves of a constant, as the templates take them apart.
Low(c) == c % Half
High(c) == c \div Half

\* __umulhi: the upper half of the product of two halves.
UMulHi(x, y) == (x * y) \div Half

Multiply(x, c) ==
    [lo |-> (x.lo * Low(c)) % Half,
     hi |-> (UMulHi(x.lo, Low(c)) + (x.hi * Low(c)) + (x.lo * High(c))) % Half]

\* Rotate<N>, for 0 < N < 32.
Rotate(x, n) ==
    [lo |-> ((x.lo * 2 ^ n) % Half) + (x.hi \div 2 ^ (HalfBits - n)),
     hi |-> ((x.hi * 2 ^ n) % Half) + (x.lo \div 2 ^ (HalfBits - n))]

\* (Variant with a bug: the carry is lost.)
AddWithoutCarry(x, c) ==
    [lo |-> (x.lo + Low(c)) % Half, hi |-> (x.hi + High(c)) % Half]

AddConstant(x, c) ==
    LET lo == (x.lo + Low(c)) % Half
    IN  [lo |-> lo,
         hi |-> (x.hi + High(c) + (IF lo < x.lo THEN 1 ELSE 0)) % Half]

XorWord(x, c) == [lo |-> x.lo ^^ Low(c), hi |-> x.hi ^^ High(c)]

\* HashKeyBeforeFinalMultiply, for a key of `size` bytes.
HashKeyBeforeFinalMultiply(key, size) ==
    LET raw == [lo |-> Low(key), hi |-> High(key)]
        x == IF size = 4
             THEN LET y == XorWord(Multiply(raw, Prime1), Prime5 + 4)
                  IN  AddConstant(Multiply(Rotate(y, 2), Prime2), Prime3)
             ELSE LET y == Multiply(Rotate(Multiply(raw, Prime2), 3), Prime1)
                      z == XorWord(y, Prime5 + 8)
                  IN  AddConstant(Multiply(Rotate(z, 3), Prime1), Prime4)
        folded == [x EXCEPT !.lo = @ ^^ (x.hi \div 2)]
        m == Multiply(folded, Prime2)
        s == HalfBits - 1
    IN  [lo |-> m.lo ^^ ((m.lo \div 2 ^ s) + ((m.hi * 2 ^ (HalfBits - s)) % Half)),
         hi |-> m.hi ^^ (m.hi \div 2 ^ s)]

\* FinalHashHigh and FinalHashLow: the last multiplication, one half at a time.
FinalHashHigh(x) ==
    (UMulHi(x.lo, Low(Prime3)) + (x.hi * Low(Prime3)) + (x.lo * High(Prime3))) % Half

FinalHashLow(x, finalHigh) == ((x.lo * Low(Prime3)) % Half) ^^ finalHigh

\* HashKeyWords.
HashKeyWords(key, size) ==
    LET state == HashKeyBeforeFinalMultiply(key, size)
        high == FinalHashHigh(state)
    IN  [lo |-> FinalHashLow(state, high), hi |-> high]

-----------------------------------------------------------------------------
(* MurmurHash3 and XXHash_32, on words of HalfBits bits. *)

\* Fmix32, and Fmix64 with other shifts: an exclusive or with the seed, then
\* folds and multiplications by odd constants.
Fmix(key, seed, shifts, c1, c2, modulus) ==
    LET a == (Fold(key ^^ seed, shifts[1]) * c1) % modulus
        b == (Fold(a, shifts[2]) * c2) % modulus
    IN  Fold(b, shifts[3])

\* XXHash_32::Finalize, with the shifts 15, 13 and 16.
Finalize32(h) ==
    LET a == (Fold(h, (HalfBits \div 2) - 1) * Prime2) % Half
        b == (Fold(a, (HalfBits \div 2) - 1) * Prime3) % Half
    IN  Fold(b, HalfBits \div 2)

(***************************************************************************)
(* What a hash over bytes reads, in order: the pairs <<offset, width>> of  *)
(* its chunks.  MurmurHash3_32 takes blocks of four, and its switch falls  *)
(* through from the last byte of the tail to the first.                    *)
(***************************************************************************)
MurmurReads(size) ==
    LET nblocks == size \div 4
    IN  [i \in 1 .. nblocks |-> <<(i - 1) * 4, 4>>]
          \o [i \in 1 .. size % 4 |-> <<((nblocks * 4) + (size % 4)) - i, 1>>]

\* The chunks read while at least `width` bytes are left, from `offset` on.
RunOf(offset, size, width) ==
    [i \in 1 .. (size - offset) \div width |-> <<offset + (i - 1) * width, width>>]

\* XXHash_32: sixteen bytes at a time as four lanes, then fours, then single
\* bytes.  The two loops have guards of their own.
Xx32Reads(size) ==
    LET rounds == IF size >= 16 THEN RunOf(0, size - (size % 16), 4) ELSE << >>
        afterRounds == IF size >= 16 THEN size - (size % 16) ELSE 0
        fours == IF size % 16 >= 4 THEN RunOf(afterRounds, size, 4) ELSE << >>
        afterFours == afterRounds + 4 * Len(fours)
    IN  rounds \o fours
          \o (IF size % 4 # 0 THEN RunOf(afterFours, size, 1) ELSE << >>)

\* XXHash_64: thirty-two bytes at a time as four lanes, then eights, then a
\* four, then single bytes.
Xx64Reads(size) ==
    LET rounds == IF size >= 32 THEN RunOf(0, size - (size % 32), 8) ELSE << >>
        afterRounds == IF size >= 32 THEN size - (size % 32) ELSE 0
        eights == IF size % 32 >= 8 THEN RunOf(afterRounds, size, 8) ELSE << >>
        afterEights == afterRounds + 8 * Len(eights)
        fours == IF size % 8 >= 4 THEN RunOf(afterEights, size, 4) ELSE << >>
    IN  rounds \o eights \o fours
          \o RunOf(afterEights + 4 * Len(fours), size, 1)

-----------------------------------------------------------------------------
(* What the hashes promise each other. *)

Little(key, size) ==
    [i \in 1 .. size |-> (key \div 2 ^ ((i - 1) * BitsOfByte)) % 2 ^ BitsOfByte]

\* The branches for integers are the hash of the bytes.
IntegersHashAsBytes(key, seed) ==
    /\ Hash8(key, seed) = ComputeTail(Little(key, 8), seed)
    /\ key < Half => Hash4(key, seed) = ComputeTail(Little(key, 4), seed)

\* The hash on two halves is the hash with the seed 0.
HalvesHashAsOne(key) ==
    LET whole(w) == w.lo + (Half * w.hi)
    IN  /\ whole(HashKeyWords(key, 8)) = Hash8(key, 0)
        /\ key < Half => whole(HashKeyWords(key, 4)) = Hash4(key, 0)

\* A hash over bytes reads each of them once, and none outside.
ReadsOnce(reads, size) ==
    LET bytes(r) == r[1] .. (r[1] + r[2] - 1)
    IN  /\ UNION {bytes(reads[i]) : i \in DOMAIN reads} = 0 .. (size - 1)
        /\ \A i, j \in DOMAIN reads : i # j => bytes(reads[i]) \cap bytes(reads[j]) = {}
=============================================================================
