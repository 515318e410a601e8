------------------------------- MODULE ProbeMath -------------------------------
(***************************************************************************)
(* The arithmetic of the table's shape: MakeValidExtent                    *)
(* (detail/extent/extent.inl), LowerBound and IntDivCeil                   *)
(* (utility/math_utils.h) and the probing iterator of LinearProbing and    *)
(* DoubleHashing (detail/probing_scheme/probing_scheme_impl.inl).          *)
(*                                                                         *)
(* The host computes the capacity in its SizeType, of HostBits bits; the   *)
(* kernels receive it as uint32_t tableSize, of DeviceBits bits, and probe *)
(* in that type.                                                           *)
(***************************************************************************)
EXTENDS Integers, Sequences

CONSTANTS
    HostBits,      \* width of Extent::ValueType on the host
    DeviceBits,    \* width of uint32_t tableSize in the kernels
    Primes         \* the table of utility/prime.h: increasing, starting at 2

WidthsOK ==
    /\ {HostBits, DeviceBits} \subseteq Nat \ {0}
    /\ {2^HostBits, 2^DeviceBits} \subseteq Nat \ {0}

\* What the entries of the table are, from the first to the last: it skips some
\* primes, but none of its entries is a composite number.
TableOfPrimes(t) ==
    /\ t \in Seq(Nat \ {0, 1}) /\ t # <<>> /\ t[1] = 2
    /\ \A i \in 1..(Len(t) - 1) : t[i] < t[i + 1]
    /\ \A i \in 1..Len(t) : \A d \in 2..(t[i] - 1) : t[i] % d # 0
PrimesOK == TableOfPrimes(Primes)

Host(n) == n % 2^HostBits
Device(n) == n % 2^DeviceBits

--------------------------------------------------------------------------------
(* Capacity. *)

\* (Variant with a bug: the last, partial bucket is not counted.)
IntDiv(n, d) == n \div d

IntDivCeil(n, d) == (n \div d) + (IF n % d # 0 THEN 1 ELSE 0)

AtLeastOne(ext) == IF ext > 1 THEN ext ELSE 1

\* Binary search for the first entry not below value, over count entries from first.
LowerBound(value) ==
    LET search[window \in Nat \X Nat] ==
            LET first == window[1]
                count == window[2]
                half == count \div 2
            IN  IF count = 0 THEN first
                ELSE IF Primes[first + half] < value
                     THEN search[<<first + half + 1, count - (half + 1)>>]
                     ELSE search[<<first, half>>]
    IN  search[<<1, Len(Primes)>>]

\* The slots a table of each scheme needs, and the extent that counts them.
LinearSlots(ext, bs) == (IntDivCeil(AtLeastOne(ext), bs) + (IF ext = 0 THEN 1 ELSE 0)) * bs
LinearExtent(ext, bs) == Host(LinearSlots(ext, bs))

MaxBuckets ==
    LET maxPrime == Primes[Len(Primes)]
    IN  IF 2^HostBits - 1 < maxPrime THEN 2^HostBits - 1 ELSE maxPrime

DoubleRejects(ext, bs) == IntDivCeil(AtLeastOne(ext), bs) > MaxBuckets

DoubleSlots(ext, bs) == Primes[LowerBound(IntDivCeil(AtLeastOne(ext), bs))] * bs
DoubleExtent(ext, bs) == Host(DoubleSlots(ext, bs))

--------------------------------------------------------------------------------
(* The iterator, in the kernels' arithmetic. *)

BucketCount(ub, bs) == ub \div bs

\* (Variant with a bug: the hash picks a slot number, not a bucket number.)
InitialBySlot(h1, ub, bs) == (h1 % ub) * bs

Initial(h1, ub, bs) == Device((h1 % BucketCount(ub, bs)) * bs)

LinearStep(bs) == bs

\* (Variant with a bug: a step of zero is possible.)
DoubleStepFromZero(h2, ub, bs) == Device((h2 % BucketCount(ub, bs)) * bs)

DoubleStep(h2, ub, bs) == Device(((h2 % (BucketCount(ub, bs) - 1)) + 1) * bs)

\* (Variant with a bug: add first, and let the sum overflow.)
IncrementOverflowing(i, s, ub) ==
    LET sum == Device(i + s) IN IF sum >= ub THEN sum - ub ELSE sum

\* operator++ : subtract before adding, so that nothing exceeds the bound.
Increment(i, s, ub) ==
    LET remaining == Device(ub - s)
    IN  IF i >= remaining THEN Device(i - remaining) ELSE Device(i + s)

\* The slots a probe visits until its iterator is back at i: bucket by bucket,
\* each bucket from its first slot to its last.
SlotPath(i, s, ub, bs) ==
    LET walk[n \in 0..BucketCount(ub, bs)] ==
            IF n = 0 THEN i ELSE Increment(walk[n - 1], s, ub)
    IN  [p \in 1..ub |-> walk[(p - 1) \div bs] + ((p - 1) % bs)]
================================================================================
