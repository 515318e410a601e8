------------------------------ MODULE SketchMath ------------------------------
(***************************************************************************)
(* The arithmetic of HyperLogLog on the host: which precision a sketch     *)
(* gets (hyperloglog.inl), how much of the unified buffer its kernels need *)
(* (kernels.h), which input is accepted, and how an estimate is made of    *)
(* the registers (finalizer.h, tuning.h).                                  *)
(*                                                                         *)
(* Real numbers are abstracted: a standard deviation is a number of        *)
(* thousandths, raw estimates and biases are whole numbers, a quotient is  *)
(* truncated, and linear counting, m * log(m / v), is an input.            *)
(***************************************************************************)
EXTENDS Integers, Sequences, FiniteSetsExt

CONSTANTS
    SizeBits,   \* width of std::size_t and of an address
    Points,     \* Finalizer::k
    Tables      \* [precisions -> [raw, bias]]: raw_estimate_data and bias_data

Precisions == 13 .. 18
Invalid == 0            \* std::invalid_argument

-----------------------------------------------------------------------------
(* Sizes. *)

CreateWithPrecision(p) == IF p \in Precisions THEN p ELSE Invalid

\* A power of two from 8 to 256.
CreateWithSketchSizeKB(kb) ==
    IF kb \in {2 ^ i : i \in 3 .. 8}
    THEN Min({p \in 13 .. 30 : 2 ^ p >= kb * 1024})
    ELSE Invalid

\* The first precision whose deviation, 1.04 / sqrt(2 ^ p), is small enough.
CreateWithStandardDeviation(thousandths) ==
    LET enough == {p \in Precisions : 1040 * 1040 <= (thousandths * thousandths) * 2 ^ p}
    IN  IF thousandths <= 0 \/ enough = {} THEN Invalid ELSE Min(enough)

\* LaunchPrivate's ranks in a word of a private sketch, and PackedRankBits.
PackOf(p) == CASE p <= 15 -> 1 [] p <= 17 -> 4 [] OTHER -> 5
PackedRankBits(pack) ==
    CASE pack = 1 -> 32 [] pack = 2 -> 16 [] pack = 4 -> 8 [] OTHER -> 6

\* In kilobytes.
TiledInputKB(p) == CASE p <= 14 -> 64 [] p = 15 -> 44 [] p = 16 -> 76 [] OTHER -> 32

LocalBytes(p) == (((2 ^ p) + PackOf(p) - 1) \div PackOf(p)) * 4
LaunchBytes(p) ==
    ((LocalBytes(p) + 31) \div 32) * 32 + (IF p = 18 THEN 0 ELSE 2 * TiledInputKB(p) * 1024)

\* ValidateInput: n keys of `size` bytes in an allocation of device memory.
ValidateInput(keys, n, base, bytes, size) ==
    /\ keys # 0 /\ keys % size = 0
    /\ n <= (2 ^ SizeBits - 1) \div size
    /\ keys >= base /\ keys - base <= bytes
    /\ (n * size) % 2 ^ SizeBits <= (bytes - (keys - base)) % 2 ^ SizeBits

-----------------------------------------------------------------------------
(* The tables of tuning.h. *)

threshold_data ==
    <<10, 20, 40, 80, 220, 400, 900, 1800, 3100, 6500, 15500, 20000, 50000, 120000, 350000>>
threshold(p) == IF p < 4 \/ p > 18 THEN 0 ELSE threshold_data[p - 4 + 1]

\* Tables that are as those of the code: as long as each other, raw estimates that
\* rise, by gaps that are alike, and biases that fall.
TablesOK ==
    \A p \in DOMAIN Tables :
        LET t == Tables[p]
            gaps == {t.raw[i + 1] - t.raw[i] : i \in 1 .. Len(t.raw) - 1}
        IN  /\ Len(t.raw) = Len(t.bias)
            /\ Min(gaps) > 0 /\ Max(gaps) <= (Points - 1) * Min(gaps)
            /\ \A i \in 1 .. Len(t.bias) - 1 : t.bias[i + 1] <= t.bias[i]

raw_estimate_data(p) == Tables[p].raw
raw_estimate_data_size(p) == Len(Tables[p].raw)
bias_data(p) == Tables[p].bias

-----------------------------------------------------------------------------
(* Finalizer.  Indices count from 0. *)

Largest == -1           \* the largest std::uint64_t
Registers(p) == 2 ^ p

Raw(p, i) == raw_estimate_data(p)[i + 1]

\* alpha * m * m; the switch has other values for fewer registers.
alpha_mm(p) ==
    LET m == Registers(p) IN ((7213 * m) \div (10000 + (10790 \div m))) * m

distance(p, e, i) == (e - Raw(p, i)) * (e - Raw(p, i))

\* Binary search: the entry that is e, or else the place to insert e.
interpolation_anchor_index(p, e) ==
    LET n == raw_estimate_data_size(p)
        search[left \in 0 .. n, right \in -1 .. n - 1] ==
            LET mid == left + ((right - left) \div 2) IN
            IF left > right THEN left
            ELSE IF Raw(p, mid) < e THEN search[mid + 1, right]
            ELSE IF Raw(p, mid) > e THEN search[left, mid - 1]
            ELSE mid
    IN  search[0, n - 1]


\* The first window: it ends at the anchor, or with the table.
FirstWindow(p, e) ==
    LET n == raw_estimate_data_size(p)
        low == Max({Min({interpolation_anchor_index(p, e) - Points + 1, n - Points}), 0})
    IN  <<low, Min({low + Points, n})>>

\* (Variant with a bug: it does not move.)
WindowAtAnchor(p, e) == FirstWindow(p, e)

\* It moves on while the entry behind it is closer than its first one.
\* Of a window, <<low, high>>, the second bound is exclusive.
Window(p, e) ==
    LET n == raw_estimate_data_size(p)
        slide[low \in 0 .. n, high \in 0 .. n] ==
            IF high < n /\ distance(p, e, high) < distance(p, e, low)
            THEN slide[low + 1, high + 1] ELSE <<low, high>>
    IN  slide[FirstWindow(p, e)[1], FirstWindow(p, e)[2]]

\* e less the mean bias of the window.
Unbias(p, e) ==
    LET w == Window(p, e)
        sum == MapThenSumSet(LAMBDA i : bias_data(p)[i + 1], w[1] .. w[2] - 1)
    IN  (e * (w[2] - w[1]) - sum) \div (w[2] - w[1])

bias_corrected_estimate(p, e) == IF e < 5 * Registers(p) THEN Unbias(p, e) ELSE e

\* operator(): z the sum of 2^-rank over the registers, v how many of them are
\* zero, h what linear counting says.
Estimate(p, z, v, h) ==
    LET e == alpha_mm(p) \div z IN
    CASE z = 0 -> Largest
      [] z # 0 /\ v > 0 /\ (2 * e <= 5 * Registers(p) \/ h <= threshold(p)) -> h
      [] OTHER -> bias_corrected_estimate(p, e)

-----------------------------------------------------------------------------
(* What they promise. *)

\* A sketch has as many bytes as was asked for, and no smaller precision is as
\* exact as was asked for.
SizesServe ==
    /\ \A kb \in 0 .. 300 :
          LET p == CreateWithSketchSizeKB(kb) IN
          /\ p # Invalid => p \in Precisions /\ 2 ^ p = kb * 1024
          /\ p = Invalid => \A q \in Precisions : 2 ^ q # kb * 1024
    /\ \A d \in 0 .. 20 :
          LET p == CreateWithStandardDeviation(d)
              serves(q) == 1040 * 1040 <= d * d * 2 ^ q
          IN  IF p = Invalid THEN \A q \in Precisions : ~ serves(q)
              ELSE serves(p) /\ \A q \in Precisions : q < p => ~ serves(q)

\* Whatever precision a sketch can be created with, a private copy of it and the
\* tiles of its input fit in the unified buffer, and the largest rank that a hash
\* can have fits the bits it is packed in.
KernelsFit ==
    \A p \in {CreateWithPrecision(n) : n \in 0 .. 40} \ {Invalid} :
        /\ LocalBytes(p) + (IF p = 18 THEN 0 ELSE 2 * TiledInputKB(p) * 1024) <= 216 * 1024
        /\ LaunchBytes(p) <= 216 * 1024
        /\ PackOf(p) * PackedRankBits(PackOf(p)) <= 32
        /\ PackedRankBits(PackOf(p)) < 32 => 65 - p < 2 ^ PackedRankBits(PackOf(p))

\* Accepted input lies in its allocation, of which no byte lies beyond the
\* address range; and what lies in it is accepted.
InputLiesInside(keys, n, base, bytes, size) ==
    base # 0 /\ base + bytes <= 2 ^ SizeBits =>
        (ValidateInput(keys, n, base, bytes, size)
           <=> /\ keys % size = 0
               /\ base <= keys /\ keys + n * size <= base + bytes)

\* The window holds the entries that are closest to the raw estimate, where no
\* gap of the table is more than Points - 1 times another one.
WindowIsNearest(p, e) ==
    LET n == raw_estimate_data_size(p)
        w == Window(p, e)
    IN  /\ 0 <= w[1] /\ w[2] <= n /\ w[2] - w[1] = Min({Points, n})
        /\ \A i \in w[1] .. w[2] - 1, j \in (0 .. n - 1) \ (w[1] .. w[2] - 1) :
              distance(p, e, i) <= distance(p, e, j)

\* More registers raised never make a smaller estimate, as long as it is
\* corrected, and where the biases of the table fall.
CorrectionGrows(p, e) == Unbias(p, e) <= Unbias(p, e + 1)

\* What registers can say: the zero ones count 1 each, the others at most 1/2.
Possible(p, z, v) ==
    /\ v \in 0 .. Registers(p)
    /\ z >= Max({v, 1}) /\ 2 * z <= 2 * v + (Registers(p) - v)

\* No estimate is negative, which its conversion to an unsigned number could not
\* express: no window's mean bias exceeds the raw estimate that it corrects.
EstimateIsNatural(p, z, v, h) ==
    Possible(p, z, v) /\ h \in Nat => Estimate(p, z, v, h) \in Nat
=============================================================================
