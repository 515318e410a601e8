--------------------------- MODULE TableParts_proofs ---------------------------
(***************************************************************************)
(* Proofs about the parts that OpenAddressing takes for granted: the walk  *)
(* of a probe (Probing), the swap of a slot of two bytes (NarrowSlots) and *)
(* the tiling of Clear (ClearTiling), for every value of their constants.  *)
(*                                                                         *)
(* The argument.  A step of a walk that has an inverse modulo the number   *)
(* of buckets takes it through all of them before it comes back: one has   *)
(* it always, and every step smaller than a prime does.  So it is left to  *)
(* show that the search in the prime table finds the first that is large   *)
(* enough, that nothing wraps around in the types of the host and of the   *)
(* kernels (SizesFit), and that no step is a multiple of the prime.  The   *)
(* invariant says where a walk is after so many steps.                     *)
(*                                                                         *)
(* A word is its two halves, and to put a key in one leaves the other as   *)
(* it is, signs included.  A thread about to swap has seen the key that it *)
(* expects in the word that it has read: if the word is still the same, so *)
(* is the key, and the swap is one of the slot.                            *)
(*                                                                         *)
(* A table for the cores has at least a block for each of them             *)
(* (CoresBusy), so the division of blocks by cores is Deal's: q each, one  *)
(* more for the first r.  From that, shares follow each other and cover    *)
(* the table (SharesFollow, SharesCover), and tiles stay in their share    *)
(* and reach its end (CopiesStayInside, TilesReachEnd).  The invariant     *)
(* says that a core wrote in its share only, and that what it has passed   *)
(* is clean, if every share ends in a tile that is not full.               *)
(***************************************************************************)
EXTENDS Probing, FiniteSetsExt, NaturalInduction

CONSTANTS Threads, Words, ByteBits, UsedKeys, Empty
VARIABLES words, call
Half == INSTANCE NarrowSlots

CONSTANTS Cores, UBSize, BLOCK_SIZE, BUFFER_NUM, Capacities, SlotTypes
VARIABLES slotType, slots, clearPhase, dirty, written, tile
Tile == INSTANCE ClearTiling WITH slot <- slotType, capacity <- slots, phase <- clearPhase

--------------------------------------------------------------------------------
(* A walk in steps of s through B buckets, from bucket h. *)

At(h, s, B, n) == (h + n * s) % B

\* Steps of s reach the next bucket.
Unit(s, B) == \E u \in Nat : (u * s) % B = 1 % B

\* The next bucket is a step on.
LEMMA UnitOfOne ==
    ASSUME NEW B \in Nat \ {0}
    PROVE  Unit(1, B)
  <1>1. (1 * 1) % B = 1 % B OBVIOUS
  <1> QED BY <1>1 DEF Unit

\* Whatever the step, it reaches the next of a prime number of buckets: the
\* shortest way that any number of steps leads is a way of 1.
LEMMA UnitOfPrime ==
    ASSUME NEW B \in Nat \ {0, 1}, \A d \in 2..(B - 1) : B % d # 0, NEW s \in 1..(B - 1)
    PROVE  Unit(s, B)
  <1> DEFINE S == {d \in 1..(B - 1) : \E x \in Nat : (x * s) % B = d}
  <1>1. s \in S
    <2>1. 1 * s = s OBVIOUS
    <2>2. s % B = s BY InRange
    <2> QED BY <2>1, <2>2
  <1>2. S \in SUBSET Nat OBVIOUS
  <1>3. PICK d \in S : \A e \in S : d <= e BY <1>1, <1>2, LeastNatural
  <1>4. PICK x \in Nat : (x * s) % B = d BY <1>3
  <1>5. d \in 1..(B - 1) BY <1>3
  <1>6. CASE d = 1
    <2>1. 1 % B = 1 BY InRange
    <2> QED BY <1>4, <1>6, <2>1 DEF Unit
  <1>7. CASE d # 1
    <2> DEFINE q == B \div d
               r == B % d
               e == d - r
    <2>1. q \in Nat /\ r \in 0..(d - 1) /\ B = q * d + r
      <3>1. B \in Int /\ B \in Nat /\ d \in Nat \ {0} BY <1>5
      <3> QED BY <3>1, Divided
    <2>2. r # 0 BY <1>5, <1>7
    <2> HIDE DEF q, r
    <2>3. e \in 1..(d - 1) BY <2>1, <2>2, <1>5
    <2>4. e \in 0..(B - 1) /\ e \in 1..(B - 1) /\ e < d BY <2>3, <1>5
    <2>5. (q + 1) * d = B + e
      <3>1. (q + 1) * d = q * d + d /\ q * d \in Int BY <2>1, <1>5
      <3> QED BY <3>1, <2>1, <1>5
    <2> HIDE DEF e
    <2>6. PICK k \in Int : x * s = d + k * B
      <3>1. d % B = d BY <1>5, InRange
      <3>2. x * s \in Int BY <1>4
      <3>3. (x * s) % B = d % B BY <1>4, <3>1
      <3>4. d \in Int BY <1>5
      <3>5. \E k \in Int : x * s = d + k * B BY <3>2, <3>3, <3>4, Congruent, Zenon
      <3> QED BY <3>5
    <2> DEFINE m == 1 + (q + 1) * k
    <2>7. m \in Int BY <2>1, <2>6
    <2>8. ((q + 1) * x) * s = m * B + e
      <3>1. ((q + 1) * x) * s = (q + 1) * (x * s) BY <2>1, <1>4
      <3>2. (q + 1) * (d + k * B) = (q + 1) * d + ((q + 1) * k) * B BY <2>1, <2>6, <1>5
      <3>3. m * B = B + ((q + 1) * k) * B BY <2>1, <2>6
      <3>4. ((q + 1) * k) * B \in Int BY <2>1, <2>6
      <3> QED BY <2>4, <2>5, <2>6, <3>1, <3>2, <3>3, <3>4
    <2> HIDE DEF m
    <2>9. (((q + 1) * x) * s) % B = e BY <2>4, <2>7, <2>8, Division
    <2>10. (q + 1) * x \in Nat BY <2>1, <1>4
    <2>11. e \in S BY <2>4, <2>9, <2>10
    <2>12. d <= e BY <2>11, <1>3
    <2> QED BY <2>12, <2>4, <1>5
  <1> QED BY <1>6, <1>7

\* What it means that steps of s reach the next bucket.
LEMMA UnitStep ==
    ASSUME NEW B \in Nat \ {0}, NEW s \in Nat, Unit(s, B)
    PROVE  \E u \in Nat, m \in Int : u * s = 1 + m * B
  <1>1. PICK u \in Nat : (u * s) % B = 1 % B BY DEF Unit
  <1>2. u * s \in Int OBVIOUS
  <1>3. PICK m \in Int : u * s = 1 + m * B
    <2>1. 1 \in Int OBVIOUS
    <2>2. \E m \in Int : u * s = 1 + m * B BY <1>1, <1>2, <2>1, Congruent, Zenon
    <2> QED BY <2>2
  <1> QED BY <1>1, <1>3

\* No bucket comes twice before all have come.
LEMMA Distinct ==
    ASSUME NEW B \in Nat \ {0}, NEW s \in Nat, Unit(s, B), NEW h \in Nat,
           NEW i \in Nat, NEW j \in Nat, At(h, s, B, i) = At(h, s, B, j)
    PROVE  i % B = j % B
  <1>1. PICK u \in Nat, m \in Int : u * s = 1 + m * B BY UnitStep
  <1>2. h + i * s \in Int /\ h + j * s \in Int OBVIOUS
  <1>3. PICK k \in Int : h + i * s = (h + j * s) + k * B
    BY <1>2, Congruent DEF At
  <1>4. (i - j) * s = k * B
    <2>1. (i - j) * s = i * s - j * s OBVIOUS
    <2>2. i * s \in Int /\ j * s \in Int /\ k * B \in Int BY <1>3
    <2> QED BY <1>3, <2>1, <2>2
  <1> DEFINE c == u * k - (i - j) * m
  <1>5. c \in Int BY <1>1, <1>3
  <1>6. \E n \in Int : i = j + n * B
    <2>0. i = j + c * B
      <3>1. (i - j) * (u * s) = u * ((i - j) * s) BY <1>1
      <3>2. u * (k * B) = (u * k) * B BY <1>1, <1>3
      <3>3. (i - j) * (1 + m * B) = (i - j) + ((i - j) * m) * B BY <1>1
      <3>4. c * B = (u * k) * B - ((i - j) * m) * B BY <1>1, <1>3
      <3>5. (u * k) * B \in Int /\ ((i - j) * m) * B \in Int BY <1>1, <1>3
      <3> HIDE DEF c
      <3> QED BY ONLY <1>1, <1>4, <3>1, <3>2, <3>3, <3>4, <3>5
    <2> HIDE DEF c
    <2> QED BY <1>5, <2>0
  <1>7. i \in Int /\ j \in Int OBVIOUS
  <1> QED BY <1>6, <1>7, Congruent, Zenon

\* Every bucket comes.
LEMMA Reaches ==
    ASSUME NEW B \in Nat \ {0}, NEW s \in Nat, Unit(s, B),
           NEW h \in 0..(B - 1), NEW t \in 0..(B - 1)
    PROVE  \E j \in 0..(B - 1) : At(h, s, B, j) = t
  <1>1. PICK u \in Nat, m \in Int : u * s = 1 + m * B BY UnitStep
  <1> DEFINE w == (t - h) * u
             q == w \div B
             j == w % B
  <1>2. w \in Int BY <1>1
  <1>3. q \in Int /\ j \in 0..(B - 1) /\ w = q * B + j BY <1>2, Divided
  <1> DEFINE c == (t - h) * m - q * s
  <1>4. c \in Int BY <1>1, <1>3
  <1>5. h + j * s = t + c * B
    <2>1. w * s = (t - h) * (u * s) BY <1>1
    <2>2. (t - h) * (1 + m * B) = (t - h) + ((t - h) * m) * B BY <1>1
    <2> HIDE DEF q, j, w
    <2>3. (q * B + j) * s = (q * s) * B + j * s BY <1>3
    <2>4. c * B = ((t - h) * m) * B - (q * s) * B BY <1>1, <1>3
    <2>5. (q * s) * B \in Int /\ ((t - h) * m) * B \in Int /\ j * s \in Int BY <1>1, <1>3
    <2> HIDE DEF c
    <2> QED BY <1>1, <1>3, <2>1, <2>2, <2>3, <2>4, <2>5
  <1> HIDE DEF c, w, q, j
  <1>6. h + j * s \in Int BY <1>3
  <1>7. (h + j * s) % B = t % B
    <2>1. \E k \in Int : h + j * s = t + k * B BY <1>4, <1>5
    <2>2. t \in Int OBVIOUS
    <2> QED BY <1>6, <2>1, <2>2, Congruent, Zenon
  <1>8. t % B = t BY InRange
  <1> QED BY <1>3, <1>7, <1>8 DEF At

\* The first bucket is h, and it comes back after all others.
LEMMA Returns ==
    ASSUME NEW B \in Nat \ {0}, NEW s \in Nat, NEW h \in 0..(B - 1)
    PROVE  At(h, s, B, 0) = h /\ At(h, s, B, B) = h
  <1>1. h + 0 * s = 0 * B + h /\ h + B * s = s * B + h OBVIOUS
  <1>2. (0 * B + h) % B = h /\ (s * B + h) % B = h BY Division
  <1> QED BY <1>1, <1>2 DEF At

\* The buckets of a walk are buckets, each a step from the one before.
LEMMA OneOn ==
    ASSUME NEW B \in Nat \ {0}, NEW s \in Nat, NEW h \in Nat, NEW n \in Nat
    PROVE  At(h, s, B, n) \in 0..(B - 1) /\ At(h, s, B, n + 1) = (At(h, s, B, n) + s) % B
  <1> DEFINE w == h + n * s
             q == w \div B
             r == w % B
  <1>1. w \in Int OBVIOUS
  <1>2. q \in Int /\ r \in 0..(B - 1) /\ w = q * B + r BY <1>1, Divided
  <1>3. h + (n + 1) * s = w + s
    <2>1. (n + 1) * s = n * s + s /\ n * s \in Int OBVIOUS
    <2> QED BY <2>1
  <1> HIDE DEF w, q, r
  <1>4. q * B \in Int BY <1>2
  <1>5. w + s = (r + s) + q * B BY <1>2, <1>4, <1>1
  <1>6. w + s \in Int /\ r + s \in Int BY <1>1, <1>2
  <1>7. (w + s) % B = (r + s) % B BY <1>2, <1>5, <1>6, Congruent
  <1> QED BY <1>2, <1>3, <1>7 DEF At, w, r

--------------------------------------------------------------------------------
(* The prime table. *)

\* The entries of the table grow.
LEMMA Increasing ==
    ASSUME PrimesOK, NEW i \in 1..Len(Primes), NEW j \in 1..Len(Primes), i < j
    PROVE  Primes[i] < Primes[j]
  <1>0. /\ Primes \in Seq(Nat \ {0, 1})
        /\ \A k \in 1..(Len(Primes) - 1) : Primes[k] < Primes[k + 1]
    BY DEF PrimesOK, TableOfPrimes
  <1>1. \A k \in 1..Len(Primes) : Primes[k] \in Nat BY <1>0
  <1>2. Len(Primes) \in Nat BY <1>0
  <1> DEFINE S == {n \in Nat : i + 1 + n <= Len(Primes) => Primes[i] < Primes[i + 1 + n]}
  <1>3. 0 \in S BY <1>0, <1>2
  <1>4. ASSUME NEW n \in Nat, n \in S PROVE n + 1 \in S
    <2> SUFFICES ASSUME i + 1 + (n + 1) <= Len(Primes)
                 PROVE  Primes[i] < Primes[i + 1 + (n + 1)]
      OBVIOUS
    <2>1. i + 1 + n \in 1..(Len(Primes) - 1) BY <1>2
    <2>2. Primes[i] < Primes[i + 1 + n] BY <1>4, <2>1
    <2>3. Primes[i + 1 + n] < Primes[(i + 1 + n) + 1] BY <1>0, <2>1
    <2>4. (i + 1 + n) + 1 = i + 1 + (n + 1) BY <1>2
    <2>5. i + 1 + n \in 1..Len(Primes) /\ i + 1 + (n + 1) \in 1..Len(Primes) BY <1>2, <2>1
    <2> QED BY <1>1, <2>2, <2>3, <2>4, <2>5
  <1>5. j - i - 1 \in S
    <2>1. j - i - 1 \in Nat BY <1>2
    <2> HIDE DEF S
    <2> QED BY <2>1, <1>3, <1>4, Induction
  <1>6. i + 1 + (j - i - 1) = j BY <1>2
  <1> QED BY <1>5, <1>6, <1>2

\* Dividing up: as many whole buckets as it takes, and no more.
LEMMA Ceiling ==
    ASSUME NEW n \in Nat \ {0}, NEW d \in Nat \ {0}
    PROVE  /\ IntDivCeil(n, d) \in Nat \ {0}
           /\ IntDivCeil(n, d) * d >= n
           /\ (IntDivCeil(n, d) - 1) * d < n
  <1> DEFINE q == n \div d
             r == n % d
  <1>1. q \in Nat /\ r \in 0..(d - 1) /\ n = q * d + r
    <2>1. n \in Int /\ n \in Nat OBVIOUS
    <2> QED BY <2>1, Divided
  <1>2. IntDivCeil(n, d) = q + (IF r # 0 THEN 1 ELSE 0) BY DEF IntDivCeil
  <1> HIDE DEF q, r
  <1>3. q * d \in Nat /\ (q + 1) * d = q * d + d /\ (q - 1) * d = q * d - d BY <1>1
  <1>4. CASE r # 0
    <2>1. IntDivCeil(n, d) = q + 1 BY <1>2, <1>4
    <2>2. (q + 1) - 1 = q BY <1>1
    <2> QED BY <1>1, <1>3, <1>4, <2>1, <2>2
  <1>5. CASE r = 0
    <2>1. IntDivCeil(n, d) = q BY <1>1, <1>2, <1>5
    <2>2. q # 0 BY <1>1, <1>3, <1>5
    <2> QED BY <1>1, <1>3, <1>5, <2>1, <2>2
  <1> QED BY <1>4, <1>5

--------------------------------------------------------------------------------
(* The binary search.  The function it is defined by exists: a solution for *)
(* windows of up to m entries extends to windows of m + 1 entries, and no   *)
(* two solutions differ.                                                    *)

\* g solves the search for windows of up to m entries.
Found(g, value, f, c) ==
    IF c = 0 THEN f
    ELSE IF Primes[f + (c \div 2)] < value
         THEN g[<<f + (c \div 2) + 1, c - ((c \div 2) + 1)>>]
         ELSE g[<<f, c \div 2>>]
Searches(g, value, m) == \A f \in Nat : \A c \in 0..m : g[<<f, c>>] = Found(g, value, f, c)

\* The search looks at smaller windows.
LEMMA Smaller ==
    ASSUME NEW c \in Nat \ {0}, NEW f \in Nat
    PROVE  /\ c \div 2 \in 0..(c - 1)
           /\ c - ((c \div 2) + 1) \in 0..(c - 1)
           /\ f + (c \div 2) + 1 \in Nat
  <1>1. c \div 2 \in Nat /\ c \div 2 <= c - 1 BY SMT
  <1> DEFINE half == c \div 2
  <1> HIDE DEF half
  <1>2. half \in Nat /\ half <= c - 1 BY <1>1 DEF half
  <1>3. half \in 0..(c - 1) /\ c - (half + 1) \in 0..(c - 1) /\ f + half + 1 \in Nat BY <1>2
  <1> QED BY <1>3 DEF half

\* Two solutions agree where both are defined.
LEMMA SearchesAgree ==
    ASSUME NEW value, NEW g, NEW h, NEW m \in Nat, NEW n \in Nat,
           Searches(g, value, m), Searches(h, value, n)
    PROVE  \A c \in Nat : c <= m /\ c <= n => \A f \in Nat : g[<<f, c>>] = h[<<f, c>>]
  <1> DEFINE S == {k \in Nat : \A c \in 0..k : c <= m /\ c <= n =>
                                  \A f \in Nat : g[<<f, c>>] = h[<<f, c>>]}
  <1>1. ASSUME NEW c \in Nat, c <= m, c <= n, NEW f \in Nat,
               \A d \in 0..(c - 1) : \A e \in Nat : g[<<e, d>>] = h[<<e, d>>]
        PROVE  g[<<f, c>>] = h[<<f, c>>]
    <2>1. g[<<f, c>>] = Found(g, value, f, c) /\ h[<<f, c>>] = Found(h, value, f, c)
      <3>1. c \in 0..m /\ c \in 0..n BY <1>1
      <3> QED BY <3>1 DEF Searches
    <2>2. CASE c = 0 BY <2>1, <2>2 DEF Found
    <2>3. CASE c # 0
      <3>1. /\ c \div 2 \in 0..(c - 1) /\ c - ((c \div 2) + 1) \in 0..(c - 1)
            /\ f + (c \div 2) + 1 \in Nat
        BY <2>3, Smaller
      <3>2. g[<<f, c \div 2>>] = h[<<f, c \div 2>>] BY <1>1, <3>1
      <3>3. g[<<f + (c \div 2) + 1, c - ((c \div 2) + 1)>>]
              = h[<<f + (c \div 2) + 1, c - ((c \div 2) + 1)>>]
        BY <1>1, <3>1
      <3> QED BY <2>1, <2>3, <3>2, <3>3 DEF Found
    <2> QED BY <2>2, <2>3
  <1>2. 0 \in S
    <2>1. ASSUME NEW f \in Nat PROVE g[<<f, 0>>] = h[<<f, 0>>]
      <3>1. \A d \in 0..(0 - 1) : \A e \in Nat : g[<<e, d>>] = h[<<e, d>>] OBVIOUS
      <3> QED BY <1>1, <3>1
    <2> QED BY <2>1
  <1>3. ASSUME NEW k \in Nat, k \in S PROVE k + 1 \in S
    <2>1. ASSUME NEW c \in 0..(k + 1), c <= m, c <= n,
                 NEW f \in Nat PROVE g[<<f, c>>] = h[<<f, c>>]
      <3>1. ASSUME NEW d \in 0..(c - 1), NEW e \in Nat PROVE g[<<e, d>>] = h[<<e, d>>]
        <4>1. d \in 0..k /\ d <= m /\ d <= n BY <2>1
        <4> QED BY <1>3, <4>1
      <3>2. c \in Nat BY <2>1
      <3> QED BY <1>1, <2>1, <3>1, <3>2
    <2> QED BY <2>1
  <1>4. Nat \subseteq S
    <2> HIDE DEF S
    <2> QED BY <1>2, <1>3, Induction
  <1>5. ASSUME NEW c \in Nat, c <= m, c <= n, NEW f \in Nat PROVE g[<<f, c>>] = h[<<f, c>>]
    <2>1. c \in S /\ c \in 0..c BY <1>4
    <2> QED BY <1>5, <2>1
  <1> QED BY <1>5

\* There is a solution for windows of any size.
LEMMA SearchesExist ==
    ASSUME NEW value
    PROVE  \A m \in Nat : \E g : Searches(g, value, m)
  <1> DEFINE S == {m \in Nat : \E g : Searches(g, value, m)}
  <1>1. 0 \in S
    <2> DEFINE g == [w \in Nat \X Nat |-> w[1]]
    <2>1. ASSUME NEW f \in Nat, NEW c \in 0..0 PROVE g[<<f, c>>] = Found(g, value, f, c)
      <3>1. c = 0 /\ g[<<f, c>>] = f BY <2>1
      <3> QED BY <3>1 DEF Found
    <2> HIDE DEF g
    <2> QED BY <2>1 DEF Searches
  <1>2. ASSUME NEW m \in Nat, m \in S PROVE m + 1 \in S
    <2>1. PICK g : Searches(g, value, m) BY <1>2
    <2> DEFINE h == [w \in Nat \X Nat |-> IF w[2] <= m THEN g[w]
                                             ELSE Found(g, value, w[1], w[2])]
    <2>2. \A f \in Nat : \A c \in 0..m : h[<<f, c>>] = g[<<f, c>>] OBVIOUS
    <2>3. \A f \in Nat : h[<<f, m + 1>>] = Found(g, value, f, m + 1)
      <3>1. m + 1 \in Nat /\ ~(m + 1 <= m) OBVIOUS
      <3> QED BY <3>1
    <2> HIDE DEF h
    <2>4. ASSUME NEW f \in Nat, NEW c \in 0..(m + 1)
          PROVE  Found(h, value, f, c) = Found(g, value, f, c)
      <3>1. CASE c = 0 BY <3>1 DEF Found
      <3>2. CASE c # 0
        <4>0. c \in Nat \ {0} BY <3>2
        <4>1. /\ c \div 2 \in 0..(c - 1) /\ c - ((c \div 2) + 1) \in 0..(c - 1)
              /\ f + (c \div 2) + 1 \in Nat
          BY <4>0, Smaller
        <4>2. c \div 2 \in 0..m /\ c - ((c \div 2) + 1) \in 0..m
          <5>1. \A x \in 0..(c - 1) : x \in 0..m BY <2>4
          <5> QED BY <4>1, <5>1
        <4>3. h[<<f, c \div 2>>] = g[<<f, c \div 2>>] BY <2>2, <4>2
        <4>4. h[<<f + (c \div 2) + 1, c - ((c \div 2) + 1)>>]
                = g[<<f + (c \div 2) + 1, c - ((c \div 2) + 1)>>]
          BY <2>2, <4>1, <4>2
        <4> QED BY <3>2, <4>3, <4>4 DEF Found
      <3> QED BY <3>1, <3>2
    <2>5. ASSUME NEW f \in Nat, NEW c \in 0..(m + 1) PROVE h[<<f, c>>] = Found(h, value, f, c)
      <3>1. CASE c \in 0..m
        <4>1. h[<<f, c>>] = g[<<f, c>>] /\ g[<<f, c>>] = Found(g, value, f, c)
          BY <2>1, <2>2, <3>1 DEF Searches
        <4> QED BY <2>4, <4>1
      <3>2. CASE c = m + 1 BY <2>3, <2>4, <3>2
      <3>3. c \in 0..m \/ c = m + 1 BY <2>5
      <3> QED BY <3>1, <3>2, <3>3
    <2>6. Searches(h, value, m + 1) BY <2>5 DEF Searches
    <2>7. m + 1 \in Nat OBVIOUS
    <2> QED BY <2>6, <2>7
  <1>3. Nat \subseteq S
    <2> HIDE DEF S
    <2> QED BY <1>1, <1>2, Induction
  <1> QED BY <1>3

\* The function of the search is a solution for windows of any size.
LEMMA SearchIsDefined ==
    ASSUME NEW value
    PROVE  \E g : /\ \A m \in Nat : Searches(g, value, m)
                  /\ LowerBound(value) = g[<<1, Len(Primes)>>]
  <1> DEFINE Loop(g) == [window \in Nat \X Nat |->
                LET f == window[1]  c == window[2]  half == c \div 2 IN
                IF c = 0 THEN f
                ELSE IF Primes[f + half] < value
                     THEN g[<<f + half + 1, c - (half + 1)>>]
                     ELSE g[<<f, half>>]]
             search == CHOOSE g : g = Loop(g)
             Sol(m) == CHOOSE g : Searches(g, value, m)
             H == [w \in Nat \X Nat |-> Sol(w[2])[w]]
  <1>1. \A m \in Nat : Searches(Sol(m), value, m) BY SearchesExist
  <1>2. \A f \in Nat : \A c \in Nat : H[<<f, c>>] = Sol(c)[<<f, c>>] OBVIOUS
  <1>3. \A g : \A f \in Nat : \A c \in Nat : Loop(g)[<<f, c>>] = Found(g, value, f, c)
    BY ZenonT(60) DEF Found
  <1>4. \A g : DOMAIN Loop(g) = Nat \X Nat /\ Loop(g) = [w \in DOMAIN Loop(g) |-> Loop(g)[w]]
    OBVIOUS
  <1>5. H = [w \in Nat \X Nat |-> H[w]] OBVIOUS
  <1>6. LowerBound(value) = search[<<1, Len(Primes)>>] BY DEF LowerBound
  <1> HIDE DEF Loop, H, Sol
  <1>7. ASSUME NEW f \in Nat, NEW c \in Nat PROVE H[<<f, c>>] = Found(H, value, f, c)
    <2>1. Sol(c)[<<f, c>>] = Found(Sol(c), value, f, c)
      <3>1. c \in 0..c OBVIOUS
      <3> QED BY <1>1, <3>1 DEF Searches
    <2>2. ASSUME NEW d \in Nat, d <= c, NEW e \in Nat PROVE H[<<e, d>>] = Sol(c)[<<e, d>>]
      <3>1. Searches(Sol(d), value, d) /\ Searches(Sol(c), value, c) BY <1>1
      <3>2. Sol(d)[<<e, d>>] = Sol(c)[<<e, d>>]
        <4>1. \A b \in Nat : b <= d /\ b <= c => \A a \in Nat :
                 Sol(d)[<<a, b>>] = Sol(c)[<<a, b>>]
          BY <3>1, SearchesAgree
        <4> QED BY <2>2, <4>1
      <3> QED BY <1>2, <3>2
    <2>3. Found(H, value, f, c) = Found(Sol(c), value, f, c)
      <3>1. CASE c = 0 BY <3>1 DEF Found
      <3>2. CASE c # 0
        <4>0. c \in Nat \ {0} BY <3>2
        <4>1. /\ c \div 2 \in 0..(c - 1) /\ c - ((c \div 2) + 1) \in 0..(c - 1)
              /\ f + (c \div 2) + 1 \in Nat
          BY <4>0, Smaller
        <4>2. \A x \in 0..(c - 1) : x \in Nat /\ x <= c OBVIOUS
        <4>3. H[<<f, c \div 2>>] = Sol(c)[<<f, c \div 2>>] BY <2>2, <4>1, <4>2
        <4>4. H[<<f + (c \div 2) + 1, c - ((c \div 2) + 1)>>]
                = Sol(c)[<<f + (c \div 2) + 1, c - ((c \div 2) + 1)>>]
          BY <2>2, <4>1, <4>2
        <4> QED BY <3>2, <4>3, <4>4 DEF Found
      <3> QED BY <3>1, <3>2
    <2> QED BY <1>2, <2>1, <2>3
  <1>8. H = Loop(H)
    <2>1. DOMAIN H = Nat \X Nat /\ DOMAIN Loop(H) = Nat \X Nat BY <1>4, <1>5
    <2>2. ASSUME NEW w \in Nat \X Nat PROVE H[w] = Loop(H)[w]
      <3>1. PICK f \in Nat, c \in Nat : w = <<f, c>> OBVIOUS
      <3> QED BY <1>3, <1>7, <3>1
    <2>3. Loop(H) = [w \in Nat \X Nat |-> Loop(H)[w]] BY <1>4, <2>1
    <2>4. [w \in Nat \X Nat |-> H[w]] = [w \in Nat \X Nat |-> Loop(H)[w]] BY <2>2
    <2> QED BY <1>5, <2>3, <2>4
  <1>9. search = Loop(search) BY <1>8
  <1> HIDE DEF search
  <1>10. ASSUME NEW m \in Nat PROVE Searches(search, value, m)
    <2>1. ASSUME NEW f \in Nat, NEW c \in 0..m PROVE search[<<f, c>>] = Found(search, value, f, c)
      <3>1. c \in Nat OBVIOUS
      <3>2. Loop(search)[<<f, c>>] = Found(search, value, f, c) BY <1>3, <3>1
      <3> QED BY <1>9, <3>2
    <2> QED BY <2>1 DEF Searches
  <1> QED BY <1>6, <1>10

\* What the search keeps: all entries before the window are too small, and the
\* entry behind it is not.
Bracket(value, f, e) ==
    /\ \A j \in 1..(f - 1) : Primes[j] < value
    /\ e <= Len(Primes) => Primes[e] >= value

\* It finds the border within its window.
LEMMA SearchFinds ==
    ASSUME PrimesOK, NEW value \in Nat, NEW g, NEW n \in Nat, Searches(g, value, n)
    PROVE  \A c \in 0..n : \A f \in Nat \ {0} :
              f + c <= Len(Primes) + 1 /\ Bracket(value, f, f + c)
                 => g[<<f, c>>] \in f..(f + c) /\ Bracket(value, g[<<f, c>>], g[<<f, c>>])
  <1>0. Primes \in Seq(Nat \ {0, 1}) /\ Len(Primes) \in Nat
        /\ \A k \in 1..Len(Primes) : Primes[k] \in Nat
    BY DEF PrimesOK, TableOfPrimes
  <1> DEFINE P(f, c) == f + c <= Len(Primes) + 1 /\ Bracket(value, f, f + c)
                 => g[<<f, c>>] \in f..(f + c) /\ Bracket(value, g[<<f, c>>], g[<<f, c>>])
             S == {m \in Nat : \A c \in 0..m : c <= n => \A f \in Nat \ {0} : P(f, c)}
  <1>1. ASSUME NEW c \in Nat, c <= n, NEW f \in Nat \ {0},
               \A d \in 0..(c - 1) : \A e \in Nat \ {0} : P(e, d)
        PROVE  P(f, c)
    <2> SUFFICES ASSUME f + c <= Len(Primes) + 1, Bracket(value, f, f + c)
                 PROVE  g[<<f, c>>] \in f..(f + c) /\ Bracket(value, g[<<f, c>>], g[<<f, c>>])
      OBVIOUS
    <2>1. g[<<f, c>>] = Found(g, value, f, c)
      <3>1. c \in 0..n BY <1>1
      <3> QED BY <3>1 DEF Searches
    <2>2. CASE c = 0
      <3>1. g[<<f, c>>] = f /\ f + c = f BY <2>1, <2>2 DEF Found
      <3>2. f \in f..(f + c) BY <2>2
      <3> QED BY <3>1, <3>2
    <2>3. CASE c # 0
      <3> DEFINE half == c \div 2
                 up == f + half + 1
                 rest == c - (half + 1)
      <3>0. c \in Nat \ {0} BY <2>3
      <3>1. half \in 0..(c - 1) /\ rest \in 0..(c - 1) /\ up \in Nat
        BY <3>0, Smaller
      <3>2. /\ f + half \in 1..Len(Primes) /\ up \in Nat \ {0} /\ up + rest = f + c
            /\ f + half \in f..(f + c) /\ up - 1 = f + half
            /\ \A x \in up..(up + rest) : x \in f..(f + c)
            /\ \A x \in f..(f + half) : x \in f..(f + c)
        <4> HIDE DEF half
        <4> QED BY <1>0, <3>0, <3>1
      <3>3. CASE Primes[f + half] < value
        <4>1. g[<<f, c>>] = g[<<up, rest>>] BY <2>1, <2>3, <3>3 DEF Found
        <4>2. Bracket(value, up, up + rest)
          <5>1. ASSUME NEW j \in 1..(up - 1) PROVE Primes[j] < value
            <6> HIDE DEF half, up, rest
            <6>1. CASE j = f + half BY <3>3, <6>1
            <6>2. CASE j # f + half
              <7>1. j \in 1..Len(Primes) /\ j < f + half BY <1>0, <3>2, <6>2
              <7>2. Primes[j] < Primes[f + half] BY <3>2, <7>1, Increasing
              <7>3. Primes[j] \in Nat /\ Primes[f + half] \in Nat BY <1>0, <3>2, <7>1
              <7> QED BY <3>3, <7>2, <7>3
            <6> QED BY <6>1, <6>2
          <5> HIDE DEF half, up, rest
          <5> QED BY <3>2, <5>1 DEF Bracket
        <4> HIDE DEF half, up, rest, P
        <4>3. P(up, rest) BY <1>1, <3>1, <3>2
        <4>4. up + rest <= Len(Primes) + 1 BY <3>2
        <4>5. g[<<up, rest>>] \in up..(up + rest)
              /\ Bracket(value, g[<<up, rest>>], g[<<up, rest>>])
          BY <4>2, <4>3, <4>4 DEF P
        <4> QED BY <4>1, <4>5, <3>2
      <3>4. CASE ~(Primes[f + half] < value)
        <4>1. g[<<f, c>>] = g[<<f, half>>] BY <2>1, <2>3, <3>4 DEF Found
        <4>2. Bracket(value, f, f + half)
          <5>1. Primes[f + half] \in Nat BY <1>0, <3>2
          <5>2. Primes[f + half] >= value BY <3>4, <5>1
          <5> HIDE DEF half
          <5> QED BY <5>2 DEF Bracket
        <4> HIDE DEF half, up, rest, P
        <4>3. P(f, half) BY <1>1, <3>1
        <4>4. f + half <= Len(Primes) + 1 BY <1>0, <3>2
        <4>5. g[<<f, half>>] \in f..(f + half)
              /\ Bracket(value, g[<<f, half>>], g[<<f, half>>])
          BY <4>2, <4>3, <4>4 DEF P
        <4> QED BY <4>1, <4>5, <3>2
      <3> QED BY <3>3, <3>4
    <2> QED BY <2>2, <2>3
  <1> HIDE DEF P
  <1>2. 0 \in S
    <2>1. ASSUME NEW f \in Nat \ {0} PROVE P(f, 0)
      <3>1. \A d \in 0..(0 - 1) : \A e \in Nat \ {0} : P(e, d) OBVIOUS
      <3> QED BY <1>1, <3>1
    <2> QED BY <2>1
  <1>3. ASSUME NEW m \in Nat, m \in S PROVE m + 1 \in S
    <2>1. ASSUME NEW c \in 0..(m + 1), c <= n, NEW f \in Nat \ {0} PROVE P(f, c)
      <3>1. ASSUME NEW d \in 0..(c - 1), NEW e \in Nat \ {0} PROVE P(e, d)
        <4>1. d \in 0..m /\ d <= n BY <2>1
        <4> QED BY <1>3, <4>1
      <3>2. c \in Nat BY <2>1
      <3> QED BY <1>1, <2>1, <3>1, <3>2
    <2> QED BY <2>1
  <1>4. Nat \subseteq S
    <2> HIDE DEF S
    <2> QED BY <1>2, <1>3, Induction
  <1>5. ASSUME NEW c \in 0..n, NEW f \in Nat \ {0} PROVE P(f, c)
    <2>1. c \in S /\ c \in 0..c /\ c <= n BY <1>4
    <2> QED BY <2>1
  <1> QED BY <1>5 DEF P

\* The binary search finds the first entry that is large enough.
LEMMA LowerBoundIsFirst ==
    ASSUME PrimesOK, NEW value \in Nat, value <= Primes[Len(Primes)]
    PROVE  /\ LowerBound(value) \in 1..Len(Primes)
           /\ Primes[LowerBound(value)] >= value
           /\ \A j \in 1..(LowerBound(value) - 1) : Primes[j] < value
  <1>0. Primes \in Seq(Nat \ {0, 1}) /\ Len(Primes) \in Nat \ {0}
        /\ \A k \in 1..Len(Primes) : Primes[k] \in Nat
    BY DEF PrimesOK, TableOfPrimes
  <1> DEFINE i == LowerBound(value)
  <1>1. PICK g : (\A m \in Nat : Searches(g, value, m)) /\ i = g[<<1, Len(Primes)>>]
    BY SearchIsDefined
  <1> HIDE DEF i
  <1>2. Searches(g, value, Len(Primes)) BY <1>0, <1>1
  <1>3. Bracket(value, 1, 1 + Len(Primes))
    <2>1. ~(1 + Len(Primes) <= Len(Primes)) BY <1>0
    <2> QED BY <2>1 DEF Bracket
  <1>4. \A c \in 0..Len(Primes) : \A f \in Nat \ {0} :
              f + c <= Len(Primes) + 1 /\ Bracket(value, f, f + c)
                 => g[<<f, c>>] \in f..(f + c) /\ Bracket(value, g[<<f, c>>], g[<<f, c>>])
    BY <1>0, <1>2, SearchFinds
  <1>5. i \in 1..(1 + Len(Primes)) /\ Bracket(value, i, i)
    <2>1. Len(Primes) \in 0..Len(Primes) /\ 1 \in Nat \ {0}
          /\ 1 + Len(Primes) <= Len(Primes) + 1
      BY <1>0
    <2> QED BY <1>1, <1>3, <1>4, <2>1
  <1>6. i # 1 + Len(Primes)
    <2> SUFFICES ASSUME i = 1 + Len(Primes) PROVE FALSE OBVIOUS
    <2>1. Len(Primes) \in 1..(i - 1) BY <1>0
    <2>2. Primes[Len(Primes)] < value BY <1>5, <2>1 DEF Bracket
    <2>3. Primes[Len(Primes)] \in Nat BY <1>0
    <2> QED BY <2>2, <2>3
  <1>7. i \in 1..Len(Primes) BY <1>0, <1>5, <1>6
  <1>8. Primes[i] >= value BY <1>0, <1>5, <1>7 DEF Bracket
  <1> QED BY <1>5, <1>7, <1>8 DEF Bracket, i

--------------------------------------------------------------------------------
(* Tables and walks of whole buckets. *)

\* What fits a type is not cut.
LEMMA Fits ==
    ASSUME InputsOK, NEW x \in Nat
    PROVE  /\ x < 2^DeviceBits => Device(x) = x
           /\ x < 2^HostBits => Host(x) = x
  <1>1. 2^DeviceBits \in Nat \ {0} /\ 2^HostBits \in Nat \ {0} BY DEF InputsOK, WidthsOK
  <1> DEFINE d == 2^DeviceBits
             h == 2^HostBits
  <1>2. d \in Nat \ {0} /\ h \in Nat \ {0} BY <1>1
  <1> HIDE DEF d, h
  <1>3. x < d => x % d = x
    <2>1. x < d => x \in 0..(d - 1) BY <1>2
    <2> QED BY <1>2, <2>1, InRange
  <1>4. x < h => x % h = x
    <2>1. x < h => x \in 0..(h - 1) BY <1>2
    <2> QED BY <1>2, <2>1, InRange
  <1> QED BY <1>3, <1>4 DEF d, h, Device, Host

\* Whole buckets can be counted.
LEMMA WholeBuckets ==
    ASSUME NEW B \in Int, NEW bs \in Nat \ {0}
    PROVE  BucketCount(B * bs, bs) = B /\ (B * bs) \div bs = B /\ (B * bs) % bs = 0
  <1>1. B * bs + 0 = B * bs OBVIOUS
  <1>2. 0 \in 0..(bs - 1) OBVIOUS
  <1>3. (B * bs + 0) % bs = 0 /\ (B * bs + 0) \div bs = B BY <1>2, Division
  <1> QED BY <1>1, <1>3 DEF BucketCount

\* The iterator's ++ takes a step, whatever the width of the type.
LEMMA IncrementSteps ==
    ASSUME InputsOK, NEW B \in Nat \ {0}, NEW bs \in Nat \ {0}, B * bs < 2^DeviceBits,
           NEW x \in 0..(B - 1), NEW s \in 1..B
    PROVE  Increment(x * bs, s * bs, B * bs) = ((x + s) % B) * bs
  <1>1. B * bs - s * bs = (B - s) * bs OBVIOUS
  <1>2. (B - s) * bs \in Nat /\ x * bs \in Nat /\ B * bs \in Nat
    <2>1. 0 <= B - s /\ B - s \in Int /\ bs \in Nat OBVIOUS
    <2>2. 0 * bs <= (B - s) * bs BY <2>1, Times
    <2>3. (B - s) * bs \in Int /\ 0 * bs = 0 BY <2>1
    <2> QED BY <2>2, <2>3
  <1>3. (B - s) * bs <= B * bs BY Times
  <1>w. 2^DeviceBits \in Nat BY DEF InputsOK, WidthsOK
  <1>4. Device(B * bs - s * bs) = (B - s) * bs
    <2>1. (B - s) * bs < 2^DeviceBits BY ONLY <1>w, <1>2, <1>3, B * bs < 2^DeviceBits
    <2> QED BY <1>1, <1>2, <2>1, Fits
  <1>5. CASE x >= B - s
    <2>1. (B - s) * bs <= x * bs BY <1>5, Times
    <2>2. x * bs - (B - s) * bs = (x - (B - s)) * bs OBVIOUS
    <2>3. x - (B - s) \in 0..(B - 1) BY <1>5
    <2>4. (x - (B - s)) * bs \in Nat /\ (x - (B - s)) * bs < 2^DeviceBits
      <3>1. 0 * bs <= (x - (B - s)) * bs /\ (x - (B - s)) * bs <= B * bs BY <2>3, Times
      <3>2. (x - (B - s)) * bs \in Int BY <2>3
      <3> QED BY ONLY <1>w, <1>2, <3>1, <3>2, B * bs < 2^DeviceBits, bs \in Nat \ {0}
    <2>5. Device(x * bs - (B - s) * bs) = (x - (B - s)) * bs BY <2>2, <2>4, Fits
    <2>6. (x + s) % B = x - (B - s)
      <3> DEFINE r == x - (B - s)
      <3>1. r \in 0..(B - 1) BY <2>3
      <3>2. 1 * B + r = x + s OBVIOUS
      <3> HIDE DEF r
      <3>3. (1 * B + r) % B = r BY <3>1, Division
      <3> QED BY <3>2, <3>3 DEF r
    <2> QED BY <1>4, <2>1, <2>5, <2>6 DEF Increment
  <1>6. CASE x < B - s
    <2>1. (x + 1) * bs <= (B - s) * bs /\ (x + 1) * bs = x * bs + bs BY <1>6, Times
    <2>2. ~(x * bs >= (B - s) * bs)
      <3>1. x * bs < x * bs + bs BY <1>2
      <3> QED BY <1>2, <2>1, <3>1
    <2>3. x * bs + s * bs = (x + s) * bs OBVIOUS
    <2>4. x + s \in 0..(B - 1) BY <1>6
    <2>5. (x + s) * bs \in Nat /\ (x + s) * bs < 2^DeviceBits
      <3>1. 0 * bs <= (x + s) * bs /\ (x + s) * bs <= B * bs BY <2>4, Times
      <3>2. (x + s) * bs \in Int BY <2>4
      <3> QED BY ONLY <1>w, <1>2, <3>1, <3>2, B * bs < 2^DeviceBits, bs \in Nat \ {0}
    <2>6. Device(x * bs + s * bs) = (x + s) * bs BY <2>3, <2>5, Fits
    <2>7. (x + s) % B = x + s BY <2>4, InRange
    <2> QED BY <1>4, <2>2, <2>6, <2>7 DEF Increment
  <1> QED BY <1>5, <1>6

\* A capacity of B buckets that serves a request.
Serves(B, cap, sch, req, bs) ==
    /\ B \in Nat \ {0} /\ cap = B * bs
    /\ cap < 2^DeviceBits /\ cap >= req
    /\ sch = "double" => \E i \in 1..Len(Primes) :
                            /\ Primes[i] = B
                            /\ \A j \in 1..(i - 1) : Primes[j] * bs < AtLeastOne(req)

\* What every table starts from.
LEMMA Inputs ==
    ASSUME InputsOK, NEW sch \in Schemes, NEW req \in Requests[sch], NEW bs \in BucketSizes
    PROVE  /\ req \in Nat /\ bs \in Nat \ {0}
           /\ AtLeastOne(req) \in Nat \ {0} /\ AtLeastOne(req) >= req
  <1>1. req \in 0..(2^HostBits - 1) BY DEF InputsOK
  <1>2. req \in Nat /\ bs \in Nat \ {0} BY <1>1 DEF InputsOK
  <1> QED BY <1>2 DEF AtLeastOne

\* LinearProbing: as many buckets as the request takes, and one for no request.
LEMMA LinearServes ==
    ASSUME InputsOK, SizesFit, NEW req \in Requests["linear"], NEW bs \in BucketSizes
    PROVE  \E B \in Nat : Serves(B, Device(LinearExtent(req, bs)), "linear", req, bs)
  <1>0. "linear" \in Schemes BY DEF Schemes
  <1>1. /\ req \in Nat /\ bs \in Nat \ {0}
        /\ AtLeastOne(req) \in Nat \ {0} /\ AtLeastOne(req) >= req
    BY <1>0, Inputs
  <1> DEFINE q == IntDivCeil(AtLeastOne(req), bs)
             B == q + (IF req = 0 THEN 1 ELSE 0)
  <1>2. q \in Nat \ {0} /\ q * bs >= AtLeastOne(req) BY <1>1, Ceiling
  <1>3. LinearSlots(req, bs) = B * bs BY DEF LinearSlots
  <1>4. LinearSlots(req, bs) < 2^HostBits /\ LinearSlots(req, bs) < 2^DeviceBits
    BY DEF SizesFit
  <1> HIDE DEF q
  <1>5. B \in Nat \ {0} /\ q <= B BY <1>1, <1>2
  <1> HIDE DEF B
  <1>6. B * bs \in Nat /\ q * bs \in Nat /\ q * bs <= B * bs BY <1>1, <1>2, <1>5, Times
  <1>7. Device(LinearExtent(req, bs)) = B * bs BY <1>3, <1>4, <1>6, Fits DEF LinearExtent
  <1>8. B * bs >= req BY <1>1, <1>2, <1>6
  <1> QED BY <1>3, <1>4, <1>5, <1>7, <1>8 DEF Serves

\* DoubleHashing: the first entry of the prime table that gives enough buckets,
\* unless the request needs more than the last one gives.
LEMMA DoubleServes ==
    ASSUME InputsOK, SizesFit, NEW req \in Requests["double"], NEW bs \in BucketSizes,
           ~DoubleRejects(req, bs)
    PROVE  \E B \in Nat : Serves(B, Device(DoubleExtent(req, bs)), "double", req, bs)
  <1>0. "double" \in Schemes BY DEF Schemes
  <1>1. /\ req \in Nat /\ bs \in Nat \ {0}
        /\ AtLeastOne(req) \in Nat \ {0} /\ AtLeastOne(req) >= req
    BY <1>0, Inputs
  <1>p. PrimesOK /\ Primes \in Seq(Nat \ {0, 1}) /\ Len(Primes) \in Nat \ {0}
        /\ \A k \in 1..Len(Primes) : Primes[k] \in Nat \ {0, 1}
    BY DEF InputsOK, PrimesOK, TableOfPrimes
  <1> DEFINE q == IntDivCeil(AtLeastOne(req), bs)
             i == LowerBound(q)
             B == Primes[i]
  <1>2. q \in Nat \ {0} /\ q * bs >= AtLeastOne(req) /\ (q - 1) * bs < AtLeastOne(req)
    BY <1>1, Ceiling
  <1>3. q <= Primes[Len(Primes)]
    <2>1. MaxBuckets <= Primes[Len(Primes)] /\ MaxBuckets \in Int
      <3>1. 2^HostBits \in Nat BY DEF InputsOK, WidthsOK
      <3>2. Primes[Len(Primes)] \in Nat BY <1>p
      <3> QED BY <3>1, <3>2 DEF MaxBuckets
    <2>2. ~(q > MaxBuckets) BY DEF DoubleRejects
    <2>3. Primes[Len(Primes)] \in Nat BY <1>p
    <2> HIDE DEF q
    <2> QED BY <1>2, <2>1, <2>2, <2>3
  <1>4. i \in 1..Len(Primes) /\ Primes[i] >= q /\ \A j \in 1..(i - 1) : Primes[j] < q
    BY <1>p, <1>2, <1>3, LowerBoundIsFirst
  <1>5. DoubleSlots(req, bs) = B * bs BY DEF DoubleSlots
  <1>6. DoubleSlots(req, bs) < 2^HostBits /\ DoubleSlots(req, bs) < 2^DeviceBits
    BY DEF SizesFit
  <1> HIDE DEF q, i
  <1>7. B \in Nat \ {0} /\ q <= B BY <1>p, <1>2, <1>4
  <1>8. \A j \in 1..(i - 1) : Primes[j] * bs < AtLeastOne(req)
    <2> SUFFICES ASSUME NEW j \in 1..(i - 1) PROVE Primes[j] * bs < AtLeastOne(req) OBVIOUS
    <2>1. j \in 1..Len(Primes) BY <1>p, <1>4
    <2>2. Primes[j] \in Nat /\ Primes[j] < q BY <1>p, <1>4, <2>1
    <2>3. Primes[j] <= q - 1 BY <1>2, <2>2
    <2>4. Primes[j] * bs <= (q - 1) * bs
      <3>1. Primes[j] \in Int /\ q - 1 \in Int /\ bs \in Nat BY <1>1, <1>2, <2>2
      <3> QED BY <2>3, <3>1, Times
    <2>5. Primes[j] * bs \in Int /\ (q - 1) * bs \in Int BY <1>1, <1>2, <2>2
    <2> QED BY <1>1, <1>2, <2>4, <2>5
  <1>9. Primes[i] = B OBVIOUS
  <1> HIDE DEF B
  <1>10. B * bs \in Nat /\ q * bs \in Nat /\ q * bs <= B * bs BY <1>1, <1>2, <1>7, Times
  <1>11. Device(DoubleExtent(req, bs)) = B * bs BY <1>5, <1>6, <1>10, Fits DEF DoubleExtent
  <1>12. B * bs >= req BY <1>1, <1>2, <1>10
  <1> QED BY <1>4, <1>5, <1>6, <1>7, <1>8, <1>9, <1>11, <1>12 DEF Serves

--------------------------------------------------------------------------------
(* The invariant. *)

\* A table that was built has whole buckets, and serves its request.
Buckets == BucketCount(capacity, bucketSize)
Sized == phase \in {"built", "walk", "wrapped"} =>
            Serves(Buckets, capacity, scheme, request, bucketSize)

\* A walk from bucket h in steps of s buckets has taken n of them.
Course(h, s, n) ==
    /\ scheme = "linear" => s = 1
    /\ scheme = "double" => s < Buckets
    /\ start = h * bucketSize /\ step = s * bucketSize
    /\ idx = At(h, s, Buckets, n) * bucketSize
    /\ visited = {At(h, s, Buckets, j) * bucketSize : j \in 0..n}
    /\ phase = "walk" => n < Buckets
    /\ phase = "wrapped" => n = Buckets
Walking == phase \in {"walk", "wrapped"} =>
              \E h \in 0..(Buckets - 1), s \in 1..Buckets, n \in 0..Buckets : Course(h, s, n)

ProbeInv == TypeOK /\ Sized /\ Walking

\* The bucket count of a double-hashing table is a prime.
LEMMA BucketsArePrime ==
    ASSUME InputsOK, NEW B, NEW cap, NEW req, NEW bs, Serves(B, cap, "double", req, bs)
    PROVE  B \in Nat \ {0, 1} /\ \A d \in 2..(B - 1) : B % d # 0
  <1>1. /\ Primes \in Seq(Nat \ {0, 1})
        /\ \A i \in 1..Len(Primes) : \A d \in 2..(Primes[i] - 1) : Primes[i] % d # 0
    BY DEF InputsOK, PrimesOK, TableOfPrimes
  <1>2. PICK i \in 1..Len(Primes) : Primes[i] = B BY DEF Serves
  <1>3. Primes[i] \in Nat \ {0, 1} BY <1>1
  <1> QED BY <1>1, <1>2, <1>3, Zenon

\* The steps of a walk reach every bucket.
LEMMA StepsReach ==
    ASSUME InputsOK, ProbeInv, phase \in {"built", "walk", "wrapped"}, NEW s \in 1..Buckets,
           scheme = "linear" => s = 1, scheme = "double" => s < Buckets
    PROVE  Buckets \in Nat \ {0} /\ s \in Nat /\ Unit(s, Buckets)
  <1>1. Serves(Buckets, capacity, scheme, request, bucketSize) BY DEF ProbeInv, Sized
  <1>2. Buckets \in Nat \ {0} BY <1>1 DEF Serves
  <1>3. s \in Nat BY <1>2
  <1>4. scheme \in {"linear", "double"} BY DEF ProbeInv, TypeOK, Schemes
  <1>5. CASE scheme = "linear"
    <2>1. s = 1 BY <1>5
    <2> QED BY <1>2, <1>3, <2>1, UnitOfOne
  <1>6. CASE scheme = "double"
    <2>1. Buckets \in Nat \ {0, 1} /\ \A d \in 2..(Buckets - 1) : Buckets % d # 0
      BY <1>1, <1>6, BucketsArePrime
    <2>2. s \in 1..(Buckets - 1) BY <1>2, <1>6
    <2> QED BY <1>2, <1>3, <2>1, <2>2, UnitOfPrime
  <1> QED BY <1>4, <1>5, <1>6

\* A number below a bound is in the range it ends.
LEMMA Below ==
    ASSUME NEW w \in Nat, NEW c \in Int, c < w, NEW x \in Nat, x <= c
    PROVE  x \in 0..(w - 1)
  OBVIOUS

\* What the invariant says in numbers.
LEMMA InNumbers ==
    ASSUME InputsOK, ProbeInv, phase \in {"built", "walk", "wrapped"}
    PROVE  /\ Buckets \in Nat \ {0} /\ bucketSize \in Nat \ {0}
           /\ capacity = Buckets * bucketSize /\ capacity < 2^DeviceBits
           /\ 2^DeviceBits \in Nat \ {0}
           /\ scheme \in Schemes /\ request \in Requests[scheme] /\ bucketSize \in BucketSizes
  <1>1. Serves(Buckets, capacity, scheme, request, bucketSize) BY DEF ProbeInv, Sized
  <1>2. scheme \in Schemes /\ request \in Requests[scheme] /\ bucketSize \in BucketSizes
    BY DEF ProbeInv, TypeOK
  <1> QED BY <1>1, <1>2, Inputs DEF Serves, InputsOK, WidthsOK

\* A bucket's first slot is a slot.
LEMMA SlotsOfBuckets ==
    ASSUME NEW B \in Nat \ {0}, NEW bs \in Nat \ {0}, NEW x \in 0..(B - 1)
    PROVE  x * bs \in Nat /\ x * bs + bs <= B * bs /\ x * bs < B * bs
  <1>1. (x + 1) * bs <= B * bs BY Times
  <1>2. (x + 1) * bs = x * bs + bs /\ x * bs \in Int /\ B * bs \in Int OBVIOUS
  <1>3. 0 * bs <= x * bs BY Times
  <1> QED BY <1>1, <1>2, <1>3

\* A table that is not there yet breaks nothing.
LEMMA InitHolds ==
    ASSUME InputsOK, Init
    PROVE  ProbeInv
  <1>1. 2^DeviceBits \in Nat \ {0} BY DEF InputsOK, WidthsOK
  <1>2. 0 \in 0..(2^DeviceBits - 1) BY <1>1
  <1>3. TypeOK BY <1>2 DEF Init, TypeOK
  <1> QED BY <1>3 DEF Init, ProbeInv, Sized, Walking

\* The constructor builds a table that serves, or throws.
LEMMA ConstructKeeps ==
    ASSUME InputsOK, SizesFit, ProbeInv, Construct
    PROVE  ProbeInv'
  <1> DEFINE throws == scheme = "double" /\ DoubleRejects(request, bucketSize)
             ext == IF scheme = "double" THEN DoubleExtent(request, bucketSize)
                                         ELSE LinearExtent(request, bucketSize)
  <1>1. /\ phase' = IF throws THEN "thrown" ELSE "built"
        /\ capacity' = IF throws THEN 0 ELSE Device(ext)
        /\ UNCHANGED <<scheme, request, bucketSize, start, step, idx, visited>>
    BY DEF Construct
  <1>2. scheme \in Schemes /\ request \in Requests[scheme] /\ bucketSize \in BucketSizes
    BY DEF ProbeInv, TypeOK
  <1>3. bucketSize \in Nat \ {0} /\ request \in Nat BY <1>2, Inputs
  <1>4. 2^DeviceBits \in Nat \ {0} BY DEF InputsOK, WidthsOK
  <1>5. CASE throws
    <2>1. phase' = "thrown" /\ capacity' = 0 BY <1>1, <1>5
    <2>2. 0 \in 0..(2^DeviceBits - 1) BY <1>4
    <2>3. TypeOK' BY <1>1, <2>1, <2>2 DEF ProbeInv, TypeOK
    <2> QED BY <2>1, <2>3 DEF ProbeInv, Sized, Walking
  <1>6. CASE ~throws
    <2>1. phase' = "built" /\ capacity' = Device(ext) BY <1>1, <1>6
    <2>2. PICK B \in Nat : Serves(B, capacity', scheme, request, bucketSize)
      <3>1. CASE scheme = "linear"
        <4>1. ext = LinearExtent(request, bucketSize) BY <3>1
        <4>2. request \in Requests["linear"] BY <1>2, <3>1
        <4> QED BY <1>2, <2>1, <3>1, <4>1, <4>2, LinearServes
      <3>2. CASE scheme = "double"
        <4>1. ext = DoubleExtent(request, bucketSize) BY <3>2
        <4>2. request \in Requests["double"] /\ ~DoubleRejects(request, bucketSize)
          BY <1>2, <1>6, <3>2
        <4> QED BY <1>2, <2>1, <3>2, <4>1, <4>2, DoubleServes
      <3> QED BY <1>2, <3>1, <3>2 DEF Schemes
    <2>3. capacity' = B * bucketSize /\ B \in Nat \ {0} /\ capacity' < 2^DeviceBits
      BY <2>2 DEF Serves
    <2>4. BucketCount(capacity', bucketSize) = B BY <1>3, <2>3, WholeBuckets
    <2>5. Sized' BY <1>1, <2>2, <2>4 DEF Sized, Buckets
    <2>6. capacity' \in 0..(2^DeviceBits - 1)
      <3>1. 0 * bucketSize <= B * bucketSize BY <1>3, <2>3, Times
      <3>2. B * bucketSize \in Int BY <1>3, <2>3
      <3> QED BY <1>3, <1>4, <2>3, <3>1, <3>2
    <2>7. TypeOK' BY <1>1, <2>1, <2>6 DEF ProbeInv, TypeOK
    <2>8. Walking' BY <2>1 DEF Walking
    <2> QED BY <2>5, <2>7, <2>8 DEF ProbeInv
  <1> QED BY <1>5, <1>6

\* A key's walk starts at the first slot of some bucket, with a step of whole
\* buckets.
LEMMA MakeIteratorKeeps ==
    ASSUME InputsOK, ProbeInv, NEW h1 \in Hashes, NEW h2 \in Hashes, MakeIterator(h1, h2)
    PROVE  ProbeInv'
  <1>1. phase \in {"built", "wrapped"} /\ phase' = "walk"
        /\ UNCHANGED <<scheme, request, bucketSize, capacity>>
        /\ start' = Initial(h1, capacity, bucketSize) /\ idx' = start' /\ visited' = {start'}
        /\ step' = IF scheme = "linear" THEN LinearStep(bucketSize)
                                        ELSE DoubleStep(h2, capacity, bucketSize)
    BY DEF MakeIterator
  <1>2. /\ Buckets \in Nat \ {0} /\ bucketSize \in Nat \ {0}
        /\ capacity = Buckets * bucketSize /\ capacity < 2^DeviceBits
        /\ 2^DeviceBits \in Nat \ {0}
        /\ scheme \in Schemes
    BY <1>1, InNumbers
  <1>3. h1 \in Int /\ h2 \in Int BY <1>2 DEF InputsOK
  <1>a. PICK h : h = h1 % Buckets OBVIOUS
  <1>4. h \in 0..(Buckets - 1) BY <1>a, <1>2, <1>3, Divided
  <1>b. PICK s : s = IF scheme = "linear" THEN 1 ELSE (h2 % (Buckets - 1)) + 1 OBVIOUS
  <1>5. /\ s \in 1..Buckets
        /\ scheme = "double" => s < Buckets
        /\ scheme = "linear" => s = 1
    <2>1. CASE scheme = "linear" BY <1>b, <1>2, <2>1
    <2>2. CASE scheme # "linear"
      <3>1. scheme = "double" BY <1>2, <2>2 DEF Schemes
      <3>2. Buckets \in Nat \ {0, 1}
        <4>1. Serves(Buckets, capacity, "double", request, bucketSize)
          BY <1>1, <3>1 DEF ProbeInv, Sized
        <4> QED BY <4>1, BucketsArePrime
      <3>3. Buckets - 1 \in Nat \ {0} BY <3>2
      <3>4. h2 % (Buckets - 1) \in 0..((Buckets - 1) - 1) BY <1>3, <3>3, Divided
      <3> QED BY <1>b, <2>2, <3>2, <3>4
    <2> QED BY <2>1, <2>2
  <1>6. start' = h * bucketSize
    <2>1. h * bucketSize \in Nat /\ h * bucketSize < 2^DeviceBits
      <3>1. h * bucketSize \in Nat /\ h * bucketSize < Buckets * bucketSize
        BY <1>2, <1>4, SlotsOfBuckets
      <3> QED BY ONLY <3>1, <1>2
    <2>2. Device(h * bucketSize) = h * bucketSize BY <2>1, Fits
    <2> QED BY <1>a, <1>1, <2>2 DEF Initial, Buckets
  <1>7. s * bucketSize \in Nat /\ s * bucketSize <= capacity
    <2>1. 0 * bucketSize <= s * bucketSize /\ s * bucketSize <= Buckets * bucketSize
      BY <1>2, <1>5, Times
    <2>2. s * bucketSize \in Int BY <1>2, <1>5
    <2> QED BY <1>2, <2>1, <2>2
  <1>8. step' = s * bucketSize
    <2>1. CASE scheme = "linear"
      <3>1. s * bucketSize = bucketSize BY <1>b, <1>2, <2>1
      <3> QED BY <1>1, <2>1, <3>1 DEF LinearStep
    <2>2. CASE scheme # "linear"
      <3>1. s * bucketSize < 2^DeviceBits
        <4>1. capacity \in Int BY <1>2
        <4> QED BY ONLY <1>2, <1>7, <4>1
      <3>2. Device(s * bucketSize) = s * bucketSize BY <1>7, <3>1, Fits
      <3>3. s = (h2 % (Buckets - 1)) + 1 BY <1>b, <2>2
      <3> QED BY <1>1, <2>2, <3>2, <3>3 DEF DoubleStep, Buckets
    <2> QED BY <2>1, <2>2
  <1>9. Buckets' = Buckets BY <1>1 DEF Buckets
  <1>10. s \in Nat BY <1>2, <1>5
  <1>11. At(h, s, Buckets, 0) = h BY <1>2, <1>4, <1>10, Returns
  <1>12. Course(h, s, 0)'
    <2>1. {At(h, s, Buckets, j) * bucketSize : j \in 0..0} = {h * bucketSize} BY <1>11
    <2> QED BY <1>1, <1>2, <1>5, <1>6, <1>8, <1>9, <1>11, <2>1 DEF Course
  <1>13. Walking'
    <2>1. 0 \in 0..Buckets BY <1>2
    <2> QED BY <1>4, <1>5, <1>9, <1>12, <2>1 DEF Walking
  <1>14. Sized' BY <1>1, <1>9 DEF ProbeInv, Sized
  <1>15. TypeOK'
    <2>1. h * bucketSize \in Nat /\ h * bucketSize < Buckets * bucketSize
      BY <1>2, <1>4, SlotsOfBuckets
    <2>2. capacity \in Int /\ 2^DeviceBits \in Nat /\ h * bucketSize <= capacity
      BY ONLY <1>2, <2>1
    <2>3. h * bucketSize \in 0..(2^DeviceBits - 1) BY <1>2, <2>1, <2>2, Below
    <2>4. s * bucketSize \in 0..(2^DeviceBits - 1) BY <1>2, <1>7, <2>2, Below
    <2> QED BY <1>1, <1>6, <1>8, <2>3, <2>4 DEF ProbeInv, TypeOK
  <1> QED BY <1>13, <1>14, <1>15 DEF ProbeInv

\* The invariant, of a walk on its way.
LEMMA OnItsWay ==
    ASSUME InputsOK, ProbeInv, phase = "walk"
    PROVE  \E h \in 0..(Buckets - 1), s \in 1..Buckets, n \in 0..(Buckets - 1) :
              /\ Course(h, s, n)
              /\ Unit(s, Buckets)
  <1>1. PICK h \in 0..(Buckets - 1), s \in 1..Buckets, n \in 0..Buckets : Course(h, s, n)
    BY DEF ProbeInv, Walking
  <1>2. Buckets \in Nat \ {0} BY InNumbers
  <1>3. n \in 0..(Buckets - 1) BY <1>1, <1>2 DEF Course
  <1>4. Unit(s, Buckets)
    <2>1. (scheme = "linear" => s = 1) /\ (scheme = "double" => s < Buckets)
      BY <1>1 DEF Course
    <2> QED BY <2>1, StepsReach
  <1> QED BY <1>1, <1>3, <1>4

\* What a step of the walk does.
LEMMA Advances ==
    ASSUME InputsOK, ProbeInv, Advance,
           NEW h \in 0..(Buckets - 1), NEW s \in 1..Buckets, NEW n \in 0..(Buckets - 1),
           Course(h, s, n), Unit(s, Buckets)
    PROVE  /\ idx' = At(h, s, Buckets, n + 1) * bucketSize
           /\ At(h, s, Buckets, n + 1) \in 0..(Buckets - 1)
           /\ idx' = start <=> n + 1 = Buckets
  <1>1. phase = "walk" /\ idx' = Increment(idx, step, capacity) BY DEF Advance
  <1>2. /\ Buckets \in Nat \ {0} /\ bucketSize \in Nat \ {0}
        /\ capacity = Buckets * bucketSize /\ capacity < 2^DeviceBits
    BY <1>1, InNumbers
  <1>3. s \in Nat /\ h \in Nat /\ n \in Nat BY <1>2
  <1>4. At(h, s, Buckets, n) \in 0..(Buckets - 1)
        /\ At(h, s, Buckets, n + 1) = (At(h, s, Buckets, n) + s) % Buckets
    BY <1>2, <1>3, OneOn
  <1>5. At(h, s, Buckets, n + 1) \in 0..(Buckets - 1)
    <2>1. n + 1 \in Nat BY <1>3
    <2> QED BY <1>2, <1>3, <2>1, OneOn
  <1>6. idx' = At(h, s, Buckets, n + 1) * bucketSize
    <2>1. idx = At(h, s, Buckets, n) * bucketSize /\ step = s * bucketSize BY DEF Course
    <2>2. Buckets * bucketSize < 2^DeviceBits BY <1>2
    <2> QED BY <1>1, <1>2, <1>4, <2>1, <2>2, IncrementSteps, ZenonT(60)
  <1>7. idx' = start <=> At(h, s, Buckets, n + 1) = h
    <2>1. start = h * bucketSize BY DEF Course
    <2>2. ASSUME NEW x \in Int, NEW y \in Int, x * bucketSize = y * bucketSize PROVE x = y
      <3>1. BucketCount(x * bucketSize, bucketSize) = x
            /\ BucketCount(y * bucketSize, bucketSize) = y
        BY <1>2, WholeBuckets
      <3> QED BY <2>2, <3>1
    <2>3. At(h, s, Buckets, n + 1) \in Int /\ h \in Int BY <1>3, <1>5
    <2> QED BY <1>6, <2>1, <2>2, <2>3
  <1>8. At(h, s, Buckets, 0) = h /\ At(h, s, Buckets, Buckets) = h BY <1>2, <1>3, Returns
  <1>9. ASSUME At(h, s, Buckets, n + 1) = h PROVE n + 1 = Buckets
    <2>1. At(h, s, Buckets, n + 1) = At(h, s, Buckets, 0) BY <1>8, <1>9
    <2>2. n + 1 \in Nat /\ 0 \in Nat BY <1>3
    <2>3. (n + 1) % Buckets = 0 % Buckets BY <1>2, <1>3, <2>1, <2>2, Distinct
    <2>4. 0 % Buckets = 0
      <3>1. 0 \in 0..(Buckets - 1) BY <1>2
      <3> QED BY <1>2, <3>1, InRange
    <2>5. CASE n + 1 \in 0..(Buckets - 1)
      <3>1. (n + 1) % Buckets = n + 1 BY <1>2, <2>5, InRange
      <3> QED BY <1>3, <2>3, <2>4, <3>1
    <2>6. CASE n + 1 \notin 0..(Buckets - 1) BY <1>2, <1>3, <2>6
    <2> QED BY <2>5, <2>6
  <1> QED BY <1>5, <1>6, <1>7, <1>8, <1>9

\* A step on adds a bucket to those of the walk, and the last one is back.
LEMMA AdvanceKeeps ==
    ASSUME InputsOK, ProbeInv, Advance
    PROVE  ProbeInv'
  <1>1. /\ phase = "walk" /\ visited' = visited \cup {idx'}
        /\ phase' = IF idx' = start THEN "wrapped" ELSE "walk"
        /\ UNCHANGED <<scheme, request, bucketSize, capacity, start, step>>
    BY DEF Advance
  <1>2. PICK h \in 0..(Buckets - 1), s \in 1..Buckets, n \in 0..(Buckets - 1) :
           Course(h, s, n) /\ Unit(s, Buckets)
    BY <1>1, OnItsWay
  <1>3. /\ idx' = At(h, s, Buckets, n + 1) * bucketSize
        /\ At(h, s, Buckets, n + 1) \in 0..(Buckets - 1)
        /\ idx' = start <=> n + 1 = Buckets
    BY <1>2, Advances
  <1>4. /\ Buckets \in Nat \ {0} /\ bucketSize \in Nat \ {0}
        /\ capacity = Buckets * bucketSize /\ capacity < 2^DeviceBits
        /\ 2^DeviceBits \in Nat \ {0}
    BY <1>1, InNumbers
  <1>5. Buckets' = Buckets BY <1>1 DEF Buckets
  <1>6. n + 1 \in 0..Buckets BY <1>2, <1>4
  <1>7. visited' = {At(h, s, Buckets, j) * bucketSize : j \in 0..(n + 1)}
    <2>1. 0..(n + 1) = (0..n) \cup {n + 1} BY <1>2, <1>4
    <2>2. visited = {At(h, s, Buckets, j) * bucketSize : j \in 0..n} BY <1>2 DEF Course
    <2> QED BY <1>1, <1>3, <2>1, <2>2
  <1>8. /\ phase' = "walk" => n + 1 < Buckets
        /\ phase' = "wrapped" => n + 1 = Buckets
    BY <1>1, <1>3, <1>4, <1>6
  <1>9. Course(h, s, n + 1)'
    <2>1. /\ scheme = "linear" => s = 1
          /\ scheme = "double" => s < Buckets
          /\ start = h * bucketSize /\ step = s * bucketSize
      BY <1>2 DEF Course
    <2> QED BY <1>1, <1>3, <1>5, <1>7, <1>8, <2>1 DEF Course
  <1>10. Walking' BY <1>2, <1>5, <1>6, <1>9 DEF Walking
  <1>11. Sized' BY <1>1, <1>5 DEF ProbeInv, Sized
  <1>12. TypeOK'
    <2>1. /\ At(h, s, Buckets, n + 1) * bucketSize \in Nat
          /\ At(h, s, Buckets, n + 1) * bucketSize < Buckets * bucketSize
      BY <1>3, <1>4, SlotsOfBuckets
    <2>2. capacity \in Int /\ idx' <= capacity /\ idx' \in Nat
      BY ONLY <1>3, <1>4, <2>1
    <2>3. idx' \in 0..(2^DeviceBits - 1) BY <1>4, <2>2, Below
    <2> QED BY <1>1, <2>3 DEF ProbeInv, TypeOK
  <1> QED BY <1>10, <1>11, <1>12 DEF ProbeInv

\* Nothing breaks the invariant.
LEMMA StepKeeps ==
    ASSUME InputsOK, SizesFit, ProbeInv, [Next]_vars
    PROVE  ProbeInv'
  <1>1. CASE Construct BY <1>1, ConstructKeeps
  <1>2. CASE Retry
    <2>1. /\ phase = "thrown" /\ phase' = "none" /\ request' \in Requests[scheme]
          /\ UNCHANGED <<scheme, bucketSize, capacity, start, step, idx, visited>>
      BY <1>2 DEF Retry
    <2> QED BY <2>1 DEF ProbeInv, TypeOK, Sized, Walking
  <1>3. CASE \E h1, h2 \in Hashes : MakeIterator(h1, h2) BY <1>3, MakeIteratorKeeps
  <1>4. CASE Advance BY <1>4, AdvanceKeeps
  <1>5. CASE UNCHANGED vars
    <2>1. Buckets' = Buckets /\ \A h, s, n : Course(h, s, n)' <=> Course(h, s, n)
      BY <1>5 DEF vars, Course, Buckets
    <2> QED BY <1>5, <2>1 DEF vars, ProbeInv, TypeOK, Sized, Walking
  <1> QED BY <1>1, <1>2, <1>3, <1>4, <1>5 DEF Next

--------------------------------------------------------------------------------
(* The path of a probe. *)

\* A path through the n slots of a table that comes to each of them once.
EachSlotOnce(path, n) ==
    /\ path \in [1..n -> 0..(n - 1)]
    /\ \A i \in 0..(n - 1) : \E p \in 1..n : path[p] = i
    /\ \A p, q \in 1..n : path[p] = path[q] => p = q

\* SlotPath is the walk, bucket by bucket.
LEMMA PathOfBuckets ==
    ASSUME InputsOK, NEW B \in Nat \ {0}, NEW bs \in Nat \ {0}, B * bs < 2^DeviceBits,
           NEW h \in 0..(B - 1), NEW s \in 1..B
    PROVE  SlotPath(h * bs, s * bs, B * bs, bs) =
              [p \in 1..(B * bs) |-> At(h, s, B, (p - 1) \div bs) * bs + ((p - 1) % bs)]
  <1> DEFINE Loop(g) == [n \in 0..B |-> IF n = 0 THEN h * bs
                                        ELSE Increment(g[n - 1], s * bs, B * bs)]
             walk == CHOOSE g : g = Loop(g)
             G == [n \in 0..B |-> At(h, s, B, n) * bs]
  <1>1. h \in Nat /\ s \in Nat OBVIOUS
  <1>2. At(h, s, B, 0) = h BY <1>1, Returns
  <1>3. ASSUME NEW n \in 0..B, n # 0
        PROVE  Increment(At(h, s, B, n - 1) * bs, s * bs, B * bs) = At(h, s, B, n) * bs
    <2>1. n - 1 \in Nat /\ (n - 1) + 1 = n BY <1>3
    <2>2. At(h, s, B, n - 1) \in 0..(B - 1)
          /\ At(h, s, B, (n - 1) + 1) = (At(h, s, B, n - 1) + s) % B
      BY <1>1, <2>1, OneOn
    <2>3. Increment(At(h, s, B, n - 1) * bs, s * bs, B * bs)
            = ((At(h, s, B, n - 1) + s) % B) * bs
      BY <2>2, IncrementSteps
    <2> QED BY <2>1, <2>2, <2>3
  <1>4. G = Loop(G)
    <2>1. ASSUME NEW n \in 0..B
          PROVE  G[n] = IF n = 0 THEN h * bs ELSE Increment(G[n - 1], s * bs, B * bs)
      <3>1. CASE n = 0 BY <1>2, <3>1
      <3>2. CASE n # 0
        <4>1. n - 1 \in 0..B BY <3>2
        <4>2. G[n] = At(h, s, B, n) * bs /\ G[n - 1] = At(h, s, B, n - 1) * bs BY <4>1
        <4> QED BY <1>3, <3>2, <4>2
      <3> QED BY <3>1, <3>2
    <2> QED BY <2>1
  <1>5. walk = Loop(walk) BY <1>4
  <1>6. SlotPath(h * bs, s * bs, B * bs, bs)
          = [p \in 1..(B * bs) |-> walk[(p - 1) \div bs] + ((p - 1) % bs)]
    <2>1. BucketCount(B * bs, bs) = B BY WholeBuckets
    <2> DEFINE Of(n) == CHOOSE g : g = [i \in 0..n |->
                           IF i = 0 THEN h * bs ELSE Increment(g[i - 1], s * bs, B * bs)]
    <2>2. SlotPath(h * bs, s * bs, B * bs, bs)
            = [p \in 1..(B * bs) |-> Of(BucketCount(B * bs, bs))[(p - 1) \div bs]
                                       + ((p - 1) % bs)]
      BY DEF SlotPath
    <2>3. Of(B) = walk OBVIOUS
    <2> HIDE DEF Of, walk
    <2> QED BY <2>1, <2>2, <2>3
  <1>7. /\ walk[0] = h * bs
        /\ \A n \in 1..B : walk[n] = Increment(walk[n - 1], s * bs, B * bs)
    <2> HIDE DEF walk
    <2> QED BY <1>5
  <1> HIDE DEF walk
  <1>8. \A n \in 0..B : walk[n] = At(h, s, B, n) * bs
    <2> DEFINE S == {n \in Nat : n <= B => walk[n] = At(h, s, B, n) * bs}
    <2>1. 0 \in S BY <1>2, <1>7
    <2>2. ASSUME NEW n \in Nat, n \in S PROVE n + 1 \in S
      <3> SUFFICES ASSUME n + 1 <= B PROVE walk[n + 1] = At(h, s, B, n + 1) * bs OBVIOUS
      <3>1. n + 1 \in 1..B /\ n + 1 \in 0..B /\ n + 1 # 0 /\ (n + 1) - 1 = n OBVIOUS
      <3>2. walk[n] = At(h, s, B, n) * bs BY <2>2
      <3>3. walk[n + 1] = Increment(walk[(n + 1) - 1], s * bs, B * bs) BY <1>7, <3>1
      <3>4. Increment(At(h, s, B, (n + 1) - 1) * bs, s * bs, B * bs) = At(h, s, B, n + 1) * bs
        BY <1>3, <3>1
      <3> QED BY <3>1, <3>2, <3>3, <3>4
    <2> HIDE DEF S
    <2>3. Nat \subseteq S BY <2>1, <2>2, Induction
    <2>4. ASSUME NEW n \in 0..B PROVE n \in S BY <2>3
    <2> QED BY <2>4 DEF S
  <1>9. ASSUME NEW p \in 1..(B * bs)
        PROVE  walk[(p - 1) \div bs] = At(h, s, B, (p - 1) \div bs) * bs
    <2>1. B * bs \in Nat OBVIOUS
    <2>2. p - 1 \in Int /\ p - 1 \in Nat /\ p - 1 < B * bs BY <2>1
    <2> DEFINE d == (p - 1) \div bs
               r == (p - 1) % bs
    <2>3. d \in Nat /\ p - 1 = d * bs + r /\ r \in 0..(bs - 1) BY <2>2, Divided
    <2> HIDE DEF d, r
    <2>4. d < B
      <3> SUFFICES ASSUME B <= d PROVE FALSE BY <2>3
      <3>1. B * bs <= d * bs BY <2>3, Times
      <3>2. d * bs \in Int BY <2>3
      <3> QED BY <2>1, <2>2, <2>3, <3>1, <3>2
    <2>5. d \in 0..B BY <2>3, <2>4
    <2> QED BY <1>8, <2>5 DEF d
  <1> QED BY <1>6, <1>9

\* Positions on a path are buckets of the walk and places in a bucket.
LEMMA Positions ==
    ASSUME NEW B \in Nat \ {0}, NEW bs \in Nat \ {0}, NEW x \in 0..(B * bs - 1)
    PROVE  /\ x \div bs \in 0..(B - 1) /\ x % bs \in 0..(bs - 1)
           /\ x = (x \div bs) * bs + (x % bs)
  <1>1. B * bs \in Nat OBVIOUS
  <1>2. x \in Int /\ x \in Nat /\ x < B * bs BY <1>1
  <1> DEFINE d == x \div bs
             r == x % bs
  <1>3. d \in Nat /\ x = d * bs + r /\ r \in 0..(bs - 1) BY <1>2, Divided
  <1> HIDE DEF d, r
  <1>4. d < B
    <2> SUFFICES ASSUME B <= d PROVE FALSE BY <1>3
    <2>1. B * bs <= d * bs BY <1>3, Times
    <2>2. d * bs \in Int BY <1>3
    <2> QED BY <1>1, <1>2, <1>3, <2>1, <2>2
  <1>5. d \in 0..(B - 1) BY <1>3, <1>4
  <1> QED BY <1>3, <1>5 DEF d, r

\* A bucket and a place in it are a slot.
LEMMA Places ==
    ASSUME NEW B \in Nat \ {0}, NEW bs \in Nat \ {0}, NEW d \in 0..(B - 1), NEW r \in 0..(bs - 1)
    PROVE  d * bs + r \in 0..(B * bs - 1)
  <1>1. d * bs \in Nat /\ d * bs + bs <= B * bs BY SlotsOfBuckets
  <1>2. B * bs \in Nat OBVIOUS
  <1> QED BY <1>1, <1>2

\* A probe whose steps reach the next bucket comes to every slot once.
LEMMA PathServesSteps ==
    ASSUME InputsOK, NEW B \in Nat \ {0}, NEW bs \in Nat \ {0}, B * bs < 2^DeviceBits,
           NEW h \in 0..(B - 1), NEW s \in 1..B, Unit(s, B)
    PROVE  EachSlotOnce(SlotPath(h * bs, s * bs, B * bs, bs), B * bs)
  <1> DEFINE path == SlotPath(h * bs, s * bs, B * bs, bs)
             n == B * bs
  <1>1. h \in Nat /\ s \in Nat /\ n \in Nat OBVIOUS
  <1>2. path = [p \in 1..n |-> At(h, s, B, (p - 1) \div bs) * bs + ((p - 1) % bs)]
    BY PathOfBuckets
  <1> HIDE DEF path
  <1>3. ASSUME NEW p \in 1..n
        PROVE  \E d \in 0..(B - 1), r \in 0..(bs - 1) :
                  /\ p = d * bs + r + 1 /\ At(h, s, B, d) \in 0..(B - 1)
                  /\ path[p] = At(h, s, B, d) * bs + r
    <2>1. p - 1 \in 0..(B * bs - 1) BY <1>1
    <2> DEFINE d == (p - 1) \div bs
               r == (p - 1) % bs
    <2>2. d \in 0..(B - 1) /\ r \in 0..(bs - 1) /\ p - 1 = d * bs + r BY <2>1, Positions
    <2>3. path[p] = At(h, s, B, d) * bs + r BY <1>2
    <2> HIDE DEF d, r, n
    <2>4. d \in Nat /\ d * bs \in Int BY <2>2
    <2>5. At(h, s, B, d) \in 0..(B - 1) BY <1>1, <2>4, OneOn
    <2>6. p = d * bs + r + 1 BY <1>1, <2>2, <2>4
    <2> QED BY <2>2, <2>3, <2>5, <2>6
  <1>4. path \in [1..n -> 0..(n - 1)]
    <2>1. ASSUME NEW p \in 1..n PROVE path[p] \in 0..(n - 1)
      <3>1. PICK d \in 0..(B - 1), r \in 0..(bs - 1) :
               At(h, s, B, d) \in 0..(B - 1) /\ path[p] = At(h, s, B, d) * bs + r
        BY <1>3
      <3> QED BY <3>1, Places
    <2> HIDE DEF n
    <2> QED BY <1>2, <2>1
  <1>5. ASSUME NEW i \in 0..(n - 1) PROVE \E p \in 1..n : path[p] = i
    <2> DEFINE t == i \div bs
               r == i % bs
    <2>1. t \in 0..(B - 1) /\ r \in 0..(bs - 1) /\ i = t * bs + r BY Positions
    <2> HIDE DEF t, r
    <2>2. PICK j \in 0..(B - 1) : At(h, s, B, j) = t BY <1>1, <2>1, Reaches
    <2>3. j * bs + r \in 0..(n - 1) BY <2>1, <2>2, Places
    <2> DEFINE p == (j * bs + r) + 1
    <2>4. p \in 1..n /\ p - 1 = j * bs + r
      <3> DEFINE x == j * bs + r
      <3>1. x \in 0..(n - 1) BY <2>3
      <3> HIDE DEF x, n
      <3>2. x + 1 \in 1..n /\ (x + 1) - 1 = x BY <1>1, <3>1
      <3> QED BY <3>2 DEF x
    <2> HIDE DEF p
    <2>5. (p - 1) \div bs = j /\ (p - 1) % bs = r
      <3>1. j \in Int BY <2>2
      <3>2. (j * bs + r) % bs = r /\ (j * bs + r) \div bs = j BY <2>1, <3>1, Division
      <3> QED BY <2>4, <3>2
    <2>6. path[p] = At(h, s, B, (p - 1) \div bs) * bs + ((p - 1) % bs) BY <1>2, <2>4
    <2> QED BY <2>1, <2>2, <2>4, <2>5, <2>6
  <1>6. ASSUME NEW p \in 1..n, NEW q \in 1..n, path[p] = path[q] PROVE p = q
    <2>1. PICK d \in 0..(B - 1), r \in 0..(bs - 1) :
             /\ p = d * bs + r + 1 /\ At(h, s, B, d) \in 0..(B - 1)
             /\ path[p] = At(h, s, B, d) * bs + r
      BY <1>3
    <2>2. PICK e \in 0..(B - 1), t \in 0..(bs - 1) :
             /\ q = e * bs + t + 1 /\ At(h, s, B, e) \in 0..(B - 1)
             /\ path[q] = At(h, s, B, e) * bs + t
      BY <1>3
    <2>3. At(h, s, B, d) = At(h, s, B, e) /\ r = t
      <3> DEFINE a == At(h, s, B, d)
                 b == At(h, s, B, e)
      <3>1. a \in Int /\ b \in Int BY <2>1, <2>2
      <3>2. a * bs + r = b * bs + t BY <1>6, <2>1, <2>2
      <3> HIDE DEF a, b
      <3>3. (a * bs + r) % bs = r /\ (a * bs + r) \div bs = a BY <2>1, <3>1, Division
      <3>4. (b * bs + t) % bs = t /\ (b * bs + t) \div bs = b BY <2>2, <3>1, Division
      <3>5. a = b /\ r = t BY <3>2, <3>3, <3>4
      <3> QED BY <3>5 DEF a, b
    <2>4. d \in Nat /\ e \in Nat BY <2>1, <2>2
    <2>5. d % B = e % B BY <1>1, <2>3, <2>4, Distinct
    <2>6. d % B = d /\ e % B = e BY InRange
    <2>7. d = e BY <2>5, <2>6
    <2> QED BY <2>1, <2>2, <2>3, <2>7
  <1>7. EachSlotOnce(path, n)
    <2> HIDE DEF n
    <2> QED BY <1>4, <1>5, <1>6 DEF EachSlotOnce
  <1> QED BY <1>7 DEF path, n

--------------------------------------------------------------------------------
(* The theorems. *)

\* The invariant holds in every behaviour.
LEMMA InvariantHolds ==
    ASSUME InputsOK, SizesFit
    PROVE  Spec => []ProbeInv
  <1>1. Init => ProbeInv BY InitHolds
  <1>2. ProbeInv /\ [Next]_vars => ProbeInv' BY StepKeeps
  <1> QED BY <1>1, <1>2, PTL DEF Spec

\* The numbers of a probe fit the kernels' type, whatever the request and the
\* hashes.
THEOREM ProbesAreTyped ==
    ASSUME InputsOK, SizesFit
    PROVE  Spec => []TypeOK
  <1>1. ProbeInv => TypeOK BY DEF ProbeInv
  <1> QED BY <1>1, InvariantHolds, PTL

\* WalksSeeAll, for tables of every size with every prime table, bucket
\* size, hash and width of the types: a walk that is back where it started has
\* offered every bucket of the table, and it never left the table.
THEOREM WalksSeeTheTable ==
    ASSUME InputsOK, SizesFit
    PROVE  Spec => []WalksSeeAll
  <1>1. ASSUME ProbeInv, phase \in {"walk", "wrapped"} PROVE WalksSeeAll
    <2>1. /\ Buckets \in Nat \ {0} /\ bucketSize \in Nat \ {0}
          /\ capacity = Buckets * bucketSize
      BY <1>1, InNumbers
    <2>2. PICK h \in 0..(Buckets - 1), s \in 1..Buckets, n \in 0..Buckets : Course(h, s, n)
      BY <1>1 DEF ProbeInv, Walking
    <2>3. s \in Nat /\ n \in Nat /\ h \in Nat /\ Unit(s, Buckets)
      <3>1. (scheme = "linear" => s = 1) /\ (scheme = "double" => s < Buckets)
        BY <2>2 DEF Course
      <3>2. phase \in {"built", "walk", "wrapped"} BY <1>1
      <3>3. Unit(s, Buckets) BY <1>1, <3>1, <3>2, StepsReach
      <3> QED BY <2>1, <3>3
    <2>4. \A j \in 0..n : At(h, s, Buckets, j) \in 0..(Buckets - 1)
      <3>1. \A j \in 0..n : j \in Nat BY <2>3
      <3> QED BY <2>1, <2>3, <3>1, OneOn
    <2>5. idx % bucketSize = 0 /\ idx + bucketSize <= capacity
      <3>1. n \in 0..n BY <2>3
      <3>2. At(h, s, Buckets, n) \in 0..(Buckets - 1) BY <2>4, <3>1
      <3>3. At(h, s, Buckets, n) \in Int BY <3>2
      <3>4. (At(h, s, Buckets, n) * bucketSize) % bucketSize = 0
        BY <2>1, <3>3, WholeBuckets
      <3>5. At(h, s, Buckets, n) * bucketSize + bucketSize <= Buckets * bucketSize
        BY <2>1, <3>2, SlotsOfBuckets
      <3> QED BY <2>1, <2>2, <3>4, <3>5 DEF Course
    <2>6. ASSUME phase = "wrapped" PROVE visited = BucketStarts
      <3>1. n = Buckets BY <2>2, <2>6 DEF Course
      <3>2. visited = {At(h, s, Buckets, j) * bucketSize : j \in 0..n} BY <2>2 DEF Course
      <3>3. BucketStarts = {b * bucketSize : b \in 0..(Buckets - 1)}
        BY DEF BucketStarts, Buckets, BucketCount
      <3>4. ASSUME NEW b \in 0..(Buckets - 1)
            PROVE  \E j \in 0..n : At(h, s, Buckets, j) = b
        <4>1. PICK j \in 0..(Buckets - 1) : At(h, s, Buckets, j) = b
          BY <2>1, <2>3, Reaches
        <4>2. j \in 0..n BY <2>1, <3>1
        <4> QED BY <4>1, <4>2
      <3>5. ASSUME NEW x \in visited PROVE x \in BucketStarts
        <4>1. PICK j \in 0..n : x = At(h, s, Buckets, j) * bucketSize BY <3>2, <3>5
        <4> QED BY <2>4, <3>3, <4>1
      <3>6. ASSUME NEW x \in BucketStarts PROVE x \in visited
        <4>1. PICK b \in 0..(Buckets - 1) : x = b * bucketSize BY <3>3, <3>6
        <4>2. PICK j \in 0..n : At(h, s, Buckets, j) = b BY <3>4
        <4> QED BY <3>2, <4>1, <4>2
      <3> QED BY <3>5, <3>6
    <2> QED BY <2>5, <2>6 DEF WalksSeeAll
  <1>2. ASSUME ProbeInv, phase \notin {"walk", "wrapped"} PROVE WalksSeeAll
    BY <1>2 DEF WalksSeeAll
  <1>3. ProbeInv => WalksSeeAll BY <1>1, <1>2
  <1> QED BY <1>3, InvariantHolds, PTL

\* NoRevisit, as generally: no step of a walk offers a bucket that the walk has
\* offered before.
THEOREM BucketsComeOnce ==
    ASSUME InputsOK, SizesFit
    PROVE  Spec => NoRevisit
  <1>1. ASSUME ProbeInv, [Next]_vars, phase = "walk", phase' = "walk", idx' \in visited
        PROVE  FALSE \/ UNCHANGED vars
    <2>1. CASE Advance
      <3>1. PICK h \in 0..(Buckets - 1), s \in 1..Buckets, n \in 0..(Buckets - 1) :
               Course(h, s, n) /\ Unit(s, Buckets)
        BY <1>1, OnItsWay
      <3>2. /\ idx' = At(h, s, Buckets, n + 1) * bucketSize
            /\ At(h, s, Buckets, n + 1) \in 0..(Buckets - 1)
            /\ idx' = start <=> n + 1 = Buckets
        BY <1>1, <2>1, <3>1, Advances
      <3>3. Buckets \in Nat \ {0} /\ bucketSize \in Nat \ {0} BY <1>1, InNumbers
      <3>4. s \in Nat /\ h \in Nat /\ n \in Nat BY <3>1, <3>3
      <3>5. idx' # start BY <1>1, <2>1 DEF Advance
      <3>6. n + 1 \in 0..(Buckets - 1) /\ n + 1 \in Nat BY <3>2, <3>3, <3>4, <3>5
      <3>7. PICK j \in 0..n : idx' = At(h, s, Buckets, j) * bucketSize
        BY <1>1, <3>1 DEF Course
      <3>8. j \in Nat /\ j \in 0..(Buckets - 1) /\ j < n + 1 BY <3>3, <3>4, <3>6
      <3>9. At(h, s, Buckets, j) \in 0..(Buckets - 1) BY <3>3, <3>4, <3>8, OneOn
      <3>10. At(h, s, Buckets, j) = At(h, s, Buckets, n + 1)
        <4> DEFINE a == At(h, s, Buckets, j)
                   b == At(h, s, Buckets, n + 1)
        <4>1. a \in Int /\ b \in Int BY <3>2, <3>9
        <4>2. a * bucketSize = b * bucketSize BY <3>2, <3>7
        <4> HIDE DEF a, b
        <4>3. BucketCount(a * bucketSize, bucketSize) = a
              /\ BucketCount(b * bucketSize, bucketSize) = b
          BY <3>3, <4>1, WholeBuckets
        <4>4. a = b BY <4>2, <4>3
        <4> QED BY <4>4 DEF a, b
      <3>11. j % Buckets = (n + 1) % Buckets
        BY <3>1, <3>3, <3>4, <3>6, <3>8, <3>10, Distinct
      <3>12. j % Buckets = j /\ (n + 1) % Buckets = n + 1 BY <3>3, <3>6, <3>8, InRange
      <3> QED BY <3>8, <3>11, <3>12
    <2>2. CASE \E h1, h2 \in Hashes : MakeIterator(h1, h2) BY <1>1, <2>2 DEF MakeIterator
    <2>3. CASE Construct \/ Retry BY <1>1, <2>3 DEF Construct, Retry
    <2> QED BY <1>1, <2>1, <2>2, <2>3 DEF Next
  <1>2. ProbeInv /\ [Next]_vars => [FreshBucket]_vars BY <1>1 DEF FreshBucket
  <1> QED BY <1>2, InvariantHolds, PTL DEF Spec, NoRevisit

\* CapacitiesServe, as generally: a table that was built holds what was
\* asked for in whole buckets; with double hashing their number is the smallest
\* entry of the prime table that suffices, so the binary search found it.
THEOREM TablesServeRequests ==
    ASSUME InputsOK, SizesFit
    PROVE  Spec => []CapacitiesServe
  <1>1. ASSUME ProbeInv, phase \in {"built", "walk", "wrapped"}
        PROVE  CapacitiesServe
    <2>1. Serves(Buckets, capacity, scheme, request, bucketSize) BY <1>1 DEF ProbeInv, Sized
    <2>2. Buckets \in Nat \ {0} /\ bucketSize \in Nat \ {0} /\ capacity = Buckets * bucketSize
      BY <1>1, InNumbers
    <2>3. capacity \div bucketSize = Buckets /\ capacity % bucketSize = 0
      BY <2>2, WholeBuckets
    <2>4. ASSUME scheme = "double"
          PROVE  /\ \E i \in 1..Len(Primes) : Primes[i] = Buckets
                 /\ \A i \in 1..Len(Primes) :
                       Primes[i] < Buckets => Primes[i] * bucketSize < AtLeastOne(request)
      <3>1. PICK k \in 1..Len(Primes) :
               /\ Primes[k] = Buckets
               /\ \A j \in 1..(k - 1) : Primes[j] * bucketSize < AtLeastOne(request)
        BY <2>1, <2>4 DEF Serves
      <3>p. PrimesOK /\ Len(Primes) \in Nat /\ \A i \in 1..Len(Primes) : Primes[i] \in Nat
        BY DEF InputsOK, PrimesOK, TableOfPrimes
      <3>2. ASSUME NEW i \in 1..Len(Primes), Primes[i] < Buckets
            PROVE  i \in 1..(k - 1)
        <4>1. CASE k < i
          <5>1. Primes[k] < Primes[i] BY <3>p, <4>1, Increasing
          <5>2. Primes[k] \in Nat /\ Primes[i] \in Nat BY <3>p
          <5> QED BY <3>1, <3>2, <5>1, <5>2
        <4>2. CASE k = i BY <2>2, <3>1, <3>2, <4>2
        <4>3. CASE i < k BY <3>p, <4>3
        <4> QED BY <3>p, <4>1, <4>2, <4>3
      <3> QED BY <3>1, <3>2
    <2> QED BY <2>1, <2>3, <2>4 DEF CapacitiesServe, Serves
  <1>2. ASSUME ProbeInv, phase \notin {"built", "walk", "wrapped"}
        PROVE  CapacitiesServe
    BY <1>2 DEF CapacitiesServe
  <1>3. ProbeInv => CapacitiesServe BY <1>1, <1>2
  <1> QED BY <1>3, InvariantHolds, PTL

\* What OpenAddressing assumes of the paths of its keys: the slots a probe is
\* offered from its first to the one before it is back are all slots of the
\* table, each once.
PathServes == phase \in {"walk", "wrapped"} =>
                 EachSlotOnce(SlotPath(start, step, capacity, bucketSize), capacity)
THEOREM PathsServeTables ==
    ASSUME InputsOK, SizesFit
    PROVE  Spec => []PathServes
  <1>1. ASSUME ProbeInv, phase \in {"walk", "wrapped"} PROVE PathServes
    <2>1. /\ Buckets \in Nat \ {0} /\ bucketSize \in Nat \ {0}
          /\ capacity = Buckets * bucketSize /\ capacity < 2^DeviceBits
      BY <1>1, InNumbers
    <2>2. PICK h \in 0..(Buckets - 1), s \in 1..Buckets, n \in 0..Buckets : Course(h, s, n)
      BY <1>1 DEF ProbeInv, Walking
    <2>3. Unit(s, Buckets)
      <3>1. (scheme = "linear" => s = 1) /\ (scheme = "double" => s < Buckets)
        BY <2>2 DEF Course
      <3>2. phase \in {"built", "walk", "wrapped"} BY <1>1
      <3> QED BY <1>1, <3>1, <3>2, StepsReach
    <2>4. start = h * bucketSize /\ step = s * bucketSize BY <2>2 DEF Course
    <2>5. Buckets * bucketSize < 2^DeviceBits BY <2>1
    <2>6. EachSlotOnce(SlotPath(h * bucketSize, s * bucketSize, Buckets * bucketSize, bucketSize),
                       Buckets * bucketSize)
      BY <2>1, <2>3, <2>5, PathServesSteps
    <2> QED BY <2>1, <2>4, <2>6 DEF PathServes
  <1>2. ASSUME ProbeInv, phase \notin {"walk", "wrapped"} PROVE PathServes
    BY <1>2 DEF PathServes
  <1>3. ProbeInv => PathServes BY <1>1, <1>2
  <1> QED BY <1>3, InvariantHolds, PTL

--------------------------------------------------------------------------------
(* Keys in the halves of a word. *)

\* A word has room for two keys, each of an even number of values.
LEMMA NarrowSizes ==
    ASSUME Half!WidthOK
    PROVE  /\ Half!Cells \in Nat \ {0} /\ Half!Cells % 2 = 0 /\ Half!Cells \div 2 \in Nat \ {0}
           /\ Half!Cells = 2 * (Half!Cells \div 2)
           /\ 2^(2 * Half!CellBits) = Half!Cells * Half!Cells /\ 2^0 = 1
              /\ 2^ByteBits \in Nat \ {0}
           /\ Half!Cells = 2^ByteBits * 2^ByteBits
  <1> DEFINE byte == 2^ByteBits
             half == byte \div 2
  <1>1. byte \in Nat \ {0} /\ byte % 2 = 0 /\ Half!Cells = byte * byte
        /\ 2^(2 * Half!CellBits) = Half!Cells * Half!Cells /\ 2^0 = 1
    BY DEF Half!WidthOK
  <1> HIDE DEF byte
  <1>2. half \in Nat /\ byte = half * 2 + (byte % 2)
    <2>1. byte \in Int /\ byte \in Nat /\ 2 \in Nat \ {0} BY <1>1
    <2> QED BY <2>1, Divided
  <1> HIDE DEF half
  <1>3. byte * byte = (half * byte) * 2 + 0 BY <1>1, <1>2
  <1>4. half * byte \in Int BY <1>1, <1>2
  <1>5. Half!Cells % 2 = 0 /\ Half!Cells \div 2 = half * byte
    <2>1. 0 \in 0..(2 - 1) /\ 2 \in Nat \ {0} OBVIOUS
    <2>2. ((half * byte) * 2 + 0) % 2 = 0 /\ ((half * byte) * 2 + 0) \div 2 = half * byte
      BY <1>4, <2>1, Division
    <2> QED BY <1>1, <1>3, <2>2
  <1>6. half \in Nat \ {0} BY <1>1, <1>2
  <1>7. half * byte \in Nat \ {0}
    <2>1. 1 * byte <= half * byte BY <1>1, <1>6, Times
    <2> QED BY <1>1, <1>4, <2>1
  <1>8. Half!Cells = 2 * (half * byte) /\ Half!Cells \in Nat \ {0} BY <1>1, <1>3, <1>4, <1>7
  <1> QED BY <1>1, <1>5, <1>7, <1>8 DEF byte

\* A key that is narrowed keeps its value.
LEMMA NarrowedKey ==
    ASSUME Half!WidthOK, NEW d \in Half!Values
    PROVE  d % Half!Cells \in 0..(Half!Cells - 1) /\ Half!Narrowed(d % Half!Cells) = d
  <1> DEFINE C == Half!Cells
             m == C \div 2
             low == d % C
  <1>1. C \in Nat \ {0} /\ m \in Nat \ {0} /\ C = 2 * m BY NarrowSizes
  <1>2. d \in Int /\ -m <= d /\ d <= m - 1
    <2>1. d \in (-m) .. (m - 1) BY DEF Half!Values
    <2> QED BY <1>1, <2>1
  <1> HIDE DEF C, m
  <1>3. low \in 0..(C - 1) BY <1>1, <1>2, Divided
  <1>4. CASE d >= 0
    <2>1. d \in 0..(C - 1) BY <1>1, <1>2, <1>4
    <2>2. low = d BY <1>1, <2>1, InRange
    <2> QED BY <1>1, <1>2, <1>3, <2>2, InRange, <1>4 DEF Half!Narrowed, C, m
  <1>5. CASE d < 0
    <2>1. d + C \in 0..(C - 1) BY <1>1, <1>2, <1>5
    <2>2. (-1) * C + (d + C) = d BY <1>1, <1>2
    <2> DEFINE r == d + C
    <2>3. r \in 0..(C - 1) /\ (-1) * C + r = d BY <2>1, <2>2
    <2> HIDE DEF r
    <2>4. ((-1) * C + r) % C = r BY <1>1, <2>3, Division
    <2>5. low = r BY <2>3, <2>4
    <2>6. low >= m /\ low - C = d BY <1>1, <1>2, <1>5, <2>5 DEF r
    <2>7. low % C = low BY <1>1, <1>3, InRange
    <2> QED BY <1>3, <2>6, <2>7 DEF Half!Narrowed, C, m
  <1> QED BY <1>2, <1>4, <1>5

\* What is narrowed is a key.
LEMMA NarrowedIsKey ==
    ASSUME Half!WidthOK, NEW w \in Int
    PROVE  Half!Narrowed(w) \in Half!Values
  <1> DEFINE C == Half!Cells
             m == C \div 2
             low == w % C
  <1>1. C \in Nat \ {0} /\ m \in Nat \ {0} /\ C = 2 * m BY NarrowSizes
  <1> HIDE DEF C, m
  <1>2. low \in 0..(C - 1) BY <1>1, Divided
  <1>3. Half!Narrowed(w) = IF low >= m THEN low - C ELSE low BY DEF Half!Narrowed, C, m
  <1> HIDE DEF low
  <1>4. Half!Narrowed(w) \in (-m) .. (m - 1) BY <1>1, <1>2, <1>3
  <1> QED BY <1>4 DEF Half!Values, C, m

Wide == 0 .. (Half!Cells * Half!Cells - 1)

\* A word is its two halves.
LEMMA Halves ==
    ASSUME Half!WidthOK, NEW w \in Wide
    PROVE  \E hi \in 0..(Half!Cells - 1), lo \in 0..(Half!Cells - 1) :
              w = hi * Half!Cells + lo /\ w \div Half!Cells = hi /\ w % Half!Cells = lo
  <1> DEFINE C == Half!Cells
             hi == w \div C
             lo == w % C
  <1>1. C \in Nat \ {0} BY NarrowSizes
  <1>2. w \in 0..(C * C - 1) BY DEF Wide
  <1> HIDE DEF C
  <1>3. C * C \in Nat BY <1>1
  <1>4. w \in Int /\ w \in Nat /\ w < C * C BY <1>2, <1>3
  <1>5. hi \in Nat /\ lo \in 0..(C - 1) /\ w = hi * C + lo BY <1>1, <1>4, Divided
  <1> HIDE DEF hi, lo
  <1>6. hi < C
    <2> SUFFICES ASSUME C <= hi PROVE FALSE BY <1>1, <1>5
    <2>1. C * C <= hi * C BY <1>1, <1>5, Times
    <2>2. hi * C \in Int BY <1>1, <1>5
    <2> QED BY <1>3, <1>4, <1>5, <2>1, <2>2
  <1>7. hi \in 0..(C - 1) BY <1>1, <1>5, <1>6
  <1> QED BY <1>5, <1>7 DEF hi, lo, C

\* Two halves are a word.
LEMMA Joined ==
    ASSUME Half!WidthOK, NEW hi \in 0..(Half!Cells - 1), NEW lo \in 0..(Half!Cells - 1)
    PROVE  /\ hi * Half!Cells + lo \in Wide
           /\ (hi * Half!Cells + lo) \div Half!Cells = hi
              /\ (hi * Half!Cells + lo) % Half!Cells = lo
  <1> DEFINE C == Half!Cells
  <1>1. C \in Nat \ {0} /\ hi \in 0..(C - 1) /\ lo \in 0..(C - 1) BY NarrowSizes
  <1> HIDE DEF C
  <1>2. (hi + 1) * C <= C * C /\ 0 * C <= hi * C BY <1>1, Times
  <1>3. (hi + 1) * C = hi * C + C /\ hi * C \in Int /\ C * C \in Int BY <1>1
  <1>4. hi * C + lo \in 0 .. (C * C - 1) BY <1>1, <1>2, <1>3
  <1>5. hi \in Int BY <1>1
  <1>6. (hi * C + lo) % C = lo /\ (hi * C + lo) \div C = hi BY <1>1, <1>5, Division, SMTT(40)
  <1> QED BY <1>4, <1>6 DEF Wide, C

\* The half of a word that a slot is.
LEMMA HalfOfSlot ==
    ASSUME Half!WidthOK, NEW slot \in Nat
    PROVE  \/ slot % 2 = 0 /\ 2^Half!Shift(slot) = 1
           \/ slot % 2 = 1 /\ 2^Half!Shift(slot) = Half!Cells
  <1>1. slot % 2 \in {0, 1} OBVIOUS
  <1>2. Half!CellBits \in Nat BY DEF Half!WidthOK, Half!CellBits
  <1>3. CASE slot % 2 = 0
    <2>1. Half!Shift(slot) = 0 BY <1>2, <1>3 DEF Half!Shift
    <2> QED BY <1>3, <2>1, NarrowSizes
  <1>4. CASE slot % 2 = 1
    <2>1. Half!Shift(slot) = Half!CellBits BY <1>2, <1>4 DEF Half!Shift
    <2> QED BY <1>4, <2>1 DEF Half!Cells
  <1> QED BY <1>1, <1>3, <1>4

\* The slot's key, and the word with another key, half by half.
LEMMA InHalves ==
    ASSUME Half!WidthOK, NEW slot \in Nat, NEW hi \in 0..(Half!Cells - 1),
           NEW lo \in 0..(Half!Cells - 1),
           NEW d \in Half!Values
    PROVE  LET w == hi * Half!Cells + lo IN
           /\ slot % 2 = 0 => /\ Half!CurrentNarrow(w, slot) = Half!Narrowed(lo)
                              /\ Half!DesiredWide(w, slot, d) = hi * Half!Cells + (d % Half!Cells)
           /\ slot % 2 = 1 => /\ Half!CurrentNarrow(w, slot) = Half!Narrowed(hi)
                              /\ Half!DesiredWide(w, slot, d) = (d % Half!Cells) * Half!Cells + lo
  <1> DEFINE C == Half!Cells
             w == hi * C + lo
             e == d % C
  <1>1. C \in Nat \ {0} BY NarrowSizes
  <1>2. w \div C = hi /\ w % C = lo BY Joined
  <1>3. e \in 0..(C - 1) BY NarrowedKey
  <1>4. hi % C = hi /\ lo % C = lo BY <1>1, InRange
  <1>5. hi * C \in Int /\ e * C \in Int /\ w \in Int BY <1>1, <1>3
  <1>6. CASE slot % 2 = 0
    <2>1. 2^Half!Shift(slot) = 1 BY <1>6, HalfOfSlot
    <2>2. w \div 1 = w BY <1>5
    <2>3. Half!CurrentNarrow(w, slot) = Half!Narrowed(w) BY <2>1, <2>2 DEF Half!CurrentNarrow
    <2>4. Half!Narrowed(w) = Half!Narrowed(lo) BY <1>2, <1>4 DEF Half!Narrowed
    <2>5. Half!DesiredWide(w, slot, d) = w - lo * 1 + e * 1
      BY <1>2, <2>1, <2>2 DEF Half!DesiredWide
    <2> HIDE DEF e
    <2>6. w - lo * 1 + e * 1 = hi * C + e
      <3> DEFINE x == hi * C
      <3>1. x \in Int BY <1>5
      <3> HIDE DEF x, C
      <3>2. (x + lo) - lo * 1 + e * 1 = x + e BY <1>1, <1>3, <3>1
      <3> QED BY <3>2 DEF x
    <2> QED BY <1>6, <2>3, <2>4, <2>5, <2>6 DEF e
  <1>7. CASE slot % 2 = 1
    <2>1. 2^Half!Shift(slot) = C BY <1>7, HalfOfSlot
    <2>2. Half!CurrentNarrow(w, slot) = Half!Narrowed(hi) BY <1>2, <2>1 DEF Half!CurrentNarrow
    <2>3. Half!DesiredWide(w, slot, d) = w - hi * C + e * C
      BY <1>2, <1>4, <2>1 DEF Half!DesiredWide
    <2> HIDE DEF e
    <2>4. w - hi * C + e * C = e * C + lo
      <3> DEFINE x == hi * C
                 y == e * C
      <3>1. x \in Int /\ y \in Int BY <1>5
      <3> HIDE DEF x, y, C
      <3>2. (x + lo) - x + y = y + lo BY <1>1, <3>1
      <3> QED BY <3>2 DEF x, y
    <2> QED BY <1>7, <2>2, <2>3, <2>4 DEF e
  <1>8. slot % 2 = 0 \/ slot % 2 = 1 OBVIOUS
  <1> QED BY <1>6, <1>7, <1>8

\* To put a key in a slot leaves a word that has it there, and what it had in the
\* other slot.
LEMMA KeyIsPut ==
    ASSUME Half!WidthOK, NEW w \in Wide, NEW slot \in Nat, NEW other \in Nat, NEW d \in Half!Values
    PROVE  /\ Half!DesiredWide(w, slot, d) \in Wide
           /\ other % 2 = slot % 2 => Half!CurrentNarrow(Half!DesiredWide(w, slot, d), other) = d
           /\ other % 2 # slot % 2 =>
                 Half!CurrentNarrow(Half!DesiredWide(w, slot, d), other) =
                    Half!CurrentNarrow(w, other)
           /\ Half!CurrentNarrow(w, slot) \in Half!Values
  <1>1. PICK hi \in 0..(Half!Cells - 1), lo \in 0..(Half!Cells - 1) : w = hi * Half!Cells + lo
    BY Halves
  <1> DEFINE e == d % Half!Cells
  <1>2. e \in 0..(Half!Cells - 1) /\ Half!Narrowed(e) = d BY NarrowedKey
  <1> HIDE DEF e
  <1>3. slot % 2 \in {0, 1} /\ other % 2 \in {0, 1} OBVIOUS
  <1>4. \A s \in Nat :
           /\ s % 2 = 0 => Half!CurrentNarrow(w, s) = Half!Narrowed(lo)
           /\ s % 2 = 1 => Half!CurrentNarrow(w, s) = Half!Narrowed(hi)
    BY <1>1, InHalves
  <1>5. hi \in Int /\ lo \in Int BY NarrowSizes
  <1>6. Half!Narrowed(hi) \in Half!Values /\ Half!Narrowed(lo) \in Half!Values
    BY <1>5, NarrowedIsKey
  <1>7. CASE slot % 2 = 0
    <2>1. Half!DesiredWide(w, slot, d) = hi * Half!Cells + e BY <1>1, <1>7, InHalves DEF e
    <2>2. hi * Half!Cells + e \in Wide BY <1>2, Joined
    <2>3. \A s \in Nat :
             /\ s % 2 = 0 => Half!CurrentNarrow(hi * Half!Cells + e, s) = Half!Narrowed(e)
             /\ s % 2 = 1 => Half!CurrentNarrow(hi * Half!Cells + e, s) = Half!Narrowed(hi)
      BY <1>2, InHalves
    <2> QED BY <1>2, <1>3, <1>4, <1>6, <1>7, <2>1, <2>2, <2>3
  <1>8. CASE slot % 2 = 1
    <2>1. Half!DesiredWide(w, slot, d) = e * Half!Cells + lo BY <1>1, <1>8, InHalves DEF e
    <2>2. e * Half!Cells + lo \in Wide BY <1>2, Joined
    <2>3. \A s \in Nat :
             /\ s % 2 = 0 => Half!CurrentNarrow(e * Half!Cells + lo, s) = Half!Narrowed(lo)
             /\ s % 2 = 1 => Half!CurrentNarrow(e * Half!Cells + lo, s) = Half!Narrowed(e)
      BY <1>2, InHalves
    <2> QED BY <1>2, <1>3, <1>4, <1>6, <1>8, <2>1, <2>2, <2>3
  <1> QED BY <1>3, <1>7, <1>8

\* Keys are equal if their bytes are.
LEMMA BytesTell ==
    ASSUME Half!WidthOK, NEW x \in Half!Values, NEW y \in Half!Values
    PROVE  Half!BitWiseCompare(x, y) <=> x = y
  <1> DEFINE b == 2^ByteBits
             u == x % Half!Cells
             v == y % Half!Cells
             different == {i \in DOMAIN Half!Bytes(x) : Half!Bytes(x)[i] # Half!Bytes(y)[i]}
  <1>1. b \in Nat \ {0} BY NarrowSizes
  <1>2. u \in Nat /\ v \in Nat /\ Half!Narrowed(u) = x /\ Half!Narrowed(v) = y
    BY NarrowedKey, NarrowSizes
  <1>3. Half!Bytes(x) = <<u % b, u \div b>> /\ Half!Bytes(y) = <<v % b, v \div b>>
    BY DEF Half!Bytes
  <1>4. Half!BitWiseCompare(x, y) <=> different = {}
    <2>1. Half!Memcmp(Half!Bytes(x), Half!Bytes(y)) =
             CASE different = {} -> 0
               [] different # {}
               /\ Half!Bytes(x)[Min(different)] < Half!Bytes(y)[Min(different)] -> -1
               [] OTHER -> 1
      BY DEF Half!Memcmp
    <2> HIDE DEF different
    <2>2. CASE different = {}
      <3>1. Half!Memcmp(Half!Bytes(x), Half!Bytes(y)) = 0 BY <2>1, <2>2
      <3> QED BY <2>2, <3>1 DEF Half!BitWiseCompare
    <2>3. CASE different # {}
      <3>1. Half!Memcmp(Half!Bytes(x), Half!Bytes(y)) = -1
            \/ Half!Memcmp(Half!Bytes(x), Half!Bytes(y)) = 1
        <4> DEFINE less == Half!Bytes(x)[Min(different)] < Half!Bytes(y)[Min(different)]
        <4>1. Half!Memcmp(Half!Bytes(x), Half!Bytes(y)) =
                CASE different = {} -> 0 [] different # {} /\ less -> -1 [] OTHER -> 1
          BY <2>1
        <4> HIDE DEF less
        <4> QED BY <2>3, <4>1
      <3> QED BY <2>3, <3>1 DEF Half!BitWiseCompare
    <2> QED BY <2>2, <2>3
  <1>5. u = (u \div b) * b + (u % b) /\ v = (v \div b) * b + (v % b)
    <2>1. u \in Int /\ v \in Int BY <1>2
    <2> HIDE DEF u, v, b
    <2> QED BY <1>1, <2>1, Divided
  <1> HIDE DEF u, v, b
  <1>6. ASSUME different = {} PROVE x = y
    <2>1. DOMAIN Half!Bytes(x) = 1..2 BY <1>3
    <2>2. Half!Bytes(x)[1] = Half!Bytes(y)[1] /\ Half!Bytes(x)[2] = Half!Bytes(y)[2] BY <1>6, <2>1
    <2>3. u % b = v % b /\ u \div b = v \div b BY <1>3, <2>2
    <2>4. u = v BY <1>5, <2>3
    <2> QED BY <1>2, <2>4
  <1>7. ASSUME x = y PROVE different = {} BY <1>7
  <1> QED BY <1>4, <1>6, <1>7

--------------------------------------------------------------------------------
(* The calls. *)

Verdicts == {"none", "success", "duplicate", "failed"}
CallState ==
    [at : {"none", "read", "swap"}, slot : Half!Slots,
     expected : Half!Values, desired : Half!Values,
     wide : Wide, verdict : Verdicts]

\* A call changes its slot, and a thread about to swap has seen the key it expects
\* in the word it has read.
CallOK(c) ==
    /\ c.at # "none" => c.expected # c.desired
    /\ c.at = "swap" => Half!CurrentNarrow(c.wide, c.slot) = c.expected
SwapInv ==
    /\ words \in [Words -> Wide]
    /\ call \in [Threads -> CallState]
    /\ \A t \in Threads : CallOK(call[t])

\* Slots are halves of words.
LEMMA SlotsAreHalves ==
    ASSUME Half!KeysOK, NEW s \in Half!Slots
    PROVE  s \in Nat /\ Half!WordOf(s) \in Words
           /\ \A u \in Half!Slots : u # s => Half!WordOf(u) # Half!WordOf(s) \/ u % 2 # s % 2
  <1>1. Half!Cardinality(Words) \in Nat \ {0} /\ Words = 0 .. (Half!Cardinality(Words) - 1)
    BY DEF Half!KeysOK
  <1> DEFINE n == Half!Cardinality(Words)
  <1>2. n \in Nat \ {0} /\ s \in 0..(2 * n - 1) BY <1>1 DEF Half!Slots
  <1> HIDE DEF n
  <1>3. s \div 2 \in 0..(n - 1) BY <1>2
  <1>4. ASSUME NEW u \in Half!Slots, u \div 2 = s \div 2, u % 2 = s % 2 PROVE u = s
    <2>1. u \in 0..(2 * n - 1) BY DEF Half!Slots, n
    <2>2. u \in Int /\ s \in Int BY <1>2, <2>1
    <2>3. 2 \in Nat \ {0} OBVIOUS
    <2>4. u = (u \div 2) * 2 + (u % 2) /\ s = (s \div 2) * 2 + (s % 2)
      BY <2>2, <2>3, Divided
    <2> QED BY <1>4, <2>4
  <1> QED BY <1>1, <1>2, <1>3, <1>4 DEF Half!WordOf, n

\* What a call that returns leaves of itself.
LEMMA ReturnedState ==
    ASSUME Half!WidthOK, Half!KeysOK, NEW x \in Verdicts
    PROVE  /\ [Half!None EXCEPT !.verdict = x] \in CallState
           /\ [Half!None EXCEPT !.verdict = x].at = "none"
           /\ [Half!None EXCEPT !.verdict = x].verdict = x
  <1>1. 0 \in Half!Slots /\ Empty \in Half!Values /\ 0 \in Wide
    <2>1. 0 \in Wide
      <3>1. Half!Cells \in Nat \ {0} BY NarrowSizes
      <3> DEFINE C == Half!Cells
      <3>2. C \in Nat \ {0} BY <3>1
      <3> HIDE DEF C
      <3>3. 1 * C <= C * C BY <3>2, Times
      <3>4. C * C \in Int BY <3>2
      <3> QED BY <3>2, <3>3, <3>4 DEF Wide, C
    <2>2. Half!Cardinality(Words) \in Nat \ {0} BY DEF Half!KeysOK
    <2> QED BY <2>1, <2>2 DEF Half!KeysOK, Half!Slots
  <1> QED BY <1>1 DEF Half!None, CallState, Verdicts

\* What a caller is told of a slot with a key: whether it was the expected one, or
\* the desired one.
LEMMA VerdictTells ==
    ASSUME Half!WidthOK, NEW c, c.expected \in Half!Values, c.expected # c.desired,
           NEW old \in Half!Values
    PROVE  /\ Half!Verdict(c, old) = CASE old = c.expected -> "success"
                                  [] old = c.desired -> "duplicate"
                                  [] OTHER -> "failed"
           /\ Half!Verdict(c, old) \in Verdicts
  <1>1. Half!IsSentinelValue(c.expected, old) <=> c.expected = old
    BY BytesTell DEF Half!IsSentinelValue
  <1> DEFINE exp == old = c.expected
             des == old = c.desired
             sen == Half!IsSentinelValue(c.expected, old)
             dup == Half!EqualTo(c.desired, old)
             told == CASE exp -> "success" [] des -> "duplicate" [] OTHER -> "failed"
  <1>2. Half!Verdict(c, old) = CASE sen -> "success" [] dup -> "duplicate" [] OTHER -> "failed"
    BY DEF Half!Verdict
  <1>3. (sen <=> exp) /\ (dup <=> des) /\ ~(exp /\ des) BY <1>1 DEF Half!EqualTo
  <1> HIDE DEF exp, des, sen, dup
  <1>4. CASE exp
    <2>1. Half!Verdict(c, old) = "success" BY <1>2, <1>3, <1>4
    <2>2. told = "success" BY <1>3, <1>4
    <2> QED BY <2>1, <2>2 DEF Verdicts, exp, des
  <1>5. CASE ~exp /\ des
    <2>1. Half!Verdict(c, old) = "duplicate" BY <1>2, <1>3, <1>5
    <2>2. told = "duplicate" BY <1>5
    <2> QED BY <2>1, <2>2 DEF Verdicts, exp, des
  <1>6. CASE ~exp /\ ~des
    <2>1. Half!Verdict(c, old) = "failed" BY <1>2, <1>3, <1>6
    <2>2. told = "failed" BY <1>6
    <2> QED BY <2>1, <2>2 DEF Verdicts, exp, des
  <1> QED BY <1>4, <1>5, <1>6

\* A step of one thread leaves the calls of the others as they are.
LEMMA OneCall ==
    ASSUME call \in [Threads -> CallState], \A t \in Threads : CallOK(call[t]),
           NEW t \in Threads, NEW c \in CallState, CallOK(c),
           call' = [call EXCEPT ![t] = c]
    PROVE  /\ call' \in [Threads -> CallState] /\ \A u \in Threads : CallOK(call'[u])
           /\ call'[t] = c /\ \A u \in Threads : call'[u] # call[u] => u = t
  OBVIOUS

\* A call begins.
LEMMA CallBegins ==
    ASSUME Half!WidthOK, Half!KeysOK, SwapInv, NEW t \in Threads, Half!Begin(t)
    PROVE  SwapInv' /\ Half!SlotSwapped
  <1>0. PICK slot \in Half!Slots, key \in UsedKeys :
           \E change \in {<<Empty, key>>, <<key, Empty>>} :
              call' = [call EXCEPT ![t] = [Half!None EXCEPT !.at = "read", !.slot = slot,
                                                       !.expected = change[1],
                                                       !.desired = change[2]]]
    BY DEF Half!Begin
  <1>1. PICK change \in {<<Empty, key>>, <<key, Empty>>} :
           call' = [call EXCEPT ![t] = [Half!None EXCEPT !.at = "read", !.slot = slot,
                                                    !.expected = change[1],
                                                    !.desired = change[2]]]
    BY <1>0
  <1> DEFINE c == [Half!None EXCEPT !.at = "read", !.slot = slot, !.expected = change[1],
                               !.desired = change[2]]
  <1>2. Empty \in Half!Values /\ key \in Half!Values /\ key # Empty BY DEF Half!KeysOK
  <1>3. change[1] \in Half!Values /\ change[2] \in Half!Values /\ change[1] # change[2] BY <1>2
  <1>4. Half!None \in CallState
    <2>1. [Half!None EXCEPT !.verdict = "none"] \in CallState BY ReturnedState DEF Verdicts
    <2>2. [Half!None EXCEPT !.verdict = "none"] = Half!None BY DEF Half!None
    <2> QED BY <2>1, <2>2
  <1>5. c \in CallState /\ CallOK(c) BY <1>3, <1>4 DEF CallState, CallOK
  <1> HIDE DEF c
  <1>6. call' = [call EXCEPT ![t] = c] BY <1>1 DEF c
  <1>7. words' = words /\ call[t].at = "none" BY DEF Half!Begin
  <1>8. /\ call' \in [Threads -> CallState] /\ \A u \in Threads : CallOK(call'[u])
        /\ \A u \in Threads : call'[u] # call[u] => u = t
    BY <1>5, <1>6, OneCall DEF SwapInv
  <1>9. SwapInv' BY <1>7, <1>8 DEF SwapInv, CallOK
  <1>10. Half!Table' = Half!Table BY <1>7 DEF Half!Table
  <1> QED BY <1>7, <1>8, <1>9, <1>10 DEF Half!SlotSwapped

\* A call that returns tells what its slot holds.
LEMMA CallReturns ==
    ASSUME Half!WidthOK, Half!KeysOK, SwapInv, NEW t \in Threads, NEW old \in Half!Values,
           call[t].at # "none", Half!NarrowCas(t, old)
    PROVE  /\ call' \in [Threads -> CallState] /\ \A u \in Threads : CallOK(call'[u])
           /\ \A u \in Threads : call'[u] # call[u] => u = t
           /\ call'[t].at = "none"
           /\ call'[t].verdict = CASE old = call[t].expected -> "success"
                                   [] old = call[t].desired -> "duplicate"
                                   [] OTHER -> "failed"
  <1> DEFINE v == Half!Verdict(call[t], old)
             c == [Half!None EXCEPT !.verdict = v]
  <1>1. call[t] \in CallState /\ CallOK(call[t]) BY DEF SwapInv
  <1>2. call[t].expected \in Half!Values /\ call[t].expected # call[t].desired
    BY <1>1 DEF CallState, CallOK
  <1>3. /\ v = CASE old = call[t].expected -> "success"
                 [] old = call[t].desired -> "duplicate"
                 [] OTHER -> "failed"
        /\ v \in Verdicts
    BY <1>2, VerdictTells
  <1>4. call' = [call EXCEPT ![t] = c] BY DEF Half!NarrowCas
  <1> HIDE DEF v
  <1>5. c \in CallState /\ c.at = "none" /\ c.verdict = v BY <1>3, ReturnedState
  <1> HIDE DEF c
  <1>6. CallOK(c) BY <1>5 DEF CallOK
  <1>7. /\ call' \in [Threads -> CallState] /\ \A u \in Threads : CallOK(call'[u])
        /\ call'[t] = c /\ \A u \in Threads : call'[u] # call[u] => u = t
    BY <1>4, <1>5, <1>6, OneCall DEF SwapInv
  <1> QED BY <1>3, <1>5, <1>7

\* The word is read.
LEMMA WordIsRead ==
    ASSUME Half!WidthOK, Half!KeysOK, SwapInv, NEW t \in Threads, Half!Read(t)
    PROVE  SwapInv' /\ Half!SlotSwapped
  <1> DEFINE c == call[t]
             wide == words[Half!WordOf(c.slot)]
             narrow == Half!CurrentNarrow(wide, c.slot)
  <1>1. c \in CallState /\ CallOK(c) /\ words \in [Words -> Wide] BY DEF SwapInv
  <1>2. c.slot \in Half!Slots /\ c.expected \in Half!Values BY <1>1 DEF CallState
  <1>3. c.slot \in Nat /\ Half!WordOf(c.slot) \in Words BY <1>2, SlotsAreHalves
  <1>4. wide \in Wide BY <1>1, <1>3
  <1>5. narrow \in Half!Values
    <2>1. Empty \in Half!Values BY DEF Half!KeysOK
    <2> QED BY <1>3, <1>4, <2>1, KeyIsPut
  <1>6. Half!Table[c.slot] = narrow BY <1>2 DEF Half!Table
  <1>7. words' = words /\ c.at = "read" BY DEF Half!Read
  <1>8. Half!Table' = Half!Table BY <1>7 DEF Half!Table
  <1> HIDE DEF narrow
  <1>9. CASE narrow # c.expected
    <2>1. Half!NarrowCas(t, narrow) BY <1>9 DEF Half!Read, narrow
    <2>2. c.at # "none" BY <1>7
    <2>3. /\ call' \in [Threads -> CallState] /\ \A u \in Threads : CallOK(call'[u])
          /\ \A u \in Threads : call'[u] # call[u] => u = t
          /\ call'[t].at = "none"
          /\ call'[t].verdict = CASE narrow = c.expected -> "success"
                                  [] narrow = c.desired -> "duplicate"
                                  [] OTHER -> "failed"
      BY <1>5, <2>1, <2>2, CallReturns
    <2>4. SwapInv' BY <1>7, <2>3 DEF SwapInv, CallOK
    <2> QED BY <1>6, <1>8, <1>9, <2>3, <2>4, Zenon DEF Half!SlotSwapped
  <1>10. CASE narrow = c.expected
    <2> DEFINE d == [c EXCEPT !.at = "swap", !.wide = wide]
    <2>1. call' = [call EXCEPT ![t] = d] BY <1>10, <1>1 DEF Half!Read, narrow
    <2>2. d \in CallState BY <1>1, <1>4 DEF CallState
    <2>3. CallOK(d) BY <1>1, <1>7, <1>10 DEF CallOK, narrow, CallState
    <2>4. d.at = "swap" BY <1>1 DEF CallState
    <2> HIDE DEF d
    <2>5. /\ call' \in [Threads -> CallState] /\ \A u \in Threads : CallOK(call'[u])
          /\ call'[t] = d /\ \A u \in Threads : call'[u] # call[u] => u = t
      BY <2>1, <2>2, <2>3, OneCall DEF SwapInv
    <2>6. SwapInv' BY <1>7, <2>5 DEF SwapInv, CallOK
    <2> QED BY <1>8, <2>4, <2>5, <2>6 DEF Half!SlotSwapped
  <1> QED BY <1>9, <1>10

\* A word with another key in a slot is a table with another key there.
LEMMA TableIsPut ==
    ASSUME Half!WidthOK, Half!KeysOK, words \in [Words -> Wide], NEW s \in Half!Slots,
           NEW d \in Half!Values,
           words' = [words EXCEPT ![Half!WordOf(s)] =
              Half!DesiredWide(words[Half!WordOf(s)], s, d)]
    PROVE  words' \in [Words -> Wide] /\ Half!Table' = [Half!Table EXCEPT ![s] = d]
  <1> DEFINE W == Half!WordOf(s)
             new == Half!DesiredWide(words[W], s, d)
  <1>1. s \in Nat /\ W \in Words BY SlotsAreHalves
  <1>2. words[W] \in Wide BY <1>1
  <1>3. \A u \in Nat :
           /\ new \in Wide
           /\ u % 2 = s % 2 => Half!CurrentNarrow(new, u) = d
           /\ u % 2 # s % 2 => Half!CurrentNarrow(new, u) = Half!CurrentNarrow(words[W], u)
    BY <1>1, <1>2, KeyIsPut
  <1>4. new \in Wide BY <1>1, <1>3
  <1>5. words' = [words EXCEPT ![W] = new] OBVIOUS
  <1> HIDE DEF new
  <1>6. words' \in [Words -> Wide] BY <1>4, <1>5
  <1>7. ASSUME NEW u \in Half!Slots
        PROVE  Half!CurrentNarrow(words'[Half!WordOf(u)], u) =
                  IF u = s THEN d ELSE Half!CurrentNarrow(words[Half!WordOf(u)], u)
    <2>1. u \in Nat /\ Half!WordOf(u) \in Words BY SlotsAreHalves
    <2>2. CASE u = s
      <3>1. words'[Half!WordOf(u)] = new BY <1>1, <1>5, <2>2
      <3> QED BY <1>1, <1>3, <2>2, <3>1
    <2>3. CASE u # s /\ Half!WordOf(u) # W
      <3>1. words'[Half!WordOf(u)] = words[Half!WordOf(u)] BY <1>5, <2>1, <2>3
      <3> QED BY <2>3, <3>1
    <2>4. CASE u # s /\ Half!WordOf(u) = W
      <3>1. u % 2 # s % 2 BY <2>4, SlotsAreHalves
      <3>2. words'[Half!WordOf(u)] = new BY <1>1, <1>5, <2>4
      <3> QED BY <1>3, <2>1, <2>4, <3>1, <3>2
    <2> QED BY <2>2, <2>3, <2>4
  <1>8. Half!Table' = [u \in Half!Slots |-> Half!CurrentNarrow(words'[Half!WordOf(u)], u)]
    BY DEF Half!Table
  <1>9. Half!Table = [u \in Half!Slots |-> Half!CurrentNarrow(words[Half!WordOf(u)], u)]
    BY DEF Half!Table
  <1>10. Half!Table' = [Half!Table EXCEPT ![s] = d] BY <1>7, <1>8, <1>9
  <1> QED BY <1>6, <1>10

\* The word is swapped, or read again.
LEMMA WordIsSwapped ==
    ASSUME Half!WidthOK, Half!KeysOK, SwapInv, NEW t \in Threads, Half!Swap(t)
    PROVE  SwapInv' /\ Half!SlotSwapped
  <1> DEFINE c == call[t]
             wide == words[Half!WordOf(c.slot)]
  <1>1. c \in CallState /\ CallOK(c) /\ words \in [Words -> Wide] BY DEF SwapInv
  <1>2. c.slot \in Half!Slots /\ c.expected \in Half!Values /\ c.desired \in Half!Values
    BY <1>1 DEF CallState
  <1>3. c.at = "swap" BY DEF Half!Swap
  <1>4. CASE wide # c.wide
    <2> DEFINE d == [c EXCEPT !.at = "read"]
    <2>1. call' = [call EXCEPT ![t] = d] /\ words' = words
      BY <1>1, <1>4 DEF Half!Swap, Half!Swapped
    <2>2. d \in CallState /\ d.at = "read" BY <1>1 DEF CallState
    <2>3. CallOK(d) BY <1>1, <1>3 DEF CallOK, CallState
    <2> HIDE DEF d
    <2>4. /\ call' \in [Threads -> CallState] /\ \A u \in Threads : CallOK(call'[u])
          /\ call'[t] = d /\ \A u \in Threads : call'[u] # call[u] => u = t
      BY <2>1, <2>2, <2>3, OneCall DEF SwapInv
    <2>5. SwapInv' BY <2>1, <2>4 DEF SwapInv, CallOK
    <2>6. Half!Table' = Half!Table BY <2>1 DEF Half!Table
    <2> QED BY <2>2, <2>4, <2>5, <2>6 DEF Half!SlotSwapped
  <1>5. CASE wide = c.wide
    <2> DEFINE old == Half!Table[c.slot]
    <2>1. old = c.expected BY <1>1, <1>2, <1>3, <1>5 DEF Half!Table, CallOK
    <2> HIDE DEF old
    <2>2. Half!NarrowCas(t, old) BY <1>5, <2>1 DEF Half!Swap, Half!Swapped
    <2>3. words' = [words EXCEPT ![Half!WordOf(c.slot)] =
             Half!DesiredWide(wide, c.slot, c.desired)]
      BY <1>5 DEF Half!Swap
    <2>4. c.at # "none" /\ old \in Half!Values BY <1>2, <1>3, <2>1
    <2>5. /\ call' \in [Threads -> CallState] /\ \A u \in Threads : CallOK(call'[u])
          /\ \A u \in Threads : call'[u] # call[u] => u = t
          /\ call'[t].at = "none"
          /\ call'[t].verdict = CASE old = c.expected -> "success"
                                  [] old = c.desired -> "duplicate"
                                  [] OTHER -> "failed"
      BY <2>2, <2>4, CallReturns
    <2>6. words' \in [Words -> Wide] /\ Half!Table' = [Half!Table EXCEPT ![c.slot] = c.desired]
      BY <1>1, <1>2, <2>3, TableIsPut
    <2>7. SwapInv' BY <2>5, <2>6 DEF SwapInv, CallOK
    <2>8. Half!SlotSwapped
      <3> DEFINE told == CASE old = c.expected -> "success"
                           [] old = c.desired -> "duplicate"
                           [] OTHER -> "failed"
                 put == [Half!Table EXCEPT ![c.slot] = c.desired]
      <3>1. /\ c.at # "none" /\ call'[t].at = "none" => call'[t].verdict = told
            /\ Half!Table' = IF (c.at # "none" /\ call'[t].at = "none") /\ old = c.expected
                        THEN put ELSE Half!Table
        BY <2>1, <2>4, <2>5, <2>6
      <3>2. \A u \in Threads : call'[u] # call[u] => u = t BY <2>5
      <3> QED BY <3>1, <3>2, Zenon DEF Half!SlotSwapped, old
    <2> QED BY <2>7, <2>8
  <1> QED BY <1>4, <1>5

\* Every step keeps the invariant and swaps a slot or none.
LEMMA SwapSteps ==
    ASSUME Half!WidthOK, Half!KeysOK, SwapInv, [Half!Next]_(Half!vars)
    PROVE  SwapInv' /\ [Half!SlotSwapped]_(Half!vars)
  <1>1. CASE UNCHANGED Half!vars
    BY <1>1 DEF Half!vars, SwapInv, CallOK
  <1>2. CASE Half!Next
    <2>1. PICK t \in Threads : Half!Begin(t) \/ Half!Read(t) \/ Half!Swap(t) BY <1>2 DEF Half!Next
    <2> QED BY <2>1, CallBegins, WordIsRead, WordIsSwapped
  <1> QED BY <1>1, <1>2

\* The empty table has no call in it.
LEMMA SwapBegins ==
    ASSUME Half!WidthOK, Half!KeysOK, Half!Init
    PROVE  SwapInv
  <1> DEFINE once == Half!DesiredWide(0, 0, Empty)
             twice == Half!DesiredWide(once, 1, Empty)
  <1>1. Empty \in Half!Values BY DEF Half!KeysOK
  <1>2. 0 \in Wide
    <2>1. [Half!None EXCEPT !.verdict = "none"] \in CallState BY ReturnedState DEF Verdicts
    <2> QED BY <2>1 DEF CallState, Half!None
  <1>3. 0 \in Nat /\ 1 \in Nat OBVIOUS
  <1>4. once \in Wide BY <1>1, <1>2, <1>3, KeyIsPut
  <1> HIDE DEF once
  <1>5. twice \in Wide BY <1>1, <1>3, <1>4, KeyIsPut
  <1>6. words \in [Words -> Wide] BY <1>5 DEF Half!Init, once
  <1>7. Half!None \in CallState
    <2>1. [Half!None EXCEPT !.verdict = "none"] \in CallState BY ReturnedState DEF Verdicts
    <2>2. [Half!None EXCEPT !.verdict = "none"] = Half!None BY DEF Half!None
    <2> QED BY <2>1, <2>2
  <1>8. CallOK(Half!None) BY DEF CallOK, Half!None
  <1> QED BY <1>6, <1>7, <1>8 DEF Half!Init, SwapInv

\* In every behaviour the table holds a key in every half of every word, and the
\* calls are of slots and keys: AtomicCas2Byte never makes of two keys a word that is
\* none.
THEOREM WordsAreTyped == ASSUME Half!KeysOK, Half!WidthOK PROVE Half!Spec => []Half!TypeOK
  <1>1. SwapInv => Half!TypeOK
    <2> SUFFICES ASSUME SwapInv PROVE Half!TypeOK OBVIOUS
    <2>1. 2^(2 * Half!CellBits) = Half!Cells * Half!Cells BY NarrowSizes
    <2>2. words \in [Words -> 0 .. (2^(2 * Half!CellBits) - 1)] BY <2>1 DEF SwapInv, Wide
    <2> QED BY <2>2 DEF SwapInv, Half!TypeOK, CallState
  <1>2. Half!Init => SwapInv BY SwapBegins
  <1>3. SwapInv /\ [Half!Next]_(Half!vars) => SwapInv' BY SwapSteps
  <1> QED BY <1>1, <1>2, <1>3, PTL DEF Half!Spec

\* AtomicCas2Byte is a swap of one slot of two bytes: whatever becomes of the slot
\* that shares the word, nothing in the table changes until the call returns, and it
\* returns what the slot then holds.
THEOREM NarrowSwapsAreAtomic ==
    ASSUME Half!KeysOK, Half!WidthOK PROVE Half!Spec => Half!SlotsAreAtomic
  <1>1. Half!Init => SwapInv BY SwapBegins
  <1>2. SwapInv /\ [Half!Next]_(Half!vars) => SwapInv' /\ [Half!SlotSwapped]_(Half!vars)
    BY SwapSteps
  <1> QED BY <1>1, <1>2, PTL DEF Half!Spec, Half!SlotsAreAtomic

--------------------------------------------------------------------------------
(* Clear's division of the table. *)

\* A number is quotient times divisor plus remainder.
LEMMA Quotients ==
    ASSUME NEW a \in Nat, NEW b \in Nat \ {0}
    PROVE  \E p \in Nat : \E x \in 0..(b - 1) : a = b * p + x /\ a \div b = p /\ a % b = x
  <1>1. a = b * (a \div b) + (a % b) BY SMT
  <1>2. a % b \in 0..(b - 1) BY SMT
  <1>3. a \div b \in Nat BY SMT
  <1> QED BY <1>1, <1>2, <1>3

\* Multiplication is monotonic, on this side too.
LEMMA Multiples ==
    ASSUME NEW a \in Nat, NEW b \in Nat, NEW c \in Nat, b <= c
    PROVE  a * b <= a * c /\ a * c = a * b + a * (c - b) /\ a * b \in Nat
  <1>1. a * (c - b) >= 0 BY ONLY a \in Nat, b \in Nat, c \in Nat, b <= c
  <1>2. a * c = a * b + a * (c - b) BY ONLY a \in Nat, b \in Nat, c \in Nat
  <1>3. a * b \in Nat BY ONLY a \in Nat, b \in Nat
  <1> QED BY <1>1, <1>2, <1>3

--------------------------------------------------------------------------------
(* The host's arithmetic. *)

\* A platform, and a table on it.
Built == Tile!PlatformOK /\ Tile!TableOK /\ slotType \in SlotTypes /\ slots \in Capacities

\* Sizes are positive; the blocks cover the elements, the last one in part.
LEMMA TilingSizes ==
    ASSUME Built
    PROVE  /\ Cores \in Nat \ {0} /\ BLOCK_SIZE \in Nat \ {0} /\ slots \in Nat \ {0}
           /\ Tile!SlotSize \in Nat \ {0} /\ Tile!TileBlocks \in Nat \ {0}
           /\ Tile!Elements \in Nat /\ slots <= Tile!Elements
           /\ Tile!TotalBlocks \in Nat
           /\ Tile!Elements <= BLOCK_SIZE * Tile!TotalBlocks
           /\ BLOCK_SIZE * Tile!TotalBlocks < Tile!Elements + BLOCK_SIZE
  <1>1. /\ Cores \in Nat \ {0} /\ BLOCK_SIZE \in Nat \ {0} /\ slots \in Nat \ {0}
        /\ UBSize \in Nat \ {0} /\ BUFFER_NUM \in Nat \ {0}
        /\ slotType.key \in Nat \ {0} /\ slotType.payload \in Nat
    BY DEF Built, Tile!PlatformOK, Tile!TableOK
  <1>2. Tile!SlotSize \in Nat \ {0} /\ Tile!SlotSize = slotType.key + slotType.payload
    BY <1>1 DEF Tile!SlotSize
  <1>3. Tile!TileBlocks \in Nat \ {0}
    <2>1. UBSize \div BLOCK_SIZE \in Nat BY <1>1, Quotients
    <2>2. (UBSize \div BLOCK_SIZE) \div BUFFER_NUM \in Nat BY <1>1, <2>1, Quotients
    <2>3. ((UBSize \div BLOCK_SIZE) \div BUFFER_NUM) \div slotType.key \in Nat
      BY <1>1, <2>2, Quotients
    <2> QED BY <2>3 DEF Tile!TileBlocks
  <1>4. Tile!Elements \in Nat /\ slots <= Tile!Elements
    <2> DEFINE bytes == slots * Tile!SlotSize
               k == slotType.key
               n == slots
    <2>1. bytes \in Nat /\ k * n <= bytes
      <3>1. bytes = k * n + n * slotType.payload BY <1>1, <1>2
      <3>2. n * slotType.payload \in Nat /\ k * n \in Nat BY <1>1
      <3> HIDE DEF bytes, k, n
      <3> QED BY <3>1, <3>2
    <2>2. k \in Nat \ {0} /\ n \in Nat BY <1>1
    <2> HIDE DEF bytes, k, n
    <2>3. PICK p \in Nat, x \in 0..(k - 1) : bytes = k * p + x /\ bytes \div k = p
      BY <2>1, <2>2, Quotients
    <2>4. n <= p
      <3> SUFFICES ASSUME p + 1 <= n PROVE FALSE BY <2>2
      <3>1. k * (p + 1) <= k * n BY <2>2, Multiples
      <3>2. k * (p + 1) = k * p + k BY <2>2
      <3>3. k * p \in Nat /\ k * n \in Nat BY <2>2
      <3> QED BY <2>1, <2>2, <2>3, <3>1, <3>2, <3>3
    <2> QED BY <2>3, <2>4 DEF Tile!Elements, bytes, k, n
  <1>5. /\ Tile!TotalBlocks \in Nat /\ Tile!Elements <= BLOCK_SIZE * Tile!TotalBlocks
        /\ BLOCK_SIZE * Tile!TotalBlocks < Tile!Elements + BLOCK_SIZE
    <2> DEFINE a == Tile!Elements + BLOCK_SIZE - 1
    <2>1. a \in Nat BY <1>1, <1>4
    <2>2. PICK p \in Nat, x \in 0..(BLOCK_SIZE - 1) :
             a = BLOCK_SIZE * p + x /\ a \div BLOCK_SIZE = p
      <3> HIDE DEF a
      <3> QED BY <1>1, <2>1, Quotients
    <2>3. Tile!TotalBlocks = p BY <2>2 DEF Tile!TotalBlocks
    <2>4. BLOCK_SIZE * p \in Nat BY <1>1
    <2> QED BY <1>1, <1>4, <2>2, <2>3, <2>4
  <1> QED BY <1>1, <1>2, <1>3, <1>4, <1>5

\* A table for the vector cores has a block for each of them.
LEMMA CoresBusy ==
    ASSUME Built, Tile!UsesSimd
    PROVE  Tile!ActualCores = Cores /\ Cores <= Tile!TotalBlocks
  <1> DEFINE B == BLOCK_SIZE
             C == Cores
             S == Tile!SlotSize
             M == Tile!TotalBlocks
             E == Tile!Elements
  <1>1. /\ C \in Nat \ {0} /\ B \in Nat \ {0} /\ S \in Nat \ {0} /\ M \in Nat /\ E \in Nat
        /\ slots \in Nat /\ slots <= E /\ E <= B * M
    BY TilingSizes
  <1>2. slots > C * B * S BY DEF Tile!UsesSimd
  <1> HIDE DEF B, C, S, M, E
  <1>3. C * B \in Nat /\ C * B * 1 <= C * B * S
    <2>1. C * B \in Nat BY <1>1
    <2> QED BY <1>1, <2>1, Multiples
  <1>4. C * B < B * M
    <2>1. C * B * 1 = C * B /\ C * B * S \in Nat /\ B * M \in Nat BY <1>1, <1>3
    <2> QED BY <1>1, <1>2, <1>3, <2>1
  <1>5. C <= M
    <2> SUFFICES ASSUME M <= C PROVE C <= M BY <1>1
    <2>1. B * M <= B * C BY <1>1, Multiples
    <2>2. B * C = C * B /\ B * C \in Nat /\ B * M \in Nat BY <1>1
    <2> QED BY <1>4, <2>1, <2>2
  <1> QED BY <1>1, <1>5 DEF Tile!ActualCores, C, M

\* Where a share begins, in blocks.
LEMMA OffsetIs ==
    ASSUME NEW q \in Nat, NEW r \in Nat, NEW B \in Nat, NEW c \in Nat
    PROVE  /\ (q * B + B) * c = B * (q * c + c)
           /\ (q * B + B) * r + (c - r) * (q * B) = B * (q * c + r)
  <1>1. (q * B + B) * c = B * (q * c + c) OBVIOUS
  <1>2. (q * B + B) * r + (c - r) * (q * B) = B * (q * c + r) OBVIOUS
  <1> QED BY <1>1, <1>2

\* The blocks are dealt evenly, the first cores get one more.
LEMMA Deal ==
    ASSUME Built, Tile!UsesSimd
    PROVE  \E q \in Nat \ {0} : \E r \in 0..(Cores - 1) :
              /\ Tile!TotalBlocks = Cores * q + r
              /\ \A c \in Tile!Core :
                    /\ Tile!Blocks(c) = q + (IF c < r THEN 1 ELSE 0)
                    /\ Tile!Offset(c) = BLOCK_SIZE * (q * c + (IF c < r THEN c ELSE r))
  <1>1. Tile!ActualCores = Cores /\ Cores <= Tile!TotalBlocks BY CoresBusy
  <1>2. Cores \in Nat \ {0} /\ Tile!TotalBlocks \in Nat /\ BLOCK_SIZE \in Nat BY TilingSizes
  <1>3. PICK q \in Nat, r \in 0..(Cores - 1) :
           /\ Tile!TotalBlocks = Cores * q + r
           /\ Tile!TotalBlocks \div Cores = q /\ Tile!TotalBlocks % Cores = r
    BY <1>2, Quotients
  <1>4. q # 0
    <2> SUFFICES ASSUME q = 0 PROVE FALSE OBVIOUS
    <2>1. Cores * q = 0 BY <1>2
    <2> QED BY <1>1, <1>2, <1>3, <2>1
  <1>5. ASSUME NEW c \in Tile!Core
        PROVE  /\ Tile!Blocks(c) = q + (IF c < r THEN 1 ELSE 0)
               /\ Tile!Offset(c) = BLOCK_SIZE * (q * c + (IF c < r THEN c ELSE r))
    <2>1. c \in Nat /\ r \in Nat BY <1>2, <1>3 DEF Tile!Core
    <2>2. Tile!Blocks(c) = q + (IF c < r THEN 1 ELSE 0)
      BY <1>1, <1>3 DEF Tile!Blocks, Tile!CoresWithExtra
    <2>3. Tile!Offset(c) = IF c < r THEN (q * BLOCK_SIZE + BLOCK_SIZE) * c
                      ELSE (q * BLOCK_SIZE + BLOCK_SIZE) * r + (c - r) * (q * BLOCK_SIZE)
      BY <1>1, <1>3 DEF Tile!Offset, Tile!CoresWithExtra
    <2> QED BY <1>2, <2>1, <2>2, <2>3, OffsetIs
  <1> QED BY <1>3, <1>4, <1>5
--------------------------------------------------------------------------------
(* The shares. *)

\* The elements of a core's blocks.
Ends(c) == Tile!Offset(c) + BLOCK_SIZE * Tile!Blocks(c)
InShare(e, c) == Tile!Offset(c) <= e /\ e < Ends(c)

\* Shares follow each other, and the last ends with the last block.
LEMMA SharesFollow ==
    ASSUME Built, Tile!UsesSimd, NEW c \in Tile!Core
    PROVE  /\ Tile!Offset(c) \in Nat /\ Tile!Blocks(c) \in Nat \ {0} /\ Ends(c) \in Nat
           /\ Ends(c) <= BLOCK_SIZE * Tile!TotalBlocks
           /\ \A d \in Tile!Core : c < d => Ends(c) <= Tile!Offset(d)
  <1> DEFINE B == BLOCK_SIZE
  <1>1. Cores \in Nat \ {0} /\ B \in Nat \ {0} /\ Tile!TotalBlocks \in Nat /\ c \in 0..(Cores - 1)
    BY TilingSizes DEF Tile!Core
  <1>2. PICK q \in Nat \ {0}, r \in 0..(Cores - 1) :
           /\ Tile!TotalBlocks = Cores * q + r
           /\ \A d \in Tile!Core : /\ Tile!Blocks(d) = q + (IF d < r THEN 1 ELSE 0)
                              /\ Tile!Offset(d) = B * (q * d + (IF d < r THEN d ELSE r))
    BY Deal
  <1> DEFINE first(d) == q * d + (IF d < r THEN d ELSE r)
  <1>3. ASSUME NEW d \in Nat PROVE q * d \in Nat /\ first(d) \in Nat
    <2>1. q * d \in Nat BY <1>2
    <2> QED BY <2>1, <1>2
  <1>4. Tile!Blocks(c) \in Nat \ {0} /\ first(c) \in Nat /\ Tile!Offset(c) = B * first(c)
    BY <1>1, <1>2, <1>3
  <1> DEFINE last == first(c) + Tile!Blocks(c)
  <1>5. ASSUME NEW d \in 0..Cores, c < d PROVE last <= first(d)
    <2>1. q * (c + 1) <= q * d BY <1>1, <1>2, <1>5, Multiples
    <2>2. q * (c + 1) = q * c + q BY <1>1, <1>2
    <2>3. q * c \in Nat /\ q * d \in Nat BY <1>1, <1>3
    <2> QED BY <1>1, <1>2, <1>5, <2>1, <2>2, <2>3
  <1>6. first(Cores) = Tile!TotalBlocks BY <1>1, <1>2
  <1>7. Ends(c) = B * last /\ last \in Nat
    <2> HIDE DEF first
    <2>1. B * first(c) + B * Tile!Blocks(c) = B * (first(c) + Tile!Blocks(c)) BY <1>1, <1>4
    <2> QED BY <1>1, <1>4, <2>1 DEF Ends
  <1>8. Ends(c) <= B * Tile!TotalBlocks
    <2>1. last <= Tile!TotalBlocks BY <1>1, <1>5, <1>6
    <2> HIDE DEF last, first
    <2> QED BY <1>1, <1>7, <2>1, Multiples
  <1>9. ASSUME NEW d \in Tile!Core, c < d PROVE Ends(c) <= Tile!Offset(d)
    <2>1. d \in 0..Cores /\ d \in Nat BY <1>1 DEF Tile!Core
    <2>2. last <= first(d) /\ first(d) \in Nat BY <1>3, <1>5, <1>9, <2>1
    <2>3. Tile!Offset(d) = B * first(d) BY <1>2
    <2> HIDE DEF last, first
    <2> QED BY <1>1, <1>7, <2>2, <2>3, Multiples
  <1>10. Tile!Offset(c) \in Nat /\ Ends(c) \in Nat
    <2> HIDE DEF last, first
    <2> QED BY <1>1, <1>4, <1>7
  <1> QED BY <1>4, <1>8, <1>9, <1>10

\* Every element is in a share.
LEMMA SharesCover ==
    ASSUME Built, Tile!UsesSimd, NEW e \in Tile!AllElements
    PROVE  \E c \in Tile!Core : InShare(e, c)
  <1> DEFINE B == BLOCK_SIZE
  <1>1. /\ Cores \in Nat \ {0} /\ B \in Nat \ {0} /\ Tile!TotalBlocks \in Nat
        /\ e \in Nat /\ e < B * Tile!TotalBlocks
    BY TilingSizes DEF Tile!AllElements
  <1>2. PICK q \in Nat \ {0}, r \in 0..(Cores - 1) :
           /\ Tile!TotalBlocks = Cores * q + r
           /\ \A d \in Tile!Core : /\ Tile!Blocks(d) = q + (IF d < r THEN 1 ELSE 0)
                              /\ Tile!Offset(d) = B * (q * d + (IF d < r THEN d ELSE r))
    BY Deal
  <1>3. PICK b \in Nat, x \in 0..(B - 1) : e = B * b + x
    <2> HIDE DEF B
    <2>1. \E p \in Nat : \E y \in 0..(B - 1) : e = B * p + y /\ e \div B = p /\ e % B = y
      BY ONLY <1>1, Quotients
    <2> QED BY ONLY <2>1, Zenon
  <1>4. b < Tile!TotalBlocks
    <2> SUFFICES ASSUME Tile!TotalBlocks <= b PROVE FALSE BY <1>1, <1>3
    <2>1. B * Tile!TotalBlocks <= B * b BY <1>1, <1>3, Multiples
    <2>2. B * Tile!TotalBlocks \in Nat /\ B * b \in Nat BY <1>1, <1>3
    <2> QED BY <1>1, <1>3, <2>1, <2>2
  \* The core with the block.
  <1>5. \E c \in Tile!Core : q * c + (IF c < r THEN c ELSE r) <= b
                        /\ b < q * c + (IF c < r THEN c ELSE r) + Tile!Blocks(c)
    <2>1. CASE b < (q + 1) * r
      <3>1. PICK c \in Nat, y \in 0..q : b = (q + 1) * c + y
        <4>1. q + 1 \in Nat \ {0} /\ 0..((q + 1) - 1) = 0..q BY <1>2
        <4>2. \A p \in Nat \ {0} : \E c \in Nat : \E y \in 0..(p - 1) : b = p * c + y
          BY ONLY b \in Nat, Quotients, ZenonT(60)
        <4>3. \E c \in Nat : \E y \in 0..((q + 1) - 1) : b = (q + 1) * c + y
          BY ONLY <4>1, <4>2
        <4> QED BY ONLY <4>1, <4>3
      <3>2. c < r
        <4> SUFFICES ASSUME r <= c PROVE FALSE BY <1>2, <3>1
        <4>1. q + 1 \in Nat /\ r \in Nat BY <1>2
        <4>2. (q + 1) * r <= (q + 1) * c BY <4>1, <3>1, Multiples
        <4>3. (q + 1) * r \in Nat /\ (q + 1) * c \in Nat BY <4>1, <3>1
        <4> QED BY <2>1, <3>1, <4>2, <4>3
      <3>3. c \in Tile!Core /\ Tile!Blocks(c) = q + 1 BY <1>1, <1>2, <3>1, <3>2 DEF Tile!Core
      <3>4. (q + 1) * c = q * c + c /\ q * c \in Nat BY <1>2, <3>1
      <3>5. q * c + c <= b /\ b < q * c + c + Tile!Blocks(c)
        BY <1>2, <3>1, <3>3, <3>4
      <3> QED BY <3>2, <3>3, <3>5
    <2>2. CASE (q + 1) * r <= b
      <3> DEFINE a == b - r
      <3>1. r \in Nat /\ (q + 1) * r = q * r + r /\ q * r \in Nat BY <1>2
      <3>2. a \in Nat /\ q * r <= a BY <1>3, <2>2, <3>1
      <3>3. PICK c \in Nat, y \in 0..(q - 1) : a = q * c + y
        <4> HIDE DEF a
        <4>1. \E c \in Nat : \E y \in 0..(q - 1) : a = q * c + y /\ a \div q = c /\ a % q = y
          BY <1>2, <3>2, Quotients
        <4> QED BY ONLY <4>1
      <3>4. q * c \in Nat BY <1>2, <3>3
      <3>5. r <= c
        <4> SUFFICES ASSUME c + 1 <= r PROVE FALSE BY <3>1, <3>3
        <4>1. q * (c + 1) <= q * r BY <1>2, <3>1, <3>3, Multiples
        <4>2. q * (c + 1) = q * c + q BY <1>2, <3>3
        <4> HIDE DEF a
        <4> QED BY <1>2, <3>1, <3>2, <3>3, <3>4, <4>1, <4>2
      <3>6. c < Cores
        <4> SUFFICES ASSUME Cores <= c PROVE FALSE BY <1>1, <3>3
        <4>1. q * Cores <= q * c BY <1>1, <1>2, <3>3, Multiples
        <4>2. q * Cores = Cores * q /\ q * Cores \in Nat BY <1>1, <1>2
        <4>3. q * c + y >= Cores * q BY <3>3, <3>4, <4>1, <4>2
        <4>4. a < Cores * q BY <1>1, <1>2, <1>3, <1>4, <3>1, <4>2
        <4> HIDE DEF a
        <4> QED BY <3>2, <3>3, <4>2, <4>3, <4>4
      <3>7. c \in Tile!Core /\ Tile!Blocks(c) = q
        BY <1>1, <1>2, <3>1, <3>3, <3>5, <3>6 DEF Tile!Core
      <3>8. q * c + r <= b /\ b < q * c + r + Tile!Blocks(c)
        BY <1>2, <1>3, <3>1, <3>3, <3>4, <3>7
      <3>9. ~(c < r) BY <3>1, <3>3, <3>5
      <3> QED BY <3>7, <3>8, <3>9
    <2>3. (q + 1) * r \in Nat BY <1>2
    <2> QED BY <1>3, <2>1, <2>2, <2>3
  <1>6. PICK c \in Tile!Core : q * c + (IF c < r THEN c ELSE r) <= b
                          /\ b < q * c + (IF c < r THEN c ELSE r) + Tile!Blocks(c)
    BY <1>5
  <1> DEFINE f == q * c + (IF c < r THEN c ELSE r)
  <1>7. f \in Nat /\ Tile!Offset(c) = B * f /\ Tile!Blocks(c) \in Nat /\ f <= b
        /\ b + 1 <= f + Tile!Blocks(c)
    <2>1. c \in Nat BY <1>1 DEF Tile!Core
    <2>2. q * c \in Nat BY <1>2, <2>1
    <2>3. f \in Nat BY <1>2, <2>1, <2>2
    <2>4. Tile!Blocks(c) \in Nat /\ Tile!Offset(c) = B * f BY <1>2
    <2>5. f <= b /\ b < f + Tile!Blocks(c) BY <1>6
    <2> HIDE DEF f
    <2> QED BY <1>3, <2>3, <2>4, <2>5
  <1> HIDE DEF f
  <1>8. B * f <= B * b /\ B * (b + 1) <= B * (f + Tile!Blocks(c)) BY <1>1, <1>3, <1>7, Multiples
  <1>9. /\ B * (b + 1) = B * b + B /\ B * (f + Tile!Blocks(c)) = B * f + B * Tile!Blocks(c)
        /\ B * f \in Nat /\ B * b \in Nat /\ B * Tile!Blocks(c) \in Nat
    BY <1>1, <1>3, <1>7
  <1>10. InShare(e, c) BY <1>1, <1>3, <1>7, <1>8, <1>9 DEF InShare, Ends
  <1> QED BY <1>10
--------------------------------------------------------------------------------
(* The tiles of a share. *)

\* What copy number i of a core is of.
Length(c, i) == IF i = Tile!Tiles(c) - 1 THEN Tile!TailData(c) ELSE Tile!TileData
Copied(c, i) ==
    LET from == Tile!Offset(c) + i * Tile!TileData IN from .. (from + Length(c, i) - 1)

\* Sizes of a share: whole tiles, and a last one in part.
LEMMA TilesOfShare ==
    ASSUME Built, Tile!UsesSimd, NEW c \in Tile!Core
    PROVE  \E a \in Nat : \E x \in 0..(Tile!TileBlocks - 1) :
              /\ Tile!Blocks(c) = Tile!TileBlocks * a + x
              /\ Tile!Tiles(c) = a + (IF x > 0 THEN 1 ELSE 0)
              /\ Tile!TailData(c) = x * BLOCK_SIZE
  <1>1. Tile!Blocks(c) \in Nat BY SharesFollow
  <1>2. Tile!TileBlocks \in Nat \ {0} BY TilingSizes
  <1>3. PICK a \in Nat, x \in 0..(Tile!TileBlocks - 1) :
           /\ Tile!Blocks(c) = Tile!TileBlocks * a + x
           /\ Tile!Blocks(c) \div Tile!TileBlocks = a /\ Tile!Blocks(c) % Tile!TileBlocks = x
    BY <1>1, <1>2, Quotients
  <1> QED BY <1>3 DEF Tile!Tiles, Tile!TailData

\* Copies stay in their share; and if the last one is of anything, it reaches the
\* share's end.
LEMMA CopiesStayInside ==
    ASSUME Built, Tile!UsesSimd, NEW c \in Tile!Core, NEW i \in Nat, i < Tile!Tiles(c)
    PROVE  /\ Tile!TileData \in Nat /\ i * Tile!TileData \in Nat
           /\ (i + 1) * Tile!TileData = i * Tile!TileData + Tile!TileData
           /\ Length(c, i) \in Nat
           /\ Tile!Offset(c) + i * Tile!TileData + Length(c, i) <= Ends(c)
           /\ Tile!TailData(c) > 0 /\ i = Tile!Tiles(c) - 1 =>
                Tile!Offset(c) + i * Tile!TileData + Length(c, i) = Ends(c)
  <1> DEFINE B == BLOCK_SIZE
             T == Tile!TileBlocks
             o == Tile!Offset(c)
             d == T * B
  <1>1. B \in Nat \ {0} /\ T \in Nat \ {0} /\ o \in Nat BY TilingSizes, SharesFollow
  <1>2. PICK a \in Nat, x \in 0..(T - 1) :
           /\ Tile!Blocks(c) = T * a + x /\ Tile!Tiles(c) = a + (IF x > 0 THEN 1 ELSE 0)
           /\ Tile!TailData(c) = x * B
    BY TilesOfShare
  <1>3. Tile!TileData = d BY DEF Tile!TileData
  <1>4. Ends(c) = o + B * (T * a + x) BY <1>2 DEF Ends
  <1> HIDE DEF o
  <1>5. B * (T * a + x) = d * a + x * B
    <2>1. x \in Nat BY <1>1, <1>2
    <2> QED BY ONLY <1>1, <2>1, a \in Nat
  <1>6. d \in Nat /\ x * B \in Nat /\ i * d \in Nat /\ (i + 1) * d = i * d + d /\ d * a \in Nat
        /\ i * d = d * i
    <2>1. d \in Nat BY ONLY <1>1
    <2>2. x * B \in Nat BY <1>1, <1>2
    <2> HIDE DEF d
    <2>3. i * d \in Nat /\ (i + 1) * d = i * d + d /\ d * a \in Nat /\ i * d = d * i
      BY ONLY <2>1, a \in Nat, i \in Nat
    <2> QED BY <2>1, <2>2, <2>3
  <1> HIDE DEF d
  <1>7. Length(c, i) = IF i = Tile!Tiles(c) - 1 THEN x * B ELSE d BY <1>2, <1>3 DEF Length
  <1>8. CASE i = Tile!Tiles(c) - 1
    <2>1. Length(c, i) = x * B BY <1>7, <1>8
    <2>2. CASE x > 0
      <3>1. i = a BY <1>2, <1>8, <2>2
      <3>2. o + i * d + x * B = o + B * (T * a + x) BY <1>1, <1>5, <1>6, <3>1
      <3> QED BY <1>1, <1>3, <1>4, <1>6, <2>1, <3>2 DEF o
    <2>3. CASE ~(x > 0)
      <3>1. x = 0 /\ x * B = 0 BY <1>1, <1>2, <2>3
      <3>2. i + 1 = a BY <1>2, <1>8, <3>1
      <3>3. d * a = i * d + d BY <1>6, <3>2
      <3>4. o + i * d + x * B <= o + B * (T * a + x) BY <1>1, <1>5, <1>6, <3>1, <3>3
      <3>5. Tile!TailData(c) = 0 BY <1>2, <3>1
      <3> QED BY <1>1, <1>3, <1>4, <1>6, <2>1, <3>1, <3>4, <3>5 DEF o
    <2> QED BY <2>2, <2>3
  <1>9. CASE i # Tile!Tiles(c) - 1
    <2>1. i + 1 <= a /\ i + 1 \in Nat BY <1>2, <1>9
    <2>2. d * (i + 1) <= d * a BY <1>6, <2>1, Multiples
    <2>3. d * (i + 1) = (i + 1) * d BY ONLY <1>6, i \in Nat
    <2>4. i * d + d <= d * a + x * B BY <1>6, <2>2, <2>3
    <2>5. Length(c, i) = d BY <1>7, <1>9
    <2>6. o + i * d + d <= o + B * (T * a + x) BY <1>1, <1>5, <1>6, <2>4
    <2> QED BY <1>1, <1>3, <1>4, <1>6, <1>9, <2>5, <2>6 DEF o
  <1> QED BY <1>8, <1>9

\* All tiles together are at least the share.
LEMMA TilesReachEnd ==
    ASSUME Built, Tile!UsesSimd, NEW c \in Tile!Core
    PROVE  Ends(c) <= Tile!Offset(c) + Tile!Tiles(c) * Tile!TileData /\ Tile!Tiles(c) \in Nat
           /\ Tile!Tiles(c) * Tile!TileData \in Nat
  <1> DEFINE B == BLOCK_SIZE
             T == Tile!TileBlocks
  <1>1. B \in Nat \ {0} /\ T \in Nat \ {0} /\ Tile!Offset(c) \in Nat BY TilingSizes, SharesFollow
  <1>2. PICK a \in Nat, x \in 0..(T - 1) :
           /\ Tile!Blocks(c) = T * a + x /\ Tile!Tiles(c) = a + (IF x > 0 THEN 1 ELSE 0)
    BY TilesOfShare
  <1>3. Tile!Tiles(c) \in Nat BY <1>2
  <1>4. T * a + x <= T * Tile!Tiles(c)
    <2>1. CASE x > 0
      <3>1. Tile!Tiles(c) = a + 1 BY <1>2, <2>1
      <3>2. T * (a + 1) = T * a + T /\ T * a \in Nat BY ONLY <1>1, a \in Nat
      <3> QED BY <1>1, <1>2, <3>1, <3>2
    <2>2. CASE ~(x > 0)
      <3>1. x = 0 /\ Tile!Tiles(c) = a BY <1>2, <2>2
      <3>2. T * a \in Nat BY ONLY <1>1, a \in Nat
      <3> QED BY <3>1, <3>2
    <2> QED BY <2>1, <2>2
  <1> DEFINE n == Tile!Tiles(c)
             m == T * a + x
             k == T * n
  <1>5. m \in Nat /\ k \in Nat /\ m <= k
    <2>1. T * a \in Nat BY ONLY <1>1, a \in Nat
    <2>2. k \in Nat BY <1>1, <1>3
    <2> QED BY <1>2, <1>4, <2>1, <2>2
  <1>6. B * m <= B * k
    <2> HIDE DEF m, k
    <2> QED BY <1>1, <1>5, Multiples
  <1>7. n * (T * B) = B * k /\ n * (T * B) \in Nat
    <2>1. n \in Nat BY <1>3
    <2> HIDE DEF n
    <2> QED BY ONLY <1>1, <2>1
  <1>8. Tile!TileData = T * B BY DEF Tile!TileData
  <1>9. B * m \in Nat /\ B * k \in Nat
    <2> HIDE DEF m, k
    <2> QED BY ONLY <1>1, <1>5
  <1>10. Ends(c) = Tile!Offset(c) + B * m BY <1>2 DEF Ends
  <1> HIDE DEF B, T, n, m, k
  <1> QED BY <1>1, <1>3, <1>6, <1>7, <1>8, <1>9, <1>10 DEF n

--------------------------------------------------------------------------------
(* The invariant. *)

\* The memory, and how far the cores are.
TilingTypes ==
    /\ clearPhase \in {"used", "clearing", "cleared"}
    /\ dirty \subseteq Tile!AllElements
    /\ written \in [Tile!Core -> SUBSET Nat]
    /\ tile \in [Tile!Core -> Nat]
    /\ \A c \in Tile!Core : tile[c] \in 0..(IF Tile!UsesSimd THEN Tile!Tiles(c) ELSE 0)

\* Cores write to their own shares.
WritesInShare == \A c \in Tile!Core : \A e \in written[c] : Tile!UsesSimd /\ InShare(e, c)

\* What a core has passed is clean, the tail too if there is one.
PassedIsClean ==
    clearPhase = "clearing" /\ (\A c \in Tile!Core : Tile!TailData(c) > 0) =>
        \A c \in Tile!Core : \A e \in dirty :
            InShare(e, c) => Tile!Offset(c) + tile[c] * Tile!TileData <= e

TilingInv ==
    /\ Built
    /\ TilingTypes
    /\ WritesInShare
    /\ clearPhase = "clearing" => Tile!UsesSimd
    /\ PassedIsClean
    /\ Tile!EmptiedUnlessTilesAreFull

\* The tiling changes with the table only.
LEMMA SameTiling ==
    ASSUME UNCHANGED <<slotType, slots>>
    PROVE  /\ Built' = Built /\ Tile!UsesSimd' = Tile!UsesSimd
              /\ Tile!AllElements' = Tile!AllElements
           /\ Tile!Elements' = Tile!Elements /\ Tile!TileData' = Tile!TileData
           /\ \A c : Tile!Tiles(c)' = Tile!Tiles(c) /\ Tile!TailData(c)' = Tile!TailData(c)
              /\ Tile!Offset(c)' = Tile!Offset(c)
           /\ \A c, e : InShare(e, c)' = InShare(e, c)
  <1>1. slotType' = slotType /\ slots' = slots OBVIOUS
  <1>2. Built' = Built BY <1>1 DEF Built
  <1>3. Tile!SlotSize' = Tile!SlotSize BY <1>1 DEF Tile!SlotSize
  <1>4. Tile!UsesSimd' = Tile!UsesSimd BY <1>1, <1>3 DEF Tile!UsesSimd, Tile!CanClearSimd
  <1>5. Tile!Elements' = Tile!Elements BY <1>1, <1>3 DEF Tile!Elements
  <1>6. Tile!AllElements' = Tile!AllElements BY <1>5 DEF Tile!AllElements
  <1>7. Tile!TileBlocks' = Tile!TileBlocks BY <1>1 DEF Tile!TileBlocks
  <1>8. Tile!TileData' = Tile!TileData BY <1>7 DEF Tile!TileData
  <1>9. Tile!TotalBlocks' = Tile!TotalBlocks BY <1>5 DEF Tile!TotalBlocks
  <1>10. Tile!ActualCores' = Tile!ActualCores /\ Tile!CoresWithExtra' = Tile!CoresWithExtra
    BY <1>9 DEF Tile!ActualCores, Tile!CoresWithExtra
  <1>11. ASSUME NEW c PROVE Tile!Blocks(c)' = Tile!Blocks(c) /\ Tile!Offset(c)' = Tile!Offset(c)
    BY <1>9, <1>10 DEF Tile!Blocks, Tile!Offset
  <1>12. ASSUME NEW c PROVE Tile!Tiles(c)' = Tile!Tiles(c) /\ Tile!TailData(c)' = Tile!TailData(c)
    BY <1>7, <1>11 DEF Tile!Tiles, Tile!TailData
  <1>13. ASSUME NEW c, NEW e PROVE InShare(e, c)' = InShare(e, c)
    BY <1>11 DEF InShare, Ends
  <1> QED BY <1>2, <1>4, <1>5, <1>6, <1>8, <1>11, <1>12, <1>13

\* A core copies to its share, and goes on where it stopped.
LEMMA CopyTileKeeps ==
    ASSUME TilingInv, NEW c \in Tile!Core, Tile!CopyTile(c)
    PROVE  TilingInv'
  <1> DEFINE i == tile[c]
             from == Tile!Offset(c) + i * Tile!TileData
             n == Length(c, i)
             copied == from..(from + n - 1)
  <1>1. /\ Built /\ Tile!UsesSimd /\ clearPhase = "clearing" /\ i \in Nat /\ i < Tile!Tiles(c)
        /\ UNCHANGED <<slotType, slots, clearPhase>>
        /\ tile \in [Tile!Core -> Nat] /\ written \in [Tile!Core -> SUBSET Nat]
    BY DEF TilingInv, TilingTypes, Tile!CopyTile
  <1>2. /\ dirty' = dirty \ copied
        /\ written' = [written EXCEPT ![c] = @ \cup copied]
        /\ tile' = [tile EXCEPT ![c] = @ + 1]
    BY DEF Tile!CopyTile, Length
  <1>3. /\ Tile!TileData \in Nat /\ i * Tile!TileData \in Nat
        /\ (i + 1) * Tile!TileData = i * Tile!TileData + Tile!TileData
        /\ n \in Nat /\ from + n <= Ends(c)
        /\ Tile!TailData(c) > 0 /\ i = Tile!Tiles(c) - 1 => from + n = Ends(c)
    BY <1>1, CopiesStayInside
  <1>4. Tile!Offset(c) \in Nat /\ Ends(c) \in Nat /\ from \in Nat BY <1>1, <1>3, SharesFollow
  <1>5. \A d \in Tile!Core : Tile!Tiles(d) \in Nat BY <1>1, TilesReachEnd
  <1> HIDE DEF i, from, n
  <1>6. copied \subseteq Nat /\ \A e \in copied : InShare(e, c)
    <2>1. ASSUME NEW e \in copied PROVE e \in Nat /\ InShare(e, c)
      <3>1. e \in Nat /\ from <= e /\ e <= from + n - 1 BY <1>3, <1>4
      <3>2. Tile!Offset(c) <= from BY <1>3, <1>4 DEF from
      <3> QED BY <1>3, <1>4, <3>1, <3>2 DEF InShare
    <2> QED BY <2>1
  <1>7. TilingTypes'
    <2>1. clearPhase' \in {"used", "clearing", "cleared"} BY <1>1
    <2>2. (dirty \subseteq Tile!AllElements)' BY <1>1, <1>2, SameTiling DEF TilingInv, TilingTypes
    <2>3. written' \in [Tile!Core -> SUBSET Nat]
      <3> HIDE DEF copied
      <3> QED BY <1>1, <1>2, <1>6
    <2>4. tile' \in [Tile!Core -> Nat] BY <1>1, <1>2
    <2>5. ASSUME NEW d \in Tile!Core
          PROVE tile'[d] \in 0..(IF Tile!UsesSimd THEN Tile!Tiles(d) ELSE 0)
      <3>1. tile[d] \in 0..Tile!Tiles(d) BY <1>1 DEF TilingInv, TilingTypes
      <3>2. CASE d = c
        <4>1. tile'[d] = i + 1 BY <1>1, <1>2, <3>2 DEF i
        <4> QED BY <1>1, <1>5, <3>2, <4>1
      <3>3. CASE d # c BY <1>1, <1>2, <3>1, <3>3
      <3> QED BY <3>2, <3>3
    <2>6. (\A d \in Tile!Core : tile[d] \in 0..(IF Tile!UsesSimd THEN Tile!Tiles(d) ELSE 0))'
      BY <1>1, <2>5, SameTiling
    <2> QED BY <2>1, <2>2, <2>3, <2>4, <2>6 DEF TilingTypes
  <1>8. WritesInShare'
    <2>1. ASSUME NEW d \in Tile!Core, NEW e \in written'[d] PROVE InShare(e, d)
      <3> HIDE DEF copied
      <3>1. e \in written[d] \/ (d = c /\ e \in copied) BY <1>1, <1>2
      <3> QED BY <1>6, <3>1 DEF TilingInv, WritesInShare
    <2> QED BY <1>1, <2>1, SameTiling DEF WritesInShare
  <1>9. PassedIsClean'
    <2> SUFFICES ASSUME \A d \in Tile!Core : Tile!TailData(d) > 0, NEW d \in Tile!Core,
                        NEW e \in dirty',
                        InShare(e, d)
                 PROVE  Tile!Offset(d) + tile'[d] * Tile!TileData <= e
      BY <1>1, SameTiling DEF PassedIsClean
    <2>1. e \in dirty /\ e \notin copied BY <1>2
    <2>2. Tile!Offset(d) + tile[d] * Tile!TileData <= e BY <1>1, <2>1 DEF TilingInv, PassedIsClean
    <2>3. CASE d # c
      <3>1. tile'[d] = tile[d] BY <1>1, <1>2, <2>3
      <3> QED BY <2>2, <3>1
    <2>4. CASE d = c
      <3>1. tile'[d] = i + 1 BY <1>1, <1>2, <2>4 DEF i
      <3>2. from <= e BY <2>2, <2>4 DEF from, i
      <3>3. e \in Nat
        <4>1. Tile!Elements \in Nat BY <1>1, TilingSizes
        <4> QED BY <2>1, <4>1 DEF TilingInv, TilingTypes, Tile!AllElements
      <3>4. from + n <= e BY <1>3, <1>4, <2>1, <3>2, <3>3
      <3>5. CASE i = Tile!Tiles(c) - 1
        <4>1. Ends(c) <= e BY <1>3, <3>4, <3>5
        <4> QED BY <1>4, <2>4, <3>3, <4>1 DEF InShare
      <3>6. CASE i # Tile!Tiles(c) - 1
        <4>1. n = Tile!TileData BY <3>6 DEF n, Length
        <4>2. from + n = Tile!Offset(c) + (i + 1) * Tile!TileData BY <1>3, <1>4, <4>1 DEF from
        <4> QED BY <2>4, <3>1, <3>4, <4>2
      <3> QED BY <3>5, <3>6
    <2> QED BY <2>3, <2>4
  <1>10. Built' /\ Tile!UsesSimd' BY <1>1, SameTiling
  <1>11. Tile!EmptiedUnlessTilesAreFull' BY <1>1 DEF Tile!EmptiedUnlessTilesAreFull
  <1> QED BY <1>7, <1>8, <1>9, <1>10, <1>11 DEF TilingInv

\* When every core has copied its tiles, nothing is dirty unless the tiles are
\* full.
LEMMA SynchronizeKeeps ==
    ASSUME TilingInv, Tile!Synchronize
    PROVE  TilingInv'
  <1>1. /\ Built /\ Tile!UsesSimd /\ clearPhase = "clearing" /\ clearPhase' = "cleared"
        /\ UNCHANGED <<slotType, slots, dirty, written, tile>>
        /\ \A c \in Tile!Core : tile[c] = Tile!Tiles(c)
    BY DEF TilingInv, Tile!Synchronize
  <1>2. ASSUME \A c \in Tile!Core : Tile!TailData(c) > 0, NEW e \in dirty PROVE FALSE
    <2>1. e \in Tile!AllElements BY DEF TilingInv, TilingTypes
    <2>2. PICK c \in Tile!Core : InShare(e, c) BY <1>1, <2>1, SharesCover
    <2>3. Tile!Offset(c) + Tile!Tiles(c) * Tile!TileData <= e
      BY <1>1, <1>2, <2>2 DEF TilingInv, PassedIsClean
    <2>4. /\ Ends(c) <= Tile!Offset(c) + Tile!Tiles(c) * Tile!TileData
             /\ Tile!Tiles(c) * Tile!TileData \in Nat
          /\ Tile!Offset(c) \in Nat /\ Ends(c) \in Nat
      BY <1>1, TilesReachEnd, SharesFollow
    <2>5. e < Ends(c) BY <2>2 DEF InShare
    <2>6. e \in Nat
      <3>1. Tile!Elements \in Nat BY <1>1, TilingSizes
      <3> QED BY <2>1, <3>1 DEF Tile!AllElements
    <2> QED BY <2>3, <2>4, <2>5, <2>6
  <1>3. Built' /\ Tile!UsesSimd' BY <1>1, SameTiling
  <1>4. TilingTypes' BY <1>1, SameTiling DEF TilingInv, TilingTypes
  <1>5. WritesInShare' BY <1>1, SameTiling DEF TilingInv, WritesInShare
  <1>6. PassedIsClean' BY <1>1 DEF PassedIsClean
  <1>7. Tile!EmptiedUnlessTilesAreFull'
    BY <1>1, <1>2, SameTiling DEF Tile!EmptiedUnlessTilesAreFull
  <1> QED BY <1>3, <1>4, <1>5, <1>6, <1>7 DEF TilingInv
\* A clear that starts finds every core at its first tile.
LEMMA ClearSimdKeeps ==
    ASSUME TilingInv, Tile!ClearSimd
    PROVE  TilingInv'
  <1>1. /\ Built /\ Tile!UsesSimd /\ clearPhase' = "clearing"
        /\ UNCHANGED <<slotType, slots, dirty>>
        /\ written' = [c \in Tile!Core |-> {}] /\ tile' = [c \in Tile!Core |-> 0]
    BY DEF TilingInv, Tile!ClearSimd
  <1>2. Built' /\ Tile!UsesSimd' BY <1>1, SameTiling
  <1>3. TilingTypes'
    <2>1. \A c \in Tile!Core : 0 \in 0..Tile!Tiles(c) BY <1>1, TilesReachEnd
    <2>2. (dirty \subseteq Tile!AllElements)' BY <1>1, SameTiling DEF TilingInv, TilingTypes
    <2>3. \A c \in Tile!Core : tile'[c] \in 0..(IF Tile!UsesSimd THEN Tile!Tiles(c) ELSE 0)
      BY <1>1, <2>1
    <2>4. (\A c \in Tile!Core : tile[c] \in 0..(IF Tile!UsesSimd THEN Tile!Tiles(c) ELSE 0))'
      BY <1>1, <2>3, SameTiling
    <2> QED BY <1>1, <2>2, <2>4 DEF TilingTypes
  <1>4. WritesInShare' BY <1>1 DEF WritesInShare
  <1>5. PassedIsClean'
    <2> SUFFICES ASSUME NEW c \in Tile!Core, NEW e \in dirty, InShare(e, c)
                 PROVE  Tile!Offset(c) + tile'[c] * Tile!TileData <= e
      BY <1>1, SameTiling DEF PassedIsClean
    <2>1. Tile!TileData \in Nat /\ Tile!Offset(c) \in Nat
      <3>1. Tile!TileBlocks * BLOCK_SIZE \in Nat BY <1>1, TilingSizes
      <3> QED BY <1>1, <3>1, SharesFollow DEF Tile!TileData
    <2>2. tile'[c] * Tile!TileData = 0 BY <1>1, <2>1
    <2> QED BY <2>1, <2>2 DEF InShare
  <1>6. Tile!EmptiedUnlessTilesAreFull' BY <1>1 DEF Tile!EmptiedUnlessTilesAreFull
  <1> QED BY <1>1, <1>2, <1>3, <1>4, <1>5, <1>6 DEF TilingInv

\* No core moves while the kernel of small tables clears, or the table is used.
LEMMA ElsewhereKeeps ==
    ASSUME TilingInv, Tile!ClearSimt \/ Tile!Use
    PROVE  TilingInv'
  <1>1. UNCHANGED <<slotType, slots, written, tile>> /\ Built
    BY DEF TilingInv, Tile!ClearSimt, Tile!Use
  <1>2. \/ clearPhase' = "cleared" /\ dirty' = {}
        \/ clearPhase' = "used" /\ dirty' = Tile!AllElements
    BY DEF Tile!ClearSimt, Tile!Use
  <1>3. Built' BY <1>1, SameTiling
  <1>4. TilingTypes' BY <1>1, <1>2, SameTiling DEF TilingInv, TilingTypes
  <1>5. WritesInShare' BY <1>1, SameTiling DEF TilingInv, WritesInShare
  <1>6. PassedIsClean' BY <1>2 DEF PassedIsClean
  <1>7. Tile!EmptiedUnlessTilesAreFull' BY <1>2 DEF Tile!EmptiedUnlessTilesAreFull
  <1> QED BY <1>2, <1>3, <1>4, <1>5, <1>6, <1>7 DEF TilingInv

\* The invariant holds in every behaviour, on every platform.
LEMMA TilingIsKept ==
    ASSUME Tile!PlatformOK, Tile!TableOK
    PROVE  Tile!Spec => []TilingInv
  <1>1. Tile!Init => TilingInv
    <2> SUFFICES ASSUME Tile!Init PROVE TilingInv OBVIOUS
    <2>1. Built BY DEF Tile!Init, Built
    <2>2. TilingTypes
      <3>1. Tile!UsesSimd => \A c \in Tile!Core : 0 \in 0..Tile!Tiles(c) BY <2>1, TilesReachEnd
      <3> QED BY <3>1 DEF Tile!Init, TilingTypes
    <2> QED BY <2>1, <2>2
         DEF Tile!Init, TilingInv, WritesInShare, PassedIsClean, Tile!EmptiedUnlessTilesAreFull
  <1>2. TilingInv /\ [Tile!Next]_(Tile!vars) => TilingInv'
    <2> SUFFICES ASSUME TilingInv, [Tile!Next]_(Tile!vars) PROVE TilingInv' OBVIOUS
    <2>1. CASE Tile!ClearSimt \/ Tile!Use BY <2>1, ElsewhereKeeps
    <2>2. CASE Tile!ClearSimd BY <2>2, ClearSimdKeeps
    <2>3. ASSUME NEW c \in Tile!Core, Tile!CopyTile(c) PROVE TilingInv' BY <2>3, CopyTileKeeps
    <2>4. CASE Tile!Synchronize BY <2>4, SynchronizeKeeps
    <2>5. CASE UNCHANGED Tile!vars
      <3>1. UNCHANGED <<slotType, slots, clearPhase, dirty, written, tile>> BY <2>5 DEF Tile!vars
      <3>2. Built' /\ Tile!UsesSimd' = Tile!UsesSimd BY <3>1, SameTiling DEF TilingInv
      <3>3. TilingTypes' BY <3>1, SameTiling DEF TilingInv, TilingTypes
      <3>4. WritesInShare' BY <3>1, SameTiling DEF TilingInv, WritesInShare
      <3>5. PassedIsClean' BY <3>1, SameTiling DEF TilingInv, PassedIsClean
      <3>6. Tile!EmptiedUnlessTilesAreFull'
        BY <3>1, SameTiling DEF TilingInv, Tile!EmptiedUnlessTilesAreFull
      <3> QED BY <3>1, <3>2, <3>3, <3>4, <3>5, <3>6 DEF TilingInv
    <2> QED BY <2>1, <2>2, <2>3, <2>4, <2>5 DEF Tile!Next
  <1> QED BY <1>1, <1>2, PTL DEF Tile!Spec

\* Variables keep their types, and no core copies more tiles than it has
\* (ClearSIMD's loop bound).
THEOREM TilingTyped == ASSUME Tile!PlatformOK, Tile!TableOK PROVE Tile!Spec => []Tile!TypeOK
  <1>1. TilingInv => Tile!TypeOK BY DEF TilingInv, TilingTypes, Tile!TypeOK, Built
  <1> QED BY <1>1, TilingIsKept, PTL

\* ClearSimd deals every element to one core only, whatever the number of cores
\* and the remainders, and runs over the table's end by less than a block.
THEOREM CoresWorkApart ==
    ASSUME Tile!PlatformOK, Tile!TableOK PROVE Tile!Spec => []Tile!SharesAreDisjoint
  <1>1. ASSUME TilingInv PROVE Tile!SharesAreDisjoint
    <2>1. ASSUME NEW c \in Tile!Core, NEW d \in Tile!Core, c < d,
                 NEW e \in written[c], e \in written[d]
          PROVE  FALSE
      <3>1. Built /\ Tile!UsesSimd /\ InShare(e, c) /\ InShare(e, d)
        BY <1>1, <2>1 DEF TilingInv, WritesInShare
      <3>2. Ends(c) <= Tile!Offset(d) /\ Ends(c) \in Nat /\ Tile!Offset(d) \in Nat
        BY <2>1, <3>1, SharesFollow
      <3>3. e \in Nat BY <1>1 DEF TilingInv, TilingTypes
      <3> QED BY <3>1, <3>2, <3>3 DEF InShare
    <2>2. ASSUME NEW c \in Tile!Core,
                 NEW d \in Tile!Core, c # d PROVE written[c] \cap written[d] = {}
      <3>1. c < d \/ d < c
        <4>1. c \in Int /\ d \in Int BY DEF Tile!Core
        <4> QED BY <2>2, <4>1
      <3> QED BY <2>1, <3>1
    <2>3. ASSUME NEW c \in Tile!Core, NEW e \in written[c] PROVE e < Tile!Elements + BLOCK_SIZE - 1
      <3>1. Built /\ Tile!UsesSimd /\ InShare(e, c) /\ e \in Nat
        BY <1>1, <2>3 DEF TilingInv, TilingTypes, WritesInShare
      <3>2. Ends(c) <= BLOCK_SIZE * Tile!TotalBlocks /\ Ends(c) \in Nat BY <3>1, SharesFollow
      <3>3. /\ BLOCK_SIZE * Tile!TotalBlocks < Tile!Elements + BLOCK_SIZE
            /\ Tile!Elements \in Nat /\ BLOCK_SIZE \in Nat /\ Tile!TotalBlocks \in Nat
        BY <3>1, TilingSizes
      <3>4. BLOCK_SIZE * Tile!TotalBlocks \in Nat BY <3>3
      <3> QED BY <3>1, <3>2, <3>3, <3>4 DEF InShare
    <2> QED BY <2>2, <2>3 DEF Tile!SharesAreDisjoint
  <1> QED BY <1>1, TilingIsKept, PTL

\* A Clear empties a table of any capacity, on the cores or by the kernel of
\* small tables, unless some core's share is of full tiles: then
\* ClearSIMD's last DataCopy is of no element.
THEOREM ClearsUnlessTilesAreFull ==
    ASSUME Tile!PlatformOK, Tile!TableOK PROVE Tile!Spec => []Tile!EmptiedUnlessTilesAreFull
  <1>1. TilingInv => Tile!EmptiedUnlessTilesAreFull BY DEF TilingInv
  <1> QED BY <1>1, TilingIsKept, PTL
================================================================================
