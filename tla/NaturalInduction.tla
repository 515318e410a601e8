--------------------------- MODULE NaturalInduction ---------------------------
(***************************************************************************)
(* Induction over the natural numbers for sets instead of predicates, as   *)
(* facts that can be cited: a set of numbers has a least one, a set closed *)
(* under successors holds them all, and a recursion has a solution.  They  *)
(* follow from the well-foundedness of < (module WellFoundedInduction).    *)
(* And division with a remainder, whose one way the provers do not know.   *)
(***************************************************************************)
EXTENDS Integers, FiniteSets, NaturalsInduction, WellFoundedInduction, FunctionTheorems,
        FiniteSetTheorems, TLAPS

\* An order that is < has a least element wherever it has a minimal one.
LEMMA LeastOfOrder ==
    ASSUME NEW R, NEW S \in SUBSET Nat, \A m, n \in Nat : (<<m, n>> \in R) <=> m < n,
           \E n \in S : \A m \in S : ~(<<m, n>> \in R)
    PROVE  \E n \in S : \A m \in S : n <= m
  <1>1. PICK n \in S : \A m \in S : ~(<<m, n>> \in R) OBVIOUS
  <1>2. ASSUME NEW m \in S PROVE n <= m
    <2>1. m \in Nat /\ n \in Nat BY <1>1
    <2>2. ~(m < n) BY <1>1, <2>1, Zenon
    <2> QED BY <2>1, <2>2
  <1> QED BY <1>1, <1>2, Zenon

\* A set of natural numbers has a least one.
LEMMA LeastNatural ==
    ASSUME NEW S \in SUBSET Nat, S # {}
    PROVE  \E n \in S : \A m \in S : n <= m
  <1> DEFINE R == OpToRel(<, Nat)
  <1>1. \E n \in S : \A m \in S : ~(<<m, n>> \in R)
    BY NatLessThanWellFounded, WFMin, Zenon
  <1>2. \A m, n \in Nat : (<<m, n>> \in R) <=> m < n
    BY DEF OpToRel
  <1> HIDE DEF R
  <1> QED BY <1>1, <1>2, LeastOfOrder, Zenon

\* A set with 0, closed under successors, holds every natural number.
LEMMA Induction ==
    ASSUME NEW S, 0 \in S, \A n \in Nat : n \in S => n + 1 \in S
    PROVE  Nat \subseteq S
  <1> SUFFICES ASSUME Nat \ S # {} PROVE FALSE OBVIOUS
  <1>1. PICK n \in Nat \ S : \A m \in Nat \ S : n <= m
    <2>1. Nat \ S \in SUBSET Nat OBVIOUS
    <2> QED BY <2>1, LeastNatural
  <1>2. n # 0 OBVIOUS
  <1>3. n - 1 \in Nat /\ ~(n <= n - 1) /\ (n - 1) + 1 = n BY <1>2
  <1> QED BY <1>1, <1>3

\* Values of D may be defined one from the other: g starts with a, and F[i]
\* takes one value of g to the next.
StepsIn(D, n, F) == \A i \in 1..n : \A x \in D : F[i][x] \in D
Follows(g, D, n, a, F) ==
    g \in [0..n -> D] /\ g[0] = a /\ \A i \in 1..n : g[i] = F[i][g[i - 1]]

LEMMA Recursion ==
    ASSUME NEW D, NEW n \in Nat, NEW F, StepsIn(D, n, F), NEW a \in D
    PROVE  \E g : Follows(g, D, n, a, F)
  <1>0. \A i \in 1..n : \A x \in D : F[i][x] \in D BY DEF StepsIn
  <1> DEFINE Solves(g, m) == g \in [0..m -> D] /\ g[0] = a
                             /\ \A i \in 1..m : g[i] = F[i][g[i - 1]]
             S == {m \in Nat : m <= n => \E g : Solves(g, m)}
  <1>1. 0 \in S
    <2>1. Solves([i \in 0..0 |-> a], 0) OBVIOUS
    <2> QED BY <2>1
  <1>2. ASSUME NEW m \in Nat, m \in S PROVE m + 1 \in S
    <2> SUFFICES ASSUME m + 1 <= n PROVE \E g : Solves(g, m + 1) OBVIOUS
    <2>1. PICK g : Solves(g, m) BY <1>2
    <2> DEFINE h == [i \in 0..(m + 1) |-> IF i = m + 1 THEN F[m + 1][g[m]] ELSE g[i]]
    <2>2. m + 1 \in 1..n /\ g[m] \in D BY <2>1
    <2>3. F[m + 1][g[m]] \in D BY <1>0, <2>2
    <2>4. h \in [0..(m + 1) -> D] BY <2>1, <2>3
    <2>5. h[0] = a BY <2>1
    <2>6. ASSUME NEW i \in 1..(m + 1) PROVE h[i] = F[i][h[i - 1]]
      <3>1. CASE i = m + 1
        <4>1. h[i] = F[m + 1][g[m]] /\ h[i - 1] = g[m] BY <3>1
        <4> QED BY <3>1, <4>1
      <3>2. CASE i # m + 1
        <4>1. i \in 1..m /\ i - 1 \in 0..m BY <3>2
        <4>2. h[i] = g[i] /\ h[i - 1] = g[i - 1] BY <4>1
        <4> QED BY <2>1, <4>1, <4>2
      <3> QED BY <3>1, <3>2
    <2> QED BY <2>4, <2>5, <2>6
  <1>3. n \in S BY <1>1, <1>2, Induction
  <1> QED BY <1>3 DEF Follows

--------------------------------------------------------------------------------
(* Division. *)

\* A number is a multiple of the divisor plus a remainder.
LEMMA Divided ==
    ASSUME NEW a \in Int, NEW b \in Nat \ {0}
    PROVE  /\ a \div b \in Int /\ a % b \in 0..(b - 1)
           /\ a = (a \div b) * b + (a % b)
           /\ a \in Nat => a \div b \in Nat
  <1>1. a = b * (a \div b) + (a % b) BY SMT
  <1>2. a % b \in 0..(b - 1) BY SMT
  <1>3. a \div b \in Int BY SMT
  <1>4. a \in Nat => a \div b \in Nat BY SMT
  <1>5. b * (a \div b) = (a \div b) * b BY <1>3
  <1> QED BY <1>1, <1>2, <1>3, <1>4, <1>5

\* Multiplication is monotonic.
LEMMA Times ==
    ASSUME NEW b \in Nat, NEW x \in Int, NEW y \in Int, x <= y
    PROVE  x * b <= y * b /\ y * b = x * b + (y - x) * b
  <1>1. (y - x) * b >= 0 BY ONLY b \in Nat, x \in Int, y \in Int, x <= y
  <1>2. y * b = x * b + (y - x) * b BY ONLY b \in Nat, x \in Int, y \in Int
  <1>3. x * b \in Int /\ y * b \in Int /\ (y - x) * b \in Int
    BY ONLY b \in Nat, x \in Int, y \in Int
  <1> QED BY <1>1, <1>2, <1>3

\* There is one way to divide with a remainder.
LEMMA Division ==
    ASSUME NEW b \in Nat \ {0}, NEW q \in Int, NEW r \in 0..(b - 1)
    PROVE  (q * b + r) % b = r /\ (q * b + r) \div b = q
  <1> DEFINE a == q * b + r
             p == a \div b
             x == a % b
  <1>1. q * b \in Int /\ a \in Int OBVIOUS
  <1>2. p \in Int /\ x \in 0..(b - 1) /\ a = p * b + x BY <1>1, Divided
  <1>3. a = q * b + r OBVIOUS
  <1> HIDE DEF a, p, x
  <1>4. ASSUME q < p PROVE FALSE
    <2>1. (q + 1) * b <= p * b BY <1>2, <1>4, Times
    <2>2. (q + 1) * b = q * b + b OBVIOUS
    <2>3. p * b \in Int BY <1>2
    <2> QED BY <1>1, <1>2, <1>3, <2>1, <2>2, <2>3
  <1>5. ASSUME p < q PROVE FALSE
    <2>1. (p + 1) * b <= q * b BY <1>2, <1>5, Times
    <2>2. (p + 1) * b = p * b + b BY <1>2
    <2>3. p * b \in Int BY <1>2
    <2> QED BY <1>1, <1>2, <1>3, <2>1, <2>2, <2>3
  <1>6. p = q BY <1>2, <1>4, <1>5
  <1>7. x = r BY <1>1, <1>2, <1>3, <1>6
  <1> QED BY <1>6, <1>7 DEF a, p, x

\* Numbers are congruent if they differ by a multiple.
LEMMA Congruent ==
    ASSUME NEW b \in Nat \ {0}, NEW x \in Int, NEW y \in Int
    PROVE  x % b = y % b <=> \E k \in Int : x = y + k * b
  <1>1. ASSUME x % b = y % b PROVE \E k \in Int : x = y + k * b
    <2> DEFINE k == x \div b - y \div b
    <2>1. x \div b \in Int /\ y \div b \in Int /\ x % b \in Int /\ y % b \in Int BY Divided
    <2>2. x = (x \div b) * b + (x % b) /\ y = (y \div b) * b + (y % b) BY Divided
    <2>3. k * b = (x \div b) * b - (y \div b) * b BY <2>1
    <2>4. (x \div b) * b \in Int /\ (y \div b) * b \in Int BY <2>1
    <2>5. x = y + k * b /\ k \in Int
      <3>1. k \in Int BY <2>1
      <3> HIDE DEF k
      <3> QED BY <1>1, <2>1, <2>2, <2>3, <2>4, <3>1
    <2> QED BY <2>5
  <1>2. ASSUME NEW k \in Int, x = y + k * b PROVE x % b = y % b
    <2> DEFINE q == y \div b
               r == y % b
    <2>1. q \in Int /\ r \in 0..(b - 1) /\ y = q * b + r BY Divided
    <2> HIDE DEF q, r
    <2>2. q * b \in Int /\ k * b \in Int /\ (q + k) * b = q * b + k * b BY <2>1
    <2>3. x = (q + k) * b + r BY <1>2, <2>1, <2>2
    <2>4. q + k \in Int BY <2>1
    <2> QED BY <2>1, <2>3, <2>4, Division DEF r
  <1> QED BY <1>1, <1>2

\* A number in range is its own remainder.
LEMMA InRange ==
    ASSUME NEW b \in Nat \ {0}, NEW r \in 0..(b - 1)
    PROVE  r % b = r
  <1>1. (0 * b + r) % b = r BY Division
  <1>2. 0 * b + r = r OBVIOUS
  <1> QED BY <1>1, <1>2
===============================================================================
