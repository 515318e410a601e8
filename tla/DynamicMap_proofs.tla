--------------------------- MODULE DynamicMap_proofs ---------------------------
(***************************************************************************)
(* Proofs about DynamicMap, for all keys and payloads, capacities and      *)
(* batches of every length, wherever the container's extents serve the     *)
(* capacity they are made for (ExtentsServe).                              *)
(*                                                                         *)
(* The argument.  No key is in two submaps because an insertion stores     *)
(* only what the submaps before the active one do not hold, and those it   *)
(* leaves alone; that is what an insertion's filter, the optimistic pass   *)
(* and the loop have in common (WithPayloads, StoresKeep).  An append that *)
(* skips the filter keeps it for callers under the contract.  Counts are   *)
(* sound because a batch adds at most what it finds missing (Inserted,     *)
(* Admissible) and Erase counts what it took.  For one chunk to be enough  *)
(* the submap that is activated must have room for the rest of the batch:  *)
(* doubling a capacity reaches every target (GrownHasRoom), and needs a    *)
(* capacity that is not zero; hence the conjunct nextCapacity # 0.  CallOK *)
(* says what the insertion in progress was promised when it was called.    *)
(*                                                                         *)
(* DynamicMap implements GrowingMap: the submaps together are one map, and *)
(* each step of the synchronous operations is a step of it or changes      *)
(* nothing of it.  The refinement maps every key to the payload it has in  *)
(* its submap, of which the invariant leaves only one.  It holds while the *)
(* active submap has few tombstones (FewTombstones): erased slots are      *)
(* never counted, so enough of them leave an insertion that was found to   *)
(* have room without slots, and it drops keys.                             *)
(***************************************************************************)
EXTENDS DynamicMap, NaturalInduction, SequenceTheorems

--------------------------------------------------------------------------------
(* The doubling loop. *)

\* 0.6 of a capacity, less the reserve, grows with the capacity.
LEMMA UsableGrows ==
    ASSUME NEW c \in Nat, NEW d \in Nat, c <= d
    PROVE  Usable(c) \in Nat /\ Usable(c) <= Usable(d)
  <1>1. MinInsertSize \in Nat BY SizesAssumption DEF SizesAssumption
  <1>2. (c * 3) \div 5 \in Nat /\ (d * 3) \div 5 \in Nat /\ (c * 3) \div 5 <= (d * 3) \div 5
    OBVIOUS
  <1> QED BY <1>1, <1>2 DEF Usable

\* The loop ends with room for target.
LEMMA GrownHasRoom ==
    ASSUME nextCapacity \in Nat \ {0}, NEW target \in Nat
    PROVE  GrownCapacity(target) \in Nat \ {0} /\ Usable(GrownCapacity(target)) >= target
  <1> DEFINE n == Rounds(target)
             F == [i \in 1..n |->
                    [x \in Nat |-> IF Usable(x) < target THEN x * GROWTH_FACTOR ELSE x]]
             Loop(g) == [round \in 0..n |->
                           IF round = 0 THEN nextCapacity
                           ELSE LET cap == g[round - 1]
                                IN  IF Usable(cap) < target THEN cap * GROWTH_FACTOR ELSE cap]
             newCap == CHOOSE g : g = Loop(g)
  <1>1. MinInsertSize \in Nat /\ n \in Nat /\ n = 2 * (target + MinInsertSize)
    BY SizesAssumption DEF SizesAssumption, Rounds
  <1>2. StepsIn(Nat, n, F)
    BY DEF GROWTH_FACTOR, StepsIn
  <1>3. PICK g : Follows(g, Nat, n, nextCapacity, F)
    <2>1. nextCapacity \in Nat OBVIOUS
    <2> HIDE DEF F, n
    <2> QED BY <1>1, <1>2, <2>1, Recursion
  <1>4. /\ g \in [0..n -> Nat] /\ g[0] = nextCapacity
        /\ \A i \in 1..n : g[i] = F[i][g[i - 1]]
    BY <1>3 DEF Follows
  <1>5. g = Loop(g)
    <2>1. ASSUME NEW i \in 1..n
          PROVE  g[i] = IF Usable(g[i - 1]) < target THEN g[i - 1] * GROWTH_FACTOR ELSE g[i - 1]
      <3>1. i - 1 \in 0..n BY <1>1
      <3>2. g[i - 1] \in Nat BY <1>4, <3>1, Zenon
      <3>3. g[i] = F[i][g[i - 1]] BY <1>4, Zenon
      <3> QED BY <3>2, <3>3, Zenon
    <2> QED BY <1>1, <1>4, <2>1
  <1>6. newCap = Loop(newCap) BY <1>5
  <1>7. GrownCapacity(target) = newCap[n] BY DEF GrownCapacity
  <1> HIDE DEF newCap
  <1> DEFINE S == {i \in Nat : i <= n => /\ newCap[i] \in Nat
                                         /\ newCap[i] >= i + 1 \/ Usable(newCap[i]) >= target
                                         /\ newCap[i] # 0}
  <1>8. 0 \in S BY <1>1, <1>6
  <1>9. ASSUME NEW i \in Nat, i \in S PROVE i + 1 \in S
    <2> SUFFICES ASSUME i + 1 <= n
                 PROVE  /\ newCap[i + 1] \in Nat
                        /\ newCap[i + 1] >= i + 2 \/ Usable(newCap[i + 1]) >= target
                        /\ newCap[i + 1] # 0
      OBVIOUS
    <2>1. newCap[i + 1] = IF Usable(newCap[i]) < target THEN newCap[i] * GROWTH_FACTOR
                          ELSE newCap[i]
      BY <1>1, <1>6
    <2>2. /\ newCap[i] \in Nat
          /\ newCap[i] >= i + 1 \/ Usable(newCap[i]) >= target
          /\ newCap[i] # 0
      BY <1>1, <1>9
    <2>3. Usable(newCap[i]) \in Nat BY <2>2, UsableGrows
    <2> QED BY <2>1, <2>2, <2>3 DEF GROWTH_FACTOR
  <1>10. n \in S
    <2> HIDE DEF S
    <2> QED BY <1>1, <1>8, <1>9, Induction
  <1>11. CASE newCap[n] >= n + 1
    <2>1. newCap[n] \in Nat /\ n + 1 \in Nat BY <1>1, <1>10
    <2>2. ((n + 1) * 3) \div 5 >= target + MinInsertSize BY <1>1
    <2>3. Usable(n + 1) >= target BY <1>1, <2>2 DEF Usable
    <2> QED BY <1>7, <1>10, <1>11, <2>1, <2>3, UsableGrows
  <1> QED BY <1>1, <1>7, <1>10, <1>11

--------------------------------------------------------------------------------
(* Sums over sequences. *)

\* A sum is built up from zero, one element at a time.
LEMMA SumSteps ==
    ASSUME NEW f \in Seq(Nat)
    PROVE  \E g \in [0..Len(f) -> Nat] :
              /\ g[0] = 0 /\ \A i \in 1..Len(f) : g[i] = g[i - 1] + f[i]
              /\ Sum(f) = g[Len(f)]
  <1> DEFINE n == Len(f)
             F == [i \in 1..n |-> [x \in Nat |-> x + f[i]]]
             Adds(g) == [i \in 0..n |-> IF i = 0 THEN 0 ELSE g[i - 1] + f[i]]
             sum == CHOOSE g : g = Adds(g)
  <1>1. n \in Nat /\ \A i \in 1..n : f[i] \in Nat OBVIOUS
  <1>2. StepsIn(Nat, n, F) BY <1>1 DEF StepsIn
  <1>3. PICK g : Follows(g, Nat, n, 0, F)
    <2>1. 0 \in Nat OBVIOUS
    <2> HIDE DEF F, n
    <2> QED BY <1>1, <1>2, <2>1, Recursion
  <1>4. g \in [0..n -> Nat] /\ g[0] = 0 /\ \A i \in 1..n : g[i] = F[i][g[i - 1]]
    BY <1>3 DEF Follows
  <1>5. g = Adds(g)
    <2>1. ASSUME NEW i \in 1..n PROVE g[i] = g[i - 1] + f[i]
      <3>1. i - 1 \in 0..n BY <1>1
      <3>2. g[i - 1] \in Nat BY <1>4, <3>1, Zenon
      <3>3. g[i] = F[i][g[i - 1]] BY <1>4
      <3> QED BY <3>2, <3>3, Zenon
    <2> QED BY <1>1, <1>4, <2>1
  <1>6. sum = Adds(sum) BY <1>5
  <1>7. Sum(f) = sum[n] BY DEF Sum
  <1> HIDE DEF sum
  <1> DEFINE S == {i \in Nat : i <= n => sum[i] \in Nat}
  <1>8. 0 \in S BY <1>1, <1>6
  <1>9. ASSUME NEW i \in Nat, i \in S PROVE i + 1 \in S
    BY <1>1, <1>6, <1>9, SMTT(40)
  <1>10. Nat \subseteq S
    <2> HIDE DEF S
    <2> QED BY <1>8, <1>9, Induction
  <1>11. sum \in [0..n -> Nat] BY <1>1, <1>6, <1>10, SMTT(40)
  <1>12. sum[0] = 0 BY <1>1, <1>6
  <1>13. ASSUME NEW i \in 1..n PROVE sum[i] = sum[i - 1] + f[i] BY <1>1, <1>6, SMTT(40)
  <1> QED BY <1>7, <1>11, <1>12, <1>13, Zenon

LEMMA SumType ==
    ASSUME NEW f, f \in Seq(Nat)
    PROVE  Sum(f) \in Nat
  <1>1. Len(f) \in Nat OBVIOUS
  <1>2. \E g : g \in [0..Len(f) -> Nat] /\ Sum(f) = g[Len(f)] BY SumSteps
  <1> QED BY <1>1, <1>2

LEMMA SplitNatural ==
    ASSUME NEW a \in Nat, NEW d \in Nat, d <= a
    PROVE  a - d \in Nat /\ a = d + (a - d)
  OBVIOUS

LEMMA Regroup ==
    ASSUME NEW u \in Nat, NEW v \in Nat, NEW x \in Nat, NEW y \in Nat
    PROVE  (u + v) + (x + y) = (u + x) + (v + y)
  OBVIOUS

\* Sums add up element by element.
LEMMA SumAdds ==
    ASSUME NEW f, NEW g, NEW h, {f, g, h} \subseteq Seq(Nat),
           Len(g) = Len(f), Len(h) = Len(f), \A i \in 1..Len(f) : h[i] = f[i] + g[i]
    PROVE  Sum(f) \in Nat /\ Sum(g) \in Nat /\ Sum(h) = Sum(f) + Sum(g)
  <1> DEFINE n == Len(f)
  <1>1. PICK a : /\ a \in [0..n -> Nat] /\ a[0] = 0
                  /\ \A i \in 1..n : a[i] = a[i - 1] + f[i]
                  /\ Sum(f) = a[n]
    BY SumSteps
  <1>2. PICK b : /\ b \in [0..n -> Nat] /\ b[0] = 0
                  /\ \A i \in 1..n : b[i] = b[i - 1] + g[i]
                  /\ Sum(g) = b[n]
    BY SumSteps
  <1>3. PICK c : /\ c \in [0..n -> Nat] /\ c[0] = 0
                  /\ \A i \in 1..n : c[i] = c[i - 1] + h[i]
                  /\ Sum(h) = c[n]
    BY SumSteps
  <1>4. n \in Nat /\ \A i \in 1..n : f[i] \in Nat /\ g[i] \in Nat BY SMTT(40)
  <1>5. ASSUME NEW i \in Nat, i + 1 <= n, c[i] = a[i] + b[i]
        PROVE  c[i + 1] = a[i + 1] + b[i + 1]
    <2>1. i + 1 \in 1..n /\ i \in 0..n /\ (i + 1) - 1 = i BY <1>4, <1>5
    <2>2. a[i] \in Nat /\ b[i] \in Nat BY <1>1, <1>2, <2>1
    <2>3. a[i + 1] = a[i] + f[i + 1] /\ b[i + 1] = b[i] + g[i + 1] BY <1>1, <1>2, <2>1
    <2>4. c[i + 1] = c[i] + h[i + 1] /\ h[i + 1] = f[i + 1] + g[i + 1] BY <1>3, <2>1
    <2>5. f[i + 1] \in Nat /\ g[i + 1] \in Nat BY <1>4, <2>1
    <2>6. (a[i] + b[i]) + (f[i + 1] + g[i + 1]) = (a[i] + f[i + 1]) + (b[i] + g[i + 1])
      BY ONLY <2>2, <2>5, Regroup
    <2>7. c[i + 1] = (a[i] + b[i]) + (f[i + 1] + g[i + 1]) BY <1>5, <2>4, Zenon
    <2> QED BY ONLY <2>3, <2>6, <2>7
  <1> DEFINE S == {i \in Nat : i <= n => c[i] = a[i] + b[i]}
  <1>6. 0 \in S /\ \A i \in Nat : i \in S => i + 1 \in S BY ONLY <1>1, <1>2, <1>3, <1>4, <1>5
  <1>7. n \in S
    <2> HIDE DEF S
    <2> QED BY <1>4, <1>6, Induction
  <1>8. c[n] = a[n] + b[n] BY <1>7
  <1>9. a[n] \in Nat /\ b[n] \in Nat BY <1>1, <1>2, <1>4
  <1>10. Sum(f) = a[n] /\ Sum(g) = b[n] /\ Sum(h) = c[n] BY <1>1, <1>2, <1>3
  <1> QED BY ONLY <1>8, <1>9, <1>10

\* Zeros add up to zero.
LEMMA SumZeros ==
    ASSUME NEW f, f \in Seq(Nat), \A i \in 1..Len(f) : f[i] = 0
    PROVE  Sum(f) = 0
  <1> DEFINE n == Len(f)
  <1>1. PICK a : /\ a \in [0..n -> Nat] /\ a[0] = 0
                 /\ \A i \in 1..n : a[i] = a[i - 1] + f[i]
                 /\ Sum(f) = a[n]
    BY SumSteps
  <1>2. n \in Nat OBVIOUS
  <1>3. ASSUME NEW i \in Nat, i + 1 <= n, a[i] = 0 PROVE a[i + 1] = 0
    <2>1. i + 1 \in 1..n /\ (i + 1) - 1 = i BY <1>2, <1>3
    <2>2. a[i + 1] = a[i] + f[i + 1] /\ f[i + 1] = 0 BY <1>1, <2>1
    <2> QED BY ONLY <1>3, <2>2
  <1> DEFINE S == {i \in Nat : i <= n => a[i] = 0}
  <1>4. 0 \in S /\ \A i \in Nat : i \in S => i + 1 \in S BY <1>1, <1>2, <1>3
  <1>5. n \in S
    <2> HIDE DEF S
    <2> QED BY <1>2, <1>4, Induction
  <1> QED BY <1>1, <1>2, <1>5

\* A sum grows by what one of its elements grows by.
LEMMA SumChanges ==
    ASSUME NEW f, NEW h, {f, h} \subseteq Seq(Nat), Len(h) = Len(f),
           NEW e \in 1..Len(f), NEW d \in Nat, h[e] = f[e] + d,
           \A i \in 1..Len(f) : i # e => h[i] = f[i]
    PROVE  Sum(f) \in Nat /\ Sum(h) = Sum(f) + d
  <1> DEFINE n == Len(f)
  <1>1. PICK a : /\ a \in [0..n -> Nat] /\ a[0] = 0
                 /\ \A i \in 1..n : a[i] = a[i - 1] + f[i]
                 /\ Sum(f) = a[n]
    BY SumSteps
  <1>2. PICK c : /\ c \in [0..n -> Nat] /\ c[0] = 0
                 /\ \A i \in 1..n : c[i] = c[i - 1] + h[i]
                 /\ Sum(h) = c[n]
    BY SumSteps
  <1>3. n \in Nat /\ (\A i \in 1..n : f[i] \in Nat) /\ e \in 1..n BY SMTT(40)
  <1>4. ASSUME NEW i \in Nat, i + 1 <= n, i < e => c[i] = a[i], i >= e => c[i] = a[i] + d
        PROVE  (i + 1 < e => c[i + 1] = a[i + 1]) /\ (i + 1 >= e => c[i + 1] = a[i + 1] + d)
    <2>1. i + 1 \in 1..n /\ i \in 0..n /\ (i + 1) - 1 = i BY <1>3, <1>4
    <2>2. a[i] \in Nat /\ f[i + 1] \in Nat BY <1>1, <1>3, <2>1
    <2>3. a[i + 1] = a[i] + f[i + 1] /\ c[i + 1] = c[i] + h[i + 1] BY <1>1, <1>2, <2>1
    <2>4. CASE i + 1 = e
      <3>1. h[i + 1] = f[i + 1] + d BY <2>4
      <3>2. i < e /\ i + 1 >= e /\ ~(i + 1 < e) BY <1>3, <2>4
      <3>3. c[i] = a[i] BY <1>4, <3>2
      <3> QED BY ONLY <2>2, <2>3, <3>1, <3>2, <3>3, d \in Nat
    <2>5. CASE i + 1 # e
      <3>1. h[i + 1] = f[i + 1] BY <1>3, <2>1, <2>5
      <3> QED BY ONLY <1>4, <1>3, <2>2, <2>3, <2>5, <3>1, i \in Nat, d \in Nat
    <2> QED BY <2>4, <2>5
  <1> DEFINE S == {i \in Nat : i <= n => /\ i < e => c[i] = a[i]
                                         /\ i >= e => c[i] = a[i] + d}
  <1>5. 0 \in S
    <2>1. e > 0 /\ a[0] = c[0] BY <1>1, <1>2
    <2> QED BY <2>1
  <1>6. \A i \in Nat : i \in S => i + 1 \in S BY ONLY <1>3, <1>4
  <1>7. n \in S
    <2> HIDE DEF S
    <2> QED BY <1>3, <1>5, <1>6, Induction
  <1>8. c[n] = a[n] + d BY <1>3, <1>7
  <1>9. a[n] \in Nat
    <2>1. n \in 0..n BY <1>3
    <2> QED BY ONLY <1>1, <2>1
  <1>10. Sum(f) = a[n] /\ Sum(h) = c[n] BY <1>1, <1>2
  <1> QED BY ONLY <1>8, <1>9, <1>10

\* A zero more leaves a sum as it is.
LEMMA SumExtends ==
    ASSUME NEW f, NEW h, {f, h} \subseteq Seq(Nat), Len(h) = Len(f) + 1,
           h[Len(f) + 1] = 0, \A i \in 1..Len(f) : h[i] = f[i]
    PROVE  Sum(h) = Sum(f)
  <1> DEFINE n == Len(f)
  <1>1. PICK a : /\ a \in [0..n -> Nat] /\ a[0] = 0
                 /\ \A i \in 1..n : a[i] = a[i - 1] + f[i]
                 /\ Sum(f) = a[n]
    BY SumSteps
  <1>2. PICK c : /\ c \in [0..(n + 1) -> Nat] /\ c[0] = 0
                 /\ \A i \in 1..(n + 1) : c[i] = c[i - 1] + h[i]
                 /\ Sum(h) = c[n + 1]
    BY SumSteps
  <1>3. n \in Nat OBVIOUS
  <1>4. ASSUME NEW i \in Nat, i + 1 <= n, c[i] = a[i] PROVE c[i + 1] = a[i + 1]
    <2>1. i + 1 \in 1..n /\ i + 1 \in 1..(n + 1) /\ (i + 1) - 1 = i BY <1>3, <1>4
    <2>2. a[i + 1] = a[i] + f[i + 1] /\ c[i + 1] = c[i] + h[i + 1] BY <1>1, <1>2, <2>1
    <2>3. h[i + 1] = f[i + 1] BY <2>1
    <2> QED BY ONLY <1>4, <2>2, <2>3
  <1> DEFINE S == {i \in Nat : i <= n => c[i] = a[i]}
  <1>5. 0 \in S /\ \A i \in Nat : i \in S => i + 1 \in S BY <1>1, <1>2, <1>3, <1>4
  <1>6. n \in S
    <2> HIDE DEF S
    <2> QED BY <1>3, <1>5, Induction
  <1>7. c[n + 1] = c[n] + h[n + 1] /\ h[n + 1] = 0
    <2>1. n + 1 \in 1..(n + 1) /\ (n + 1) - 1 = n BY <1>3
    <2> QED BY <1>2, <2>1
  <1>8. c[n] = a[n] /\ a[n] \in Nat BY <1>1, <1>3, <1>6
  <1>9. Sum(f) = a[n] /\ Sum(h) = c[n + 1] BY <1>1, <1>2
  <1> QED BY ONLY <1>7, <1>8, <1>9

--------------------------------------------------------------------------------
(* Batches and what is stored of them. *)

Elements == [key : Key, val : Val]
Maps == UNION {[ks -> Val] : ks \in SUBSET Key}
Submap == [cap : Nat \ {0}, dead : Nat, count : Nat, map : Maps]

\* A batch has at most as many keys as elements.
LEMMA KeysOfBatch ==
    ASSUME NEW b, b \in Seq(Elements)
    PROVE  /\ Len(b) \in Nat /\ Keys(b) \subseteq Key /\ IsFiniteSet(Keys(b))
           /\ Cardinality(Keys(b)) \in Nat /\ Cardinality(Keys(b)) <= Len(b)
  <1>1. Len(b) \in Nat /\ DOMAIN b = 1..Len(b) /\ \A i \in 1..Len(b) : b[i] \in Elements
    OBVIOUS
  <1>2. IsFiniteSet(1..Len(b)) /\ Cardinality(1..Len(b)) = Len(b)
    <2>1. Len(b) \in Nat BY <1>1
    <2> QED BY <2>1, FS_Interval, SMTT(40)
  <1> DEFINE f == [i \in 1..Len(b) |-> b[i].key]
  <1>3. f \in Surjection(1..Len(b), Keys(b)) BY <1>1 DEF Surjection, Keys
  <1>4. IsFiniteSet(Keys(b)) /\ Cardinality(Keys(b)) <= Cardinality(1..Len(b))
    <2> HIDE DEF f
    <2> QED BY <1>2, <1>3, FS_Surjection
  <1>5. Keys(b) \subseteq Key BY <1>1 DEF Keys, Elements
  <1>6. Cardinality(Keys(b)) \in Nat BY <1>4, FS_CardinalityType
  <1> QED BY <1>1, <1>2, <1>4, <1>5, <1>6

\* The same of a batch of keys.
LEMMA KeysAsked ==
    ASSUME NEW ks \in KeyBatches
    PROVE  {ks[i] : i \in DOMAIN ks} \subseteq Key
  <1>1. PICK n \in 1..MaxBatch : ks \in [1..n -> Key] BY DEF KeyBatches
  <1> QED BY <1>1

\* What the submaps are made of.
LEMMA SubmapParts ==
    ASSUME TypeOK
    PROVE  /\ Len(submaps) \in Nat \ {0} /\ Active \in Index
           /\ \A s \in Index :
                 /\ submaps[s] \in Submap /\ submaps[s].cap \in Nat \ {0}
                 /\ submaps[s].dead \in Nat /\ submaps[s].count \in Nat
                 /\ Live(s) \subseteq Key /\ submaps[s].map \in [Live(s) -> Val]
                 /\ IsFiniteSet(Live(s)) /\ Cardinality(Live(s)) \in Nat
  <1>1. submaps \in Seq(Submap) /\ submaps # <<>> BY DEF TypeOK, Submap, Maps
  <1>2. Len(submaps) \in Nat \ {0} /\ Active \in Index BY <1>1 DEF Active, Index
  <1>3. ASSUME NEW s \in Index
        PROVE  /\ submaps[s] \in Submap /\ submaps[s].cap \in Nat \ {0}
               /\ submaps[s].dead \in Nat /\ submaps[s].count \in Nat
               /\ submaps[s].map \in Maps
    <2>1. submaps[s] \in Submap BY <1>1 DEF Index
    <2> QED BY <2>1 DEF Submap
  <1>4. ASSUME NEW s \in Index
        PROVE  Live(s) \subseteq Key /\ submaps[s].map \in [Live(s) -> Val]
    <2>1. PICK ks \in SUBSET Key : submaps[s].map \in [ks -> Val] BY <1>3 DEF Maps
    <2>2. Live(s) = ks BY <2>1 DEF Live
    <2> QED BY <2>1, <2>2
  <1>5. ASSUME NEW s \in Index
        PROVE  IsFiniteSet(Live(s)) /\ Cardinality(Live(s)) \in Nat
    BY <1>4, FS_Subset, FS_CardinalityType, KeyAssumption DEF KeyAssumption
  <1> QED BY <1>2, <1>3, <1>4, <1>5

\* A submap with more payloads written is a map still.
LEMMA WithPayloadsType ==
    ASSUME TypeOK, NEW s \in Index, NEW set, set \subseteq Key,
           NEW win, \A k \in set : win[k] \in Val
    PROVE  /\ WithPayloads(s, set, win) \in Maps
           /\ DOMAIN WithPayloads(s, set, win) = Live(s) \cup set
  <1>1. Live(s) \subseteq Key /\ submaps[s].map \in [Live(s) -> Val] BY SubmapParts
  <1>2. WithPayloads(s, set, win) \in [Live(s) \cup set -> Val]
    BY <1>1 DEF WithPayloads
  <1>3. Live(s) \cup set \in SUBSET Key BY <1>1
  <1> QED BY <1>2, <1>3 DEF Maps

\* Of a chunk, as many elements are counted as keys are stored, or more, and at
\* most as many as there are.
LEMMA InsertedBounds ==
    ASSUME NEW b, b \in Seq(Elements), NEW new \in SUBSET (Keys(b) \ Masked(b))
    PROVE  /\ InsertedOf(b, new) \in Nat
           /\ Cardinality(new) <= InsertedOf(b, new) /\ InsertedOf(b, new) <= Len(b)
  <1> DEFINE C == Candidates(b)
             N == NotInserted(b, new)
             F == {i \in C : b[i].key \in new /\ ~\E j \in 1..(i - 1) : b[j].key = b[i].key}
             key == [i \in F |-> b[i].key]
  <1>1. Len(b) \in Nat /\ DOMAIN b = 1..Len(b) OBVIOUS
  <1>2. IsFiniteSet(1..Len(b)) /\ Cardinality(1..Len(b)) = Len(b) BY <1>1, FS_Interval, SMTT(40)
  <1>3. C \in SUBSET (1..Len(b)) /\ N \in SUBSET C /\ F = C \ N
    BY <1>1 DEF Candidates, NotInserted
  <1>4. IsFiniteSet(C) /\ Cardinality(C) <= Len(b) BY <1>2, <1>3, FS_Subset
  <1>5. IsFiniteSet(N) /\ IsFiniteSet(F) BY <1>3, <1>4, FS_Subset
  <1>6. Cardinality(F) = Cardinality(C) - Cardinality(N)
    <2>1. C \cap N = N BY <1>3
    <2> QED BY <1>3, <1>4, <2>1, FS_Difference
  <1>7. Cardinality(F) \in Nat /\ Cardinality(C) \in Nat /\ Cardinality(F) <= Cardinality(C)
    BY <1>3, <1>4, <1>5, FS_Subset, FS_CardinalityType
  <1>8. key \in Surjection(F, new)
    <2>1. key \in [F -> new] OBVIOUS
    <2>2. ASSUME NEW k \in new PROVE \E i \in F : key[i] = k
      <3> DEFINE S == {i \in 1..Len(b) : b[i].key = k}
      <3>1. S \in SUBSET Nat /\ S # {} BY <1>1 DEF Keys
      <3>2. PICK i \in S : \A m \in S : i <= m
        <4> HIDE DEF S
        <4> QED BY <3>1, LeastNatural
      <3>3. i \in 1..Len(b) /\ b[i].key = k BY <3>2
      <3>4. i \in C BY <1>1, <3>3 DEF Candidates
      <3>5. ASSUME NEW j \in 1..(i - 1), b[j].key = b[i].key PROVE FALSE
        <4>1. j \in S /\ ~(i <= j) BY <1>1, <3>3, <3>5
        <4> QED BY <3>2, <4>1
      <3> QED BY <3>3, <3>4, <3>5
    <2> HIDE DEF F, key
    <2> QED BY <2>1, <2>2 DEF Surjection
  <1>9. Cardinality(new) <= Cardinality(F)
    <2> HIDE DEF F, key
    <2> QED BY <1>5, <1>8, FS_Surjection
  <1>10. InsertedOf(b, new) = Cardinality(F) BY <1>6 DEF InsertedOf
  <1> HIDE DEF F, C, N, key
  <1> QED BY <1>1, <1>4, <1>7, <1>9, <1>10

--------------------------------------------------------------------------------
(* The inductive invariant, and what the two ways to change submaps do to it. *)

\* A submap is as large as asked for.
ExtentsServe == \A c \in Nat : MakeValidExtent(c) \in Nat \ {0} /\ MakeValidExtent(c) >= c

\* An insertion has something to insert, and its callers keep to the contract
\* until it returns.
CallOK ==
    call.op \in InsertOps =>
        /\ call.batch # <<>> /\ call.total = 0
        /\ contract => call.op # "async" /\ (call.op = "append" => AllNew(call.batch))

DynInv ==
    /\ TypeOK /\ nextCapacity # 0
    /\ KeyInOneSubmap /\ CountsAreSound /\ OneChunk
    /\ CallOK

Counts == [s \in Index |-> submaps[s].count]

LEMMA CountsType ==
    ASSUME TypeOK
    PROVE  Counts \in Seq(Nat) /\ Len(Counts) = Len(submaps)
  <1>1. Len(submaps) \in Nat /\ \A s \in Index : submaps[s].count \in Nat BY SubmapParts
  <1>2. Counts \in [1..Len(submaps) -> Nat] BY <1>1 DEF Counts, Index
  <1> QED BY <1>1, <1>2

\* A new submap is empty.
LEMMA NewSubmapType ==
    ASSUME ExtentsServe, NEW cap \in Nat
    PROVE  /\ NewSubmap(cap) \in Submap /\ NewSubmap(cap).count = 0
           /\ NewSubmap(cap).cap = MakeValidExtent(cap) /\ DOMAIN NewSubmap(cap).map = {}
  <1>1. MakeValidExtent(cap) \in Nat \ {0} BY DEF ExtentsServe
  <1>2. DOMAIN <<>> = {} OBVIOUS
  <1>3. <<>> \in [{} -> Val] OBVIOUS
  <1> QED BY <1>1, <1>2, <1>3 DEF NewSubmap, Submap, Maps

\* The active submap takes the keys of new, and counts m for them.
Stores(new, m) ==
    /\ submaps' \in Seq(Submap) /\ Len(submaps') = Len(submaps)
    /\ \A s \in Index : submaps'[s].cap = submaps[s].cap
    /\ \A s \in Index \ {Active} : /\ DOMAIN submaps'[s].map = Live(s)
                                   /\ submaps'[s].count = submaps[s].count
    /\ DOMAIN submaps'[Active].map = Live(Active) \cup new
    /\ submaps'[Active].count = submaps[Active].count + m
    /\ size' = size + m
    /\ contract' = contract

LEMMA StoresKeep ==
    ASSUME DynInv, NEW new, IsFiniteSet(new), NEW m \in Nat, Stores(new, m),
           Cardinality(new) <= m, m <= ActiveRoom,
           contract => \A s \in Index \ {Active} : new \cap Live(s) = {}
    PROVE  KeyInOneSubmap' /\ CountsAreSound'
  <1>1. /\ TypeOK /\ KeyInOneSubmap /\ CountsAreSound
        /\ Len(submaps) \in Nat /\ Active \in Index /\ Index' = Index /\ Active' = Active
    BY SubmapParts DEF DynInv, Stores, Index, Active
  <1>2. \A s \in Index : Live(s)' = Live(s) \cup IF s = Active THEN new ELSE {}
    <2> SUFFICES ASSUME NEW s \in Index
                 PROVE  DOMAIN submaps'[s].map = Live(s) \cup IF s = Active THEN new ELSE {}
      BY DEF Live
    <2> QED BY DEF Stores
  <1>3. KeyInOneSubmap'
    <2> SUFFICES ASSUME contract, NEW s \in Index, NEW t \in Index, s # t
                 PROVE  Live(s)' \cap Live(t)' = {}
      BY <1>1 DEF KeyInOneSubmap, Stores
    <2> QED BY <1>1, <1>2 DEF KeyInOneSubmap
  <1>4. ASSUME NEW s \in Index
        PROVE  /\ Cardinality(Live(s)') <= submaps'[s].count
               /\ submaps'[s].count <= Usable(submaps'[s].cap)
    <2>1. /\ IsFiniteSet(Live(s)) /\ Cardinality(Live(s)) \in Nat /\ submaps[s].count \in Nat
          /\ submaps[s].cap \in Nat
      BY <1>1, SubmapParts
    <2>2. /\ Cardinality(Live(s)) <= submaps[s].count
          /\ submaps[s].count <= Usable(submaps[s].cap)
      BY <1>1 DEF CountsAreSound
    <2>3. CASE s = Active
      <3>1. /\ submaps'[s].cap = submaps[s].cap
            /\ submaps'[s].count = submaps[s].count + m
        BY <2>3 DEF Stores
      <3>2. /\ Cardinality(new) \in Nat
            /\ Cardinality(Live(s) \cap new) \in Nat
            /\ Cardinality(Live(s) \cup new)
                 = Cardinality(Live(s)) + Cardinality(new) - Cardinality(Live(s) \cap new)
        BY <2>1, FS_CardinalityType, FS_Union, FS_Intersection
      <3>3. Cardinality(Live(s)') <= submaps[s].count + m
        <4>1. Live(s)' = Live(s) \cup new BY <1>2, <2>3
        <4> QED BY <2>1, <2>2, <3>2, <4>1
      <3>4. submaps[s].count + m <= Usable(submaps[s].cap)
        <4>1. Usable(submaps[s].cap) \in Nat BY <2>1, UsableGrows
        <4>2. m <= IF Usable(submaps[s].cap) > submaps[s].count
                   THEN Usable(submaps[s].cap) - submaps[s].count ELSE 0
          BY <2>3 DEF ActiveRoom
        <4> QED BY <2>1, <2>2, <4>1, <4>2
      <3> QED BY <3>1, <3>3, <3>4
    <2>4. CASE s # Active
      BY <1>2, <2>2, <2>4 DEF Stores
    <2> QED BY <2>3, <2>4
  <1>5. size' = Sum([s \in Index' |-> submaps'[s].count])
    <2> DEFINE h == [s \in Index |-> submaps'[s].count]
    <2>1. Counts \in Seq(Nat) /\ Len(Counts) = Len(submaps) BY <1>1, CountsType
    <2>2. h \in Seq(Nat) /\ Len(h) = Len(submaps)
      <3>1. ASSUME NEW s \in Index PROVE submaps'[s].count \in Nat
        <4>1. submaps'[s] \in Submap BY DEF Stores, Index
        <4> QED BY <4>1 DEF Submap
      <3>2. h \in [1..Len(submaps) -> Nat] BY <3>1 DEF Index
      <3> QED BY <1>1, <3>2
    <2>3. h[Active] = Counts[Active] + m BY <1>1 DEF Stores, Counts
    <2>4. \A s \in 1..Len(Counts) : s # Active => h[s] = Counts[s]
      BY <1>1, <2>1 DEF Stores, Counts, Index
    <2>5. Active \in 1..Len(Counts) BY <1>1, <2>1 DEF Index
    <2>6. Sum(h) = Sum(Counts) + m
      <3> HIDE DEF h
      <3> QED BY <2>1, <2>2, <2>3, <2>4, <2>5, SumChanges
    <2>7. size = Sum(Counts) BY <1>1 DEF CountsAreSound, Counts
    <2> QED BY <1>1, <2>6, <2>7 DEF Stores
  <1> QED BY <1>1, <1>3, <1>4, <1>5 DEF CountsAreSound

\* The submaps get one more.
LEMMA AppendKeeps ==
    ASSUME DynInv, ExtentsServe, NEW cap \in Nat \ {0},
           submaps' = Append(submaps, NewSubmap(cap)), size' = size, contract' = contract
    PROVE  /\ submaps' \in Seq(Submap) /\ submaps' # <<>>
           /\ KeyInOneSubmap' /\ CountsAreSound'
           /\ Len(submaps') = Len(submaps) + 1
           /\ submaps'[Len(submaps) + 1] = NewSubmap(cap)
           /\ \A b : AllNew(b) => AllNew(b)'
  <1>1. /\ TypeOK /\ KeyInOneSubmap /\ CountsAreSound
        /\ Len(submaps) \in Nat \ {0} /\ submaps \in Seq(Submap)
    BY SubmapParts DEF DynInv, TypeOK, Submap, Maps
  <1>2. /\ NewSubmap(cap) \in Submap /\ NewSubmap(cap).count = 0
        /\ NewSubmap(cap).cap = MakeValidExtent(cap) /\ DOMAIN NewSubmap(cap).map = {}
    BY NewSubmapType
  <1>3. /\ submaps' \in Seq(Submap) /\ Len(submaps') = Len(submaps) + 1 /\ submaps' # <<>>
        /\ \A s \in Index : submaps'[s] = submaps[s]
        /\ submaps'[Len(submaps) + 1] = NewSubmap(cap)
    BY <1>1, <1>2 DEF Index
  <1>4. Index' = Index \cup {Len(submaps) + 1}
    BY <1>1, <1>3 DEF Index
  <1>5. \A s \in Index' : Live(s)' = IF s \in Index THEN Live(s) ELSE {}
    BY <1>2, <1>3, <1>4 DEF Live
  <1>6. KeyInOneSubmap'
    <2> SUFFICES ASSUME contract, NEW s \in Index', NEW t \in Index', s # t
                 PROVE  Live(s)' \cap Live(t)' = {}
      BY DEF KeyInOneSubmap
    <2> QED BY <1>1, <1>4, <1>5 DEF KeyInOneSubmap
  <1>7. ASSUME NEW s \in Index'
        PROVE  /\ Cardinality(Live(s)') <= submaps'[s].count
               /\ submaps'[s].count <= Usable(submaps'[s].cap)
    <2>1. CASE s \in Index BY <1>1, <1>3, <1>5, <2>1 DEF CountsAreSound
    <2>2. CASE s = Len(submaps) + 1
      <3>1. Cardinality(Live(s)') = 0
        <4>1. s \notin Index BY <1>1, <2>2 DEF Index
        <4> QED BY <1>5, <4>1, FS_EmptySet
      <3>2. Usable(submaps'[s].cap) \in Nat
        BY <1>2, <1>3, <2>2, UsableGrows DEF ExtentsServe
      <3> QED BY <1>2, <1>3, <2>2, <3>1, <3>2
    <2> QED BY <1>4, <2>1, <2>2
  <1>8. size' = Sum([s \in Index' |-> submaps'[s].count])
    <2> DEFINE h == [s \in Index' |-> submaps'[s].count]
    <2>1. Counts \in Seq(Nat) /\ Len(Counts) = Len(submaps) BY <1>1, CountsType
    <2>2. h \in Seq(Nat) /\ Len(h) = Len(Counts) + 1
      <3>1. ASSUME NEW s \in Index' PROVE submaps'[s].count \in Nat
        <4>1. submaps'[s] \in Submap BY <1>3 DEF Index
        <4> QED BY <4>1 DEF Submap
      <3>2. h \in [1..Len(submaps') -> Nat] BY <3>1 DEF Index
      <3> QED BY <1>1, <1>3, <2>1, <3>2
    <2>3. h[Len(Counts) + 1] = 0 BY <1>2, <1>3, <1>4, <2>1
    <2>4. \A s \in 1..Len(Counts) : h[s] = Counts[s]
      BY <1>3, <1>4, <2>1 DEF Counts, Index
    <2>5. Sum(h) = Sum(Counts)
      <3> HIDE DEF h
      <3> QED BY <2>1, <2>2, <2>3, <2>4, SumExtends
    <2>6. size = Sum(Counts) BY <1>1 DEF CountsAreSound, Counts
    <2> QED BY <2>5, <2>6
  <1>9. ASSUME NEW b, AllNew(b) PROVE AllNew(b)'
    <2>1. Cardinality(Keys(b)) = Len(b) BY <1>9 DEF AllNew
    <2>2. ASSUME NEW s \in Index' PROVE Keys(b) \cap Live(s)' = {} BY <1>5, <1>9 DEF AllNew
    <2> QED BY <2>1, <2>2 DEF AllNew, Keys
  <1> QED BY <1>3, <1>6, <1>7, <1>8, <1>9 DEF CountsAreSound

--------------------------------------------------------------------------------
(* The steps of an insertion. *)

CallType == [op : Calls \cup {"none"}, batch : Seq(Elements),
             offset : Nat, total : Nat, idx : Nat \ {0}, remaining : Nat]

LEMMA NoCallType ==
    /\ NoCall \in CallType /\ NoCall.offset <= Len(NoCall.batch)
    /\ NoCall.op \notin InsertOps
  <1>1. <<>> \in Seq(Elements) /\ Len(<<>>) = 0 OBVIOUS
  <1> QED BY <1>1 DEF NoCall, CallType, InsertOps

LEMMA SizesType ==
    ASSUME DynInv
    PROVE  /\ nextSubmap \in Nat /\ nextCapacity \in Nat \ {0} /\ size \in Nat
           /\ call \in CallType /\ call.offset <= Len(call.batch)
           /\ call.batch \in Seq(Elements)
  BY DEF DynInv, TypeOK, CallType, Elements

\* What is built has room for what it is built for.
LEMMA GrowTargetServes ==
    ASSUME DynInv, NEW n \in Nat
    PROVE  /\ GrowTarget(n) \in Nat /\ GrowTarget(n) >= n
           /\ GrownCapacity(GrowTarget(n)) \in Nat \ {0}
           /\ Usable(GrownCapacity(GrowTarget(n))) >= GrowTarget(n)
  <1>1. size \in Nat /\ nextCapacity \in Nat \ {0} BY SizesType
  <1>2. GrowTarget(n) \in Nat /\ GrowTarget(n) >= n
    BY <1>1 DEF GrowTarget, GROWTH_FACTOR
  <1> QED BY <1>1, <1>2, GrownHasRoom

LEMMA PrepareType ==
    ASSUME DynInv, NEW n \in Nat, StartPrepareNext(n)
    PROVE  nextSubmap' \in Nat
  BY SizesType, GrowTargetServes DEF StartPrepareNext

\* Growing for n elements makes room for them.
LEMMA ActivateServes ==
    ASSUME DynInv, ExtentsServe, NEW n \in Nat, ActivateNext(GrowTarget(n)),
           size' = size, contract' = contract
    PROVE  /\ submaps' \in Seq(Submap) /\ submaps' # <<>>
           /\ KeyInOneSubmap' /\ CountsAreSound'
           /\ \A b : AllNew(b) => AllNew(b)'
           /\ nextSubmap' \in Nat /\ nextCapacity' \in Nat \ {0}
           /\ ActiveRoom' >= n
  <1> DEFINE target == GrowTarget(n)
             cap == IF Prebuilt(target) THEN nextSubmap ELSE GrownCapacity(target)
  <1>1. target \in Nat /\ target >= n BY GrowTargetServes
  <1>2. cap \in Nat \ {0} /\ Usable(cap) >= target
    BY SizesType, GrowTargetServes DEF Prebuilt
  <1>3. /\ submaps' = Append(submaps, NewSubmap(cap))
        /\ nextCapacity' = cap * GROWTH_FACTOR /\ nextSubmap' = 0
    BY DEF ActivateNext
  <1> HIDE DEF target, cap
  <1>4. /\ submaps' \in Seq(Submap) /\ submaps' # <<>>
        /\ KeyInOneSubmap' /\ CountsAreSound'
        /\ Len(submaps') = Len(submaps) + 1
        /\ submaps'[Len(submaps) + 1] = NewSubmap(cap)
        /\ \A b : AllNew(b) => AllNew(b)'
    BY <1>2, <1>3, AppendKeeps
  <1>5. ActiveRoom' >= n
    <2>1. /\ submaps'[Len(submaps')].cap = MakeValidExtent(cap)
          /\ submaps'[Len(submaps')].count = 0
      BY <1>2, <1>4, NewSubmapType
    <2>2. MakeValidExtent(cap) \in Nat /\ cap <= MakeValidExtent(cap)
      BY <1>2 DEF ExtentsServe
    <2>3. /\ Usable(MakeValidExtent(cap)) \in Nat
          /\ Usable(MakeValidExtent(cap)) >= Usable(cap) /\ Usable(cap) \in Nat
      BY <1>2, <2>2, UsableGrows
    <2>4. ActiveRoom' = IF Usable(MakeValidExtent(cap)) > 0
                        THEN Usable(MakeValidExtent(cap)) - 0 ELSE 0
      BY <2>1 DEF ActiveRoom, Active, Usable
    <2> QED BY <1>1, <1>2, <2>3, <2>4
  <1> QED BY <1>2, <1>3, <1>4, <1>5 DEF GROWTH_FACTOR

\* What does not touch the submaps.
LEMMA Untouched ==
    ASSUME DynInv, UNCHANGED <<submaps, size, contract>>
    PROVE  /\ submaps' \in Seq(Submap) /\ submaps' # <<>>
           /\ KeyInOneSubmap' /\ CountsAreSound' /\ ActiveRoom' = ActiveRoom
           /\ \A b : AllNew(b) => AllNew(b)'
  BY DEF DynInv, TypeOK, Submap, Maps, KeyInOneSubmap, CountsAreSound, Index, Live, ActiveRoom,
         Active, AllNew, Keys, Usable

\* The parts of the invariant when no insertion is under way.
LEMMA OutsideInsertions ==
    ASSUME call'.op \notin InsertOps
    PROVE  OneChunk' /\ CallOK'
  BY DEF OneChunk, CallOK

LEMMA BeginKeeps ==
    ASSUME DynInv, ExtentsServe, NEW op \in InsertOps \cap Calls, NEW b \in Batches,
           Begin(op, b)
    PROVE  DynInv'
  <1>1. b \in Seq(Elements) /\ b # <<>> /\ Len(b) \in Nat
    <2>1. PICK n \in 1..MaxBatch : b \in [1..n -> Elements] BY DEF Batches, Elements
    <2>2. n \in Nat /\ n > 0 BY SizesAssumption DEF SizesAssumption
    <2>3. b \in Seq(Elements) /\ Len(b) = n BY <2>1, <2>2
    <2>4. b # <<>> BY <2>2, <2>3
    <2> QED BY <2>2, <2>3, <2>4
  <1>2. /\ submaps' \in Seq(Submap) /\ submaps' # <<>>
        /\ KeyInOneSubmap' /\ CountsAreSound'
        /\ AllNew(b) => AllNew(b)'
        /\ nextSubmap' \in Nat /\ nextCapacity' \in Nat \ {0}
        /\ ActiveRoom' >= Len(b)
    <2>1. CASE ActiveRoom >= Len(b)
      <3>1. UNCHANGED <<submaps, size, contract, nextSubmap, nextCapacity>>
        BY <2>1 DEF Begin, EnsureActiveRoom
      <3> QED BY <2>1, <3>1, Untouched, SizesType
    <2>2. CASE ~(ActiveRoom >= Len(b))
      <3>1. ActivateNext(GrowTarget(Len(b))) /\ size' = size /\ contract' = contract
        BY <2>2 DEF Begin, EnsureActiveRoom
      <3> QED BY <1>1, <3>1, ActivateServes
    <2> QED BY <2>1, <2>2
  <1>3. /\ call' \in CallType /\ call'.op = op /\ call'.batch = b /\ call'.offset = 0
        /\ call'.total = 0
    BY <1>1, NoCallType DEF Begin, NoCall, CallType
  <1>4. size' \in Nat /\ prep' \in BOOLEAN /\ contract' \in BOOLEAN /\ contract' = contract
    BY DEF Begin, DynInv, TypeOK
  <1>5. ret' \in [asked : SUBSET Key, count : Nat, out : Val \cup {NoVal}]
    BY DEF Begin, NoReturn
  <1>6. TypeOK' BY <1>1, <1>2, <1>3, <1>4, <1>5 DEF TypeOK, Submap, Maps, CallType, Elements
  <1>7. OneChunk' BY <1>2, <1>3 DEF OneChunk
  <1>8. CallOK'
    <2>1. contract => op # "async" /\ (op = "append" => AllNew(b)) BY DEF Begin
    <2>2. AllNew(call.batch)' = AllNew(b)' BY <1>3 DEF AllNew, Keys
    <2> QED BY <1>1, <1>2, <1>3, <1>4, <2>1, <2>2 DEF CallOK
  <1> QED BY <1>2, <1>6, <1>7, <1>8 DEF DynInv

RetType == [asked : SUBSET Key, count : Nat, out : Val \cup {NoVal}]

\* An insertion that has stored its batch leaves the invariant as it was.
LEMMA InsertionKeeps ==
    ASSUME DynInv, NEW new, IsFiniteSet(new), NEW m \in Nat, Stores(new, m),
           Cardinality(new) <= m, m <= ActiveRoom,
           contract => \A s \in Index \ {Active} : new \cap Live(s) = {},
           nextSubmap' \in Nat, UNCHANGED <<nextCapacity, prep>>,
           call' = NoCall, ret' \in RetType
    PROVE  DynInv'
  <1>1. KeyInOneSubmap' /\ CountsAreSound' BY StoresKeep
  <1>2. submaps' \in Seq(Submap) /\ submaps' # <<>>
    <2>1. Len(submaps) > 0 BY SubmapParts DEF DynInv
    <2> QED BY <2>1 DEF Stores
  <1>3. OneChunk' /\ CallOK' BY NoCallType, OutsideInsertions
  <1>4. /\ nextCapacity' \in Nat /\ nextCapacity' # 0
        /\ prep' \in BOOLEAN /\ contract' \in BOOLEAN
        /\ size' \in Nat
    <2>1. nextCapacity \in Nat \ {0} /\ size \in Nat BY SizesType
    <2>2. prep \in BOOLEAN /\ contract \in BOOLEAN BY DEF DynInv, TypeOK
    <2>3. size' = size + m /\ contract' = contract BY DEF Stores
    <2> QED BY <2>1, <2>2, <2>3
  <1>5. call' \in CallType /\ call'.offset <= Len(call'.batch) BY NoCallType
  <1>6. TypeOK' BY <1>2, <1>4, <1>5 DEF TypeOK, Submap, Maps, CallType, Elements, RetType
  <1> QED BY <1>1, <1>3, <1>4, <1>6 DEF DynInv

\* What an insertion knows of its batch: there is room for all of it.
LEMMA BatchFits ==
    ASSUME DynInv, call.op \in InsertOps
    PROVE  /\ call.batch \in Seq(Elements) /\ Len(call.batch) \in Nat \ {0}
           /\ call.offset = 0 /\ ActiveRoom >= Len(call.batch) /\ ActiveRoom \in Nat
  <1>1. call.batch \in Seq(Elements) /\ call.batch # <<>> BY SizesType DEF DynInv, CallOK
  <1>2. Len(call.batch) \in Nat \ {0} BY <1>1
  <1>3. ActiveRoom \in Nat
    <2>1. Usable(submaps[Active].cap) \in Nat /\ submaps[Active].count \in Nat
      BY SubmapParts, UsableGrows, SMTT(40) DEF DynInv
    <2> QED BY <2>1 DEF ActiveRoom
  <1> QED BY <1>1, <1>2, <1>3 DEF DynInv, OneChunk

\* A store into the active submap alone.
LEMMA ActiveStores ==
    ASSUME DynInv, NEW b, b \in Seq(Elements), NEW win \in Winners(b),
           NEW new, new \subseteq Keys(b), NEW m \in Nat,
           submaps' = [submaps EXCEPT ![Active].map = WithPayloads(Active, new, win),
                                      ![Active].count = @ + m],
           size' = size + m, contract' = contract
    PROVE  Stores(new, m)
  <1>1. TypeOK /\ submaps \in Seq(Submap) /\ Active \in Index /\ Len(submaps) \in Nat
    BY SubmapParts DEF DynInv, TypeOK, Submap, Maps
  <1>2. /\ WithPayloads(Active, new, win) \in Maps
        /\ DOMAIN WithPayloads(Active, new, win) = Live(Active) \cup new
    <2>1. new \subseteq Key /\ \A k \in new : win[k] \in Val
      BY KeysOfBatch DEF Winners
    <2> QED BY <1>1, <2>1, WithPayloadsType
  <1>3. submaps[Active] \in Submap /\ submaps[Active].count \in Nat BY <1>1, SubmapParts
  <1> DEFINE new1 == [submaps[Active] EXCEPT !.map = WithPayloads(Active, new, win),
                                             !.count = submaps[Active].count + m]
  <1>4. /\ new1 \in Submap /\ new1.cap = submaps[Active].cap
        /\ DOMAIN new1.map = Live(Active) \cup new
        /\ new1.count = submaps[Active].count + m
    <2> DEFINE r == submaps[Active]
               wp == WithPayloads(Active, new, win)
               n == submaps[Active].count + m
    <2>1. wp \in Maps /\ DOMAIN wp = Live(Active) \cup new BY <1>2
    <2>2. new1 = [r EXCEPT !.map = wp, !.count = n] OBVIOUS
    <2>3. r \in Submap /\ r.cap = submaps[Active].cap /\ n \in Nat BY <1>3
    <2> HIDE DEF wp, new1, r, n
    <2>4. new1 \in Submap /\ new1.cap = r.cap /\ new1.map = wp /\ new1.count = n
      BY <2>1, <2>2, <2>3 DEF Submap
    <2> QED BY <2>1, <2>3, <2>4 DEF n
  <1>5. submaps' = [submaps EXCEPT ![Active] = new1]
    BY <1>1, <1>3 DEF Submap, Index
  <1> HIDE DEF new1
  <1>6. /\ submaps' \in Seq(Submap) /\ Len(submaps') = Len(submaps)
        /\ submaps'[Active] = new1
        /\ \A s \in Index \ {Active} : submaps'[s] = submaps[s]
    <2> DEFINE a == Active
    <2>1. new1 \in Submap BY <1>4
    <2>2. submaps' = [submaps EXCEPT ![a] = new1] /\ a \in 1..Len(submaps)
      BY <1>1, <1>5 DEF Index
    <2> HIDE DEF Submap, a
    <2>3. /\ submaps' \in Seq(Submap) /\ Len(submaps') = Len(submaps)
          /\ submaps'[a] = new1
          /\ \A s \in (1..Len(submaps)) \ {a} : submaps'[s] = submaps[s]
      BY ONLY <1>1, <2>1, <2>2
    <2> QED BY <2>3 DEF a, Index
  <1> QED BY <1>1, <1>4, <1>6 DEF Stores, Live

\* Whatever the mask lets through is new to all the submaps.
LEMMA UnmaskedIsNew ==
    ASSUME DynInv, NEW b, NEW new \in SUBSET (Keys(b) \ Masked(b)), NEW s \in Index \ {Active}
    PROVE  new \cap Live(s) = {}
  <1>1. Live(s) = {} \/ s \in NonEmptyBefore(Active)
    <2>1. /\ Len(submaps) \in Nat /\ submaps[s].count \in Nat
          /\ IsFiniteSet(Live(s)) /\ Cardinality(Live(s)) \in Nat
          /\ Cardinality(Live(s)) <= submaps[s].count
      BY SubmapParts DEF DynInv, CountsAreSound
    <2>2. CASE submaps[s].count = 0
      <3>1. Cardinality(Live(s)) = 0 BY <2>1, <2>2
      <3> QED BY <2>1, <3>1, FS_EmptySet
    <2>3. CASE submaps[s].count # 0
      <3>1. s \in 1..(Active - 1) BY <2>1 DEF Index, Active
      <3> QED BY <2>3, <3>1 DEF NonEmptyBefore
    <2> QED BY <2>2, <2>3
  <1> QED BY <1>1 DEF Masked

LEMMA FastKeeps ==
    ASSUME DynInv, InsertFast
    PROVE  DynInv'
  <1> DEFINE b == call.batch
  <1>1. /\ b \in Seq(Elements) /\ Len(b) \in Nat /\ ActiveRoom >= Len(b) /\ ActiveRoom \in Nat
    BY BatchFits DEF InsertFast, InsertOps
  <1>2. PICK new \in Admissible(Active, Keys(b)) : \E win \in Winners(b) :
          /\ submaps' = [submaps EXCEPT ![Active].map = WithPayloads(Active, new, win),
                                        ![Active].count = @ + Cardinality(new)]
          /\ size' = size + Cardinality(new)
          /\ Returned({}, Cardinality(new), NoVal)
    BY DEF InsertFast
  <1>3. new \subseteq Keys(b) BY <1>2 DEF Admissible
  <1>4. /\ IsFiniteSet(new) /\ Cardinality(new) \in Nat /\ Cardinality(new) <= Len(b)
    <2>1. IsFiniteSet(Keys(b)) /\ Cardinality(Keys(b)) \in Nat /\ Cardinality(Keys(b)) <= Len(b)
      BY <1>1, KeysOfBatch
    <2>2. IsFiniteSet(new) /\ Cardinality(new) <= Cardinality(Keys(b))
      BY <1>3, <2>1, FS_Subset
    <2> QED BY <1>1, <2>1, <2>2, FS_CardinalityType
  <1>5. call' = NoCall /\ UNCHANGED <<nextSubmap, nextCapacity, prep, contract>>
    BY DEF InsertFast, Finish
  <1>6. Stores(new, Cardinality(new))
    <2> HIDE DEF b
    <2> QED BY <1>1, <1>2, <1>3, <1>4, <1>5, ActiveStores
  <1>7. \A s \in Index \ {Active} : new \cap Live(s) = {}
    <2>1. Masked(b) = {} BY DEF InsertFast, Masked
    <2> QED BY <1>3, <2>1, UnmaskedIsNew
  <1>8. ret' \in RetType BY <1>2, <1>4 DEF Returned, RetType
  <1>9. Cardinality(new) <= ActiveRoom BY <1>1, <1>4
  <1>10. nextSubmap' \in Nat BY <1>5, SizesType
  <1> QED BY <1>4, <1>5, <1>6, <1>7, <1>8, <1>9, <1>10, InsertionKeeps

LEMMA OptimisticKeeps ==
    ASSUME DynInv, InsertOptimistic
    PROVE  DynInv'
  <1> DEFINE b == call.batch
             n == Len(b)
  <1>1. /\ b \in Seq(Elements) /\ n \in Nat /\ ActiveRoom >= n
        /\ call.op \in InsertOps
    BY BatchFits DEF InsertOptimistic, InsertOps
  <1>2. PICK new \in Admissible(Active, Keys(b)) : \E win \in Winners(b) :
          submaps' = [submaps EXCEPT ![Active].map = WithPayloads(Active, new, win),
                                     ![Active].count = @ + n]
    BY DEF InsertOptimistic
  <1>3. /\ size' = size + n /\ Returned({}, n, NoVal)
        /\ call' = NoCall /\ UNCHANGED <<nextCapacity, prep, contract>>
    BY DEF InsertOptimistic, Finish
  <1>4. new \subseteq Keys(b) BY <1>2 DEF Admissible
  <1>5. /\ IsFiniteSet(new) /\ Cardinality(new) <= n
    <2>1. IsFiniteSet(Keys(b)) /\ Cardinality(Keys(b)) \in Nat /\ Cardinality(Keys(b)) <= n
      BY <1>1, KeysOfBatch
    <2>2. IsFiniteSet(new) /\ Cardinality(new) <= Cardinality(Keys(b))
      BY <1>4, <2>1, FS_Subset
    <2>3. Cardinality(new) \in Nat BY <2>2, FS_CardinalityType
    <2> QED BY <1>1, <2>1, <2>2, <2>3
  <1>6. Stores(new, n)
    <2> HIDE DEF b
    <2> QED BY <1>1, <1>2, <1>3, <1>4, ActiveStores
  <1>7. contract => \A s \in Index \ {Active} : new \cap Live(s) = {}
    <2>1. contract => AllNew(b) BY <1>1 DEF InsertOptimistic, DynInv, CallOK
    <2> QED BY <1>4, <2>1 DEF AllNew
  <1>8. nextSubmap' \in Nat
    <2>1. StartPrepareNext(n) \/ UNCHANGED nextSubmap BY DEF InsertOptimistic
    <2> QED BY <1>1, <2>1, PrepareType, SizesType
  <1>9. ret' \in RetType BY <1>1, <1>3 DEF Returned, RetType
  <1> QED BY <1>1, <1>3, <1>5, <1>6, <1>7, <1>8, <1>9, InsertionKeeps

\* The whole batch is one chunk, and the last.
LEMMA ChunkIsBatch ==
    ASSUME DynInv, call.op \in {"insert", "upsert"}
    PROVE  LET n == Len(call.batch) - call.offset
               len == IF n < ActiveRoom THEN n ELSE ActiveRoom
           IN  /\ n = Len(call.batch) /\ ActiveRoom # 0
               /\ SubSeq(call.batch, call.offset + 1, call.offset + len) = call.batch
  <1> DEFINE n == Len(call.batch) - call.offset
             len == IF n < ActiveRoom THEN n ELSE ActiveRoom
  <1>1. /\ call.batch \in Seq(Elements) /\ Len(call.batch) \in Nat \ {0}
        /\ call.offset = 0 /\ ActiveRoom >= Len(call.batch) /\ ActiveRoom \in Nat
    BY BatchFits DEF InsertOps
  <1>2. n = Len(call.batch) /\ len = Len(call.batch) /\ ActiveRoom # 0
    BY <1>1
  <1>3. call.offset + 1 = 1 /\ call.offset + len = Len(call.batch) BY <1>1, <1>2
  <1>4. SubSeq(call.batch, 1, Len(call.batch)) = call.batch BY <1>1, SubSeqFull
  <1> QED BY <1>2, <1>3, <1>4, Zenon

LEMMA LoopKeeps ==
    ASSUME DynInv, InsertLoop
    PROVE  DynInv'
  <1> DEFINE b == call.batch
  <1>1. call.op \in {"insert", "upsert"} BY DEF InsertLoop
  <1>2. /\ b \in Seq(Elements) /\ Len(b) \in Nat /\ ActiveRoom >= Len(b) /\ ActiveRoom \in Nat
        /\ call.offset = 0
    BY <1>1, BatchFits DEF InsertOps
  <1>3. /\ StartPrepareNext(Len(b)) \/ UNCHANGED nextSubmap
        /\ InsertChunk(b) \/ InsertOrAssignChunk(b)
        /\ UNCHANGED <<nextCapacity, prep, contract>>
    BY <1>1, ChunkIsBatch, Zenon DEF InsertLoop
  <1>4. nextSubmap' \in Nat BY <1>2, <1>3, PrepareType, SizesType
  <1> DEFINE Ends(new) ==
                /\ new \in SUBSET (Keys(b) \ Masked(b))
                /\ Stores(new, InsertedOf(b, new))
                /\ Inserted(Len(b), InsertedOf(b, new))
  <1>5. \E new : Ends(new)
    <2>1. CASE InsertChunk(b)
      <3>1. PICK new \in Admissible(Active, Keys(b) \ Masked(b)) : \E win \in Winners(b) :
              /\ submaps' = [submaps EXCEPT ![Active].map = WithPayloads(Active, new, win),
                                            ![Active].count = @ + InsertedOf(b, new)]
              /\ Inserted(Len(b), InsertedOf(b, new))
        BY <2>1 DEF InsertChunk
      <3>2. new \in SUBSET (Keys(b) \ Masked(b)) BY <3>1 DEF Admissible
      <3>3. InsertedOf(b, new) \in Nat BY <1>2, <3>2, InsertedBounds
      <3>4. size' = size + InsertedOf(b, new) BY <3>1 DEF Inserted
      <3>5. Stores(new, InsertedOf(b, new))
        <4> DEFINE m == InsertedOf(b, new)
        <4>1. m \in Nat /\ size' = size + m /\ contract' = contract /\ new \subseteq Keys(b)
          BY <1>3, <3>2, <3>3, <3>4
        <4>2. PICK win \in Winners(b) :
                submaps' = [submaps EXCEPT ![Active].map = WithPayloads(Active, new, win),
                                           ![Active].count = @ + m]
          BY <3>1
        <4>3. Stores(new, m)
          <5> HIDE DEF b, m
          <5> QED BY <1>2, <4>1, <4>2, ActiveStores
        <4> QED BY <4>3
      <3> QED BY <3>1, <3>2, <3>5
    <2>2. CASE InsertOrAssignChunk(b)
      <3> DEFINE written(s, new) ==
                   IF s = Active THEN new \cup (Live(s) \cap (Keys(b) \ Masked(b)))
                   ELSE IF s \in NonEmptyBefore(Active) THEN Live(s) \cap Keys(b) ELSE {}
      <3>1. PICK new \in Admissible(Active, Keys(b) \ Masked(b)) :
            \E win \in [Index -> Winners(b)] :
              /\ submaps' = [s \in Index |->
                     [submaps[s] EXCEPT
                         !.map = WithPayloads(s, written(s, new), win[s]),
                         !.count = IF s = Active THEN @ + InsertedOf(b, new) ELSE @]]
              /\ Inserted(Len(b), InsertedOf(b, new))
        BY <2>2, Zenon DEF InsertOrAssignChunk
      <3>2. PICK win \in [Index -> Winners(b)] :
              submaps' = [s \in Index |->
                     [submaps[s] EXCEPT
                         !.map = WithPayloads(s, written(s, new), win[s]),
                         !.count = IF s = Active THEN @ + InsertedOf(b, new) ELSE @]]
        BY <3>1
      <3>3. new \in SUBSET (Keys(b) \ Masked(b)) BY <3>1 DEF Admissible
      <3>4. InsertedOf(b, new) \in Nat BY <1>2, <3>3, InsertedBounds
      <3>5. size' = size + InsertedOf(b, new) BY <3>1 DEF Inserted
      <3>6. TypeOK /\ Len(submaps) \in Nat /\ Active \in Index BY SubmapParts DEF DynInv
      <3>7. ASSUME NEW s \in Index
            PROVE  /\ submaps'[s] \in Submap /\ submaps'[s].cap = submaps[s].cap
                   /\ DOMAIN submaps'[s].map = Live(s) \cup written(s, new)
                   /\ submaps'[s].count = IF s = Active
                                          THEN submaps[s].count + InsertedOf(b, new)
                                          ELSE submaps[s].count
        <4> DEFINE r == submaps[s]
                   wp == WithPayloads(s, written(s, new), win[s])
                   n == IF s = Active THEN submaps[s].count + InsertedOf(b, new)
                        ELSE submaps[s].count
                   q == submaps'[s]
        <4>1. r \in Submap /\ n \in Nat BY <3>4, <3>6, SubmapParts
        <4>2. wp \in Maps /\ DOMAIN wp = Live(s) \cup written(s, new)
          <5>1. written(s, new) \subseteq Keys(b) BY <3>3
          <5>2. /\ written(s, new) \subseteq Key
                /\ \A k \in written(s, new) : win[s][k] \in Val
            <6>1. Keys(b) \subseteq Key BY <1>2, KeysOfBatch
            <6>2. win[s] \in [Keys(b) -> Val] BY <3>2 DEF Winners
            <6> HIDE DEF written, b
            <6> QED BY <5>1, <6>1, <6>2
          <5> HIDE DEF written, b
          <5> QED BY <3>6, <5>2, WithPayloadsType
        <4>3. q = [r EXCEPT !.map = wp, !.count = n] BY <3>2, Zenon
        <4> HIDE DEF r, wp, n, q, written, b
        <4>4. q \in Submap /\ q.cap = r.cap /\ q.map = wp /\ q.count = n
          BY <4>1, <4>2, <4>3 DEF Submap
        <4> QED BY <4>2, <4>4 DEF q, r, n
      <3>8. Stores(new, InsertedOf(b, new))
        <4>1. submaps' \in Seq(Submap) /\ Len(submaps') = Len(submaps)
          <5>1. DOMAIN submaps' = 1..Len(submaps) BY <3>2 DEF Index
          <5>2. submaps' = [s \in 1..Len(submaps) |-> submaps'[s]] BY <3>2, <5>1 DEF Index
          <5>3. \A s \in 1..Len(submaps) : submaps'[s] \in Submap BY <3>7 DEF Index
          <5> HIDE DEF Submap
          <5> QED BY <3>6, <5>2, <5>3
        <4>2. ASSUME NEW s \in Index \ {Active}
              PROVE  DOMAIN submaps'[s].map = Live(s) /\ submaps'[s].count = submaps[s].count
          <5>1. written(s, new) \subseteq Live(s) OBVIOUS
          <5> QED BY <3>7, <5>1
        <4>3. /\ DOMAIN submaps'[Active].map = Live(Active) \cup new
              /\ submaps'[Active].count = submaps[Active].count + InsertedOf(b, new)
          <5>1. Live(Active) \cup written(Active, new) = Live(Active) \cup new OBVIOUS
          <5> QED BY <3>6, <3>7, <5>1
        <4>4. \A s \in Index : submaps'[s].cap = submaps[s].cap BY <3>7
        <4>5. contract' = contract BY <1>3
        <4> HIDE DEF b, written
        <4> QED BY <3>5, <4>1, <4>2, <4>3, <4>4, <4>5 DEF Stores
      <3> QED BY <3>1, <3>3, <3>8
    <2> QED BY <1>3, <2>1, <2>2
  <1>6. PICK new : Ends(new) BY <1>5
  <1> DEFINE m == InsertedOf(b, new)
  <1>7. m \in Nat /\ Cardinality(new) <= m /\ m <= ActiveRoom /\ IsFiniteSet(new)
    <2>1. /\ m \in Nat /\ Cardinality(new) <= m /\ m <= Len(b)
      BY <1>2, <1>6, InsertedBounds
    <2>2. IsFiniteSet(new) BY <1>2, <1>6, KeysOfBatch, FS_Subset
    <2> QED BY <1>2, <2>1, <2>2
  <1>8. \A s \in Index \ {Active} : new \cap Live(s) = {} BY <1>6, UnmaskedIsNew
  <1>9. call' = NoCall /\ ret' \in RetType
    <2>1. call.offset + Len(b) = Len(call.batch) BY <1>2
    <2>2. call' = NoCall /\ ret' = [asked |-> {}, count |-> call.total + m, out |-> NoVal]
      BY <1>6, <2>1 DEF Inserted, Returned, Finish
    <2>3. call.total \in Nat BY SizesType DEF CallType
    <2> QED BY <1>7, <2>2, <2>3 DEF RetType
  <1>10. Stores(new, m) BY <1>6
  <1> HIDE DEF m, Ends, b
  <1> QED BY <1>3, <1>4, <1>7, <1>8, <1>9, <1>10, InsertionKeeps

--------------------------------------------------------------------------------
(* Reserve and the lookups. *)

LEMMA ReserveKeeps ==
    ASSUME DynInv, ExtentsServe, ReserveLoop
    PROVE  DynInv'
  <1> DEFINE exists == call.idx <= Len(submaps)
             cap == IF exists THEN submaps[call.idx].cap ELSE nextCapacity
  <1>1. call \in CallType /\ call.op = "reserve" /\ call.idx \in Nat \ {0}
    BY SizesType DEF ReserveLoop, CallType
  <1>2. cap \in Nat \ {0} /\ Usable(cap) \in Nat
    <2>1. CASE exists
      <3>1. call.idx \in Index BY <1>1, <2>1, SubmapParts DEF Index, DynInv
      <3>2. cap \in Nat \ {0} BY <2>1, <3>1, SubmapParts DEF DynInv
      <3> HIDE DEF cap
      <3> QED BY <3>2, UsableGrows
    <2>2. CASE ~exists BY <2>2, SizesType, UsableGrows
    <2> QED BY <2>1, <2>2
  <1>3. /\ submaps' \in Seq(Submap) /\ submaps' # <<>>
        /\ KeyInOneSubmap' /\ CountsAreSound' /\ nextCapacity' \in Nat \ {0}
    <2>1. CASE exists
      <3>1. UNCHANGED <<submaps, size, contract, nextCapacity>> BY <2>1 DEF ReserveLoop
      <3> QED BY <3>1, Untouched, SizesType
    <2>2. CASE ~exists
      <3>1. /\ submaps' = Append(submaps, NewSubmap(cap)) /\ nextCapacity' = cap * GROWTH_FACTOR
            /\ size' = size /\ contract' = contract
        BY <2>2 DEF ReserveLoop
      <3> HIDE DEF cap
      <3>2. nextCapacity' \in Nat \ {0} BY <1>2, <3>1 DEF GROWTH_FACTOR
      <3> QED BY <1>2, <3>1, <3>2, AppendKeeps
    <2> QED BY <2>1, <2>2
  <1>4. /\ call' \in CallType /\ call'.op = "reserve" /\ call'.batch = call.batch
        /\ call'.offset = call.offset
    <2>1. call' = [call EXCEPT !.idx = @ + 1,
                               !.remaining = IF Usable(cap) >= @ THEN 0 ELSE @ - Usable(cap)]
      BY DEF ReserveLoop
    <2> DEFINE i == call.idx + 1
               r == IF Usable(cap) >= call.remaining THEN 0 ELSE call.remaining - Usable(cap)
    <2>2. call' = [call EXCEPT !.idx = i, !.remaining = r] BY <2>1
    <2>3. i \in Nat \ {0} /\ r \in Nat
      <3>1. call.remaining \in Nat BY <1>1 DEF CallType
      <3> HIDE DEF cap
      <3> QED BY <1>1, <1>2, <3>1
    <2> HIDE DEF i, r
    <2> QED BY <1>1, <2>2, <2>3 DEF CallType
  <1>5. /\ UNCHANGED <<nextSubmap, size, prep, contract, ret>> BY DEF ReserveLoop
  <1>6. TypeOK' BY <1>3, <1>4, <1>5 DEF DynInv, TypeOK, Submap, Maps, CallType, Elements
  <1>7. OneChunk' /\ CallOK' BY <1>4, OutsideInsertions DEF InsertOps
  <1> QED BY <1>3, <1>6, <1>7 DEF DynInv

\* A lookup answers with the payload of the key in a submap that holds it, or
\* that there is none, whichever submaps it skips.
LookupIsExact ==
    \A k \in Key :
        \/ \E s \in Index : k \in Live(s) /\ Lookup(k) = submaps[s].map[k]
        \/ Lookup(k) = NoVal /\ \A s \in Index : k \notin Live(s)

\* x is a right answer as far as submaps lo to hi go.
RightIn(k, x, lo, hi) ==
    \/ \E s \in lo..hi : k \in Live(s) /\ x = submaps[s].map[k]
    \/ x = NoVal /\ \A s \in lo..hi : k \notin Live(s)

LEMMA AnswerIsRight ==
    ASSUME TypeOK, NEW s \in Index, NEW k
    PROVE  /\ AnswerOf(s, k) \in Val \cup {NoVal}
           /\ RightIn(k, AnswerOf(s, k), s, s)
           /\ AnswerOf(s, k) = NoVal <=> k \notin Live(s)
  <1>1. submaps[s].map \in [Live(s) -> Val] /\ s \in Int BY SubmapParts DEF Index
  <1>2. s..s = {s} BY <1>1
  <1> QED BY <1>1, <1>2, NoValAssumption DEF NoValAssumption, AnswerOf, RightIn

\* A submap that no element was counted for holds nothing.
LEMMA EmptyByCount ==
    ASSUME DynInv, NEW s \in Index, submaps[s].count = 0
    PROVE  Live(s) = {}
  <1>1. /\ IsFiniteSet(Live(s)) /\ Cardinality(Live(s)) \in Nat
        /\ Cardinality(Live(s)) <= 0
    BY SubmapParts DEF DynInv, CountsAreSound
  <1>2. Cardinality(Live(s)) = 0 BY <1>1
  <1> QED BY <1>1, <1>2, FS_EmptySet

LEMMA FirstIsFirst ==
    ASSUME TypeOK
    PROVE  /\ FirstNonEmpty \in 1..(Len(submaps) + 1)
           /\ \A s \in Index : s < FirstNonEmpty => submaps[s].count = 0
  <1> DEFINE nonEmpty == {s \in Index : submaps[s].count # 0}
             L == Len(submaps) + 1
  <1>1. Len(submaps) \in Nat BY SubmapParts
  <1>2. \E s \in nonEmpty \cup {L} : \A t \in nonEmpty : s <= t
    <2>1. CASE nonEmpty = {} BY <2>1
    <2>2. CASE nonEmpty # {}
      <3>1. nonEmpty \in SUBSET Nat BY DEF Index
      <3> HIDE DEF nonEmpty
      <3> QED BY <2>2, <3>1, LeastNatural
    <2> QED BY <2>1, <2>2
  <1>3. /\ FirstNonEmpty \in nonEmpty \cup {L}
        /\ \A t \in nonEmpty : FirstNonEmpty <= t
    BY <1>2 DEF FirstNonEmpty
  <1>4. FirstNonEmpty \in 1..L BY <1>1, <1>3 DEF Index
  <1>5. ASSUME NEW s \in Index, s < FirstNonEmpty PROVE submaps[s].count = 0
    <2>1. s \in Nat /\ FirstNonEmpty \in Nat /\ ~(FirstNonEmpty <= s)
      BY <1>1, <1>4, <1>5 DEF Index
    <2> QED BY <1>3, <2>1
  <1> QED BY <1>4, <1>5

\* MergeFind goes from one submap to the next and keeps what it has found.
LEMMA MergeIsRight ==
    ASSUME DynInv, NEW k, NEW base \in Index
    PROVE  /\ MergeFind(k, base) \in Val \cup {NoVal}
           /\ RightIn(k, MergeFind(k, base), base, Len(submaps))
  <1> DEFINE D == Val \cup {NoVal}
             L == Len(submaps)
             n == L - base
             F == [i \in 1..n |-> [x \in D |->
                     IF submaps[base + i].count # 0 /\ x = NoVal
                     THEN AnswerOf(base + i, k) ELSE x]]
             Merged(g) == [s \in base..L |->
                     IF s = base \/ (submaps[s].count # 0 /\ g[s - 1] = NoVal)
                     THEN AnswerOf(s, k) ELSE g[s - 1]]
             out == CHOOSE g : g = Merged(g)
  <1>1. TypeOK /\ L \in Nat /\ base \in 1..L /\ n \in Nat
    BY SubmapParts DEF DynInv, Index
  <1>2. \A s \in base..L : s \in Index /\ AnswerOf(s, k) \in D
    <2>1. \A s \in base..L : s \in Index BY <1>1 DEF Index
    <2> QED BY <1>1, <2>1, AnswerIsRight
  <1>3. StepsIn(D, n, F)
    <2> SUFFICES ASSUME NEW i \in 1..n, NEW x \in D PROVE F[i][x] \in D BY DEF StepsIn
    <2>1. base + i \in base..L BY <1>1
    <2>2. AnswerOf(base + i, k) \in D BY <1>2, <2>1
    <2>3. F[i][x] = IF submaps[base + i].count # 0 /\ x = NoVal
                    THEN AnswerOf(base + i, k) ELSE x
      BY Zenon
    <2> HIDE DEF F, D
    <2> QED BY <2>2, <2>3
  <1>4. PICK g : Follows(g, D, n, AnswerOf(base, k), F)
    <2>1. AnswerOf(base, k) \in D BY <1>1, <1>2
    <2> HIDE DEF F, n, D
    <2> QED BY <1>1, <1>3, <2>1, Recursion
  <1>5. \E h : h = Merged(h)
    <2> DEFINE h == [s \in base..L |-> g[s - base]]
    <2>1. ASSUME NEW s \in base..L
          PROVE  h[s] = IF s = base \/ (submaps[s].count # 0 /\ h[s - 1] = NoVal)
                        THEN AnswerOf(s, k) ELSE h[s - 1]
      <3>1. g \in [0..n -> D] /\ g[0] = AnswerOf(base, k)
            /\ \A i \in 1..n : g[i] = F[i][g[i - 1]]
        BY <1>4 DEF Follows
      <3>2. CASE s = base
        <4>1. h[s] = g[0] BY <1>1, <3>2
        <4> QED BY <3>1, <3>2, <4>1
      <3>3. CASE s # base
        <4> DEFINE i == s - base
        <4>1. /\ i \in 1..n /\ i - 1 \in 0..n /\ base + i = s
              /\ s - 1 \in base..L /\ (s - 1) - base = i - 1
          BY <1>1, <3>3
        <4>2. h[s] = g[i] /\ h[s - 1] = g[i - 1] BY <4>1
        <4>3. g[i - 1] \in D BY <3>1, <4>1
        <4>4. g[i] = F[i][g[i - 1]] BY <3>1, <4>1
        <4>5. F[i][g[i - 1]] = IF submaps[base + i].count # 0 /\ g[i - 1] = NoVal
                               THEN AnswerOf(base + i, k) ELSE g[i - 1]
          <5> HIDE DEF D, n, i
          <5> QED BY <4>1, <4>3, Zenon
        <4> HIDE DEF h, F, i
        <4> QED BY <3>3, <4>1, <4>2, <4>4, <4>5
      <3> QED BY <3>2, <3>3
    <2>2. h = Merged(h)
      <3>1. h = [s \in base..L |-> h[s]] OBVIOUS
      <3> HIDE DEF h
      <3> QED BY <2>1, <3>1
    <2> QED BY <2>2
  <1>6. out = Merged(out) BY <1>5
  <1>7. MergeFind(k, base) = out[L] BY DEF MergeFind
  <1> HIDE DEF out, F
  <1> DEFINE S == {i \in Nat : base + i <= L =>
                      out[base + i] \in D /\ RightIn(k, out[base + i], base, base + i)}
  <1>8. 0 \in S
    <2>1. out[base] = AnswerOf(base, k) BY <1>1, <1>6
    <2>2. base + 0 = base BY <1>1
    <2> QED BY <1>1, <2>1, <2>2, AnswerIsRight
  <1>9. ASSUME NEW i \in Nat, i \in S PROVE i + 1 \in S
    <2> DEFINE s == base + (i + 1)
    <2> SUFFICES ASSUME s <= L PROVE out[s] \in D /\ RightIn(k, out[s], base, s)
      OBVIOUS
    <2>1. s \in base..L /\ s # base /\ s - 1 = base + i /\ base + i <= L BY <1>1
    <2>2. out[s] = IF submaps[s].count # 0 /\ out[s - 1] = NoVal
                   THEN AnswerOf(s, k) ELSE out[s - 1]
      BY <1>6, <2>1
    <2>3. out[s - 1] \in D /\ RightIn(k, out[s - 1], base, s - 1) BY <1>9, <2>1
    <2>4. s \in Index /\ AnswerOf(s, k) \in D BY <1>2, <2>1
    <2>5. base..s = (base..(s - 1)) \cup {s} BY <1>1, <2>1
    <2> HIDE DEF s, D
    <2>6. CASE submaps[s].count # 0 /\ out[s - 1] = NoVal
      <3>1. out[s] = AnswerOf(s, k) BY <2>2, <2>6
      <3>2. \A t \in base..(s - 1) : k \notin Live(t)
        <4>1. ASSUME NEW t \in base..(s - 1), k \in Live(t) PROVE submaps[t].map[k] # NoVal
          <5>1. t \in Index BY <1>1, <2>1, <4>1 DEF Index
          <5>2. submaps[t].map \in [Live(t) -> Val] BY <1>1, <5>1, SubmapParts
          <5> QED BY <4>1, <5>2, NoValAssumption DEF NoValAssumption
        <4> QED BY <2>3, <2>6, <4>1 DEF RightIn
      <3>3. CASE k \in Live(s)
        <4>1. AnswerOf(s, k) = submaps[s].map[k] BY <3>3 DEF AnswerOf
        <4> QED BY <2>4, <2>5, <3>1, <3>3, <4>1 DEF RightIn
      <3>4. CASE k \notin Live(s)
        <4>1. AnswerOf(s, k) = NoVal BY <3>4 DEF AnswerOf
        <4> QED BY <2>4, <2>5, <3>1, <3>2, <3>4, <4>1 DEF RightIn
      <3> QED BY <3>3, <3>4
    <2>7. CASE ~(submaps[s].count # 0 /\ out[s - 1] = NoVal)
      <3>1. out[s] = out[s - 1] BY <2>2, <2>7
      <3>2. CASE out[s - 1] = NoVal
        <4>1. Live(s) = {} BY <2>4, <2>7, <3>2, EmptyByCount
        <4> QED BY <2>3, <2>5, <3>1, <4>1 DEF RightIn
      <3>3. CASE out[s - 1] # NoVal BY <2>3, <2>5, <3>1, <3>3 DEF RightIn
      <3> QED BY <3>2, <3>3
    <2> QED BY <2>6, <2>7
  <1>10. n \in S
    <2> HIDE DEF S, n
    <2> QED BY <1>1, <1>8, <1>9, Induction
  <1>11. base + n = L /\ L <= L BY <1>1
  <1> QED BY <1>7, <1>10, <1>11

LEMMA LookupIsRight ==
    ASSUME DynInv, NEW k
    PROVE  /\ Lookup(k) \in Val \cup {NoVal}
           /\ RightIn(k, Lookup(k), 1, Len(submaps))
  <1> DEFINE base == FirstNonEmpty
             L == Len(submaps)
  <1>1. /\ TypeOK /\ L \in Nat \ {0} /\ Index = 1..L /\ base \in 1..(L + 1)
        /\ \A s \in Index : s < base => Live(s) = {}
    BY SubmapParts, FirstIsFirst, EmptyByCount DEF DynInv, Index
  <1>2. CASE base > L
    <2>1. Lookup(k) = AnswerOf(1, k) BY <1>2 DEF Lookup
    <2>2. 1 \in Index /\ \A s \in Index : Live(s) = {} BY <1>1, <1>2
    <2>3. AnswerOf(1, k) = NoVal BY <2>2 DEF AnswerOf
    <2> QED BY <1>1, <2>1, <2>2, <2>3 DEF RightIn
  <1>3. CASE base <= L
    <2>1. base \in Index /\ 1..L = 1..(base - 1) \cup base..L
          /\ \A s \in 1..(base - 1) : Live(s) = {}
      BY <1>1, <1>3
    <2>2. ASSUME NEW x, RightIn(k, x, base, L) PROVE RightIn(k, x, 1, L)
      BY <2>1, <2>2 DEF RightIn
    <2>3. CASE HasMoreNonEmptyAfter(base)
      <3>1. Lookup(k) = MergeFind(k, base) BY <1>1, <1>3, <2>3 DEF Lookup
      <3> QED BY <2>1, <2>2, <3>1, MergeIsRight
    <2>4. CASE ~HasMoreNonEmptyAfter(base)
      <3>1. Lookup(k) = AnswerOf(base, k) BY <1>1, <1>3, <2>4 DEF Lookup
      <3>2. \A s \in (base + 1)..L : Live(s) = {}
        BY <1>1, <1>3, <2>4, EmptyByCount DEF HasMoreNonEmptyAfter
      <3>3. base..L = base..base \cup (base + 1)..L BY <1>1, <1>3
      <3>4. /\ AnswerOf(base, k) \in Val \cup {NoVal}
            /\ RightIn(k, AnswerOf(base, k), base, base)
        BY <1>1, <2>1, AnswerIsRight
      <3>5. RightIn(k, Lookup(k), base, L) BY <3>1, <3>2, <3>3, <3>4 DEF RightIn
      <3> QED BY <2>2, <3>1, <3>4, <3>5
    <2> QED BY <2>3, <2>4
  <1> QED BY <1>1, <1>2, <1>3

\* Steps that leave the submaps, and what was counted, alone.
LEMMA QuietKeeps ==
    ASSUME DynInv, UNCHANGED <<submaps, nextSubmap, nextCapacity, size, prep, contract>>,
           call' \in CallType, call'.offset <= Len(call'.batch), call'.op \notin InsertOps,
           ret' \in RetType
    PROVE  DynInv'
  <1>1. /\ submaps' \in Seq(Submap) /\ submaps' # <<>>
        /\ KeyInOneSubmap' /\ CountsAreSound'
    BY Untouched
  <1>2. OneChunk' /\ CallOK' BY OutsideInsertions
  <1>3. TypeOK' BY <1>1 DEF DynInv, TypeOK, Submap, Maps, CallType, Elements, RetType
  <1>4. nextCapacity' # 0 BY DEF DynInv
  <1> QED BY <1>1, <1>2, <1>3, <1>4 DEF DynInv

LEMMA BeginReserveKeeps ==
    ASSUME DynInv, "reserve" \in Calls, NEW n \in Reservations, BeginReserve(n)
    PROVE  DynInv'
  <1>1. n \in Nat BY ReservationsAssumption DEF ReservationsAssumption
  <1>2. call' = [NoCall EXCEPT !.op = "reserve", !.remaining = n] /\ ret' = NoReturn
    BY DEF BeginReserve
  <1>3. /\ call' \in CallType /\ call'.offset <= Len(call'.batch)
        /\ call'.op = "reserve"
    BY <1>1, <1>2, NoCallType DEF NoCall, CallType
  <1>4. ret' \in RetType BY <1>2 DEF NoReturn, RetType
  <1>5. call'.op \notin InsertOps BY <1>3 DEF InsertOps
  <1> QED BY <1>3, <1>4, <1>5, QuietKeeps DEF BeginReserve

LEMMA ReserveReturnKeeps ==
    ASSUME DynInv, ReserveReturn
    PROVE  DynInv'
  <1>1. ret' \in RetType BY DEF ReserveReturn, DynInv, TypeOK, RetType
  <1>2. call' = NoCall BY DEF ReserveReturn, Finish
  <1> QED BY <1>1, <1>2, NoCallType, QuietKeeps DEF ReserveReturn

LEMMA FindKeeps ==
    ASSUME DynInv, NEW k \in Key, Find(k)
    PROVE  DynInv'
  <1>1. call = NoCall /\ call' = call BY DEF Find, Idle
  <1>2. Lookup(k) \in Val \cup {NoVal} BY LookupIsRight
  <1>3. ret' = [asked |-> {k}, count |-> 0, out |-> Lookup(k)] BY DEF Find, Returned
  <1>4. ret' \in RetType BY <1>2, <1>3 DEF RetType
  <1> QED BY <1>1, <1>4, NoCallType, QuietKeeps DEF Find

--------------------------------------------------------------------------------
(* Erasures, and the rest. *)

\* No count is clamped: what is deleted from a submap had been counted.
LEMMA EraseKeeps ==
    ASSUME DynInv, NEW ks \in KeyBatches, NEW counted \in BOOLEAN, Idle,
           EraseIn(ks, counted), UNCHANGED <<nextSubmap, nextCapacity, prep, contract, call>>
    PROVE  DynInv'
  <1> DEFINE asked == {ks[i] : i \in DOMAIN ks}
             del == [s \in Index |->
                       IF submaps[s].count = 0 THEN 0 ELSE Cardinality(Live(s) \cap asked)]
             total == Sum(del)
             left == [s \in Index |-> IF counted THEN submaps[s].count - del[s]
                                      ELSE submaps[s].count]
  <1>1. /\ submaps' = [s \in Index |->
              IF submaps[s].count = 0 THEN submaps[s]
              ELSE [submaps[s] EXCEPT
                      !.map = [k \in Live(s) \ asked |-> @[k]],
                      !.dead = @ + del[s],
                      !.count = IF counted THEN Less(@, del[s]) ELSE @]]
        /\ size' = IF counted THEN Less(size, total) ELSE size
        /\ ret' = [asked |-> asked, count |-> IF counted THEN total ELSE 0, out |-> NoVal]
    BY DEF EraseIn, Returned
  <1>2. TypeOK /\ Len(submaps) \in Nat \ {0} BY SubmapParts DEF DynInv
  <1>3. ASSUME NEW s \in Index
        PROVE  /\ del[s] \in Nat /\ del[s] <= submaps[s].count
               /\ submaps[s].count # 0 => del[s] = Cardinality(Live(s) \cap asked)
    <2>1. /\ IsFiniteSet(Live(s)) /\ Cardinality(Live(s)) \in Nat /\ submaps[s].count \in Nat
          /\ Cardinality(Live(s)) <= submaps[s].count
      BY <1>2, SubmapParts DEF DynInv, CountsAreSound
    <2>2. /\ Cardinality(Live(s) \cap asked) \in Nat
          /\ Cardinality(Live(s) \cap asked) <= Cardinality(Live(s))
      BY <2>1, FS_Intersection, FS_CardinalityType
    <2>3. del[s] = IF submaps[s].count = 0 THEN 0 ELSE Cardinality(Live(s) \cap asked)
      BY Zenon
    <2> HIDE DEF del, asked
    <2> QED BY <2>1, <2>2, <2>3
  <1>4. ASSUME NEW s \in Index
        PROVE  /\ submaps'[s] \in Submap /\ submaps'[s].cap = submaps[s].cap
               /\ DOMAIN submaps'[s].map = Live(s) \ asked
               /\ submaps'[s].count = left[s]
    <2>1. /\ submaps[s] \in Submap /\ submaps[s].count \in Nat /\ submaps[s].dead \in Nat
          /\ Live(s) \subseteq Key /\ submaps[s].map \in [Live(s) -> Val]
      BY <1>2, SubmapParts
    <2>2. CASE submaps[s].count = 0
      <3>1. submaps'[s] = submaps[s] BY <1>1, <2>2
      <3>2. Live(s) = {} BY <2>2, EmptyByCount
      <3>3. left[s] = submaps[s].count
        <4>1. del[s] = 0 BY <2>2
        <4> QED BY <2>2, <4>1
      <3>4. DOMAIN submaps[s].map = {} BY <3>2 DEF Live
      <3> QED BY <2>1, <3>1, <3>2, <3>3, <3>4
    <2>3. CASE submaps[s].count # 0
      <3> DEFINE r == submaps[s]
                 map == [k \in Live(s) \ asked |-> submaps[s].map[k]]
                 dead == submaps[s].dead + del[s]
                 n == left[s]
                 q == submaps'[s]
      <3>1. left[s] = IF counted THEN Less(submaps[s].count, del[s]) ELSE submaps[s].count
        <4>1. left[s] = IF counted THEN submaps[s].count - del[s] ELSE submaps[s].count
          BY Zenon
        <4>2. Less(submaps[s].count, del[s]) = submaps[s].count - del[s]
          <5> HIDE DEF del
          <5> QED BY <1>3, <2>1 DEF Less
        <4> QED BY <4>1, <4>2, Zenon
      <3>2. q = [r EXCEPT !.map = map, !.dead = dead, !.count = n]
        <4> HIDE DEF del, asked, left
        <4> QED BY <1>1, <2>3, <3>1
      <3>3. map \in Maps /\ DOMAIN map = Live(s) \ asked
        <4> HIDE DEF asked
        <4>1. map \in [Live(s) \ asked -> Val] /\ Live(s) \ asked \in SUBSET Key BY <2>1
        <4> HIDE DEF map
        <4> QED BY <4>1 DEF Maps
      <3>4. dead \in Nat /\ n \in Nat /\ r \in Submap
        <4>1. left[s] = IF counted THEN submaps[s].count - del[s] ELSE submaps[s].count
          BY Zenon
        <4>2. /\ del[s] \in Nat /\ del[s] <= submaps[s].count
              /\ submaps[s].count \in Nat /\ submaps[s].dead \in Nat
          BY <1>3, <2>1
        <4> HIDE DEF del, left
        <4>3. submaps[s].dead + del[s] \in Nat BY <4>2
        <4>4. left[s] \in Nat BY <4>1, <4>2, SplitNatural
        <4> QED BY <2>1, <4>3, <4>4
      <3> HIDE DEF r, map, dead, n, q
      <3>5. q \in Submap /\ q.cap = r.cap /\ q.map = map /\ q.count = n
        BY <3>2, <3>3, <3>4 DEF Submap
      <3> QED BY <3>3, <3>5 DEF q, r, n
    <2> QED BY <2>2, <2>3
  <1> HIDE DEF left, asked
  <1>5. submaps' \in Seq(Submap) /\ Len(submaps') = Len(submaps) /\ Index' = Index
        /\ submaps' # <<>>
    <2>1. DOMAIN submaps' = 1..Len(submaps) BY <1>1 DEF Index
    <2>2. submaps' = [s \in 1..Len(submaps) |-> submaps'[s]] BY <1>1, <2>1 DEF Index
    <2>3. \A s \in 1..Len(submaps) : submaps'[s] \in Submap BY <1>4 DEF Index
    <2>4. submaps' \in Seq(Submap) /\ Len(submaps') = Len(submaps)
      <3> HIDE DEF Submap
      <3> QED BY <1>2, <2>2, <2>3
    <2> QED BY <1>2, <2>4 DEF Index
  <1>6. \A s \in Index : Live(s)' = Live(s) \ asked BY <1>4 DEF Live
  <1>7. KeyInOneSubmap'
    <2> SUFFICES ASSUME contract, NEW s \in Index, NEW t \in Index, s # t
                 PROVE  Live(s)' \cap Live(t)' = {}
      BY <1>5 DEF KeyInOneSubmap
    <2> QED BY <1>6 DEF DynInv, KeyInOneSubmap
  <1>8. del \in Seq(Nat) /\ left \in Seq(Nat) /\ Counts \in Seq(Nat)
        /\ Len(del) = Len(submaps) /\ Len(left) = Len(submaps) /\ Len(Counts) = Len(submaps)
    <2>1. \A s \in Index : del[s] \in Nat /\ left[s] \in Nat
      <3>1. \A s \in Index : submaps[s].count \in Nat BY <1>2, SubmapParts
      <3> SUFFICES ASSUME NEW s \in Index PROVE del[s] \in Nat /\ left[s] \in Nat OBVIOUS
      <3>2. left[s] = IF counted THEN submaps[s].count - del[s] ELSE submaps[s].count
        BY Zenon DEF left
      <3>3. del[s] \in Nat /\ del[s] <= submaps[s].count /\ submaps[s].count \in Nat
        BY <1>3, <3>1
      <3> HIDE DEF del
      <3> QED BY <3>2, <3>3, SplitNatural
    <2>2. del = [s \in 1..Len(submaps) |-> del[s]] /\ left = [s \in 1..Len(submaps) |-> left[s]]
      BY DEF left, Index
    <2> HIDE DEF del
    <2> QED BY <1>2, <2>1, <2>2, CountsType DEF Index
  <1>9. size = Sum(Counts) BY DEF DynInv, CountsAreSound, Counts
  <1>10. size' = Sum(left) /\ total \in Nat
    <2>1. CASE counted
      <3>1. \A s \in 1..Len(del) : Counts[s] = del[s] + left[s]
        <4> SUFFICES ASSUME NEW s \in Index PROVE Counts[s] = del[s] + left[s]
          BY <1>8 DEF Index
        <4>1. Counts[s] = submaps[s].count /\ left[s] = submaps[s].count - del[s]
          BY <2>1 DEF Counts, left
        <4>2. del[s] \in Nat /\ del[s] <= submaps[s].count /\ submaps[s].count \in Nat
          BY <1>2, <1>3, SubmapParts
        <4> HIDE DEF del
        <4> QED BY <4>1, <4>2, SplitNatural
      <3> HIDE DEF del
      <3>2. Sum(del) \in Nat /\ Sum(left) \in Nat /\ Sum(Counts) = Sum(del) + Sum(left)
        BY <1>8, <3>1, SumAdds
      <3>3. size' = Less(size, Sum(del)) BY <1>1, <2>1
      <3> QED BY <1>9, <3>2, <3>3 DEF Less
    <2>2. CASE ~counted
      <3>1. left = Counts BY <2>2 DEF left, Counts
      <3>2. Sum(del) \in Nat
        <4> HIDE DEF del
        <4> QED BY <1>8, SumType
      <3> QED BY <1>1, <1>9, <2>2, <3>1, <3>2
    <2> QED BY <2>1, <2>2
  <1>11. CountsAreSound'
    <2>1. ASSUME NEW s \in Index
          PROVE  /\ Cardinality(Live(s)') <= submaps'[s].count
                 /\ submaps'[s].count <= Usable(submaps'[s].cap)
      <3>1. /\ IsFiniteSet(Live(s)) /\ Cardinality(Live(s)) \in Nat
            /\ submaps[s].count \in Nat /\ submaps[s].cap \in Nat
            /\ Cardinality(Live(s)) <= submaps[s].count
            /\ submaps[s].count <= Usable(submaps[s].cap)
        BY <1>2, SubmapParts DEF DynInv, CountsAreSound
      <3>2. Usable(submaps[s].cap) \in Nat BY <3>1, UsableGrows
      <3>3. /\ Cardinality(Live(s) \ asked) =
                 Cardinality(Live(s)) - Cardinality(Live(s) \cap asked)
            /\ Cardinality(Live(s) \cap asked) \in Nat
        BY <3>1, FS_Difference, FS_Intersection, FS_CardinalityType
      <3>4. Live(s)' = Live(s) \ asked BY <1>6
      <3>5. submaps'[s].cap = submaps[s].cap /\ submaps'[s].count = left[s] BY <1>4
      <3>6. left[s] = IF counted THEN submaps[s].count - del[s] ELSE submaps[s].count
        BY Zenon DEF left
      <3>7. /\ del[s] \in Nat /\ del[s] <= submaps[s].count
            /\ submaps[s].count # 0 => del[s] = Cardinality(Live(s) \cap asked)
        BY <1>3
      <3> HIDE DEF del
      <3> QED BY <3>1, <3>2, <3>3, <3>4, <3>5, <3>6, <3>7
    <2>2. [s \in Index |-> submaps'[s].count] = left
      <3>1. left = [s \in Index |-> left[s]] BY DEF left
      <3> QED BY <1>4, <3>1, Zenon
    <2>3. size' = Sum([s \in Index |-> submaps'[s].count]) BY <1>10, <2>2
    <2> QED BY <1>5, <2>1, <2>3 DEF CountsAreSound
  <1>12. call' = NoCall BY DEF Idle
  <1>13. OneChunk' /\ CallOK' BY <1>12, NoCallType, OutsideInsertions
  <1>14. ret' \in RetType
    <2>1. asked \subseteq Key BY KeysAsked DEF asked
    <2> HIDE DEF del
    <2> QED BY <1>1, <1>10, <2>1 DEF RetType
  <1>15. size' \in Nat
    <2>1. Sum(left) \in Nat BY <1>8, SumType
    <2> QED BY <1>10, <2>1, Zenon
  <1>16. TypeOK'
    BY <1>5, <1>12, <1>14, <1>15, NoCallType
    DEF DynInv, TypeOK, Submap, Maps, CallType, Elements, RetType
  <1>17. nextCapacity' # 0 BY DEF DynInv
  <1> QED BY <1>7, <1>11, <1>13, <1>16, <1>17 DEF DynInv

LEMMA ClearKeeps ==
    ASSUME DynInv, Clear
    PROVE  DynInv'
  <1>1. TypeOK /\ Len(submaps) \in Nat \ {0} /\ Index = 1..Len(submaps)
    BY SubmapParts DEF DynInv, Index
  <1>2. submaps' = [s \in Index |-> [submaps[s] EXCEPT !.map = <<>>, !.dead = 0, !.count = 0]]
    BY DEF Clear
  <1>3. ASSUME NEW s \in Index
        PROVE  /\ submaps'[s] \in Submap /\ submaps'[s].cap = submaps[s].cap
               /\ DOMAIN submaps'[s].map = {} /\ submaps'[s].count = 0
    <2> DEFINE r == submaps[s]
               q == submaps'[s]
    <2>1. r \in Submap BY <1>1, SubmapParts
    <2>2. <<>> \in Maps /\ DOMAIN <<>> = {}
      <3>1. <<>> \in [{} -> Val] OBVIOUS
      <3> QED BY <3>1 DEF Maps
    <2>3. q = [r EXCEPT !.map = <<>>, !.dead = 0, !.count = 0] BY <1>2
    <2>4. PICK e \in Maps : e = <<>> BY <2>2
    <2>5. q = [r EXCEPT !.map = e, !.dead = 0, !.count = 0] BY <2>3, <2>4
    <2> HIDE DEF q, r
    <2>6. q \in Submap /\ q.cap = r.cap /\ q.map = e /\ q.count = 0
      BY <2>1, <2>5 DEF Submap
    <2> QED BY <2>2, <2>4, <2>6 DEF q, r
  <1>4. submaps' \in Seq(Submap) /\ Len(submaps') = Len(submaps) /\ Index' = Index
        /\ submaps' # <<>>
    <2>1. submaps' = [s \in 1..Len(submaps) |-> submaps'[s]] BY <1>1, <1>2
    <2>2. \A s \in 1..Len(submaps) : submaps'[s] \in Submap BY <1>1, <1>3
    <2>3. submaps' \in Seq(Submap) /\ Len(submaps') = Len(submaps)
      <3> HIDE DEF Submap
      <3> QED BY <1>1, <2>1, <2>2
    <2> QED BY <1>1, <2>3 DEF Index
  <1>5. \A s \in Index : Live(s)' = {} BY <1>3 DEF Live
  <1>6. KeyInOneSubmap' BY <1>4, <1>5 DEF KeyInOneSubmap
  <1>7. CountsAreSound'
    <2>1. ASSUME NEW s \in Index
          PROVE  /\ Cardinality(Live(s)') <= submaps'[s].count
                 /\ submaps'[s].count <= Usable(submaps'[s].cap)
      <3>1. Usable(submaps[s].cap) \in Nat
        <4>1. submaps[s].cap \in Nat BY <1>1, SubmapParts
        <4> QED BY <4>1, UsableGrows
      <3>2. Cardinality(Live(s)') = 0 BY <1>5, FS_EmptySet
      <3> QED BY <1>3, <3>1, <3>2
    <2>2. size' = Sum([s \in Index |-> submaps'[s].count])
      <3> DEFINE f == [s \in Index |-> submaps'[s].count]
      <3>1. f \in Seq(Nat) /\ \A s \in 1..Len(f) : f[s] = 0 BY <1>1, <1>3
      <3>2. Sum(f) = 0
        <4> HIDE DEF f
        <4> QED BY <3>1, SumZeros
      <3> QED BY <3>2 DEF Clear
    <2> QED BY <1>4, <2>1, <2>2 DEF CountsAreSound
  <1>8. call' = NoCall /\ ret' = NoReturn /\ size' = 0 /\ nextSubmap' = 0
        /\ UNCHANGED <<nextCapacity, prep, contract>>
    BY DEF Clear, Idle
  <1>9. OneChunk' /\ CallOK' BY <1>8, NoCallType, OutsideInsertions
  <1>10. ret' \in RetType BY <1>8 DEF NoReturn, RetType
  <1>11. TypeOK'
    BY <1>4, <1>8, <1>10, NoCallType
    DEF DynInv, TypeOK, Submap, Maps, CallType, Elements, RetType
  <1>12. nextCapacity' # 0 BY <1>8 DEF DynInv
  <1> QED BY <1>6, <1>7, <1>9, <1>11, <1>12 DEF DynInv

LEMMA InitEstablishes ==
    ASSUME ExtentsServe, Init
    PROVE  DynInv
  <1>1. InitialCapacity \in Nat BY SizesAssumption DEF SizesAssumption
  <1> DEFINE first == NewSubmap(InitialCapacity)
  <1>2. /\ first \in Submap /\ first.count = 0
        /\ first.cap \in Nat \ {0} /\ DOMAIN first.map = {}
    BY <1>1, NewSubmapType DEF ExtentsServe
  <1>3. submaps = <<first>> BY DEF Init
  <1>4. nextCapacity \in Nat \ {0}
    BY <1>1 DEF Init, ExtentsServe, GROWTH_FACTOR
  <1> HIDE DEF first
  <1>5. submaps \in Seq(Submap) /\ submaps # <<>> /\ Index = {1} /\ submaps[1] = first
    BY <1>2, <1>3 DEF Index
  <1>6. \A s \in Index : Live(s) = {} BY <1>2, <1>5 DEF Live
  <1>7. KeyInOneSubmap BY <1>5 DEF KeyInOneSubmap
  <1>8. CountsAreSound
    <2>1. ASSUME NEW s \in Index
          PROVE  /\ Cardinality(Live(s)) <= submaps[s].count
                 /\ submaps[s].count <= Usable(submaps[s].cap)
      <3>1. Usable(first.cap) \in Nat BY <1>2, UsableGrows
      <3>2. Cardinality(Live(s)) = 0 BY <1>6, FS_EmptySet
      <3> QED BY <1>2, <1>5, <3>1, <3>2
    <2>2. Sum([s \in Index |-> submaps[s].count]) = 0
      <3> DEFINE f == [s \in Index |-> submaps[s].count]
      <3>1. f \in Seq(Nat) /\ \A s \in 1..Len(f) : f[s] = 0
        <4>1. Index = 1..1 BY <1>5
        <4>2. f \in [1..1 -> Nat] /\ \A s \in 1..1 : f[s] = 0 BY <1>2, <1>5, <4>1
        <4> HIDE DEF f
        <4>3. f \in Seq(Nat) /\ Len(f) = 1
          <5> DEFINE one == 1
          <5>1. one \in Nat /\ f \in [1..one -> Nat] BY <4>2
          <5> HIDE DEF one
          <5>2. f \in Seq(Nat) /\ Len(f) = one BY <5>1
          <5> QED BY <5>2 DEF one
        <4> QED BY <4>2, <4>3
      <3> HIDE DEF f
      <3>2. Sum(f) = 0 BY <3>1, SumZeros
      <3> QED BY <3>2 DEF f
    <2> QED BY <2>1, <2>2 DEF CountsAreSound, Init
  <1>9. call = NoCall /\ ret = NoReturn BY DEF Init
  <1>10. OneChunk /\ CallOK BY <1>9, NoCallType DEF OneChunk, CallOK
  <1>11. ret \in RetType BY <1>9 DEF NoReturn, RetType
  <1>12. TypeOK
    BY <1>4, <1>5, <1>9, <1>11, NoCallType
    DEF Init, TypeOK, Submap, Maps, CallType, Elements, RetType
  <1> QED BY <1>4, <1>7, <1>8, <1>10, <1>12 DEF DynInv

LEMMA NextKeeps ==
    ASSUME DynInv, ExtentsServe, [Next]_vars
    PROVE  DynInv'
  <1>1. CASE UNCHANGED vars
    <2>1. ret' \in RetType BY <1>1 DEF vars, DynInv, TypeOK, RetType
    <2>2. UNCHANGED <<submaps, nextSubmap, nextCapacity, size, prep, contract, call, ret>>
      BY <1>1 DEF vars
    <2>3. KeyInOneSubmap' /\ CountsAreSound' /\ ActiveRoom' = ActiveRoom
          /\ submaps' \in Seq(Submap) /\ submaps' # <<>>
          /\ \A b : AllNew(b) => AllNew(b)'
      BY <2>2, Untouched
    <2>4. TypeOK' BY <2>1, <2>2 DEF DynInv, TypeOK
    <2>5. OneChunk' BY <2>2, <2>3 DEF DynInv, OneChunk
    <2>6. CallOK'
      <3>1. AllNew(call.batch) => AllNew(call.batch)'
        BY <2>2 DEF AllNew, Keys, Live, Index
      <3> QED BY <2>2, <3>1 DEF DynInv, CallOK
    <2> QED BY <2>2, <2>3, <2>4, <2>5, <2>6 DEF DynInv
  <1>2. ASSUME NEW op \in InsertOps \cap Calls, NEW b \in Batches, Begin(op, b) PROVE DynInv'
    BY <1>2, BeginKeeps
  <1>3. CASE InsertFast BY <1>3, FastKeeps
  <1>4. CASE InsertLoop BY <1>4, LoopKeeps
  <1>5. CASE InsertOptimistic BY <1>5, OptimisticKeeps
  <1>6. ASSUME NEW n \in Reservations, "reserve" \in Calls, BeginReserve(n) PROVE DynInv'
    BY <1>6, BeginReserveKeeps
  <1>7. CASE ReserveLoop BY <1>7, ReserveKeeps
  <1>8. CASE ReserveReturn BY <1>8, ReserveReturnKeeps
  <1>9. ASSUME NEW ks \in KeyBatches, Erase(ks) PROVE DynInv'
    BY <1>9, EraseKeeps DEF Erase
  <1>10. ASSUME NEW ks \in KeyBatches, EraseAsync(ks) PROVE DynInv'
    BY <1>10, EraseKeeps DEF EraseAsync
  <1>11. ASSUME NEW k \in Key, Find(k) PROVE DynInv'
    BY <1>11, FindKeeps
  <1>12. CASE Clear BY <1>12, ClearKeeps
  <1> QED
    BY <1>1, <1>2, <1>3, <1>4, <1>5, <1>6, <1>7, <1>8, <1>9, <1>10, <1>11, <1>12 DEF Next

--------------------------------------------------------------------------------
THEOREM DynamicMapInvariant == ExtentsServe => (Spec => []DynInv)
  <1> SUFFICES ASSUME ExtentsServe PROVE Spec => []DynInv OBVIOUS
  <1>1. Init => DynInv BY InitEstablishes
  <1>2. DynInv /\ [Next]_vars => DynInv' BY NextKeeps
  <1> QED BY <1>1, <1>2, PTL DEF Spec

\* The states stay what TypeOK says, whatever the capacities asked for.
THEOREM DynamicMapTypes == ExtentsServe => (Spec => []TypeOK)
  <1>1. DynInv => TypeOK BY DEF DynInv
  <1> QED BY <1>1, DynamicMapInvariant, PTL

\* No key is in two submaps, as long as the callers keep to their contract:
\* what the mask of an insertion leaves out is all that older submaps hold.
THEOREM KeysAreInOneSubmap == ExtentsServe => (Spec => []KeyInOneSubmap)
  <1>1. DynInv => KeyInOneSubmap BY DEF DynInv
  <1> QED BY <1>1, DynamicMapInvariant, PTL

\* The counts cover what the submaps hold and keep to the load factor, the size
\* is their sum, by exact and optimistic insertions and erasures alike.
THEOREM CountsStaySound == ExtentsServe => (Spec => []CountsAreSound)
  <1>1. DynInv => CountsAreSound BY DEF DynInv
  <1> QED BY <1>1, DynamicMapInvariant, PTL

\* An insertion, once begun, has room for its whole batch.
THEOREM RoomServesBatch == ExtentsServe => (Spec => []OneChunk)
  <1>1. DynInv => OneChunk BY DEF DynInv
  <1> QED BY <1>1, DynamicMapInvariant, PTL

\* Find answers right for every key, although it skips the submaps whose count
\* is zero and merges what the others answer.
THEOREM LookupsAreExact == ExtentsServe => (Spec => []LookupIsExact)
  <1>1. ASSUME DynInv, NEW k \in Key
        PROVE  \/ \E s \in Index : k \in Live(s) /\ Lookup(k) = submaps[s].map[k]
               \/ Lookup(k) = NoVal /\ \A s \in Index : k \notin Live(s)
    BY <1>1, LookupIsRight DEF RightIn, Index
  <1>2. DynInv => LookupIsExact BY <1>1 DEF LookupIsExact
  <1> QED BY <1>2, DynamicMapInvariant, PTL

--------------------------------------------------------------------------------
(* The refinement of GrowingMap. *)

\* The erased slots of the active submap fit the part that the load factor
\* keeps free.
FewTombstones ==
    submaps[Active].dead <= submaps[Active].cap - Usable(submaps[Active].cap)

--------------------------------------------------------------------------------
(* The submaps as one map. *)

HeldIn(q) == UNION {DOMAIN q[s].map : s \in 1..Len(q)}
Disjoint(q) ==
    \A s, t \in 1..Len(q) : s # t => (DOMAIN q[s].map) \cap (DOMAIN q[t].map) = {}
ContentsOf(q) ==
    [k \in HeldIn(q) |-> q[CHOOSE s \in 1..Len(q) : k \in DOMAIN q[s].map].map[k]]

LEMMA ContentsOfSubmaps ==
    /\ Contents = ContentsOf(submaps) /\ Contents' = ContentsOf(submaps')
    /\ UNION {Live(s) : s \in Index} = HeldIn(submaps)
  BY DEF Contents, ContentsOf, HeldIn, Live, Index

\* A key has the payload that its submap gives it.
LEMMA ContentsOfOwner ==
    ASSUME NEW q, Disjoint(q)
    PROVE  /\ DOMAIN ContentsOf(q) = HeldIn(q)
           /\ \A s \in 1..Len(q) : \A k \in DOMAIN q[s].map :
                 k \in HeldIn(q) /\ ContentsOf(q)[k] = q[s].map[k]
  <1>1. DOMAIN ContentsOf(q) = HeldIn(q) BY DEF ContentsOf
  <1>2. ASSUME NEW s \in 1..Len(q), NEW k \in DOMAIN q[s].map
        PROVE  k \in HeldIn(q) /\ ContentsOf(q)[k] = q[s].map[k]
    <2> DEFINE o == CHOOSE t \in 1..Len(q) : k \in DOMAIN q[t].map
    <2>1. k \in HeldIn(q) BY DEF HeldIn
    <2>2. ContentsOf(q)[k] = q[o].map[k] BY <2>1 DEF ContentsOf
    <2>3. o \in 1..Len(q) /\ k \in DOMAIN q[o].map BY <1>2
    <2> HIDE DEF o
    <2>4. o = s BY <1>2, <2>3 DEF Disjoint
    <2> QED BY <2>1, <2>2, <2>4
  <1> QED BY <1>1, <1>2

LEMMA DisjointSubmaps ==
    ASSUME contract
    PROVE  /\ KeyInOneSubmap => Disjoint(submaps)
           /\ contract' = contract /\ KeyInOneSubmap' => Disjoint(submaps')
  BY DEF KeyInOneSubmap, Disjoint, Live, Index

\* Steps that leave every key its payload leave the map as it is.
LEMMA SameContents ==
    ASSUME NEW q, NEW r, Disjoint(q), Disjoint(r), HeldIn(r) = HeldIn(q),
           \A s \in 1..Len(q) : \A k \in DOMAIN q[s].map :
              \E t \in 1..Len(r) : k \in DOMAIN r[t].map /\ r[t].map[k] = q[s].map[k]
    PROVE  ContentsOf(r) = ContentsOf(q)
  <1>1. ASSUME NEW k \in HeldIn(q) PROVE ContentsOf(r)[k] = ContentsOf(q)[k]
    <2>1. PICK s \in 1..Len(q) : k \in DOMAIN q[s].map BY DEF HeldIn
    <2>2. PICK t \in 1..Len(r) : k \in DOMAIN r[t].map /\ r[t].map[k] = q[s].map[k]
      BY <2>1
    <2>3. ContentsOf(q)[k] = q[s].map[k] BY <2>1, ContentsOfOwner
    <2>4. ContentsOf(r)[k] = r[t].map[k] BY <2>2, ContentsOfOwner
    <2> QED BY <2>2, <2>3, <2>4
  <1>2. /\ ContentsOf(q) = [k \in HeldIn(q) |-> ContentsOf(q)[k]]
        /\ ContentsOf(r) = [k \in HeldIn(q) |-> ContentsOf(r)[k]]
    BY DEF ContentsOf
  <1> QED BY <1>1, <1>2, Zenon

--------------------------------------------------------------------------------
(* Exact counts. *)

\* What is counted as inserted are the keys stored.
LEMMA InsertedExactly ==
    ASSUME NEW b, b \in Seq(Elements), NEW new \in SUBSET (Keys(b) \ Masked(b))
    PROVE  InsertedOf(b, new) = Cardinality(new)
  <1> DEFINE C == Candidates(b)
             N == NotInserted(b, new)
             F == {i \in C : b[i].key \in new /\ ~\E j \in 1..(i - 1) : b[j].key = b[i].key}
             key == [i \in F |-> b[i].key]
  <1>1. Len(b) \in Nat /\ DOMAIN b = 1..Len(b) OBVIOUS
  <1>2. IsFiniteSet(1..Len(b)) /\ Cardinality(1..Len(b)) = Len(b) BY <1>1, FS_Interval
  <1>3. C \in SUBSET (1..Len(b)) /\ N \in SUBSET C /\ F = C \ N
    BY <1>1 DEF Candidates, NotInserted
  <1>4. IsFiniteSet(C) /\ IsFiniteSet(F) BY <1>2, <1>3, FS_Subset
  <1>5. Cardinality(F) = Cardinality(C) - Cardinality(N)
    <2>1. C \cap N = N BY <1>3
    <2> QED BY <1>3, <1>4, <2>1, FS_Difference
  <1>6. key \in Surjection(F, new)
    <2>1. key \in [F -> new] OBVIOUS
    <2>2. ASSUME NEW k \in new PROVE \E i \in F : key[i] = k
      <3> DEFINE S == {i \in 1..Len(b) : b[i].key = k}
      <3>1. S \in SUBSET Nat /\ S # {} BY <1>1 DEF Keys
      <3>2. PICK i \in S : \A m \in S : i <= m
        <4> HIDE DEF S
        <4> QED BY <3>1, LeastNatural
      <3>3. i \in 1..Len(b) /\ b[i].key = k BY <3>2
      <3>4. i \in C BY <1>1, <3>3 DEF Candidates
      <3>5. ASSUME NEW j \in 1..(i - 1), b[j].key = b[i].key PROVE FALSE
        <4>1. j \in S /\ ~(i <= j) BY <1>1, <3>3, <3>5
        <4> QED BY <3>2, <4>1
      <3> QED BY <3>3, <3>4, <3>5
    <2> HIDE DEF F, key
    <2> QED BY <2>1, <2>2 DEF Surjection
  <1>7. key \in Injection(F, new)
    <2>1. \A i, j \in F : key[i] = key[j] => i = j
      <3>1. ASSUME NEW i \in F, NEW j \in F, key[i] = key[j] PROVE i = j
        <4>1. i \in 1..Len(b) /\ j \in 1..Len(b) /\ b[i].key = b[j].key BY <1>3, <3>1
        <4>2. ~(i < j) /\ ~(j < i) BY <1>1, <4>1
        <4> QED BY <1>1, <4>1, <4>2
      <3> QED BY <3>1
    <2>2. key \in [F -> new] OBVIOUS
    <2> HIDE DEF F, key
    <2> QED BY <2>1, <2>2 DEF Injection, IsInjective
  <1>8. Cardinality(new) = Cardinality(F)
    <2> HIDE DEF F, key
    <2> QED BY <1>4, <1>6, <1>7, FS_Surjection
  <1> QED BY <1>5, <1>8 DEF InsertedOf

Joined(Q, n) == UNION {Q[i] : i \in 1..n}

\* The cardinalities of disjoint sets add up.
LEMMA SumDisjoint ==
    ASSUME NEW f, f \in Seq(Nat), NEW Q,
           \A i \in 1..Len(f) : IsFiniteSet(Q[i]) /\ f[i] = Cardinality(Q[i]),
           \A i, j \in 1..Len(f) : i # j => Q[i] \cap Q[j] = {}
    PROVE  Sum(f) = Cardinality(Joined(Q, Len(f)))
  <1> DEFINE n == Len(f)
             U(i) == Joined(Q, i)
  <1>1. PICK a : /\ a \in [0..n -> Nat] /\ a[0] = 0
                 /\ \A i \in 1..n : a[i] = a[i - 1] + f[i]
                 /\ Sum(f) = a[n]
    BY SumSteps
  <1>2. n \in Nat OBVIOUS
  <1>3. ASSUME NEW i \in Nat, i + 1 <= n, IsFiniteSet(U(i)), a[i] = Cardinality(U(i))
        PROVE  IsFiniteSet(U(i + 1)) /\ a[i + 1] = Cardinality(U(i + 1))
    <2>1. i + 1 \in 1..n /\ (i + 1) - 1 = i BY <1>2, <1>3
    <2>2. IsFiniteSet(Q[i + 1]) /\ f[i + 1] = Cardinality(Q[i + 1]) BY <2>1
    <2>3. U(i + 1) = U(i) \cup Q[i + 1]
      <3>1. 1..(i + 1) = (1..i) \cup {i + 1} OBVIOUS
      <3> QED BY <3>1 DEF Joined
    <2>4. U(i) \cap Q[i + 1] = {}
      <3>1. \A j \in 1..i : j \in 1..n /\ j # i + 1 BY <1>2, <1>3
      <3>2. \A j \in 1..i : Q[j] \cap Q[i + 1] = {} BY <2>1, <3>1
      <3> QED BY <3>2 DEF Joined
    <2> HIDE DEF U
    <2>5. /\ IsFiniteSet(U(i) \cup Q[i + 1])
          /\ Cardinality(U(i) \cup Q[i + 1]) = Cardinality(U(i)) + Cardinality(Q[i + 1])
               - Cardinality(U(i) \cap Q[i + 1])
      BY <1>3, <2>2, FS_Union
    <2>6. Cardinality(U(i) \cap Q[i + 1]) = 0 BY <2>4, FS_EmptySet
    <2>7. Cardinality(U(i)) \in Nat /\ Cardinality(Q[i + 1]) \in Nat
      BY <1>3, <2>2, FS_CardinalityType
    <2>8. a[i + 1] = a[i] + f[i + 1] BY <1>1, <2>1
    <2>9. IsFiniteSet(U(i + 1)) /\ Cardinality(U(i + 1)) = Cardinality(U(i) \cup Q[i + 1])
      BY <2>3, <2>5, Zenon
    <2>10. a[i + 1] = Cardinality(U(i)) + Cardinality(Q[i + 1])
      BY <1>3, <2>2, <2>8, Zenon
    <2> QED BY ONLY <2>5, <2>6, <2>7, <2>9, <2>10
  <1> DEFINE S == {i \in Nat : i <= n => IsFiniteSet(U(i)) /\ a[i] = Cardinality(U(i))}
  <1>4. 0 \in S
    <2>1. U(0) = {} BY DEF Joined
    <2>2. IsFiniteSet(U(0)) /\ Cardinality(U(0)) = 0 BY <2>1, FS_EmptySet
    <2> HIDE DEF U
    <2> QED BY <1>1, <2>2
  <1>5. \A i \in Nat : i \in S => i + 1 \in S
    <2> HIDE DEF U
    <2> QED BY <1>2, <1>3
  <1>6. n \in S
    <2> HIDE DEF S
    <2> QED BY <1>2, <1>4, <1>5, Induction
  <1>7. a[n] = Cardinality(U(n)) BY <1>2, <1>6
  <1> QED BY <1>1, <1>7

--------------------------------------------------------------------------------
(* What a step does to the one map. *)

LEMMA SameInterval ==
    ASSUME NEW m \in Nat, NEW n \in Nat, 1..m = 1..n
    PROVE  m = n
  <1>1. (m \in 1..m \/ m = 0) /\ (n \in 1..n \/ n = 0) OBVIOUS
  <1>2. (m \in 1..n \/ m = 0) /\ (n \in 1..m \/ n = 0) BY <1>1
  <1> QED BY <1>2

\* All keys are stored that there is room for.
LEMMA AllAdmitted ==
    ASSUME DynInv, FewTombstones, NEW keys, IsFiniteSet(keys),
           Cardinality(keys) <= ActiveRoom, NEW new \in Admissible(Active, keys)
    PROVE  new = keys \ Live(Active)
  <1> DEFINE missing == keys \ Live(Active)
             live == Cardinality(Live(Active))
             cap == submaps[Active].cap
             dead == submaps[Active].dead
             count == submaps[Active].count
             slots == cap - live - dead
             m == Cardinality(missing)
  <1>1. /\ cap \in Nat /\ dead \in Nat /\ count \in Nat /\ live \in Nat
        /\ live <= count /\ count <= Usable(cap) /\ dead <= cap - Usable(cap)
    BY SubmapParts DEF DynInv, CountsAreSound, FewTombstones
  <1>2. Usable(cap) \in Nat BY <1>1, UsableGrows
  <1>3. IsFiniteSet(missing) /\ m \in Nat /\ m <= Cardinality(keys)
    BY FS_Subset, FS_CardinalityType
  <1>4. Cardinality(keys) \in Nat BY FS_CardinalityType
  <1>5. ActiveRoom = IF Usable(cap) > count THEN Usable(cap) - count ELSE 0 BY DEF ActiveRoom
  <1>6. /\ new \in SUBSET missing
        /\ Cardinality(new) = IF m < slots THEN m ELSE slots
    BY DEF Admissible
  <1> HIDE DEF missing, live, cap, dead, count, m
  <1>7. m <= slots BY <1>1, <1>2, <1>3, <1>4, <1>5
  <1>8. Cardinality(new) = m BY <1>1, <1>3, <1>6, <1>7
  <1>9. new = missing BY <1>3, <1>6, <1>8, FS_Subset DEF m
  <1> QED BY <1>9 DEF missing

\* An empty older submap is skipped, and nothing is missed by it: what the mask
\* and the active submap know of a batch is what the map holds of it.
LEMMA HeldOfBatch ==
    ASSUME DynInv, NEW b
    PROVE  Keys(b) \cap HeldIn(submaps) = Masked(b) \cup (Keys(b) \cap Live(Active))
  <1>1. Active \in Index /\ Index = 1..Len(submaps) /\ Len(submaps) \in Nat
    BY SubmapParts DEF DynInv, Index
  <1>2. \A s \in Index \ {Active} : Live(s) = {} \/ s \in NonEmptyBefore(Active)
    <2> SUFFICES ASSUME NEW s \in Index \ {Active}, submaps[s].count # 0
                 PROVE  s \in NonEmptyBefore(Active)
      BY EmptyByCount
    <2>1. s \in 1..(Active - 1) BY <1>1 DEF Active
    <2> QED BY <2>1 DEF NonEmptyBefore
  <1>3. NonEmptyBefore(Active) \subseteq Index BY <1>1 DEF NonEmptyBefore, Active
  <1> QED BY <1>1, <1>2, <1>3 DEF Masked, HeldIn, Live

\* What the map may be once the keys of W have got payloads of a batch.
AfterStore(q, b, W) ==
    {m \in [HeldIn(q) \cup W -> Val] :
        \A k \in HeldIn(q) \cup W :
            IF k \in W THEN m[k] \in Offers(b, k) ELSE m[k] = ContentsOf(q)[k]}

\* Writing the keys of W, each in one submap, is Store of the abstract map.
LEMMA StoredInSubmaps ==
    ASSUME NEW q, NEW r, NEW b, NEW W, Disjoint(q), Disjoint(r), Len(r) = Len(q),
           HeldIn(r) = HeldIn(q) \cup W,
           \A t \in 1..Len(r) : \A k \in DOMAIN r[t].map :
              /\ r[t].map[k] \in Val
              /\ k \in W => r[t].map[k] \in Offers(b, k)
              /\ k \notin W => k \in DOMAIN q[t].map /\ r[t].map[k] = q[t].map[k]
    PROVE  ContentsOf(r) \in AfterStore(q, b, W)
  <1> DEFINE m == ContentsOf(r)
  <1>1. ASSUME NEW k \in HeldIn(q) \cup W
        PROVE  /\ m[k] \in Val
               /\ k \in W => m[k] \in Offers(b, k)
               /\ k \notin W => m[k] = ContentsOf(q)[k]
    <2>0. k \in HeldIn(r) OBVIOUS
    <2>1. PICK t \in 1..Len(r) : k \in DOMAIN r[t].map BY <2>0 DEF HeldIn
    <2>2. m[k] = r[t].map[k] BY <2>1, ContentsOfOwner
    <2>3. ASSUME k \notin W PROVE m[k] = ContentsOf(q)[k]
      <3>1. k \in DOMAIN q[t].map /\ r[t].map[k] = q[t].map[k] BY <2>1, <2>3
      <3>2. ContentsOf(q)[k] = q[t].map[k] BY <3>1, ContentsOfOwner
      <3> QED BY <2>2, <3>1, <3>2
    <2> QED BY <2>1, <2>2, <2>3
  <1>2. m = [k \in HeldIn(q) \cup W |-> m[k]] BY DEF ContentsOf
  <1> HIDE DEF m
  <1>3. m \in [HeldIn(q) \cup W -> Val] BY <1>1, <1>2
  <1>4. \A k \in HeldIn(q) \cup W :
           IF k \in W THEN m[k] \in Offers(b, k) ELSE m[k] = ContentsOf(q)[k]
    BY <1>1
  <1> QED BY <1>3, <1>4 DEF m, AfterStore

AfterErase(q, asked) ==
    [k \in HeldIn(q) \ (asked \cap HeldIn(q)) |-> ContentsOf(q)[k]]

\* Dropping the keys of asked.
LEMMA ErasedFromSubmaps ==
    ASSUME NEW q, NEW r, NEW asked, Disjoint(q), Disjoint(r), Len(r) = Len(q),
           \A t \in 1..Len(r) :
              /\ DOMAIN r[t].map = (DOMAIN q[t].map) \ asked
              /\ \A k \in DOMAIN r[t].map : r[t].map[k] = q[t].map[k]
    PROVE  ContentsOf(r) = AfterErase(q, asked)
  <1>1. HeldIn(r) = HeldIn(q) \ (asked \cap HeldIn(q)) BY DEF HeldIn
  <1>2. ASSUME NEW k \in HeldIn(r) PROVE ContentsOf(r)[k] = ContentsOf(q)[k]
    <2>1. PICK t \in 1..Len(r) : k \in DOMAIN r[t].map BY DEF HeldIn
    <2>2. k \in DOMAIN q[t].map /\ r[t].map[k] = q[t].map[k] BY <2>1
    <2>3. ContentsOf(r)[k] = r[t].map[k] BY <2>1, ContentsOfOwner
    <2>4. ContentsOf(q)[k] = q[t].map[k] BY <2>1, <2>2, ContentsOfOwner
    <2> QED BY <2>2, <2>3, <2>4
  <1>3. ContentsOf(r) = [k \in HeldIn(r) |-> ContentsOf(r)[k]] BY DEF ContentsOf
  <1> QED BY <1>1, <1>2, <1>3, Zenon DEF AfterErase

\* A new submap adds nothing.
LEMMA GrowthIsHidden ==
    ASSUME DynInv, DynInv', ExtentsServe, contract, contract' = contract, NEW cap \in Nat,
           submaps' = Append(submaps, NewSubmap(cap))
    PROVE  Contents' = Contents
  <1>1. Disjoint(submaps) /\ Disjoint(submaps') BY DisjointSubmaps DEF DynInv
  <1>2. submaps \in Seq(Submap) /\ Len(submaps) \in Nat
    BY SubmapParts DEF DynInv, TypeOK, Submap, Maps
  <1> DEFINE new == NewSubmap(cap)
  <1>3. new \in Submap /\ DOMAIN new.map = {} BY NewSubmapType
  <1> HIDE DEF new
  <1>4. /\ Len(submaps') = Len(submaps) + 1 /\ submaps'[Len(submaps) + 1] = new
        /\ \A s \in 1..Len(submaps) : s \in 1..Len(submaps') /\ submaps'[s] = submaps[s]
    <2>1. submaps' = Append(submaps, new) BY DEF new
    <2> HIDE DEF Submap
    <2> QED BY <1>2, <1>3, <2>1
  <1>5. 1..Len(submaps') = (1..Len(submaps)) \cup {Len(submaps) + 1} BY <1>2, <1>4
  <1>6. HeldIn(submaps') = HeldIn(submaps)
    <2>1. ASSUME NEW k \in HeldIn(submaps') PROVE k \in HeldIn(submaps)
      <3>1. PICK s \in 1..Len(submaps') : k \in DOMAIN submaps'[s].map BY DEF HeldIn
      <3>2. s \in 1..Len(submaps) BY <1>3, <1>4, <1>5, <3>1
      <3>3. k \in DOMAIN submaps[s].map BY <1>4, <3>1, <3>2
      <3> QED BY <3>2, <3>3 DEF HeldIn
    <2>2. HeldIn(submaps) \subseteq HeldIn(submaps') BY <1>4 DEF HeldIn
    <2> QED BY <2>1, <2>2
  <1>7. \A s \in 1..Len(submaps) : \A k \in DOMAIN submaps[s].map :
           \E t \in 1..Len(submaps') : k \in DOMAIN submaps'[t].map
                                       /\ submaps'[t].map[k] = submaps[s].map[k]
    BY <1>4
  <1> QED BY <1>1, <1>6, <1>7, SameContents, ContentsOfSubmaps

--------------------------------------------------------------------------------
(* The steps. *)

\* The map before and after a step, and what the map promises of it.
LEMMA PromisedContents ==
    ASSUME DynInv, contract
    PROVE  /\ DOMAIN Contents = HeldIn(submaps) /\ Contents = ContentsOf(submaps)
           /\ Disjoint(submaps)
  BY ContentsOfSubmaps, ContentsOfOwner, DisjointSubmaps DEF DynInv

LEMMA PromisedStore ==
    ASSUME DynInv, contract, NEW b, NEW W,
           ContentsOf(submaps') \in AfterStore(submaps, b, W)
    PROVE  Promise!Store(b, W)
  <1>1. DOMAIN Contents = HeldIn(submaps) /\ Contents = ContentsOf(submaps)
    BY PromisedContents
  <1>2. \A k : Promise!Offers(b, k) = Offers(b, k) BY DEF Promise!Offers, Offers
  <1>3. Contents' = ContentsOf(submaps') BY ContentsOfSubmaps
  <1> QED BY <1>1, <1>2, <1>3, Zenon DEF AfterStore, Promise!Store, Promise!Live

\* A store into the active submap of all the keys that the map lacks.
LEMMA ActiveStoresNew ==
    ASSUME DynInv, DynInv', contract, contract' = contract,
           NEW b, b \in Seq(Elements), NEW win \in Winners(b), NEW m \in Nat,
           NEW new, new = Keys(b) \ HeldIn(submaps),
           submaps' = [submaps EXCEPT ![Active].map = WithPayloads(Active, new, win),
                                      ![Active].count = @ + m]
    PROVE  Promise!Store(b, new)
  <1>1. /\ submaps \in Seq(Submap) /\ Active \in Index /\ Index = 1..Len(submaps)
        /\ Len(submaps) \in Nat
        /\ \A s \in Index : Live(s) = DOMAIN submaps[s].map
                            /\ submaps[s].map \in [Live(s) -> Val]
    BY SubmapParts DEF DynInv, TypeOK, Submap, Maps, Index, Live
  <1>2. Disjoint(submaps) /\ Disjoint(submaps')
    BY DisjointSubmaps DEF DynInv
  <1> DEFINE wp == WithPayloads(Active, new, win)
             a == Active
             new1 == [submaps[a] EXCEPT !.map = wp, !.count = submaps[a].count + m]
  <1>3. submaps[a] \in Submap BY <1>1
  <1>4. submaps' = [submaps EXCEPT ![a] = new1] BY <1>1, <1>3 DEF Submap
  <1>5. new1.map = wp BY <1>3 DEF Submap
  <1>6. DOMAIN wp = Live(a) \cup new
        /\ \A k \in DOMAIN wp : wp[k] = IF k \in new THEN win[k] ELSE submaps[a].map[k]
    BY DEF WithPayloads
  <1> HIDE DEF new1, wp, a
  <1>7. /\ Len(submaps') = Len(submaps) /\ submaps'[a].map = wp
        /\ \A s \in Index : s # a => submaps'[s] = submaps[s]
    <2>1. a \in 1..Len(submaps) BY <1>1 DEF a
    <2>2. submaps' \in Seq(Submap) BY DEF DynInv, TypeOK, Submap, Maps
    <2>3. DOMAIN submaps = 1..Len(submaps) /\ DOMAIN submaps' = 1..Len(submaps')
      <3> HIDE DEF Submap
      <3> QED BY <1>1, <2>2
    <2>4. /\ DOMAIN submaps' = DOMAIN submaps /\ submaps'[a] = new1
          /\ \A s \in Index : s # a => submaps'[s] = submaps[s]
      BY <1>1, <1>4, <2>1, <2>3, Zenon
    <2>5. Len(submaps') = Len(submaps)
      <3>1. Len(submaps') \in Nat BY <2>2
      <3>2. 1..Len(submaps') = 1..Len(submaps) BY <2>3, <2>4
      <3> QED BY <1>1, <3>1, <3>2, SameInterval
    <2> QED BY <1>5, <2>4, <2>5
  <1>8. \A k \in new : win[k] \in Val /\ win[k] \in Offers(b, k) BY DEF Winners
  <1>9. HeldIn(submaps') = HeldIn(submaps) \cup new
    <2>1. ASSUME NEW k \in HeldIn(submaps') PROVE k \in HeldIn(submaps) \cup new
      <3>1. PICK s \in Index : k \in DOMAIN submaps'[s].map BY <1>1, <1>7 DEF HeldIn
      <3>2. k \in Live(s) \/ k \in new BY <1>1, <1>6, <1>7, <3>1
      <3> QED BY ONLY <1>1, <3>2 DEF HeldIn
    <2>2. ASSUME NEW k \in HeldIn(submaps) PROVE k \in HeldIn(submaps')
      <3>1. PICK s \in Index : k \in Live(s) BY <1>1 DEF HeldIn
      <3>2. k \in DOMAIN submaps'[s].map BY <1>1, <1>6, <1>7, <3>1
      <3> QED BY ONLY <1>1, <1>7, <3>2 DEF HeldIn
    <2>3. a \in 1..Len(submaps') /\ new \subseteq DOMAIN submaps'[a].map
      BY <1>1, <1>6, <1>7 DEF a
    <2>4. new \subseteq HeldIn(submaps') BY <2>3 DEF HeldIn
    <2> QED BY <2>1, <2>2, <2>4
  <1>10. ASSUME NEW t \in 1..Len(submaps'), NEW k \in DOMAIN submaps'[t].map
         PROVE  /\ submaps'[t].map[k] \in Val
                /\ k \in new => submaps'[t].map[k] \in Offers(b, k)
                /\ k \notin new => /\ k \in DOMAIN submaps[t].map
                                   /\ submaps'[t].map[k] = submaps[t].map[k]
    <2>1. t \in Index BY <1>1, <1>7
    <2>2. CASE t = a
      <3>1. k \in Live(a) \cup new /\ submaps'[a].map[k] = wp[k] BY <1>6, <1>7, <2>2
      <3> QED BY <1>1, <1>6, <1>8, <2>1, <2>2, <3>1
    <2>3. CASE t # a
      <3>1. submaps'[t] = submaps[t] BY <1>7, <2>1, <2>3
      <3>2. k \in HeldIn(submaps) BY <1>1, <2>1, <3>1 DEF HeldIn
      <3> QED BY <1>1, <2>1, <3>1, <3>2
    <2> QED BY <2>2, <2>3
  <1>11. ContentsOf(submaps') \in AfterStore(submaps, b, new)
    <2> DEFINE r == submaps'
    <2>1. \A t \in 1..Len(r) : \A k \in DOMAIN r[t].map :
             /\ r[t].map[k] \in Val
             /\ k \in new => r[t].map[k] \in Offers(b, k)
             /\ k \notin new => k \in DOMAIN submaps[t].map /\ r[t].map[k] = submaps[t].map[k]
      BY <1>10
    <2>2. Len(r) = Len(submaps) /\ HeldIn(r) = HeldIn(submaps) \cup new BY <1>7, <1>9
    <2>3. Disjoint(r) BY <1>2
    <2> HIDE DEF r
    <2>4. ContentsOf(r) \in AfterStore(submaps, b, new)
      BY <1>2, <2>1, <2>2, <2>3, StoredInSubmaps
    <2> QED BY <2>4 DEF r
  <1> QED BY <1>11, PromisedStore

\* A store in each submap of the keys it holds, and in the active one of those
\* that the map lacks too.
Written(s, b, new) ==
    IF s = Active THEN new \cup (Live(s) \cap (Keys(b) \ Masked(b)))
    ELSE IF s \in NonEmptyBefore(Active) THEN Live(s) \cap Keys(b) ELSE {}

LEMMA AllSubmapsStore ==
    ASSUME DynInv, DynInv', contract, contract' = contract,
           NEW b, b \in Seq(Elements), NEW win \in [Index -> Winners(b)],
           NEW new, new = Keys(b) \ HeldIn(submaps),
           Len(submaps') = Len(submaps),
           \A s \in Index : submaps'[s].map = WithPayloads(s, Written(s, b, new), win[s])
    PROVE  Promise!Store(b, Keys(b))
  <1>1. /\ Active \in Index /\ Index = 1..Len(submaps) /\ Len(submaps) \in Nat
        /\ \A s \in Index : Live(s) = DOMAIN submaps[s].map
                            /\ submaps[s].map \in [Live(s) -> Val]
    BY SubmapParts DEF DynInv, Index, Live
  <1>2. Disjoint(submaps) /\ Disjoint(submaps') BY DisjointSubmaps DEF DynInv
  <1>3. ASSUME NEW s \in Index
        PROVE  \A k : /\ k \in Live(s) /\ k \in Keys(b) => k \in Written(s, b, new)
                      /\ k \in Written(s, b, new) => k \in Keys(b)
                      /\ k \in Written(s, b, new) => k \in Live(s) \/ (s = Active /\ k \in new)
    <2> SUFFICES ASSUME NEW k, k \in Live(s), k \in Keys(b) PROVE k \in Written(s, b, new)
      BY DEF Written
    <2>1. CASE s = Active
      <3>1. k \notin Masked(b)
        <4>1. NonEmptyBefore(Active) \subseteq Index \ {Active}
          BY <1>1 DEF NonEmptyBefore, Active
        <4>2. \A t \in Index \ {Active} : k \notin Live(t)
          BY <1>1, <2>1 DEF DynInv, KeyInOneSubmap
        <4> QED BY <4>1, <4>2 DEF Masked
      <3> QED BY <2>1, <3>1 DEF Written
    <2>2. CASE s # Active
      <3>1. submaps[s].count # 0 BY EmptyByCount
      <3>2. s \in 1..(Active - 1) BY <1>1, <2>2 DEF Active
      <3> QED BY <2>2, <3>1, <3>2 DEF Written, NonEmptyBefore
    <2> QED BY <2>1, <2>2
  <1> DEFINE r == submaps'
             wp(s) == WithPayloads(s, Written(s, b, new), win[s])
  <1>4. ASSUME NEW s \in Index
        PROVE  /\ DOMAIN r[s].map = Live(s) \cup Written(s, b, new)
               /\ \A k \in DOMAIN r[s].map :
                     r[s].map[k] = IF k \in Written(s, b, new) THEN win[s][k]
                                   ELSE submaps[s].map[k]
    <2>1. r[s].map = wp(s) OBVIOUS
    <2>2. DOMAIN wp(s) = Live(s) \cup Written(s, b, new)
          /\ \A k \in DOMAIN wp(s) : wp(s)[k] = IF k \in Written(s, b, new) THEN win[s][k]
                                                ELSE submaps[s].map[k]
      BY DEF WithPayloads
    <2> HIDE DEF wp, r
    <2> QED BY <2>1, <2>2
  <1>5. \A s \in Index : \A k \in Keys(b) : win[s][k] \in Val /\ win[s][k] \in Offers(b, k)
    BY DEF Winners
  <1>6. /\ Disjoint(r) /\ Len(r) = Len(submaps) /\ 1..Len(r) = Index
    BY <1>1, <1>2
  <1> HIDE DEF r
  <1>7. HeldIn(r) = HeldIn(submaps) \cup Keys(b)
    <2>1. ASSUME NEW k \in HeldIn(r) PROVE k \in HeldIn(submaps) \cup Keys(b)
      <3>1. PICK s \in Index : k \in DOMAIN r[s].map BY <1>6 DEF HeldIn
      <3>2. k \in Live(s) \cup Written(s, b, new) BY <1>4, <3>1, Zenon
      <3>3. k \in Live(s) \/ k \in Keys(b) BY <1>3, <3>2
      <3> QED BY <1>1, <3>3 DEF HeldIn
    <2>2. ASSUME NEW k \in HeldIn(submaps) PROVE k \in HeldIn(r)
      <3>1. PICK s \in Index : k \in Live(s) BY <1>1 DEF HeldIn
      <3>2. k \in DOMAIN r[s].map BY <1>4, <3>1
      <3> QED BY <1>6, <3>1, <3>2 DEF HeldIn
    <2>3. ASSUME NEW k \in new PROVE k \in HeldIn(r)
      <3>1. k \in Written(Active, b, new) BY DEF Written
      <3>2. k \in DOMAIN r[Active].map BY <1>1, <1>4, <3>1
      <3> QED BY <1>1, <1>6, <3>2 DEF HeldIn
    <2> QED BY <2>1, <2>2, <2>3
  <1>8. ASSUME NEW t \in 1..Len(r), NEW k \in DOMAIN r[t].map
        PROVE  /\ r[t].map[k] \in Val
               /\ k \in Keys(b) => r[t].map[k] \in Offers(b, k)
               /\ k \notin Keys(b) => /\ k \in DOMAIN submaps[t].map
                                      /\ r[t].map[k] = submaps[t].map[k]
    <2>1. t \in Index /\ k \in Live(t) \cup Written(t, b, new) BY <1>4, <1>6
    <2>2. CASE k \in Written(t, b, new)
      <3>1. k \in Keys(b) /\ r[t].map[k] = win[t][k] BY <1>3, <1>4, <2>1, <2>2
      <3> QED BY <1>5, <2>1, <3>1
    <2>3. CASE k \notin Written(t, b, new)
      <3>1. k \in Live(t) /\ k \notin Keys(b) /\ r[t].map[k] = submaps[t].map[k]
        BY <1>3, <1>4, <2>1, <2>3
      <3> QED BY <1>1, <2>1, <3>1
    <2> QED BY <2>2, <2>3
  <1>9. ContentsOf(r) \in AfterStore(submaps, b, Keys(b))
    BY <1>2, <1>6, <1>7, <1>8, StoredInSubmaps
  <1> QED BY <1>9, PromisedStore DEF r

LEMMA SameCardinality == \A S : Promise!Cardinality(S) = Cardinality(S)
  BY DEF Promise!Cardinality, Cardinality

\* What the insertions have in common: they return how many keys were new.
LEMMA PromisedInsert ==
    ASSUME DynInv, contract, call.op \in {"insert", "upsert", "append"},
           NEW new, new = Keys(call.batch) \ HeldIn(submaps),
           Promise!Store(call.batch, IF call.op = "upsert" THEN Keys(call.batch) ELSE new),
           size' = size + Cardinality(new), Returned({}, Cardinality(new), NoVal), Finish
    PROVE  Promise!Insert
  <1>1. DOMAIN Contents = HeldIn(submaps) BY PromisedContents
  <1>2. Pending.op = call.op /\ Pending.batch = call.batch BY DEF Pending
  <1>3. Promise!Keys(call.batch) = Keys(call.batch) BY DEF Promise!Keys, Keys
  <1>4. Pending' = Promise!NoCall BY DEF Pending, Finish, NoCall, Promise!NoCall
  <1>5. Promise!Returned({}, Cardinality(new), NoVal) BY DEF Promise!Returned, Returned
  <1>6. Promise!Keys(Pending.batch) \ DOMAIN Contents = new BY <1>1, <1>2, <1>3
  <1>7. Promise!Store(Pending.batch,
                      IF Pending.op = "upsert" THEN Promise!Keys(Pending.batch) ELSE new)
    BY <1>2, <1>3
  <1>8. Pending.op \in {"insert", "upsert", "append"} BY <1>2
  <1> QED BY <1>4, <1>5, <1>6, <1>7, <1>8, SameCardinality DEF Promise!Insert, Promise!Live

LEMMA FastRefines ==
    ASSUME DynInv, DynInv', FewTombstones, contract, InsertFast
    PROVE  Promise!Insert
  <1> DEFINE b == call.batch
  <1>1. call.op = "insert" /\ NonEmptyBefore(Active) = {} /\ contract' = contract /\ Finish
    BY DEF InsertFast
  <1>2. b \in Seq(Elements) /\ Len(b) \in Nat /\ ActiveRoom >= Len(b) /\ ActiveRoom \in Nat
    BY <1>1, BatchFits DEF InsertOps
  <1>3. PICK new \in Admissible(Active, Keys(b)) : \E win \in Winners(b) :
          /\ submaps' = [submaps EXCEPT ![Active].map = WithPayloads(Active, new, win),
                                        ![Active].count = @ + Cardinality(new)]
          /\ size' = size + Cardinality(new)
          /\ Returned({}, Cardinality(new), NoVal)
    BY DEF InsertFast
  <1>4. IsFiniteSet(Keys(b)) /\ Cardinality(Keys(b)) <= ActiveRoom
        /\ IsFiniteSet(new) /\ Cardinality(new) \in Nat
    <2>1. IsFiniteSet(Keys(b)) /\ Cardinality(Keys(b)) \in Nat /\ Cardinality(Keys(b)) <= Len(b)
      BY <1>2, KeysOfBatch
    <2>2. new \subseteq Keys(b) BY <1>3 DEF Admissible
    <2>3. IsFiniteSet(new) BY <2>1, <2>2, FS_Subset
    <2> HIDE DEF b
    <2> QED BY <1>2, <2>1, <2>3, FS_CardinalityType
  <1>5. new = Keys(b) \ HeldIn(submaps)
    <2>1. new = Keys(b) \ Live(Active) BY <1>3, <1>4, AllAdmitted
    <2>2. Masked(b) = {} BY <1>1 DEF Masked
    <2> QED BY <2>1, <2>2, HeldOfBatch
  <1>6. Promise!Store(b, new)
    <2> DEFINE m == Cardinality(new)
    <2>1. PICK win \in Winners(b) :
            submaps' = [submaps EXCEPT ![Active].map = WithPayloads(Active, new, win),
                                       ![Active].count = @ + m]
      BY <1>3
    <2>2. m \in Nat BY <1>4
    <2> HIDE DEF b, m
    <2> QED BY <1>1, <1>2, <1>5, <2>1, <2>2, ActiveStoresNew
  <1>7. size' = size + Cardinality(new) /\ Returned({}, Cardinality(new), NoVal)
    BY <1>3
  <1> QED BY <1>1, <1>5, <1>6, <1>7, PromisedInsert

LEMMA AppendRefines ==
    ASSUME DynInv, DynInv', FewTombstones, contract, InsertOptimistic
    PROVE  Promise!Insert
  <1> DEFINE b == call.batch
             n == Len(b)
  <1>1. /\ contract' = contract /\ Finish /\ size' = size + n /\ Returned({}, n, NoVal)
    BY DEF InsertOptimistic
  <1>2. call.op = "append" /\ AllNew(b)
    BY DEF InsertOptimistic, DynInv, CallOK, InsertOps
  <1>3. b \in Seq(Elements) /\ n \in Nat /\ ActiveRoom >= n /\ ActiveRoom \in Nat
    BY <1>2, BatchFits DEF InsertOps
  <1>4. PICK new \in Admissible(Active, Keys(b)) : \E win \in Winners(b) :
          submaps' = [submaps EXCEPT ![Active].map = WithPayloads(Active, new, win),
                                     ![Active].count = @ + n]
    BY DEF InsertOptimistic
  <1>5. IsFiniteSet(Keys(b)) /\ Cardinality(Keys(b)) = n BY <1>2, <1>3, KeysOfBatch DEF AllNew
  <1>6. new = Keys(b) /\ new = Keys(b) \ HeldIn(submaps)
    <2>1. Cardinality(Keys(b)) <= ActiveRoom BY <1>3, <1>5
    <2>2. new = Keys(b) \ Live(Active) BY <1>4, <1>5, <2>1, AllAdmitted
    <2>3. Active \in Index BY SubmapParts DEF DynInv
    <2>4. Keys(b) \cap HeldIn(submaps) = {} BY <1>2 DEF AllNew, HeldIn, Live, Index
    <2> QED BY <1>2, <2>2, <2>3, <2>4 DEF AllNew
  <1>7. Promise!Store(b, new)
    <2>1. PICK win \in Winners(b) :
            submaps' = [submaps EXCEPT ![Active].map = WithPayloads(Active, new, win),
                                       ![Active].count = @ + n]
      BY <1>4
    <2> HIDE DEF b, n
    <2> QED BY <1>1, <1>3, <1>6, <2>1, ActiveStoresNew
  <1>8. Cardinality(new) = n BY <1>5, <1>6
  <1>9. size' = size + Cardinality(new) /\ Returned({}, Cardinality(new), NoVal)
    BY <1>1, <1>8
  <1> QED BY <1>1, <1>2, <1>6, <1>7, <1>9, PromisedInsert

LEMMA LoopRefines ==
    ASSUME DynInv, DynInv', FewTombstones, contract, InsertLoop
    PROVE  Promise!Insert
  <1> DEFINE b == call.batch
             keys == Keys(b) \ Masked(b)
  <1>1. call.op \in {"insert", "upsert"} BY DEF InsertLoop
  <1>2. /\ b \in Seq(Elements) /\ Len(b) \in Nat /\ ActiveRoom >= Len(b) /\ ActiveRoom \in Nat
        /\ call.offset = 0
    BY <1>1, BatchFits DEF InsertOps
  <1>3. /\ IF call.op = "insert" THEN InsertChunk(b) ELSE InsertOrAssignChunk(b)
        /\ contract' = contract
    BY <1>1, ChunkIsBatch, Zenon DEF InsertLoop
  <1>4. /\ IsFiniteSet(keys) /\ Cardinality(keys) <= ActiveRoom
    <2>1. IsFiniteSet(Keys(b)) /\ Cardinality(Keys(b)) \in Nat /\ Cardinality(Keys(b)) <= Len(b)
      BY <1>2, KeysOfBatch
    <2>2. keys \in SUBSET Keys(b) OBVIOUS
    <2> HIDE DEF keys, b
    <2>3. IsFiniteSet(keys) /\ Cardinality(keys) <= Cardinality(Keys(b))
      BY <2>1, <2>2, FS_Subset
    <2>4. Cardinality(keys) \in Nat BY <2>3, FS_CardinalityType
    <2> QED BY <1>2, <2>1, <2>3, <2>4
  <1> DEFINE new == Keys(b) \ HeldIn(submaps)
             m == InsertedOf(b, new)
  <1>5. \A x \in Admissible(Active, keys) : x = new
    <2> SUFFICES ASSUME NEW x \in Admissible(Active, keys) PROVE x = new OBVIOUS
    <2>1. x = keys \ Live(Active)
      <3> HIDE DEF keys
      <3> QED BY <1>4, AllAdmitted
    <2>2. Keys(b) \cap HeldIn(submaps) = Masked(b) \cup (Keys(b) \cap Live(Active))
      BY HeldOfBatch
    <2> QED BY <2>1, <2>2
  <1>6. m = Cardinality(new) /\ m \in Nat
    <2>1. new \in SUBSET keys
      <3>1. Keys(b) \cap HeldIn(submaps) = Masked(b) \cup (Keys(b) \cap Live(Active))
        BY HeldOfBatch
      <3> QED BY <3>1
    <2> HIDE DEF new, b
    <2> QED BY <1>2, <2>1, InsertedExactly, InsertedBounds
  <1> HIDE DEF keys
  <1>7. Inserted(Len(b), m)
        /\ Promise!Store(b, IF call.op = "upsert" THEN Keys(b) ELSE new)
    <2>1. CASE call.op = "insert"
      <3>1. InsertChunk(b) BY <1>3, <2>1
      <3>2. PICK x \in Admissible(Active, keys) : \E win \in Winners(b) :
              /\ submaps' = [submaps EXCEPT ![Active].map = WithPayloads(Active, x, win),
                                            ![Active].count = @ + InsertedOf(b, x)]
              /\ Inserted(Len(b), InsertedOf(b, x))
        BY <3>1 DEF InsertChunk, keys
      <3>3. x = new BY <1>5
      <3>4. PICK win \in Winners(b) :
              submaps' = [submaps EXCEPT ![Active].map = WithPayloads(Active, new, win),
                                         ![Active].count = @ + m]
        BY <3>2, <3>3
      <3>5. Inserted(Len(b), m) BY <3>2, <3>3
      <3> HIDE DEF b, m
      <3>6. new = Keys(b) \ HeldIn(submaps) OBVIOUS
      <3> HIDE DEF new
      <3>7. Promise!Store(b, new)
        BY <1>2, <1>3, <1>6, <3>4, <3>6, ActiveStoresNew
      <3> QED BY <2>1, <3>5, <3>7
    <2>2. CASE call.op = "upsert"
      <3>1. InsertOrAssignChunk(b) BY <1>3, <2>2
      <3>2. PICK x \in Admissible(Active, keys) : \E win \in [Index -> Winners(b)] :
              /\ submaps' = [s \in Index |->
                     [submaps[s] EXCEPT
                         !.map = WithPayloads(s, Written(s, b, x), win[s]),
                         !.count = IF s = Active THEN @ + InsertedOf(b, x) ELSE @]]
              /\ Inserted(Len(b), InsertedOf(b, x))
        BY <3>1, Zenon DEF InsertOrAssignChunk, Written, keys
      <3>3. x = new BY <1>5
      <3>4. PICK win \in [Index -> Winners(b)] :
              submaps' = [s \in Index |->
                     [submaps[s] EXCEPT
                         !.map = WithPayloads(s, Written(s, b, new), win[s]),
                         !.count = IF s = Active THEN @ + m ELSE @]]
        BY <3>2, <3>3
      <3>5. Inserted(Len(b), m) BY <3>2, <3>3
      <3>6. new = Keys(b) \ HeldIn(submaps) OBVIOUS
      <3> HIDE DEF b, m, new
      <3>7. Len(submaps') = Len(submaps)
        <4>1. submaps' \in Seq(Submap) /\ Len(submaps) \in Nat
          BY SubmapParts DEF DynInv, TypeOK, Submap, Maps
        <4>2. DOMAIN submaps' = Index BY <3>4, Zenon
        <4>3. Len(submaps') \in Nat /\ DOMAIN submaps' = 1..Len(submaps')
          <5> HIDE DEF Submap
          <5> QED BY <4>1
        <4> QED BY <4>1, <4>2, <4>3, SameInterval DEF Index
      <3>8. ASSUME NEW s \in Index
            PROVE  submaps'[s].map = WithPayloads(s, Written(s, b, new), win[s])
        <4> DEFINE wp == WithPayloads(s, Written(s, b, new), win[s])
                   n == IF s = Active THEN submaps[s].count + m ELSE submaps[s].count
                   q == submaps'[s]
                   r == submaps[s]
        <4>1. q = [r EXCEPT !.map = wp, !.count = n] BY <3>4, Zenon
        <4>2. r \in Submap BY SubmapParts DEF DynInv
        <4> HIDE DEF q, r, wp, n
        <4>3. q.map = wp BY <4>1, <4>2, Zenon DEF Submap
        <4> QED BY <4>3 DEF q, wp
      <3>9. Promise!Store(b, Keys(b))
        BY <1>2, <1>3, <3>4, <3>6, <3>7, <3>8, AllSubmapsStore, ZenonT(60)
      <3> QED BY <2>2, <3>5, <3>9
    <2> QED BY <1>1, <2>1, <2>2
  <1>8. size' = size + Cardinality(new) /\ Returned({}, Cardinality(new), NoVal) /\ Finish
    <2>1. call.offset + Len(b) = Len(call.batch) BY <1>2
    <2>2. size' = size + m /\ Returned({}, call.total + m, NoVal) /\ Finish
      BY <1>7, <2>1 DEF Inserted
    <2>3. call.total + m = m
      <3>1. call.total = 0 BY <1>1 DEF DynInv, CallOK, InsertOps
      <3> QED BY <1>6, <3>1
    <2> HIDE DEF m
    <2> QED BY <1>6, <2>2, <2>3
  <1> HIDE DEF m
  <1> QED BY <1>1, <1>7, <1>8, PromisedInsert

\* Room is made without the map showing it.
LEMMA BeginRefines ==
    ASSUME DynInv, DynInv', ExtentsServe, contract,
           NEW op \in InsertOps \cap Calls, NEW b \in Batches, Begin(op, b)
    PROVE  Promise!Begin(op, b) /\ op \in {"insert", "upsert", "append"}
  <1>1. /\ call = NoCall /\ op # "async" /\ contract' = contract /\ size' = size
        /\ call' = [NoCall EXCEPT !.op = op, !.batch = b] /\ ret' = NoReturn
    BY DEF Begin, Idle
  <1>2. Contents' = Contents
    <2>1. CASE ActiveRoom >= Len(b)
      <3>1. submaps' = submaps BY <2>1 DEF Begin, EnsureActiveRoom
      <3> QED BY <3>1 DEF Contents, Live, Index
    <2>2. CASE ~(ActiveRoom >= Len(b))
      <3> DEFINE target == GrowTarget(Len(b))
                 cap == IF Prebuilt(target) THEN nextSubmap ELSE GrownCapacity(target)
      <3>1. submaps' = Append(submaps, NewSubmap(cap))
        BY <2>2 DEF Begin, EnsureActiveRoom, ActivateNext
      <3>2. Len(b) \in Nat
        <4>1. PICK n \in 1..MaxBatch : b \in [1..n -> Elements] BY DEF Batches, Elements
        <4>2. n \in Nat BY SizesAssumption DEF SizesAssumption
        <4>3. Len(b) = n BY <4>1, <4>2
        <4> QED BY <4>2, <4>3
      <3>3. cap \in Nat BY <3>2, SizesType, GrowTargetServes DEF Prebuilt
      <3> HIDE DEF cap
      <3> QED BY <1>1, <3>1, <3>3, GrowthIsHidden
    <2> QED BY <2>1, <2>2
  <1>3. Pending = Promise!NoCall BY <1>1 DEF Pending, NoCall, Promise!NoCall
  <1>4. Pending' = [op |-> op, batch |-> b] BY <1>1 DEF Pending, NoCall
  <1>5. ret' = Promise!NoReturn BY <1>1 DEF NoReturn, Promise!NoReturn
  <1>6. Promise!Begin(op, b) BY <1>1, <1>2, <1>3, <1>4, <1>5 DEF Promise!Begin
  <1> QED BY <1>1, <1>6 DEF InsertOps

LEMMA BeginReserveRefines ==
    ASSUME NEW n, BeginReserve(n)
    PROVE  Promise!Begin("reserve", <<>>)
  <1>1. Contents' = Contents BY DEF BeginReserve, Contents, Live, Index
  <1>2. Pending = Promise!NoCall
    BY DEF BeginReserve, Idle, Pending, NoCall, Promise!NoCall
  <1>3. Pending' = [op |-> "reserve", batch |-> <<>>] BY DEF BeginReserve, Pending, NoCall
  <1> QED BY <1>1, <1>2, <1>3
          DEF BeginReserve, NoReturn, Promise!NoReturn, Promise!Begin

\* The submaps that Reserve adds do not show.
LEMMA ReserveIsHidden ==
    ASSUME DynInv, DynInv', ExtentsServe, contract, ReserveLoop
    PROVE  UNCHANGED Promise!vars
  <1>1. contract' = contract /\ size' = size /\ ret' = ret BY DEF ReserveLoop
  <1>2. Contents' = Contents
    <2>1. CASE call.idx <= Len(submaps)
      <3>1. submaps' = submaps BY <2>1 DEF ReserveLoop
      <3> QED BY <3>1 DEF Contents, Live, Index
    <2>2. CASE ~(call.idx <= Len(submaps))
      <3>1. submaps' = Append(submaps, NewSubmap(nextCapacity)) BY <2>2 DEF ReserveLoop
      <3> QED BY <1>1, <3>1, SizesType, GrowthIsHidden
    <2> QED BY <2>1, <2>2
  <1>3. Pending' = Pending
    <2>1. call \in CallType BY SizesType
    <2>2. call'.op = call.op /\ call'.batch = call.batch BY <2>1 DEF ReserveLoop, CallType
    <2> QED BY <2>2 DEF Pending
  <1> QED BY <1>1, <1>2, <1>3 DEF Promise!vars

LEMMA ReserveReturnRefines ==
    ASSUME ReserveReturn
    PROVE  Promise!Reserve
  BY DEF ReserveReturn, Finish, Contents, Live, Index, Pending, NoCall, Promise!NoCall,
         Promise!Reserve

LEMMA FindRefines ==
    ASSUME DynInv, contract, NEW k \in Key, Find(k)
    PROVE  Promise!Find(k)
  <1>1. DOMAIN Contents = HeldIn(submaps) /\ Contents = ContentsOf(submaps)
        /\ Disjoint(submaps)
    BY PromisedContents
  <1>2. Index = 1..Len(submaps) /\ \A s \in Index : Live(s) = DOMAIN submaps[s].map
    BY DEF Index, Live
  <1>3. Lookup(k) = IF k \in DOMAIN Contents THEN Contents[k] ELSE NoVal
    <2>1. RightIn(k, Lookup(k), 1, Len(submaps)) BY LookupIsRight
    <2>2. ASSUME NEW s \in Index, k \in Live(s), Lookup(k) = submaps[s].map[k]
          PROVE  k \in DOMAIN Contents /\ Contents[k] = Lookup(k)
      BY <1>1, <1>2, <2>2, ContentsOfOwner
    <2>3. ASSUME \A s \in Index : k \notin Live(s) PROVE k \notin DOMAIN Contents
      BY <1>1, <1>2, <2>3 DEF HeldIn
    <2> QED BY <1>2, <2>1, <2>2, <2>3 DEF RightIn
  <1>4. Contents' = Contents /\ Pending' = Pending /\ size' = size
    BY DEF Find, Contents, Live, Index, Pending
  <1>5. Pending = Promise!NoCall BY DEF Find, Idle, Pending, NoCall, Promise!NoCall
  <1>6. Returned({k}, 0, Lookup(k)) BY DEF Find
  <1> QED BY <1>3, <1>4, <1>5, <1>6
          DEF Promise!Find, Promise!Returned, Promise!Live, Returned

LEMMA ClearRefines ==
    ASSUME DynInv, Clear
    PROVE  Promise!Clear
  <1>1. submaps' = [s \in Index |-> [submaps[s] EXCEPT !.map = <<>>, !.dead = 0, !.count = 0]]
    BY DEF Clear
  <1>2. Contents' = <<>>
    <2>1. submaps \in Seq(Submap) /\ Len(submaps) \in Nat /\ Index = 1..Len(submaps)
          /\ \A s \in Index : submaps[s] \in Submap
      BY SubmapParts DEF DynInv, TypeOK, Submap, Maps, Index
    <2>2. ASSUME NEW s \in Index PROVE DOMAIN submaps'[s].map = {}
      <3> DEFINE r == submaps[s]
                 q == submaps'[s]
      <3>1. q = [r EXCEPT !.map = <<>>, !.dead = 0, !.count = 0] BY <1>1
      <3>2. r \in Submap BY <2>1
      <3> HIDE DEF q, r
      <3>3. q.map = <<>> BY <3>1, <3>2 DEF Submap
      <3> QED BY <3>3 DEF q
    <2>3. submaps' = [s \in 1..Len(submaps) |-> submaps'[s]] BY <1>1, <2>1
    <2>4. Len(submaps') = Len(submaps) BY <2>1, <2>3
    <2>5. HeldIn(submaps') = {} BY <2>1, <2>2, <2>4 DEF HeldIn
    <2>6. ContentsOf(submaps') = <<>> BY <2>5 DEF ContentsOf
    <2> QED BY <2>6, ContentsOfSubmaps
  <1>3. Pending = Promise!NoCall /\ Pending' = Pending
    BY DEF Clear, Idle, Pending, NoCall, Promise!NoCall
  <1> QED BY <1>2, <1>3 DEF Clear, NoReturn, Promise!NoReturn, Promise!Clear

LEMMA InitRefines ==
    ASSUME Init
    PROVE  Promise!Init
  <1> DEFINE first == NewSubmap(InitialCapacity)
  <1>1. submaps = <<first>> /\ DOMAIN first.map = {} BY DEF Init, NewSubmap
  <1> HIDE DEF first
  <1>2. HeldIn(submaps) = {} BY <1>1 DEF HeldIn
  <1>3. Contents = <<>>
    <2>1. ContentsOf(submaps) = <<>> BY <1>2 DEF ContentsOf
    <2> QED BY <2>1, ContentsOfSubmaps
  <1>4. Pending = Promise!NoCall BY DEF Init, Pending, NoCall, Promise!NoCall
  <1> QED BY <1>3, <1>4 DEF Init, NoReturn, Promise!NoReturn, Promise!Init

\* What is deleted in the submaps is what the map holds of the keys asked, and
\* the size covers it.
LEMMA DeletedTotal ==
    ASSUME DynInv, contract, NEW asked, NEW del, DOMAIN del = Index,
           \A s \in Index : del[s] = IF submaps[s].count = 0 THEN 0
                                     ELSE Cardinality(Live(s) \cap asked),
           del = [s \in Index |-> del[s]]
    PROVE  /\ Sum(del) = Cardinality(asked \cap HeldIn(submaps))
           /\ Sum(del) \in Nat /\ Sum(del) <= size
  <1>1. /\ TypeOK /\ Len(submaps) \in Nat /\ Index = 1..Len(submaps) /\ size \in Nat
    BY SubmapParts, SizesType DEF DynInv, Index
  <1>2. ASSUME NEW s \in Index
        PROVE  /\ IsFiniteSet(Live(s) \cap asked)
               /\ del[s] = Cardinality(Live(s) \cap asked)
               /\ del[s] \in Nat /\ submaps[s].count \in Nat /\ del[s] <= submaps[s].count
    <2>1. /\ IsFiniteSet(Live(s)) /\ Cardinality(Live(s)) \in Nat /\ submaps[s].count \in Nat
          /\ Cardinality(Live(s)) <= submaps[s].count
      BY <1>1, SubmapParts DEF DynInv, CountsAreSound
    <2>2. IsFiniteSet(Live(s) \cap asked) BY <2>1, FS_Intersection
    <2>3. /\ Cardinality(Live(s) \cap asked) \in Nat
          /\ Cardinality(Live(s) \cap asked) <= Cardinality(Live(s))
      BY <2>1, FS_Intersection, FS_CardinalityType
    <2>4. CASE submaps[s].count = 0
      <3>1. Live(s) \cap asked = {} BY <2>4, EmptyByCount
      <3>2. Cardinality(Live(s) \cap asked) = 0 BY <3>1, FS_EmptySet
      <3> QED BY <2>1, <2>2, <2>3, <2>4, <3>2
    <2>5. CASE submaps[s].count # 0 BY <2>1, <2>2, <2>3, <2>5
    <2> QED BY <2>4, <2>5
  <1> DEFINE left == [s \in Index |-> submaps[s].count - del[s]]
             Q == [s \in Index |-> Live(s) \cap asked]
  <1>3. \A s \in Index : left[s] \in Nat /\ Counts[s] = del[s] + left[s]
    <2> SUFFICES ASSUME NEW s \in Index
                 PROVE  left[s] \in Nat /\ Counts[s] = del[s] + left[s]
      OBVIOUS
    <2>1. left[s] = submaps[s].count - del[s] /\ Counts[s] = submaps[s].count BY DEF Counts
    <2> QED BY <1>2, <2>1, SplitNatural
  <1>4. /\ del \in Seq(Nat) /\ left \in Seq(Nat) /\ Counts \in Seq(Nat)
        /\ Len(del) = Len(submaps) /\ Len(left) = Len(submaps) /\ Len(Counts) = Len(submaps)
    <2>1. left = [s \in 1..Len(submaps) |-> left[s]] BY <1>1
    <2>2. del \in [1..Len(submaps) -> Nat] BY <1>1, <1>2
    <2> HIDE DEF left
    <2>3. left \in [1..Len(submaps) -> Nat] BY <1>1, <1>3, <2>1
    <2> DEFINE n == Len(submaps)
    <2>4. n \in Nat /\ del \in [1..n -> Nat] /\ left \in [1..n -> Nat] BY <1>1, <2>2, <2>3
    <2> HIDE DEF n
    <2>5. del \in Seq(Nat) /\ left \in Seq(Nat) /\ Len(del) = n /\ Len(left) = n
      BY ONLY <2>4
    <2> QED BY <1>1, <2>5, CountsType DEF n
  <1>5. Sum(del) \in Nat /\ Sum(left) \in Nat /\ Sum(Counts) = Sum(del) + Sum(left)
    <2> HIDE DEF left
    <2> QED BY <1>1, <1>3, <1>4, SumAdds, ZenonT(60)
  <1>6. size = Sum(Counts) BY DEF DynInv, CountsAreSound, Counts
  <1>7. Sum(del) = Cardinality(Joined(Q, Len(del)))
    <2>1. \A s \in 1..Len(del) : IsFiniteSet(Q[s]) /\ del[s] = Cardinality(Q[s])
      BY <1>1, <1>2, <1>4
    <2>2. \A s, t \in 1..Len(del) : s # t => Q[s] \cap Q[t] = {}
      BY <1>1, <1>4 DEF DynInv, KeyInOneSubmap
    <2> HIDE DEF Q
    <2> QED BY <1>4, <2>1, <2>2, SumDisjoint
  <1>8. Joined(Q, Len(del)) = asked \cap HeldIn(submaps)
    BY <1>1, <1>4 DEF Joined, HeldIn, Live
  <1>9. Sum(del) <= size BY ONLY <1>5, <1>6
  <1> QED BY <1>5, <1>7, <1>8, <1>9, Zenon

LEMMA EraseRefines ==
    ASSUME DynInv, DynInv', contract, NEW ks \in KeyBatches, Erase(ks)
    PROVE  \E asked \in SUBSET Key : Promise!Erase(asked)
  <1> DEFINE asked == {ks[i] : i \in DOMAIN ks}
             del == [s \in Index |->
                       IF submaps[s].count = 0 THEN 0 ELSE Cardinality(Live(s) \cap asked)]
             total == Sum(del)
             erased == asked \cap HeldIn(submaps)
  <1>1. /\ submaps' = [s \in Index |->
              IF submaps[s].count = 0 THEN submaps[s]
              ELSE [submaps[s] EXCEPT
                      !.map = [k \in Live(s) \ asked |-> @[k]],
                      !.dead = @ + del[s],
                      !.count = Less(@, del[s])]]
        /\ size' = Less(size, total)
        /\ Returned(asked, total, NoVal)
        /\ call = NoCall /\ call' = call /\ contract' = contract
    BY DEF Erase, EraseIn, Idle
  <1>2. total = Cardinality(erased) /\ total \in Nat /\ total <= size
    <2>1. /\ DOMAIN del = Index /\ del = [s \in Index |-> del[s]]
          /\ \A s \in Index : del[s] = IF submaps[s].count = 0 THEN 0
                                       ELSE Cardinality(Live(s) \cap asked)
      OBVIOUS
    <2> HIDE DEF del, asked
    <2> QED BY <2>1, DeletedTotal
  <1>3. asked \in SUBSET Key BY KeysAsked
  <1> HIDE DEF asked, del
  <1>4. size' = size - Cardinality(erased)
    <2>1. size \in Nat BY SizesType
    <2> HIDE DEF total
    <2> QED BY <1>1, <1>2, <2>1 DEF Less
  <1>5. /\ DOMAIN Contents = HeldIn(submaps) /\ Contents = ContentsOf(submaps)
        /\ Disjoint(submaps) /\ Disjoint(submaps')
    BY <1>1, PromisedContents, DisjointSubmaps DEF DynInv
  <1>6. ASSUME NEW s \in Index
        PROVE  /\ DOMAIN submaps'[s].map = Live(s) \ asked
               /\ \A k \in DOMAIN submaps'[s].map : submaps'[s].map[k] = submaps[s].map[k]
    <2>1. CASE submaps[s].count = 0
      <3>1. submaps'[s] = submaps[s] BY <1>1, <2>1
      <3>2. Live(s) = {} BY <2>1, EmptyByCount
      <3> QED BY <3>1, <3>2 DEF Live
    <2>2. CASE submaps[s].count # 0
      <3> DEFINE r == submaps[s]
                 q == submaps'[s]
                 map == [k \in Live(s) \ asked |-> submaps[s].map[k]]
                 dead == submaps[s].dead + del[s]
                 n == Less(submaps[s].count, del[s])
      <3>1. q = [r EXCEPT !.map = map, !.dead = dead, !.count = n] BY <1>1, <2>2
      <3>2. r \in Submap BY SubmapParts DEF DynInv
      <3> HIDE DEF q, r, map, dead, n
      <3>3. q.map = map BY <3>1, <3>2 DEF Submap
      <3>4. submaps'[s].map = [k \in Live(s) \ asked |-> submaps[s].map[k]]
        BY <3>3 DEF q, map
      <3> QED BY <3>4
    <2> QED BY <2>1, <2>2
  <1>7. Len(submaps') = Len(submaps) /\ Index = 1..Len(submaps)
    <2>1. submaps' \in Seq(Submap) /\ Len(submaps) \in Nat
      BY SubmapParts DEF DynInv, TypeOK, Submap, Maps
    <2>2. DOMAIN submaps' = Index BY <1>1, Zenon
    <2>3. Len(submaps') \in Nat /\ DOMAIN submaps' = 1..Len(submaps')
      <3> HIDE DEF Submap
      <3> QED BY <2>1
    <2> QED BY <2>1, <2>2, <2>3, SameInterval DEF Index
  <1>8. Contents' = [k \in DOMAIN Contents \ erased |-> Contents[k]]
    <2> DEFINE r == submaps'
    <2>1. \A t \in 1..Len(r) :
             /\ DOMAIN r[t].map = (DOMAIN submaps[t].map) \ asked
             /\ \A k \in DOMAIN r[t].map : r[t].map[k] = submaps[t].map[k]
      BY <1>6, <1>7 DEF Live
    <2>2. Disjoint(r) /\ Len(r) = Len(submaps) BY <1>5, <1>7
    <2> HIDE DEF r
    <2>3. ContentsOf(r) = AfterErase(submaps, asked)
      BY <1>5, <2>1, <2>2, ErasedFromSubmaps
    <2> QED BY <1>5, <2>3, ContentsOfSubmaps, Zenon DEF r, AfterErase
  <1>9. Pending = Promise!NoCall /\ Pending' = Pending
    BY <1>1 DEF Pending, NoCall, Promise!NoCall
  <1>10. Promise!Returned(asked, Cardinality(erased), NoVal)
    BY <1>1, <1>2 DEF Returned, Promise!Returned
  <1>11. erased = asked \cap DOMAIN Contents BY <1>5
  <1> HIDE DEF erased
  <1>12. Promise!Erase(asked)
    BY <1>4, <1>8, <1>9, <1>10, <1>11, SameCardinality DEF Promise!Erase, Promise!Live
  <1> QED BY <1>3, <1>12

\* Every step, while the callers keep to the exact operations.
LEMMA StepRefines ==
    ASSUME DynInv, DynInv', ExtentsServe, FewTombstones, [Next]_vars
    PROVE  [contract => Promise!Next]_(Promise!vars)
  <1> SUFFICES ASSUME contract PROVE Promise!Next \/ UNCHANGED Promise!vars
    OBVIOUS
  <1>1. CASE UNCHANGED vars
    BY <1>1 DEF vars, Promise!vars, Contents, Live, Index, Pending
  <1>2. ASSUME NEW op \in InsertOps \cap Calls, NEW b \in Batches, Begin(op, b)
        PROVE  Promise!Next
    BY <1>2, BeginRefines DEF Promise!Next
  <1>3. CASE InsertFast BY <1>3, FastRefines DEF Promise!Next
  <1>4. CASE InsertLoop BY <1>4, LoopRefines DEF Promise!Next
  <1>5. CASE InsertOptimistic BY <1>5, AppendRefines DEF Promise!Next
  <1>6. ASSUME NEW n \in Reservations, BeginReserve(n) PROVE Promise!Next
    BY <1>6, BeginReserveRefines DEF Promise!Next
  <1>7. CASE ReserveLoop BY <1>7, ReserveIsHidden
  <1>8. CASE ReserveReturn BY <1>8, ReserveReturnRefines DEF Promise!Next
  <1>9. ASSUME NEW ks \in KeyBatches, Erase(ks) PROVE Promise!Next
    BY <1>9, EraseRefines DEF Promise!Next
  <1>10. ASSUME NEW k \in Key, Find(k) PROVE Promise!Next
    BY <1>10, FindRefines DEF Promise!Next
  <1>11. CASE Clear BY <1>11, ClearRefines DEF Promise!Next
  <1> QED
    BY <1>1, <1>2, <1>3, <1>4, <1>5, <1>6, <1>7, <1>8, <1>9, <1>10, <1>11 DEF Next

--------------------------------------------------------------------------------
\* To callers that keep to the exact operations, a DynamicMap is one map that
\* grows: insertions store all their keys and count the new ones, erasures and
\* the size are exact, lookups answer for all submaps, and nothing else shows.
THEOREM DynamicMapIsGrowingMap ==
    ExtentsServe => (Spec /\ []FewTombstones => IsGrowingMap)
  <1> SUFFICES ASSUME ExtentsServe PROVE Spec /\ []FewTombstones => IsGrowingMap
    OBVIOUS
  <1>1. Init => Promise!Init BY InitRefines
  <1>2. DynInv /\ DynInv' /\ FewTombstones /\ [Next]_vars
        => [contract => Promise!Next]_(Promise!vars)
    BY StepRefines
  <1>3. Spec => []DynInv BY DynamicMapInvariant
  <1> QED BY <1>1, <1>2, <1>3, PTL DEF Spec, IsGrowingMap
================================================================================
