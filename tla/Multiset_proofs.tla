---------------------------- MODULE Multiset_proofs ----------------------------
(***************************************************************************)
(* Theorems about Multiset, for any keys, hashes, batches and capacity:    *)
(* counts are exact in every representation, and the threads of a kernel   *)
(* keep apart.  They rest on two hypotheses, which every instance can      *)
(* evaluate: that 2^n are the powers of two (PowersOK), and that the       *)
(* selection reads a whole batch and places its valid elements by rank     *)
(* (SelectionOK), which is the promise of WarpSelection's sums.            *)
(*                                                                         *)
(* The argument.  A kernel's elements have places in ordered_, each its    *)
(* own (At).  Entered are the places whose elements the counters know: all *)
(* that the kernel is to leave but those of its remaining threads.  BagInv *)
(* says that the materialized counters are those of the elements Entered - *)
(* Counters in the direct representation, Chains in the hash table - and   *)
(* that each remaining thread is about to add its own element: it has      *)
(* stored it or will, it has passed only slots of other keys, and a count  *)
(* that it has loaded is still the counter's.  So every step that a thread *)
(* ends with moves one place to Entered, and a table of at least Capacity  *)
(* slots always has an empty one for it.  Between insertions Entered is    *)
(* all of 1..size, or the multiplicities are uniform.                      *)
(***************************************************************************)
EXTENDS Multiset, NaturalInduction

--------------------------------------------------------------------------------
(* How often a value occurs among the places E of a sequence. *)

Tally(E, f, k) == Cardinality({p \in E : f[p] = k})

\* A tally is a number, positive if the value occurs.
LEMMA Tallied ==
    ASSUME NEW E, IsFiniteSet(E), NEW f, NEW k
    PROVE  Tally(E, f, k) \in Nat /\ (Tally(E, f, k) > 0 <=> \E p \in E : f[p] = k)
  <1> DEFINE S == {p \in E : f[p] = k}
  <1>1. IsFiniteSet(S) BY FS_Subset
  <1>2. Cardinality(S) \in Nat BY <1>1, FS_CardinalityType
  <1>3. Cardinality(S) = 0 <=> S = {} BY <1>1, FS_EmptySet
  <1> QED BY <1>2, <1>3 DEF Tally

\* It depends on those places only.
LEMMA TallySame ==
    ASSUME NEW E, NEW f, NEW g, \A p \in E : f[p] = g[p]
    PROVE  \A k : Tally(E, f, k) = Tally(E, g, k)
  <1> SUFFICES ASSUME NEW k PROVE Tally(E, f, k) = Tally(E, g, k) OBVIOUS
  <1>1. {p \in E : f[p] = k} = {p \in E : g[p] = k} OBVIOUS
  <1> QED BY <1>1 DEF Tally

\* One more place adds one to the tally of its value.
LEMMA TallyMore ==
    ASSUME NEW E, IsFiniteSet(E), NEW f, NEW g, NEW q, q \notin E, \A p \in E : f[p] = g[p]
    PROVE  \A k : Tally(E \cup {q}, g, k) = Tally(E, f, k) + (IF g[q] = k THEN 1 ELSE 0)
  <1> SUFFICES ASSUME NEW k
               PROVE  Tally(E \cup {q}, g, k) = Tally(E, f, k) + (IF g[q] = k THEN 1 ELSE 0)
    OBVIOUS
  <1> DEFINE S == {p \in E : f[p] = k}
             T == {p \in E \cup {q} : g[p] = k}
  <1>1. IsFiniteSet(S) /\ q \notin S BY FS_Subset
  <1>2. Cardinality(S) \in Nat BY <1>1, FS_CardinalityType
  <1>3. CASE g[q] = k
    <2>1. T = S \cup {q} BY <1>3
    <2>2. Cardinality(S \cup {q}) = Cardinality(S) + 1 BY <1>1, FS_AddElement
    <2> QED BY <1>3, <2>1, <2>2 DEF Tally
  <1>4. CASE g[q] # k
    <2>1. T = S BY <1>4
    <2>2. Tally(E \cup {q}, g, k) = Cardinality(S) BY <2>1 DEF Tally
    <2>3. Tally(E, f, k) = Cardinality(S) BY DEF Tally
    <2> HIDE DEF S, T
    <2> QED BY <1>2, <1>4, <2>2, <2>3
  <1> QED BY <1>3, <1>4

\* Nothing occurs nowhere.
LEMMA TallyNone ==
    ASSUME NEW f, NEW k
    PROVE  Tally({}, f, k) = 0
  <1>1. {p \in {} : f[p] = k} = {} OBVIOUS
  <1> QED BY <1>1, FS_EmptySet DEF Tally

--------------------------------------------------------------------------------
(* The valid elements of a batch, by rank. *)

Rank(S, i) == Cardinality({j \in S : j < i})

\* The ranks of n numbers are 0 to n - 1, each once.
LEMMA Ranked ==
    ASSUME NEW S \in SUBSET Nat, IsFiniteSet(S)
    PROVE  /\ Cardinality(S) \in Nat
           /\ \A i \in S : Rank(S, i) \in 0..(Cardinality(S) - 1)
           /\ \A i, j \in S : i # j => Rank(S, i) # Rank(S, j)
           /\ \A r \in 0..(Cardinality(S) - 1) : \E i \in S : Rank(S, i) = r
  <1> DEFINE n == Cardinality(S)
             low(i) == {j \in S : j < i}
  <1>1. n \in Nat BY FS_CardinalityType
  <1>2. \A i : IsFiniteSet(low(i)) /\ Cardinality(low(i)) \in Nat
    BY FS_Subset, FS_CardinalityType
  <1>3. ASSUME NEW i \in S PROVE Cardinality(low(i)) < n
    <2>1. low(i) \cup {i} \in SUBSET S /\ i \notin low(i) OBVIOUS
    <2>2. Cardinality(low(i) \cup {i}) = Cardinality(low(i)) + 1 BY <1>2, <2>1, FS_AddElement
    <2>3. Cardinality(low(i) \cup {i}) <= n BY <2>1, FS_Subset
    <2> QED BY <1>1, <1>2, <2>2, <2>3
  <1>4. ASSUME NEW i \in S, NEW j \in S, i < j PROVE Cardinality(low(i)) < Cardinality(low(j))
    <2>0. \A x \in S : x \in Nat OBVIOUS
    <2>a. ~(i < i) BY <2>0
    <2>b. \A x \in S : x < i => x < j BY <1>4, <2>0
    <2>c. i \notin low(i) BY <2>a
    <2>d. \A x \in low(i) \cup {i} : x \in low(j) BY <1>4, <2>b
    <2>1. low(i) \cup {i} \in SUBSET low(j) /\ i \notin low(i) BY <2>c, <2>d
    <2>2. Cardinality(low(i) \cup {i}) = Cardinality(low(i)) + 1
      BY <1>2, <2>1, FS_AddElement, ZenonT(60)
    <2>3. IsFiniteSet(low(j)) BY <1>2
    <2>4. Cardinality(low(i) \cup {i}) <= Cardinality(low(j)) BY <2>1, <2>3, FS_Subset
    <2> QED BY <1>2, <2>2, <2>4
  <1>5. \A i \in S : Rank(S, i) \in 0..(n - 1)
    BY <1>1, <1>2, <1>3 DEF Rank
  <1>6. ASSUME NEW i \in S, NEW j \in S, i # j PROVE Rank(S, i) # Rank(S, j)
    <2>1. i \in Nat /\ j \in Nat OBVIOUS
    <2>2. i < j \/ j < i BY <1>6, <2>1
    <2> QED BY <1>2, <1>4, <2>2 DEF Rank
  <1> DEFINE R == [i \in S |-> Rank(S, i)]
  <1>7. R \in Injection(S, 0..(n - 1)) BY <1>5, <1>6 DEF Injection, IsInjective
  <1>8. IsFiniteSet(0..(n - 1)) /\ Cardinality(0..(n - 1)) = n
    <2>1. 0 \in Int /\ n - 1 \in Int BY <1>1
    <2>2. Cardinality(0..(n - 1)) = IF 0 > n - 1 THEN 0 ELSE (n - 1) - 0 + 1
      BY <2>1, FS_Interval
    <2> QED BY <1>1, <2>1, <2>2, FS_Interval
  <1>9. R \in Surjection(S, 0..(n - 1)) BY <1>7, <1>8, FS_Injection
  <1>10. \A r \in 0..(n - 1) : \E i \in S : R[i] = r BY <1>9 DEF Surjection
  <1> QED BY <1>1, <1>5, <1>6, <1>10

--------------------------------------------------------------------------------
(* What an insertion works on.  Its elements have places in ordered_: those  *)
(* that a rebuild puts in again have them already.                           *)

Valid(b) == {i \in Elements(b) : IsValid(b, i)}
Taken(b) == {i \in Valid(b) : Rank(Valid(b), i) < Accepted(b)}

Source(b) == IF phase = "rebuild" THEN 1..size ELSE Taken(b)
At(b, i) == IF phase = "rebuild" THEN i ELSE size + 1 + Rank(Valid(b), i)
Goal(b) == IF phase = "rebuild" THEN 1..size ELSE 1..(size + Accepted(b))

\* The places whose elements the counters know already.
Entered(b) == Goal(b) \ {At(b, i) : i \in DOMAIN flight}

--------------------------------------------------------------------------------
(* What the representations say of the elements at the places E of f.  *)

\* Keys within len of the base, each times often.
Uniform(base, len, times, E, f) ==
    /\ len \in 1..Capacity
    /\ \A k \in Nat : Tally(E, f, k) = IF k - base \in 0..(len - 1) THEN times ELSE 0

Counters(cs, base, E, f) ==
    /\ cs \in [Slot -> Nat]
    /\ \A s \in Slot : cs[s] = 1 + Tally(E, f, base + s)
    /\ \A p \in E : f[p] - base \in Slot

\* The slots before the n-th of k's walk hold other keys.
Passed(ks, k, n) == \A m \in 0..(n - 1) : ks[SlotAt(k, m)] \notin {EmptyKey, k}
Reached(ks, k) ==
    \E n \in 0..(TableCapacity - 1) : ks[SlotAt(k, n)] = k /\ Passed(ks, k, n)

Chains(ks, cs, E, f) ==
    /\ ks \in [Slot -> Key \cup {EmptyKey}] /\ cs \in [Slot -> Nat]
    /\ \A s \in Slot :
          IF ks[s] = EmptyKey THEN cs[s] = 1
          ELSE cs[s] = Tally(E, f, ks[s]) /\ \E p \in E : f[p] = ks[s]
    /\ \A s, t \in Slot : s # t => ks[s] = EmptyKey \/ ks[s] # ks[t]
    /\ \A p \in E : Reached(ks, f[p])

--------------------------------------------------------------------------------
(* The invariant. *)

\* The materialized counters are those of the elements at E.
Counted(E) ==
    /\ uniformCount = 0
    /\ IF direct THEN Counters(counts, directBase, E, ordered)
       ELSE Chains(keys, counts, E, ordered)

\* Between two insertions.
Represented ==
    /\ \A p \in 1..size : ordered[p] \in Key
    /\ IF size = 0 THEN ~direct /\ uniformCount = 0 /\ keys = NoArray
       ELSE IF uniformCount = 0 THEN Counted(1..size)
       ELSE direct /\ Uniform(directBase, uniformLength, uniformCount, 1..size, ordered)

\* The Select kernel has left the batch behind the accepted elements.
RawPrefix(b) ==
    ~b.conditional =>
        \A i \in Elements(b) : i < Room => ordered[size + 1 + i] = KeyAt(b, i)

Thread ==
    [key : Key, visited : Nat, seen : Nat, to : Nat, slot : Slot,
     pc : {"add", "load", "store", "cas"}]

\* A thread still has its element to count, or will store it too.
ThreadOK(b, e, at) ==
    /\ e.to \in {0, at}
    /\ e.to = 0 \/ e.pc = "store" => ordered[at] = e.key
    /\ IF direct
       THEN /\ e.slot = e.key - directBase /\ e.pc # "cas"
            /\ e.pc = "store" => e.seen = counts[e.slot]
       ELSE /\ e.pc = "cas" /\ e.visited \in 0..(TableCapacity - 1)
            /\ e.slot = SlotAt(e.key, e.visited)
            /\ Passed(keys, e.key, e.visited)

\* The threads that do not count atomically have no rival.
Apart ==
    \A i, j \in DOMAIN flight :
        i # j /\ flight[i].pc \in {"load", "store"} => flight[i].key # flight[j].key

Working(b) ==
    /\ Accepted(b) > 0 /\ Counted(Entered(b))
    /\ \A p \in Entered(b) : ordered[p] \in Key
    /\ phase = "rebuild" => ~direct /\ RawPrefix(b)
    /\ DOMAIN flight \subseteq Source(b) /\ flight \in [DOMAIN flight -> Thread]
    /\ \A i \in DOMAIN flight : ThreadOK(b, flight[i], At(b, i))
    /\ Apart

BagInv ==
    /\ TypeOK
    /\ phase \in {"idle", "selected"} => Represented /\ flight = <<>>
    /\ \A b, c \in call : b = c
    /\ \A b \in call : IF phase = "selected" THEN RawPrefix(b) ELSE Working(b)

--------------------------------------------------------------------------------
(* The hash table's size. *)

\* The powers of two grow beyond the capacity.
LEMMA PowersGrow ==
    ASSUME PowersOK
    PROVE  \A d \in 0..Capacity : 2^d \in Nat /\ 2^d > d
  <1> DEFINE S == {d \in Nat : d <= Capacity => 2^d \in Nat /\ 2^d > d}
  <1>0. Capacity \in Nat BY CapacityAssumption
  <1>1. 0 \in S BY DEF PowersOK
  <1>2. ASSUME NEW d \in Nat, d \in S PROVE d + 1 \in S
    <2> SUFFICES ASSUME d + 1 <= Capacity PROVE 2^(d + 1) \in Nat /\ 2^(d + 1) > d + 1
      OBVIOUS
    <2>1. d \in 0..Capacity /\ d <= Capacity BY <1>0
    <2>2. 2^d \in Nat /\ 2^d > d BY <1>2, <2>1
    <2>3. 2^(d + 1) = 2 * 2^d BY <2>1 DEF PowersOK
    <2> QED BY <2>2, <2>3
  <1> HIDE DEF S
  <1>3. Nat \subseteq S BY <1>1, <1>2, Induction
  <1> QED BY <1>0, <1>3 DEF S

\* The table has room for all that the container may hold.
LEMMA TableHasRoom ==
    ASSUME PowersOK
    PROVE  TableCapacity \in Nat \ {0} /\ Capacity <= TableCapacity
  <1> DEFINE P == {2^d : d \in 0..Capacity}
             S == {c \in P : c >= Capacity}
  <1>1. Capacity \in Nat \ {0} BY CapacityAssumption
  <1>2. \A d \in 0..Capacity : 2^d \in Nat /\ 2^d > d BY PowersGrow
  <1>3. Capacity \in 0..Capacity BY <1>1
  <1>4. 2^Capacity \in S BY <1>1, <1>2, <1>3
  <1>5. S \in SUBSET Nat BY <1>2
  <1>6. PICK c \in S : \A m \in S : c <= m BY <1>4, <1>5, LeastNatural
  <1>7. c \in P /\ c >= Capacity /\ \A d \in 0..Capacity : 2^d >= Capacity => c <= 2^d
    BY <1>6
  <1> HIDE DEF P
  <1>8. TableCapacity \in P /\ TableCapacity >= Capacity
    BY <1>7 DEF TableCapacity, P
  <1>9. TableCapacity \in Nat BY <1>2, <1>8 DEF P
  <1> QED BY <1>1, <1>8, <1>9

\* Each walk steps from slot to slot, and comes to all of them.
LEMMA WalksCover ==
    ASSUME PowersOK, NEW k \in Key
    PROVE  /\ SlotAt(k, 0) = Home(k)
           /\ \A n \in Nat : SlotAt(k, n) \in Slot /\ NextSlot(SlotAt(k, n)) = SlotAt(k, n + 1)
           /\ \A s \in Slot : \E n \in 0..(TableCapacity - 1) : SlotAt(k, n) = s
  <1> DEFINE T == TableCapacity
             h == Home(k)
  <1>1. T \in Nat \ {0} BY TableHasRoom
  <1>2. h \in 0..(T - 1)
    <2>1. Hash[k] \in Int BY HashAssumption
    <2> QED BY <1>1, <2>1, Divided DEF Home
  <1> HIDE DEF T, h
  <1>3. \A n : SlotAt(k, n) = (h + n) % T BY DEF SlotAt, h, T
  <1>4. SlotAt(k, 0) = h BY <1>1, <1>2, <1>3, InRange
  <1>5. ASSUME NEW n \in Nat
        PROVE  SlotAt(k, n) \in Slot /\ NextSlot(SlotAt(k, n)) = SlotAt(k, n + 1)
    <2> DEFINE a == h + n
               q == a \div T
               r == a % T
    <2>1. a \in Int /\ a + 1 \in Int BY <1>2
    <2>2. q \in Int /\ r \in 0..(T - 1) /\ a = q * T + r BY <1>1, <2>1, Divided
    <2>3. SlotAt(k, n) = r BY <1>3
    <2>4. SlotAt(k, n + 1) = (a + 1) % T
      <3>1. h + (n + 1) = a + 1 BY <1>2
      <3> QED BY <1>3, <3>1
    <2>5. q * T \in Int /\ (q + 1) * T = q * T + T BY <1>1, <2>2
    <2> HIDE DEF q, r, a
    <2>6. CASE r + 1 # T
      <3>1. r + 1 \in 0..(T - 1) BY <1>1, <2>2, <2>6
      <3>2. (q * T + (r + 1)) % T = r + 1 BY <1>1, <2>2, <3>1, Division
      <3>3. a + 1 = q * T + (r + 1) BY <2>2, <2>5
      <3>4. SlotAt(k, n + 1) = r + 1 BY <2>4, <3>2, <3>3
      <3> QED BY <2>2, <2>3, <2>6, <3>4 DEF NextSlot, Slot, T
    <2>7. CASE r + 1 = T
      <3>1. 0 \in 0..(T - 1) /\ q + 1 \in Int BY <1>1, <2>2
      <3>2. ((q + 1) * T + 0) % T = 0 BY <1>1, <3>1, Division
      <3>3. a + 1 = (q + 1) * T + 0 BY <1>1, <2>2, <2>5, <2>7
      <3>4. SlotAt(k, n + 1) = 0 BY <2>4, <3>2, <3>3
      <3> QED BY <2>2, <2>3, <2>7, <3>4 DEF NextSlot, Slot, T
    <2> QED BY <2>6, <2>7
  <1>6. ASSUME NEW s \in Slot PROVE \E n \in 0..(T - 1) : SlotAt(k, n) = s
    <2>1. s \in 0..(T - 1) BY DEF Slot, T
    <2>2. CASE s >= h
      <3>1. s - h \in 0..(T - 1) /\ h + (s - h) = s BY <1>1, <1>2, <2>1, <2>2
      <3>2. s % T = s BY <1>1, <2>1, InRange
      <3>3. SlotAt(k, s - h) = s BY <1>3, <3>1, <3>2
      <3> QED BY <3>1, <3>3
    <2>3. CASE s < h
      <3>1. (s + T) - h \in 0..(T - 1) /\ h + ((s + T) - h) = 1 * T + s
        BY <1>1, <1>2, <2>1, <2>3
      <3>2. (1 * T + s) % T = s BY <1>1, <2>1, Division
      <3>3. SlotAt(k, (s + T) - h) = s BY <1>3, <3>1, <3>2
      <3> QED BY <3>1, <3>3
    <2> QED BY <1>2, <2>1, <2>2, <2>3
  <1> QED BY <1>4, <1>5, <1>6 DEF h, T

--------------------------------------------------------------------------------
(* What one thread does to a representation. *)

\* A counter goes up by one for one element more.
LEMMA AddKeeps ==
    ASSUME NEW E, IsFiniteSet(E), NEW f, NEW cs, NEW base \in Nat, Counters(cs, base, E, f),
           NEW g, \A p \in E : f[p] = g[p], NEW q, q \notin E, g[q] \in Nat,
           g[q] - base \in Slot
    PROVE  Counters([cs EXCEPT ![g[q] - base] = cs[g[q] - base] + 1], base, E \cup {q}, g)
  <1> DEFINE t == g[q] - base
             ds == [cs EXCEPT ![t] = cs[t] + 1]
  <1>1. cs \in [Slot -> Nat] /\ t \in Slot BY DEF Counters
  <1>2. ds \in [Slot -> Nat] BY <1>1
  <1>3. ASSUME NEW x \in Slot PROVE ds[x] = 1 + Tally(E \cup {q}, g, base + x)
    <2>1. cs[x] = 1 + Tally(E, f, base + x) BY DEF Counters
    <2>2. Tally(E, f, base + x) \in Nat BY Tallied
    <2>3. Tally(E \cup {q}, g, base + x)
          = Tally(E, f, base + x) + (IF g[q] = base + x THEN 1 ELSE 0)
      BY TallyMore
    <2>4. g[q] = base + x <=> x = t BY DEF Slot
    <2>5. ds[x] = IF x = t THEN cs[x] + 1 ELSE cs[x] BY <1>1
    <2> HIDE DEF ds, t
    <2> QED BY <2>1, <2>2, <2>3, <2>4, <2>5
  <1>4. \A p \in E \cup {q} : g[p] - base \in Slot BY DEF Counters
  <1> QED BY <1>2, <1>3, <1>4 DEF Counters

\* New counters count nothing.
LEMMA FreshCounters ==
    ASSUME NEW base, NEW f
    PROVE  Counters([s \in Slot |-> 1], base, {}, f)
  <1>1. \A k : Tally({}, f, k) = 0 BY TallyNone
  <1> QED BY <1>1 DEF Counters

\* Slots that are taken stay so.
LEMMA PassedOn ==
    ASSUME PowersOK, NEW ks, DOMAIN ks = Slot, NEW s \in Slot, ks[s] = EmptyKey,
           NEW x, NEW k \in Key, NEW n \in Nat, Passed(ks, k, n)
    PROVE  Passed([ks EXCEPT ![s] = x], k, n)
  <1> SUFFICES ASSUME NEW m \in 0..(n - 1)
               PROVE  [ks EXCEPT ![s] = x][SlotAt(k, m)] \notin {EmptyKey, k}
    BY DEF Passed
  <1>1. m \in Nat OBVIOUS
  <1>2. SlotAt(k, m) \in Slot BY <1>1, WalksCover
  <1>3. ks[SlotAt(k, m)] \notin {EmptyKey, k} BY DEF Passed
  <1> QED BY <1>2, <1>3

\* A walk that has passed other keys only has not passed its own: its first empty
\* slot says that the key is not in the table.
LEMMA NotYet ==
    ASSUME NEW ks, NEW k, k # EmptyKey, NEW n \in Nat, Passed(ks, k, n),
           ks[SlotAt(k, n)] = EmptyKey
    PROVE  ~Reached(ks, k)
  <1> SUFFICES ASSUME NEW m \in 0..(TableCapacity - 1), ks[SlotAt(k, m)] = k, Passed(ks, k, m)
               PROVE  FALSE
    BY DEF Reached
  <1>1. CASE m < n
    <2>1. m \in 0..(n - 1) BY <1>1
    <2> QED BY <2>1 DEF Passed
  <1>2. CASE n < m
    <2>1. n \in 0..(m - 1) BY <1>2
    <2> QED BY <2>1 DEF Passed
  <1>3. m # n OBVIOUS
  <1> QED BY <1>1, <1>2, <1>3

\* The claim of an empty slot enters the first element of a key: the slot's counter
\* is one already.
LEMMA ClaimKeeps ==
    ASSUME PowersOK, NEW E, IsFiniteSet(E), NEW f, NEW ks, NEW cs, Chains(ks, cs, E, f),
           \A p \in E : f[p] \in Key,
           NEW g, \A p \in E : f[p] = g[p], NEW q, q \notin E, NEW k \in Key, g[q] = k,
           NEW n \in 0..(TableCapacity - 1), Passed(ks, k, n), ks[SlotAt(k, n)] = EmptyKey
    PROVE  Chains([ks EXCEPT ![SlotAt(k, n)] = k], cs, E \cup {q}, g)
  <1> DEFINE t == SlotAt(k, n)
             ls == [ks EXCEPT ![t] = k]
             D == E \cup {q}
  <1>0. n \in Nat /\ k # EmptyKey BY KeyAssumption
  <1>1. t \in Slot BY <1>0, WalksCover
  <1>2. ks \in [Slot -> Key \cup {EmptyKey}] /\ cs \in [Slot -> Nat] BY DEF Chains
  <1>3. ls \in [Slot -> Key \cup {EmptyKey}] BY <1>1, <1>2
  <1>4. ~Reached(ks, k) BY <1>0, NotYet
  <1>5. \A p \in E : f[p] # k BY <1>4 DEF Chains
  <1>6. \A x \in Slot : ks[x] # k BY <1>0, <1>5 DEF Chains
  <1>7. \A x \in Slot : ls[x] = IF x = t THEN k ELSE ks[x] BY <1>1, <1>2
  <1>8. \A y : Tally(D, g, y) = Tally(E, f, y) + (IF g[q] = y THEN 1 ELSE 0) BY TallyMore
  <1>9. \A y : Tally(E, f, y) \in Nat /\ (Tally(E, f, y) > 0 <=> \E p \in E : f[p] = y)
    BY Tallied
  <1>10. ASSUME NEW x \in Slot
         PROVE  IF ls[x] = EmptyKey THEN cs[x] = 1
                ELSE cs[x] = Tally(D, g, ls[x]) /\ \E p \in D : g[p] = ls[x]
    <2>1. CASE x = t
      <3>1. ls[x] = k /\ cs[x] = 1 BY <1>7, <1>1, <2>1 DEF Chains
      <3>2. Tally(E, f, k) = 0 BY <1>5, <1>9
      <3>3. Tally(D, g, k) = 1 BY <1>8, <3>2
      <3> HIDE DEF ls
      <3> QED BY <1>0, <3>1, <3>3
    <2>2. CASE x # t
      <3>1. ls[x] = ks[x] /\ ks[x] # k BY <1>6, <1>7, <2>2
      <3>2. CASE ks[x] = EmptyKey BY <3>1, <3>2 DEF Chains
      <3>3. CASE ks[x] # EmptyKey
        <4>1. cs[x] = Tally(E, f, ks[x]) /\ \E p \in E : f[p] = ks[x] BY <3>3 DEF Chains
        <4>2. Tally(D, g, ks[x]) = Tally(E, f, ks[x]) BY <1>8, <1>9, <3>1
        <4> HIDE DEF ls
        <4> QED BY <3>1, <3>3, <4>1, <4>2
      <3> QED BY <3>2, <3>3
    <2> QED BY <2>1, <2>2
  <1>11. ASSUME NEW x \in Slot, NEW y \in Slot, x # y
         PROVE  ls[x] = EmptyKey \/ ls[x] # ls[y]
    BY <1>6, <1>7, <1>11 DEF Chains
  <1>12. ASSUME NEW p \in D PROVE Reached(ls, g[p])
    <2>1. CASE p = q
      <3>1. ls[t] = k BY <1>1, <1>7
      <3>2. Passed(ls, k, n) BY <1>0, <1>1, <1>2, PassedOn
      <3> QED BY <2>1, <3>1, <3>2 DEF Reached
    <2>2. CASE p # q
      <3>1. p \in E /\ g[p] = f[p] /\ f[p] \in Key BY <2>2
      <3>2. PICK m \in 0..(TableCapacity - 1) :
                ks[SlotAt(f[p], m)] = f[p] /\ Passed(ks, f[p], m)
        BY <3>1 DEF Chains, Reached
      <3>3. m \in Nat OBVIOUS
      <3>4. SlotAt(f[p], m) \in Slot BY <3>1, <3>3, WalksCover
      <3>5. f[p] # EmptyKey BY <3>1, KeyAssumption
      <3>6. ls[SlotAt(f[p], m)] = f[p] BY <1>7, <3>2, <3>4, <3>5
      <3>7. Passed(ls, f[p], m) BY <1>1, <1>2, <3>1, <3>2, <3>3, PassedOn
      <3> QED BY <3>1, <3>6, <3>7 DEF Reached
    <2> QED BY <2>1, <2>2
  <1> QED BY <1>2, <1>3, <1>10, <1>11, <1>12 DEF Chains

\* A key that is there gets its count up by one.
LEMMA CountKeeps ==
    ASSUME PowersOK, NEW E, IsFiniteSet(E), NEW f, NEW ks, NEW cs, Chains(ks, cs, E, f),
           NEW g, \A p \in E : f[p] = g[p], NEW q, q \notin E, NEW k \in Key, g[q] = k,
           NEW n \in 0..(TableCapacity - 1), Passed(ks, k, n), ks[SlotAt(k, n)] = k
    PROVE  Chains(ks, [cs EXCEPT ![SlotAt(k, n)] = cs[SlotAt(k, n)] + 1], E \cup {q}, g)
  <1> DEFINE t == SlotAt(k, n)
             ds == [cs EXCEPT ![t] = cs[t] + 1]
             D == E \cup {q}
  <1>0. n \in Nat /\ k # EmptyKey BY KeyAssumption
  <1>1. t \in Slot BY <1>0, WalksCover
  <1>2. ks \in [Slot -> Key \cup {EmptyKey}] /\ cs \in [Slot -> Nat] BY DEF Chains
  <1>3. ds \in [Slot -> Nat] BY <1>1, <1>2
  <1>4. \A x \in Slot : ds[x] = IF x = t THEN cs[x] + 1 ELSE cs[x] BY <1>1, <1>2
  <1>5. \A y : Tally(D, g, y) = Tally(E, f, y) + (IF g[q] = y THEN 1 ELSE 0)
    BY ONLY IsFiniteSet(E), \A p \in E : f[p] = g[p], q \notin E, TallyMore, SMTT(40)
  <1>6. \A y : Tally(E, f, y) \in Nat BY Tallied
  <1>7. ASSUME NEW x \in Slot
        PROVE  IF ks[x] = EmptyKey THEN ds[x] = 1
               ELSE ds[x] = Tally(D, g, ks[x]) /\ \E p \in D : g[p] = ks[x]
    <2>1. CASE ks[x] = EmptyKey
      <3>1. x # t BY <1>0, <2>1
      <3>2. cs[x] = 1 BY <2>1 DEF Chains
      <3>3. ds[x] = 1 BY <1>4, <3>1, <3>2
      <3> QED BY <2>1, <3>3
    <2>2. CASE ks[x] # EmptyKey
      <3>1. cs[x] = Tally(E, f, ks[x]) /\ \E p \in E : f[p] = ks[x] BY <2>2 DEF Chains
      <3>2. \E p \in D : g[p] = ks[x] BY <3>1
      <3>3. x = t <=> ks[x] = k BY <1>0, <1>1 DEF Chains
      <3>4. Tally(D, g, ks[x]) = Tally(E, f, ks[x]) + (IF x = t THEN 1 ELSE 0)
        BY <1>5, <3>3
      <3>5. ds[x] = IF x = t THEN cs[x] + 1 ELSE cs[x] BY <1>4
      <3> HIDE DEF ds, t, D
      <3>6. ds[x] = Tally(D, g, ks[x]) BY <1>6, <3>1, <3>4, <3>5
      <3> QED BY <2>2, <3>2, <3>6
    <2> QED BY <2>1, <2>2
  <1>8. \A p \in D : Reached(ks, g[p])
    <2>1. Reached(ks, k) BY DEF Reached
    <2> QED BY <2>1 DEF Chains
  <1> QED BY <1>2, <1>3, <1>7, <1>8 DEF Chains

\* An empty table with new counters.
LEMMA FreshTable ==
    ASSUME NEW f
    PROVE  Chains([s \in Slot |-> EmptyKey], [s \in Slot |-> 1], {}, f)
  BY DEF Chains

\* Each slot's key has an element of its own, so the walk of a key finds room among
\* fewer elements than slots.
LEMMA NeverFull ==
    ASSUME PowersOK, NEW E, IsFiniteSet(E), NEW f, NEW ks, NEW cs, Chains(ks, cs, E, f),
           Cardinality(E) < TableCapacity,
           NEW k \in Key, Passed(ks, k, TableCapacity - 1),
           ks[SlotAt(k, TableCapacity - 1)] \notin {EmptyKey, k}
    PROVE  FALSE
  <1>1. TableCapacity \in Nat \ {0} BY TableHasRoom
  <1>2. ASSUME NEW x \in Slot PROVE ks[x] # EmptyKey
    <2>1. PICK n \in 0..(TableCapacity - 1) : SlotAt(k, n) = x BY WalksCover
    <2>2. CASE n = TableCapacity - 1 BY <2>1, <2>2
    <2>3. CASE n # TableCapacity - 1
      <3>1. n \in 0..((TableCapacity - 1) - 1) BY <1>1, <2>3
      <3> QED BY <2>1, <3>1 DEF Passed
    <2> QED BY <2>2, <2>3
  <1>3. \A x \in Slot : \E p \in E : f[p] = ks[x] BY <1>2 DEF Chains
  <1> DEFINE h == [x \in Slot |-> CHOOSE p \in E : f[p] = ks[x]]
  <1>4. \A x \in Slot : h[x] \in E /\ f[h[x]] = ks[x] BY <1>3
  <1>5. h \in [Slot -> E] BY <1>4
  <1>6. \A x, y \in Slot : x # y => ks[x] # ks[y] BY <1>2 DEF Chains
  <1>7. \A x, y \in Slot : x # y => h[x] # h[y] BY <1>4, <1>6
  <1>8. IsFiniteSet(Slot) /\ Cardinality(Slot) = TableCapacity
    <2>1. 0 \in Int /\ TableCapacity - 1 \in Int BY <1>1
    <2>2. IsFiniteSet(0..(TableCapacity - 1))
          /\ Cardinality(0..(TableCapacity - 1))
             = IF 0 > TableCapacity - 1 THEN 0 ELSE (TableCapacity - 1) - 0 + 1
      BY <2>1, FS_Interval
    <2> QED BY <1>1, <2>2 DEF Slot
  <1> HIDE DEF h
  <1>9. \E x, y \in Slot : x # y /\ h[x] = h[y] BY <1>5, <1>8, FS_PigeonHole
  <1> QED BY <1>7, <1>9

--------------------------------------------------------------------------------
(* What Select finds out. *)

\* Every finite set of numbers that is not empty has a greatest one.
LEMMA GreatestNatural ==
    ASSUME NEW S \in SUBSET Nat, S # {}, IsFiniteSet(S)
    PROVE  \E n \in S : \A m \in S : m <= n
  <1> DEFINE c == Cardinality(S)
  <1>1. c \in Nat /\ ExistsBijection(1..c, S) BY FS_CardinalityType
  <1>2. c # 0 BY FS_EmptySet
  <1> HIDE DEF c
  <1>3. PICK f : f \in Bijection(1..c, S) BY <1>1 DEF ExistsBijection
  <1>4. f \in [1..c -> S] /\ \A x \in S : \E i \in 1..c : f[i] = x
    BY <1>3 DEF Bijection, Injection, Surjection
  <1> DEFINE P == {m \in Nat : m + 1 <= c =>
                      \E i \in 1..(m + 1) : \A j \in 1..(m + 1) : f[j] <= f[i]}
  <1>5. \A i \in 1..c : f[i] \in Nat BY <1>4
  <1>6. 0 \in P
    <2>1. 1 \in 1..c BY <1>1, <1>2
    <2>2. f[1] <= f[1] BY <1>5, <2>1
    <2>3. 1 \in 1..(0 + 1) /\ \A j \in 1..(0 + 1) : j = 1 OBVIOUS
    <2> QED BY <2>2, <2>3
  <1>7. ASSUME NEW m \in Nat, m \in P PROVE m + 1 \in P
    <2> SUFFICES ASSUME (m + 1) + 1 <= c
                 PROVE  \E i \in 1..((m + 1) + 1) : \A j \in 1..((m + 1) + 1) : f[j] <= f[i]
      OBVIOUS
    <2>1. PICK i \in 1..(m + 1) : \A j \in 1..(m + 1) : f[j] <= f[i] BY <1>1, <1>7
    <2>2. (m + 1) + 1 \in 1..c /\ i \in 1..c BY <1>1
    <2>3. f[(m + 1) + 1] \in Nat /\ f[i] \in Nat BY <1>5, <2>2
    <2>4. \A j \in 1..((m + 1) + 1) : j = (m + 1) + 1 \/ j \in 1..(m + 1) OBVIOUS
    <2>5. \A j \in 1..((m + 1) + 1) : f[j] \in Nat BY <1>1, <1>5
    <2>6. CASE f[(m + 1) + 1] <= f[i]
      <3>1. \A j \in 1..((m + 1) + 1) : f[j] <= f[i] BY <2>1, <2>4, <2>6
      <3> QED BY <3>1
    <2>7. CASE f[i] <= f[(m + 1) + 1]
      <3>1. \A j \in 1..((m + 1) + 1) : f[j] <= f[(m + 1) + 1]
        <4> TAKE j \in 1..((m + 1) + 1)
        <4>1. CASE j \in 1..(m + 1) BY <2>1, <2>3, <2>5, <2>7, <4>1
        <4>2. CASE j = (m + 1) + 1 BY <2>3, <4>2
        <4> QED BY <2>4, <4>1, <4>2
      <3> QED BY <3>1
    <2> QED BY <2>3, <2>6, <2>7
  <1> HIDE DEF P
  <1>8. Nat \subseteq P BY <1>6, <1>7, Induction
  <1>9. c - 1 \in P /\ (c - 1) + 1 = c BY <1>1, <1>2, <1>8
  <1>10. PICK i \in 1..c : \A j \in 1..c : f[j] <= f[i] BY <1>1, <1>9 DEF P
  <1>11. f[i] \in S /\ \A m \in S : m <= f[i] BY <1>4, <1>10
  <1> QED BY <1>11

\* A batch is a sequence of keys and sentinels; the selection counts the keys.
LEMMA BatchRead ==
    ASSUME SelectionOK, NEW b \in Batches
    PROVE  /\ Len(b.keys) \in Nat \ {0} /\ Elements(b) = 0..(Len(b.keys) - 1)
           /\ \A i \in Elements(b) : KeyAt(b, i) \in Key \cup {EmptyKey}
           /\ Valid(b) \in SUBSET Elements(b) /\ Valid(b) \in SUBSET Nat
           /\ IsFiniteSet(Elements(b)) /\ IsFiniteSet(Valid(b))
           /\ \A i \in Valid(b) : KeyAt(b, i) \in Key
           /\ ValidTotal(b) = Cardinality(Valid(b)) /\ ValidTotal(b) \in Nat
           /\ AllValid(b) <=> Valid(b) = Elements(b)
           /\ Collected(b) = Elements(b)
  <1> DEFINE n == Len(b.keys)
  <1>1. b.keys \in Seq(Key \cup {EmptyKey}) /\ b.keys # <<>> BY BatchAssumption
  <1>2. n \in Nat \ {0} BY <1>1
  <1>3. \A i \in Elements(b) : KeyAt(b, i) \in Key \cup {EmptyKey}
    <2>1. \A i \in Elements(b) : i + 1 \in 1..n BY <1>2 DEF Elements
    <2> QED BY <1>1, <2>1 DEF KeyAt
  <1>4. IsFiniteSet(Elements(b)) /\ Cardinality(Elements(b)) = n
    <2>1. 0 \in Int /\ n - 1 \in Int BY <1>2
    <2>2. IsFiniteSet(0..(n - 1))
          /\ Cardinality(0..(n - 1)) = IF 0 > n - 1 THEN 0 ELSE (n - 1) - 0 + 1
      BY <2>1, FS_Interval
    <2> QED BY <1>2, <2>2 DEF Elements
  <1>5. Valid(b) \in SUBSET Elements(b) /\ Elements(b) \in SUBSET Nat BY DEF Valid, Elements
  <1>6. IsFiniteSet(Valid(b)) /\ Cardinality(Valid(b)) \in Nat
        /\ (Cardinality(Elements(b)) = Cardinality(Valid(b)) => Elements(b) = Valid(b))
    BY <1>4, <1>5, FS_Subset, FS_CardinalityType
  <1>7. \A i \in Valid(b) : KeyAt(b, i) \in Key BY <1>3 DEF Valid, IsValid
  <1>8. ValidTotal(b) = Cardinality(Valid(b)) /\ Collected(b) = Elements(b)
    BY DEF SelectionOK, Valid
  <1>9. AllValid(b) <=> Valid(b) = Elements(b) BY <1>4, <1>6, <1>8 DEF AllValid
  <1> QED BY <1>2, <1>3, <1>4, <1>5, <1>6, <1>7, <1>8, <1>9 DEF Elements

\* The statistics bound the valid keys, and are two of them.
LEMMA KeysBetween ==
    ASSUME SelectionOK, NEW b \in Batches, Valid(b) # {}
    PROVE  /\ Low(b) \in Nat /\ High(b) \in Nat
           /\ \A i \in Valid(b) : Low(b) <= KeyAt(b, i) /\ KeyAt(b, i) <= High(b)
           /\ \E i \in Valid(b) : KeyAt(b, i) = Low(b)
           /\ \E i \in Valid(b) : KeyAt(b, i) = High(b)
  <1> DEFINE S == ValidKeys(b)
             V == Valid(b)
             f == [i \in V |-> KeyAt(b, i)]
  <1>1. S = {KeyAt(b, i) : i \in V} BY BatchRead DEF ValidKeys, Valid
  <1>2. S \in SUBSET Nat /\ S # {} BY <1>1, BatchRead, KeyAssumption
  <1>3. IsFiniteSet(S)
    <2>1. f \in Surjection(V, S) BY <1>1 DEF Surjection
    <2>2. IsFiniteSet(V) BY BatchRead
    <2> QED BY <2>1, <2>2, FS_Surjection
  <1> HIDE DEF S, V, f
  <1>4. Low(b) \in S /\ \A x \in S : Low(b) <= x
    <2>1. \E m \in S : \A x \in S : m <= x BY <1>2, LeastNatural
    <2> QED BY <2>1 DEF Low, Min, S
  <1>5. High(b) \in S /\ \A x \in S : x <= High(b)
    <2>1. PICK m \in S : \A x \in S : x <= m BY <1>2, <1>3, GreatestNatural
    <2>2. \A x \in S : m >= x BY <1>2, <2>1
    <2>3. High(b) \in S /\ \A x \in S : High(b) >= x BY <2>2 DEF High, Max, S
    <2> QED BY <1>2, <2>3
  <1> QED BY <1>1, <1>2, <1>4, <1>5 DEF V

\* Elements without an order error ascend strictly.
LEMMA Ascending ==
    ASSUME SelectionOK, NEW b \in Batches, AllValid(b), OrderErrors(b) = 0
    PROVE  \A d \in Nat : \A i \in Elements(b) :
               i + d \in Elements(b) => KeyAt(b, i) + d <= KeyAt(b, i + d)
  <1> DEFINE E == Elements(b)
             K(i) == KeyAt(b, i)
             bad == {i \in Collected(b) : i > 0 /\ KeyAt(b, i) <= KeyAt(b, i - 1)}
             P == {d \in Nat : \A i \in E : i + d \in E => K(i) + d <= K(i + d)}
  <1>1. E = 0..(Len(b.keys) - 1) /\ Len(b.keys) \in Nat /\ Valid(b) = E BY BatchRead
  <1>2. \A i \in E : i \in Nat /\ K(i) \in Nat BY <1>1, BatchRead, KeyAssumption
  <1>3. bad = {}
    <2>1. IsFiniteSet(bad)
      <3>1. bad \in SUBSET E BY BatchRead
      <3>2. IsFiniteSet(E) BY BatchRead
      <3> QED BY <3>1, <3>2, FS_Subset
    <2> QED BY <2>1, FS_EmptySet DEF OrderErrors
  <1>4. \A i \in E : i > 0 => K(i - 1) + 1 <= K(i)
    <2> SUFFICES ASSUME NEW i \in E, i > 0 PROVE K(i - 1) + 1 <= K(i) OBVIOUS
    <2>1. i - 1 \in E BY <1>1
    <2>2. ~(KeyAt(b, i) <= KeyAt(b, i - 1)) BY <1>3, BatchRead
    <2>3. K(i) \in Nat /\ K(i - 1) \in Nat BY <1>2, <2>1
    <2> QED BY <2>2, <2>3
  <1> HIDE DEF E, K
  <1>5. 0 \in P BY <1>2
  <1>6. ASSUME NEW d \in Nat, d \in P PROVE d + 1 \in P
    <2> SUFFICES ASSUME NEW i \in E, i + (d + 1) \in E PROVE K(i) + (d + 1) <= K(i + (d + 1))
      OBVIOUS
    <2>1. i + d \in E BY <1>1, <1>2
    <2>2. (i + (d + 1)) - 1 = i + d /\ i + (d + 1) > 0 BY <1>2
    <2>3. K(i + d) + 1 <= K(i + (d + 1)) BY <1>4, <2>2
    <2>4. K(i) + d <= K(i + d) BY <1>6, <2>1
    <2>5. K(i) \in Nat /\ K(i + d) \in Nat /\ K(i + (d + 1)) \in Nat BY <1>2, <2>1
    <2> QED BY <2>3, <2>4, <2>5
  <1> HIDE DEF P
  <1>7. Nat \subseteq P BY <1>5, <1>6, Induction
  <1> QED BY <1>7 DEF P, E, K

\* What passes for an interval is one: each key follows the one before it.
LEMMA Intervals ==
    ASSUME SelectionOK, NEW b \in Batches, IsInterval(b)
    PROVE  /\ Low(b) \in Nat /\ Valid(b) = Elements(b)
           /\ \A i \in Elements(b) : KeyAt(b, i) = Low(b) + i
  <1> DEFINE n == Len(b.keys)
             K(i) == KeyAt(b, i)
  <1>1. AllValid(b) /\ OrderErrors(b) = 0 /\ High(b) - Low(b) = n - 1 BY DEF IsInterval
  <1>2. n \in Nat \ {0} /\ Elements(b) = 0..(n - 1) /\ Valid(b) = Elements(b)
    BY <1>1, BatchRead
  <1>3. \A i \in Elements(b) : K(i) \in Nat BY <1>2, BatchRead, KeyAssumption
  <1>4. 0 \in Elements(b) /\ n - 1 \in Elements(b) BY <1>2
  <1>5. /\ Low(b) \in Nat /\ High(b) \in Nat
        /\ \A i \in Elements(b) : Low(b) <= K(i) /\ K(i) <= High(b)
        /\ \E i \in Elements(b) : K(i) = Low(b)
    BY <1>2, <1>4, KeysBetween
  <1>6. \A d \in Nat : \A i \in Elements(b) : i + d \in Elements(b) => K(i) + d <= K(i + d)
    BY <1>1, Ascending
  <1> HIDE DEF K, n
  <1>7. PICK j \in Elements(b) : K(j) = Low(b) BY <1>5
  <1>8. K(0) + j <= K(0 + j) /\ 0 + j = j BY <1>2, <1>4, <1>6
  <1>9. K(0) = Low(b) BY <1>2, <1>3, <1>4, <1>5, <1>7, <1>8
  <1>10. ASSUME NEW i \in Elements(b) PROVE K(i) = Low(b) + i
    <2>1. i \in Nat /\ (n - 1) - i \in Nat /\ 0 + i = i /\ i + ((n - 1) - i) = n - 1 BY <1>2
    <2>2. K(0) + i <= K(i) BY <1>4, <1>6, <2>1
    <2>3. K(i) + ((n - 1) - i) <= K(n - 1) BY <1>4, <1>6, <2>1
    <2>4. K(n - 1) <= High(b) BY <1>4, <1>5
    <2>5. High(b) - Low(b) = n - 1 BY <1>1 DEF n
    <2>6. K(i) \in Nat /\ K(n - 1) \in Nat BY <1>3, <1>4
    <2> QED BY <1>2, <1>5, <1>9, <2>1, <2>2, <2>3, <2>4, <2>5, <2>6
  <1> QED BY <1>2, <1>5, <1>10 DEF K

\* In a batch of valid elements only, the rank is the index.
LEMMA RanksOfAll ==
    ASSUME SelectionOK, NEW b \in Batches, AllValid(b)
    PROVE  \A i \in Elements(b) : Rank(Valid(b), i) = i
  <1> SUFFICES ASSUME NEW i \in Elements(b) PROVE Rank(Valid(b), i) = i OBVIOUS
  <1>1. Valid(b) = Elements(b) /\ Elements(b) = 0..(Len(b.keys) - 1) /\ Len(b.keys) \in Nat
    BY BatchRead
  <1>2. i \in Nat /\ i <= Len(b.keys) - 1 BY <1>1
  <1>3. {j \in Valid(b) : j < i} = 0..(i - 1) BY <1>1, <1>2
  <1>4. Cardinality(0..(i - 1)) = IF 0 > i - 1 THEN 0 ELSE (i - 1) - 0 + 1
    BY <1>2, FS_Interval
  <1>5. Cardinality(0..(i - 1)) = i BY <1>2, <1>4
  <1> QED BY <1>3, <1>5 DEF Rank

\* As many of the valid elements are accepted as there is room for, and take the
\* places behind the accepted elements, each its own.
LEMMA PlacesTaken ==
    ASSUME SelectionOK, NEW b \in Batches, size \in 0..Capacity
    PROVE  /\ Accepted(b) \in 0..ValidTotal(b) /\ Accepted(b) <= Capacity - size
           /\ Accepted(b) > 0 => Valid(b) # {}
           /\ \A i \in Taken(b) : Rank(Valid(b), i) \in 0..(Accepted(b) - 1)
           /\ \A i, j \in Taken(b) : i # j => Rank(Valid(b), i) # Rank(Valid(b), j)
           /\ \A r \in 0..(Accepted(b) - 1) : \E i \in Taken(b) : Rank(Valid(b), i) = r
  <1> DEFINE V == Valid(b)
  <1>1. Capacity \in Nat BY CapacityAssumption
  <1>2. V \in SUBSET Nat /\ IsFiniteSet(V) /\ ValidTotal(b) = Cardinality(V)
        /\ ValidTotal(b) \in Nat
    BY BatchRead
  <1>3. Accepted(b) \in 0..ValidTotal(b) /\ Accepted(b) <= Capacity - size
    BY <1>1, <1>2 DEF Accepted, Room
  <1>4. Accepted(b) > 0 => V # {}
    <2>1. Cardinality({}) = 0 BY FS_EmptySet
    <2> QED BY <1>2, <1>3, <2>1
  <1>5. /\ \A i \in V : Rank(V, i) \in 0..(Cardinality(V) - 1)
        /\ \A i, j \in V : i # j => Rank(V, i) # Rank(V, j)
        /\ \A r \in 0..(Cardinality(V) - 1) : \E i \in V : Rank(V, i) = r
    BY <1>2, Ranked
  <1>6. Taken(b) = {i \in V : Rank(V, i) < Accepted(b)} BY DEF Taken
  <1> HIDE DEF V
  <1>7. ASSUME NEW i \in Taken(b) PROVE Rank(V, i) \in 0..(Accepted(b) - 1)
    <2>1. i \in V /\ Rank(V, i) < Accepted(b) BY <1>6
    <2>2. Rank(V, i) \in 0..(Cardinality(V) - 1) BY <1>5, <2>1
    <2> QED BY <1>2, <1>3, <2>1, <2>2
  <1>8. \A r \in 0..(Accepted(b) - 1) : r \in 0..(Cardinality(V) - 1) /\ r < Accepted(b)
    BY <1>2, <1>3
  <1>9. \A r \in 0..(Accepted(b) - 1) : \E i \in Taken(b) : Rank(V, i) = r
    BY <1>5, <1>6, <1>8
  <1> QED BY <1>3, <1>4, <1>5, <1>6, <1>7, <1>9 DEF V

\* The Insert kernel has a thread for each of them, and knows its place.
LEMMA Threads ==
    ASSUME SelectionOK, NEW b \in Batches, size \in 0..Capacity, NEW dir, NEW base
    PROVE  InsertFlight(b, dir, base) =
               [i \in Taken(b) |->
                   [key |-> KeyAt(b, i), visited |-> 0, seen |-> 0,
                    to |-> IF b.conditional \/ ~AllValid(b)
                           THEN size + 1 + Rank(Valid(b), i) ELSE 0,
                    slot |-> IF dir THEN KeyAt(b, i) - base ELSE Home(KeyAt(b, i)),
                    pc |-> IF AllValid(b) /\ dir /\ OrderErrors(b) = 0 THEN "load"
                           ELSE IF dir THEN "add" ELSE "cas"]]
  <1> DEFINE n == Len(b.keys)
             place == IF AllValid(b) THEN [i \in Elements(b) |-> i] ELSE Places(Weights(b), n)
             taken == IF AllValid(b) THEN {i \in Elements(b) : i < Accepted(b)}
                      ELSE {i \in Elements(b) : IsValid(b, i) /\ place[i] < Room}
  <1>1. \A i \in Valid(b) : place[i] = Rank(Valid(b), i)
    <2>1. CASE AllValid(b)
      <3>1. Valid(b) = Elements(b) BY <2>1, BatchRead
      <3>2. \A i \in Elements(b) : Rank(Valid(b), i) = i BY <2>1, RanksOfAll
      <3> QED BY <2>1, <3>1, <3>2
    <2>2. CASE ~AllValid(b) BY <2>2 DEF SelectionOK, Valid, Rank
    <2> QED BY <2>1, <2>2
  <1>2. taken = Taken(b)
    <2>1. CASE AllValid(b)
      <3>1. Valid(b) = Elements(b) BY <2>1, BatchRead
      <3>2. \A i \in Elements(b) : Rank(Valid(b), i) = i BY <2>1, RanksOfAll
      <3> QED BY <2>1, <3>1, <3>2 DEF Taken
    <2>2. CASE ~AllValid(b)
      <3>1. taken = {i \in Valid(b) : place[i] < Room} BY <2>2 DEF Valid
      <3>2. taken = {i \in Valid(b) : Rank(Valid(b), i) < Room}
        <4> HIDE DEF taken, place
        <4> QED BY <1>1, <3>1
      <3>3. \A i \in Valid(b) : Rank(Valid(b), i) < Room <=> Rank(Valid(b), i) < Accepted(b)
        <4>1. \A i \in Valid(b) : Rank(Valid(b), i) \in 0..(ValidTotal(b) - 1)
          BY BatchRead, Ranked
        <4>2. ValidTotal(b) \in Nat /\ Room \in Int BY BatchRead, CapacityAssumption DEF Room
        <4> QED BY <4>1, <4>2 DEF Accepted
      <3> HIDE DEF taken, place
      <3> QED BY <3>2, <3>3 DEF Taken
    <2> QED BY <2>1, <2>2
  <1>3. \A i \in Taken(b) : i \in Valid(b) BY DEF Taken
  <1>4. InsertFlight(b, dir, base) =
            [i \in taken |->
                [key |-> KeyAt(b, i), visited |-> 0, seen |-> 0,
                 to |-> IF b.conditional \/ ~AllValid(b) THEN size + 1 + place[i] ELSE 0,
                 slot |-> IF dir THEN KeyAt(b, i) - base ELSE Home(KeyAt(b, i)),
                 pc |-> IF AllValid(b) /\ dir /\ OrderErrors(b) = 0 THEN "load"
                        ELSE IF dir THEN "add" ELSE "cas"]]
    BY DEF InsertFlight
  <1> HIDE DEF place, taken
  <1> QED BY <1>1, <1>2, <1>3, <1>4

--------------------------------------------------------------------------------
(* Uniform multiplicities. *)

\* The counters that materialize uniform multiplicities.
LEMMA UniformMaterialized ==
    ASSUME PowersOK, NEW E, IsFiniteSet(E), NEW f, \A p \in E : f[p] \in Nat,
           NEW base \in Nat, NEW len, NEW times \in Nat, Uniform(base, len, times, E, f)
    PROVE  Counters([s \in Slot |-> IF s < len THEN times + 1 ELSE 1], base, E, f)
  <1> DEFINE cs == [s \in Slot |-> IF s < len THEN times + 1 ELSE 1]
             T == TableCapacity
  <1>1. T \in Nat \ {0} /\ Capacity \in Nat /\ Capacity <= T
    BY TableHasRoom, CapacityAssumption
  <1>2. len \in 1..Capacity BY DEF Uniform
  <1>3. \A k \in Nat : Tally(E, f, k) = IF k - base \in 0..(len - 1) THEN times ELSE 0
    BY DEF Uniform
  <1>4. Slot = 0..(T - 1) BY DEF Slot
  <1> HIDE DEF T
  <1>5. cs \in [Slot -> Nat] OBVIOUS
  <1>6. ASSUME NEW s \in Slot PROVE cs[s] = 1 + Tally(E, f, base + s)
    <2>1. base + s \in Nat /\ (base + s) - base = s /\ s \in Nat BY <1>4
    <2>2. Tally(E, f, base + s) = IF s \in 0..(len - 1) THEN times ELSE 0 BY <1>3, <2>1
    <2>3. s \in 0..(len - 1) <=> s < len BY <1>2, <2>1
    <2> QED BY <2>2, <2>3
  <1>7. ASSUME NEW p \in E PROVE f[p] - base \in Slot
    <2>1. f[p] \in Nat /\ Tally(E, f, f[p]) > 0 BY Tallied
    <2>2. f[p] - base \in 0..(len - 1) BY <1>3, <2>1
    <2> QED BY <1>1, <1>2, <1>4, <2>2
  <1> HIDE DEF cs
  <1> QED BY <1>5, <1>6, <1>7 DEF Counters, cs

\* One more run of the interval, behind all others: each multiplicity is one more.
LEMMA UniformMore ==
    ASSUME NEW a \in Nat, NEW len \in 1..Capacity, NEW base \in Nat, NEW times \in Nat,
           NEW f, NEW g, \A p \in 1..a : f[p] = g[p],
           \A k \in Nat : Tally(1..a, f, k) = IF k - base \in 0..(len - 1) THEN times ELSE 0,
           \A i \in 0..(len - 1) : g[a + 1 + i] = base + i
    PROVE  Uniform(base, len, times + 1, 1..(a + len), g)
  <1> DEFINE D == (a + 1)..(a + len)
  <1>0. Capacity \in Nat /\ len \in Nat BY CapacityAssumption
  <1>1. 1..(a + len) = (1..a) \cup D /\ (1..a) \cap D = {} BY <1>0
  <1>2. ASSUME NEW k \in Nat
        PROVE  Tally(1..(a + len), g, k) = IF k - base \in 0..(len - 1) THEN times + 1 ELSE 0
    <2> DEFINE S == {p \in 1..a : g[p] = k}
               R == {p \in D : g[p] = k}
    <2>1. {p \in 1..(a + len) : g[p] = k} = S \cup R /\ S \cap R = {} BY <1>1
    <2>2. S = {p \in 1..a : f[p] = k} OBVIOUS
    <2>3. IsFiniteSet(1..a) /\ IsFiniteSet(D) BY <1>0, FS_Interval
    <2>4. IsFiniteSet(S) /\ IsFiniteSet(R) BY <2>3, FS_Subset
    <2>5. Cardinality(S \cup R) = Cardinality(S) + Cardinality(R) - Cardinality(S \cap R)
      BY <2>4, FS_Union
    <2>6. Cardinality(S \cap R) = 0 BY <2>1, FS_EmptySet
    <2>7. Cardinality(S) = IF k - base \in 0..(len - 1) THEN times ELSE 0 BY <2>2 DEF Tally
    <2>8. \A p \in D : g[p] = base + (p - (a + 1)) /\ p \in Nat
      <3> TAKE p \in D
      <3>1. p - (a + 1) \in 0..(len - 1) /\ (a + 1) + (p - (a + 1)) = p /\ p \in Nat BY <1>0
      <3> QED BY <3>1
    <2>9. Cardinality(R) = IF k - base \in 0..(len - 1) THEN 1 ELSE 0
      <3>1. CASE k - base \in 0..(len - 1)
        <4> DEFINE q == a + 1 + (k - base)
        <4>1. q \in D /\ q - (a + 1) = k - base /\ base + (k - base) = k BY <1>0, <3>1
        <4>2. \A p \in D : g[p] = k <=> p = q
          <5> TAKE p \in D
          <5>1. g[p] = base + (p - (a + 1)) /\ p \in Nat BY <2>8
          <5> HIDE DEF D
          <5> QED BY <4>1, <5>1
        <4>3. R = {q} BY <4>1, <4>2
        <4> HIDE DEF R, q
        <4>4. Cardinality({q}) = 1 BY FS_Singleton
        <4> QED BY <3>1, <4>3, <4>4
      <3>2. CASE k - base \notin 0..(len - 1)
        <4>1. \A p \in D : g[p] # k
          <5> TAKE p \in D
          <5>1. g[p] = base + (p - (a + 1)) /\ p - (a + 1) \in 0..(len - 1) BY <1>0, <2>8
          <5> HIDE DEF D
          <5> QED BY <3>2, <5>1
        <4>2. R = {} BY <4>1
        <4> HIDE DEF R
        <4>3. Cardinality({}) = 0 BY FS_EmptySet
        <4> QED BY <3>2, <4>2, <4>3
      <3> QED BY <3>1, <3>2
    <2>10. Tally(1..(a + len), g, k) = Cardinality(S) + Cardinality(R)
      <3>1. Cardinality(S) \in Nat /\ Cardinality(R) \in Nat BY <2>4, FS_CardinalityType
      <3>2. Tally(1..(a + len), g, k) = Cardinality(S \cup R) BY <2>1 DEF Tally
      <3> HIDE DEF S, R
      <3> QED BY <2>5, <2>6, <3>1, <3>2
    <2> HIDE DEF S, R
    <2> QED BY <2>7, <2>9, <2>10
  <1> HIDE DEF D
  <1> QED BY <1>2 DEF Uniform

--------------------------------------------------------------------------------
(* Places and representations, as the kernels go on. *)

\* Places depend on the size and the kernel only.
LEMMA PlacesStay ==
    ASSUME NEW b, size' = size, phase' = phase
    PROVE  /\ Accepted(b)' = Accepted(b) /\ Taken(b)' = Taken(b)
           /\ Source(b)' = Source(b) /\ Goal(b)' = Goal(b)
           /\ \A i : At(b, i)' = At(b, i)
  <1>1. Accepted(b)' = Accepted(b) BY DEF Accepted, Room
  <1>2. Taken(b)' = Taken(b) BY <1>1 DEF Taken
  <1> QED BY <1>1, <1>2 DEF Source, Goal, At

\* Every element that is put in has a place of its own.
LEMMA OwnPlaces ==
    ASSUME SelectionOK, TypeOK, NEW b \in Batches
    PROVE  /\ IsFiniteSet(Goal(b)) /\ Goal(b) \in SUBSET (1..Capacity)
           /\ \A i \in Source(b) : At(b, i) \in Goal(b)
           /\ \A i, j \in Source(b) : i # j => At(b, i) # At(b, j)
           /\ \A p \in Goal(b) : p \in 1..size \/ \E i \in Source(b) : At(b, i) = p
           /\ phase # "rebuild" => 1..size \subseteq Goal(b) /\ \A i \in Source(b) : At(b, i) > size
  <1>0. size \in 0..Capacity /\ size \in Nat /\ Capacity \in Nat
    BY CapacityAssumption DEF TypeOK
  <1>1. CASE phase = "rebuild"
    <2>1. Goal(b) = 1..size /\ Source(b) = 1..size /\ \A i : At(b, i) = i
      BY <1>1 DEF Goal, Source, At
    <2>2. IsFiniteSet(1..size) BY <1>0, FS_Interval
    <2>3. 1..size \in SUBSET (1..Capacity) BY <1>0
    <2> QED BY <1>1, <2>1, <2>2, <2>3
  <1>2. CASE phase # "rebuild"
    <2> DEFINE r(i) == Rank(Valid(b), i)
               a == Accepted(b)
    <2>1. Goal(b) = 1..(size + a) /\ Source(b) = Taken(b) /\ \A i : At(b, i) = size + 1 + r(i)
      BY <1>2 DEF Goal, Source, At
    <2>2. /\ a \in Nat /\ a <= Capacity - size
          /\ \A i \in Taken(b) : r(i) \in 0..(a - 1)
          /\ \A i, j \in Taken(b) : i # j => r(i) # r(j)
          /\ \A x \in 0..(a - 1) : \E i \in Taken(b) : r(i) = x
      <3>1. ValidTotal(b) \in Nat BY BatchRead
      <3> QED BY <1>0, <3>1, PlacesTaken
    <2> HIDE DEF r, a
    <2>3. IsFiniteSet(1..(size + a)) BY <1>0, <2>2, FS_Interval
    <2>4. 1..(size + a) \in SUBSET (1..Capacity) BY <1>0, <2>2
    <2>5. \A i \in Taken(b) : size + 1 + r(i) \in 1..(size + a) /\ size + 1 + r(i) > size
      BY <1>0, <2>2
    <2>6. ASSUME NEW i \in Taken(b), NEW j \in Taken(b), i # j
          PROVE  size + 1 + r(i) # size + 1 + r(j)
      <3>1. r(i) \in 0..(a - 1) /\ r(j) \in 0..(a - 1) /\ r(i) # r(j) BY <2>2, <2>6
      <3> QED BY <1>0, <3>1
    <2>7. ASSUME NEW p \in 1..(size + a), p \notin 1..size
          PROVE  \E i \in Taken(b) : size + 1 + r(i) = p
      <3>1. p - size - 1 \in 0..(a - 1) /\ size + 1 + (p - size - 1) = p BY <1>0, <2>2, <2>7
      <3> QED BY <2>2, <3>1
    <2>8. 1..size \subseteq 1..(size + a) BY <1>0, <2>2
    <2> QED BY <1>2, <2>1, <2>3, <2>4, <2>5, <2>6, <2>7, <2>8
  <1> QED BY <1>1, <1>2

\* Counters say the same of a sequence that agrees on their places.
LEMMA CountersSame ==
    ASSUME NEW cs, NEW base, NEW E, NEW f, NEW g, \A p \in E : f[p] = g[p],
           Counters(cs, base, E, f)
    PROVE  Counters(cs, base, E, g)
  <1>1. \A k : Tally(E, f, k) = Tally(E, g, k) BY TallySame
  <1> QED BY <1>1 DEF Counters

\* So does a table.
LEMMA ChainsSame ==
    ASSUME NEW ks, NEW cs, NEW E, NEW f, NEW g, \A p \in E : f[p] = g[p],
           Chains(ks, cs, E, f)
    PROVE  Chains(ks, cs, E, g)
  <1>1. \A k : Tally(E, f, k) = Tally(E, g, k) BY TallySame
  <1>2. ASSUME NEW x \in Slot
        PROVE  IF ks[x] = EmptyKey THEN cs[x] = 1
               ELSE cs[x] = Tally(E, g, ks[x]) /\ \E p \in E : g[p] = ks[x]
    <2>1. IF ks[x] = EmptyKey THEN cs[x] = 1
          ELSE cs[x] = Tally(E, f, ks[x]) /\ \E p \in E : f[p] = ks[x]
      BY DEF Chains
    <2> QED BY <1>1, <2>1
  <1> QED BY <1>2 DEF Chains

\* A thread that is done leaves its element to the counters.
LEMMA ThreadGone ==
    ASSUME SelectionOK, TypeOK, NEW b \in Batches, DOMAIN flight \subseteq Source(b),
           NEW i \in DOMAIN flight, size' = size, phase' = phase,
           DOMAIN flight' = DOMAIN flight \ {i}
    PROVE  /\ Entered(b)' = Entered(b) \cup {At(b, i)}
           /\ At(b, i) \notin Entered(b) /\ At(b, i) \in Goal(b)
           /\ IsFiniteSet(Entered(b)) /\ Cardinality(Entered(b)) < Capacity
  <1> DEFINE F == {At(b, j) : j \in DOMAIN flight}
             q == At(b, i)
  <1>1. Goal(b)' = Goal(b) /\ \A j : At(b, j)' = At(b, j) BY PlacesStay
  <1>2. Entered(b)' = Goal(b) \ {At(b, j) : j \in DOMAIN flight \ {i}} BY <1>1 DEF Entered
  <1>3. Entered(b) = Goal(b) \ F /\ q \in F BY DEF Entered
  <1>4. \A j \in DOMAIN flight \ {i} : At(b, j) # q BY OwnPlaces
  <1>5. q \in Goal(b) BY OwnPlaces
  <1>6. Entered(b)' = Entered(b) \cup {q} BY <1>2, <1>3, <1>4, <1>5
  <1>7. IsFiniteSet(Entered(b)) /\ Cardinality(Entered(b)) < Capacity
    <2>1. IsFiniteSet(1..Capacity) /\ Cardinality(1..Capacity) = Capacity /\ Capacity \in Nat
      <3>1. Cardinality(1..Capacity) = IF 1 > Capacity THEN 0 ELSE Capacity - 1 + 1
        BY CapacityAssumption, FS_Interval
      <3> QED BY <3>1, CapacityAssumption, FS_Interval
    <2>2. Entered(b) \in SUBSET (1..Capacity) /\ q \in 1..Capacity /\ q \notin Entered(b)
      BY <1>3, <1>5, OwnPlaces
    <2> HIDE DEF q
    <2>3. IsFiniteSet(Entered(b)) /\ Cardinality(Entered(b)) <= Capacity BY <2>1, <2>2, FS_Subset
    <2>4. Cardinality(Entered(b)) \in Nat BY <2>3, FS_CardinalityType
    <2>5. Cardinality(Entered(b)) # Capacity
      <3>1. Entered(b) # 1..Capacity BY <2>2
      <3> QED BY <2>1, <2>2, <3>1, FS_Subset
    <2> QED BY <2>1, <2>3, <2>4, <2>5
  <1> QED BY <1>3, <1>5, <1>6, <1>7

\* A thread stores its element at its place and nowhere else.
LEMMA Stored ==
    ASSUME TypeOK, NEW b, NEW e, NEW at \in 1..Capacity, e.key \in Key,
           ThreadOK(b, e, at), Store(e)
    PROVE  /\ ordered' \in [1..Capacity -> Key \cup {EmptyKey, Unset}]
           /\ ordered'[at] = e.key
           /\ \A p \in 1..Capacity : p # at => ordered'[p] = ordered[p]
  <1>1. ordered \in [1..Capacity -> Key \cup {EmptyKey, Unset}] BY DEF TypeOK
  <1>2. CASE e.to = 0
    <2>1. ordered' = ordered /\ ordered[at] = e.key BY <1>2 DEF Store, ThreadOK
    <2> QED BY <1>1, <2>1
  <1>3. CASE e.to # 0
    <2>1. e.to = at /\ ordered' = [ordered EXCEPT ![at] = e.key]
      BY <1>3 DEF Store, ThreadOK
    <2> QED BY <1>1, <2>1
  <1> QED BY <1>2, <1>3

--------------------------------------------------------------------------------
(* The steps of the threads. *)

\* What a thread writes in its counter or slot does not disturb the others.
Undisturbed(j) ==
    IF direct THEN flight[j].pc = "store" => counts'[flight[j].slot] = counts[flight[j].slot]
    ELSE Passed(keys', flight[j].key, flight[j].visited)

\* The elements that the counters know after a step of kernels.
CountedNext(E) ==
    IF direct THEN Counters(counts', directBase, E, ordered')
    ELSE Chains(keys', counts', E, ordered')

\* ordered_ after a thread has stored its element at a place.
StoredAt(at, k) ==
    /\ ordered' \in [1..Capacity -> Key \cup {EmptyKey, Unset}]
    /\ ordered'[at] = k
    /\ \A p \in 1..Capacity : p # at => ordered'[p] = ordered[p]

\* Raw elements of the batch are behind all that a rebuild counts.
LEMMA RawStays ==
    ASSUME SelectionOK, TypeOK, NEW b \in Batches, phase = "rebuild", RawPrefix(b),
           NEW at \in Goal(b), size' = size,
           \A p \in 1..Capacity : p # at => ordered'[p] = ordered[p]
    PROVE  RawPrefix(b)'
  <1>0. size \in Nat /\ Capacity \in Nat BY CapacityAssumption DEF TypeOK
  <1>1. at \in 1..size BY DEF Goal
  <1>2. Elements(b) \in SUBSET Nat BY BatchRead
  <1> SUFFICES ASSUME ~b.conditional, NEW i \in Elements(b), i < Capacity - size
               PROVE  ordered'[size + 1 + i] = KeyAt(b, i)
    BY DEF RawPrefix, Room
  <1>3. size + 1 + i \in 1..Capacity /\ size + 1 + i # at BY <1>0, <1>1, <1>2
  <1>4. ordered[size + 1 + i] = KeyAt(b, i) BY DEF RawPrefix, Room
  <1> QED BY <1>3, <1>4

\* What is left to do when a thread is done with its element.
LEMMA OthersGoOn ==
    ASSUME SelectionOK, TypeOK, NEW b \in Batches, Working(b), NEW i \in DOMAIN flight,
           UNCHANGED <<host, phase>>, Done(i), StoredAt(At(b, i), flight[i].key),
           \A j \in DOMAIN flight : j # i => Undisturbed(j),
           CountedNext(Entered(b) \cup {At(b, i)})
    PROVE  Working(b)'
  <1> DEFINE q == At(b, i)
  <1>0. size' = size /\ direct' = direct /\ directBase' = directBase
        /\ uniformCount' = uniformCount
    BY DEF host
  <1>1. flight' = [j \in DOMAIN flight \ {i} |-> flight[j]]
        /\ DOMAIN flight' = DOMAIN flight \ {i}
    BY DEF Done
  <1>2. /\ Accepted(b)' = Accepted(b) /\ Source(b)' = Source(b) /\ Goal(b)' = Goal(b)
        /\ \A j : At(b, j)' = At(b, j)
    BY <1>0, PlacesStay
  <1>3. DOMAIN flight \subseteq Source(b) BY DEF Working
  <1>4. /\ Entered(b)' = Entered(b) \cup {q} /\ q \notin Entered(b) /\ q \in Goal(b)
    BY <1>0, <1>1, <1>3, ThreadGone
  <1>5. Goal(b) \in SUBSET (1..Capacity) BY OwnPlaces
  <1>6. Accepted(b)' > 0 BY <1>2 DEF Working
  <1>7. Counted(Entered(b))'
    <2>1. uniformCount' = 0 BY <1>0 DEF Working, Counted
    <2> QED BY <1>0, <1>4, <2>1 DEF CountedNext, Counted
  <1>8. ASSUME NEW p \in Entered(b)' PROVE ordered'[p] \in Key
    <2>1. p \in 1..Capacity BY <1>4, <1>5, <1>8 DEF Entered
    <2>2. CASE p = q BY <2>2 DEF StoredAt, Working, Thread
    <2>3. CASE p # q
      <3>1. p \in Entered(b) BY <1>4, <2>3
      <3>2. ordered[p] \in Key BY <3>1 DEF Working
      <3> QED BY <2>1, <2>3, <3>2 DEF StoredAt
    <2> QED BY <2>2, <2>3
  <1>9. ASSUME phase' = "rebuild" PROVE ~direct' /\ RawPrefix(b)'
    <2>1. phase = "rebuild" /\ ~direct /\ RawPrefix(b) BY <1>9 DEF Working
    <2> QED BY <1>0, <1>4, <2>1, RawStays DEF StoredAt
  <1>10. flight' \in [DOMAIN flight' -> Thread] BY <1>1 DEF Working
  <1>11. ASSUME NEW j \in DOMAIN flight' PROVE ThreadOK(b, flight[j], At(b, j))'
    <2>1. j \in DOMAIN flight /\ j # i /\ flight'[j] = flight[j] BY <1>1
    <2>2. At(b, j) # q /\ At(b, j) \in 1..Capacity BY <1>3, <1>5, <2>1, OwnPlaces
    <2>3. ordered'[At(b, j)] = ordered[At(b, j)] BY <2>2 DEF StoredAt
    <2>4. ThreadOK(b, flight[j], At(b, j)) /\ Undisturbed(j) BY <2>1 DEF Working
    <2> QED BY <1>0, <1>2, <2>1, <2>3, <2>4 DEF ThreadOK, Undisturbed
  <1>12. Apart' BY <1>1 DEF Apart, Working
  <1> QED BY <1>1, <1>2, <1>3, <1>6, <1>7, <1>8, <1>9, <1>10, <1>11, <1>12 DEF Working

\* What is left to do when a thread has gone on with its own element.
LEMMA AllGoOn ==
    ASSUME SelectionOK, TypeOK, NEW b \in Batches, Working(b), NEW i \in DOMAIN flight,
           UNCHANGED <<host, arrays, phase>>, StoredAt(At(b, i), flight[i].key),
           NEW e \in Thread, flight' = [flight EXCEPT ![i] = e],
           e.key = flight[i].key, e.pc \in {"load", "store"} <=> flight[i].pc \in {"load", "store"},
           ThreadOK(b, e, At(b, i))'
    PROVE  Working(b)'
  <1> DEFINE q == At(b, i)
  <1>0. size' = size /\ direct' = direct /\ directBase' = directBase
        /\ uniformCount' = uniformCount /\ counts' = counts /\ keys' = keys
    BY DEF host, arrays
  <1>1. DOMAIN flight' = DOMAIN flight /\ flight'[i] = e
        /\ \A j \in DOMAIN flight : j # i => flight'[j] = flight[j]
    BY DEF Working
  <1>2. /\ Accepted(b)' = Accepted(b) /\ Source(b)' = Source(b) /\ Goal(b)' = Goal(b)
        /\ \A j : At(b, j)' = At(b, j)
    BY <1>0, PlacesStay
  <1>3. DOMAIN flight \subseteq Source(b) BY DEF Working
  <1>4. Entered(b)' = Entered(b) /\ q \notin Entered(b) /\ q \in Goal(b)
    <2>1. q \in Goal(b) BY <1>3, OwnPlaces
    <2> QED BY <1>1, <1>2, <2>1 DEF Entered
  <1>5. Goal(b) \in SUBSET (1..Capacity) BY OwnPlaces
  <1>6. Accepted(b)' > 0 BY <1>2 DEF Working
  <1>7. \A p \in Entered(b) : ordered[p] = ordered'[p]
    <2>1. \A p \in Entered(b) : p \in 1..Capacity /\ p # q BY <1>4, <1>5 DEF Entered
    <2> QED BY <2>1 DEF StoredAt
  <1>8. Counted(Entered(b))'
    <2>1. Counted(Entered(b)) BY DEF Working
    <2>2. CASE direct
      <3>1. Counters(counts, directBase, Entered(b), ordered) BY <2>1, <2>2 DEF Counted
      <3>2. Counters(counts, directBase, Entered(b), ordered') BY <1>7, <3>1, CountersSame
      <3> QED BY <1>0, <1>4, <2>1, <2>2, <3>2 DEF Counted
    <2>3. CASE ~direct
      <3>1. Chains(keys, counts, Entered(b), ordered) BY <2>1, <2>3 DEF Counted
      <3>2. Chains(keys, counts, Entered(b), ordered') BY <1>7, <3>1, ChainsSame
      <3> QED BY <1>0, <1>4, <2>1, <2>3, <3>2 DEF Counted
    <2> QED BY <2>2, <2>3
  <1>9. \A p \in Entered(b)' : ordered'[p] \in Key BY <1>4, <1>7 DEF Working
  <1>10. ASSUME phase' = "rebuild" PROVE ~direct' /\ RawPrefix(b)'
    <2>1. phase = "rebuild" /\ ~direct /\ RawPrefix(b) BY <1>10 DEF Working
    <2> QED BY <1>0, <1>4, <2>1, RawStays DEF StoredAt
  <1>11. flight' \in [DOMAIN flight' -> Thread] BY <1>1 DEF Working
  <1>12. ASSUME NEW j \in DOMAIN flight' PROVE ThreadOK(b, flight[j], At(b, j))'
    <2>1. CASE j = i BY <1>1, <2>1
    <2>2. CASE j # i
      <3>1. j \in DOMAIN flight /\ flight'[j] = flight[j] BY <1>1, <2>2
      <3>2. At(b, j) # q /\ At(b, j) \in 1..Capacity BY <1>3, <1>5, <2>2, <3>1, OwnPlaces
      <3>3. ordered'[At(b, j)] = ordered[At(b, j)] BY <3>2 DEF StoredAt
      <3>4. ThreadOK(b, flight[j], At(b, j)) BY <3>1 DEF Working
      <3> QED BY <1>0, <1>2, <3>1, <3>3, <3>4 DEF ThreadOK
    <2> QED BY <2>1, <2>2
  <1>13. Apart'
    <2>1. \A j \in DOMAIN flight : flight'[j].key = flight[j].key
              /\ (flight'[j].pc \in {"load", "store"} <=> flight[j].pc \in {"load", "store"})
      BY <1>1
    <2> QED BY <1>1, <2>1 DEF Apart, Working
  <1> QED BY <1>1, <1>2, <1>3, <1>6, <1>8, <1>9, <1>10, <1>11, <1>12, <1>13 DEF Working

\* What is known of a thread that runs.
LEMMA RunningThread ==
    ASSUME SelectionOK, TypeOK, NEW b \in Batches, Working(b), NEW i \in DOMAIN flight
    PROVE  /\ flight[i] \in Thread /\ ThreadOK(b, flight[i], At(b, i))
           /\ At(b, i) \in 1..Capacity /\ At(b, i) \in Goal(b)
           /\ At(b, i) \notin Entered(b)
           /\ IsFiniteSet(Entered(b)) /\ Cardinality(Entered(b)) < Capacity
           /\ \A p \in Entered(b) : p \in 1..Capacity /\ p # At(b, i) /\ ordered[p] \in Key
           /\ flight[i].pc # "cas" <=> direct
           /\ Store(flight[i]) => StoredAt(At(b, i), flight[i].key)
  <1>1. flight[i] \in Thread /\ ThreadOK(b, flight[i], At(b, i)) BY DEF Working
  <1>2. i \in Source(b) BY DEF Working
  <1>3. At(b, i) \in Goal(b) /\ Goal(b) \in SUBSET (1..Capacity) /\ IsFiniteSet(Goal(b))
    BY <1>2, OwnPlaces
  <1>4. At(b, i) \notin Entered(b) BY DEF Entered
  <1>5. Entered(b) \in SUBSET Goal(b) BY DEF Entered
  <1>6. IsFiniteSet(Entered(b)) /\ Cardinality(Entered(b)) < Capacity
    <2>1. IsFiniteSet(1..Capacity) /\ Cardinality(1..Capacity) = Capacity /\ Capacity \in Nat
      <3>1. Cardinality(1..Capacity) = IF 1 > Capacity THEN 0 ELSE Capacity - 1 + 1
        BY CapacityAssumption, FS_Interval
      <3> QED BY <3>1, CapacityAssumption, FS_Interval
    <2>2. Entered(b) \in SUBSET (1..Capacity) BY <1>3, <1>5
    <2>3. Entered(b) # 1..Capacity BY <1>3, <1>4
    <2>4. IsFiniteSet(Entered(b)) /\ Cardinality(Entered(b)) <= Capacity
          /\ Cardinality(Entered(b)) # Capacity
      BY <2>1, <2>2, <2>3, FS_Subset
    <2>5. Cardinality(Entered(b)) \in Nat BY <2>4, FS_CardinalityType
    <2> QED BY <2>1, <2>4, <2>5
  <1>7. \A p \in Entered(b) : p \in 1..Capacity /\ p # At(b, i) /\ ordered[p] \in Key
    BY <1>3, <1>4, <1>5 DEF Working
  <1>8. flight[i].pc # "cas" <=> direct BY <1>1 DEF ThreadOK
  <1>9. Store(flight[i]) => StoredAt(At(b, i), flight[i].key)
    <2>1. flight[i].key \in Key /\ At(b, i) \in 1..Capacity BY <1>1, <1>3 DEF Thread
    <2> QED BY <1>1, <2>1, Stored DEF StoredAt
  <1> QED BY <1>1, <1>3, <1>4, <1>6, <1>7, <1>8, <1>9

\* An increment, atomic or not, that finds and leaves the counter as it should be.
LEMMA CounterGoesUp ==
    ASSUME SelectionOK, TypeOK, NEW b \in Batches, Working(b), NEW i \in DOMAIN flight,
           direct, UNCHANGED <<host, keys, phase, call>>, Done(i),
           StoredAt(At(b, i), flight[i].key),
           counts' = [counts EXCEPT ![flight[i].slot] = counts[flight[i].slot] + 1]
    PROVE  TypeOK' /\ Working(b)'
  <1> DEFINE e == flight[i]
             q == At(b, i)
             E == Entered(b)
  <1>1. /\ e \in Thread /\ ThreadOK(b, e, q) /\ q \in 1..Capacity /\ q \notin E
        /\ IsFiniteSet(E) /\ \A p \in E : p \in 1..Capacity /\ p # q /\ ordered[p] \in Key
    BY RunningThread
  <1>2. e.slot = e.key - directBase /\ e.slot \in Slot /\ e.key \in Key
    BY <1>1 DEF ThreadOK, Thread
  <1>3. Counters(counts, directBase, E, ordered) BY DEF Working, Counted
  <1>4. directBase \in Nat /\ e.key \in Nat BY <1>2, KeyAssumption DEF TypeOK
  <1>5. \A p \in E : ordered[p] = ordered'[p] BY <1>1 DEF StoredAt
  <1>6. ordered'[q] = e.key BY DEF StoredAt
  <1>7. ordered'[q] - directBase = e.slot /\ ordered'[q] \in Nat BY <1>2, <1>4, <1>6
  <1>8. Counters([counts EXCEPT ![ordered'[q] - directBase]
                     = counts[ordered'[q] - directBase] + 1], directBase, E \cup {q}, ordered')
    BY <1>1, <1>2, <1>3, <1>4, <1>5, <1>7, AddKeeps
  <1>9. Counters(counts', directBase, E \cup {q}, ordered') BY <1>7, <1>8
  <1>10. ASSUME NEW j \in DOMAIN flight, j # i PROVE Undisturbed(j)
    <2> SUFFICES ASSUME flight[j].pc = "store"
                 PROVE  counts'[flight[j].slot] = counts[flight[j].slot]
      BY DEF Undisturbed
    <2>1. flight[j].key # e.key BY <1>10 DEF Working, Apart
    <2>2. flight[j] \in Thread /\ ThreadOK(b, flight[j], At(b, j)) BY RunningThread
    <2>3. flight[j].slot = flight[j].key - directBase /\ flight[j].slot \in Slot
          /\ flight[j].key \in Nat
      BY <2>2, KeyAssumption DEF ThreadOK, Thread
    <2>4. flight[j].slot # e.slot BY <1>2, <1>4, <2>1, <2>3
    <2>5. counts \in [Slot -> Nat] BY <1>3 DEF Counters
    <2> QED BY <2>3, <2>4, <2>5
  <1>11. CountedNext(E \cup {q}) BY <1>9 DEF CountedNext
  <1>12. Working(b)' BY <1>10, <1>11, OthersGoOn
  <1>13. counts' \in [Slot -> Nat] BY <1>9 DEF Counters
  <1>14. TypeOK' BY <1>13 DEF TypeOK, StoredAt, host, Idle
  <1> QED BY <1>12, <1>14

\* The atomic increment.
LEMMA AtomicAddStep ==
    ASSUME SelectionOK, TypeOK, NEW b \in Batches, Working(b), NEW i \in DOMAIN flight,
           AtomicAdd(i)
    PROVE  TypeOK' /\ Working(b)'
  <1>1. direct /\ StoredAt(At(b, i), flight[i].key) BY RunningThread DEF AtomicAdd
  <1>2. counts' = [counts EXCEPT ![flight[i].slot] = counts[flight[i].slot] + 1]
    BY DEF AtomicAdd, Increment
  <1> QED BY <1>1, <1>2, CounterGoesUp DEF AtomicAdd

\* The store of a count that nobody else has changed since it was loaded.
LEMMA StoreCountStep ==
    ASSUME SelectionOK, TypeOK, NEW b \in Batches, Working(b), NEW i \in DOMAIN flight,
           StoreCount(i)
    PROVE  TypeOK' /\ Working(b)'
  <1>1. /\ direct /\ ThreadOK(b, flight[i], At(b, i)) /\ flight[i].pc = "store"
        /\ At(b, i) \in 1..Capacity /\ ordered' = ordered
    BY RunningThread DEF StoreCount
  <1>2. ordered[At(b, i)] = flight[i].key /\ flight[i].seen = counts[flight[i].slot]
    BY <1>1 DEF ThreadOK
  <1>3. StoredAt(At(b, i), flight[i].key) BY <1>1, <1>2 DEF StoredAt, TypeOK
  <1>4. counts' = [counts EXCEPT ![flight[i].slot] = counts[flight[i].slot] + 1]
    BY <1>2 DEF StoreCount
  <1> QED BY <1>1, <1>3, <1>4, CounterGoesUp DEF StoreCount

\* The load.
LEMMA LoadStep ==
    ASSUME SelectionOK, TypeOK, NEW b \in Batches, Working(b), NEW i \in DOMAIN flight, Load(i)
    PROVE  TypeOK' /\ Working(b)'
  <1> DEFINE e == flight[i]
  <1>1. /\ direct /\ e \in Thread /\ ThreadOK(b, e, At(b, i)) /\ e.pc = "load"
        /\ StoredAt(At(b, i), e.key)
    BY RunningThread DEF Load
  <1>2. Counters(counts, directBase, Entered(b), ordered) BY <1>1 DEF Working, Counted
  <1>3. counts \in [Slot -> Nat] BY <1>2 DEF Counters
  <1>4. counts[e.slot] \in Nat BY <1>1, <1>3 DEF Thread
  <1>a. [e EXCEPT !.pc = "store", !.seen = counts[e.slot]] \in Thread BY <1>1, <1>4 DEF Thread
  <1>b. PICK x \in Thread : x = [e EXCEPT !.pc = "store", !.seen = counts[e.slot]] BY <1>a
  <1>5. /\ x.key = e.key /\ x.pc = "store" /\ x.seen = counts[e.slot]
        /\ x.slot = e.slot /\ x.to = e.to
    BY <1>1, <1>b DEF Thread
  <1>6. flight' = [flight EXCEPT ![i] = x]
    <2>1. flight \in [DOMAIN flight -> Thread] BY DEF Working
    <2> QED BY <1>b, <2>1 DEF Load
  <1>7. UNCHANGED <<host, arrays, phase, call>> BY DEF Load
  <1>8. At(b, i)' = At(b, i) BY <1>7, PlacesStay DEF host
  <1>9. ThreadOK(b, x, At(b, i))'
    BY <1>1, <1>5, <1>7, <1>8 DEF ThreadOK, StoredAt, host, arrays
  <1>10. Working(b)' BY <1>1, <1>5, <1>6, <1>7, <1>9, AllGoOn
  <1>11. TypeOK' BY <1>1, <1>7 DEF TypeOK, StoredAt, host, arrays, Idle
  <1> QED BY <1>10, <1>11

\* The compare-and-swap: it claims an empty slot, counts in the key's own, or goes
\* on to the next; there is a next one, because the table never fills up.
LEMMA CompareAndSwapStep ==
    ASSUME PowersOK, SelectionOK, TypeOK, NEW b \in Batches, Working(b),
           NEW i \in DOMAIN flight, CompareAndSwap(i)
    PROVE  TypeOK' /\ Working(b)'
  <1> DEFINE e == flight[i]
             q == At(b, i)
             E == Entered(b)
             k == flight[i].key
             n == flight[i].visited
             T == TableCapacity
  <1>1. /\ e \in Thread /\ ThreadOK(b, e, q) /\ q \in 1..Capacity /\ q \notin E
        /\ IsFiniteSet(E) /\ Cardinality(E) < Capacity
        /\ \A p \in E : p \in 1..Capacity /\ p # q /\ ordered[p] \in Key
        /\ ~direct /\ e.pc = "cas" /\ StoredAt(q, k)
    BY RunningThread DEF CompareAndSwap
  <1>2. /\ k \in Key /\ k # EmptyKey /\ n \in 0..(T - 1) /\ n \in Nat
        /\ e.slot = SlotAt(k, n) /\ e.slot \in Slot /\ Passed(keys, k, n)
    BY <1>1, KeyAssumption DEF ThreadOK, Thread
  <1>3. Chains(keys, counts, E, ordered) BY <1>1 DEF Working, Counted
  <1>4. keys \in [Slot -> Key \cup {EmptyKey}] /\ counts \in [Slot -> Nat] BY <1>3 DEF Chains
  <1>5. \A p \in E : ordered[p] = ordered'[p] BY <1>1 DEF StoredAt
  <1>6. ordered'[q] = k BY <1>1 DEF StoredAt
  <1>7. UNCHANGED <<host, phase, call>> BY DEF CompareAndSwap
  <1>8. /\ IF keys[e.slot] = EmptyKey
           THEN keys' = [keys EXCEPT ![e.slot] = k] /\ UNCHANGED counts /\ Done(i)
           ELSE /\ UNCHANGED keys
                /\ IF keys[e.slot] = k THEN Increment(e.slot) /\ Done(i)
                   ELSE /\ UNCHANGED counts
                        /\ IF n + 1 = T THEN Done(i)
                           ELSE flight' = [flight EXCEPT ![i].slot = NextSlot(@),
                                                         ![i].visited = @ + 1]
    BY DEF CompareAndSwap
  <1>9. ASSUME NEW j \in DOMAIN flight
        PROVE  flight[j].key \in Key /\ flight[j].visited \in Nat
               /\ Passed(keys, flight[j].key, flight[j].visited)
    <2>1. flight[j] \in Thread /\ ThreadOK(b, flight[j], At(b, j)) BY RunningThread
    <2> QED BY <1>1, <2>1 DEF ThreadOK, Thread
  <1>10. CASE keys[e.slot] = EmptyKey
    <2>1. keys' = [keys EXCEPT ![SlotAt(k, n)] = k] /\ counts' = counts /\ Done(i)
      BY <1>2, <1>8, <1>10
    <2>2. keys[SlotAt(k, n)] = EmptyKey BY <1>2, <1>10
    <2>3. \A p \in E : ordered[p] \in Key BY <1>1
    <2>4. Chains([keys EXCEPT ![SlotAt(k, n)] = k], counts, E \cup {q}, ordered')
      <3> HIDE DEF q, E, k, n
      <3> QED BY <1>1, <1>2, <1>3, <1>5, <1>6, <2>2, <2>3, ClaimKeeps DEF T
    <2>5. CountedNext(E \cup {q}) BY <1>1, <2>1, <2>4 DEF CountedNext
    <2>6. ASSUME NEW j \in DOMAIN flight PROVE Undisturbed(j)
      <3>1. Passed([keys EXCEPT ![SlotAt(k, n)] = k], flight[j].key, flight[j].visited)
        BY <1>2, <1>4, <1>9, <2>2, PassedOn
      <3> QED BY <1>1, <2>1, <3>1 DEF Undisturbed
    <2>7. Working(b)' BY <1>1, <1>7, <2>1, <2>5, <2>6, OthersGoOn
    <2>8. keys' \in [Slot -> Key \cup {EmptyKey}] BY <1>2, <1>4, <2>1
    <2>9. TypeOK' BY <1>1, <1>7, <2>1, <2>8 DEF TypeOK, StoredAt, host, Idle
    <2> QED BY <2>7, <2>9
  <1>11. CASE keys[e.slot] = k
    <2>1. /\ keys' = keys /\ Done(i)
          /\ counts' = [counts EXCEPT ![SlotAt(k, n)] = counts[SlotAt(k, n)] + 1]
      BY <1>2, <1>8, <1>11 DEF Increment
    <2>2. keys[SlotAt(k, n)] = k BY <1>2, <1>11
    <2>3. Chains(keys, [counts EXCEPT ![SlotAt(k, n)] = counts[SlotAt(k, n)] + 1],
                 E \cup {q}, ordered')
      <3> HIDE DEF q, E, k, n
      <3> QED BY <1>1, <1>2, <1>3, <1>5, <1>6, <2>2, CountKeeps DEF T
    <2>4. CountedNext(E \cup {q}) BY <1>1, <2>1, <2>3 DEF CountedNext
    <2>5. ASSUME NEW j \in DOMAIN flight PROVE Undisturbed(j)
      BY <1>1, <1>9, <2>1 DEF Undisturbed
    <2>6. Working(b)' BY <1>1, <1>7, <2>1, <2>4, <2>5, OthersGoOn
    <2>7. counts' \in [Slot -> Nat] BY <2>1, <2>3 DEF Chains
    <2>8. TypeOK' BY <1>1, <1>7, <2>1, <2>7 DEF TypeOK, StoredAt, host, Idle
    <2> QED BY <2>6, <2>8
  <1>12. CASE keys[e.slot] \notin {EmptyKey, k}
    <2>0. T \in Nat \ {0} /\ Capacity <= T /\ Capacity \in Nat
      BY TableHasRoom, CapacityAssumption
    <2>1. keys[SlotAt(k, n)] \notin {EmptyKey, k} BY <1>2, <1>12
    <2>2. n + 1 # T
      <3> SUFFICES ASSUME n + 1 = T PROVE FALSE OBVIOUS
      <3>1. n = T - 1 BY <1>2, <2>0
      <3>2. Passed(keys, k, T - 1) /\ keys[SlotAt(k, T - 1)] \notin {EmptyKey, k}
        BY <1>2, <2>1, <3>1
      <3>3. Cardinality(E) < T
        <4>1. Cardinality(E) \in Nat BY <1>1, FS_CardinalityType
        <4> HIDE DEF E, T
        <4> QED BY <1>1, <2>0, <4>1
      <3> HIDE DEF E, k
      <3> QED BY <1>1, <1>2, <1>3, <3>2, <3>3, NeverFull DEF T
    <2>3. /\ UNCHANGED arrays
          /\ flight' = [flight EXCEPT ![i].slot = NextSlot(@), ![i].visited = @ + 1]
      BY <1>2, <1>8, <1>12, <2>2 DEF arrays
    <2>4. NextSlot(e.slot) = SlotAt(k, n + 1) /\ SlotAt(k, n + 1) \in Slot
      BY <1>2, WalksCover
    <2>5. [e EXCEPT !.slot = NextSlot(e.slot), !.visited = e.visited + 1] \in Thread
      <3>1. NextSlot(e.slot) \in Slot /\ e.visited + 1 \in Nat BY <1>2, <2>4
      <3>2. e \in Thread BY <1>1
      <3> HIDE DEF e
      <3> QED BY <3>1, <3>2 DEF Thread
    <2>6. PICK x \in Thread : x = [e EXCEPT !.slot = NextSlot(e.slot), !.visited = e.visited + 1]
      BY <2>5
    <2>7. x.key = k /\ x.pc = "cas" /\ x.to = e.to /\ x.slot = SlotAt(k, n + 1)
          /\ x.visited = n + 1
      BY <1>1, <2>4, <2>6 DEF Thread
    <2>8. flight' = [flight EXCEPT ![i] = x]
      <3>1. flight \in [DOMAIN flight -> Thread] BY DEF Working
      <3> QED BY <2>3, <2>6, <3>1
    <2>9. Passed(keys, k, n + 1)
      <3> SUFFICES ASSUME NEW m \in 0..((n + 1) - 1)
                   PROVE  keys[SlotAt(k, m)] \notin {EmptyKey, k}
        BY DEF Passed
      <3>1. CASE m = n BY <2>1, <3>1
      <3>2. CASE m # n
        <4>1. m \in 0..(n - 1) BY <1>2, <3>2
        <4> QED BY <1>2, <4>1 DEF Passed
      <3> QED BY <3>1, <3>2
    <2>10. n + 1 \in 0..(T - 1) BY <1>2, <2>0, <2>2
    <2>11. At(b, i)' = q BY <1>7, PlacesStay DEF host
    <2>12. ThreadOK(b, x, At(b, i))'
      BY <1>1, <1>7, <2>3, <2>7, <2>9, <2>10, <2>11
      DEF ThreadOK, StoredAt, host, arrays
    <2>13. Working(b)' BY <1>1, <1>7, <2>3, <2>7, <2>8, <2>12, AllGoOn
    <2>14. TypeOK' BY <1>1, <1>7, <2>3 DEF TypeOK, StoredAt, host, arrays, Idle
    <2> QED BY <2>13, <2>14
  <1> QED BY <1>10, <1>11, <1>12

--------------------------------------------------------------------------------
(* The steps of the host. *)

\* What is said of the accepted elements stays true while they stay.
LEMMA RepresentedStays ==
    ASSUME TypeOK, Represented, UNCHANGED <<host, arrays>>,
           \A p \in 1..size : ordered[p] = ordered'[p]
    PROVE  Represented'
  <1>1. /\ size' = size /\ direct' = direct /\ directBase' = directBase
        /\ uniformCount' = uniformCount /\ uniformLength' = uniformLength
        /\ counts' = counts /\ keys' = keys
    BY DEF host, arrays
  <1>2. \A p \in 1..size : ordered'[p] \in Key BY DEF Represented
  <1>3. CASE size = 0 BY <1>1, <1>2, <1>3 DEF Represented
  <1>4. CASE size # 0 /\ uniformCount = 0
    <2>1. Counted(1..size) BY <1>4 DEF Represented
    <2>2. CASE direct
      <3>1. Counters(counts, directBase, 1..size, ordered) BY <2>1, <2>2 DEF Counted
      <3>2. Counters(counts, directBase, 1..size, ordered') BY <3>1, CountersSame
      <3> QED BY <1>1, <1>2, <1>4, <2>2, <3>2 DEF Represented, Counted
    <2>3. CASE ~direct
      <3>1. Chains(keys, counts, 1..size, ordered) BY <2>1, <2>3 DEF Counted
      <3>2. Chains(keys, counts, 1..size, ordered') BY <3>1, ChainsSame
      <3> QED BY <1>1, <1>2, <1>4, <2>3, <3>2 DEF Represented, Counted
    <2> QED BY <2>2, <2>3
  <1>5. CASE size # 0 /\ uniformCount # 0
    <2>1. direct /\ Uniform(directBase, uniformLength, uniformCount, 1..size, ordered)
      BY <1>5 DEF Represented
    <2>2. \A k : Tally(1..size, ordered, k) = Tally(1..size, ordered', k) BY TallySame
    <2>3. Uniform(directBase, uniformLength, uniformCount, 1..size, ordered')
      BY <2>1, <2>2 DEF Uniform
    <2> QED BY <1>1, <1>2, <1>5, <2>1, <2>3 DEF Represented
  <1> QED BY <1>3, <1>4, <1>5

\* Elements are written behind those that are accepted.
LEMMA Overwrites ==
    ASSUME SelectionOK, TypeOK, NEW b \in Batches, NEW S \in SUBSET Elements(b),
           \A i \in S : i < Room, ordered' = Overwrite(b, S)
    PROVE  /\ ordered' \in [1..Capacity -> Key \cup {EmptyKey, Unset}]
           /\ \A p \in 1..size : ordered[p] = ordered'[p]
           /\ \A i \in S : ordered'[size + 1 + i] = KeyAt(b, i)
  <1>0. size \in Nat /\ Capacity \in Nat /\ size <= Capacity /\ DOMAIN ordered = 1..Capacity
        /\ ordered \in [1..Capacity -> Key \cup {EmptyKey, Unset}]
    BY CapacityAssumption DEF TypeOK
  <1>1. \A i \in S : i \in Nat /\ KeyAt(b, i) \in Key \cup {EmptyKey} BY BatchRead
  <1>2. ordered' = [p \in 1..Capacity |->
                       IF p - size - 1 \in S THEN KeyAt(b, p - size - 1) ELSE ordered[p]]
    BY <1>0 DEF Overwrite
  <1>3. ordered' \in [1..Capacity -> Key \cup {EmptyKey, Unset}] BY <1>0, <1>1, <1>2
  <1>4. ASSUME NEW p \in 1..size PROVE ordered[p] = ordered'[p]
    <2>1. p \in 1..Capacity /\ p - size - 1 \notin Nat BY <1>0
    <2> QED BY <1>1, <1>2, <2>1
  <1>5. ASSUME NEW i \in S PROVE ordered'[size + 1 + i] = KeyAt(b, i)
    <2>1. i \in Nat /\ i < Capacity - size BY <1>1 DEF Room
    <2>2. size + 1 + i \in 1..Capacity /\ (size + 1 + i) - size - 1 = i BY <1>0, <2>1
    <2> QED BY <1>2, <2>2
  <1> QED BY <1>3, <1>4, <1>5

\* The Select kernel.
LEMMA SelectStep ==
    ASSUME SelectionOK, BagInv, NEW b \in Batches, Select(b)
    PROVE  BagInv'
  <1>1. /\ TypeOK /\ Idle /\ Represented /\ flight = <<>> /\ phase' = "selected" /\ call' = {b}
        /\ UNCHANGED <<host, arrays, flight>>
    BY DEF BagInv, Select, Idle
  <1> DEFINE S == {i \in Collected(b) : i < Room}
  <1>2. Collected(b) = Elements(b) BY BatchRead
  <1>3. /\ ordered' \in [1..Capacity -> Key \cup {EmptyKey, Unset}]
        /\ \A p \in 1..size : ordered[p] = ordered'[p]
        /\ ~b.conditional => \A i \in S : ordered'[size + 1 + i] = KeyAt(b, i)
    <2>1. CASE b.conditional
      <3>1. ordered' = ordered BY <2>1 DEF Select
      <3> QED BY <1>1, <2>1, <3>1 DEF TypeOK
    <2>2. CASE ~b.conditional
      <3>1. ordered' = Overwrite(b, S) BY <2>2 DEF Select
      <3>2. S \in SUBSET Elements(b) /\ \A i \in S : i < Room BY <1>2
      <3> HIDE DEF S
      <3> QED BY <1>1, <3>1, <3>2, Overwrites
    <2> QED BY <2>1, <2>2
  <1>4. Represented' BY <1>1, <1>3, RepresentedStays
  <1>5. RawPrefix(b)' BY <1>1, <1>2, <1>3 DEF RawPrefix, Room, host
  <1>6. TypeOK' BY <1>1, <1>3 DEF TypeOK, host, arrays, Idle
  <1> QED BY <1>1, <1>4, <1>5, <1>6 DEF BagInv

\* What a return leaves.
LEMMA Returned ==
    ASSUME TypeOK', Represented', NEW out, Return(out)
    PROVE  BagInv'
  BY DEF Return, BagInv

\* An insertion that accepts nothing, or finds no memory.
LEMMA NothingStep ==
    ASSUME BagInv, NEW b \in call, NothingAccepted(b) \/ AllocationFails(b)
    PROVE  BagInv'
  <1>1. TypeOK /\ Represented /\ UNCHANGED <<host, arrays, ordered>>
    BY DEF BagInv, NothingAccepted, AllocationFails, General, Deciding
  <1>2. Represented' BY <1>1, RepresentedStays
  <1>3. PICK out : Return(out) BY DEF NothingAccepted, AllocationFails
  <1>4. TypeOK' BY <1>1, <1>3 DEF TypeOK, host, arrays, Idle, Return
  <1> QED BY <1>2, <1>3, <1>4, Returned

\* The first interval, or the same one again.
LEMMA InsertIntervalStep ==
    ASSUME SelectionOK, BagInv, NEW b \in call, InsertInterval(b)
    PROVE  BagInv'
  <1> DEFINE a == Accepted(b)
  <1>1. /\ TypeOK /\ Represented /\ RawPrefix(b) /\ b \in Batches /\ a > 0
        /\ UNCHANGED arrays /\ size' = size + a
    BY DEF BagInv, InsertInterval, Deciding, TypeOK
  <1>2. IsInterval(b) BY DEF InsertInterval, FirstInterval, RepeatedInterval
  <1>3. Low(b) \in Nat /\ Valid(b) = Elements(b) /\ \A i \in Elements(b) : KeyAt(b, i) = Low(b) + i
    BY <1>1, <1>2, Intervals
  <1>4. size \in Nat /\ Capacity \in Nat /\ size \in 0..Capacity
    BY <1>1, CapacityAssumption DEF TypeOK
  <1>5. Len(b.keys) \in Nat /\ Elements(b) = 0..(Len(b.keys) - 1) /\ ValidTotal(b) = Len(b.keys)
    BY <1>1, <1>2, BatchRead DEF IsInterval, AllValid
  <1>6. a \in Nat /\ a <= Len(b.keys) /\ a <= Capacity - size
    BY <1>1, <1>4, <1>5, PlacesTaken
  <1> HIDE DEF a
  <1>7. \A i \in 0..(a - 1) : i \in Elements(b) /\ i < Room BY <1>4, <1>5, <1>6 DEF Room
  <1>8. /\ ordered' \in [1..Capacity -> Key \cup {EmptyKey, Unset}]
        /\ \A p \in 1..size : ordered[p] = ordered'[p]
        /\ \A i \in 0..(a - 1) : ordered'[size + 1 + i] = KeyAt(b, i)
    <2>1. CASE b.conditional
      <3>1. ordered' = Overwrite(b, 0..(a - 1)) BY <2>1 DEF InsertInterval, a
      <3>2. 0..(a - 1) \in SUBSET Elements(b) BY <1>7
      <3> QED BY <1>1, <1>7, <3>1, <3>2, Overwrites
    <2>2. CASE ~b.conditional
      <3>1. ordered' = ordered BY <2>2 DEF InsertInterval
      <3> QED BY <1>1, <1>7, <2>2, <3>1 DEF TypeOK, RawPrefix
    <2> QED BY <2>1, <2>2
  <1>9. \A i \in 0..(a - 1) : ordered'[size + 1 + i] = Low(b) + i BY <1>3, <1>7, <1>8
  <1>10. ASSUME NEW p \in 1..(size + a) PROVE ordered'[p] \in Key
    <2>1. CASE p \in 1..size
      <3>1. ordered[p] \in Key BY <1>1, <2>1 DEF Represented
      <3> QED BY <1>8, <2>1, <3>1
    <2>2. CASE p \notin 1..size
      <3>1. p - size - 1 \in 0..(a - 1) /\ size + 1 + (p - size - 1) = p BY <1>4, <1>6, <2>2
      <3>2. ordered'[p] = KeyAt(b, p - size - 1) BY <1>8, <3>1
      <3>3. p - size - 1 \in Valid(b) BY <1>3, <1>7, <3>1
      <3> QED BY <1>1, <3>2, <3>3, BatchRead
    <2> QED BY <2>1, <2>2
  <1>11. a \in 1..Capacity /\ size + a \in 0..Capacity /\ size + a # 0
    BY <1>1, <1>4, <1>6 DEF a
  <1>12. CASE FirstInterval(b)
    <2>1. size = 0 BY <1>12 DEF FirstInterval
    <2>2. /\ direct' = TRUE /\ directBase' = Low(b)
          /\ uniformLength' = a /\ uniformCount' = 1
      BY <1>12 DEF InsertInterval, a
    <2>3. \A k \in Nat : Tally(1..0, ordered, k) = 0
      <3>1. 1..0 = {} OBVIOUS
      <3> QED BY <3>1, TallyNone
    <2>4. \A k \in Nat : Tally(1..0, ordered, k) = IF k - Low(b) \in 0..(a - 1) THEN 0 ELSE 0
      BY <2>3
    <2>5. 0 \in Nat /\ \A p \in 1..0 : ordered[p] = ordered'[p] OBVIOUS
    <2>6. \A i \in 0..(a - 1) : ordered'[0 + 1 + i] = Low(b) + i BY <1>9, <2>1
    <2>7. Uniform(Low(b), a, 0 + 1, 1..(0 + a), ordered')
      BY <1>3, <1>11, <2>4, <2>5, <2>6, UniformMore
    <2>8. Uniform(directBase', uniformLength', uniformCount', 1..size', ordered')
      <3>1. size' = 0 + a /\ 0 + 1 = 1 BY <1>1, <2>1 DEF a
      <3> QED BY <2>2, <2>7, <3>1
    <2>9. size' # 0 /\ size' = size + a BY <1>1, <1>11 DEF a
    <2>10. Represented' BY <1>10, <2>2, <2>8, <2>9 DEF Represented
    <2>11. TypeOK'
      <3>1. phase' = "idle" /\ call' = {} BY DEF InsertInterval, Return
      <3>2. {directBase', uniformCount', uniformLength'} \subseteq Nat BY <1>3, <1>6, <2>2
      <3>3. counts' = counts /\ keys' = keys BY <1>1 DEF arrays
      <3> QED BY <1>1, <1>8, <1>11, <2>2, <2>9, <3>1, <3>2, <3>3 DEF TypeOK, Idle
    <2> QED BY <2>10, <2>11, Returned DEF InsertInterval
  <1>13. CASE RepeatedInterval(b) /\ ~FirstInterval(b)
    <2>1. uniformCount # 0 /\ Low(b) = directBase /\ a = uniformLength
      BY <1>13 DEF RepeatedInterval, a
    <2>2. /\ uniformCount' = uniformCount + 1
          /\ UNCHANGED <<direct, directBase, uniformLength>>
      BY <1>13 DEF InsertInterval
    <2>3. direct /\ Uniform(directBase, uniformLength, uniformCount, 1..size, ordered)
      BY <1>1, <2>1 DEF Represented
    <2>4. \A k \in Nat : Tally(1..size, ordered, k)
                           = IF k - Low(b) \in 0..(a - 1) THEN uniformCount ELSE 0
      BY <2>1, <2>3 DEF Uniform
    <2>5. uniformCount \in Nat BY <1>1 DEF TypeOK
    <2>6. Uniform(Low(b), a, uniformCount + 1, 1..(size + a), ordered')
      BY <1>3, <1>4, <1>8, <1>9, <1>11, <2>4, <2>5, UniformMore
    <2>7. size' # 0 /\ size' = size + a BY <1>1, <1>11 DEF a
    <2>8. Uniform(directBase', uniformLength', uniformCount', 1..size', ordered')
      BY <2>1, <2>2, <2>6, <2>7
    <2>9. uniformCount + 1 # 0 BY <2>5
    <2>10. Represented' BY <1>10, <2>2, <2>3, <2>7, <2>8, <2>9 DEF Represented
    <2>11. TypeOK'
      <3>1. phase' = "idle" /\ call' = {} BY DEF InsertInterval, Return
      <3>2. {directBase', uniformCount', uniformLength'} \subseteq Nat BY <1>1, <2>2 DEF TypeOK
      <3>3. counts' = counts /\ keys' = keys BY <1>1 DEF arrays
      <3> QED BY <1>1, <1>8, <1>11, <2>2, <2>7, <3>1, <3>2, <3>3 DEF TypeOK, Idle
    <2> QED BY <2>10, <2>11, Returned DEF InsertInterval
  <1> QED BY <1>12, <1>13 DEF InsertInterval

\* The Insert kernel starts on counters that know the accepted elements; the slots
\* of the new keys are in range where keys address counters.
LEMMA InsertLaunched ==
    ASSUME PowersOK, SelectionOK, TypeOK, NEW b \in Batches, Accepted(b) > 0, RawPrefix(b),
           size' = size, ordered' = ordered, phase' = "insert",
           NEW dir \in BOOLEAN, NEW base \in Nat, direct' = dir, directBase' = base,
           flight' = InsertFlight(b, dir, base),
           Counted(1..size)', \A p \in 1..size : ordered[p] \in Key,
           dir => \A i \in Valid(b) : KeyAt(b, i) - base \in Slot
    PROVE  Working(b)'
  <1> DEFINE rank(i) == Rank(Valid(b), i)
             a == Accepted(b)
  <1>0. size \in Nat /\ Capacity \in Nat /\ size \in 0..Capacity
    BY CapacityAssumption DEF TypeOK
  <1>1. /\ a \in Nat /\ a <= Capacity - size
        /\ \A i \in Taken(b) : rank(i) \in 0..(a - 1)
        /\ \A x \in 0..(a - 1) : \E i \in Taken(b) : rank(i) = x
    <2>1. ValidTotal(b) \in Nat BY BatchRead
    <2> QED BY <1>0, <2>1, PlacesTaken
  <1>2. /\ Accepted(b)' = a /\ Taken(b)' = Taken(b) BY DEF Accepted, Taken, Room
  <1>3. /\ Source(b)' = Taken(b) /\ Goal(b)' = 1..(size + a)
        /\ \A i : At(b, i)' = size + 1 + rank(i)
    BY <1>2 DEF Source, Goal, At
  <1>4. /\ DOMAIN flight' = Taken(b)
        /\ \A i \in Taken(b) : flight'[i] =
              [key |-> KeyAt(b, i), visited |-> 0, seen |-> 0,
               to |-> IF b.conditional \/ ~AllValid(b) THEN size + 1 + rank(i) ELSE 0,
               slot |-> IF dir THEN KeyAt(b, i) - base ELSE Home(KeyAt(b, i)),
               pc |-> IF AllValid(b) /\ dir /\ OrderErrors(b) = 0 THEN "load"
                      ELSE IF dir THEN "add" ELSE "cas"]
        /\ flight' = [i \in Taken(b) |-> flight'[i]]
    BY <1>0, Threads
  <1>5. \A i \in Taken(b) : i \in Valid(b) /\ i \in Elements(b) /\ KeyAt(b, i) \in Key
    BY BatchRead DEF Taken
  <1> HIDE DEF rank, a
  <1>6. Entered(b)' = 1..size
    <2>1. Entered(b)' = (1..(size + a)) \ {size + 1 + rank(i) : i \in Taken(b)}
      BY <1>3, <1>4 DEF Entered
    <2>2. \A i \in Taken(b) : rank(i) \in Nat BY <1>1
    <2>3. ASSUME NEW p \in 1..(size + a), p \notin 1..size
          PROVE  \E i \in Taken(b) : size + 1 + rank(i) = p
      <3>1. p - size - 1 \in 0..(a - 1) /\ size + 1 + (p - size - 1) = p BY <1>0, <1>1, <2>3
      <3> QED BY <1>1, <3>1
    <2>4. 1..size \subseteq 1..(size + a) BY <1>0, <1>1
    <2>5. \A i \in Taken(b) : size + 1 + rank(i) \notin 1..size BY <1>0, <2>2
    <2> QED BY <2>1, <2>3, <2>4, <2>5
  <1>7. ASSUME NEW i \in Taken(b)
        PROVE  flight'[i] \in Thread /\ ThreadOK(b, flight[i], At(b, i))'
    <2> DEFINE k == KeyAt(b, i)
    <2>1. k \in Key /\ rank(i) \in Nat BY <1>1, <1>5
    <2>2. SlotAt(k, 0) = Home(k) /\ SlotAt(k, 0) \in Slot BY <2>1, WalksCover
    <2>3. dir => k - base \in Slot BY <1>5
    <2>4. (IF dir THEN k - base ELSE Home(k)) \in Slot BY <2>2, <2>3
    <2>5. flight'[i] \in Thread
      <3>1. (IF b.conditional \/ ~AllValid(b) THEN size + 1 + rank(i) ELSE 0) \in Nat
        BY <1>0, <2>1
      <3>2. (IF AllValid(b) /\ dir /\ OrderErrors(b) = 0 THEN "load"
             ELSE IF dir THEN "add" ELSE "cas") \in {"add", "load", "store", "cas"}
        OBVIOUS
      <3> HIDE DEF k
      <3> QED BY <1>4, <2>1, <2>4, <3>1, <3>2 DEF Thread, k
    <2>6. ASSUME flight'[i].to = 0 PROVE ordered'[size + 1 + rank(i)] = k
      <3>1. ~b.conditional /\ AllValid(b) BY <1>0, <1>4, <2>1, <2>6
      <3>2. rank(i) = i BY <1>5, <3>1, RanksOfAll DEF rank
      <3>3. i < Room BY <1>0, <1>1, <3>2 DEF Room
      <3> QED BY <1>5, <3>1, <3>2, <3>3 DEF RawPrefix
    <2>7. Passed(keys', k, 0) BY DEF Passed
    <2>8. 0 \in 0..(TableCapacity - 1) BY TableHasRoom
    <2> DEFINE e == flight'[i]
    <2>9. /\ e.key = k /\ e.visited = 0 /\ e.to \in {0, size + 1 + rank(i)} /\ e.pc # "store"
          /\ e.slot = IF dir THEN k - base ELSE Home(k)
          /\ e.pc = "cas" <=> ~dir
      BY <1>4
    <2>10. At(b, i)' = size + 1 + rank(i) BY <1>3
    <2> HIDE DEF k
    <2> QED BY <2>2, <2>5, <2>6, <2>7, <2>8, <2>9, <2>10 DEF ThreadOK
  <1>8. Apart'
    <2> SUFFICES ASSUME NEW i \in Taken(b), NEW j \in Taken(b), i # j,
                        flight'[i].pc \in {"load", "store"}
                 PROVE  flight'[i].key # flight'[j].key
      BY <1>4 DEF Apart
    <2>1. AllValid(b) /\ OrderErrors(b) = 0 BY <1>4
    <2>2. \A d \in Nat : \A x \in Elements(b) :
              x + d \in Elements(b) => KeyAt(b, x) + d <= KeyAt(b, x + d)
      BY <2>1, Ascending
    <2>3. i \in Nat /\ j \in Nat /\ i \in Elements(b) /\ j \in Elements(b)
          /\ KeyAt(b, i) \in Nat /\ KeyAt(b, j) \in Nat
      BY <1>5, BatchRead, KeyAssumption
    <2>4. CASE i < j
      <3>1. j - i \in Nat /\ j - i > 0 /\ i + (j - i) = j BY <2>3, <2>4
      <3>2. KeyAt(b, i) + (j - i) <= KeyAt(b, j) BY <2>2, <2>3, <3>1
      <3> QED BY <1>4, <2>3, <3>1, <3>2
    <2>5. CASE j < i
      <3>1. i - j \in Nat /\ i - j > 0 /\ j + (i - j) = i BY <2>3, <2>5
      <3>2. KeyAt(b, j) + (i - j) <= KeyAt(b, i) BY <2>2, <2>3, <3>1
      <3> QED BY <1>4, <2>3, <3>1, <3>2
    <2> QED BY <2>3, <2>4, <2>5
  <1>9. flight' \in [DOMAIN flight' -> Thread] BY <1>4, <1>7
  <1>10. \A i \in DOMAIN flight' : ThreadOK(b, flight[i], At(b, i))' BY <1>4, <1>7
  <1>11. Accepted(b)' > 0 /\ Counted(Entered(b))' /\ \A p \in Entered(b)' : ordered'[p] \in Key
    BY <1>2, <1>6 DEF a, Counted
  <1>12. DOMAIN flight' \subseteq Source(b)' /\ phase' # "rebuild" BY <1>3, <1>4
  <1> QED BY <1>8, <1>9, <1>10, <1>11, <1>12 DEF Working

\* What the kernels do not touch keeps its type.
LEMMA Prepared ==
    ASSUME BagInv, NEW b \in call, phase' \in {"rebuild", "insert"}, UNCHANGED call,
           TypeOK', Working(b)'
    PROVE  BagInv'
  <1>1. \A c \in call : c = b BY DEF BagInv
  <1> QED BY <1>1 DEF BagInv

\* What is known when the host has decided to launch kernels.
LEMMA ReadyToInsert ==
    ASSUME SelectionOK, BagInv, NEW b \in call, General(b)
    PROVE  /\ TypeOK /\ Represented /\ RawPrefix(b) /\ b \in Batches /\ Accepted(b) > 0
           /\ Valid(b) # {} /\ Low(b) \in Nat /\ High(b) \in Nat
           /\ \A i \in Valid(b) : KeyAt(b, i) \in Nat /\ Low(b) <= KeyAt(b, i)
                                  /\ KeyAt(b, i) <= High(b)
           /\ \A p \in 1..size : ordered[p] \in Key
  <1>1. TypeOK /\ Represented /\ RawPrefix(b) /\ b \in Batches /\ Accepted(b) > 0
    BY DEF BagInv, General, Deciding, TypeOK
  <1>2. Valid(b) # {} BY <1>1, PlacesTaken DEF TypeOK
  <1>3. \A i \in Valid(b) : KeyAt(b, i) \in Nat BY <1>1, BatchRead, KeyAssumption
  <1> QED BY <1>1, <1>2, <1>3, KeysBetween DEF Represented

\* The first elements, in counters or in a table.
LEMMA PrepareFirstStep ==
    ASSUME PowersOK, SelectionOK, BagInv, NEW b \in call, PrepareFirst(b)
    PROVE  BagInv'
  <1>1. General(b) BY DEF PrepareFirst
  <1>2. /\ TypeOK /\ Represented /\ RawPrefix(b) /\ b \in Batches /\ Accepted(b) > 0
        /\ Valid(b) # {} /\ Low(b) \in Nat /\ High(b) \in Nat
        /\ \A i \in Valid(b) : KeyAt(b, i) \in Nat /\ Low(b) <= KeyAt(b, i)
                               /\ KeyAt(b, i) <= High(b)
        /\ \A p \in 1..size : ordered[p] \in Key
    BY <1>1, ReadyToInsert
  <1>a. FitsAlone(b) \in BOOLEAN
    <2>1. (High(b) - Low(b) < TableCapacity) \in BOOLEAN OBVIOUS
    <2> QED BY <2>1 DEF FitsAlone
  <1>3. PICK dir \in BOOLEAN : dir = FitsAlone(b) BY <1>a
  <1>4. PICK base \in Nat : base = Low(b) BY <1>2
  <1>5. /\ size = 0 /\ size' = size /\ ordered' = ordered /\ phase' = "insert" /\ call' = call
        /\ direct' = dir /\ directBase' = base
        /\ uniformCount' = uniformCount /\ uniformLength' = uniformLength
        /\ flight' = InsertFlight(b, dir, base)
        /\ counts' = [s \in Slot |-> 1]
        /\ keys' = IF ~dir THEN [s \in Slot |-> EmptyKey] ELSE keys
    BY <1>3, <1>4 DEF PrepareFirst, Launch, Storage
  <1>6. Counted(1..size)'
    <2>1. uniformCount' = 0 BY <1>2, <1>5 DEF Represented
    <2>2. 1..size' = {} BY <1>5
    <2>3. Counters(counts', directBase', {}, ordered') BY <1>5, FreshCounters
    <2>4. Chains([s \in Slot |-> EmptyKey], counts', {}, ordered') BY <1>5, FreshTable
    <2>5. ~dir => Chains(keys', counts', {}, ordered') BY <1>5, <2>4
    <2> QED BY <1>5, <2>1, <2>2, <2>3, <2>5 DEF Counted
  <1>7. dir => \A i \in Valid(b) : KeyAt(b, i) - base \in Slot
    <2>1. TableCapacity \in Nat BY TableHasRoom
    <2>2. dir => High(b) - base < TableCapacity
      <3>1. FitsAlone(b) => High(b) - Low(b) < TableCapacity BY DEF FitsAlone
      <3>2. dir => FitsAlone(b) BY <1>3
      <3> QED BY <1>4, <3>1, <3>2
    <2> QED BY <1>2, <1>4, <2>1, <2>2 DEF Slot
  <1>8. Working(b)' BY <1>2, <1>5, <1>6, <1>7, InsertLaunched
  <1>9. TypeOK'
    <2>1. {directBase', uniformCount', uniformLength'} \subseteq Nat
      BY <1>2, <1>5 DEF TypeOK
    <2>2. counts' \in [Slot -> Nat] BY <1>5
    <2>3. keys' = NoArray \/ keys' \in [Slot -> Key \cup {EmptyKey}] BY <1>2, <1>5 DEF TypeOK
    <2>4. call # {} BY DEF TypeOK
    <2> QED BY <1>2, <1>5, <2>1, <2>2, <2>3, <2>4 DEF TypeOK, Idle
  <1> QED BY <1>5, <1>8, <1>9, Prepared

\* Uniform multiplicities become counters before one of them changes.
LEMMA PrepareCountersStep ==
    ASSUME PowersOK, SelectionOK, BagInv, NEW b \in call, PrepareCounters(b)
    PROVE  BagInv'
  <1>1. General(b) BY DEF PrepareCounters
  <1>2. /\ TypeOK /\ Represented /\ RawPrefix(b) /\ b \in Batches /\ Accepted(b) > 0
        /\ Valid(b) # {} /\ Low(b) \in Nat /\ High(b) \in Nat
        /\ \A i \in Valid(b) : KeyAt(b, i) \in Nat /\ Low(b) <= KeyAt(b, i)
                               /\ KeyAt(b, i) <= High(b)
        /\ \A p \in 1..size : ordered[p] \in Key
    BY <1>1, ReadyToInsert
  <1>3. PICK base \in Nat : base = directBase BY <1>2 DEF TypeOK
  <1>4. /\ size # 0 /\ direct = TRUE /\ FitsDirect(b) /\ uniformCount # 0
        /\ size' = size /\ ordered' = ordered /\ phase' = "insert" /\ call' = call
        /\ direct' = TRUE /\ directBase' = base /\ keys' = keys
        /\ uniformCount' = 0 /\ uniformLength' = 0
        /\ flight' = InsertFlight(b, TRUE, base)
        /\ counts' = [s \in Slot |-> IF s < uniformLength THEN uniformCount + 1 ELSE 1]
    BY <1>2, <1>3 DEF PrepareCounters, Launch, Materialize, TypeOK
  <1>5. Counted(1..size)'
    <2>1. Uniform(base, uniformLength, uniformCount, 1..size, ordered)
      BY <1>2, <1>3, <1>4 DEF Represented
    <2>2. IsFiniteSet(1..size) /\ uniformCount \in Nat
      BY <1>2, FS_Interval, CapacityAssumption DEF TypeOK
    <2>3. \A p \in 1..size : ordered[p] \in Nat BY <1>2, KeyAssumption
    <2>4. Counters([s \in Slot |-> IF s < uniformLength THEN uniformCount + 1 ELSE 1],
                   base, 1..size, ordered)
      BY <2>1, <2>2, <2>3, UniformMaterialized
    <2> QED BY <1>4, <2>4 DEF Counted
  <1>6. \A i \in Valid(b) : KeyAt(b, i) - base \in Slot
    <2>1. TableCapacity \in Nat BY TableHasRoom
    <2> QED BY <1>2, <1>3, <1>4, <2>1 DEF FitsDirect, Slot
  <1>7. Working(b)' BY <1>2, <1>4, <1>5, <1>6, InsertLaunched
  <1>8. TypeOK'
    <2>1. counts' \in [Slot -> Nat]
      <3>1. uniformCount \in Nat BY <1>2 DEF TypeOK
      <3> QED BY <1>4, <3>1
    <2>2. {directBase', uniformCount', uniformLength'} \subseteq Nat BY <1>4
    <2>3. call # {} BY DEF TypeOK
    <2> QED BY <1>2, <1>4, <2>1, <2>2, <2>3 DEF TypeOK, Idle
  <1> QED BY <1>4, <1>7, <1>8, Prepared

\* The representation takes the batch as it is.
LEMMA PrepareNothingStep ==
    ASSUME PowersOK, SelectionOK, BagInv, NEW b \in call, PrepareNothing(b)
    PROVE  BagInv'
  <1>1. General(b) BY DEF PrepareNothing
  <1>2. /\ TypeOK /\ Represented /\ RawPrefix(b) /\ b \in Batches /\ Accepted(b) > 0
        /\ Valid(b) # {} /\ Low(b) \in Nat /\ High(b) \in Nat
        /\ \A i \in Valid(b) : KeyAt(b, i) \in Nat /\ Low(b) <= KeyAt(b, i)
                               /\ KeyAt(b, i) <= High(b)
        /\ \A p \in 1..size : ordered[p] \in Key
    BY <1>1, ReadyToInsert
  <1>3. PICK base \in Nat : base = directBase BY <1>2 DEF TypeOK
  <1>4. PICK dir \in BOOLEAN : dir = direct BY <1>2 DEF TypeOK
  <1>5. /\ size # 0 /\ UNCHANGED <<host, arrays, ordered, call>> /\ phase' = "insert"
        /\ flight' = InsertFlight(b, dir, base)
        /\ dir => FitsDirect(b) /\ uniformCount = 0
    BY <1>3, <1>4 DEF PrepareNothing, Launch
  <1>6. Counted(1..size)
    <2>1. uniformCount = 0 BY <1>2, <1>4, <1>5 DEF Represented
    <2> QED BY <1>2, <1>5, <2>1 DEF Represented
  <1>7. Counted(1..size)' BY <1>5, <1>6 DEF Counted, host, arrays
  <1>8. dir => \A i \in Valid(b) : KeyAt(b, i) - base \in Slot
    <2>1. TableCapacity \in Nat BY TableHasRoom
    <2> QED BY <1>2, <1>3, <1>5, <2>1 DEF FitsDirect, Slot
  <1>9. size' = size /\ ordered' = ordered /\ direct' = dir /\ directBase' = base
    BY <1>3, <1>4, <1>5 DEF host
  <1>10. Working(b)' BY <1>2, <1>5, <1>7, <1>8, <1>9, InsertLaunched
  <1>11. call # {} BY DEF TypeOK
  <1>12. TypeOK' BY <1>2, <1>5, <1>11 DEF TypeOK, host, arrays, Idle
  <1> QED BY <1>5, <1>10, <1>12, Prepared

\* Counters that the keys do not fit become a table, which a kernel of its own fills
\* with the accepted elements.
LEMMA PrepareHashStep ==
    ASSUME PowersOK, SelectionOK, BagInv, NEW b \in call, PrepareHash(b)
    PROVE  BagInv'
  <1>1. General(b) BY DEF PrepareHash
  <1>2. /\ TypeOK /\ RawPrefix(b) /\ b \in Batches /\ Accepted(b) > 0
        /\ \A p \in 1..size : ordered[p] \in Key
    BY <1>1, ReadyToInsert
  <1>3. /\ size' = size /\ ordered' = ordered /\ phase' = "rebuild" /\ call' = call
        /\ direct' = FALSE /\ directBase' = directBase
        /\ uniformCount' = 0 /\ uniformLength' = 0
        /\ flight' = RebuildFlight
        /\ counts' = [s \in Slot |-> 1] /\ keys' = [s \in Slot |-> EmptyKey]
    BY DEF PrepareHash, Launch, Storage
  <1>4. /\ Accepted(b)' = Accepted(b) /\ Source(b)' = 1..size /\ Goal(b)' = 1..size
        /\ \A i : At(b, i)' = i
    BY <1>3 DEF Accepted, Room, Source, Goal, At
  <1>5. /\ DOMAIN flight' = 1..size
        /\ \A p \in 1..size : flight'[p] =
              [key |-> ordered[p], visited |-> 0, seen |-> 0, to |-> 0,
               slot |-> Home(ordered[p]), pc |-> "cas"]
        /\ flight' = [p \in 1..size |-> flight'[p]]
    BY <1>3 DEF RebuildFlight
  <1>6. Entered(b)' = {} BY <1>4, <1>5 DEF Entered
  <1>7. Counted(Entered(b))'
    <2>1. Chains([s \in Slot |-> EmptyKey], counts', {}, ordered') BY <1>3, FreshTable
    <2> QED BY <1>3, <1>6, <2>1 DEF Counted
  <1>8. ASSUME NEW p \in 1..size
        PROVE  flight'[p] \in Thread /\ ThreadOK(b, flight[p], At(b, p))'
    <2>1. ordered[p] \in Key BY <1>2
    <2>2. SlotAt(ordered[p], 0) = Home(ordered[p]) /\ SlotAt(ordered[p], 0) \in Slot
      BY <2>1, WalksCover
    <2>3. flight'[p] \in Thread BY <1>5, <2>1, <2>2 DEF Thread
    <2>4. Passed(keys', ordered[p], 0) BY DEF Passed
    <2>5. 0 \in 0..(TableCapacity - 1) BY TableHasRoom
    <2> DEFINE e == flight'[p]
    <2>6. e.key = ordered[p] /\ e.visited = 0 /\ e.to = 0 /\ e.pc = "cas"
          /\ e.slot = Home(ordered[p])
      BY <1>5
    <2>7. At(b, p)' = p BY <1>4
    <2> QED BY <1>3, <2>2, <2>3, <2>4, <2>5, <2>6, <2>7 DEF ThreadOK
  <1>9. Apart' BY <1>5 DEF Apart
  <1>10. flight' \in [DOMAIN flight' -> Thread] BY <1>5, <1>8
  <1>11. RawPrefix(b)' BY <1>2, <1>3 DEF RawPrefix, Room
  <1>12. Working(b)'
    BY <1>2, <1>3, <1>4, <1>5, <1>6, <1>7, <1>8, <1>9, <1>10, <1>11 DEF Working
  <1>13. TypeOK'
    <2>1. call # {} BY DEF TypeOK
    <2>2. {directBase', uniformCount', uniformLength'} \subseteq Nat BY <1>2, <1>3 DEF TypeOK
    <2> QED BY <1>2, <1>3, <2>1, <2>2 DEF TypeOK, Idle
  <1> QED BY <1>3, <1>12, <1>13, Prepared

\* A kernel without threads left has entered all its elements.
LEMMA AllEntered ==
    ASSUME flight = <<>>, NEW b
    PROVE  Entered(b) = Goal(b)
  BY DEF Entered

\* The table is there for the new elements.
LEMMA RebuiltStep ==
    ASSUME PowersOK, SelectionOK, BagInv, NEW b \in call, Rebuilt(b)
    PROVE  BagInv'
  <1>1. TypeOK /\ b \in Batches /\ phase = "rebuild" /\ flight = <<>> /\ Working(b)
    BY DEF BagInv, Rebuilt, TypeOK
  <1>2. Entered(b) = 1..size BY <1>1, AllEntered DEF Goal
  <1>3. /\ Accepted(b) > 0 /\ Counted(1..size) /\ \A p \in 1..size : ordered[p] \in Key
        /\ direct = FALSE /\ RawPrefix(b)
    BY <1>1, <1>2 DEF Working, TypeOK
  <1>4. PICK base \in Nat : base = directBase BY <1>1 DEF TypeOK
  <1>5. /\ UNCHANGED <<host, arrays, ordered, call>> /\ phase' = "insert"
        /\ flight' = InsertFlight(b, FALSE, base)
    BY <1>3, <1>4 DEF Rebuilt, Launch
  <1>6. Counted(1..size)' BY <1>3, <1>5 DEF Counted, host, arrays
  <1>7. size' = size /\ ordered' = ordered /\ direct' = FALSE /\ directBase' = base
    BY <1>3, <1>4, <1>5 DEF host
  <1>8. Working(b)' BY <1>1, <1>3, <1>5, <1>6, <1>7, InsertLaunched
  <1>9. call # {} BY DEF TypeOK
  <1>10. TypeOK' BY <1>1, <1>5, <1>9 DEF TypeOK, host, arrays, Idle
  <1> QED BY <1>5, <1>8, <1>10, Prepared

\* The batch is in.
LEMMA InsertedStep ==
    ASSUME SelectionOK, BagInv, NEW b \in call, Inserted(b)
    PROVE  BagInv'
  <1>1. TypeOK /\ b \in Batches /\ phase = "insert" /\ flight = <<>> /\ Working(b)
    BY DEF BagInv, Inserted, TypeOK
  <1>2. Entered(b) = 1..(size + Accepted(b)) BY <1>1, AllEntered DEF Goal
  <1>3. /\ Accepted(b) > 0 /\ Counted(1..(size + Accepted(b)))
        /\ \A p \in 1..(size + Accepted(b)) : ordered[p] \in Key
    BY <1>1, <1>2 DEF Working
  <1>4. /\ UNCHANGED <<direct, directBase, uniformCount, uniformLength, arrays, ordered>>
        /\ size' = size + Accepted(b) /\ phase' = "idle" /\ call' = {}
    BY DEF Inserted, Return
  <1>5. size' \in 0..Capacity /\ size' # 0
    <2>1. size \in 0..Capacity /\ Capacity \in Nat BY <1>1, CapacityAssumption DEF TypeOK
    <2>2. Accepted(b) \in Nat /\ Accepted(b) <= Capacity - size
      <3>1. ValidTotal(b) \in Nat BY <1>1, BatchRead
      <3> QED BY <1>1, <2>1, <3>1, PlacesTaken
    <2> QED BY <1>3, <1>4, <2>1, <2>2
  <1>6. Represented'
    <2>1. uniformCount' = 0 /\ Counted(1..size)' BY <1>3, <1>4 DEF Counted, arrays
    <2> QED BY <1>3, <1>4, <1>5, <2>1 DEF Represented
  <1>7. TypeOK' BY <1>1, <1>4, <1>5 DEF TypeOK, arrays, Idle
  <1> QED BY <1>6, <1>7, Returned DEF Inserted

\* Queries change nothing that matters; a clear leaves an empty container.
LEMMA QuietStep ==
    ASSUME BagInv, (\E op, asked, out : Answer(op, asked, out)) \/ Clear
    PROVE  BagInv'
  <1>1. TypeOK /\ Idle /\ Represented /\ flight = <<>> /\ call = {}
    BY DEF BagInv, Answer, Clear, Idle, TypeOK
  <1>2. CASE \E op, asked, out : Answer(op, asked, out)
    <2>1. UNCHANGED <<host, arrays, ordered, phase, call, flight>> BY <1>2 DEF Answer
    <2>2. Represented' BY <1>1, <2>1, RepresentedStays
    <2>3. TypeOK' BY <1>1, <2>1 DEF TypeOK, host, arrays, Idle
    <2> QED BY <1>1, <2>1, <2>2, <2>3 DEF BagInv, Idle
  <1>3. CASE Clear
    <2>1. /\ size' = 0 /\ direct' = FALSE /\ directBase' = 0
          /\ uniformCount' = 0 /\ uniformLength' = 0
          /\ counts' = NoArray /\ keys' = NoArray
          /\ UNCHANGED <<ordered, phase, call, flight>>
      BY <1>3 DEF Clear, Empty
    <2>2. Represented'
      <3>1. 1..size' = {} BY <2>1
      <3> QED BY <2>1, <3>1 DEF Represented
    <2>3. 0 \in 0..Capacity BY CapacityAssumption
    <2>4. TypeOK'
      <3>1. {directBase', uniformCount', uniformLength'} \subseteq Nat BY <2>1
      <3> QED BY <1>1, <2>1, <2>3, <3>1 DEF TypeOK, Idle
    <2> QED BY <1>1, <2>1, <2>2, <2>4 DEF BagInv, Idle
  <1> QED BY <1>2, <1>3

--------------------------------------------------------------------------------
(* The theorems. *)

\* A new container.
LEMMA BagInit ==
    ASSUME Init
    PROVE  BagInv
  <1>1. 0 \in 0..Capacity /\ Unset \in Key \cup {EmptyKey, Unset} BY CapacityAssumption
  <1>2. TypeOK
    <2>1. {directBase, uniformCount, uniformLength} \subseteq Nat BY DEF Init
    <2>2. ordered \in [1..Capacity -> Key \cup {EmptyKey, Unset}] BY <1>1 DEF Init
    <2> QED BY <1>1, <2>1, <2>2 DEF Init, TypeOK, Idle
  <1>3. Represented
    <2>1. 1..0 = {} OBVIOUS
    <2> QED BY <2>1 DEF Represented, Init
  <1> QED BY <1>2, <1>3 DEF Init, BagInv

\* Every query is an answer.
LEMMA QueriesAnswer ==
    ASSUME NEW q,
           \/ ContainsAll(q) \/ FindAll(q) \/ ContainsIf(q) \/ FindIf(q)
           \/ CountEach(q) \/ CountEachOuter(q) \/ ProbeCountEach(q) \/ ProbeCountEachOuter(q)
           \/ CountAll(q) \/ \E room \in Rooms : Retrieve(q, room)
    PROVE  \E op, asked, out : Answer(op, asked, out)
  <1>1. ASSUME NEW op, Query(op, q) PROVE \E p, asked, out : Answer(p, asked, out)
    BY <1>1 DEF Query
  <1>2. ASSUME NEW op, ProbeQuery(op, q) PROVE \E p, asked, out : Answer(p, asked, out)
    BY <1>2 DEF ProbeQuery
  <1>3. CountAll(q) => \E op, asked, out : Answer(op, asked, out) BY DEF CountAll
  <1>4. ASSUME NEW room \in Rooms, Retrieve(q, room)
        PROVE  \E op, asked, out : Answer(op, asked, out)
    BY <1>4 DEF Retrieve
  <1> QED
    BY <1>1, <1>2, <1>3, <1>4
    DEF ContainsAll, FindAll, ContainsIf, FindIf, CountEach, CountEachOuter, ProbeCountEach,
        ProbeCountEachOuter

\* No step breaks the invariant.
LEMMA BagStep ==
    ASSUME PowersOK, SelectionOK, BagInv, [Next]_vars
    PROVE  BagInv'
  <1>1. ASSUME NEW b \in Batches, Select(b) PROVE BagInv' BY <1>1, SelectStep
  <1>2. ASSUME NEW b \in call, Finish(b) PROVE BagInv'
    <2>1. ASSUME NothingAccepted(b) \/ AllocationFails(b) PROVE BagInv' BY <2>1, NothingStep
    <2>2. ASSUME InsertInterval(b) PROVE BagInv' BY <2>2, InsertIntervalStep
    <2>3. ASSUME PrepareFirst(b) PROVE BagInv' BY <2>3, PrepareFirstStep
    <2>4. ASSUME PrepareHash(b) PROVE BagInv' BY <2>4, PrepareHashStep
    <2>5. ASSUME PrepareCounters(b) PROVE BagInv' BY <2>5, PrepareCountersStep
    <2>6. ASSUME PrepareNothing(b) PROVE BagInv' BY <2>6, PrepareNothingStep
    <2>7. ASSUME Rebuilt(b) PROVE BagInv' BY <2>7, RebuiltStep
    <2>8. ASSUME Inserted(b) PROVE BagInv' BY <2>8, InsertedStep
    <2> QED BY <1>2, <2>1, <2>2, <2>3, <2>4, <2>5, <2>6, <2>7, <2>8 DEF Finish
  <1>3. ASSUME NEW i \in DOMAIN flight,
               AtomicAdd(i) \/ Load(i) \/ StoreCount(i) \/ CompareAndSwap(i)
        PROVE  BagInv'
    <2>1. TypeOK /\ ~(phase \in {"idle", "selected"}) BY DEF BagInv
    <2>2. phase \in {"rebuild", "insert"} /\ call # {} BY <2>1 DEF TypeOK, Idle
    <2>3. PICK b \in call : TRUE BY <2>2
    <2>4. b \in Batches /\ Working(b) BY <2>1, <2>2 DEF BagInv, TypeOK
    <2>5. TypeOK' /\ Working(b)'
      BY <1>3, <2>1, <2>4, AtomicAddStep, LoadStep, StoreCountStep, CompareAndSwapStep
    <2>6. phase' = phase /\ call' = call
      BY <1>3 DEF AtomicAdd, Load, StoreCount, CompareAndSwap
    <2> QED BY <2>2, <2>5, <2>6, Prepared
  <1>4. ASSUME NEW q \in Queries,
               \/ ContainsAll(q) \/ FindAll(q) \/ ContainsIf(q) \/ FindIf(q)
               \/ CountEach(q) \/ CountEachOuter(q)
               \/ ProbeCountEach(q) \/ ProbeCountEachOuter(q)
               \/ CountAll(q) \/ \E room \in Rooms : Retrieve(q, room)
        PROVE  BagInv'
    BY <1>4, QueriesAnswer, QuietStep
  <1>5. ASSUME NEW room \in Rooms, RetrieveAll(room) PROVE BagInv'
    BY <1>5, QuietStep DEF RetrieveAll
  <1>6. ASSUME Clear PROVE BagInv' BY <1>6, QuietStep
  <1>7. ASSUME UNCHANGED vars PROVE BagInv'
    <2>1. UNCHANGED <<size, direct, directBase, uniformCount, uniformLength, counts, keys,
                      ordered, phase, call, flight>>
      BY <1>7 DEF vars, host, arrays
    <2>2. \A b : Working(b)' <=> Working(b)
      BY <2>1 DEF Working, Counted, Entered, Goal, Source, At, Taken, Accepted, Room,
                  RawPrefix, ThreadOK, Apart
    <2> QED BY <2>1, <2>2 DEF BagInv, TypeOK, Represented, Counted, RawPrefix, Room, Idle
  <1> QED BY <1>1, <1>2, <1>3, <1>4, <1>5, <1>6, <1>7 DEF Next

\* A walk for a key that is there finds its one slot.
LEMMA FoundOnce ==
    ASSUME PowersOK, NEW E, NEW f, Chains(keys, counts, E, f), NEW k \in Key
    PROVE  /\ (\E p \in E : f[p] = k) => \E s \in Slot : SlotsOf(k) = {s} /\ keys[s] = k
           /\ ~(\E p \in E : f[p] = k) => SlotsOf(k) = {}
  <1>0. k # EmptyKey /\ TableCapacity \in Nat BY KeyAssumption, TableHasRoom
  <1>1. \A n \in 0..(TableCapacity - 1) : n \in Nat /\ SlotAt(k, n) \in Slot
    BY <1>0, WalksCover
  <1>2. \A s \in SlotsOf(k) : s \in Slot /\ keys[s] = k BY <1>1 DEF SlotsOf
  <1>3. ASSUME NEW p \in E, f[p] = k PROVE \E s \in Slot : SlotsOf(k) = {s} /\ keys[s] = k
    <2>1. Reached(keys, k) BY <1>3 DEF Chains
    <2>2. PICK n \in 0..(TableCapacity - 1) : keys[SlotAt(k, n)] = k /\ Passed(keys, k, n)
      BY <2>1 DEF Reached
    <2>3. SlotAt(k, n) \in SlotsOf(k) BY <2>2 DEF SlotsOf, Passed
    <2>4. \A s \in SlotsOf(k) : s = SlotAt(k, n) BY <1>0, <1>1, <1>2, <2>2 DEF Chains
    <2>5. SlotsOf(k) = {SlotAt(k, n)} BY <2>3, <2>4
    <2> QED BY <1>1, <2>2, <2>5
  <1>4. ASSUME ~(\E p \in E : f[p] = k) PROVE SlotsOf(k) = {}
    <2>1. \A s \in Slot : keys[s] # k BY <1>0, <1>4 DEF Chains
    <2> QED BY <1>2, <2>1
  <1> QED BY <1>3, <1>4

\* What the representations say is what Count answers.
LEMMA CountAnswers ==
    ASSUME PowersOK, BagInv
    PROVE  CountsAreExact
  <1> SUFFICES ASSUME Idle, NEW k \in Key
               PROVE  Count(k) = Cardinality({p \in 1..size : ordered[p] = k})
    BY DEF CountsAreExact
  <1> DEFINE t == Tally(1..size, ordered, k)
  <1>1. TypeOK /\ Represented BY DEF BagInv, Idle
  <1>2. t = Cardinality({p \in 1..size : ordered[p] = k}) BY DEF Tally
  <1>3. k # EmptyKey /\ k \in Nat BY KeyAssumption
  <1>4. size \in Nat /\ directBase \in Nat /\ IsFiniteSet(1..size) /\ TableCapacity \in Nat \ {0}
    BY <1>1, FS_Interval, CapacityAssumption, TableHasRoom DEF TypeOK
  <1>5. t \in Nat /\ (t > 0 <=> \E p \in 1..size : ordered[p] = k) BY <1>4, Tallied
  <1>6. CASE size = 0
    <2>1. ~direct /\ keys = NoArray BY <1>1, <1>6 DEF Represented
    <2>2. t = 0 BY <1>5, <1>6
    <2> QED BY <1>2, <1>3, <2>1, <2>2 DEF Count
  <1>7. CASE size # 0 /\ uniformCount # 0
    <2>1. direct /\ Uniform(directBase, uniformLength, uniformCount, 1..size, ordered)
      BY <1>1, <1>7 DEF Represented
    <2>2. t = IF k - directBase \in 0..(uniformLength - 1) THEN uniformCount ELSE 0
      BY <1>3, <2>1 DEF Uniform
    <2>3. uniformLength \in Nat /\ uniformCount \in Nat BY <1>1 DEF TypeOK
    <2>4. Count(k) = IF k < directBase THEN 0
                     ELSE IF k - directBase < uniformLength THEN uniformCount ELSE 0
      BY <1>3, <1>7, <2>1 DEF Count, DirectCount
    <2>5. Count(k) = t
      <3> HIDE DEF t
      <3> QED BY <1>3, <1>4, <2>2, <2>3, <2>4
    <2> QED BY <1>2, <2>5
  <1>8. CASE size # 0 /\ uniformCount = 0 /\ direct
    <2>1. Counters(counts, directBase, 1..size, ordered)
      BY <1>1, <1>8 DEF Represented, Counted
    <2>2. counts \in [Slot -> Nat] /\ counts # NoArray
      <3>1. counts \in [Slot -> Nat] /\ 0 \in DOMAIN counts BY <1>4, <2>1 DEF Counters, Slot
      <3>2. 0 \notin DOMAIN NoArray BY DEF NoArray
      <3> QED BY <3>1, <3>2
    <2>3. Count(k) = IF k < directBase \/ k - directBase >= TableCapacity THEN 0
                     ELSE counts[k - directBase] - 1
      BY <1>3, <1>4, <1>8, <2>2 DEF Count, DirectCount
    <2>4. CASE k - directBase \in Slot
      <3>1. counts[k - directBase] = 1 + Tally(1..size, ordered, directBase + (k - directBase))
        BY <2>1, <2>4 DEF Counters
      <3>2. directBase + (k - directBase) = k BY <1>3, <1>4
      <3>3. ~(k < directBase \/ k - directBase >= TableCapacity) BY <1>3, <1>4, <2>4 DEF Slot
      <3> QED BY <1>2, <1>5, <2>3, <3>1, <3>2, <3>3
    <2>5. CASE k - directBase \notin Slot
      <3>1. t = 0 BY <1>5, <2>1, <2>5 DEF Counters
      <3>2. k < directBase \/ k - directBase >= TableCapacity BY <1>3, <1>4, <2>5 DEF Slot
      <3> QED BY <1>2, <2>3, <3>1, <3>2
    <2> QED BY <2>4, <2>5
  <1>9. CASE size # 0 /\ ~direct
    <2>1. uniformCount = 0 BY <1>1, <1>9 DEF Represented
    <2>2. Chains(keys, counts, 1..size, ordered) BY <1>1, <1>9, <2>1 DEF Represented, Counted
    <2>3. keys # NoArray
      <3>1. 0 \in DOMAIN keys BY <1>4, <2>2 DEF Chains, Slot
      <3>2. 0 \notin DOMAIN NoArray BY DEF NoArray
      <3> QED BY <3>1, <3>2
    <2>4. Count(k) = IF SlotsOf(k) = {} THEN 0 ELSE counts[Min(SlotsOf(k))]
      BY <1>3, <1>9, <2>3 DEF Count, HashCount
    <2>a. /\ (\E p \in 1..size : ordered[p] = k)
              => \E s \in Slot : SlotsOf(k) = {s} /\ keys[s] = k
          /\ ~(\E p \in 1..size : ordered[p] = k) => SlotsOf(k) = {}
      <3> DEFINE E == 1..size
      <3>1. Chains(keys, counts, E, ordered) BY <2>2
      <3> HIDE DEF E
      <3>2. /\ (\E p \in E : ordered[p] = k)
                => \E s \in Slot : SlotsOf(k) = {s} /\ keys[s] = k
            /\ ~(\E p \in E : ordered[p] = k) => SlotsOf(k) = {}
        BY ONLY PowersOK, k \in Key, <3>1, FoundOnce
      <3> QED BY <3>2 DEF E
    <2>5. CASE \E p \in 1..size : ordered[p] = k
      <3>1. PICK s \in Slot : SlotsOf(k) = {s} /\ keys[s] = k
        BY <2>5, <2>a
      <3>2. Min({s}) = s
        <4>1. s \in Nat BY DEF Slot
        <4>2. s =< s BY <4>1
        <4> QED BY <4>2 DEF Min
      <3>3. counts[s] = t BY <1>3, <2>2, <3>1 DEF Chains
      <3> QED BY <1>2, <2>4, <3>1, <3>2, <3>3
    <2>6. CASE ~(\E p \in 1..size : ordered[p] = k)
      <3>1. SlotsOf(k) = {} BY <2>6, <2>a
      <3>2. t = 0 BY <1>5, <2>6
      <3> QED BY <1>2, <2>4, <3>1, <3>2
    <2> QED BY <2>5, <2>6
  <1> QED BY <1>1, <1>6, <1>7, <1>8, <1>9 DEF TypeOK

\* What is said of the threads keeps them apart.
LEMMA InvKeepsApart ==
    ASSUME SelectionOK, BagInv
    PROVE  ThreadsKeepApart
  <1>1. CASE phase \in {"idle", "selected"}
    <2>1. flight = <<>> BY <1>1 DEF BagInv
    <2>2. DOMAIN flight = {} BY <2>1
    <2> QED BY <2>2 DEF ThreadsKeepApart, InArrays, OneWriter
  <1>2. CASE phase \notin {"idle", "selected"}
    <2>1. TypeOK /\ call # {} BY <1>2 DEF BagInv, TypeOK, Idle
    <2>2. PICK b \in call : TRUE BY <2>1
    <2>3. b \in Batches /\ Working(b) BY <1>2, <2>1 DEF BagInv, TypeOK
    <2>4. ASSUME NEW i \in DOMAIN flight
          PROVE  /\ flight[i].slot \in DOMAIN counts
                 /\ flight[i].pc = "cas" => flight[i].slot \in DOMAIN keys
                 /\ flight[i].to \in 0..Capacity
      <3>1. /\ flight[i] \in Thread /\ ThreadOK(b, flight[i], At(b, i))
            /\ At(b, i) \in 1..Capacity /\ (flight[i].pc # "cas" <=> direct)
        BY <2>1, <2>3, RunningThread
      <3>2. flight[i].slot \in Slot BY <3>1 DEF Thread
      <3>3. direct => counts \in [Slot -> Nat] BY <2>3 DEF Working, Counted, Counters
      <3>4. ~direct => counts \in [Slot -> Nat] /\ keys \in [Slot -> Key \cup {EmptyKey}]
        BY <2>3 DEF Working, Counted, Chains
      <3>5. flight[i].to \in 0..Capacity BY <3>1, CapacityAssumption DEF ThreadOK
      <3> QED BY <3>1, <3>2, <3>3, <3>4, <3>5
    <2>5. ASSUME NEW i \in DOMAIN flight, NEW j \in DOMAIN flight, i # j
          PROVE  /\ flight[i].pc \in {"load", "store"} => flight[i].slot # flight[j].slot
                 /\ flight[i].to # 0 => flight[i].to # flight[j].to
      <3>1. /\ flight[i] \in Thread /\ ThreadOK(b, flight[i], At(b, i))
            /\ flight[j] \in Thread /\ ThreadOK(b, flight[j], At(b, j))
            /\ At(b, i) \in 1..Capacity /\ At(b, j) \in 1..Capacity
            /\ (flight[i].pc # "cas" <=> direct)
        BY <2>1, <2>3, RunningThread
      <3>2. i \in Source(b) /\ j \in Source(b) BY <2>3 DEF Working
      <3>3. At(b, i) # At(b, j) BY <2>1, <2>3, <2>5, <3>2, OwnPlaces
      <3>4. flight[i].to # 0 => flight[i].to # flight[j].to BY <3>1, <3>3 DEF ThreadOK
      <3>5. ASSUME flight[i].pc \in {"load", "store"}
            PROVE  flight[i].slot # flight[j].slot
        <4>1. direct /\ flight[i].key # flight[j].key
          BY <2>3, <2>5, <3>1, <3>5 DEF Working, Apart
        <4>2. /\ flight[i].slot = flight[i].key - directBase
              /\ flight[j].slot = flight[j].key - directBase
          BY <3>1, <4>1 DEF ThreadOK
        <4>3. flight[i].key \in Nat /\ flight[j].key \in Nat /\ directBase \in Nat
          BY <2>1, <3>1, KeyAssumption DEF Thread, TypeOK
        <4> QED BY <4>1, <4>2, <4>3
      <3> QED BY <3>4, <3>5
    <2> QED BY <2>4, <2>5 DEF ThreadsKeepApart, InArrays, OneWriter
  <1> QED BY <1>1, <1>2

\* StaticMultiset keeps its types: in particular, it never holds more elements than
\* its capacity, and no multiplicity or counter goes below zero.
THEOREM MultisetTyped ==
    ASSUME PowersOK, SelectionOK
    PROVE  Spec => []TypeOK
  <1>1. Init => BagInv BY BagInit
  <1>2. BagInv /\ [Next]_vars => BagInv' BY BagStep
  <1>3. BagInv => TypeOK BY DEF BagInv
  <1> QED BY <1>1, <1>2, <1>3, PTL DEF Spec

\* In every representation that insertions lead to, and whatever the order of the
\* threads, Count answers a key's exact number of accepted elements.
THEOREM MultisetCounts ==
    ASSUME PowersOK, SelectionOK
    PROVE  Spec => []CountsAreExact
  <1>1. Init => BagInv BY BagInit
  <1>2. BagInv /\ [Next]_vars => BagInv' BY BagStep
  <1>3. BagInv => CountsAreExact BY CountAnswers
  <1> QED BY <1>1, <1>2, <1>3, PTL DEF Spec

\* The threads of the Rebuild and Insert kernels stay within the arrays that the host
\* has made for them, and what one of them writes without an atomic operation none of
\* the others touches.
THEOREM MultisetWriters ==
    ASSUME PowersOK, SelectionOK
    PROVE  Spec => []ThreadsKeepApart
  <1>1. Init => BagInv BY BagInit
  <1>2. BagInv /\ [Next]_vars => BagInv' BY BagStep
  <1>3. BagInv => ThreadsKeepApart BY InvKeepsApart
  <1> QED BY <1>1, <1>2, <1>3, PTL DEF Spec
================================================================================
