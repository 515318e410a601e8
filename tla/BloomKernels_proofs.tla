-------------------------- MODULE BloomKernels_proofs --------------------------
(***************************************************************************)
(* Lemmas about the kernels of BloomFilter, for any filters, keys, hashes, *)
(* layouts and batches: how far each of them can be at any time, and the   *)
(* steps of all of them but the private apply.  BloomFilter_proofs has     *)
(* that one, and draws the theorems.                                       *)
(*                                                                         *)
(* The argument.  A stream is a course of states between kernels: what the *)
(* filters hold, the route whose apply is still to come, and the filters   *)
(* whose counters are zero.  A kernel executes on the state that it finds  *)
(* (Executed) if that state is what the host knew when it launched it      *)
(* (Ready), and a stream leads from one state to another if each kernel    *)
(* finds its own ready (Leads).  Course says that what the device has in   *)
(* memory stands for a state that the stream leads to what the host has    *)
(* promised.  Between the steps of a kernel it is not a state but on its   *)
(* way to one, and Progress says how far for each family:                  *)
(*                                                                         *)
(*   add            each thread has its own elements (Deals); the bits of  *)
(*                  every element are set, or a thread has it still to do. *)
(*   route          the tickets that a block has given out are those of    *)
(*                  its slots that were written and those that threads     *)
(*                  hold, each of one element; whatever was refused a slot *)
(*                  has its bits in the filter.                            *)
(*   private route  the same for each core and bucket; two threads of a    *)
(*                  core may have read the same count, and only one of     *)
(*                  them takes its ticket by it.                           *)
(*   private apply  of the tiles before this one everything is in the      *)
(*                  filter; of this one, what is in local memory is what   *)
(*                  the gathered records set, and the others are left.     *)
(***************************************************************************)
EXTENDS BloomFilter, NaturalInduction, SequenceTheorems

--------------------------------------------------------------------------------
(* Objects on the host, and kernels in the stream. *)

Object ==
    [data : BOOLEAN, workspace : {"none", "routed", "private"}, slots : Nat, producers : Nat,
     flag : BOOLEAN, unavailable : BOOLEAN, knownEmpty : BOOLEAN, exposed : BOOLEAN]

\* A workspace has room for something.
Sized(h) ==
    /\ h.workspace = "routed" => h.slots > 0
    /\ h.workspace = "private" => h.producers > 0

Kinds ==
    {"add", "add if", "clear", "clear workspace", "reset flag", "merge", "intersect",
     "contains", "contains if", "zeros"} \cup RoutedKernels \cup PrivateKernels
Launched ==
    [op : Kinds, f : Filter, from : Filter, keys : Seq(Key), sel : Seq(BOOLEAN),
     preserve : BOOLEAN, want : Seq(BOOLEAN)]

\* What a batch routes it applies next.
Paired(q) ==
    \A i \in 1..Len(q) : q[i].op = "route" =>
        i + 1 \in 1..Len(q) /\ q[i + 1].op = "apply" /\ q[i + 1].f = q[i].f

\* Kernels have the workspace of their kind.
Served(q, hosts) ==
    \A i \in 1..Len(q) :
        /\ q[i].op \in RoutedKernels => hosts[q[i].f].workspace = "routed"
        /\ q[i].op \in PrivateKernels => hosts[q[i].f].workspace = "private"

\* A kernel to come sets the filter's counters to zero.
Zeroes(f, q) == \E i \in 1..Len(q) : q[i].op \in {"clear workspace", "apply"} /\ q[i].f = f
Zero(f) == \A b \in Block : counters[f][b] = 0

HostInv ==
    /\ host \in [Filter -> Object]
    /\ \A f \in Filter : Sized(host[f])
    /\ DOMAIN expected = Filter
    /\ KnownEmptyIsEmpty

StreamInv ==
    /\ queue \in Seq(Launched)
    /\ Paired(queue) /\ Served(queue, host)
    /\ counters \in [Filter -> [Block -> Nat]]
    /\ \A f \in Filter : host[f].workspace = "routed" => Zero(f) \/ Zeroes(f, queue)

--------------------------------------------------------------------------------
(* Arithmetic. *)

\* The smaller of a count and a capacity is zero when the count is.
LEMMA SmallerOf ==
    ASSUME NEW a \in Nat, NEW b \in Nat, b > 0
    PROVE  Min({a, b}) = 0 <=> a = 0
  <1>1. \E x \in {a, b} : \A y \in {a, b} : x <= y OBVIOUS
  <1>2. Min({a, b}) \in {a, b} /\ \A y \in {a, b} : Min({a, b}) <= y BY <1>1 DEF Min
  <1> QED BY <1>2

\* The powers of two that hashes are divided by.
LEMMA Powers ==
    ASSUME HashesOK
    PROVE  /\ 2^HashBits \in Nat \ {0} /\ 2^(HashBits - 1) \in Nat \ {0}
           /\ 2^(HashBits - 2) \in Nat \ {0}
           /\ 2^(2 * HashBits) = 2^HashBits * 2^HashBits
           /\ 2^HashBits = 4 * 2^(HashBits - 2) /\ 2^(HashBits - 1) = 2 * 2^(HashBits - 2)
           /\ 2^0 = 1 /\ 2^1 = 2 /\ 2^2 = 4 /\ 2^BucketBits = 2
  <1>1. /\ HashBits \in Nat /\ HashBits >= 2 /\ 2^0 = 1 /\ 2^1 = 2
        /\ \A i, j \in 0..(HashBits + 5) : 2^i \in Nat \ {0} /\ 2^(i + j) = 2^i * 2^j
    BY DEF HashesOK
  <1>2. {0, 1, 2, HashBits, HashBits - 1, HashBits - 2} \subseteq 0..(HashBits + 5) BY <1>1
  <1>3. 2^(1 + 1) = 2^1 * 2^1 BY <1>1, <1>2
  <1>4. 2^(HashBits + HashBits) = 2^HashBits * 2^HashBits BY <1>1, <1>2
  <1>5. 2^(2 + (HashBits - 2)) = 2^2 * 2^(HashBits - 2) BY <1>1, <1>2
  <1>6. 2^(1 + (HashBits - 2)) = 2^1 * 2^(HashBits - 2) BY <1>1, <1>2
  <1>7. 2^2 = 4
    <2>1. 1 + 1 = 2 OBVIOUS
    <2> QED BY <1>1, <1>3, <2>1
  <1>8. HashBits + HashBits = 2 * HashBits /\ 2 + (HashBits - 2) = HashBits
        /\ 1 + (HashBits - 2) = HashBits - 1
    BY <1>1
  <1>9. {2^HashBits, 2^(HashBits - 1), 2^(HashBits - 2)} \subseteq Nat \ {0} BY <1>1, <1>2
  <1> QED BY <1>1, <1>4, <1>5, <1>6, <1>7, <1>8, <1>9 DEF BucketBits

\* What a number below a product is divided into.
LEMMA Quotient ==
    ASSUME NEW b \in Nat \ {0}, NEW q \in Nat, NEW a \in Nat, a < q * b
    PROVE  a \div b \in 0..(q - 1) /\ a % b \in 0..(b - 1) /\ a = (a \div b) * b + (a % b)
  <1>1. a \in Int /\ b \in Nat /\ q * b \in Nat OBVIOUS
  <1>2. a \div b \in Nat /\ a % b \in 0..(b - 1) /\ a = (a \div b) * b + (a % b)
    BY <1>1, Divided
  <1> DEFINE d == a \div b
             r == a % b
  <1>3. d \in Nat /\ r \in 0..(b - 1) /\ a = d * b + r BY <1>2
  <1> HIDE DEF d, r
  <1>4. ASSUME d >= q PROVE FALSE
    <2>1. q * b <= d * b BY <1>1, <1>3, <1>4, Times
    <2>2. d * b \in Nat BY <1>3
    <2> QED BY <1>1, <1>3, <2>1, <2>2
  <1>5. d \in 0..(q - 1) BY <1>3, <1>4
  <1> QED BY <1>3, <1>5 DEF d, r

\* The halves of a hash are numbers of half its width.
LEMMA Halves ==
    ASSUME HashesOK, NEW k \in Key
    PROVE  UpperHash(k) \in 0..(2^HashBits - 1) /\ LowerHash(k) \in 0..(2^HashBits - 1)
  <1> DEFINE M == 2^HashBits
             h == Hash[k]
  <1>1. M \in Nat \ {0} /\ 2^(2 * HashBits) = M * M BY Powers
  <1>2. h \in 0..(M * M - 1) BY <1>1 DEF HashesOK
  <1>3. UpperHash(k) = h \div M /\ LowerHash(k) = h % M BY DEF UpperHash, LowerHash
  <1> SUFFICES h \div M \in 0..(M - 1) /\ h % M \in 0..(M - 1) BY <1>3
  <1> HIDE DEF M, h
  <1>4. M \in Nat /\ M * M \in Nat BY <1>1
  <1>5. h \in Nat /\ h < M * M BY <1>2, <1>4
  <1> QED BY ONLY <1>1, <1>4, <1>5, Quotient

\* What the policy asserts of its numbers.
LEMMA PolicyNumbers ==
    ASSUME HashesOK, PolicyOK
    PROVE  /\ Words \in Nat \ {0} /\ Len(Salts) \in Nat /\ BitsPerWord \in Nat \ {0}
           /\ Words * BitsPerWord = Len(Salts)
           /\ IndexBits \in 0..HashBits /\ 2^IndexBits \in Nat \ {0}
           /\ 2^(HashBits - IndexBits) \in Nat \ {0}
           /\ 2^HashBits = 2^IndexBits * 2^(HashBits - IndexBits)
  <1>1. /\ HashBits \in Nat
        /\ \A i, j \in 0..(HashBits + 5) : 2^i \in Nat \ {0} /\ 2^(i + j) = 2^i * 2^j
        /\ IndexBits \in Nat /\ Salts \in Seq(Nat)
    BY DEF HashesOK
  <1>2. \E i \in 0..5 : Words = 2^i BY DEF PolicyOK
  <1>3. Words \in Nat \ {0} BY <1>1, <1>2
  <1>4. Len(Salts) \in Nat BY <1>1
  <1>5. Len(Salts) >= Words /\ Len(Salts) % Words = 0 /\ IndexBits <= HashBits BY DEF PolicyOK
  <1> DEFINE L == Len(Salts)
  <1>6. BitsPerWord \in Nat /\ Len(Salts) = BitsPerWord * Words + 0
    <2>1. L \in Int /\ L \in Nat /\ L % Words = 0 BY <1>4, <1>5
    <2> HIDE DEF L
    <2>2. L \div Words \in Nat /\ L = (L \div Words) * Words + (L % Words)
      BY ONLY <1>3, <2>1, Divided
    <2> QED BY <2>1, <2>2 DEF BitsPerWord, L
  <1>7. Words * BitsPerWord = BitsPerWord * Words /\ BitsPerWord * Words \in Nat BY <1>3, <1>6
  <1>8. BitsPerWord # 0
    <2> SUFFICES ASSUME BitsPerWord = 0 PROVE FALSE OBVIOUS
    <2>1. BitsPerWord * Words = 0 BY <1>3
    <2> QED BY <1>3, <1>5, <1>6, <2>1
  <1>9. IndexBits \in 0..(HashBits + 5) /\ HashBits - IndexBits \in 0..(HashBits + 5) BY <1>1, <1>5
  <1>10. /\ 2^IndexBits \in Nat \ {0} /\ 2^(HashBits - IndexBits) \in Nat \ {0}
         /\ 2^(IndexBits + (HashBits - IndexBits)) = 2^IndexBits * 2^(HashBits - IndexBits)
    BY <1>1, <1>9
  <1>11. IndexBits + (HashBits - IndexBits) = HashBits BY <1>1
  <1> QED BY <1>1, <1>3, <1>4, <1>5, <1>6, <1>7, <1>8, <1>10, <1>11

Place == 0..(2^IndexBits - 1)
Bit == Block \X Word \X Place

\* A pattern has places of its word, and at least one.
LEMMA Patterns ==
    ASSUME HashesOK, PolicyOK, NEW w \in Word, NEW lower \in Nat
    PROVE  WordPattern(w, lower) \subseteq {w} \X Place /\ WordPattern(w, lower) # {}
  <1> DEFINE M == 2^HashBits
             P == 2^(HashBits - IndexBits)
             I == 2^IndexBits
             place(i) == ((Salts[(w * BitsPerWord) + i] * lower) % M) \div P
  <1>1. M \in Nat \ {0} /\ P \in Nat \ {0} /\ I \in Nat \ {0} /\ M = I * P
        /\ Words \in Nat \ {0} /\ BitsPerWord \in Nat \ {0} /\ Words * BitsPerWord = Len(Salts)
        /\ Salts \in Seq(Nat)
    BY Powers, PolicyNumbers DEF HashesOK
  <1>2. w \in Nat /\ w + 1 <= Words BY <1>1 DEF Word
  <1>3. ASSUME NEW i \in 1..BitsPerWord PROVE place(i) \in Place
    <2>1. (w + 1) * BitsPerWord <= Words * BitsPerWord BY <1>1, <1>2, Times
    <2>2. (w + 1) * BitsPerWord = w * BitsPerWord + BitsPerWord /\ w * BitsPerWord \in Nat
      BY <1>1, <1>2
    <2>3. w * BitsPerWord + i \in 1..Len(Salts)
      <3> DEFINE n == BitsPerWord
                 a == w * BitsPerWord
                 z == (w + 1) * BitsPerWord
      <3>1. z <= Len(Salts) /\ z = a + n /\ a \in Nat /\ n \in Nat /\ Len(Salts) \in Nat
        BY <1>1, <2>1, <2>2, SMTT(40)
      <3>2. i \in 1..n OBVIOUS
      <3> HIDE DEF a, z, n
      <3>3. a + i \in 1..Len(Salts) BY ONLY <3>1, <3>2
      <3> QED BY <3>3 DEF a
    <2> DEFINE j == (w * BitsPerWord) + i
    <2>4. Salts[j] \in Nat BY <1>1, <2>3
    <2> DEFINE x == Salts[j] * lower
    <2>5. x \in Nat
      <3> HIDE DEF j
      <3> QED BY <2>4
    <2> HIDE DEF x, M, P, I
    <2>6. x % M \in 0..(M - 1)
      <3>1. x \in Int BY <2>5
      <3> QED BY ONLY <1>1, <3>1, Divided
    <2> DEFINE y == x % M
    <2>7. y \in Nat /\ y < I * P
      <3>1. M = I * P /\ M \in Nat BY <1>1
      <3> HIDE DEF y
      <3>2. y \in 0..(M - 1) BY <2>6 DEF y
      <3> QED BY <3>1, <3>2
    <2> HIDE DEF y
    <2>8. y \div P \in 0..(I - 1)
      <3>1. I \in Nat /\ P \in Nat \ {0} BY <1>1
      <3> QED BY ONLY <2>7, <3>1, Quotient
    <2> QED BY <2>8 DEF Place, I, M, P, x, y, j
  <1>4. WordPattern(w, lower) = {<<w, place(i)>> : i \in 1..BitsPerWord}
    BY DEF WordPattern
  <1> HIDE DEF place
  <1>5. 1 \in 1..BitsPerWord BY <1>1
  <1>6. <<w, place(1)>> \in WordPattern(w, lower) BY <1>4, <1>5
  <1>7. WordPattern(w, lower) \subseteq {w} \X Place BY <1>3, <1>4
  <1> QED BY <1>6, <1>7

\* There are blocks, of a number that the code's shifts know.
LEMMA SomeBlocks ==
    /\ NumBlocks \in {1, 3, 4} /\ NumBlocks \in Nat \ {0}
    /\ layout \in Private => NumBlocks = 4 /\ layout # "one"
  BY DEF NumBlocks, Private

\* A hash has a block.
LEMMA BlockIndexed ==
    ASSUME HashesOK, NEW u \in 0..(2^HashBits - 1)
    PROVE  BlockIndex(u) \in Block
  <1> DEFINE M == 2^HashBits
  <1>1. M \in Nat \ {0} /\ NumBlocks \in Nat \ {0} BY Powers, SomeBlocks
  <1>2. u \in 0..(M - 1) OBVIOUS
  <1> HIDE DEF M
  <1>3. u \in Nat /\ u + 1 <= M BY <1>1, <1>2
  <1>4. (u + 1) * NumBlocks <= M * NumBlocks BY <1>1, <1>3, Times
  <1>5. u * NumBlocks \in Nat /\ u * NumBlocks < NumBlocks * M BY <1>1, <1>3, <1>4
  <1>6. (u * NumBlocks) \div M \in 0..(NumBlocks - 1) BY ONLY <1>1, <1>5, Quotient
  <1> QED BY <1>6 DEF BlockIndex, Block, M

\* The pattern of a hash, whose lower half is never the mark of a stale slot.
LEMMA HashPattern ==
    ASSUME HashesOK, PolicyOK, NEW k \in Key
    PROVE  /\ BlockPattern(LowerHash(k)) = UNION {WordPattern(w, LowerHash(k)) : w \in Word}
           /\ BlockPattern(LowerHash(k)) \subseteq Word \X Place
           /\ BlockPattern(LowerHash(k)) # {}
  <1>1. LowerHash(k) \in Nat BY Halves, Powers
  <1>2. BlockPattern(LowerHash(k)) = UNION {WordPattern(w, LowerHash(k)) : w \in Word}
    BY <1>1 DEF BlockPattern, Stale
  <1>3. \A w \in Word :
          WordPattern(w, LowerHash(k)) \subseteq {w} \X Place /\ WordPattern(w, LowerHash(k)) # {}
    BY <1>1, Patterns
  <1>4. 0 \in Word BY PolicyNumbers DEF Word
  <1> QED BY <1>2, <1>3, <1>4

\* The bits of a key.
LEMMA Marked ==
    ASSUME HashesOK, PolicyOK, NEW k \in Key
    PROVE  /\ UpperHash(k) \in 0..(2^HashBits - 1) /\ BlockIndex(UpperHash(k)) \in Block
           /\ BitsOf(k) \subseteq Bit /\ BitsOf(k) # {}
           /\ \A p \in BitsOf(k) : p[1] = BlockIndex(UpperHash(k))
           /\ BitsOf(k) = UNION {InBlock(BlockIndex(UpperHash(k)), WordPattern(w, LowerHash(k))) :
                                     w \in Word}
  <1> DEFINE b == BlockIndex(UpperHash(k))
             Q == BlockPattern(LowerHash(k))
  <1>1. UpperHash(k) \in 0..(2^HashBits - 1) /\ b \in Block BY Halves, BlockIndexed
  <1>2. Q = UNION {WordPattern(w, LowerHash(k)) : w \in Word} /\ Q \subseteq Word \X Place /\ Q # {}
    BY HashPattern
  <1>3. BitsOf(k) = {<<b, p[1], p[2]>> : p \in Q} BY DEF BitsOf, InBlock
  <1>4. BitsOf(k) = UNION {InBlock(b, WordPattern(w, LowerHash(k))) : w \in Word}
    BY <1>2, <1>3 DEF InBlock
  <1> HIDE DEF b, Q
  <1>5. \A p \in Q : <<b, p[1], p[2]>> \in Bit
    <2> TAKE p \in Q
    <2>1. p \in Word \X Place BY <1>2
    <2>2. p[1] \in Word /\ p[2] \in Place BY <2>1
    <2> QED BY <1>1, <2>2 DEF Bit
  <1>6. BitsOf(k) \subseteq Bit /\ BitsOf(k) # {}
    <2>1. BitsOf(k) \subseteq Bit BY ONLY <1>3, <1>5
    <2>2. PICK p \in Q : TRUE BY <1>2
    <2>3. <<b, p[1], p[2]>> \in BitsOf(k) BY <1>3, <2>2
    <2> QED BY <2>1, <2>3
  <1>7. \A p \in BitsOf(k) : p[1] = b BY <1>3
  <1> QED BY <1>1, <1>4, <1>6, <1>7 DEF b

\* Four times a number, divided by four times a divisor.
LEMMA Fourfold ==
    ASSUME NEW Q \in Nat \ {0}, NEW u \in Nat, NEW M, M = 4 * Q
    PROVE  (u * 4) \div M = u \div Q
  <1>1. u \div Q \in Nat /\ u % Q \in 0..(Q - 1) /\ u = (u \div Q) * Q + (u % Q)
    <2>1. u \in Int OBVIOUS
    <2> QED BY ONLY Q \in Nat \ {0}, u \in Nat, <2>1, Divided
  <1> DEFINE b == u \div Q
             r == u % Q
  <1>2. b \in Nat /\ r \in 0..(Q - 1) /\ u = b * Q + r BY <1>1
  <1> HIDE DEF b, r
  <1>3. u * 4 = b * M + r * 4 BY <1>2
  <1>4. M \in Nat \ {0} /\ r * 4 \in 0..(M - 1) BY <1>2
  <1>5. (b * M + r * 4) \div M = b BY <1>2, <1>4, Division
  <1> QED BY <1>3, <1>5 DEF b

\* The shift by which a route finds the block is right.
LEMMA RoutedBlock ==
    ASSUME HashesOK, NEW u \in 0..(2^HashBits - 1)
    PROVE  RoutedBlockIndex(u) = BlockIndex(u)
  <1> DEFINE M == 2^HashBits
             Q == 2^(HashBits - 2)
  <1>1. M \in Nat \ {0} /\ Q \in Nat \ {0} /\ M = 4 * Q /\ 2^0 = 1 /\ 2^1 = 2 /\ 2^2 = 4
    BY Powers
  <1>2. HashBits \in Nat /\ HashBits >= 2
        /\ \A i, j \in 0..(HashBits + 5) : 2^i \in Nat \ {0} /\ 2^(i + j) = 2^i * 2^j
    BY DEF HashesOK
  <1>3. u \in Nat /\ u < M BY <1>1
  <1>4. \A h \in 0..HashBits : (h >= 2 => 2^h >= 4) /\ (h >= 3 => 2^h >= 8)
    <2> TAKE h \in 0..HashBits
    <2>1. ASSUME h >= 2 PROVE 2^h >= 4
      <3>1. 2 \in 0..(HashBits + 5) /\ h - 2 \in 0..(HashBits + 5) /\ 2 + (h - 2) = h
        BY <1>2, <2>1
      <3>2. 2^(h - 2) \in Nat \ {0} /\ 2^(2 + (h - 2)) = 2^2 * 2^(h - 2) BY <1>2, <3>1
      <3> QED BY <1>1, <3>1, <3>2
    <2>2. ASSUME h >= 3 PROVE 2^h >= 8
      <3>1. /\ 1 \in 0..(HashBits + 5) /\ 2 \in 0..(HashBits + 5) /\ 3 \in 0..(HashBits + 5)
            /\ h - 3 \in 0..(HashBits + 5) /\ 3 + (h - 3) = h /\ 1 + 2 = 3
        BY <1>2, <2>2
      <3>2. 2^(h - 3) \in Nat \ {0} /\ 2^(3 + (h - 3)) = 2^3 * 2^(h - 3) BY <1>2, <3>1
      <3>3. 2^(1 + 2) = 2^1 * 2^2 BY <1>2, <3>1
      <3> QED BY <1>1, <3>1, <3>2, <3>3
    <2> QED BY <2>1, <2>2
  <1>5. 2^(2 + 1) = 8 /\ 2^(1 + 1) = 4 /\ 2^(0 + 1) = 2
    <2>1. 1 + 1 = 2 /\ 0 + 1 = 1 /\ 2 \in 0..(HashBits + 5) /\ 1 \in 0..(HashBits + 5) BY <1>2
    <2>2. 2^(2 + 1) = 2^2 * 2^1 BY <1>2, <2>1
    <2> QED BY <1>1, <2>1, <2>2
  <1> DEFINE Covers(h, n) == h \in 0..HashBits /\ 2^h <= n /\ n < 2^(h + 1)
  <1>6. \A n \in {1, 3, 4} : (\E h : Covers(h, n)) => Covers(Halvings(n), n)
    BY DEF Halvings
  <1>7. \A h \in 0..HashBits : h \in {0, 1, 2} \/ h >= 3 BY <1>2
  <1>0. /\ \A h : Covers(h, 1) => h = 0
        /\ \A h : Covers(h, 3) => h = 1
        /\ \A h : Covers(h, 4) => h = 2
    <2>1. \A h \in 0..HashBits : 2^h \in Nat /\ 2^(h + 1) \in Nat BY <1>2
    <2>2. \A h : h = 0 => 2^h = 1 /\ 2^(h + 1) = 2
      <3> SUFFICES 2^0 = 1 /\ 2^(0 + 1) = 2 BY Zenon
      <3> QED BY <1>1, <1>5
    <2>3. \A h : h = 1 => 2^h = 2 /\ 2^(h + 1) = 4
      <3> SUFFICES 2^1 = 2 /\ 2^(1 + 1) = 4 BY Zenon
      <3> QED BY <1>1, <1>5
    <2>4. \A h : h = 2 => 2^h = 4 /\ 2^(h + 1) = 8
      <3> SUFFICES 2^2 = 4 /\ 2^(2 + 1) = 8 BY Zenon
      <3> QED BY <1>1, <1>5
    <2>5. ASSUME NEW h, NEW n \in {1, 3, 4}, Covers(h, n)
          PROVE  h = IF n = 1 THEN 0 ELSE IF n = 3 THEN 1 ELSE 2
      <3> DEFINE x == 2^h
                 y == 2^(h + 1)
      <3>1. /\ h \in 0..HashBits /\ x <= n /\ n < y /\ x \in Nat /\ y \in Nat
            /\ h = 0 => x = 1 /\ y = 2
            /\ h = 1 => x = 2 /\ y = 4
            /\ h = 2 => x = 4 /\ y = 8
            /\ h >= 3 => x >= 8
            /\ h \in {0, 1, 2} \/ h >= 3
        BY <1>4, <1>7, <2>1, <2>2, <2>3, <2>4, <2>5
      <3> HIDE DEF x, y
      <3> QED BY <3>1
    <2> QED BY <2>5
  <1>8. CASE NumBlocks = 1
    <2>1. Covers(0, 1) BY <1>1, <1>2, <1>5
    <2>2. Covers(Halvings(1), 1) BY <1>6, <2>1
    <2>3. Halvings(1) = 0 BY <1>0, <2>2
    <2>4. BlockIndexShift = HashBits BY <1>1, <1>2, <1>8, <2>3 DEF BlockIndexShift
    <2>5. RoutedBlockIndex(u) = 0 BY <1>2, <2>4 DEF RoutedBlockIndex
    <2>6. BlockIndex(u) \in 0..(1 - 1) BY <1>8, BlockIndexed DEF Block
    <2> QED BY <2>5, <2>6
  <1>9. CASE NumBlocks = 3
    <2>1. Covers(1, 3) BY <1>1, <1>2, <1>5
    <2>2. Covers(Halvings(3), 3) BY <1>6, <2>1
    <2>3. Halvings(3) = 1 BY <1>0, <2>2
    <2>4. 2^Halvings(3) # 3
      <3>1. 2^Halvings(3) = 2^1 BY <2>3, Zenon
      <3> QED BY <1>1, <3>1
    <2>5. BlockIndexShift = 0 BY <1>9, <2>4 DEF BlockIndexShift
    <2> QED BY <2>5 DEF RoutedBlockIndex
  <1>10. CASE NumBlocks = 4
    <2>1. Covers(2, 4) BY <1>1, <1>2, <1>5
    <2>2. Covers(Halvings(4), 4) BY <1>6, <2>1
    <2>3. Halvings(4) = 2 BY <1>0, <2>2
    <2>4. BlockIndexShift = HashBits - 2 BY <1>1, <1>10, <2>3 DEF BlockIndexShift
    <2>5. CASE HashBits = 2 BY <2>4, <2>5 DEF RoutedBlockIndex
    <2>6. CASE HashBits # 2
      <3>1. RoutedBlockIndex(u) = u \div Q BY <1>2, <2>4, <2>6 DEF RoutedBlockIndex
      <3>2. BlockIndex(u) = (u * 4) \div M BY <1>10 DEF BlockIndex
      <3>3. (u * 4) \div (4 * Q) = u \div Q BY <1>1, <1>3, Fourfold
      <3> QED BY <1>1, <3>1, <3>2, <3>3
    <2> QED BY <2>5, <2>6
  <1> QED BY <1>8, <1>9, <1>10, SomeBlocks

\* Bucket and block there are those of the filter.
LEMMA PrivateBlock ==
    ASSUME HashesOK, layout \in Private, NEW u \in 0..(2^HashBits - 1)
    PROVE  /\ BucketOf(u) \in Bucket /\ LocalBlock(u) \in 0..1
           /\ GlobalBlock(BucketOf(u), LocalBlock(u)) = BlockIndex(u)
  <1> DEFINE M == 2^HashBits
             Q == 2^(HashBits - 2)
             H == 2^(HashBits - 1)
  <1>1. Q \in Nat \ {0} /\ M = 4 * Q /\ H = 2 * Q /\ 2^BucketBits = 2 BY Powers
  <1>2. u \in Nat /\ u < 4 * Q BY <1>1
  <1>3. BlockIndex(u) = (u * 4) \div M BY SomeBlocks DEF BlockIndex
  <1>4. BucketOf(u) = u \div H /\ LocalBlock(u) = (u \div Q) % 2
    BY DEF BucketOf, LocalBlock, BucketBits, FixedBlockShift, BlocksPerBucket
  <1>5. Bucket = 0..1 BY <1>1 DEF Bucket
  <1> HIDE DEF M, Q, H
  <1>6. (u * 4) \div M = u \div Q BY <1>1, <1>2, Fourfold
  <1>7. u \div Q \in 0..3 /\ u % Q \in 0..(Q - 1) /\ u = (u \div Q) * Q + (u % Q)
    <2> DEFINE n == 4
    <2>1. n \in Nat /\ u < n * Q /\ n - 1 = 3 BY <1>1, <1>2
    <2> HIDE DEF n
    <2>2. u \div Q \in 0..(n - 1) /\ u % Q \in 0..(Q - 1) /\ u = (u \div Q) * Q + (u % Q)
      BY ONLY <1>1, <1>2, <2>1, Quotient
    <2> QED BY <2>1, <2>2
  <1> DEFINE b == u \div Q
             r == u % Q
             c == b \div 2
             d == b % 2
  <1>8. b \in 0..3 /\ r \in 0..(Q - 1) /\ u = b * Q + r BY <1>7
  <1>9. c \in 0..1 /\ d \in 0..1 /\ b = c * 2 + d
    <2> HIDE DEF b, r
    <2> QED BY <1>8
  <1> HIDE DEF b, r, c, d
  <1>10. u = c * H + (d * Q + r) /\ d * Q + r \in 0..(H - 1)
    <2>1. b * Q = c * H + d * Q BY <1>1, <1>9
    <2>2. Q \in Nat /\ r \in Nat /\ r < Q BY <1>1, <1>8
    <2>3. d * Q \in {0, Q} BY <1>9, <2>2
    <2> QED BY <1>1, <1>8, <1>9, <2>1, <2>2, <2>3
  <1>11. u \div H = c
    <2>1. H \in Nat \ {0} BY <1>1
    <2> DEFINE x == d * Q + r
    <2>2. x \in 0..(H - 1) /\ u = c * H + x /\ c \in Int BY <1>9, <1>10
    <2> HIDE DEF x
    <2>3. (c * H + x) \div H = c BY ONLY <2>1, <2>2, Division
    <2> QED BY <2>2, <2>3
  <1> QED BY <1>3, <1>4, <1>5, <1>6, <1>9, <1>11 DEF GlobalBlock, BlocksPerBucket, b, c, d

--------------------------------------------------------------------------------
(* What the device will have made of the filters: the stream, kernel by       *)
(* kernel.  m are the bits of each key.                                       *)

Marks == [k \in Key |-> BitsOf(k)]

\* The elements of a batch that count, and the bits that they set.
Chosen(k) == {i \in 1..Len(k.keys) : k.sel[i]}
Gain(m, k) == UNION {m[k.keys[i]] : i \in Chosen(k)}

RouteKinds == {"route"} \cup Routes
ApplyKinds == {"apply"} \cup TiledApplies \cup CompactApplies
Queries == {"contains", "contains if", "zeros"}
Batched == {"add", "add if"} \cup RouteKinds \cup ApplyKinds

\* A route and the apply that belongs to it, with the operands of one call.
Mates(k, j) ==
    /\ j = [k EXCEPT !.op = j.op]
    /\ <<k.op, j.op>> \in {<<"route", "apply">>, <<"private route", "private apply">>,
                           <<"private route", "compact apply">>,
                           <<"private route if", "private apply if">>,
                           <<"private route if", "compact apply if">>}

\* A state between two kernels: the contents, the route whose apply is still to
\* come, and the filters whose counters have been set to zero.
Content(m) == [Filter -> SUBSET UNION {m[k] : k \in Key}]
State(m) == [content : Content(m), owed : SUBSET Launched, zero : [Filter -> BOOLEAN]]

\* What the host knew when it launched a kernel is true when it begins.
Answers(m, k, content) ==
    [i \in DOMAIN k.keys |-> k.sel[i] /\ m[k.keys[i]] \subseteq content]
Ready(m, k, s) ==
    /\ k.op \in ApplyKinds => \E r \in s.owed : s.owed = {r} /\ Mates(r, k)
    /\ k.op \notin ApplyKinds => s.owed = {}
    /\ k.op \in Batched \cup Queries => Len(k.sel) = Len(k.keys)
    /\ k.op \in Batched /\ ~k.preserve => s.content[k.f] = {}
    /\ k.op = "route" => s.zero[k.f]
    /\ k.op = "zeros" => s.content[k.f] = {}
    /\ k.op \in Queries => k.want = Answers(m, k, s.content[k.f])
    /\ k.op = "contains" => \A i \in 1..Len(k.keys) : k.sel[i]

\* What a kernel does, the routing of a batch aside.
Contents(m, k, content) ==
    IF k.op \in {"add", "add if"} \cup ApplyKinds THEN content[k.f] \cup Gain(m, k)
    ELSE IF k.op = "clear" THEN {}
    ELSE IF k.op = "merge" THEN content[k.f] \cup content[k.from]
    ELSE IF k.op = "intersect" THEN content[k.f] \cap content[k.from]
    ELSE content[k.f]
Zeroed(k, zero) ==
    IF k.op \in {"clear workspace", "apply"} THEN TRUE
    ELSE IF k.op = "route" THEN FALSE ELSE zero[k.f]
Executed(m, k, s) ==
    [content |-> [s.content EXCEPT ![k.f] = Contents(m, k, s.content)],
     owed |-> IF k.op \in RouteKinds THEN {k} ELSE {},
     zero |-> [s.zero EXCEPT ![k.f] = Zeroed(k, s.zero)]]

\* A stream takes one state to another, each kernel finding what it needs.
Leads(m, s, q, e) ==
    \E w \in [0..Len(q) -> State(m)] :
        /\ w[0] = s /\ w[Len(q)] = e
        /\ \A i \in 1..Len(q) : Ready(m, q[i], w[i - 1]) /\ w[i] = Executed(m, q[i], w[i - 1])

\* A batch sets bits of keys.
LEMMA GainOfKeys ==
    ASSUME NEW m, NEW k \in Launched
    PROVE  Gain(m, k) \subseteq UNION {m[x] : x \in Key}
  <1>1. k.keys \in Seq(Key) BY DEF Launched
  <1>2. \A i \in Chosen(k) : k.keys[i] \in Key BY <1>1 DEF Chosen
  <1> QED BY <1>2 DEF Gain

\* A kernel takes a state to a state.
LEMMA ExecutedIsState ==
    ASSUME NEW m, NEW k \in Launched, NEW s \in State(m)
    PROVE  /\ Executed(m, k, s) \in State(m)
           /\ \A g \in Filter : g # k.f => Executed(m, k, s).content[g] = s.content[g]
           /\ \A g \in Filter : g # k.f => Executed(m, k, s).zero[g] = s.zero[g]
           /\ Executed(m, k, s).content[k.f] = Contents(m, k, s.content)
           /\ Executed(m, k, s).zero[k.f] = Zeroed(k, s.zero)
  <1> DEFINE E == UNION {m[x] : x \in Key}
  <1>1. /\ s.content \in [Filter -> SUBSET E] /\ s.owed \subseteq Launched
        /\ s.zero \in [Filter -> BOOLEAN]
    BY DEF State, Content
  <1>2. k.f \in Filter /\ k.from \in Filter /\ k.keys \in Seq(Key) BY DEF Launched
  <1>3. Gain(m, k) \subseteq E BY GainOfKeys
  <1> HIDE DEF E
  <1>4. Contents(m, k, s.content) \subseteq E BY <1>1, <1>2, <1>3 DEF Contents
  <1>5. Zeroed(k, s.zero) \in BOOLEAN BY <1>1, <1>2 DEF Zeroed
  <1> DEFINE c == [s.content EXCEPT ![k.f] = Contents(m, k, s.content)]
             z == [s.zero EXCEPT ![k.f] = Zeroed(k, s.zero)]
             o == IF k.op \in RouteKinds THEN {k} ELSE {}
  <1>6. /\ c \in [Filter -> SUBSET E] /\ c[k.f] = Contents(m, k, s.content)
        /\ \A g \in Filter : g # k.f => c[g] = s.content[g]
    BY <1>1, <1>2, <1>4
  <1>7. /\ z \in [Filter -> BOOLEAN] /\ z[k.f] = Zeroed(k, s.zero)
        /\ \A g \in Filter : g # k.f => z[g] = s.zero[g]
    BY <1>1, <1>2, <1>5
  <1>8. o \subseteq Launched OBVIOUS
  <1>9. Executed(m, k, s) = [content |-> c, owed |-> o, zero |-> z] BY DEF Executed
  <1> HIDE DEF c, z, o
  <1>10. Executed(m, k, s) \in State(m) BY <1>6, <1>7, <1>8, <1>9 DEF State, Content, E
  <1> QED BY <1>6, <1>7, <1>9, <1>10

\* An empty stream changes nothing.
LEMMA LeadsNowhere ==
    ASSUME NEW m, NEW s
    PROVE  /\ s \in State(m) => Leads(m, s, <<>>, s)
           /\ \A e : Leads(m, s, <<>>, e) => e = s
  <1>1. Len(<<>>) = 0 /\ 1..0 = {} OBVIOUS
  <1>2. ASSUME s \in State(m) PROVE Leads(m, s, <<>>, s)
    <2> DEFINE w == [i \in 0..0 |-> s]
    <2>1. w \in [0..0 -> State(m)] /\ w[0] = s BY <1>2
    <2> HIDE DEF w
    <2> QED BY <1>1, <2>1 DEF Leads
  <1>3. ASSUME NEW e, Leads(m, s, <<>>, e) PROVE e = s BY <1>1, <1>3 DEF Leads
  <1> QED BY <1>2, <1>3

\* One kernel.
LEMMA LeadsOn ==
    ASSUME NEW m, NEW k \in Launched, NEW s \in State(m), Ready(m, k, s)
    PROVE  Leads(m, s, <<k>>, Executed(m, k, s))
  <1> DEFINE w == [i \in 0..1 |-> IF i = 0 THEN s ELSE Executed(m, k, s)]
  <1>1. w \in [0..1 -> State(m)] /\ w[0] = s /\ w[1] = Executed(m, k, s)
    <2>1. Executed(m, k, s) \in State(m) BY ExecutedIsState
    <2> QED BY <2>1
  <1>2. Len(<<k>>) = 1 /\ <<k>>[1] = k /\ 1..1 = {1} /\ 1 - 1 = 0 OBVIOUS
  <1> HIDE DEF w
  <1>3. \A i \in 1..1 : Ready(m, <<k>>[i], w[i - 1]) /\ w[i] = Executed(m, <<k>>[i], w[i - 1])
    BY <1>1, <1>2
  <1> QED BY <1>1, <1>2, <1>3 DEF Leads

\* The states at the ends.
LEMMA LeadsBetween ==
    ASSUME NEW m, NEW q \in Seq(Launched), NEW s, NEW e, Leads(m, s, q, e)
    PROVE  s \in State(m) /\ e \in State(m)
  <1>1. PICK w \in [0..Len(q) -> State(m)] : w[0] = s /\ w[Len(q)] = e BY DEF Leads
  <1>2. 0 \in 0..Len(q) /\ Len(q) \in 0..Len(q) OBVIOUS
  <1> QED BY <1>1, <1>2

\* The first kernel of a stream.
LEMMA LeadsFirst ==
    ASSUME NEW m, NEW q \in Seq(Launched), q # <<>>, NEW s, NEW e, Leads(m, s, q, e)
    PROVE  Ready(m, Head(q), s) /\ Leads(m, Executed(m, Head(q), s), Tail(q), e)
  <1> DEFINE n == Len(q) - 1
  <1>1. PICK w \in [0..Len(q) -> State(m)] :
           /\ w[0] = s /\ w[Len(q)] = e
           /\ \A i \in 1..Len(q) :
                Ready(m, q[i], w[i - 1]) /\ w[i] = Executed(m, q[i], w[i - 1])
    BY DEF Leads
  <1>2. Len(q) \in Nat \ {0} /\ Head(q) = q[1] OBVIOUS
  <1>3. n \in Nat /\ Len(q) = n + 1 /\ Len(Tail(q)) = n /\ \A i \in 1..n : Tail(q)[i] = q[i + 1]
    BY <1>2
  <1> HIDE DEF n
  <1>4. 1 \in 1..Len(q) /\ 1 - 1 = 0 BY <1>2
  <1>5. Ready(m, q[1], w[0]) /\ w[1] = Executed(m, q[1], w[0]) BY <1>1, <1>4
  <1> DEFINE v == [i \in 0..n |-> w[i + 1]]
  <1>6. v \in [0..n -> State(m)] /\ v[0] = w[1] /\ v[n] = w[n + 1] BY <1>1, <1>3
  <1>7. ASSUME NEW i \in 1..n
        PROVE  Ready(m, Tail(q)[i], v[i - 1]) /\ v[i] = Executed(m, Tail(q)[i], v[i - 1])
    <2>1. i + 1 \in 1..Len(q) /\ (i + 1) - 1 = i BY <1>3
    <2>2. v[i] = w[i + 1] /\ v[i - 1] = w[i] BY <1>3
    <2> QED BY <1>1, <1>3, <2>1, <2>2
  <1> HIDE DEF v
  <1>8. Leads(m, w[1], Tail(q), e) BY <1>1, <1>3, <1>6, <1>7 DEF Leads
  <1> QED BY <1>1, <1>2, <1>5, <1>8

\* One stream after another.
LEMMA LeadsBoth ==
    ASSUME NEW m, NEW p \in Seq(Launched), NEW q \in Seq(Launched), NEW s, NEW d, NEW e,
           Leads(m, s, p, d), Leads(m, d, q, e)
    PROVE  Leads(m, s, p \o q, e)
  <1> DEFINE a == Len(p)
             b == Len(q)
             r == p \o q
  <1>1. a \in Nat /\ b \in Nat /\ Len(r) = a + b /\ \A i \in 1..(a + b) :
            r[i] = IF i <= a THEN p[i] ELSE q[i - a]
    OBVIOUS
  <1>2. PICK w \in [0..a -> State(m)] :
           /\ w[0] = s /\ w[a] = d
           /\ \A i \in 1..a : Ready(m, p[i], w[i - 1]) /\ w[i] = Executed(m, p[i], w[i - 1])
    BY DEF Leads
  <1>3. PICK v \in [0..b -> State(m)] :
           /\ v[0] = d /\ v[b] = e
           /\ \A i \in 1..b : Ready(m, q[i], v[i - 1]) /\ v[i] = Executed(m, q[i], v[i - 1])
    BY DEF Leads
  <1> HIDE DEF a, b, r
  <1> DEFINE x == [i \in 0..(a + b) |-> IF i <= a THEN w[i] ELSE v[i - a]]
  <1>4. /\ \A i \in 0..a : i \in 0..(a + b) /\ x[i] = w[i]
        /\ \A i \in a..(a + b) : i \in 0..(a + b) /\ i - a \in 0..b /\ x[i] = v[i - a]
    <2>1. \A i \in 0..(a + b) : x[i] = IF i <= a THEN w[i] ELSE v[i - a] OBVIOUS
    <2>2. a - a = 0 /\ w[a] = v[0] BY <1>1, <1>2, <1>3
    <2> HIDE DEF x
    <2>3. \A i \in 0..a : i \in 0..(a + b) /\ x[i] = w[i] BY <1>1, <2>1
    <2>4. ASSUME NEW i \in a..(a + b)
          PROVE  i \in 0..(a + b) /\ i - a \in 0..b /\ x[i] = v[i - a]
      <3>1. i \in 0..(a + b) /\ i - a \in 0..b BY <1>1
      <3>2. CASE i = a BY <2>1, <2>2, <3>1, <3>2
      <3>3. CASE i # a
        <4>1. ~(i <= a) BY <1>1, <3>3
        <4> QED BY <2>1, <3>1, <4>1
      <3> QED BY <3>1, <3>2, <3>3
    <2> QED BY <2>3, <2>4
  <1>5. x \in [0..(a + b) -> State(m)]
    <2> SUFFICES \A i \in 0..(a + b) : (IF i <= a THEN w[i] ELSE v[i - a]) \in State(m) OBVIOUS
    <2> TAKE i \in 0..(a + b)
    <2>1. (i <= a => i \in 0..a) /\ (~(i <= a) => i - a \in 0..b) BY <1>1
    <2> QED BY <1>2, <1>3, <2>1
  <1> HIDE DEF x
  <1>6. x[0] = s /\ x[a + b] = e
    <2>1. 0 \in 0..a /\ a + b \in a..(a + b) /\ (a + b) - a = b BY <1>1
    <2> QED BY <1>2, <1>3, <1>4, <2>1
  <1>7. ASSUME NEW i \in 1..(a + b)
        PROVE  Ready(m, r[i], x[i - 1]) /\ x[i] = Executed(m, r[i], x[i - 1])
    <2>1. CASE i <= a
      <3>1. i \in 1..a /\ i \in 0..a /\ i - 1 \in 0..a BY <1>1, <2>1
      <3>2. r[i] = p[i] /\ x[i] = w[i] /\ x[i - 1] = w[i - 1] BY <1>1, <1>4, <2>1, <3>1
      <3> QED BY <1>2, <3>1, <3>2
    <2>2. CASE ~(i <= a)
      <3> DEFINE j == i - a
      <3>1. j \in 1..b /\ i \in a..(a + b) /\ i - 1 \in a..(a + b) /\ (i - 1) - a = j - 1
        BY <1>1, <2>2
      <3>2. r[i] = q[j] /\ x[i] = v[j] BY <1>1, <1>4, <2>2, <3>1
      <3>3. x[i - 1] = v[j - 1] BY <1>4, <3>1
      <3> HIDE DEF j
      <3> QED BY <1>3, <3>1, <3>2, <3>3
    <2> QED BY <2>1, <2>2
  <1> QED BY <1>1, <1>5, <1>6, <1>7 DEF Leads, r

--------------------------------------------------------------------------------
(* The threads of a batch, ts, and the elements of the batch, S, each of which *)
(* is own[i]'s.                                                               *)

Deals(ts, S, own) ==
    \A t \in DOMAIN ts :
        /\ ts[t].todo \cup DOMAIN ts[t].held \subseteq {i \in S : own[i] = t}
        /\ ts[t].held \in [DOMAIN ts[t].held -> Nat]
Todo(ts, S, own) == {i \in S : i \in ts[own[i]].todo}
Held(ts, S, own) == {i \in S : i \in DOMAIN ts[own[i]].held}
Tickets(ts, S, own) ==
    [i \in S |-> IF i \in DOMAIN ts[own[i]].held THEN ts[own[i]].held[i] ELSE 0]

\* The same threads, t aside.
Alike(ts, us, t) ==
    /\ DOMAIN us = DOMAIN ts
    /\ \A u \in DOMAIN ts : u # t => us[u].todo = ts[u].todo /\ us[u].held = ts[u].held

\* The books of a route.  T are the elements without a ticket, H those with one
\* (tk) that has not been used; cell[i] is where element i belongs, count[c] how
\* many tickets have been given out there and cap for how many there is room; put
\* are the places that hold an element's hash; and sunk are the elements whose
\* bits are in the filter.
Books(S, Cells, T, H, tk, cell, count, cap, put, sunk) ==
    /\ T \subseteq S /\ H \subseteq S /\ T \cap H = {}
    /\ tk \in [S -> Nat] /\ cell \in [S -> Cells] /\ count \in [Cells -> Nat]
    /\ \A i \in H : IF tk[i] < cap THEN tk[i] < count[cell[i]] ELSE count[cell[i]] > cap
    /\ \A i, j \in H : cell[i] = cell[j] /\ tk[i] = tk[j] /\ tk[i] < cap => i = j
    /\ \A c \in Cells : \A s \in 0..(cap - 1) : s < count[c] =>
        \E i \in S : cell[i] = c /\ ((i \in H /\ tk[i] = s) \/ <<c, s, i>> \in put)
    /\ \A i \in S :
        \/ i \in T \/ i \in H \/ i \in sunk
        \/ \E s \in 0..(cap - 1) :
            /\ s < count[cell[i]] /\ <<cell[i], s, i>> \in put
            /\ \A j \in H : cell[j] = cell[i] => tk[j] # s

\* The books when they are closed.
Kept(S, Cells, cell, count, cap, put, sunk) ==
    /\ cell \in [S -> Cells] /\ count \in [Cells -> Nat]
    /\ \A c \in Cells : \A s \in 0..(cap - 1) : s < count[c] =>
        \E i \in S : cell[i] = c /\ <<c, s, i>> \in put
    /\ \A i \in S :
        i \in sunk \/ \E s \in 0..(cap - 1) : s < count[cell[i]] /\ <<cell[i], s, i>> \in put

\* Books with nothing in them.
LEMMA BooksOpen ==
    ASSUME NEW S, NEW Cells, NEW tk \in [S -> Nat], NEW cell \in [S -> Cells],
           NEW count \in [Cells -> Nat], \A c \in Cells : count[c] = 0, NEW cap \in Nat,
           NEW put, NEW sunk
    PROVE  Books(S, Cells, S, {}, tk, cell, count, cap, put, sunk)
  BY DEF Books

\* One more of a count.
Counted(count, c) == [count EXCEPT ![c] = @ + 1]

\* A ticket is taken: the next one, or for want of room one that says so.
LEMMA TicketTaken ==
    ASSUME NEW S, NEW Cells, NEW T, NEW H, NEW tk, NEW cell, NEW count, NEW cap \in Nat,
           NEW put, NEW sunk, Books(S, Cells, T, H, tk, cell, count, cap, put, sunk),
           NEW i \in T, NEW tl \in [S -> Nat], NEW tally,
           \A j \in H : tl[j] = tk[j],
           \/ tl[i] = count[cell[i]] /\ tally = Counted(count, cell[i])
           \/ tl[i] >= cap /\ count[cell[i]] > cap /\ tally = count
    PROVE  Books(S, Cells, T \ {i}, H \cup {i}, tl, cell, tally, cap, put, sunk)
  <1>1. /\ T \subseteq S /\ H \subseteq S /\ T \cap H = {}
        /\ tk \in [S -> Nat] /\ cell \in [S -> Cells] /\ count \in [Cells -> Nat]
        /\ \A j \in H : IF tk[j] < cap THEN tk[j] < count[cell[j]] ELSE count[cell[j]] > cap
        /\ \A j, l \in H : cell[j] = cell[l] /\ tk[j] = tk[l] /\ tk[j] < cap => j = l
        /\ \A c \in Cells : \A s \in 0..(cap - 1) : s < count[c] =>
            \E j \in S : cell[j] = c /\ ((j \in H /\ tk[j] = s) \/ <<c, s, j>> \in put)
        /\ \A j \in S :
            \/ j \in T \/ j \in H \/ j \in sunk
            \/ \E s \in 0..(cap - 1) :
                /\ s < count[cell[j]] /\ <<cell[j], s, j>> \in put
                /\ \A l \in H : cell[l] = cell[j] => tk[l] # s
    BY DEF Books
  <1> DEFINE I == H \cup {i}
             ci == cell[i]
  <1>2. i \in S /\ i \notin H /\ ci \in Cells /\ I \subseteq S /\ count[ci] \in Nat BY <1>1
  <1>3. /\ tally \in [Cells -> Nat] /\ \A c \in Cells : c # ci => tally[c] = count[c]
        /\ \/ tl[i] = count[ci] /\ tally[ci] = count[ci] + 1
           \/ tl[i] >= cap /\ count[ci] > cap /\ tally[ci] = count[ci]
    BY <1>1, <1>2 DEF Counted
  <1>4. \A c \in Cells : tally[c] \in Nat /\ count[c] \in Nat /\ tally[c] >= count[c] BY <1>1, <1>3
  <1>5. \A j \in I : tl[j] \in Nat /\ cell[j] \in Cells BY <1>1, <1>2
  <1>6. \A j \in I : IF tl[j] < cap THEN tl[j] < tally[cell[j]] ELSE tally[cell[j]] > cap
    <2> TAKE j \in I
    <2>1. CASE j = i BY <1>2, <1>3, <1>5, <2>1
    <2>2. CASE j \in H
      <3>1. tl[j] = tk[j] /\ tally[cell[j]] >= count[cell[j]] BY <1>4, <1>5, <2>2
      <3> QED BY <1>1, <1>4, <1>5, <2>2, <3>1
    <2> QED BY <2>1, <2>2
  <1>7. \A j, l \in I : cell[j] = cell[l] /\ tl[j] = tl[l] /\ tl[j] < cap => j = l
    <2>1. ASSUME NEW j \in H, cell[j] = ci, tl[j] = tl[i], tl[j] < cap PROVE FALSE
      <3>1. tk[j] < count[ci] /\ tl[j] = tk[j] BY <1>1, <2>1
      <3>2. tl[i] = count[ci] BY <1>3, <1>5, <2>1
      <3> QED BY <1>1, <1>2, <2>1, <3>1, <3>2
    <2>2. \A j, l \in H : cell[j] = cell[l] /\ tl[j] = tl[l] /\ tl[j] < cap => j = l BY <1>1
    <2> QED BY <2>1, <2>2
  <1>8. ASSUME NEW c \in Cells, NEW s \in 0..(cap - 1), s < tally[c]
        PROVE  \E j \in S : cell[j] = c /\ ((j \in I /\ tl[j] = s) \/ <<c, s, j>> \in put)
    <2>1. CASE s < count[c]
      <3>1. PICK j \in S : cell[j] = c /\ ((j \in H /\ tk[j] = s) \/ <<c, s, j>> \in put)
        BY <1>1, <2>1
      <3> QED BY <3>1
    <2>2. CASE ~(s < count[c])
      <3>1. c = ci /\ tl[i] = s BY <1>3, <1>4, <1>8, <2>2
      <3> QED BY <1>2, <3>1
    <2> QED BY <2>1, <2>2
  <1>9. ASSUME NEW j \in S
        PROVE  \/ j \in T \ {i} \/ j \in I \/ j \in sunk
               \/ \E s \in 0..(cap - 1) :
                    /\ s < tally[cell[j]] /\ <<cell[j], s, j>> \in put
                    /\ \A l \in I : cell[l] = cell[j] => tl[l] # s
    <2>1. CASE j \in T \/ j \in H \/ j \in sunk BY <2>1
    <2>2. CASE \E s \in 0..(cap - 1) :
                    /\ s < count[cell[j]] /\ <<cell[j], s, j>> \in put
                    /\ \A l \in H : cell[l] = cell[j] => tk[l] # s
      <3>1. PICK s \in 0..(cap - 1) :
                    /\ s < count[cell[j]] /\ <<cell[j], s, j>> \in put
                    /\ \A l \in H : cell[l] = cell[j] => tk[l] # s
        BY <2>2
      <3>2. cell[j] \in Cells /\ s \in Nat /\ s < cap BY <1>1, <3>1
      <3>3. s < tally[cell[j]] BY <1>4, <3>1, <3>2
      <3>4. cell[i] = cell[j] => tl[i] # s BY <1>3, <1>4, <3>1, <3>2
      <3> QED BY <3>1, <3>3, <3>4
    <2> QED BY <1>1, <2>1, <2>2
  <1> HIDE DEF ci
  <1> QED BY <1>1, <1>2, <1>3, <1>6, <1>7, <1>8, <1>9 DEF Books

\* A ticket is used: the hash is put where the ticket says, or the filter has its bits.
LEMMA TicketUsed ==
    ASSUME NEW S, NEW Cells, NEW T, NEW H, NEW tk, NEW cell, NEW count, NEW cap \in Nat,
           NEW put, NEW sunk, Books(S, Cells, T, H, tk, cell, count, cap, put, sunk),
           NEW i \in H, NEW tl \in [S -> Nat], \A j \in H \ {i} : tl[j] = tk[j],
           NEW pos, NEW deep, sunk \subseteq deep,
           tk[i] < cap => <<cell[i], tk[i], i>> \in pos,
           tk[i] >= cap => i \in deep,
           \A c \in Cells : \A s \in 0..(cap - 1) : \A j \in S :
               <<c, s, j>> \in put /\ ~(c = cell[i] /\ s = tk[i]) => <<c, s, j>> \in pos
    PROVE  Books(S, Cells, T, H \ {i}, tl, cell, count, cap, pos, deep)
  <1>1. /\ T \subseteq S /\ H \subseteq S /\ T \cap H = {}
        /\ tk \in [S -> Nat] /\ cell \in [S -> Cells] /\ count \in [Cells -> Nat]
        /\ \A j \in H : IF tk[j] < cap THEN tk[j] < count[cell[j]] ELSE count[cell[j]] > cap
        /\ \A j, l \in H : cell[j] = cell[l] /\ tk[j] = tk[l] /\ tk[j] < cap => j = l
        /\ \A c \in Cells : \A s \in 0..(cap - 1) : s < count[c] =>
            \E j \in S : cell[j] = c /\ ((j \in H /\ tk[j] = s) \/ <<c, s, j>> \in put)
        /\ \A j \in S :
            \/ j \in T \/ j \in H \/ j \in sunk
            \/ \E s \in 0..(cap - 1) :
                /\ s < count[cell[j]] /\ <<cell[j], s, j>> \in put
                /\ \A l \in H : cell[l] = cell[j] => tk[l] # s
    BY DEF Books
  <1> DEFINE I == H \ {i}
  <1>2. i \in S /\ cell[i] \in Cells /\ tk[i] \in Nat /\ I \subseteq H BY <1>1
  <1>3. /\ \A j \in I : IF tl[j] < cap THEN tl[j] < count[cell[j]] ELSE count[cell[j]] > cap
        /\ \A j, l \in I : cell[j] = cell[l] /\ tl[j] = tl[l] /\ tl[j] < cap => j = l
    BY <1>1
  <1>4. ASSUME NEW c \in Cells, NEW s \in 0..(cap - 1), s < count[c]
        PROVE  \E j \in S : cell[j] = c /\ ((j \in I /\ tl[j] = s) \/ <<c, s, j>> \in pos)
    <2>1. PICK j \in S : cell[j] = c /\ ((j \in H /\ tk[j] = s) \/ <<c, s, j>> \in put)
      BY <1>1, <1>4
    <2>2. CASE c = cell[i] /\ s = tk[i]
      <3>1. s < cap OBVIOUS
      <3> QED BY <1>2, <2>2, <3>1
    <2>3. CASE ~(c = cell[i] /\ s = tk[i])
      <3>1. CASE j \in H /\ tk[j] = s
        <4>1. j \in I /\ tl[j] = s BY <2>1, <2>3, <3>1
        <4> QED BY <2>1, <4>1
      <3>2. CASE <<c, s, j>> \in put BY <2>1, <2>3, <3>2
      <3> QED BY <2>1, <3>1, <3>2
    <2> QED BY <2>2, <2>3
  <1>5. ASSUME NEW j \in S
        PROVE  \/ j \in T \/ j \in I \/ j \in deep
               \/ \E s \in 0..(cap - 1) :
                    /\ s < count[cell[j]] /\ <<cell[j], s, j>> \in pos
                    /\ \A l \in I : cell[l] = cell[j] => tl[l] # s
    <2>1. CASE j = i
      <3>1. CASE tk[i] < cap
        <4>1. tk[i] \in 0..(cap - 1) /\ tk[i] < count[cell[i]] BY <1>1, <1>2, <3>1
        <4>2. \A l \in I : cell[l] = cell[i] => tl[l] # tk[i] BY <1>1, <3>1
        <4> QED BY <2>1, <3>1, <4>1, <4>2
      <3>2. CASE ~(tk[i] < cap) BY <1>2, <2>1, <3>2
      <3> QED BY <3>1, <3>2
    <2>2. CASE j # i /\ (j \in T \/ j \in H \/ j \in sunk) BY <2>2
    <2>3. CASE \E s \in 0..(cap - 1) :
                    /\ s < count[cell[j]] /\ <<cell[j], s, j>> \in put
                    /\ \A l \in H : cell[l] = cell[j] => tk[l] # s
      <3>1. PICK s \in 0..(cap - 1) :
                    /\ s < count[cell[j]] /\ <<cell[j], s, j>> \in put
                    /\ \A l \in H : cell[l] = cell[j] => tk[l] # s
        BY <2>3
      <3>2. cell[j] \in Cells /\ ~(cell[j] = cell[i] /\ s = tk[i]) BY <1>1, <3>1
      <3>3. <<cell[j], s, j>> \in pos BY <3>1, <3>2
      <3>4. \A l \in I : cell[l] = cell[j] => tl[l] # s BY <3>1
      <3> QED BY <3>1, <3>3, <3>4
    <2> QED BY <1>1, <2>1, <2>2, <2>3
  <1> QED BY <1>1, <1>3, <1>4, <1>5 DEF Books

\* Every ticket has been used.
LEMMA BooksClosed ==
    ASSUME NEW S, NEW Cells, NEW tk, NEW cell, NEW count, NEW cap, NEW put, NEW sunk,
           Books(S, Cells, {}, {}, tk, cell, count, cap, put, sunk)
    PROVE  Kept(S, Cells, cell, count, cap, put, sunk)
  BY DEF Books, Kept

\* A set of numbers that is not empty holds its least.
LEMMA LeastIn ==
    ASSUME NEW E \in SUBSET Nat, E # {}
    PROVE  Min(E) \in E /\ \A x \in E : Min(E) <= x
  <1>1. \E x \in E : \A y \in E : x <= y BY LeastNatural
  <1> QED BY <1>1 DEF Min

\* Threads that there are.
LEMMA SomeThread ==
    ASSUME NEW ts, NEW t \in DOMAIN ts
    PROVE  ts # <<>>
  <1>1. DOMAIN <<>> = {} OBVIOUS
  <1> QED BY <1>1

\* Threads that are dealt their elements.
LEMMA Dealt ==
    ASSUME NEW D, NEW S, NEW own \in [S -> D], NEW ts, DOMAIN ts = D,
           \A t \in D : ts[t].held = <<>> /\ \A i : i \in ts[t].todo <=> i \in S /\ own[i] = t
    PROVE  /\ Deals(ts, S, own)
           /\ Todo(ts, S, own) = S /\ Held(ts, S, own) = {} /\ Tickets(ts, S, own) \in [S -> Nat]
  <1>1. DOMAIN <<>> = {} /\ <<>> \in [{} -> Nat] OBVIOUS
  <1>2. Deals(ts, S, own)
    <2> SUFFICES ASSUME NEW t \in D
                 PROVE  /\ ts[t].todo \cup DOMAIN ts[t].held \subseteq {i \in S : own[i] = t}
                        /\ ts[t].held \in [DOMAIN ts[t].held -> Nat]
      BY DEF Deals
    <2>1. ts[t].held = <<>> /\ DOMAIN ts[t].held = {} BY <1>1
    <2>2. ts[t].held \in [DOMAIN ts[t].held -> Nat] BY <1>1, <2>1
    <2> QED BY <2>1, <2>2
  <1>3. Todo(ts, S, own) = S /\ Held(ts, S, own) = {} BY <1>1 DEF Todo, Held
  <1>4. Tickets(ts, S, own) \in [S -> Nat] BY <1>1 DEF Tickets
  <1> QED BY <1>2, <1>3, <1>4

\* Tickets are numbers.
LEMMA TicketsTyped ==
    ASSUME NEW ts, NEW S, NEW own \in [S -> DOMAIN ts], Deals(ts, S, own)
    PROVE  Tickets(ts, S, own) \in [S -> Nat]
  <1>1. ASSUME NEW i \in S, i \in DOMAIN ts[own[i]].held PROVE ts[own[i]].held[i] \in Nat
    BY <1>1 DEF Deals
  <1> QED BY <1>1 DEF Tickets

\* A thread takes a ticket for an element.
LEMMA ElementTaken ==
    ASSUME NEW ts, NEW S, NEW own \in [S -> DOMAIN ts], Deals(ts, S, own),
           NEW t \in DOMAIN ts, NEW i \in ts[t].todo, NEW us, Alike(ts, us, t), NEW x \in Nat,
           us[t].todo = ts[t].todo \ {i}, us[t].held = With(ts[t].held, i, x)
    PROVE  /\ DOMAIN us = DOMAIN ts /\ Deals(us, S, own)
           /\ i \in Todo(ts, S, own) /\ own[i] = t
           /\ Todo(us, S, own) = Todo(ts, S, own) \ {i}
           /\ Held(us, S, own) = Held(ts, S, own) \cup {i}
           /\ Tickets(us, S, own) \in [S -> Nat] /\ Tickets(us, S, own)[i] = x
           /\ \A j \in S : j # i => Tickets(us, S, own)[j] = Tickets(ts, S, own)[j]
  <1>1. DOMAIN us = DOMAIN ts
        /\ \A u \in DOMAIN ts : u # t => us[u].todo = ts[u].todo /\ us[u].held = ts[u].held
    BY DEF Alike
  <1>2. \A u \in DOMAIN ts :
          /\ ts[u].todo \cup DOMAIN ts[u].held \subseteq {j \in S : own[j] = u}
          /\ ts[u].held \in [DOMAIN ts[u].held -> Nat]
    BY DEF Deals
  <1>3. i \in S /\ own[i] = t BY <1>2
  <1>4. /\ DOMAIN us[t].held = DOMAIN ts[t].held \cup {i} /\ us[t].held[i] = x
        /\ \A j \in DOMAIN ts[t].held : j # i => us[t].held[j] = ts[t].held[j]
    BY DEF With
  <1>5. us[t].held \in [DOMAIN us[t].held -> Nat] BY <1>2 DEF With
  <1>6. Deals(us, S, own)
    <2> SUFFICES ASSUME NEW u \in DOMAIN us
                 PROVE  /\ us[u].todo \cup DOMAIN us[u].held \subseteq {j \in S : own[j] = u}
                        /\ us[u].held \in [DOMAIN us[u].held -> Nat]
      BY DEF Deals
    <2>1. CASE u = t BY <1>2, <1>3, <1>4, <1>5, <2>1
    <2>2. CASE u # t BY <1>1, <1>2, <2>2
    <2> QED BY <2>1, <2>2
  <1>7. /\ i \in Todo(ts, S, own)
        /\ Todo(us, S, own) = Todo(ts, S, own) \ {i}
        /\ Held(us, S, own) = Held(ts, S, own) \cup {i}
    BY <1>1, <1>3, <1>4 DEF Todo, Held
  <1>8. Tickets(us, S, own) \in [S -> Nat] BY <1>1, <1>6, TicketsTyped
  <1>9. Tickets(us, S, own)[i] = x BY <1>3, <1>4 DEF Tickets
  <1>10. ASSUME NEW j \in S, j # i PROVE Tickets(us, S, own)[j] = Tickets(ts, S, own)[j]
    <2>1. j \in DOMAIN us[own[j]].held <=> j \in DOMAIN ts[own[j]].held BY <1>1, <1>4, <1>10
    <2>2. j \in DOMAIN ts[own[j]].held => us[own[j]].held[j] = ts[own[j]].held[j]
      BY <1>1, <1>4, <1>10
    <2> QED BY <2>1, <2>2 DEF Tickets
  <1> QED BY <1>1, <1>3, <1>6, <1>7, <1>8, <1>9, <1>10

\* A thread uses the ticket of an element.
LEMMA ElementUsed ==
    ASSUME NEW ts, NEW S, NEW own \in [S -> DOMAIN ts], Deals(ts, S, own),
           NEW t \in DOMAIN ts, NEW i \in DOMAIN ts[t].held, NEW us, Alike(ts, us, t),
           us[t].todo = ts[t].todo, us[t].held = Without(ts[t].held, i)
    PROVE  /\ DOMAIN us = DOMAIN ts /\ Deals(us, S, own)
           /\ i \in Held(ts, S, own) /\ own[i] = t
           /\ Tickets(ts, S, own)[i] = ts[t].held[i]
           /\ Todo(us, S, own) = Todo(ts, S, own)
           /\ Held(us, S, own) = Held(ts, S, own) \ {i}
           /\ Tickets(us, S, own) \in [S -> Nat]
           /\ \A j \in S : j # i => Tickets(us, S, own)[j] = Tickets(ts, S, own)[j]
  <1>1. DOMAIN us = DOMAIN ts
        /\ \A u \in DOMAIN ts : u # t => us[u].todo = ts[u].todo /\ us[u].held = ts[u].held
    BY DEF Alike
  <1>2. \A u \in DOMAIN ts :
          /\ ts[u].todo \cup DOMAIN ts[u].held \subseteq {j \in S : own[j] = u}
          /\ ts[u].held \in [DOMAIN ts[u].held -> Nat]
    BY DEF Deals
  <1>3. i \in S /\ own[i] = t BY <1>2
  <1>4. /\ DOMAIN us[t].held = DOMAIN ts[t].held \ {i}
        /\ \A j \in DOMAIN ts[t].held : j # i => us[t].held[j] = ts[t].held[j]
    BY DEF Without
  <1>5. us[t].held \in [DOMAIN us[t].held -> Nat] BY <1>2 DEF Without
  <1>6. Deals(us, S, own)
    <2> SUFFICES ASSUME NEW u \in DOMAIN us
                 PROVE  /\ us[u].todo \cup DOMAIN us[u].held \subseteq {j \in S : own[j] = u}
                        /\ us[u].held \in [DOMAIN us[u].held -> Nat]
      BY DEF Deals
    <2>1. CASE u = t BY <1>2, <1>3, <1>4, <1>5, <2>1
    <2>2. CASE u # t BY <1>1, <1>2, <2>2
    <2> QED BY <2>1, <2>2
  <1>7. /\ i \in Held(ts, S, own)
        /\ Todo(us, S, own) = Todo(ts, S, own)
        /\ Held(us, S, own) = Held(ts, S, own) \ {i}
    BY <1>1, <1>3, <1>4 DEF Todo, Held
  <1>8. Tickets(us, S, own) \in [S -> Nat] BY <1>1, <1>6, TicketsTyped
  <1>9. Tickets(ts, S, own)[i] = ts[t].held[i] BY <1>3 DEF Tickets
  <1>10. ASSUME NEW j \in S, j # i PROVE Tickets(us, S, own)[j] = Tickets(ts, S, own)[j]
    <2>1. j \in DOMAIN us[own[j]].held <=> j \in DOMAIN ts[own[j]].held BY <1>1, <1>4, <1>10
    <2>2. j \in DOMAIN us[own[j]].held => us[own[j]].held[j] = ts[own[j]].held[j]
      BY <1>1, <1>4, <1>10
    <2> QED BY <2>1, <2>2 DEF Tickets
  <1> QED BY <1>1, <1>3, <1>6, <1>7, <1>8, <1>9, <1>10

\* Nothing is left to do.
LEMMA AllDone ==
    ASSUME NEW ts, NEW S, NEW own \in [S -> DOMAIN ts],
           \A t \in DOMAIN ts : ts[t].todo = {} /\ DOMAIN ts[t].held = {}
    PROVE  Todo(ts, S, own) = {} /\ Held(ts, S, own) = {}
  BY DEF Todo, Held

\* A step that only looks.
LEMMA SameElements ==
    ASSUME NEW ts, NEW S, NEW own \in [S -> DOMAIN ts], Deals(ts, S, own),
           NEW us, DOMAIN us = DOMAIN ts,
           \A t \in DOMAIN ts : us[t].todo = ts[t].todo /\ us[t].held = ts[t].held
    PROVE  /\ Deals(us, S, own)
           /\ Todo(us, S, own) = Todo(ts, S, own) /\ Held(us, S, own) = Held(ts, S, own)
           /\ Tickets(us, S, own) = Tickets(ts, S, own)
  BY DEF Deals, Todo, Held, Tickets

--------------------------------------------------------------------------------
(* How far the kernel at the head of the stream is.  was is what the filters  *)
(* held when it began.                                                        *)

\* A kernel that has not begun.
Fresh(was) == threads = <<>> /\ local = <<>> /\ bits = was

\* The bits of the batch that have been written, and why a block was written to
\* before its time.
Between(m, k, was, now, over) ==
    /\ now \in Content(m) /\ \A g \in Filter : g # k.f => now[g] = was[g]
    /\ was[k.f] \subseteq now[k.f] /\ now[k.f] \subseteq was[k.f] \cup Gain(m, k)
    /\ \A p \in now[k.f] : p \in was[k.f] \/ p[1] \in over
Sunk(m, k, now) == {i \in Chosen(k) : m[k.keys[i]] \subseteq now[k.f]}

\* An add without a workspace: each element is still to come or in the filter, the
\* words of the one that a thread is at as far as it has got.
AddTold(m, k, ts, own, now) ==
    /\ Deals(ts, Chosen(k), own)
    /\ \A i \in Chosen(k) : i \in Todo(ts, Chosen(k), own) \/ i \in Sunk(m, k, now)
    /\ \A t \in DOMAIN ts :
        /\ ts[t].word \in Word /\ DOMAIN ts[t].held = {}
        /\ ts[t].todo # {} =>
            \A p \in m[k.keys[Min(ts[t].todo)]] : p[2] < ts[t].word => p \in now[k.f]
AddGoing(m, k, was) ==
    /\ threads # <<>> /\ local = <<>> /\ Between(m, k, was, bits, Block)
    /\ \E own \in [Chosen(k) -> DOMAIN threads] : AddTold(m, k, threads, own, bits)

\* Route, by block.
BlockOf(k) == [i \in Chosen(k) |-> BlockIndex(UpperHash(k.keys[i]))]
RoutedPut(k, rows, cap) ==
    {x \in Block \X (0..(cap - 1)) \X Chosen(k) : rows[x[1]][x[2]] = LowerHash(k.keys[x[3]])}
FullBlocks(k) == {b \in Block : counters[k.f][b] > host[k.f].slots}
RouteGoing(m, k, was) ==
    /\ threads # <<>> /\ local = <<>> /\ Between(m, k, was, bits, FullBlocks(k))
    /\ \E own \in [Chosen(k) -> DOMAIN threads] :
        /\ Deals(threads, Chosen(k), own)
        /\ Books(Chosen(k), Block, Todo(threads, Chosen(k), own), Held(threads, Chosen(k), own),
                 Tickets(threads, Chosen(k), own), BlockOf(k), counters[k.f], host[k.f].slots,
                 RoutedPut(k, slots[k.f], host[k.f].slots), Sunk(m, k, bits))
RouteDone(m, k, was) ==
    /\ threads = <<>> /\ local = <<>> /\ Between(m, k, was, bits, FullBlocks(k))
    /\ Kept(Chosen(k), Block, BlockOf(k), counters[k.f], host[k.f].slots,
            RoutedPut(k, slots[k.f], host[k.f].slots), Sunk(m, k, bits))

\* Private route, by bucket and core.
Segments(n) == Bucket \X (0..(n - 1))
PrivatePut(k, file, D) ==
    {x \in D \X (0..(SegmentRecords - 1)) \X Chosen(k) :
        LET place == <<x[1][1], x[1][2], x[2]>> IN
        place \in DOMAIN file /\ file[place] = Hash[k.keys[x[3]]]}
OverIn(D, count) ==
    {b \in Block : \E c \in D : c[1] = b \div BlocksPerBucket /\ count[c] > SegmentRecords}
LocalCounts(D, own) == [c \in D |-> own[c[2]][c[1]]]
Published(D, known) == [c \in D |-> known[c[1]][c[2]]]
Segment(k, own) ==
    [i \in Chosen(k) |-> <<BucketOf(UpperHash(k.keys[i])), CoreOf(own[i])>>]
PrivateGoing(m, k, was) ==
    LET n == host[k.f].producers
        D == Segments(n)
    IN  /\ threads # <<>>
        /\ local \in [0..(n - 1) -> [Bucket -> Nat]]
        /\ Between(m, k, was, bits, OverIn(D, LocalCounts(D, local)))
        /\ \A t \in DOMAIN threads :
            /\ CoreOf(t) \in 0..(n - 1)
            /\ threads[t].seen # <<>> =>
                threads[t].seen \in [Bucket -> Nat]
                    /\ \A b \in Bucket : threads[t].seen[b] <= local[CoreOf(t)][b]
        /\ \E own \in [Chosen(k) -> DOMAIN threads] :
            /\ Deals(threads, Chosen(k), own)
            /\ Books(Chosen(k), D, Todo(threads, Chosen(k), own), Held(threads, Chosen(k), own),
                     Tickets(threads, Chosen(k), own), Segment(k, own), LocalCounts(D, local),
                     SegmentRecords, PrivatePut(k, records[k.f], D), Sunk(m, k, bits))

\* A batch routed, and nothing applied.
PrivateKept(m, k, cell, n, known, file, now) ==
    /\ \A i \in Chosen(k) : cell[i][1] = BucketOf(UpperHash(k.keys[i]))
    /\ Kept(Chosen(k), Segments(n), cell, Published(Segments(n), known), SegmentRecords,
            PrivatePut(k, file, Segments(n)), Sunk(m, k, now))
PrivateDone(m, k, was) ==
    LET n == host[k.f].producers IN
    /\ threads = <<>> /\ local = <<>>
    /\ Between(m, k, was, bits, OverIn(Segments(n), Published(Segments(n), counts[k.f])))
    /\ k.op \in {"private apply if", "compact apply if"} => selected[k.f] \/ Chosen(k) = {}
    /\ \E cell : PrivateKept(m, k, cell, n, counts[k.f], records[k.f], bits)

\* An apply, with the filters at now and the local memory at l: the blocks before
\* the current tile are as they are to be, those behind it as the route has left
\* them.
TileSize == BlocksPerBucket \div Tiles
TileStart(l) == l.bucket * BlocksPerBucket + l.tile * TileSize
TileEnd(l) == TileStart(l) + TileSize
Gathered(k, l) == TileRecords(k.f, l.bucket, l.tile) \ l.left
Combined(l, b) == l.slot[b] \cup l.over[b]
BlockKept(m, k, was, now, l, b) ==
    LET global == GlobalBlock(l.bucket, b) IN
    /\ l.routed[b] \in Nat
    /\ InBlock(global, Combined(l, b)) \subseteq Gain(m, k)
    /\ (\E r \in Gathered(k, l) : BlockAt(r) = b) <=> l.routed[b] # 0
    /\ \A r \in Gathered(k, l) : BlockAt(r) = b =>
        InBlock(global, BlockPattern(LowerAt(r)))
            \subseteq InBlock(global, Combined(l, b)) \cup now
    /\ \A p \in now : p[1] = global =>
        \/ p \in was \/ BucketOverflow(k.f, l.bucket)
        \/ k.op \in CompactApplies /\ l.routed[b] > LocalSlots
Around(m, k, was, now) ==
    /\ now \in Content(m) /\ \A g \in Filter : g # k.f => now[g] = was[g]
    /\ was[k.f] \subseteq now[k.f] /\ now[k.f] \subseteq was[k.f] \cup Gain(m, k)
    /\ \E cell : PrivateKept(m, k, cell, host[k.f].producers, counts[k.f], records[k.f], now)
TileTyped(k, l) ==
    /\ l.bucket \in Bucket /\ l.tile \in 0..(Tiles - 1)
    /\ DOMAIN l.routed = TileBlocks(l.tile) /\ DOMAIN l.slot = TileBlocks(l.tile)
    /\ DOMAIN l.over = TileBlocks(l.tile)
    /\ l.left \subseteq TileRecords(k.f, l.bucket, l.tile)
Sofar(m, k, was, now, from, to) ==
    /\ \A p \in was \cup Gain(m, k) : p[1] < from => p \in now
    /\ \A p \in now : p[1] >= to => p \in was \/ BucketOverflow(k.f, p[1] \div BlocksPerBucket)
ApplyAt(m, k, was, now, l) ==
    /\ Around(m, k, was, now) /\ TileTyped(k, l)
    /\ Sofar(m, k, was[k.f], now[k.f], TileStart(l), TileEnd(l))
    /\ \A b \in TileBlocks(l.tile) : BlockKept(m, k, was[k.f], now[k.f], l, b)
ApplyGoing(m, k, was) ==
    threads = <<>> /\ local # <<>> /\ ApplyAt(m, k, was, bits, local)

Progress(m, was) ==
    /\ queue = <<>> => Fresh(was)
    /\ queue # <<>> =>
        LET k == Head(queue) IN
        /\ k.op \in {"add", "add if"} => Fresh(was) \/ AddGoing(m, k, was)
        /\ k.op = "route" => Fresh(was) \/ RouteGoing(m, k, was)
        /\ k.op = "apply" => RouteDone(m, k, was)
        /\ k.op \in Routes => Fresh(was) \/ PrivateGoing(m, k, was)
        /\ k.op \in TiledApplies \cup CompactApplies =>
            PrivateDone(m, k, was) \/ ApplyGoing(m, k, was)
        /\ k.op \notin Batched => Fresh(was)

\* The counters that a route will find at zero.
ZerosAreTrue(s) ==
    \A f \in Filter :
        s.zero[f] => Zero(f) \/ (threads # <<>> /\ Head(queue).op = "route" /\ Head(queue).f = f)

\* A workspace is of its kind, and no larger than the memory for it.
Tidy(h) ==
    /\ h.slots \in 0..MaxSlots /\ (h.workspace = "routed" <=> h.slots # 0)
    /\ h.producers \in 0..Cores /\ (h.workspace = "private" <=> h.producers # 0)
    /\ h.workspace = "private" => layout \in Private

\* The arrays in device memory.
Arrays ==
    /\ layout \in Layouts
    /\ slots \in [Filter -> [Block -> [0..(MaxSlots - 1) -> Int]]]
    /\ counts \in [Filter -> [Bucket -> [0..(Cores - 1) -> Nat]]]
    /\ DOMAIN records = Filter /\ selected \in [Filter -> BOOLEAN]
    /\ \A f \in Filter : Tidy(host[f])

\* The course of things: where the stream has come from, how far its first kernel
\* is, and that it leads to what the host expects.
Course(m, s, e) ==
    /\ s \in State(m) /\ e \in State(m) /\ Leads(m, s, queue, e)
    /\ e.content = expected /\ e.owed = {}
    /\ \A f \in Filter : host[f].workspace = "routed" => e.zero[f]
    /\ Progress(m, s.content) /\ ZerosAreTrue(s)

--------------------------------------------------------------------------------
\* What depends on the layout alone does not change.
LEMMA Rigid ==
    ASSUME layout' = layout
    PROVE  /\ Block' = Block /\ Marks' = Marks /\ NumBlocks' = NumBlocks
           /\ \A u : BlockIndex(u)' = BlockIndex(u)
           /\ \A k : BitsOf(k)' = BitsOf(k)
  <1>1. NumBlocks' = NumBlocks BY DEF NumBlocks
  <1>2. Block' = Block BY <1>1 DEF Block
  <1>3. \A u : BlockIndex(u)' = BlockIndex(u) BY <1>1 DEF BlockIndex
  <1>4. \A k : BitsOf(k)' = BitsOf(k) BY <1>3 DEF BitsOf
  <1>5. Marks' = Marks BY <1>4 DEF Marks
  <1> QED BY <1>1, <1>2, <1>3, <1>4, <1>5

\* A route and its apply have the same operands.
LEMMA SameOperands ==
    ASSUME NEW k \in Launched, NEW j \in Launched, Mates(k, j)
    PROVE  /\ j.f = k.f /\ j.keys = k.keys /\ j.sel = k.sel /\ j.preserve = k.preserve
           /\ Chosen(j) = Chosen(k) /\ \A m : Gain(m, j) = Gain(m, k)
           /\ k.op = "route" <=> j.op = "apply"
           /\ k.op \in Routes <=> j.op \in TiledApplies \cup CompactApplies
           /\ k.op = "private route if" <=> j.op \in {"private apply if", "compact apply if"}
  <1>1. /\ j.f = k.f /\ j.keys = k.keys /\ j.sel = k.sel /\ j.preserve = k.preserve
    <2>1. j = [k EXCEPT !.op = j.op] BY DEF Mates
    <2> DEFINE o == j.op
    <2>2. j = [k EXCEPT !.op = o] BY <2>1
    <2> HIDE DEF o
    <2> QED BY <2>2 DEF Launched
  <1>2. Chosen(j) = Chosen(k) BY <1>1 DEF Chosen
  <1>3. \A m : Gain(m, j) = Gain(m, k) BY <1>1, <1>2 DEF Gain
  <1>4. /\ k.op = "route" <=> j.op = "apply"
        /\ k.op \in Routes <=> j.op \in TiledApplies \cup CompactApplies
        /\ k.op = "private route if" <=> j.op \in {"private apply if", "compact apply if"}
    BY DEF Mates, Routes, TiledApplies, CompactApplies
  <1> QED BY <1>1, <1>2, <1>3, <1>4

\* The state at which a kernel begins is one for it.
LEMMA Beginning ==
    ASSUME NEW m, NEW s, NEW e, StreamInv, queue # <<>>, Course(m, s, e)
    PROVE  /\ Head(queue) \in Launched /\ Head(queue).f \in Filter
           /\ Head(queue).keys \in Seq(Key) /\ Tail(queue) \in Seq(Launched)
           /\ Ready(m, Head(queue), s)
           /\ Executed(m, Head(queue), s) \in State(m)
           /\ Leads(m, Executed(m, Head(queue), s), Tail(queue), e)
  <1>1. queue \in Seq(Launched) BY DEF StreamInv
  <1>2. Head(queue) \in Launched /\ Tail(queue) \in Seq(Launched) BY <1>1
  <1>3. Head(queue).f \in Filter /\ Head(queue).keys \in Seq(Key) BY <1>2 DEF Launched
  <1>4. s \in State(m) /\ Leads(m, s, queue, e) BY DEF Course
  <1>5. Ready(m, Head(queue), s) /\ Leads(m, Executed(m, Head(queue), s), Tail(queue), e)
    BY <1>1, <1>4, LeadsFirst
  <1>6. Executed(m, Head(queue), s) \in State(m) BY <1>2, <1>4, ExecutedIsState
  <1> QED BY <1>2, <1>3, <1>5, <1>6

\* A step of a kernel that goes on.
LEMMA GoesOn ==
    ASSUME NEW m, NEW s, NEW e, Course(m, s, e), KeepQueue,
           Progress(m, s.content)', ZerosAreTrue(s)'
    PROVE  Course(m, s, e)'
  <1>1. /\ layout' = layout /\ queue' = queue /\ host' = host /\ expected' = expected
    BY DEF KeepQueue, KeepHost
  <1>2. /\ s \in State(m) /\ e \in State(m) /\ Leads(m, s, queue, e)
        /\ e.content = expected /\ e.owed = {}
        /\ \A f \in Filter : host[f].workspace = "routed" => e.zero[f]
    BY DEF Course
  <1>3. Leads(m, s, queue, e)'
    <2>1. Leads(m, s, queue, e)' = Leads(m, s, queue', e) BY DEF Leads
    <2> QED BY <1>1, <1>2, <2>1
  <1> QED BY <1>1, <1>2, <1>3 DEF Course

\* The last step of a kernel that leaves nothing owing.
LEMMA ComesToAnEnd ==
    ASSUME NEW m, NEW s, NEW e, Course(m, s, e), StreamInv, queue # <<>>, Finish,
           Head(queue).op \notin RouteKinds, NEW d, d = Executed(m, Head(queue), s),
           bits' = d.content, ZerosAreTrue(d)'
    PROVE  Course(m, d, e)'
  <1> SUFFICES ASSUME NEW q, q = Tail(queue) PROVE Course(m, d, e)' OBVIOUS
  <1>1. /\ layout' = layout /\ queue' = q /\ host' = host /\ expected' = expected
        /\ threads' = <<>> /\ local' = <<>>
    BY DEF Finish, KeepHost
  <1>2. /\ e \in State(m) /\ e.content = expected /\ e.owed = {}
        /\ \A f \in Filter : host[f].workspace = "routed" => e.zero[f]
    BY DEF Course
  <1>3. q \in Seq(Launched) /\ d \in State(m) /\ Leads(m, d, q, e) BY Beginning
  <1>4. d.owed = {} BY DEF Executed
  <1>5. bits' = d.content OBVIOUS
  <1>6. ZerosAreTrue(d)' OBVIOUS
  <1>7. q # <<>> => Head(q).op \notin ApplyKinds
    <2>1. ASSUME q # <<>> PROVE Ready(m, Head(q), d) BY <1>3, <2>1, LeadsFirst
    <2> QED BY <1>4, <2>1 DEF Ready
  <1>8. Fresh(d.content)' BY <1>1, <1>5 DEF Fresh
  <1>9. Progress(m, d.content)'
    BY <1>1, <1>7, <1>8 DEF Progress, ApplyKinds
  <1>10. Leads(m, d, queue, e)'
    <2>1. Leads(m, d, queue, e)' = Leads(m, d, queue', e) BY DEF Leads
    <2> QED BY <1>1, <1>3, <2>1
  <1> QED BY <1>1, <1>2, <1>3, <1>6, <1>9, <1>10 DEF Course

--------------------------------------------------------------------------------
(* The shape of the running kernel's memory. *)

ThreadFields == {"todo", "held", "word", "seen"}
TileFields == {"bucket", "tile", "left", "routed", "slot", "over"}
Applies == TiledApplies \cup CompactApplies
ShapeInv ==
    /\ \A t \in DOMAIN threads : DOMAIN threads[t] = ThreadFields
    /\ queue = <<>> => local = <<>>
    /\ Gathering(Applies) => DOMAIN local = TileFields

\* The end of a kernel.
LEMMA ShapeAtEnd == ASSUME Finish PROVE ShapeInv'
  <1>1. DOMAIN <<>> = {} OBVIOUS
  <1> QED BY <1>1 DEF Finish, ShapeInv, Gathering

\* A step that keeps the queue and the local memory.
LEMMA ShapeOfThreads ==
    ASSUME ShapeInv, KeepQueue, local' = local,
           \A t \in DOMAIN threads' : DOMAIN threads'[t] = ThreadFields
    PROVE  ShapeInv'
  <1>1. queue' = queue BY DEF KeepQueue
  <1> QED BY <1>1 DEF ShapeInv, Gathering, Running

\* A new value for a thread.
LEMMA SameFields ==
    ASSUME ShapeInv, NEW t \in DOMAIN threads,
           \/ KeyDone(t)
           \/ \E x, y : threads' = [threads EXCEPT ![t].word = x, ![t].seen = y]
           \/ \E y : threads' = [threads EXCEPT ![t].seen = y]
           \/ \E x : threads' = [threads EXCEPT ![t].held = x]
           \/ \E x, y : threads' = [threads EXCEPT ![t].todo = x, ![t].held = y]
           \/ \E ticket : Holding(t, ticket)
    PROVE  /\ \A u \in DOMAIN threads' : DOMAIN threads'[u] = ThreadFields
           /\ DOMAIN threads' = DOMAIN threads
           /\ \A u \in DOMAIN threads : u # t => threads'[u] = threads[u]
  <1>1. \A u \in DOMAIN threads : DOMAIN threads[u] = ThreadFields BY Zenon DEF ShapeInv
  <1>2. ASSUME NEW x, NEW y, threads' = [threads EXCEPT ![t].word = x, ![t].seen = y]
        PROVE  /\ \A u \in DOMAIN threads' : DOMAIN threads'[u] = ThreadFields
               /\ DOMAIN threads' = DOMAIN threads
               /\ \A u \in DOMAIN threads : u # t => threads'[u] = threads[u]
    BY <1>1, <1>2
  <1>3. ASSUME NEW y, threads' = [threads EXCEPT ![t].seen = y]
        PROVE  /\ \A u \in DOMAIN threads' : DOMAIN threads'[u] = ThreadFields
               /\ DOMAIN threads' = DOMAIN threads
               /\ \A u \in DOMAIN threads : u # t => threads'[u] = threads[u]
    BY <1>1, <1>3
  <1>4. ASSUME NEW y, threads' = [threads EXCEPT ![t].held = y]
        PROVE  /\ \A u \in DOMAIN threads' : DOMAIN threads'[u] = ThreadFields
               /\ DOMAIN threads' = DOMAIN threads
               /\ \A u \in DOMAIN threads : u # t => threads'[u] = threads[u]
    BY <1>1, <1>4
  <1>5. ASSUME NEW x, NEW y, threads' = [threads EXCEPT ![t].todo = x, ![t].held = y]
        PROVE  /\ \A u \in DOMAIN threads' : DOMAIN threads'[u] = ThreadFields
               /\ DOMAIN threads' = DOMAIN threads
               /\ \A u \in DOMAIN threads : u # t => threads'[u] = threads[u]
    BY <1>1, <1>5
  <1>6. ASSUME KeyDone(t)
        PROVE  /\ \A u \in DOMAIN threads' : DOMAIN threads'[u] = ThreadFields
               /\ DOMAIN threads' = DOMAIN threads
               /\ \A u \in DOMAIN threads : u # t => threads'[u] = threads[u]
    BY <1>1, <1>6 DEF KeyDone
  <1>7. ASSUME NEW ticket, Holding(t, ticket)
        PROVE  /\ \A u \in DOMAIN threads' : DOMAIN threads'[u] = ThreadFields
               /\ DOMAIN threads' = DOMAIN threads
               /\ \A u \in DOMAIN threads : u # t => threads'[u] = threads[u]
    BY ONLY <1>1, <1>7 DEF Holding
  <1> QED BY <1>2, <1>3, <1>4, <1>5, <1>6, <1>7, Zenon

\* Each step of a kernel.
LEMMA DeviceKeepsShape ==
    ASSUME ShapeInv, Device
    PROVE  ShapeInv'
  <1>1. CASE \E t \in DOMAIN threads : Simt(t)
    <2> SUFFICES ASSUME NEW t \in DOMAIN threads, Simt(t) PROVE ShapeInv' BY <1>1
    <2>1. CASE AddPackedPairs(t)
      BY <2>1, SameFields, ShapeOfThreads, Zenon DEF AddPackedPairs
    <2>2. CASE AddWord(t)
      <3>1. KeepQueue /\ local' = local BY <2>2 DEF AddWord
      <3>2. \/ KeyDone(t) \/ (\E y : threads' = [threads EXCEPT ![t].seen = y])
            \/ \E x, y : threads' = [threads EXCEPT ![t].word = x, ![t].seen = y]
        BY <2>2, Zenon DEF AddWord, NextWord
      <3> QED BY <3>1, <3>2, SameFields, ShapeOfThreads, Zenon
    <2>3. CASE RouteTicket(t)
      <3>1. KeepQueue /\ local' = local BY <2>3 DEF RouteTicket
      <3>2. \E x, y : threads' = [threads EXCEPT ![t].todo = x, ![t].held = y]
        BY <2>3 DEF RouteTicket
      <3> QED BY <3>1, <3>2, SameFields, ShapeOfThreads
    <2>4. CASE CommitRouted(t)
      <3>1. KeepQueue /\ local' = local BY <2>4 DEF CommitRouted
      <3>2. \E x : threads' = [threads EXCEPT ![t].held = x] BY <2>4 DEF CommitRouted
      <3> QED BY <3>1, <3>2, SameFields, ShapeOfThreads
    <2>5. CASE Observe(t)
      <3>1. KeepQueue /\ local' = local BY <2>5 DEF Observe
      <3>2. \E x : threads' = [threads EXCEPT ![t].seen = x] BY <2>5 DEF Observe
      <3> QED BY <3>1, <3>2, SameFields, ShapeOfThreads
    <2>6. CASE CommitPrivate(t)
      <3>1. KeepQueue /\ local' = local BY <2>6 DEF CommitPrivate
      <3>2. \E x : threads' = [threads EXCEPT ![t].held = x] BY <2>6 DEF CommitPrivate
      <3> QED BY <3>1, <3>2, SameFields, ShapeOfThreads
    <2>7. CASE AddTicket(t) \/ OverflowIsSet(t) \/ CasTicket(t)
      <3>1. KeepQueue /\ Running(Routes)
        BY <2>7 DEF AddTicket, OverflowIsSet, CasTicket, WantsTicket, AtKey
      <3>2. (\E ticket : Holding(t, ticket)) \/ \E x : threads' = [threads EXCEPT ![t].seen = x]
        BY <2>7 DEF AddTicket, OverflowIsSet, CasTicket
      <3>3. \A u \in DOMAIN threads' : DOMAIN threads'[u] = ThreadFields BY <3>2, SameFields, Zenon
      <3>4. queue' = queue BY <3>1 DEF KeepQueue
      <3>5. queue # <<>> /\ ~Gathering(Applies)'
        BY <3>1, <3>4 DEF Running, Gathering, Routes, Applies, TiledApplies, CompactApplies
      <3> QED BY <3>3, <3>4, <3>5 DEF ShapeInv
    <2> QED BY <2>1, <2>2, <2>3, <2>4, <2>5, <2>6, <2>7 DEF Simt
  <1>2. CASE \E r \in local.left : Gathering(Applies) /\ (GatherTiled(r) \/ GatherCompact(r))
    <2>1. PICK r \in local.left : Gathering(Applies) /\ (GatherTiled(r) \/ GatherCompact(r))
      BY <1>2
    <2>2. /\ UNCHANGED <<queue, threads>> /\ queue # <<>>
          /\ \/ local' = Ticketed(r) \/ local' = InSlot(r)
             \/ local' = [Ticketed(r) EXCEPT !.over[BlockAt(r)] = @ \cup BlockPattern(LowerAt(r))]
      BY <2>1 DEF GatherTiled, GatherCompact, KeepQueue, Gathering, Running
    <2>3. DOMAIN local = TileFields BY <2>1 DEF ShapeInv
    <2>4. DOMAIN local' = TileFields BY <2>2, <2>3 DEF Ticketed, InSlot
    <2> QED BY <2>2, <2>4 DEF ShapeInv
  <1>3. CASE BeginApply
    <2>1. /\ UNCHANGED <<queue, threads>> /\ queue # <<>> /\ local' = ZeroTile(0, 0)
      BY <1>3 DEF BeginApply, KeepQueue, Running
    <2>2. DOMAIN local' = TileFields BY <2>1 DEF ZeroTile, TileFields
    <2> QED BY <2>1, <2>2 DEF ShapeInv
  <1>4. CASE CombineTiled \/ CombineCompact
    <2>1. CASE Finish BY <2>1, ShapeAtEnd
    <2>2. CASE ~Finish
      <3>1. /\ UNCHANGED <<queue, threads>> /\ queue # <<>>
            /\ local' = ZeroTile(NextTile[1], NextTile[2])
        BY <1>4, <2>2 DEF CombineTiled, CombineCompact, Onwards, KeepQueue, Gathering, Running
      <3>2. DOMAIN local' = TileFields BY <3>1 DEF ZeroTile, TileFields
      <3> QED BY <3>1, <3>2 DEF ShapeInv
    <2> QED BY <2>1, <2>2
  <1>5. CASE \E ops, total : Begin(ops, total) /\ KeepQueue /\ local' = local
    <2>1. \A t \in DOMAIN threads' : DOMAIN threads'[t] = ThreadFields
      BY <1>5 DEF Begin, Thread, ThreadFields
    <2> QED BY <1>5, <2>1, ShapeOfThreads
  <1>6. CASE RoutePrivateH8V1 \/ RoutePrivateH8V1If
    <2>1. KeepQueue /\ Running(Routes)
      BY <1>6 DEF RoutePrivateH8V1, RoutePrivateH8V1If, Begin, Running, Routes
    <2>2. \A t \in DOMAIN threads' : DOMAIN threads'[t] = ThreadFields
      <3>1. CASE RoutePrivateH8V1
        BY <3>1 DEF RoutePrivateH8V1, Begin, Thread, ThreadFields
      <3>2. CASE RoutePrivateH8V1If
        <4>1. \E total : threads' = [t \in 0..(total - 1) |-> Thread(StencilBlock(t, total))]
          BY <3>2 DEF RoutePrivateH8V1If
        <4> QED BY <4>1 DEF Thread, ThreadFields
      <3> QED BY <1>6, <3>1, <3>2
    <2>3. queue' = queue /\ queue # <<>> /\ ~Gathering(Applies)'
      BY <2>1 DEF KeepQueue, Running, Gathering, Routes, Applies, TiledApplies, CompactApplies
    <2> QED BY <2>2, <2>3 DEF ShapeInv
  <1>7. CASE Finish BY <1>7, ShapeAtEnd
  <1>8. \/ Finish \/ (\E t \in DOMAIN threads : Simt(t)) \/ BeginApply
        \/ (\E r \in local.left : Gathering(Applies) /\ (GatherTiled(r) \/ GatherCompact(r)))
        \/ CombineTiled \/ CombineCompact \/ RoutePrivateH8V1 \/ RoutePrivateH8V1If
        \/ \E ops, total : Begin(ops, total) /\ KeepQueue /\ local' = local
    BY Zenon DEF Device, ClearSimt, ClearWorkspace, ResetFlag, CombineSimt, ContainsSimt, AddSimt,
        EndAdd,
           RoutePackedH8V1, EndRoute, ApplyPackedH8V1, EndPrivateRoute, SkipApply, Applies
  <1> QED BY <1>1, <1>2, <1>3, <1>4, <1>5, <1>6, <1>7, <1>8

\* Where a step begins.
Here(m, s, e) == HostInv /\ StreamInv /\ ShapeInv /\ Arrays /\ m = Marks /\ Course(m, s, e)

\* Counters that are not touched are zero if they were.
LEMMA ZerosStay ==
    ASSUME layout' = layout, NEW f, counters'[f] = counters[f]
    PROVE  Zero(f)' <=> Zero(f)
  <1>1. Block' = Block BY Rigid
  <1> QED BY <1>1 DEF Zero

\* The arrays of device memory keep their shape.
LEMMA ArraysStay ==
    ASSUME Arrays, UNCHANGED <<layout, host>>,
           slots' \in [Filter -> [Block -> [0..(MaxSlots - 1) -> Int]]],
           counts' \in [Filter -> [Bucket -> [0..(Cores - 1) -> Nat]]],
           DOMAIN records' = Filter, selected' \in [Filter -> BOOLEAN]
    PROVE  Arrays'
  <1>1. Block' = Block /\ layout' = layout /\ host' = host BY Rigid
  <1>2. \A f \in Filter : Tidy(host[f])' BY <1>1 DEF Arrays, Tidy
  <1> QED BY <1>1, <1>2 DEF Arrays

\* A kernel with no route to follow it ends, and the counters are as they were.
LEMMA PlainEnd ==
    ASSUME NEW m, NEW s, NEW e, Course(m, s, e), StreamInv, queue # <<>>, Finish,
           Head(queue).op \notin RouteKinds \cup {"apply", "clear workspace"},
           counters' = counters, NEW d, d = Executed(m, Head(queue), s), bits' = d.content
    PROVE  Course(m, d, e)'
  <1> SUFFICES ASSUME NEW k, k = Head(queue) PROVE Course(m, d, e)' OBVIOUS
  <1>1. k \in Launched /\ k.f \in Filter /\ s \in State(m) BY Beginning DEF Course
  <1>2. ZerosAreTrue(d)'
    <2> SUFFICES ASSUME NEW f \in Filter, d.zero[f] PROVE Zero(f)' BY DEF ZerosAreTrue
    <2>1. s.zero[f]
      <3>1. Zeroed(k, s.zero) = s.zero[k.f] BY DEF Zeroed, RouteKinds
      <3>2. d = Executed(m, k, s) OBVIOUS
      <3>3. /\ d.zero[k.f] = Zeroed(k, s.zero)
            /\ f # k.f => d.zero[f] = s.zero[f]
        <4>1. Executed(m, k, s).zero[k.f] = Zeroed(k, s.zero) BY ONLY <1>1, ExecutedIsState
        <4>2. f # k.f => Executed(m, k, s).zero[f] = s.zero[f]
          BY ONLY <1>1, f \in Filter, ExecutedIsState
        <4> QED BY <3>2, <4>1, <4>2
      <3> QED BY <3>1, <3>3
    <2>2. Zero(f) BY <2>1 DEF Course, ZerosAreTrue, RouteKinds
    <2>3. layout' = layout /\ counters'[f] = counters[f] BY DEF Finish, KeepHost
    <2> QED BY <2>2, <2>3, ZerosStay
  <1>3. k.op \notin RouteKinds OBVIOUS
  <1> QED BY <1>2, <1>3, ComesToAnEnd

\* A route ends, and its apply is next.
LEMMA RouteEnds ==
    ASSUME NEW m, NEW s, NEW e, Course(m, s, e), StreamInv, queue # <<>>, Finish,
           NEW k, k = Head(queue), k.op \in RouteKinds, NEW d, d = Executed(m, k, s),
           ZerosAreTrue(d)',
           \A j \in Launched : Mates(k, j) =>
               IF k.op = "route" THEN RouteDone(m, j, s.content)' ELSE PrivateDone(m, j, s.content)'
    PROVE  Course(m, d, e)'
  <1> SUFFICES ASSUME NEW q, q = Tail(queue) PROVE Course(m, d, e)' OBVIOUS
  <1>1. /\ layout' = layout /\ queue' = q /\ host' = host /\ expected' = expected
        /\ threads' = <<>> /\ local' = <<>>
    BY DEF Finish, KeepHost
  <1>2. /\ e \in State(m) /\ e.content = expected /\ e.owed = {}
        /\ \A f \in Filter : host[f].workspace = "routed" => e.zero[f]
        /\ s \in State(m)
    BY DEF Course
  <1>3. q \in Seq(Launched) /\ d \in State(m) /\ Leads(m, d, q, e) /\ k \in Launched BY Beginning
  <1>4. d.owed = {k} /\ d.content = s.content
    <2>1. d.content = [s.content EXCEPT ![k.f] = s.content[k.f]]
      BY DEF Executed, Contents, RouteKinds, ApplyKinds, Routes, TiledApplies, CompactApplies
    <2>2. s.content \in Content(m) BY <1>2 DEF State
    <2>3. d.owed = {k} BY DEF Executed
    <2> QED BY <2>1, <2>2, <2>3, SMTT(40) DEF Content
  <1>5. q # <<>>
    <2> SUFFICES ASSUME q = <<>> PROVE FALSE OBVIOUS
    <2>1. Leads(m, d, <<>>, e) BY <1>3
    <2>2. e = d BY <2>1, LeadsNowhere
    <2> QED BY <1>2, <1>4, <2>2
  <1> SUFFICES ASSUME NEW j, j = Head(q) PROVE Course(m, d, e)' OBVIOUS
  <1>6. j \in Launched /\ Ready(m, j, d)
    <2>1. Head(q) \in Launched BY <1>3, <1>5
    <2>2. Ready(m, Head(q), d) BY <1>3, <1>5, LeadsFirst
    <2> QED BY <2>1, <2>2
  <1>7. Mates(k, j) BY <1>4, <1>6 DEF Ready
  <1>8. /\ k.op = "route" <=> j.op = "apply"
        /\ k.op \in Routes <=> j.op \in TiledApplies \cup CompactApplies
    BY <1>3, <1>6, <1>7, SameOperands
  <1>9. Progress(m, d.content)'
    <2>1. CASE k.op = "route"
      <3>1. RouteDone(m, j, d.content)' BY <1>4, <1>6, <1>7, <2>1
      <3>2. j.op = "apply" BY <1>8, <2>1
      <3> QED BY <1>1, <1>5, <3>1, <3>2
          DEF Progress, Batched, ApplyKinds, Routes, TiledApplies, CompactApplies
    <2>2. CASE k.op # "route"
      <3>1. PrivateDone(m, j, d.content)' BY <1>4, <1>6, <1>7, <2>2
      <3>2. j.op \in TiledApplies \cup CompactApplies BY <1>8, <2>2 DEF RouteKinds
      <3> QED BY <1>1, <1>5, <3>1, <3>2
          DEF Progress, Batched, ApplyKinds, Routes, TiledApplies, CompactApplies
    <2> QED BY <2>1, <2>2
  <1>10. Leads(m, d, queue, e)'
    <2>1. Leads(m, d, queue, e)' = Leads(m, d, queue', e) BY DEF Leads
    <2> QED BY <1>1, <1>3, <2>1
  <1> QED BY <1>1, <1>2, <1>3, <1>9, <1>10 DEF Course

\* The kernels of one step.
LEMMA OneStepKernels ==
    ASSUME NEW m, NEW s, NEW e, Here(m, s, e), ClearSimt \/ ResetFlag \/ CombineSimt \/ ContainsSimt
    PROVE  Arrays' /\ \E d : Course(m, d, e)'
  <1> SUFFICES ASSUME NEW k, k = Head(queue), NEW d, d = Executed(m, k, s)
               PROVE  Arrays' /\ Course(m, d, e)'
    OBVIOUS
  <1>1. Arrays /\ StreamInv /\ Course(m, s, e) BY DEF Here
  <1>2. /\ queue # <<>> /\ Finish /\ counters' = counters /\ UNCHANGED <<layout, host>>
        /\ k.op \in {"clear", "reset flag", "merge", "intersect",
                     "contains", "contains if", "zeros"}
    BY DEF ClearSimt, ResetFlag, CombineSimt, ContainsSimt, Running, This, Finish, KeepHost,
       workspace
  <1>3. k \in Launched /\ k.f \in Filter /\ s \in State(m) BY <1>1, <1>2, Beginning DEF Course
  <1>4. k.op \notin Batched /\ k.op \notin RouteKinds \cup ApplyKinds \cup {"clear workspace"}
        /\ k.op \notin RouteKinds \cup {"apply", "clear workspace"}
    BY <1>2 DEF Batched, RouteKinds, ApplyKinds, Routes, TiledApplies, CompactApplies
  <1>5. bits = s.content BY <1>1, <1>2, <1>4 DEF Course, Progress, Fresh
  <1>6. bits' = d.content
    <2>1. s.content \in Content(m) BY <1>3 DEF State
    <2>2. d.content = [s.content EXCEPT ![k.f] = Contents(m, k, s.content)] BY DEF Executed
    <2>3. CASE ClearSimt
      <3>1. k.op = "clear" /\ bits' = [bits EXCEPT ![k.f] = {}]
        BY <2>3 DEF ClearSimt, Running, Store, This
      <3>2. Contents(m, k, s.content) = {} BY <1>4, <3>1 DEF Contents
      <3> QED BY <1>5, <2>2, <3>1, <3>2
    <2>4. CASE CombineSimt
      <3>1. /\ k.op \in {"merge", "intersect"}
            /\ bits' = [bits EXCEPT ![k.f] =
                   IF k.op = "merge" THEN bits[k.f] \cup bits[k.from]
                    ELSE bits[k.f] \cap bits[k.from]]
        BY <2>4 DEF CombineSimt, Running, Store, This
      <3>2. Contents(m, k, s.content) = IF k.op = "merge" THEN bits[k.f] \cup bits[k.from]
                                        ELSE bits[k.f] \cap bits[k.from]
        BY <1>4, <1>5, <3>1 DEF Contents
      <3> QED BY <1>5, <2>2, <3>1, <3>2
    <2>5. CASE ResetFlag \/ ContainsSimt
      <3>1. k.op \in {"reset flag", "contains", "contains if", "zeros"} /\ bits' = bits
        BY <2>5 DEF ResetFlag, ContainsSimt, Running, This, workspace
      <3>2. Contents(m, k, s.content) = s.content[k.f] BY <1>4, <3>1 DEF Contents
      <3> QED BY <1>5, <2>1, <2>2, <3>1, <3>2 DEF Content
    <2> QED BY <2>3, <2>4, <2>5
  <1>7. Course(m, d, e)' BY <1>1, <1>2, <1>4, <1>6, PlainEnd
  <1>8. Arrays'
    <2>2. /\ slots' = slots /\ counts' = counts /\ records' = records
          /\ selected' = selected \/ selected' = [selected EXCEPT ![k.f] = FALSE]
      BY DEF ClearSimt, ResetFlag, CombineSimt, ContainsSimt, Store, workspace, This
    <2> QED BY <1>1, <1>2, <1>3, <2>2, ArraysStay DEF Arrays
  <1> QED BY <1>7, <1>8

\* ClearWorkspace: whatever was in the counters.
LEMMA WorkspaceCleared ==
    ASSUME NEW m, NEW s, NEW e, Here(m, s, e), ClearWorkspace
    PROVE  Arrays' /\ \E d : Course(m, d, e)'
  <1> SUFFICES ASSUME NEW k, k = Head(queue), NEW d, d = Executed(m, k, s)
               PROVE  Arrays' /\ Course(m, d, e)'
    OBVIOUS
  <1>1. Arrays /\ StreamInv /\ Course(m, s, e) BY DEF Here
  <1>2. /\ queue # <<>> /\ Finish
        /\ UNCHANGED <<layout, host, bits, slots, counts, records, selected>>
        /\ k.op = "clear workspace" /\ counters' = [counters EXCEPT ![k.f] = [b \in Block |-> 0]]
    BY DEF ClearWorkspace, Running, This, Finish, KeepHost
  <1>3. k \in Launched /\ k.f \in Filter /\ s \in State(m) BY <1>1, <1>2, Beginning DEF Course
  <1>4. k.op \notin Batched /\ k.op \notin RouteKinds \cup ApplyKinds /\ k.op \notin RouteKinds
    BY <1>2 DEF Batched, RouteKinds, ApplyKinds, Routes, TiledApplies, CompactApplies
  <1>5. bits = s.content BY <1>1, <1>2, <1>4 DEF Course, Progress, Fresh
  <1>6. bits' = d.content
    <2>1. s.content \in Content(m) BY <1>3 DEF State
    <2>2. d.content = [s.content EXCEPT ![k.f] = Contents(m, k, s.content)] BY DEF Executed
    <2>3. Contents(m, k, s.content) = s.content[k.f] BY <1>2, <1>4 DEF Contents
    <2> QED BY <1>2, <1>5, <2>1, <2>2, <2>3, ZenonT(60) DEF Content
  <1>7. ZerosAreTrue(d)'
    <2> SUFFICES ASSUME NEW f \in Filter, d.zero[f] PROVE Zero(f)' BY DEF ZerosAreTrue
    <2>1. counters \in [Filter -> [Block -> Nat]] BY <1>1 DEF StreamInv
    <2>2. CASE f = k.f
      <3>1. counters'[f] = [b \in Block |-> 0] /\ Block' = Block BY <1>2, <2>1, <2>2, Rigid
      <3> QED BY <3>1 DEF Zero
    <2>3. CASE f # k.f
      <3>0. d = Executed(m, k, s) OBVIOUS
      <3>1. s.zero[f]
        <4>1. Executed(m, k, s).zero[f] = s.zero[f] BY <1>3, <2>3, ExecutedIsState
        <4> QED BY <3>0, <4>1
      <3>2. Zero(f) BY <1>1, <1>2, <3>1 DEF Course, ZerosAreTrue
      <3>3. counters'[f] = counters[f] /\ layout' = layout BY <1>2, <2>1, <2>3
      <3> QED BY <3>2, <3>3, ZerosStay
    <2> QED BY <2>2, <2>3
  <1>8. Course(m, d, e)' BY <1>1, <1>2, <1>4, <1>6, <1>7, ComesToAnEnd
  <1>9. Arrays' BY <1>1, <1>2, ArraysStay DEF Arrays
  <1> QED BY <1>8, <1>9

\* The elements of a batch have keys, and their bits are the batch's to set.
LEMMA Elements ==
    ASSUME HashesOK, PolicyOK, NEW m, m = Marks, NEW k \in Launched, Len(k.sel) = Len(k.keys)
    PROVE  /\ Chosen(k) \subseteq Nat /\ Chosen(k) \subseteq 1..Len(k.keys)
           /\ \A i \in Chosen(k) :
                /\ k.keys[i] \in Key /\ m[k.keys[i]] = BitsOf(k.keys[i])
                /\ BitsOf(k.keys[i]) \subseteq Gain(m, k)
                /\ UpperHash(k.keys[i]) \in 0..(2^HashBits - 1)
                /\ BlockIndex(UpperHash(k.keys[i])) \in Block
                /\ \A p \in BitsOf(k.keys[i]) :
                    p[1] = BlockIndex(UpperHash(k.keys[i])) /\ p[2] \in Word
  <1>1. k.keys \in Seq(Key) /\ Len(k.keys) \in Nat BY DEF Launched
  <1>2. Chosen(k) \subseteq Nat /\ Chosen(k) \subseteq 1..Len(k.keys) BY <1>1 DEF Chosen
  <1>3. ASSUME NEW i \in Chosen(k)
        PROVE  /\ k.keys[i] \in Key /\ m[k.keys[i]] = BitsOf(k.keys[i])
               /\ BitsOf(k.keys[i]) \subseteq Gain(m, k)
               /\ UpperHash(k.keys[i]) \in 0..(2^HashBits - 1)
               /\ BlockIndex(UpperHash(k.keys[i])) \in Block
               /\ \A p \in BitsOf(k.keys[i]) :
                    p[1] = BlockIndex(UpperHash(k.keys[i])) /\ p[2] \in Word
    <2>1. k.keys[i] \in Key BY <1>1, <1>2
    <2>2. m[k.keys[i]] = BitsOf(k.keys[i]) BY <2>1 DEF Marks
    <2>3. m[k.keys[i]] \subseteq Gain(m, k) BY DEF Gain
    <2>4. /\ UpperHash(k.keys[i]) \in 0..(2^HashBits - 1)
          /\ BlockIndex(UpperHash(k.keys[i])) \in Block /\ BitsOf(k.keys[i]) \subseteq Bit
          /\ \A p \in BitsOf(k.keys[i]) : p[1] = BlockIndex(UpperHash(k.keys[i]))
      BY <2>1, Marked
    <2>5. \A p \in Bit : p[2] \in Word BY DEF Bit
    <2> QED BY <2>1, <2>2, <2>3, <2>4, <2>5
  <1> QED BY <1>2, <1>3

Enlarged(now, f, X) == [now EXCEPT ![f] = @ \cup X]

\* More bits of the batch.
LEMMA BitsGrow ==
    ASSUME NEW m, NEW k \in Launched, NEW was, NEW now, NEW over, NEW more,
           Between(m, k, was, now, over), NEW X, X \subseteq Gain(m, k), NEW then,
           then = Enlarged(now, k.f, X),
           \A p \in now[k.f] \cup X : p[1] \in over \/ p \in X => p[1] \in more
    PROVE  /\ Between(m, k, was, then, more)
           /\ Sunk(m, k, now) \subseteq Sunk(m, k, then)
           /\ \A i \in Chosen(k) : m[k.keys[i]] \subseteq X => i \in Sunk(m, k, then)
           /\ then[k.f] = now[k.f] \cup X
  <1> DEFINE U == UNION {m[x] : x \in Key}
  <1>1. /\ now \in [Filter -> SUBSET U] /\ \A g \in Filter : g # k.f => now[g] = was[g]
        /\ was[k.f] \subseteq now[k.f] /\ now[k.f] \subseteq was[k.f] \cup Gain(m, k)
        /\ \A p \in now[k.f] : p \in was[k.f] \/ p[1] \in over
    BY DEF Between, Content
  <1>2. k.f \in Filter /\ Gain(m, k) \subseteq U BY GainOfKeys DEF Launched
  <1> HIDE DEF U
  <1>3. /\ then \in [Filter -> SUBSET U] /\ then[k.f] = now[k.f] \cup X
        /\ \A g \in Filter : g # k.f => then[g] = now[g]
    BY <1>1, <1>2 DEF Enlarged
  <1>4. Between(m, k, was, then, more) BY <1>1, <1>3 DEF Between, Content, U
  <1> QED BY <1>3, <1>4 DEF Sunk

\* All of the batch's bits.
LEMMA BitsComplete ==
    ASSUME NEW m, NEW k \in Launched, NEW now, NEW over, NEW s \in State(m),
           Between(m, k, s.content, now, over), Chosen(k) \subseteq Sunk(m, k, now)
    PROVE  now = [s.content EXCEPT ![k.f] = s.content[k.f] \cup Gain(m, k)]
  <1> SUFFICES ASSUME NEW was, was = s.content
               PROVE  now = [was EXCEPT ![k.f] = was[k.f] \cup Gain(m, k)]
    OBVIOUS
  <1>1. was \in Content(m) BY DEF State
  <1>2. /\ now \in Content(m) /\ \A g \in Filter : g # k.f => now[g] = was[g]
        /\ was[k.f] \subseteq now[k.f] /\ now[k.f] \subseteq was[k.f] \cup Gain(m, k)
    BY DEF Between
  <1>3. Gain(m, k) \subseteq now[k.f] BY DEF Gain, Sunk
  <1>4. now[k.f] = was[k.f] \cup Gain(m, k) BY <1>2, <1>3
  <1>5. k.f \in Filter BY DEF Launched
  <1> QED BY <1>1, <1>2, <1>4, <1>5 DEF Content

\* Progress of the kernel at the head.
LEMMA StillGoing ==
    ASSUME KeepQueue, queue # <<>>, NEW k, k = Head(queue), NEW m, NEW was,
           \/ k.op \in {"add", "add if"} /\ AddGoing(m, k, was)'
           \/ k.op = "route" /\ RouteGoing(m, k, was)'
           \/ k.op \in Routes /\ PrivateGoing(m, k, was)'
           \/ k.op \in TiledApplies \cup CompactApplies /\ ApplyGoing(m, k, was)'
    PROVE  Progress(m, was)'
  <1>1. queue' = queue BY DEF KeepQueue
  <1>2. {"add", "add if", "route"} \cup Routes \cup TiledApplies \cup CompactApplies
            \subseteq Batched
    BY DEF Batched, RouteKinds, ApplyKinds
  <1>3. /\ Routes \cap
              ({"add", "add if", "route", "apply"} \cup TiledApplies \cup CompactApplies) = {}
        /\ (TiledApplies \cup CompactApplies) \cap {"add", "add if", "route", "apply"} = {}
    BY DEF Routes, TiledApplies, CompactApplies
  <1> QED BY <1>1, <1>2, <1>3 DEF Progress

\* The counters of other kernels than a route.
LEMMA ZerosRemain ==
    ASSUME KeepQueue, counters' = counters, NEW s, ZerosAreTrue(s),
           threads # <<>> => threads' # <<>>
    PROVE  ZerosAreTrue(s)'
  <1>1. queue' = queue /\ layout' = layout BY DEF KeepQueue, KeepHost
  <1> SUFFICES ASSUME NEW f \in Filter, s.zero[f]
               PROVE  \/ Zero(f)'
                      \/ (threads # <<>> /\ Head(queue).op = "route" /\ Head(queue).f = f)'
    BY DEF ZerosAreTrue
  <1>2. CASE Zero(f) BY <1>1, <1>2, ZerosStay
  <1>3. CASE ~Zero(f) BY <1>1, <1>3 DEF ZerosAreTrue
  <1> QED BY <1>2, <1>3

\* The threads of a kernel are dealt its elements by their numbers.
LEMMA Begun ==
    ASSUME NEW k \in Launched, k = Head(queue), NEW total \in Nat \ {0},
           threads' = [t \in 0..(total - 1) |-> Thread(Strided(t, total))]
    PROVE  /\ threads' # <<>> /\ DOMAIN threads' = 0..(total - 1)
           /\ \A t \in DOMAIN threads' :
                threads'[t].held = <<>> /\ threads'[t].word = 0 /\ threads'[t].seen = <<>>
           /\ \E own \in [Chosen(k) -> DOMAIN threads'] :
                /\ Deals(threads', Chosen(k), own)
                /\ Todo(threads', Chosen(k), own) = Chosen(k)
                /\ Held(threads', Chosen(k), own) = {}
                /\ Tickets(threads', Chosen(k), own) \in [Chosen(k) -> Nat]
  <1> DEFINE own == [i \in Chosen(k) |-> (i - 1) % total]
             D == 0..(total - 1)
             S == Chosen(k)
  <1>1. Len(k.keys) \in Nat BY DEF Launched
  <1>2. own \in [S -> D]
    <2> SUFFICES ASSUME NEW i \in Chosen(k) PROVE (i - 1) % total \in D OBVIOUS
    <2>1. i - 1 \in Int BY <1>1 DEF Chosen
    <2> QED BY ONLY total \in Nat \ {0}, <2>1, Divided
  <1>3. DOMAIN threads' = D OBVIOUS
  <1>4. \A t \in D : /\ threads'[t].held = <<>> /\ threads'[t].word = 0 /\ threads'[t].seen = <<>>
                     /\ \A i : i \in threads'[t].todo <=> i \in S /\ own[i] = t
    BY DEF Strided, Chosen, This, Thread
  <1>5. threads' # <<>>
    <2>1. 0 \in D OBVIOUS
    <2>2. DOMAIN <<>> = {} OBVIOUS
    <2> QED BY <1>3, <2>1, <2>2
  <1> HIDE DEF own, D, S
  <1>6. /\ Deals(threads', S, own) /\ Todo(threads', S, own) = S /\ Held(threads', S, own) = {}
        /\ Tickets(threads', S, own) \in [S -> Nat]
    BY ONLY <1>2, <1>3, <1>4, Dealt, SMTT(40)
  <1> QED BY <1>2, <1>3, <1>4, <1>5, <1>6 DEF D, S

Sound == CallsOK /\ WorkersOK /\ HashesOK /\ PolicyOK

\* An add, after a step.
LEMMA AddGoingNext ==
    ASSUME NEW m, NEW k, NEW was
    PROVE  AddGoing(m, k, was)' <=>
            /\ threads' # <<>> /\ local' = <<>> /\ Between(m, k, was, bits', Block')
            /\ \E own \in [Chosen(k) -> DOMAIN threads'] : AddTold(m, k, threads', own, bits')
  <1>1. Between(m, k, was, bits, Block)' = Between(m, k, was, bits', Block') BY DEF Between
  <1>2. \A own : AddTold(m, k, threads, own, bits)' = AddTold(m, k, threads', own, bits')
    BY DEF AddTold, Deals, Todo, Sunk, Min
  <1> QED BY <1>1, <1>2 DEF AddGoing

\* AddSimt.
LEMMA AddBegins ==
    ASSUME Sound, NEW m, NEW s, NEW e, Here(m, s, e), AddSimt
    PROVE  Arrays' /\ \E d : Course(m, d, e)'
  <1> SUFFICES ASSUME NEW k, k = Head(queue), NEW was, was = s.content
               PROVE  Arrays' /\ Course(m, s, e)'
    OBVIOUS
  <1>1. Arrays /\ StreamInv /\ Course(m, s, e) BY DEF Here
  <1>2. /\ queue # <<>> /\ k.op \in {"add", "add if"} /\ threads = <<>> /\ KeepQueue
        /\ UNCHANGED <<layout, host, local, bits, counters, slots, counts, records, selected>>
        /\ threads' = [t \in 0..(CoreThreads - 1) |-> Thread(Strided(t, CoreThreads))]
    BY DEF AddSimt, Begin, Running, This, KeepQueue, KeepHost, workspace
  <1>3. k \in Launched /\ s \in State(m) /\ Ready(m, k, s) BY <1>1, <1>2, Beginning DEF Course
  <1>4. bits = was /\ local = <<>>
    BY <1>1, <1>2 DEF Course, Progress, Fresh, AddGoing
  <1>5. CoreThreads \in Nat \ {0} BY DEF Sound, WorkersOK
  <1>6. /\ threads' # <<>>
        /\ \A t \in DOMAIN threads' : threads'[t].held = <<>> /\ threads'[t].word = 0
    BY <1>2, <1>3, <1>5, Begun
  <1>7. PICK own \in [Chosen(k) -> DOMAIN threads'] :
            Deals(threads', Chosen(k), own) /\ Todo(threads', Chosen(k), own) = Chosen(k)
    BY <1>2, <1>3, <1>5, Begun
  <1>8. Chosen(k) \subseteq Nat /\ \A i \in Chosen(k) : \A p \in m[k.keys[i]] : p[2] \in Word
    <2>1. Len(k.sel) = Len(k.keys) BY <1>2, <1>3 DEF Ready, Batched
    <2> QED BY <1>3, <2>1, Elements DEF Sound, Here
  <1>9. Between(m, k, was, bits', Block')
    <2>1. was \in Content(m) BY <1>3 DEF State
    <2> QED BY <1>2, <1>4, <2>1 DEF Between
  <1>10. ASSUME NEW t \in DOMAIN threads'
         PROVE  /\ threads'[t].word \in Word /\ DOMAIN threads'[t].held = {}
                /\ threads'[t].todo # {} =>
                     \A p \in m[k.keys[Min(threads'[t].todo)]] :
                        p[2] < threads'[t].word => p \in bits'[k.f]
    <2>1. threads'[t].held = <<>> /\ threads'[t].word = 0 BY <1>6
    <2>2. 0 \in Word BY PolicyNumbers DEF Sound, Word
    <2>3. ASSUME threads'[t].todo # {} PROVE Min(threads'[t].todo) \in Chosen(k)
      <3>1. threads'[t].todo \subseteq Chosen(k) BY <1>7 DEF Deals
      <3>2. threads'[t].todo \in SUBSET Nat BY <1>8, <3>1
      <3> QED BY <2>3, <3>1, <3>2, LeastIn
    <2> QED BY <1>8, <2>1, <2>2, <2>3 DEF Word
  <1>11. AddTold(m, k, threads', own, bits') BY <1>7, <1>10 DEF AddTold
  <1>15. AddGoing(m, k, was)' BY <1>2, <1>4, <1>6, <1>9, <1>11, AddGoingNext
  <1>12. Progress(m, was)' BY <1>2, <1>15, StillGoing
  <1>13. ZerosAreTrue(s)' BY <1>1, <1>2, ZerosRemain DEF Course
  <1>14. Course(m, s, e)' BY <1>1, <1>2, <1>12, <1>13, GoesOn
  <1>16. Arrays' BY <1>1, <1>2, ArraysStay DEF Arrays
  <1> QED BY <1>14, <1>16

\* What a thread of an add does with its next element, i: it is done with it, or it
\* goes on, perhaps to the next word.
Advanced(m, k, ts, us, then, t, i) ==
    /\ DOMAIN us = DOMAIN ts /\ \A u \in DOMAIN ts : u # t => us[u] = ts[u]
    /\ us[t].held = ts[t].held /\ us[t].word \in Word
    /\ \/ /\ us[t].todo = ts[t].todo \ {i} /\ us[t].word = 0
          /\ m[k.keys[i]] \subseteq then[k.f]
       \/ us[t].todo = ts[t].todo /\ us[t].word = ts[t].word
       \/ /\ us[t].todo = ts[t].todo /\ us[t].word = ts[t].word + 1
          /\ \A p \in m[k.keys[i]] : p[2] = ts[t].word => p \in then[k.f]

\* The next element of a thread is its own.
LEMMA NextIsOwn ==
    ASSUME NEW S \in SUBSET Nat, NEW ts, NEW own \in [S -> DOMAIN ts], Deals(ts, S, own),
           NEW t \in DOMAIN ts, ts[t].todo # {}
    PROVE  Min(ts[t].todo) \in S /\ Min(ts[t].todo) \in ts[t].todo
  <1>1. ts[t].todo \in SUBSET S BY DEF Deals
  <1>2. ts[t].todo \in SUBSET Nat BY <1>1
  <1> QED BY <1>1, <1>2, LeastIn

\* The books of an add after such a step.
LEMMA AddAdvances ==
    ASSUME NEW m, NEW k \in Launched, NEW S, S = Chosen(k), S \subseteq Nat,
           \A j \in S : \A p \in m[k.keys[j]] : p[2] \in Word,
           NEW ts, NEW own \in [S -> DOMAIN ts], NEW now, AddTold(m, k, ts, own, now),
           NEW t \in DOMAIN ts, ts[t].todo # {}, NEW i, i = Min(ts[t].todo),
           NEW us, NEW then, Advanced(m, k, ts, us, then, t, i), now[k.f] \subseteq then[k.f],
           Words \in Nat
    PROVE  AddTold(m, k, us, own, then)
  <1>1. /\ Deals(ts, S, own)
        /\ \A j \in S : j \in Todo(ts, S, own) \/ j \in Sunk(m, k, now)
    BY DEF AddTold
  <1>2. \A u \in DOMAIN ts :
             /\ ts[u].word \in Word /\ DOMAIN ts[u].held = {}
             /\ ts[u].todo # {} =>
                 \A p \in m[k.keys[Min(ts[u].todo)]] : p[2] < ts[u].word => p \in now[k.f]
    BY DEF AddTold
  <1>3. /\ DOMAIN us = DOMAIN ts /\ \A u \in DOMAIN ts : u # t => us[u] = ts[u]
        /\ us[t].held = ts[t].held /\ us[t].word \in Word
    BY DEF Advanced
  <1>4. \A u \in DOMAIN ts : ts[u].todo \in SUBSET {j \in S : own[j] = u} BY <1>1 DEF Deals
  <1>5. \A u \in DOMAIN ts : ts[u].todo \in SUBSET Nat /\ ts[u].todo \in SUBSET S BY <1>4
  <1>6. i \in ts[t].todo BY <1>5, LeastIn
  <1>7. i \in S /\ own[i] = t BY <1>4, <1>6
  <1>8. Sunk(m, k, now) \subseteq Sunk(m, k, then) BY DEF Sunk
  <1>9. us[t].todo \subseteq ts[t].todo BY DEF Advanced
  <1>10. Deals(us, S, own)
    <2> SUFFICES ASSUME NEW u \in DOMAIN ts
                 PROVE  /\ us[u].todo \cup DOMAIN us[u].held \subseteq {j \in S : own[j] = u}
                        /\ us[u].held \in [DOMAIN us[u].held -> Nat]
      BY <1>3 DEF Deals
    <2>1. /\ ts[u].todo \cup DOMAIN ts[u].held \subseteq {j \in S : own[j] = u}
          /\ ts[u].held \in [DOMAIN ts[u].held -> Nat]
      BY <1>1 DEF Deals
    <2>2. us[u].held = ts[u].held /\ us[u].todo \subseteq ts[u].todo BY <1>3, <1>9
    <2> QED BY ONLY <2>1, <2>2
  <1>11. ASSUME NEW j \in S PROVE j \in Todo(us, S, own) \/ j \in Sunk(m, k, then)
    <2>1. CASE j \in Sunk(m, k, now) BY <1>8, <2>1
    <2>2. CASE j \in Todo(ts, S, own) /\ (j # i \/ us[t].todo = ts[t].todo)
      <3>1. own[j] \in DOMAIN ts /\ j \in ts[own[j]].todo BY <2>2 DEF Todo
      <3>2. us[t].todo = ts[t].todo \/ us[t].todo = ts[t].todo \ {i} BY DEF Advanced
      <3>3. j \in us[own[j]].todo BY <1>3, <2>2, <3>1, <3>2
      <3> QED BY <3>3 DEF Todo
    <2>3. CASE j = i /\ us[t].todo # ts[t].todo
      <3>1. m[k.keys[i]] \subseteq then[k.f] BY <2>3 DEF Advanced
      <3> QED BY <2>3, <3>1 DEF Sunk
    <2> QED BY <1>1, <2>1, <2>2, <2>3
  <1>12. ASSUME NEW u \in DOMAIN us
         PROVE  /\ us[u].word \in Word /\ DOMAIN us[u].held = {}
                /\ us[u].todo # {} =>
                     \A p \in m[k.keys[Min(us[u].todo)]] : p[2] < us[u].word => p \in then[k.f]
    <2>1. CASE u # t BY <1>2, <1>3, <2>1
    <2>2. CASE u = t /\ us[t].todo = ts[t].todo /\ us[t].word = ts[t].word
      BY <1>2, <1>3, <2>2
    <2>3. CASE u = t /\ us[t].todo # ts[t].todo
      <3>1. us[t].word = 0 BY <2>3 DEF Advanced
      <3>2. ASSUME us[t].todo # {} PROVE Min(us[t].todo) \in S
        <4>1. us[t].todo \in SUBSET Nat /\ us[t].todo \subseteq S BY <1>5, <1>9
        <4> QED BY <3>2, <4>1, LeastIn
      <3>3. us[t].todo # {} => \A p \in m[k.keys[Min(us[t].todo)]] : ~(p[2] < 0)
        BY <3>2 DEF Word
      <3> QED BY <1>2, <1>3, <2>3, <3>1, <3>3
    <2>4. CASE u = t /\ us[t].todo = ts[t].todo /\ us[t].word # ts[t].word
      <3>0. us[t].todo # ts[t].todo \ {i} BY <1>6, <2>4
      <3>1. /\ us[t].word = ts[t].word + 1
            /\ \A p \in m[k.keys[i]] : p[2] = ts[t].word => p \in then[k.f]
        BY <2>4, <3>0 DEF Advanced
      <3>2. ASSUME NEW p \in m[k.keys[i]], p[2] < us[t].word PROVE p \in then[k.f]
        <4>1. p[2] \in Word /\ ts[t].word \in Word BY <1>2, <1>7
        <4>2. p[2] < ts[t].word => p \in now[k.f] BY <1>2
        <4>3. p[2] < ts[t].word \/ p[2] = ts[t].word
          <5>1. \A x, y \in Word : x < y + 1 => x < y \/ x = y BY DEF Word
          <5> QED BY <3>1, <3>2, <4>1, <5>1
        <4> QED BY <3>1, <4>2, <4>3
      <3> QED BY <1>2, <1>3, <2>4, <3>2
    <2> QED BY <2>1, <2>2, <2>3, <2>4
  <1> QED BY <1>7, <1>10, <1>11, <1>12 DEF AddTold

\* A thread of an add writes bits of its next element, or looks at them.
LEMMA AddWrites ==
    ASSUME Sound, NEW m, NEW s, NEW e, Here(m, s, e), NEW k, k = Head(queue), queue # <<>>,
           k.op \in {"add", "add if"}, NEW t \in DOMAIN threads, threads[t].todo # {},
           KeepQueue, UNCHANGED <<local, workspace>>,
           NEW i, i = Upcoming(t), NEW X \in SUBSET m[k.keys[i]],
           bits' = [bits EXCEPT ![k.f] = @ \cup X],
           Advanced(m, k, threads, threads', bits', t, i)
    PROVE  Arrays' /\ Course(m, s, e)'
  <1> SUFFICES ASSUME NEW was, was = s.content, NEW S, S = Chosen(k)
               PROVE  Arrays' /\ Course(m, s, e)'
    OBVIOUS
  <1>1. Arrays /\ StreamInv /\ Course(m, s, e) /\ m = Marks BY DEF Here
  <1>2. UNCHANGED <<layout, host, local, counters, slots, counts, records, selected>>
    BY DEF KeepQueue, KeepHost, workspace
  <1>3. k \in Launched /\ s \in State(m) /\ Ready(m, k, s) BY <1>1, Beginning DEF Course
  <1>4. threads # <<>> BY SomeThread
  <1>5. AddGoing(m, k, was) BY <1>1, <1>4 DEF Course, Progress, Fresh
  <1>6. local = <<>> /\ Between(m, k, was, bits, Block) BY <1>5 DEF AddGoing
  <1>7. PICK own \in [S -> DOMAIN threads] : AddTold(m, k, threads, own, bits)
    BY <1>5 DEF AddGoing
  <1>8. /\ S \subseteq Nat
        /\ \A j \in S : /\ m[k.keys[j]] \subseteq Gain(m, k)
                        /\ \A p \in m[k.keys[j]] : p[1] \in Block /\ p[2] \in Word
    <2>1. Len(k.sel) = Len(k.keys) BY <1>3 DEF Ready, Batched
    <2>2. HashesOK /\ PolicyOK BY DEF Sound
    <2>3. /\ S \subseteq Nat
          /\ \A j \in S : /\ m[k.keys[j]] = BitsOf(k.keys[j])
                          /\ BitsOf(k.keys[j]) \subseteq Gain(m, k)
                          /\ BlockIndex(UpperHash(k.keys[j])) \in Block
                          /\ \A p \in BitsOf(k.keys[j]) :
                               p[1] = BlockIndex(UpperHash(k.keys[j])) /\ p[2] \in Word
      BY <1>1, <1>3, <2>1, <2>2, Elements
    <2> QED BY ONLY <2>3
  <1>9. Words \in Nat
    <2>1. HashesOK /\ PolicyOK BY DEF Sound
    <2> QED BY <2>1, PolicyNumbers
  <1>10. bits \in Content(m) /\ k.f \in Filter BY <1>3, <1>6 DEF Between, Launched
  <1>11. bits'[k.f] = bits[k.f] \cup X BY <1>10 DEF Content
  <1>12. i \in S /\ AddTold(m, k, threads', own, bits')
    <2>1. \A j \in S : \A p \in m[k.keys[j]] : p[2] \in Word BY <1>8
    <2>2. i = Min(threads[t].todo) BY DEF Upcoming
    <2>3. bits[k.f] \subseteq bits'[k.f] BY <1>11
    <2>4. S \subseteq Nat BY <1>8
    <2>5. Advanced(m, k, threads, threads', bits', t, i) OBVIOUS
    <2>6. S = Chosen(k) /\ t \in DOMAIN threads /\ threads[t].todo # {} OBVIOUS
    <2>7. k \in Launched BY <1>3
    <2>8. own \in [S -> DOMAIN threads] BY <1>7
    <2>9. AddTold(m, k, threads, own, bits) BY <1>7
    <2>10. AddTold(m, k, threads', own, bits')
      BY ONLY <2>6, <2>7, <2>8, <2>9, <1>9, <2>1, <2>2, <2>3, <2>4, <2>5, AddAdvances
    <2>11. i \in S
      <3>1. Deals(threads, S, own) BY <2>9 DEF AddTold
      <3>2. S \in SUBSET Nat BY <2>4
      <3> QED BY ONLY <2>2, <2>6, <2>8, <3>1, <3>2, NextIsOwn
    <2> QED BY <2>10, <2>11
  <1>13. Block' = Block BY <1>2, Rigid
  <1>14. Between(m, k, was, bits', Block')
    <2>1. X \subseteq Gain(m, k) /\ \A p \in X : p[1] \in Block BY <1>8, <1>12
    <2>2. \A p \in bits[k.f] \cup X : p[1] \in Block \/ p \in X => p[1] \in Block BY <2>1
    <2>3. bits' = Enlarged(bits, k.f, X) BY DEF Enlarged
    <2>4. Between(m, k, was, bits', Block) BY ONLY <1>3, <1>6, <2>1, <2>2, <2>3, BitsGrow
    <2> QED BY <1>13, <2>4
  <1>15. DOMAIN threads' = DOMAIN threads BY DEF Advanced
  <1>16. threads' # <<>> BY <1>15, SomeThread
  <1>17. AddGoing(m, k, was)'
    <2>1. own \in [Chosen(k) -> DOMAIN threads'] BY <1>7, <1>15
    <2> QED BY <1>2, <1>6, <1>12, <1>14, <1>16, <2>1, AddGoingNext
  <1>18. Progress(m, was)' BY <1>17, StillGoing
  <1>19. ZerosAreTrue(s)' BY <1>1, <1>2, <1>16, ZerosRemain DEF Course
  <1>20. Course(m, s, e)' BY <1>1, <1>18, <1>19, GoesOn
  <1>21. Arrays' BY <1>1, <1>2, ArraysStay DEF Arrays
  <1> QED BY <1>20, <1>21

\* The bits of a key, word by word.
LEMMA WordByWord ==
    ASSUME HashesOK, PolicyOK, NEW x \in Key, NEW w \in Word
    PROVE  /\ InBlock(BlockIndex(UpperHash(x)), WordPattern(w, LowerHash(x))) \subseteq BitsOf(x)
           /\ \A p \in BitsOf(x) : p[2] = w =>
                p \in InBlock(BlockIndex(UpperHash(x)), WordPattern(w, LowerHash(x)))
           /\ \A p \in BitsOf(x) : p[2] \in Word
  <1> DEFINE b == BlockIndex(UpperHash(x))
             l == LowerHash(x)
  <1>1. BitsOf(x) = UNION {InBlock(b, WordPattern(v, l)) : v \in Word} BY Marked
  <1>2. l \in Nat
    <2>1. l \in 0..(2^HashBits - 1) /\ 2^HashBits \in Nat BY Halves, Powers
    <2> QED BY <2>1
  <1>3. \A v \in Word : WordPattern(v, l) \subseteq {v} \X Place BY <1>2, Patterns
  <1> HIDE DEF b, l
  <1>4. \A v \in Word : \A p \in InBlock(b, WordPattern(v, l)) : p[2] = v BY <1>3 DEF InBlock
  <1> QED BY <1>1, <1>4 DEF b, l

\* The fields of a thread after a step.
LEMMA KeyIsDone ==
    ASSUME ShapeInv, NEW t \in DOMAIN threads, KeyDone(t)
    PROVE  /\ threads'[t].todo = threads[t].todo \ {Upcoming(t)}
           /\ threads'[t].held = threads[t].held /\ threads'[t].word = 0
  BY DEF KeyDone, Rest, ShapeInv, ThreadFields

\* A thread goes on to the next word of its key.
LEMMA WordIsDone ==
    ASSUME ShapeInv, NEW t \in DOMAIN threads,
           \/ threads' = [threads EXCEPT ![t].word = @ + 1, ![t].seen = <<>>]
           \/ threads' = [threads EXCEPT ![t].seen = <<"missing">>]
    PROVE  /\ threads'[t].todo = threads[t].todo /\ threads'[t].held = threads[t].held
           /\ \/ threads'[t].word = threads[t].word
              \/ /\ threads' = [threads EXCEPT ![t].word = @ + 1, ![t].seen = <<>>]
                 /\ threads'[t].word = threads[t].word + 1
  <1>1. DOMAIN threads[t] = ThreadFields BY DEF ShapeInv
  <1>2. CASE threads' = [threads EXCEPT ![t].word = @ + 1, ![t].seen = <<>>]
    BY <1>1, <1>2 DEF ThreadFields
  <1>3. CASE threads' = [threads EXCEPT ![t].seen = <<"missing">>]
    BY <1>1, <1>3 DEF ThreadFields
  <1> QED BY <1>2, <1>3

\* Where a thread of an add stands.
LEMMA AddStands ==
    ASSUME Sound, NEW m, NEW s, NEW e, Here(m, s, e), NEW k, k = Head(queue), queue # <<>>,
           k.op \in {"add", "add if"}, NEW t \in DOMAIN threads, threads[t].todo # {},
           NEW i, i = Upcoming(t)
    PROVE  /\ k.keys[i] \in Key
           /\ threads[t].word \in Word /\ k.f \in Filter /\ bits \in [Filter -> SUBSET Bit]
           /\ \A p \in m[k.keys[i]] : p[2] < threads[t].word => p \in bits[k.f]
  <1> SUFFICES ASSUME NEW was, was = s.content, NEW S, S = Chosen(k)
               PROVE  /\ k.keys[i] \in Key
                      /\ threads[t].word \in Word /\ k.f \in Filter
                      /\ bits \in [Filter -> SUBSET Bit]
                      /\ \A p \in m[k.keys[i]] : p[2] < threads[t].word => p \in bits[k.f]
    OBVIOUS
  <1>1. StreamInv /\ Course(m, s, e) /\ m = Marks BY DEF Here
  <1>2. k \in Launched /\ s \in State(m) /\ Ready(m, k, s) BY <1>1, Beginning DEF Course
  <1>3. threads # <<>> BY SomeThread
  <1>4. AddGoing(m, k, was) BY <1>1, <1>3 DEF Course, Progress, Fresh
  <1>5. Between(m, k, was, bits, Block) BY <1>4 DEF AddGoing
  <1>6. PICK own \in [S -> DOMAIN threads] : AddTold(m, k, threads, own, bits)
    BY <1>4 DEF AddGoing
  <1>7. HashesOK /\ PolicyOK /\ Len(k.sel) = Len(k.keys) BY <1>2 DEF Ready, Batched, Sound
  <1>8. S \subseteq Nat /\ \A j \in S : k.keys[j] \in Key /\ m[k.keys[j]] = BitsOf(k.keys[j])
    BY <1>1, <1>2, <1>7, Elements
  <1>9. i \in S
    <2>1. Deals(threads, S, own) BY <1>6 DEF AddTold
    <2>2. S \in SUBSET Nat /\ i = Min(threads[t].todo) BY <1>8 DEF Upcoming
    <2>3. t \in DOMAIN threads /\ threads[t].todo # {} OBVIOUS
    <2> QED BY ONLY <1>6, <2>1, <2>2, <2>3, NextIsOwn
  <1>10. /\ threads[t].word \in Word
         /\ \A p \in m[k.keys[i]] : p[2] < threads[t].word => p \in bits[k.f]
    BY <1>6 DEF AddTold, Upcoming
  <1>11. bits \in [Filter -> SUBSET Bit]
    <2>1. UNION {m[x] : x \in Key} \subseteq Bit BY <1>1, <1>7, Marked DEF Marks
    <2>2. bits \in [Filter -> SUBSET UNION {m[x] : x \in Key}] BY <1>5 DEF Between, Content
    <2> QED BY ONLY <2>1, <2>2
  <1> QED BY <1>2, <1>8, <1>9, <1>10, <1>11 DEF Launched

\* AddPackedPairs.
LEMMA PairsAdded ==
    ASSUME Sound, NEW m, NEW s, NEW e, Here(m, s, e), NEW t, AddPackedPairs(t)
    PROVE  Arrays' /\ \E d : Course(m, d, e)'
  <1> SUFFICES ASSUME NEW k, k = Head(queue), NEW i, i = Upcoming(t)
               PROVE  Arrays' /\ Course(m, s, e)'
    OBVIOUS
  <1>1. /\ queue # <<>> /\ k.op \in {"add", "add if"}
        /\ t \in DOMAIN threads /\ threads[t].todo # {}
        /\ KeepQueue /\ UNCHANGED <<local, workspace>> /\ KeyDone(t)
    BY DEF AddPackedPairs, AtKey, Running, This
  <1>2. bits' = [bits EXCEPT ![k.f] = @ \cup BitsOf(k.keys[i])]
    BY DEF AddPackedPairs, Write, BitsOf, This, KeyAt
  <1>3. k.keys[i] \in Key /\ m[k.keys[i]] = BitsOf(k.keys[i]) /\ k.f \in Filter
    <2>1. k.keys[i] \in Key BY <1>1, AddStands
    <2>2. m = Marks BY DEF Here
    <2>3. k.f \in Filter BY <1>1, AddStands
    <2> QED BY <2>1, <2>2, <2>3 DEF Marks
  <1>4. bits \in [Filter -> SUBSET Bit] BY <1>1, AddStands
  <1>5. m[k.keys[i]] \subseteq bits'[k.f] BY <1>2, <1>3, <1>4
  <1>6. Advanced(m, k, threads, threads', bits', t, i)
    <2>1. ShapeInv /\ 0 \in Word BY PolicyNumbers DEF Here, Sound, Word
    <2>2. /\ threads'[t].todo = threads[t].todo \ {Upcoming(t)}
          /\ threads'[t].held = threads[t].held /\ threads'[t].word = 0
      BY <1>1, <2>1, KeyIsDone
    <2>3. /\ DOMAIN threads' = DOMAIN threads
          /\ \A u \in DOMAIN threads : u # t => threads'[u] = threads[u]
      BY <1>1, <2>1, SameFields
    <2> QED BY <1>5, <2>1, <2>2, <2>3 DEF Advanced
  <1>7. BitsOf(k.keys[i]) \in SUBSET m[k.keys[i]] BY <1>3
  <1>8. Sound /\ Here(m, s, e) /\ k = Head(queue) /\ i = Upcoming(t) OBVIOUS
  <1> QED BY ONLY <1>1, <1>2, <1>6, <1>7, <1>8, AddWrites

\* AddWord.
LEMMA WordsAdded ==
    ASSUME Sound, NEW m, NEW s, NEW e, Here(m, s, e), NEW t, AddWord(t)
    PROVE  Arrays' /\ \E d : Course(m, d, e)'
  <1> SUFFICES ASSUME NEW k, k = Head(queue), NEW i, i = Upcoming(t), NEW x, x = k.keys[i],
                      NEW w, w = threads[t].word, NEW P,
                      P = InBlock(BlockIndex(UpperHash(x)), WordPattern(w, LowerHash(x)))
               PROVE  Arrays' /\ Course(m, s, e)'
    OBVIOUS
  <1>1. /\ queue # <<>> /\ k.op \in {"add", "add if"}
        /\ t \in DOMAIN threads /\ threads[t].todo # {}
        /\ KeepQueue /\ UNCHANGED <<local, workspace>>
    BY DEF AddWord, AtKey, Running, This
  <1>2. /\ x \in Key /\ k.f \in Filter /\ w \in Word
        /\ \A p \in m[x] : p[2] < w => p \in bits[k.f]
    <2>1. k.keys[i] \in Key BY <1>1, AddStands
    <2>2. k.f \in Filter /\ threads[t].word \in Word BY <1>1, AddStands
    <2>3. \A p \in m[k.keys[i]] : p[2] < threads[t].word => p \in bits[k.f] BY <1>1, AddStands
    <2> QED BY <2>1, <2>2, <2>3
  <1>3. bits \in [Filter -> SUBSET Bit] BY <1>1, AddStands
  <1>4. m[x] = BitsOf(x) BY <1>2 DEF Here, Marks
  <1>5. /\ P \subseteq m[x] /\ (\A p \in m[x] : p[2] = w => p \in P)
        /\ \A p \in m[x] : p[2] \in Word
    <2>1. HashesOK /\ PolicyOK BY DEF Sound
    <2> QED BY <1>2, <1>4, <2>1, WordByWord
  <1>6. /\ ShapeInv /\ 0 \in Word /\ Words \in Nat BY PolicyNumbers DEF Here, Sound, Word
  <1>7. ASSUME NEW X \in {{}, P}, bits' = [bits EXCEPT ![k.f] = @ \cup X],
               Advanced(m, k, threads, threads', bits', t, i)
        PROVE  Arrays' /\ Course(m, s, e)'
    <2>1. X \in SUBSET m[k.keys[i]] BY <1>5
    <2>2. Sound /\ Here(m, s, e) /\ k = Head(queue) /\ i = Upcoming(t) OBVIOUS
    <2> QED BY ONLY <1>1, <1>7, <2>1, <2>2, AddWrites
  <1>8. ASSUME NEW X \in {{}, P}, bits' = [bits EXCEPT ![k.f] = @ \cup X], NextWord(t),
               P \subseteq bits'[k.f]
        PROVE  Arrays' /\ Course(m, s, e)'
    <2>0. bits[k.f] \subseteq bits'[k.f] BY <1>2, <1>3, <1>8
    <2>1. CASE w + 1 = Words
      <3>1. KeyDone(t) BY <1>8, <2>1 DEF NextWord
      <3>2. /\ threads'[t].todo = threads[t].todo \ {i}
            /\ threads'[t].held = threads[t].held /\ threads'[t].word = 0
        BY <1>1, <1>6, <3>1, KeyIsDone
      <3>3. /\ DOMAIN threads' = DOMAIN threads
            /\ \A u \in DOMAIN threads : u # t => threads'[u] = threads[u]
        BY ONLY <1>1, <1>6, <3>1, SameFields, Zenon
      <3>4. m[x] \subseteq bits'[k.f]
        <4> SUFFICES ASSUME NEW p \in m[x] PROVE p \in bits'[k.f] OBVIOUS
        <4>1. p[2] \in Word BY <1>5
        <4>2. p[2] < w \/ p[2] = w BY <1>2, <1>6, <2>1, <4>1 DEF Word
        <4> QED BY <1>2, <1>5, <1>8, <2>0, <4>2
      <3>5. Advanced(m, k, threads, threads', bits', t, i)
        BY <1>6, <3>2, <3>3, <3>4 DEF Advanced
      <3> QED BY <1>7, <1>8, <3>5
    <2>2. CASE w + 1 # Words
      <3>1. threads' = [threads EXCEPT ![t].word = @ + 1, ![t].seen = <<>>]
        BY <1>8, <2>2 DEF NextWord
      <3>2. threads'[t].todo = threads[t].todo /\ threads'[t].held = threads[t].held
        BY <1>1, <1>6, <3>1, WordIsDone, Zenon
      <3>3. threads'[t].word = w + 1
        <4>1. DOMAIN threads[t] = ThreadFields BY <1>1, <1>6 DEF ShapeInv
        <4> QED BY <1>1, <3>1, <4>1 DEF ThreadFields
      <3>4. /\ DOMAIN threads' = DOMAIN threads
            /\ \A u \in DOMAIN threads : u # t => threads'[u] = threads[u]
        BY <3>1
      <3>5. w + 1 \in Word BY ONLY <1>2, <1>6, <2>2 DEF Word
      <3>6. \A p \in m[x] : p[2] = w => p \in bits'[k.f] BY <1>5, <1>8
      <3>7. Advanced(m, k, threads, threads', bits', t, i)
        BY <3>2, <3>3, <3>4, <3>5, <3>6 DEF Advanced
      <3> QED BY <1>7, <1>8, <3>7
    <2> QED BY <2>1, <2>2
  <1>9. CASE layout = "conditional" /\ threads[t].seen = <<>>
    <2>1. bits' = bits BY <1>9 DEF AddWord
    <2>2. bits' = [bits EXCEPT ![k.f] = @ \cup {}] BY <1>2, <1>3, <2>1
    <2>3. CASE ContainsWord(This.f, x, w)
      <3>1. NextWord(t) BY <1>9, <2>3 DEF AddWord, KeyAt, This
      <3>2. P \subseteq bits'[k.f] BY <2>1, <2>3 DEF ContainsWord, This
      <3> QED BY <1>8, <2>2, <3>1, <3>2
    <2>4. CASE ~ContainsWord(This.f, x, w)
      <3>1. threads' = [threads EXCEPT ![t].seen = <<"missing">>]
        BY <1>9, <2>4 DEF AddWord, KeyAt, This
      <3>2. threads'[t].todo = threads[t].todo /\ threads'[t].held = threads[t].held
        BY <1>1, <1>6, <3>1, WordIsDone
      <3>3. threads'[t].word = w
        <4>1. DOMAIN threads[t] = ThreadFields BY <1>1, <1>6 DEF ShapeInv
        <4> QED BY <1>1, <3>1, <4>1 DEF ThreadFields
      <3>4. /\ DOMAIN threads' = DOMAIN threads
            /\ \A u \in DOMAIN threads : u # t => threads'[u] = threads[u]
        BY <3>1
      <3>5. Advanced(m, k, threads, threads', bits', t, i)
        BY <1>2, <3>2, <3>3, <3>4, Zenon DEF Advanced
      <3> QED BY <1>7, <2>2, <3>5
    <2> QED BY <2>3, <2>4
  <1>10. CASE ~(layout = "conditional" /\ threads[t].seen = <<>>)
    <2>1. bits' = [bits EXCEPT ![k.f] = @ \cup P] /\ NextWord(t)
      BY <1>10, Zenon DEF AddWord, Write, KeyAt, This
    <2>2. P \subseteq bits'[k.f] BY <1>2, <1>3, <2>1
    <2> QED BY <1>8, <2>1, <2>2
  <1> QED BY <1>9, <1>10

\* EndAdd.
LEMMA AddEnds ==
    ASSUME Sound, NEW m, NEW s, NEW e, Here(m, s, e), EndAdd
    PROVE  Arrays' /\ \E d : Course(m, d, e)'
  <1> SUFFICES ASSUME NEW k, k = Head(queue), NEW S, S = Chosen(k), NEW d, d = Executed(m, k, s)
               PROVE  Arrays' /\ Course(m, d, e)'
    OBVIOUS
  <1>1. Arrays /\ StreamInv /\ Course(m, s, e) BY DEF Here
  <1>2. /\ queue # <<>> /\ Finish /\ k.op \in {"add", "add if"} /\ AllIdle
        /\ UNCHANGED <<layout, host, bits, counters, slots, counts, records, selected>>
    BY DEF EndAdd, Running, This, Finish, KeepHost, workspace
  <1>3. k \in Launched /\ s \in State(m) BY <1>1, <1>2, Beginning DEF Course
  <1>4. AddGoing(m, k, s.content) BY <1>1, <1>2 DEF Course, Progress, Fresh, AllIdle
  <1>5. Between(m, k, s.content, bits, Block) BY <1>4 DEF AddGoing
  <1>6. PICK own \in [S -> DOMAIN threads] : AddTold(m, k, threads, own, bits)
    BY <1>4 DEF AddGoing
  <1>7. Chosen(k) \subseteq Sunk(m, k, bits)
    <2>1. \A t \in DOMAIN threads : threads[t].todo = {} BY <1>2 DEF AllIdle, Idle
    <2>2. Todo(threads, S, own) = {} BY <1>6, <2>1 DEF Todo
    <2> QED BY <1>6, <2>2 DEF AddTold
  <1>8. bits = [s.content EXCEPT ![k.f] = s.content[k.f] \cup Gain(m, k)]
    BY <1>3, <1>5, <1>7, BitsComplete
  <1>9. bits' = d.content
    <2>1. Contents(m, k, s.content) = s.content[k.f] \cup Gain(m, k) BY <1>2 DEF Contents
    <2> QED BY <1>2, <1>8, <2>1 DEF Executed
  <1>10. k.op \notin RouteKinds \cup {"apply", "clear workspace"}
    BY <1>2 DEF RouteKinds, Routes
  <1>11. Course(m, d, e)' BY <1>1, <1>2, <1>9, <1>10, PlainEnd
  <1>12. Arrays' BY <1>1, <1>2, ArraysStay DEF Arrays
  <1> QED BY <1>11, <1>12

--------------------------------------------------------------------------------
(* The routed add. *)

\* A route, after a step.
LEMMA RouteGoingNext ==
    ASSUME layout' = layout, host' = host, NEW m, NEW k, NEW was
    PROVE  RouteGoing(m, k, was)' <=>
            /\ threads' # <<>> /\ local' = <<>>
            /\ Between(m, k, was, bits', {b \in Block : counters'[k.f][b] > host[k.f].slots})
            /\ \E own \in [Chosen(k) -> DOMAIN threads'] :
                /\ Deals(threads', Chosen(k), own)
                /\ Books(Chosen(k), Block, Todo(threads', Chosen(k), own),
                         Held(threads', Chosen(k), own), Tickets(threads', Chosen(k), own),
                         BlockOf(k), counters'[k.f], host[k.f].slots,
                         RoutedPut(k, slots'[k.f], host[k.f].slots), Sunk(m, k, bits'))
  <1>1. Block' = Block /\ BlockOf(k)' = BlockOf(k) BY Rigid DEF BlockOf
  <1>2. FullBlocks(k)' = {b \in Block : counters'[k.f][b] > host[k.f].slots}
    BY <1>1 DEF FullBlocks
  <1>3. Between(m, k, was, bits, FullBlocks(k))' = Between(m, k, was, bits', FullBlocks(k)')
    BY DEF Between
  <1>4. \A own : Deals(threads, Chosen(k), own)' = Deals(threads', Chosen(k), own) BY DEF Deals
  <1>5. RoutedPut(k, slots[k.f], host[k.f].slots)' = RoutedPut(k, slots'[k.f], host[k.f].slots)
    BY <1>1 DEF RoutedPut
  <1>6. \A own : Books(Chosen(k), Block, Todo(threads, Chosen(k), own),
                       Held(threads, Chosen(k), own), Tickets(threads, Chosen(k), own),
                       BlockOf(k), counters[k.f], host[k.f].slots,
                       RoutedPut(k, slots[k.f], host[k.f].slots), Sunk(m, k, bits))' =
                 Books(Chosen(k), Block, Todo(threads', Chosen(k), own),
                       Held(threads', Chosen(k), own), Tickets(threads', Chosen(k), own),
                       BlockOf(k), counters'[k.f], host[k.f].slots,
                       RoutedPut(k, slots'[k.f], host[k.f].slots), Sunk(m, k, bits'))
    BY <1>1, <1>5 DEF Books, Todo, Held, Tickets, Sunk
  <1> QED BY <1>2, <1>3, <1>4, <1>6 DEF RouteGoing

\* The counters of the kernel's own filter are not expected to be zero.
LEMMA ZerosRouting ==
    ASSUME KeepQueue, queue # <<>>, Head(queue).op = "route", threads' # <<>>, NEW s,
           \A f \in Filter : f # Head(queue).f => counters'[f] = counters[f], ZerosAreTrue(s)
    PROVE  ZerosAreTrue(s)'
  <1> SUFFICES ASSUME NEW k, k = Head(queue) PROVE ZerosAreTrue(s)' OBVIOUS
  <1>1. layout' = layout /\ queue' = queue BY DEF KeepQueue, KeepHost
  <1> SUFFICES ASSUME NEW f \in Filter, s.zero[f]
               PROVE  \/ Zero(f)'
                      \/ threads' # <<>> /\ Head(queue').op = "route" /\ Head(queue').f = f
    BY DEF ZerosAreTrue
  <1>2. CASE f = k.f BY <1>1, <1>2
  <1>3. CASE f # k.f
    <2>1. Zero(f) BY <1>3 DEF ZerosAreTrue
    <2> QED BY <1>1, <1>3, <2>1, ZerosStay
  <1> QED BY <1>2, <1>3

\* Where a route stands when it begins.
LEMMA RouteStands ==
    ASSUME Sound, NEW m, NEW s, NEW e, Here(m, s, e), queue # <<>>,
           NEW k, k = Head(queue), k.op \in RouteKinds
    PROVE  /\ k \in Launched /\ s \in State(m) /\ s.content \in Content(m) /\ k.f \in Filter
           /\ Chosen(k) \subseteq Nat
           /\ \A i \in Chosen(k) : k.keys[i] \in Key
           /\ BlockOf(k) \in [Chosen(k) -> Block] /\ host[k.f].slots \in Nat
           /\ \A i \in Chosen(k) : BlockOf(k)[i] = BlockIndex(UpperHash(k.keys[i]))
           /\ \A i \in Chosen(k) : UpperHash(k.keys[i]) \in 0..(2^HashBits - 1)
  <1>1. StreamInv /\ Course(m, s, e) /\ m = Marks BY DEF Here
  <1>2. k \in Launched /\ s \in State(m) /\ Ready(m, k, s) BY <1>1, Beginning DEF Course
  <1>3. HashesOK /\ PolicyOK /\ Len(k.sel) = Len(k.keys) BY <1>2 DEF Ready, Batched, Sound
  <1>4. Chosen(k) \subseteq Nat BY <1>1, <1>2, <1>3, Elements
  <1>5. \A i \in Chosen(k) :
            /\ k.keys[i] \in Key /\ UpperHash(k.keys[i]) \in 0..(2^HashBits - 1)
            /\ BlockIndex(UpperHash(k.keys[i])) \in Block
    BY <1>1, <1>2, <1>3, Elements
  <1>6. k.f \in Filter /\ s.content \in Content(m) BY <1>2 DEF Launched, State
  <1>7. host[k.f].slots \in Nat BY <1>6 DEF Here, HostInv, Object
  <1> QED BY <1>2, <1>4, <1>5, <1>6, <1>7 DEF BlockOf

\* RoutePackedH8V1.
LEMMA RouteBegins ==
    ASSUME Sound, NEW m, NEW s, NEW e, Here(m, s, e), RoutePackedH8V1
    PROVE  Arrays' /\ \E d : Course(m, d, e)'
  <1> SUFFICES ASSUME NEW k, k = Head(queue), NEW was, was = s.content, NEW S, S = Chosen(k),
                      NEW us, us = threads', NEW cap, cap = host[k.f].slots
               PROVE  Arrays' /\ Course(m, s, e)'
    OBVIOUS
  <1>1. Arrays /\ StreamInv /\ Course(m, s, e) BY DEF Here
  <1>2. /\ queue # <<>> /\ k.op = "route" /\ threads = <<>> /\ KeepQueue
        /\ UNCHANGED <<layout, host, local, bits, counters, slots, counts, records, selected>>
        /\ threads' = [t \in 0..(CoreThreads - 1) |-> Thread(Strided(t, CoreThreads))]
    BY DEF RoutePackedH8V1, Begin, Running, This, KeepQueue, KeepHost, workspace
  <1>3. k.op \in RouteKinds BY <1>2 DEF RouteKinds
  <1>4. /\ k \in Launched /\ k.f \in Filter /\ was \in Content(m) BY <1>2, <1>3, RouteStands
  <1>5. BlockOf(k) \in [S -> Block] /\ cap \in Nat BY <1>2, <1>3, RouteStands
  <1>6. Ready(m, k, s) /\ Progress(m, was) /\ ZerosAreTrue(s) BY <1>1, <1>2, Beginning DEF Course
  <1>7. bits = was /\ local = <<>> BY <1>2, <1>6 DEF Progress, Fresh, RouteGoing
  <1>8. \A b \in Block : counters[k.f][b] = 0
    BY <1>2, <1>4, <1>6 DEF Ready, ZerosAreTrue, Zero
  <1>9. CoreThreads \in Nat \ {0} BY DEF Sound, WorkersOK
  <1>10. us # <<>> BY <1>2, <1>4, <1>9, Begun
  <1>11. PICK own \in [S -> DOMAIN us] :
            /\ Deals(us, S, own) /\ Todo(us, S, own) = S /\ Held(us, S, own) = {}
            /\ Tickets(us, S, own) \in [S -> Nat]
    BY <1>2, <1>4, <1>9, Begun
  <1>12. counters[k.f] \in [Block -> Nat] BY <1>1, <1>4 DEF StreamInv
  <1>13. ASSUME NEW put, NEW sunk
         PROVE  Books(S, Block, Todo(us, S, own), Held(us, S, own), Tickets(us, S, own),
                      BlockOf(k), counters[k.f], cap, put, sunk)
    <2>1. Books(S, Block, S, {}, Tickets(us, S, own), BlockOf(k), counters[k.f], cap, put, sunk)
      BY ONLY <1>5, <1>8, <1>11, <1>12, BooksOpen
    <2> QED BY <1>11, <2>1
  <1>14. ASSUME NEW over PROVE Between(m, k, was, bits', over) BY <1>2, <1>4, <1>7 DEF Between
  <1>15. RouteGoing(m, k, was)' BY <1>2, <1>7, <1>10, <1>11, <1>13, <1>14, RouteGoingNext
  <1>16. Progress(m, was)' BY <1>2, <1>15, StillGoing
  <1>17. ZerosAreTrue(s)' BY <1>2, <1>6, <1>10, ZerosRemain
  <1>18. Course(m, s, e)' BY <1>1, <1>2, <1>16, <1>17, GoesOn
  <1>19. Arrays' BY <1>1, <1>2, ArraysStay DEF Arrays
  <1> QED BY <1>18, <1>19

\* RouteTicket: the next ticket of the key's block.
LEMMA RouteTakes ==
    ASSUME Sound, NEW m, NEW s, NEW e, Here(m, s, e), NEW t, RouteTicket(t)
    PROVE  Arrays' /\ \E d : Course(m, d, e)'
  <1> SUFFICES ASSUME NEW k, k = Head(queue), NEW was, was = s.content, NEW S, S = Chosen(k),
                      NEW ts, ts = threads, NEW us, us = threads', NEW cap, cap = host[k.f].slots,
                      NEW i, i = Upcoming(t), NEW b, b = RoutedBlockIndex(UpperHash(k.keys[i])),
                      NEW count, count = counters[k.f], NEW tally, tally = counters'[k.f],
                      NEW put, put = RoutedPut(k, slots[k.f], cap), NEW cell, cell = BlockOf(k),
                      NEW sunk, sunk = Sunk(m, k, bits)
               PROVE  Arrays' /\ Course(m, s, e)'
    OBVIOUS
  <1>1. Arrays /\ StreamInv /\ ShapeInv /\ Course(m, s, e) BY DEF Here
  <1>2. /\ queue # <<>> /\ k.op = "route" /\ t \in DOMAIN ts /\ ts[t].todo # {} /\ KeepQueue
        /\ UNCHANGED <<layout, host, local, bits, slots, counts, records, selected>>
        /\ us = [ts EXCEPT ![t].todo = Rest(t), ![t].held = With(@, i, count[b])]
        /\ counters' = [counters EXCEPT ![k.f][b] = @ + 1]
    BY Zenon DEF RouteTicket, AtKey, Running, This, KeepQueue, KeepHost, KeyAt
  <1>3. k.op \in RouteKinds BY <1>2, Zenon DEF RouteKinds
  <1>4. /\ k \in Launched /\ k.f \in Filter BY <1>2, <1>3, RouteStands, Zenon
  <1>5. cell \in [S -> Block] /\ cap \in Nat BY <1>2, <1>3, RouteStands, Zenon
  <1>6. /\ \A j \in S : cell[j] = BlockIndex(UpperHash(k.keys[j]))
        /\ \A j \in S : UpperHash(k.keys[j]) \in 0..(2^HashBits - 1)
    <2>1. \A j \in Chosen(k) : BlockOf(k)[j] = BlockIndex(UpperHash(k.keys[j]))
      BY <1>2, <1>3, RouteStands, Zenon
    <2>2. \A j \in Chosen(k) : UpperHash(k.keys[j]) \in 0..(2^HashBits - 1)
      BY <1>2, <1>3, RouteStands, Zenon
    <2> QED BY <2>1, <2>2, Zenon
  <1>7. S \in SUBSET Nat BY <1>2, <1>3, RouteStands, Zenon
  <1>8. RouteGoing(m, k, was)
    <2>1. threads # <<>> BY <1>2, SomeThread, Zenon
    <2> QED BY <1>1, <1>2, <2>1, Zenon DEF Course, Progress, Fresh
  <1>9. local = <<>> /\ Between(m, k, was, bits, FullBlocks(k)) BY ONLY <1>8, Zenon DEF RouteGoing
  <1>10. PICK own \in [S -> DOMAIN ts] :
            /\ Deals(ts, S, own)
            /\ Books(S, Block, Todo(ts, S, own), Held(ts, S, own), Tickets(ts, S, own), cell,
                     count, cap, put, sunk)
    BY <1>8 DEF RouteGoing
  <1>11. i \in S /\ i \in ts[t].todo
    <2>1. i = Min(ts[t].todo) BY DEF Upcoming
    <2>2. Min(ts[t].todo) \in S BY ONLY <1>2, <1>7, <1>10, NextIsOwn
    <2>3. Min(ts[t].todo) \in ts[t].todo BY ONLY <1>2, <1>7, <1>10, NextIsOwn
    <2> QED BY <2>1, <2>2, <2>3
  <1>12. b = cell[i] /\ b \in Block
    <2>1. HashesOK /\ UpperHash(k.keys[i]) \in 0..(2^HashBits - 1) BY <1>6, <1>11 DEF Sound
    <2>2. b = BlockIndex(UpperHash(k.keys[i])) BY <2>1, RoutedBlock
    <2> QED BY <1>5, <1>6, <1>11, <2>2
  <1>13. counters \in [Filter -> [Block -> Nat]] BY <1>1 DEF StreamInv
  <1>14. count \in [Block -> Nat] /\ count[b] \in Nat BY <1>4, <1>12, <1>13
  <1>15. tally = Counted(count, cell[i]) BY <1>2, <1>4, <1>12, <1>13, Zenon DEF Counted
  <1>16. /\ us[t].todo = ts[t].todo \ {i} /\ us[t].held = With(ts[t].held, i, count[b])
         /\ Alike(ts, us, t)
    <2>1. DOMAIN ts[t] = ThreadFields BY <1>1, <1>2, Zenon DEF ShapeInv
    <2>2. us[t].todo = Rest(t) /\ us[t].held = With(ts[t].held, i, count[b])
      <3>1. us[t] = [[ts[t] EXCEPT !.todo = Rest(t)] EXCEPT !.held = With(ts[t].held, i, count[b])]
        BY <1>2, <2>1, Zenon DEF ThreadFields
      <3> QED BY <2>1, <3>1 DEF ThreadFields
    <2>3. DOMAIN us = DOMAIN ts /\ \A u \in DOMAIN ts : u # t => us[u] = ts[u] BY <1>2, Zenon
    <2> QED BY <2>2, <2>3 DEF Rest, Alike
  <1>17. t \in DOMAIN ts BY <1>2, Zenon
  <1>18. DOMAIN us = DOMAIN ts /\ Deals(us, S, own)
    <2>1. DOMAIN us = DOMAIN ts BY <1>16 DEF Alike
    <2>2. Deals(us, S, own) BY ONLY <1>10, <1>11, <1>14, <1>16, <1>17, ElementTaken
    <2> QED BY <2>1, <2>2
  <1>19. i \in Todo(ts, S, own) BY ONLY <1>10, <1>11, <1>14, <1>16, <1>17, ElementTaken
  <1>20. Todo(us, S, own) = Todo(ts, S, own) \ {i}
    BY ONLY <1>10, <1>11, <1>14, <1>16, <1>17, ElementTaken
  <1>21. Held(us, S, own) = Held(ts, S, own) \cup {i}
    BY ONLY <1>10, <1>11, <1>14, <1>16, <1>17, ElementTaken
  <1>22. Tickets(us, S, own) \in [S -> Nat] BY ONLY <1>10, <1>11, <1>14, <1>16, <1>17, ElementTaken
  <1>23. Tickets(us, S, own)[i] = count[b] BY ONLY <1>10, <1>11, <1>14, <1>16, <1>17, ElementTaken
  <1>24. \A j \in S : j # i => Tickets(us, S, own)[j] = Tickets(ts, S, own)[j]
    BY ONLY <1>10, <1>11, <1>14, <1>16, <1>17, ElementTaken
  <1>25. Books(S, Block, Todo(us, S, own), Held(us, S, own), Tickets(us, S, own), cell, tally, cap,
               put, sunk)
    <2>1. Held(ts, S, own) \subseteq S /\ i \notin Held(ts, S, own) BY <1>10, <1>19 DEF Books
    <2>2. \A j \in Held(ts, S, own) : Tickets(us, S, own)[j] = Tickets(ts, S, own)[j]
      BY <1>24, <2>1, Zenon
    <2>3. Tickets(us, S, own)[i] = count[cell[i]] BY <1>12, <1>23
    <2>4. Books(S, Block, Todo(ts, S, own) \ {i}, Held(ts, S, own) \cup {i}, Tickets(us, S, own),
                cell, tally, cap, put, sunk)
      BY ONLY <1>5, <1>10, <1>15, <1>19, <1>22, <2>2, <2>3, TicketTaken
    <2> QED BY <1>20, <1>21, <2>4, Zenon
  <1>26. Between(m, k, was, bits', {c \in Block : tally[c] > cap})
    <2>1. \A c \in Block : count[c] > cap => tally[c] > cap
      BY <1>5, <1>14, <1>15 DEF Counted
    <2>2. FullBlocks(k) \subseteq {c \in Block : tally[c] > cap} BY <2>1 DEF FullBlocks
    <2> QED BY <1>2, <1>9, <2>2, Zenon DEF Between
  <1>27. us # <<>> BY <1>17, <1>18, SomeThread
  <1>28. RouteGoing(m, k, was)'
    <2>1. own \in [Chosen(k) -> DOMAIN threads'] BY <1>10, <1>18
    <2>2. bits' = bits /\ slots' = slots BY <1>2, Zenon
    <2>3. Books(Chosen(k), Block, Todo(threads', Chosen(k), own), Held(threads', Chosen(k), own),
                Tickets(threads', Chosen(k), own), BlockOf(k), counters'[k.f], host[k.f].slots,
                RoutedPut(k, slots'[k.f], host[k.f].slots), Sunk(m, k, bits'))
      BY <1>25, <2>2
    <2>4. Deals(threads', Chosen(k), own) BY <1>18, Zenon
    <2>5. Between(m, k, was, bits', {c \in Block : counters'[k.f][c] > host[k.f].slots}) BY <1>26
    <2>6. threads' # <<>> /\ local' = <<>> /\ layout' = layout /\ host' = host
      BY <1>2, <1>9, <1>27, Zenon
    <2> QED BY ONLY <2>1, <2>3, <2>4, <2>5, <2>6, RouteGoingNext, Zenon
  <1>29. Progress(m, was)' BY <1>2, <1>28, StillGoing, Zenon
  <1>30. ZerosAreTrue(s)'
    <2>1. \A f \in Filter : f # k.f => counters'[f] = counters[f] BY <1>2, <1>13, Zenon
    <2> QED BY <1>1, <1>2, <1>27, <2>1, ZerosRouting, Zenon DEF Course
  <1>31. Course(m, s, e)' BY <1>1, <1>2, <1>29, <1>30, GoesOn, Zenon
  <1>32. Arrays' BY <1>1, <1>2, ArraysStay, Zenon DEF Arrays
  <1> QED BY <1>31, <1>32

\* CommitRoutedPackedH8V1: the hash goes to its slot, or the bits to the filter.
LEMMA RouteCommits ==
    ASSUME Sound, NEW m, NEW s, NEW e, Here(m, s, e), NEW t, CommitRouted(t)
    PROVE  Arrays' /\ \E d : Course(m, d, e)'
  <1> SUFFICES ASSUME NEW k, k = Head(queue), NEW was, was = s.content, NEW S, S = Chosen(k),
                      NEW ts, ts = threads, NEW us, us = threads', NEW cap, cap = host[k.f].slots,
                      NEW i, i = First(t), NEW b, b = RoutedBlockIndex(UpperHash(k.keys[i])),
                      NEW count, count = counters[k.f],
                      NEW X, X = BitsOf(k.keys[i]),
                      NEW lower, lower = LowerHash(k.keys[i]), NEW ticket, ticket = ts[t].held[i],
                      NEW rows, rows = slots[k.f], NEW rows2, rows2 = slots'[k.f],
                      NEW put, put = RoutedPut(k, rows, cap), NEW cell, cell = BlockOf(k),
                      NEW pos, pos = RoutedPut(k, rows2, cap),
                      NEW sunk, sunk = Sunk(m, k, bits), NEW deep, deep = Sunk(m, k, bits')
               PROVE  Arrays' /\ Course(m, s, e)'
    OBVIOUS
  <1>1. Arrays /\ StreamInv /\ ShapeInv /\ Course(m, s, e) /\ m = Marks BY DEF Here
  <1>2. /\ queue # <<>> /\ k.op = "route" /\ t \in DOMAIN ts /\ DOMAIN ts[t].held # {} /\ KeepQueue
        /\ UNCHANGED <<layout, host, local, counters, counts, records, selected>>
        /\ us = [ts EXCEPT ![t].held = Without(@, i)]
        /\ IF ticket < cap
           THEN slots' = [slots EXCEPT ![k.f][b][ticket] = lower] /\ bits' = bits
           ELSE bits' = [bits EXCEPT ![k.f] = @ \cup InBlock(b, BlockPattern(lower))]
                 /\ slots' = slots
    BY Zenon DEF CommitRouted, Running, This, KeepQueue, KeepHost, KeyAt, Write
  <1>3. k.op \in RouteKinds BY <1>2, Zenon DEF RouteKinds
  <1>4. /\ k \in Launched /\ k.f \in Filter BY <1>2, <1>3, RouteStands, Zenon
  <1>5. cell \in [S -> Block] /\ cap \in Nat BY <1>2, <1>3, RouteStands, Zenon
  <1>6. /\ \A j \in S : cell[j] = BlockIndex(UpperHash(k.keys[j]))
        /\ \A j \in S : UpperHash(k.keys[j]) \in 0..(2^HashBits - 1)
        /\ \A j \in S : k.keys[j] \in Key
    <2>1. \A j \in Chosen(k) : BlockOf(k)[j] = BlockIndex(UpperHash(k.keys[j]))
      BY <1>2, <1>3, RouteStands, Zenon
    <2>2. \A j \in Chosen(k) : UpperHash(k.keys[j]) \in 0..(2^HashBits - 1)
      BY <1>2, <1>3, RouteStands, Zenon
    <2>3. \A j \in Chosen(k) : k.keys[j] \in Key BY <1>2, <1>3, RouteStands, Zenon
    <2> QED BY <2>1, <2>2, <2>3, Zenon
  <1>7. S \in SUBSET Nat BY <1>2, <1>3, RouteStands, Zenon
  <1>8. RouteGoing(m, k, was)
    <2>1. threads # <<>> BY <1>2, SomeThread, Zenon
    <2> QED BY <1>1, <1>2, <2>1, Zenon DEF Course, Progress, Fresh
  <1>9. local = <<>> /\ Between(m, k, was, bits, FullBlocks(k)) BY ONLY <1>8 DEF RouteGoing
  <1>10. PICK own \in [S -> DOMAIN ts] :
            /\ Deals(ts, S, own)
            /\ Books(S, Block, Todo(ts, S, own), Held(ts, S, own), Tickets(ts, S, own), cell,
                     count, cap, put, sunk)
    BY <1>8 DEF RouteGoing
  <1>11. i \in S /\ i \in DOMAIN ts[t].held /\ ticket \in Nat
    <2>1. DOMAIN ts[t].held \subseteq S /\ ts[t].held \in [DOMAIN ts[t].held -> Nat]
      BY ONLY <1>2, <1>10, Zenon DEF Deals
    <2>2. DOMAIN ts[t].held \in SUBSET Nat BY <1>7, <2>1
    <2>3. i \in DOMAIN ts[t].held BY <1>2, <2>2, LeastIn, Zenon DEF First
    <2> QED BY <2>1, <2>3
  <1>12. b = cell[i] /\ b \in Block /\ InBlock(b, BlockPattern(lower)) = BitsOf(k.keys[i])
    <2>1. HashesOK /\ UpperHash(k.keys[i]) \in 0..(2^HashBits - 1) BY <1>6, <1>11, Zenon DEF Sound
    <2>2. b = BlockIndex(UpperHash(k.keys[i])) BY <2>1, RoutedBlock, Zenon
    <2> QED BY <1>5, <1>6, <1>11, <2>2, Zenon DEF BitsOf
  <1>13. lower \in Int
    <2>1. HashesOK /\ k.keys[i] \in Key BY <1>6, <1>11, Zenon DEF Sound
    <2>2. lower \in 0..(2^HashBits - 1) /\ 2^HashBits \in Nat BY <2>1, Halves, Powers, Zenon
    <2> QED BY ONLY <2>2
  <1>14. slots \in [Filter -> [Block -> [0..(MaxSlots - 1) -> Int]]] BY <1>1, Zenon DEF Arrays
  <1>15. cap <= MaxSlots /\ MaxSlots \in Nat
    <2>1. Tidy(host[k.f]) BY ONLY <1>1, <1>4, Zenon DEF Arrays
    <2> QED BY <2>1 DEF Tidy, Sound, WorkersOK
  <1>16. /\ us[t].todo = ts[t].todo /\ us[t].held = Without(ts[t].held, i) /\ Alike(ts, us, t)
    <2>1. DOMAIN ts[t] = ThreadFields BY <1>1, <1>2 DEF ShapeInv
    <2>2. us[t].todo = ts[t].todo /\ us[t].held = Without(ts[t].held, i)
      BY ONLY <1>2, <2>1, ZenonT(60) DEF ThreadFields
    <2>3. DOMAIN us = DOMAIN ts /\ \A u \in DOMAIN ts : u # t => us[u] = ts[u] BY <1>2, SMTT(40)
    <2> QED BY ONLY <2>2, <2>3, ZenonT(60) DEF Alike
  <1>17. t \in DOMAIN ts BY <1>2
  <1>18. DOMAIN us = DOMAIN ts /\ Deals(us, S, own)
    <2>1. DOMAIN us = DOMAIN ts BY <1>16 DEF Alike
    <2>2. Deals(us, S, own) BY ONLY <1>10, <1>11, <1>16, <1>17, ElementUsed
    <2> QED BY ONLY <2>1, <2>2
  <1>19. i \in Held(ts, S, own) BY ONLY <1>10, <1>11, <1>16, <1>17, ElementUsed
  <1>20. Todo(us, S, own) = Todo(ts, S, own) BY ONLY <1>10, <1>11, <1>16, <1>17, ElementUsed
  <1>21. Held(us, S, own) = Held(ts, S, own) \ {i} BY ONLY <1>10, <1>11, <1>16, <1>17, ElementUsed
  <1>22. Tickets(us, S, own) \in [S -> Nat]
    BY ONLY <1>10, <1>11, <1>16, <1>17, ElementUsed, ZenonT(60)
  <1>23. Tickets(ts, S, own)[i] = ticket
    <2>1. Tickets(ts, S, own)[i] = ts[t].held[i] BY ONLY <1>10, <1>11, <1>16, <1>17, ElementUsed
    <2> QED BY <2>1
  <1>24. \A j \in S : j # i => Tickets(us, S, own)[j] = Tickets(ts, S, own)[j]
    BY ONLY <1>10, <1>11, <1>16, <1>17, ElementUsed
  \* What happens to the slots and to the filter.
  <1> DEFINE Placed ==
               /\ slots' \in [Filter -> [Block -> [0..(MaxSlots - 1) -> Int]]]
               /\ Between(m, k, was, bits', FullBlocks(k))
               /\ sunk \subseteq deep
               /\ ticket < cap => <<cell[i], ticket, i>> \in pos
               /\ ticket >= cap => i \in deep
               /\ \A c \in Block : \A n \in 0..(cap - 1) : \A j \in S :
                    <<c, n, j>> \in put /\ ~(c = cell[i] /\ n = ticket) => <<c, n, j>> \in pos
  <1>25. ASSUME ticket < cap PROVE Placed
    <2>1. slots' = [slots EXCEPT ![k.f][b][ticket] = lower] /\ bits' = bits BY <1>2, <1>25, Zenon
    <2>2. ticket \in 0..(cap - 1) /\ ticket \in 0..(MaxSlots - 1) BY <1>5, <1>11, <1>15, <1>25
    <2>3. /\ slots' \in [Filter -> [Block -> [0..(MaxSlots - 1) -> Int]]]
          /\ rows2[b][ticket] = lower
          /\ \A c \in Block : \A n \in 0..(MaxSlots - 1) :
                ~(c = b /\ n = ticket) => rows2[c][n] = rows[c][n]
      <3>1. /\ slots' = [slots EXCEPT ![k.f] = [slots[k.f] EXCEPT ![b] =
                            [slots[k.f][b] EXCEPT ![ticket] = lower]]]
        BY ONLY <2>1, Zenon
      <3>2. rows \in [Block -> [0..(MaxSlots - 1) -> Int]] BY <1>4, <1>14
      <3>3. rows2 = [rows EXCEPT ![b] = [rows[b] EXCEPT ![ticket] = lower]]
        BY <1>4, <1>14, <3>1, Zenon
      <3>4. /\ rows2 \in [Block -> [0..(MaxSlots - 1) -> Int]]
            /\ rows2[b][ticket] = lower
            /\ \A c \in Block : \A n \in 0..(MaxSlots - 1) :
                  ~(c = b /\ n = ticket) => rows2[c][n] = rows[c][n]
        <4>1. rows[b] \in [0..(MaxSlots - 1) -> Int] BY <1>12, <3>2
        <4>2. rows2[b] = [rows[b] EXCEPT ![ticket] = lower] BY <1>12, <3>2, <3>3, Zenon
        <4>3. \A c \in Block : c # b => rows2[c] = rows[c] BY <3>2, <3>3, Zenon
        <4>4. /\ rows2[b] \in [0..(MaxSlots - 1) -> Int] /\ rows2[b][ticket] = lower
              /\ \A n \in 0..(MaxSlots - 1) : n # ticket => rows2[b][n] = rows[b][n]
          <5>1. rows2[b] \in [0..(MaxSlots - 1) -> Int] BY ONLY <1>13, <4>1, <4>2, Zenon
          <5>2. rows2[b][ticket] = lower BY <2>2, <4>1, <4>2, Zenon
          <5>3. \A n \in 0..(MaxSlots - 1) : n # ticket => rows2[b][n] = rows[b][n]
            BY <4>1, <4>2, Zenon
          <5> QED BY <5>1, <5>2, <5>3, Zenon
        <4>5. rows2 \in [Block -> [0..(MaxSlots - 1) -> Int]]
          BY <1>12, <3>2, <3>3, <4>2, <4>3, <4>4, Zenon
        <4> QED BY <4>3, <4>4, <4>5, Zenon
      <3>5. slots' \in [Filter -> [Block -> [0..(MaxSlots - 1) -> Int]]]
        BY <1>4, <1>14, <3>1, <3>3, <3>4, ZenonT(60)
      <3> QED BY <3>4, <3>5, Zenon
    <2>4. deep = sunk BY <2>1, Zenon
    <2>5. <<cell[i], ticket, i>> \in pos
      BY <1>11, <1>12, <2>2, <2>3, Zenon DEF RoutedPut
    <2>6. \A c \in Block : \A n \in 0..(cap - 1) : \A j \in S :
               <<c, n, j>> \in put /\ ~(c = cell[i] /\ n = ticket) => <<c, n, j>> \in pos
      <3> SUFFICES ASSUME NEW c \in Block, NEW n \in 0..(cap - 1), NEW j \in S,
                          <<c, n, j>> \in put, ~(c = cell[i] /\ n = ticket)
                   PROVE  <<c, n, j>> \in pos
        OBVIOUS
      <3>1. rows[c][n] = LowerHash(k.keys[j]) BY Zenon DEF RoutedPut
      <3>2. n \in 0..(MaxSlots - 1) BY <1>5, <1>15
      <3>3. rows2[c][n] = LowerHash(k.keys[j]) BY <1>12, <2>3, <3>1, <3>2, Zenon
      <3> QED BY <3>3, Zenon DEF RoutedPut
    <2>7. Between(m, k, was, bits', FullBlocks(k)) BY <1>9, <2>1, Zenon
    <2>8. ~(ticket >= cap) BY <1>5, <1>11, <1>25
    <2>9. slots' \in [Filter -> [Block -> [0..(MaxSlots - 1) -> Int]]] BY <2>3, Zenon
    <2>10. sunk \subseteq deep BY <2>4
    <2> QED BY ONLY <2>5, <2>6, <2>7, <2>8, <2>9, <2>10, Zenon
  <1>26. ASSUME ticket >= cap PROVE Placed
    <2>1. bits' = Enlarged(bits, k.f, X) /\ slots' = slots
      <3>1. ~(ticket < cap) BY ONLY <1>5, <1>11, <1>26
      <3>2. bits' = [bits EXCEPT ![k.f] = @ \cup InBlock(b, BlockPattern(lower))] /\ slots' = slots
        BY ONLY <1>2, <3>1, Zenon
      <3> QED BY <1>12, <3>2, Zenon DEF Enlarged
    <2>2. count[b] > cap
      <3>1. \A j \in Held(ts, S, own) :
              IF Tickets(ts, S, own)[j] < cap THEN Tickets(ts, S, own)[j] < count[cell[j]]
              ELSE count[cell[j]] > cap
        BY ONLY <1>10 DEF Books
      <3> QED BY ONLY <1>5, <1>11, <1>12, <1>19, <1>23, <1>26, <3>1
    <2>3. /\ X \subseteq Gain(m, k) /\ m[k.keys[i]] = X
          /\ \A p \in X : p[1] = b
      <3>1. m[k.keys[i]] = X BY <1>1, <1>6, <1>11, Zenon DEF Marks
      <3>2. HashesOK /\ PolicyOK /\ k.keys[i] \in Key BY <1>6, <1>11 DEF Sound
      <3>3. \A p \in X : p[1] = BlockIndex(UpperHash(k.keys[i])) BY <3>2, Marked, Zenon
      <3> QED BY <1>6, <1>11, <1>12, <3>1, <3>3 DEF Gain
    <2>4. \A p \in bits[k.f] \cup X :
             p[1] \in FullBlocks(k) \/ p \in X => p[1] \in FullBlocks(k)
      BY <1>12, <2>2, <2>3 DEF FullBlocks
    <2>5. Between(m, k, was, bits', FullBlocks(k))
      BY ONLY <1>4, <1>9, <2>1, <2>3, <2>4, BitsGrow, Zenon
    <2>0. bits'[k.f] = bits[k.f] \cup X
      <3>1. bits \in Content(m) BY ONLY <1>9, Zenon DEF Between
      <3> QED BY <1>4, <2>1, <3>1 DEF Enlarged, Content
    <2>6. Sunk(m, k, bits) \subseteq Sunk(m, k, bits') BY <2>0, Zenon DEF Sunk
    <2>7. i \in deep
      <3>1. m[k.keys[i]] \subseteq bits'[k.f] BY <2>0, <2>3, Zenon
      <3> QED BY <1>11, <3>1, Zenon DEF Sunk
    <2>8. pos = put BY <2>1, Zenon
    <2>9. ~(ticket < cap) BY ONLY <1>5, <1>11, <1>26
    <2>10. slots' \in [Filter -> [Block -> [0..(MaxSlots - 1) -> Int]]] BY <1>14, <2>1
    <2>11. sunk \subseteq deep BY <2>6
    <2> QED BY ONLY <2>5, <2>7, <2>8, <2>9, <2>10, <2>11, Zenon
  <1>27. Placed
    <2>1. ticket < cap \/ ticket >= cap BY ONLY <1>5, <1>11
    <2> HIDE DEF Placed
    <2> QED BY ONLY <1>25, <1>26, <2>1, Zenon
  <1>28. Books(S, Block, Todo(us, S, own), Held(us, S, own), Tickets(us, S, own), cell, count, cap,
               pos, deep)
    <2> DEFINE tk == Tickets(ts, S, own)
               tl == Tickets(us, S, own)
               T == Todo(ts, S, own)
               H == Held(ts, S, own)
    <2>1. tk[i] = ticket BY <1>23
    <2>2. Books(S, Block, T, H, tk, cell, count, cap, put, sunk) BY ONLY <1>10, Zenon
    <2>3. H \subseteq S BY <1>10 DEF Books
    <2>4. tl \in [S -> Nat] /\ \A j \in H \ {i} : tl[j] = tk[j] BY <1>22, <1>24, <2>3
    <2>5. i \in H BY ONLY <1>19, Zenon
    <2> HIDE DEF tk, tl, T, H
    <2>6. /\ sunk \subseteq deep /\ (tk[i] < cap => <<cell[i], tk[i], i>> \in pos)
          /\ (tk[i] >= cap => i \in deep)
          /\ \A c \in Block : \A n \in 0..(cap - 1) : \A j \in S :
               <<c, n, j>> \in put /\ ~(c = cell[i] /\ n = tk[i]) => <<c, n, j>> \in pos
      BY <1>27, <2>1
    <2>7. Books(S, Block, T, H \ {i}, tl, cell, count, cap, pos, deep)
      BY ONLY <1>5, <2>2, <2>4, <2>5, <2>6, TicketUsed
    <2> QED BY <1>20, <1>21, <2>7 DEF tl, T, H
  <1> HIDE DEF Placed
  <1>29. us # <<>> BY <1>17, <1>18, SomeThread
  <1>30. RouteGoing(m, k, was)'
    <2>1. own \in [Chosen(k) -> DOMAIN threads'] BY <1>10, <1>18, ZenonT(60)
    <2>2. counters'[k.f] = count BY <1>2
    <2>3. Books(Chosen(k), Block, Todo(threads', Chosen(k), own), Held(threads', Chosen(k), own),
                Tickets(threads', Chosen(k), own), BlockOf(k), counters'[k.f], host[k.f].slots,
                RoutedPut(k, slots'[k.f], host[k.f].slots), Sunk(m, k, bits'))
      BY <1>28, <2>2
    <2>4. Deals(threads', Chosen(k), own) BY <1>18, ZenonT(60)
    <2>5. Between(m, k, was, bits', {c \in Block : counters'[k.f][c] > host[k.f].slots})
      BY <1>27, <2>2, SMTT(40) DEF Placed, FullBlocks
    <2>6. threads' # <<>> /\ local' = <<>> /\ layout' = layout /\ host' = host
      BY <1>2, <1>9, <1>29
    <2> QED BY ONLY <2>1, <2>3, <2>4, <2>5, <2>6, RouteGoingNext
  <1>31. Progress(m, was)' BY <1>2, <1>30, StillGoing, Zenon
  <1>32. ZerosAreTrue(s)' BY <1>1, <1>2, <1>29, ZerosRemain, Zenon DEF Course
  <1>33. Course(m, s, e)' BY <1>1, <1>2, <1>31, <1>32, GoesOn, Zenon
  <1>34. slots' \in [Filter -> [Block -> [0..(MaxSlots - 1) -> Int]]] BY <1>27 DEF Placed
  <1>35. Arrays' BY <1>1, <1>2, <1>34, ArraysStay, Zenon DEF Arrays
  <1> QED BY <1>33, <1>35

\* A route that is done is so after a step that touches nothing of it.
LEMMA RouteDoneNext ==
    ASSUME layout' = layout, host' = host, counters' = counters, slots' = slots, bits' = bits,
           NEW m, NEW j, NEW was
    PROVE  RouteDone(m, j, was)' <=>
            /\ threads' = <<>> /\ local' = <<>> /\ Between(m, j, was, bits, FullBlocks(j))
            /\ Kept(Chosen(j), Block, BlockOf(j), counters[j.f], host[j.f].slots,
                    RoutedPut(j, slots[j.f], host[j.f].slots), Sunk(m, j, bits))
  <1>1. Block' = Block /\ BlockOf(j)' = BlockOf(j) BY Rigid DEF BlockOf
  <1>2. FullBlocks(j)' = FullBlocks(j) BY <1>1 DEF FullBlocks
  <1>3. Between(m, j, was, bits, FullBlocks(j))' = Between(m, j, was, bits, FullBlocks(j))
    BY <1>2 DEF Between
  <1>4. RoutedPut(j, slots[j.f], host[j.f].slots)' = RoutedPut(j, slots[j.f], host[j.f].slots)
    BY <1>1 DEF RoutedPut
  <1>5. Kept(Chosen(j), Block, BlockOf(j), counters[j.f], host[j.f].slots,
             RoutedPut(j, slots[j.f], host[j.f].slots), Sunk(m, j, bits))' =
        Kept(Chosen(j), Block, BlockOf(j), counters[j.f], host[j.f].slots,
             RoutedPut(j, slots[j.f], host[j.f].slots), Sunk(m, j, bits))
    BY <1>1, <1>4 DEF Kept, Sunk
  <1> QED BY <1>3, <1>5 DEF RouteDone

\* EndRoute.
LEMMA RouteIsDone ==
    ASSUME Sound, NEW m, NEW s, NEW e, Here(m, s, e), EndRoute
    PROVE  Arrays' /\ \E d : Course(m, d, e)'
  <1> SUFFICES ASSUME NEW k, k = Head(queue), NEW S, S = Chosen(k), NEW d, d = Executed(m, k, s),
                      NEW was, was = s.content
               PROVE  Arrays' /\ Course(m, d, e)'
    OBVIOUS
  <1>1. Arrays /\ StreamInv /\ Course(m, s, e) BY DEF Here
  <1>2. /\ queue # <<>> /\ Finish /\ k.op = "route" /\ AllIdle /\ threads' = <<>> /\ local' = <<>>
        /\ UNCHANGED <<layout, host, bits, counters, slots, counts, records, selected>>
    BY DEF EndRoute, Running, This, Finish, KeepHost, workspace
  <1>3. k.op \in RouteKinds BY <1>2 DEF RouteKinds
  <1>4. k \in Launched /\ s \in State(m) /\ k.f \in Filter BY <1>2, <1>3, RouteStands
  <1>5. RouteGoing(m, k, was) BY <1>1, <1>2 DEF Course, Progress, Fresh, AllIdle
  <1>6. Between(m, k, was, bits, FullBlocks(k)) BY <1>5 DEF RouteGoing
  <1>7. PICK own \in [S -> DOMAIN threads] :
            /\ Deals(threads, S, own)
            /\ Books(S, Block, Todo(threads, S, own), Held(threads, S, own),
                     Tickets(threads, S, own), BlockOf(k), counters[k.f], host[k.f].slots,
                     RoutedPut(k, slots[k.f], host[k.f].slots), Sunk(m, k, bits))
    BY <1>5 DEF RouteGoing
  <1>8. Todo(threads, S, own) = {} /\ Held(threads, S, own) = {}
    <2>1. \A t \in DOMAIN threads : threads[t].todo = {} /\ DOMAIN threads[t].held = {}
      BY <1>2 DEF AllIdle, Idle
    <2> QED BY <1>7, <2>1, AllDone
  <1>9. Kept(S, Block, BlockOf(k), counters[k.f], host[k.f].slots,
             RoutedPut(k, slots[k.f], host[k.f].slots), Sunk(m, k, bits))
    BY <1>7, <1>8, BooksClosed
  <1>10. ASSUME NEW j \in Launched, Mates(k, j) PROVE RouteDone(m, j, was)'
    <2>1. j.f = k.f BY <1>4, <1>10, SameOperands
    <2>2. j.keys = k.keys BY <1>4, <1>10, SameOperands
    <2>3. Chosen(j) = S BY <1>4, <1>10, SameOperands
    <2>4. Gain(m, j) = Gain(m, k) BY <2>2, <2>3 DEF Gain
    <2>5. BlockOf(j) = BlockOf(k) BY <2>2, <2>3 DEF BlockOf
    <2>6. FullBlocks(j) = FullBlocks(k) BY <2>1 DEF FullBlocks
    <2>7. Sunk(m, j, bits) = Sunk(m, k, bits) BY <2>1, <2>2, <2>3 DEF Sunk
    <2>8. \A rows, cap : RoutedPut(j, rows, cap) = RoutedPut(k, rows, cap)
      BY <2>2, <2>3 DEF RoutedPut
    <2>9. Between(m, j, was, bits, FullBlocks(j)) BY <1>6, <2>1, <2>4, <2>6 DEF Between
    <2>10. Kept(Chosen(j), Block, BlockOf(j), counters[j.f], host[j.f].slots,
                RoutedPut(j, slots[j.f], host[j.f].slots), Sunk(m, j, bits))
      BY <1>9, <2>1, <2>3, <2>5, <2>7, <2>8
    <2> QED BY <1>2, <2>9, <2>10, RouteDoneNext
  <1>11. ZerosAreTrue(d)'
    <2> SUFFICES ASSUME NEW f \in Filter, d.zero[f] PROVE Zero(f)' BY DEF ZerosAreTrue
    <2>1. f # k.f
      <3>1. Executed(m, k, s).zero[k.f] = Zeroed(k, s.zero) BY ONLY <1>4, ExecutedIsState
      <3>2. Zeroed(k, s.zero) = FALSE BY <1>2 DEF Zeroed
      <3> QED BY <3>1, <3>2
    <2>2. Executed(m, k, s).zero[f] = s.zero[f] BY ONLY <1>4, <2>1, f \in Filter, ExecutedIsState
    <2>3. Zero(f) BY <1>1, <2>1, <2>2 DEF Course, ZerosAreTrue
    <2> QED BY <1>2, <2>3, ZerosStay
  <1>12. \A j \in Launched : Mates(k, j) =>
             IF k.op = "route" THEN RouteDone(m, j, s.content)' ELSE PrivateDone(m, j, s.content)'
    BY <1>2, <1>10
  <1>13. Course(m, d, e)' BY <1>1, <1>2, <1>3, <1>11, <1>12, RouteEnds
  <1>14. Arrays' BY <1>1, <1>2, ArraysStay DEF Arrays
  <1> QED BY <1>13, <1>14

\* The smaller of two numbers.
LEMMA SmallerIs ==
    ASSUME NEW a \in Nat, NEW b \in Nat
    PROVE  /\ Min({a, b}) \in Nat /\ Min({a, b}) <= a /\ Min({a, b}) <= b
           /\ Min({a, b}) = a \/ Min({a, b}) = b
  <1>1. {a, b} \in SUBSET Nat /\ {a, b} # {} OBVIOUS
  <1> QED BY <1>1, LeastIn

\* A block as Apply leaves it.
RoutedAfter(k, now, count, cap, rows, b) ==
    IF Min({count[b], cap}) = 0 THEN OfBlock(now[k.f], b)
    ELSE InBlock(b, UNION {BlockPattern(rows[b][s]) : s \in 0..(Min({count[b], cap}) - 1)})
            \cup (IF Loads(k.preserve, count[b] > cap) THEN OfBlock(now[k.f], b) ELSE {})

\* A block with all the bits of a batch, and no others.
LEMMA BlockIsComplete ==
    ASSUME HashesOK, PolicyOK, NEW m, m = Marks, NEW k \in Launched, Len(k.sel) = Len(k.keys),
           NEW was \in Content(m), NEW now, NEW count \in [Block -> Nat], NEW cap \in Nat, cap > 0,
           NEW full, \A c \in full : count[c] > cap, Between(m, k, was, now, full),
           NEW rows, Kept(Chosen(k), Block, BlockOf(k), count, cap, RoutedPut(k, rows, cap),
                          Sunk(m, k, now)),
           ~k.preserve => was[k.f] = {}, NEW b \in Block
    PROVE  RoutedAfter(k, now, count, cap, rows, b) = OfBlock(was[k.f] \cup Gain(m, k), b)
  <1> DEFINE n == Min({count[b], cap})
             S == Chosen(k)
             A == was[k.f]
             B == now[k.f]
             G == Gain(m, k)
             patterns == UNION {BlockPattern(rows[b][s]) : s \in 0..(n - 1)}
             cell == BlockOf(k)
  <1>1. /\ n \in Nat /\ n <= count[b] /\ n <= cap /\ (n = count[b] \/ n = cap)
    BY SmallerIs
  <1>2. /\ A \subseteq B /\ B \subseteq A \cup G
        /\ \A p \in B : p \in A \/ count[p[1]] > cap
    BY DEF Between
  <1>3. \A i \in S :
            /\ k.keys[i] \in Key /\ m[k.keys[i]] = BitsOf(k.keys[i])
            /\ BitsOf(k.keys[i]) \subseteq G /\ cell[i] = BlockIndex(UpperHash(k.keys[i]))
            /\ \A p \in BitsOf(k.keys[i]) : p[1] = cell[i]
            /\ BitsOf(k.keys[i]) = InBlock(cell[i], BlockPattern(LowerHash(k.keys[i])))
    BY Elements DEF BlockOf, BitsOf
  <1>4. /\ \A c \in Block : \A s \in 0..(cap - 1) : s < count[c] =>
            \E i \in S : cell[i] = c /\ rows[c][s] = LowerHash(k.keys[i])
        /\ \A i \in S : \/ m[k.keys[i]] \subseteq B
                        \/ \E s \in 0..(cap - 1) :
                              s < count[cell[i]] /\ rows[cell[i]][s] = LowerHash(k.keys[i])
    <2>1. \A c \in Block : \A s \in 0..(cap - 1) : \A i \in S :
            <<c, s, i>> \in RoutedPut(k, rows, cap) => rows[c][s] = LowerHash(k.keys[i])
      BY DEF RoutedPut
    <2>2. /\ cell \in [S -> Block]
          /\ \A c \in Block : \A s \in 0..(cap - 1) : s < count[c] =>
               \E i \in S : cell[i] = c /\ <<c, s, i>> \in RoutedPut(k, rows, cap)
          /\ \A i \in S : \/ i \in Sunk(m, k, now)
                          \/ \E s \in 0..(cap - 1) :
                                s < count[cell[i]] /\ <<cell[i], s, i>> \in RoutedPut(k, rows, cap)
      BY DEF Kept
    <2>3. \A i \in Sunk(m, k, now) : m[k.keys[i]] \subseteq B BY DEF Sunk
    <2> HIDE DEF S, B, cell
    <2>4. \A i \in S : cell[i] \in Block BY <2>2
    <2>5. \A c \in Block : \A s \in 0..(cap - 1) : s < count[c] =>
            \E i \in S : cell[i] = c /\ rows[c][s] = LowerHash(k.keys[i])
      <3> SUFFICES ASSUME NEW c \in Block, NEW s \in 0..(cap - 1), s < count[c]
                   PROVE  \E i \in S : cell[i] = c /\ rows[c][s] = LowerHash(k.keys[i])
        OBVIOUS
      <3>1. PICK i \in S : cell[i] = c /\ <<c, s, i>> \in RoutedPut(k, rows, cap) BY <2>2
      <3>2. rows[c][s] = LowerHash(k.keys[i]) BY <2>1, <3>1
      <3> QED BY <3>1, <3>2
    <2>6. \A i \in S : \/ m[k.keys[i]] \subseteq B
                      \/ \E s \in 0..(cap - 1) :
                            s < count[cell[i]] /\ rows[cell[i]][s] = LowerHash(k.keys[i])
      <3> SUFFICES ASSUME NEW i \in S, i \notin Sunk(m, k, now)
                   PROVE  \E s \in 0..(cap - 1) :
                            s < count[cell[i]] /\ rows[cell[i]][s] = LowerHash(k.keys[i])
        BY <2>3
      <3>1. PICK s \in 0..(cap - 1) :
                   s < count[cell[i]] /\ <<cell[i], s, i>> \in RoutedPut(k, rows, cap)
        BY <2>2
      <3>2. rows[cell[i]][s] = LowerHash(k.keys[i]) BY <2>1, <2>4, <3>1
      <3> QED BY <3>1, <3>2
    <2> QED BY <2>5, <2>6 DEF S, B, cell
  <1> HIDE DEF n, S, A, B, G, cell
  <1>5. \A p \in G : \E i \in S : p \in BitsOf(k.keys[i])
    BY <1>3 DEF G, S, Gain
  <1>6. ASSUME NEW p \in A \cup G, p[1] = b
        PROVE  p \in RoutedAfter(k, now, count, cap, rows, b)
    <2>1. CASE p \in A
      <3>1. p \in OfBlock(now[k.f], b) BY <1>2, <1>6, <2>1 DEF OfBlock, B
      <3>2. k.preserve BY <2>1 DEF A
      <3> QED BY <3>1, <3>2 DEF RoutedAfter, Loads
    <2>2. CASE p \notin A
      <3>1. PICK i \in S : p \in BitsOf(k.keys[i]) BY <1>5, <1>6, <2>2
      <3>2. cell[i] = b BY <1>3, <1>6, <3>1
      <3>3. CASE p \in B
        <4>1. p \in OfBlock(now[k.f], b) BY <1>6, <3>3 DEF OfBlock, B
        <4>2. count[b] > cap BY <1>2, <1>6, <2>2, <3>3
        <4> QED BY <4>1, <4>2 DEF RoutedAfter, Loads
      <3>4. CASE p \notin B
        <4>1. PICK s \in 0..(cap - 1) : s < count[b] /\ rows[b][s] = LowerHash(k.keys[i])
          BY <1>3, <1>4, <3>1, <3>2, <3>4
        <4>2. n # 0 /\ s \in 0..(n - 1) BY <1>1, <4>1
        <4>3. p \in InBlock(b, BlockPattern(rows[b][s])) BY <1>3, <3>1, <3>2, <4>1
        <4>4. BlockPattern(rows[b][s]) \subseteq patterns BY <4>2
        <4>5. p \in InBlock(b, patterns) BY <4>3, <4>4 DEF InBlock
        <4> QED BY <4>2, <4>5 DEF RoutedAfter, n
      <3> QED BY <3>3, <3>4
    <2> QED BY <2>1, <2>2
  <1>7. ASSUME NEW p \in RoutedAfter(k, now, count, cap, rows, b)
        PROVE  p \in A \cup G /\ p[1] = b
    <2>1. CASE p \in OfBlock(now[k.f], b) BY <1>2, <2>1 DEF OfBlock, B
    <2>2. CASE p \in InBlock(b, patterns)
      <3>1. PICK s \in 0..(n - 1) : p \in InBlock(b, BlockPattern(rows[b][s]))
        BY <2>2 DEF InBlock
      <3>2. s \in 0..(cap - 1) /\ s < count[b] BY <1>1
      <3>3. PICK i \in S : cell[i] = b /\ rows[b][s] = LowerHash(k.keys[i]) BY <1>4, <3>2
      <3>4. p \in BitsOf(k.keys[i]) BY <1>3, <3>1, <3>3
      <3> QED BY <1>3, <3>3, <3>4
    <2>3. p \in OfBlock(now[k.f], b) \/ p \in InBlock(b, patterns) BY <1>7 DEF RoutedAfter, n
    <2> QED BY <2>1, <2>2, <2>3
  <1> QED BY <1>6, <1>7 DEF OfBlock, A, G

\* ApplyPackedH8V1: every block is as it is to be, and every counter zero.
LEMMA RouteIsApplied ==
    ASSUME Sound, NEW m, NEW s, NEW e, Here(m, s, e), ApplyPackedH8V1
    PROVE  Arrays' /\ \E d : Course(m, d, e)'
  <1> SUFFICES ASSUME NEW k, k = Head(queue), NEW f, f = k.f, NEW S, S = Chosen(k),
                      NEW d, d = Executed(m, k, s), NEW was, was = s.content,
                      NEW count, count = counters[f], NEW cap, cap = host[f].slots,
                      NEW rows, rows = slots[f]
               PROVE  Arrays' /\ Course(m, d, e)'
    OBVIOUS
  <1>1. Arrays /\ StreamInv /\ HostInv /\ Course(m, s, e) /\ m = Marks BY DEF Here
  <1>2. /\ queue # <<>> /\ Finish /\ k.op = "apply"
        /\ UNCHANGED <<layout, host, counts, records, selected>>
        /\ bits' = [bits EXCEPT ![f] =
                UNION {RoutedAfter(k, bits, count, cap, rows, b) : b \in Block}]
        /\ counters' = [counters EXCEPT
                ![f] = [b \in Block |-> IF Min({count[b], cap}) = 0 THEN count[b] ELSE 0]]
        /\ slots' = [slots EXCEPT ![f] = [b \in Block |-> [n \in DOMAIN rows[b] |-> Stale]]]
    BY DEF ApplyPackedH8V1, Running, This, Finish, KeepHost, Store, RoutedAfter, InBlock
  <1>3. k \in Launched /\ s \in State(m) /\ Ready(m, k, s) BY <1>1, <1>2, Beginning DEF Course
  <1>4. f \in Filter /\ was \in Content(m) BY <1>3 DEF Launched, State
  <1>5. k.op \in Batched /\ k.op \in ApplyKinds /\ k.op \notin RouteKinds
    BY <1>2, Zenon DEF Batched, ApplyKinds, RouteKinds, Routes
  <1>6. /\ Len(k.sel) = Len(k.keys) /\ (~k.preserve => was[f] = {})
    BY <1>3, <1>5 DEF Ready
  <1>7. RouteDone(m, k, was) BY <1>1, <1>2, Zenon DEF Course, Progress
  <1>8. /\ Between(m, k, was, bits, FullBlocks(k))
        /\ Kept(S, Block, BlockOf(k), count, cap, RoutedPut(k, rows, cap), Sunk(m, k, bits))
    BY <1>7 DEF RouteDone
  <1>9. count \in [Block -> Nat] BY <1>1, <1>4 DEF StreamInv
  <1>10. cap \in Nat /\ cap > 0
    <2>1. queue[1] = k /\ 1 \in 1..Len(queue) BY <1>1, <1>2 DEF StreamInv
    <2>2. host[f].workspace = "routed" BY <1>1, <1>2, <2>1 DEF StreamInv, Served, RoutedKernels
    <2> QED BY <1>1, <1>4, <2>2 DEF HostInv, Sized, Object
  <1>11. HashesOK /\ PolicyOK BY DEF Sound
  <1>12. ASSUME NEW b \in Block
         PROVE  RoutedAfter(k, bits, count, cap, rows, b) = OfBlock(was[f] \cup Gain(m, k), b)
    <2>1. \A c \in FullBlocks(k) : count[c] > cap BY Zenon DEF FullBlocks
    <2>2. RoutedAfter(k, bits, count, cap, rows, b) = OfBlock(was[k.f] \cup Gain(m, k), b)
      BY <1>1, <1>3, <1>4, <1>6, <1>8, <1>9, <1>10, <1>11, <2>1, BlockIsComplete, SMTT(40)
    <2> QED BY <2>2
  <1>13. UNION {RoutedAfter(k, bits, count, cap, rows, b) : b \in Block} = was[f] \cup Gain(m, k)
    <2>1. \A p \in was[f] \cup Gain(m, k) : p[1] \in Block
      <3>1. UNION {m[x] : x \in Key} \subseteq Bit BY <1>1, <1>11, Marked DEF Marks
      <3>2. was[f] \cup Gain(m, k) \subseteq UNION {m[x] : x \in Key}
        BY <1>3, <1>4, GainOfKeys DEF Content
      <3> QED BY <3>1, <3>2 DEF Bit
    <2>2. UNION {OfBlock(was[f] \cup Gain(m, k), b) : b \in Block} = was[f] \cup Gain(m, k)
      BY <2>1 DEF OfBlock
    <2>3. {RoutedAfter(k, bits, count, cap, rows, b) : b \in Block} =
            {OfBlock(was[f] \cup Gain(m, k), b) : b \in Block}
      BY ONLY <1>12
    <2> QED BY <2>2, <2>3, Zenon
  <1>14. bits' = d.content
    <2>1. Contents(m, k, was) = was[f] \cup Gain(m, k) BY <1>5 DEF Contents
    <2>2. bits' = [bits EXCEPT ![f] = was[f] \cup Gain(m, k)] BY <1>2, <1>13
    <2>3. bits \in Content(m) /\ \A g \in Filter : g # f => bits[g] = was[g] BY <1>8 DEF Between
    <2>4. d.content = [was EXCEPT ![f] = was[f] \cup Gain(m, k)] BY <2>1 DEF Executed
    <2> HIDE DEF Content
    <2>5. was \in [Filter -> SUBSET UNION {m[x] : x \in Key}]
          /\ bits \in [Filter -> SUBSET UNION {m[x] : x \in Key}]
      BY <1>4, <2>3 DEF Content
    <2>6. ASSUME NEW X PROVE [bits EXCEPT ![f] = X] = [was EXCEPT ![f] = X]
      BY ONLY <1>4, <2>3, <2>5
    <2> QED BY ONLY <2>2, <2>4, <2>6, Zenon
  <1>15. ZerosAreTrue(d)'
    <2> SUFFICES ASSUME NEW g \in Filter, d.zero[g] PROVE Zero(g)' BY DEF ZerosAreTrue
    <2>1. counters \in [Filter -> [Block -> Nat]] BY <1>1, Zenon DEF StreamInv
    <2>2. CASE g = f
      <3>1. Block' = Block BY <1>2, Rigid
      <3>2. \A b \in Block : Min({count[b], cap}) = 0 => count[b] = 0
        BY ONLY <1>9, <1>10, SmallerOf, Zenon
      <3>3. counters'[f] = [b \in Block |-> IF Min({count[b], cap}) = 0 THEN count[b] ELSE 0]
        BY <1>2, <1>4, <2>1
      <3> QED BY <2>2, <3>1, <3>2, <3>3 DEF Zero
    <2>3. CASE g # f
      <3>1. Executed(m, k, s).zero[g] = s.zero[g] BY <1>3, <2>3, ExecutedIsState
      <3>2. Zero(g) BY <1>1, <1>2, <3>1 DEF Course, ZerosAreTrue
      <3>3. counters'[g] = counters[g] /\ layout' = layout BY <1>2, <2>1, <2>3
      <3> QED BY <3>2, <3>3, ZerosStay
    <2> QED BY <2>2, <2>3
  <1>16. Course(m, d, e)' BY <1>1, <1>2, <1>5, <1>14, <1>15, ComesToAnEnd
  <1>17. slots' \in [Filter -> [Block -> [0..(MaxSlots - 1) -> Int]]]
    <2>1. slots \in [Filter -> [Block -> [0..(MaxSlots - 1) -> Int]]] BY <1>1 DEF Arrays
    <2>2. rows \in [Block -> [0..(MaxSlots - 1) -> Int]] BY <1>4, <2>1
    <2>3. [b \in Block |-> [n \in DOMAIN rows[b] |-> Stale]]
              \in [Block -> [0..(MaxSlots - 1) -> Int]]
      BY <2>2 DEF Stale
    <2> QED BY <1>2, <2>1, <2>3
  <1>18. Arrays' BY <1>1, <1>2, <1>17, ArraysStay DEF Arrays
  <1> QED BY <1>16, <1>18

--------------------------------------------------------------------------------
(* The private route. *)

\* Where a private route stands.
LEMMA PrivateStands ==
    ASSUME Sound, NEW m, NEW s, NEW e, Here(m, s, e), queue # <<>>,
           NEW k, k = Head(queue), k.op \in PrivateKernels
    PROVE  /\ k \in Launched /\ s.content \in Content(m) /\ k.f \in Filter
           /\ host[k.f].producers \in 1..Cores /\ layout \in Private
           /\ Chosen(k) \in SUBSET Nat /\ Len(k.sel) = Len(k.keys)
           /\ \A i \in Chosen(k) :
                /\ k.keys[i] \in Key /\ m[k.keys[i]] = BitsOf(k.keys[i])
                /\ BitsOf(k.keys[i]) \subseteq Gain(m, k)
                /\ UpperHash(k.keys[i]) \in 0..(2^HashBits - 1)
                /\ BucketOf(UpperHash(k.keys[i])) \in Bucket
                /\ LocalBlock(UpperHash(k.keys[i])) \in 0..1
                /\ GlobalBlock(BucketOf(UpperHash(k.keys[i])), LocalBlock(UpperHash(k.keys[i]))) =
                     BlockIndex(UpperHash(k.keys[i]))
                /\ \A p \in BitsOf(k.keys[i]) : p[1] = BlockIndex(UpperHash(k.keys[i]))
  <1>1. StreamInv /\ HostInv /\ Arrays /\ Course(m, s, e) /\ m = Marks BY DEF Here
  <1>2. k \in Launched /\ s \in State(m) /\ Ready(m, k, s) BY <1>1, Beginning DEF Course
  <1>3. k.f \in Filter /\ s.content \in Content(m) BY <1>2 DEF Launched, State
  <1>4. host[k.f].workspace = "private"
    <2>1. queue[1] = k /\ 1 \in 1..Len(queue) BY <1>1 DEF StreamInv
    <2> QED BY <1>1, <2>1 DEF StreamInv, Served
  <1>5. Tidy(host[k.f]) BY <1>1, <1>3 DEF Arrays
  <1>6. host[k.f].producers \in 1..Cores /\ layout \in Private
    BY <1>4, <1>5 DEF Tidy, Sound, WorkersOK
  <1>7. Len(k.sel) = Len(k.keys)
    BY <1>2 DEF Ready, Batched, PrivateKernels, RouteKinds, ApplyKinds, Routes, TiledApplies,
                CompactApplies
  <1>8. HashesOK /\ PolicyOK BY DEF Sound
  <1>9. Chosen(k) \in SUBSET Nat BY <1>1, <1>2, <1>7, <1>8, Elements
  <1>10. \A i \in Chosen(k) :
                /\ k.keys[i] \in Key /\ m[k.keys[i]] = BitsOf(k.keys[i])
                /\ BitsOf(k.keys[i]) \subseteq Gain(m, k)
                /\ UpperHash(k.keys[i]) \in 0..(2^HashBits - 1)
                /\ \A p \in BitsOf(k.keys[i]) : p[1] = BlockIndex(UpperHash(k.keys[i]))
    BY <1>1, <1>2, <1>7, <1>8, Elements
  <1>11. \A u \in 0..(2^HashBits - 1) :
            /\ BucketOf(u) \in Bucket /\ LocalBlock(u) \in 0..1
            /\ GlobalBlock(BucketOf(u), LocalBlock(u)) = BlockIndex(u)
    BY <1>6, <1>8, PrivateBlock
  <1> QED BY <1>2, <1>3, <1>6, <1>7, <1>9, <1>10, <1>11

\* A private route, after a step.
LEMMA PrivateGoingNext ==
    ASSUME layout' = layout, host' = host, NEW m, NEW k, NEW was, NEW n, n = host[k.f].producers
    PROVE  PrivateGoing(m, k, was)' <=>
            /\ threads' # <<>>
            /\ local' \in [0..(n - 1) -> [Bucket -> Nat]]
            /\ Between(m, k, was, bits', OverIn(Segments(n), LocalCounts(Segments(n), local')))
            /\ \A t \in DOMAIN threads' :
                /\ CoreOf(t) \in 0..(n - 1)
                /\ threads'[t].seen # <<>> =>
                    threads'[t].seen \in [Bucket -> Nat]
                        /\ \A b \in Bucket : threads'[t].seen[b] <= local'[CoreOf(t)][b]
            /\ \E own \in [Chosen(k) -> DOMAIN threads'] :
                /\ Deals(threads', Chosen(k), own)
                /\ Books(Chosen(k), Segments(n), Todo(threads', Chosen(k), own),
                         Held(threads', Chosen(k), own), Tickets(threads', Chosen(k), own),
                         Segment(k, own), LocalCounts(Segments(n), local'), SegmentRecords,
                         PrivatePut(k, records'[k.f], Segments(n)), Sunk(m, k, bits'))
  <1>1. Block' = Block BY Rigid
  <1>2. OverIn(Segments(n), LocalCounts(Segments(n), local))' =
        OverIn(Segments(n), LocalCounts(Segments(n), local'))
    BY <1>1 DEF OverIn, LocalCounts
  <1>3. Between(m, k, was, bits, OverIn(Segments(n), LocalCounts(Segments(n), local)))' =
        Between(m, k, was, bits', OverIn(Segments(n), LocalCounts(Segments(n), local')))
    BY <1>2 DEF Between
  <1>4. \A own : Deals(threads, Chosen(k), own)' = Deals(threads', Chosen(k), own) BY DEF Deals
  <1>5. LocalCounts(Segments(n), local)' = LocalCounts(Segments(n), local') BY DEF LocalCounts
  <1>6. PrivatePut(k, records[k.f], Segments(n))' = PrivatePut(k, records'[k.f], Segments(n))
    BY DEF PrivatePut
  <1>7. \A own : /\ Todo(threads, Chosen(k), own)' = Todo(threads', Chosen(k), own)
                 /\ Held(threads, Chosen(k), own)' = Held(threads', Chosen(k), own)
                 /\ Tickets(threads, Chosen(k), own)' = Tickets(threads', Chosen(k), own)
    BY DEF Todo, Held, Tickets
  <1>8. Sunk(m, k, bits)' = Sunk(m, k, bits') BY DEF Sunk
  <1>9. \A own : Books(Chosen(k), Segments(n), Todo(threads, Chosen(k), own),
                       Held(threads, Chosen(k), own), Tickets(threads, Chosen(k), own),
                       Segment(k, own), LocalCounts(Segments(n), local), SegmentRecords,
                       PrivatePut(k, records[k.f], Segments(n)), Sunk(m, k, bits))' =
                 Books(Chosen(k), Segments(n), Todo(threads', Chosen(k), own),
                       Held(threads', Chosen(k), own), Tickets(threads', Chosen(k), own),
                       Segment(k, own), LocalCounts(Segments(n), local'), SegmentRecords,
                       PrivatePut(k, records'[k.f], Segments(n)), Sunk(m, k, bits'))
    BY <1>5, <1>6, <1>7, <1>8 DEF Books
  <1> QED BY <1>3, <1>4, <1>9 DEF PrivateGoing

\* The threads of a conditional private route are dealt neighbouring elements.
LEMMA BegunByStencils ==
    ASSUME WorkersOK, NEW k \in Launched, k = Head(queue), NEW total \in Nat \ {0},
           threads' = [t \in 0..(total - 1) |-> Thread(StencilBlock(t, total))]
    PROVE  /\ threads' # <<>> /\ DOMAIN threads' = 0..(total - 1)
           /\ \A t \in DOMAIN threads' :
                threads'[t].held = <<>> /\ threads'[t].word = 0 /\ threads'[t].seen = <<>>
           /\ \E own \in [Chosen(k) -> DOMAIN threads'] :
                /\ Deals(threads', Chosen(k), own)
                /\ Todo(threads', Chosen(k), own) = Chosen(k)
                /\ Held(threads', Chosen(k), own) = {}
                /\ Tickets(threads', Chosen(k), own) \in [Chosen(k) -> Nat]
  <1> DEFINE own == [i \in Chosen(k) |-> ((i - 1) \div StencilKeys) % total]
             D == 0..(total - 1)
             S == Chosen(k)
  <1>1. Len(k.keys) \in Nat /\ StencilKeys \in Nat \ {0} BY DEF Launched, WorkersOK
  <1>2. own \in [S -> D]
    <2> SUFFICES ASSUME NEW i \in Chosen(k) PROVE ((i - 1) \div StencilKeys) % total \in D OBVIOUS
    <2>1. i - 1 \in Int BY <1>1 DEF Chosen
    <2>2. (i - 1) \div StencilKeys \in Int BY ONLY <1>1, <2>1, Divided
    <2> QED BY ONLY total \in Nat \ {0}, <2>2, Divided
  <1>3. DOMAIN threads' = D OBVIOUS
  <1>4. \A t \in D : /\ threads'[t].held = <<>> /\ threads'[t].word = 0 /\ threads'[t].seen = <<>>
                     /\ \A i : i \in threads'[t].todo <=> i \in S /\ own[i] = t
    BY DEF StencilBlock, Chosen, This, Thread
  <1>5. threads' # <<>>
    <2>1. 0 \in D OBVIOUS
    <2> QED BY <1>3, <2>1, SomeThread
  <1> HIDE DEF own, D, S
  <1>6. /\ Deals(threads', S, own) /\ Todo(threads', S, own) = S /\ Held(threads', S, own) = {}
        /\ Tickets(threads', S, own) \in [S -> Nat]
    BY ONLY <1>2, <1>3, <1>4, Dealt
  <1> QED BY <1>2, <1>3, <1>4, <1>5, <1>6 DEF D, S

\* The core of a thread.
LEMMA CoresOfThreads ==
    ASSUME WorkersOK, NEW n \in Nat \ {0}
    PROVE  /\ CoreThreads * n \in Nat \ {0}
           /\ \A t \in 0..(CoreThreads * n - 1) : CoreOf(t) \in 0..(n - 1)
  <1>1. CoreThreads \in Nat \ {0} BY DEF WorkersOK
  <1>2. CoreThreads * n \in Nat \ {0} /\ CoreThreads * n = n * CoreThreads
    BY ONLY <1>1, n \in Nat \ {0}
  <1>3. ASSUME NEW t \in 0..(CoreThreads * n - 1) PROVE CoreOf(t) \in 0..(n - 1)
    <2> DEFINE c == n * CoreThreads
    <2>1. t \in Nat /\ t < c
      <3> HIDE DEF c
      <3>1. t \in 0..(c - 1) /\ c \in Nat BY <1>2 DEF c
      <3> QED BY ONLY <3>1
    <2>2. t \div CoreThreads \in 0..(n - 1) BY ONLY <1>1, <2>1, n \in Nat \ {0}, Quotient
    <2> QED BY <2>2 DEF CoreOf
  <1> QED BY <1>2, <1>3

\* RoutePrivateH8V1 and RoutePrivateH8V1If: whichever way the threads are dealt
\* their elements, the counters start at zero.
LEMMA PrivateBegins ==
    ASSUME Sound, NEW m, NEW s, NEW e, Here(m, s, e), RoutePrivateH8V1 \/ RoutePrivateH8V1If
    PROVE  Arrays' /\ \E d : Course(m, d, e)'
  <1> SUFFICES ASSUME NEW k, k = Head(queue), NEW was, was = s.content, NEW S, S = Chosen(k),
                      NEW us, us = threads', NEW n, n = host[k.f].producers, NEW D, D = Segments(n)
               PROVE  Arrays' /\ Course(m, s, e)'
    OBVIOUS
  <1>1. Arrays /\ StreamInv /\ Course(m, s, e) BY DEF Here
  <1>2. /\ queue # <<>> /\ k.op \in Routes /\ threads = <<>> /\ KeepQueue
        /\ UNCHANGED <<layout, host, bits, counters, slots, counts, records, selected>>
        /\ local' = [p \in 0..(n - 1) |-> [b \in Bucket |-> 0]]
    BY Zenon DEF RoutePrivateH8V1, RoutePrivateH8V1If, Begin, Running, Routes, This, KeepQueue,
        KeepHost,
           workspace, ZeroLocal, Producers
  <1>3. k.op \in PrivateKernels BY ONLY <1>2, Zenon DEF Routes, PrivateKernels
  <1>4. k \in Launched /\ k.f \in Filter /\ was \in Content(m) BY <1>2, <1>3, PrivateStands
  <1>5. n \in 1..Cores /\ Cores \in Nat \ {0} BY <1>2, <1>3, PrivateStands DEF Sound, WorkersOK
  <1>6. n \in Nat \ {0} BY <1>5
  <1>7. \A i \in S : BucketOf(UpperHash(k.keys[i])) \in Bucket BY <1>2, <1>3, PrivateStands
  <1>8. Progress(m, was) /\ ZerosAreTrue(s) BY <1>1 DEF Course
  <1>9. bits = was BY <1>2, <1>8, Zenon DEF Progress, Fresh, PrivateGoing
  <1> DEFINE total == CoreThreads * n
  <1>10. WorkersOK /\ total \in Nat \ {0} /\ \A t \in 0..(total - 1) : CoreOf(t) \in 0..(n - 1)
    BY <1>6, CoresOfThreads DEF Sound
  <1>11. \/ threads' = [t \in 0..(total - 1) |-> Thread(Strided(t, total))]
         \/ threads' = [t \in 0..(total - 1) |-> Thread(StencilBlock(t, total))]
    BY Zenon DEF RoutePrivateH8V1, RoutePrivateH8V1If, Begin, This
  <1> HIDE DEF total
  <1>12. us # <<>> /\ DOMAIN us = 0..(total - 1) BY <1>4, <1>10, <1>11, Begun, BegunByStencils
  <1>13. \A t \in DOMAIN us : us[t].seen = <<>> BY <1>4, <1>10, <1>11, Begun, BegunByStencils
  <1>14. PICK own \in [S -> DOMAIN us] :
            /\ Deals(us, S, own) /\ Todo(us, S, own) = S /\ Held(us, S, own) = {}
            /\ Tickets(us, S, own) \in [S -> Nat]
    BY <1>4, <1>10, <1>11, Begun, BegunByStencils
  <1>15. Segment(k, own) \in [S -> D]
    <2>1. \A i \in S : CoreOf(own[i]) \in 0..(n - 1) BY <1>10, <1>12, <1>14
    <2>2. \A i \in S : <<BucketOf(UpperHash(k.keys[i])), CoreOf(own[i])>> \in D
      BY <1>7, <2>1, Zenon DEF Segments
    <2> QED BY <2>2 DEF Segment
  <1>16. /\ local' \in [0..(n - 1) -> [Bucket -> Nat]]
         /\ \A p \in 0..(n - 1) : \A b \in Bucket : local'[p][b] = 0
    BY <1>2
  <1>17. LocalCounts(D, local') \in [D -> Nat] /\ \A c \in D : LocalCounts(D, local')[c] = 0
    <2>1. \A c \in D : c[1] \in Bucket /\ c[2] \in 0..(n - 1) BY DEF Segments
    <2>2. \A c \in D : local'[c[2]][c[1]] = 0 BY <1>16, <2>1
    <2> QED BY <2>2 DEF LocalCounts
  <1>18. SegmentRecords \in Nat BY DEF Sound, WorkersOK
  <1>19. ASSUME NEW put, NEW sunk
         PROVE  Books(S, D, Todo(us, S, own), Held(us, S, own), Tickets(us, S, own),
                      Segment(k, own), LocalCounts(D, local'), SegmentRecords, put, sunk)
    <2>1. Books(S, D, S, {}, Tickets(us, S, own), Segment(k, own), LocalCounts(D, local'),
                SegmentRecords, put, sunk)
      BY ONLY <1>14, <1>15, <1>17, <1>18, BooksOpen
    <2> QED BY <1>14, <2>1
  <1>20. ASSUME NEW over PROVE Between(m, k, was, bits', over) BY <1>2, <1>4, <1>9 DEF Between
  <1>21. \A t \in DOMAIN us : CoreOf(t) \in 0..(n - 1) BY ONLY <1>10, <1>12, Zenon
  <1>22. PrivateGoing(m, k, was)'
    <2>1. own \in [Chosen(k) -> DOMAIN threads'] /\ Deals(threads', Chosen(k), own) BY <1>14
    <2>2. Books(Chosen(k), Segments(n), Todo(threads', Chosen(k), own),
                         Held(threads', Chosen(k), own), Tickets(threads', Chosen(k), own),
                         Segment(k, own), LocalCounts(Segments(n), local'), SegmentRecords,
                         PrivatePut(k, records'[k.f], Segments(n)), Sunk(m, k, bits'))
      BY <1>19
    <2>3. \A t \in DOMAIN threads' :
                /\ CoreOf(t) \in 0..(n - 1)
                /\ threads'[t].seen # <<>> =>
                    threads'[t].seen \in [Bucket -> Nat]
                        /\ \A b \in Bucket : threads'[t].seen[b] <= local'[CoreOf(t)][b]
      BY <1>13, <1>21
    <2>4. Between(m, k, was, bits', OverIn(Segments(n), LocalCounts(Segments(n), local')))
      BY <1>20
    <2>5. threads' # <<>> /\ layout' = layout /\ host' = host /\ n = host[k.f].producers
      BY <1>2, <1>12
    <2> QED BY ONLY <1>16, <2>1, <2>2, <2>3, <2>4, <2>5, PrivateGoingNext
  <1>23. Progress(m, was)' BY <1>2, <1>22, StillGoing, Zenon
  <1>24. ZerosAreTrue(s)' BY <1>2, <1>8, <1>12, ZerosRemain
  <1>25. Course(m, s, e)' BY <1>1, <1>2, <1>23, <1>24, GoesOn
  <1>26. Arrays' BY <1>1, <1>2, ArraysStay DEF Arrays
  <1> QED BY <1>25, <1>26

\* One more ticket given out by a core for a bucket.
Ticked(l, c, b) == [l EXCEPT ![c] = [l[c] EXCEPT ![b] = l[c][b] + 1]]

\* A thread of a private route takes a ticket, the next one or the one that says
\* that there is no room.
LEMMA PrivateTakes ==
    ASSUME Sound, NEW m, NEW s, NEW e, Here(m, s, e), NEW t, WantsTicket(t), NEW x,
           Holding(t, x), KeepQueue, UNCHANGED <<bits, workspace>>, NEW c, c = CoreOf(t),
           NEW b, b = OwnBucket(t),
           \/ x = local[c][b] /\ local' = Ticked(local, c, b)
           \/ x = SegmentRecords /\ local[c][b] > SegmentRecords /\ local' = local
    PROVE  Arrays' /\ \E d : Course(m, d, e)'
  <1> SUFFICES ASSUME NEW k, k = Head(queue), NEW was, was = s.content, NEW S, S = Chosen(k),
                      NEW ts, ts = threads, NEW us, us = threads', NEW i, i = Upcoming(t),
                      NEW n, n = host[k.f].producers, NEW D, D = Segments(n),
                      NEW count, count = LocalCounts(D, local), NEW tally,
                      tally = LocalCounts(D, local'),
                      NEW put, put = PrivatePut(k, records[k.f], D),
                      NEW sunk, sunk = Sunk(m, k, bits)
               PROVE  Arrays' /\ Course(m, s, e)'
    OBVIOUS
  <1>1. Arrays /\ StreamInv /\ ShapeInv /\ Course(m, s, e) BY Zenon DEF Here
  <1>2. /\ queue # <<>> /\ k.op \in Routes /\ t \in DOMAIN ts /\ ts[t].todo # {}
        /\ UNCHANGED <<layout, host, bits, counters, slots, counts, records, selected>>
        /\ us = [ts EXCEPT ![t].held = With(@, i, x), ![t].todo = Rest(t), ![t].seen = <<>>]
        /\ b = BucketOf(UpperHash(k.keys[i]))
    BY DEF WantsTicket, AtKey, Running, This, KeepQueue, KeepHost, KeyAt, workspace, Holding,
       OwnBucket
  <1>3. k.op \in PrivateKernels BY <1>2, Zenon DEF Routes, PrivateKernels
  <1>4. k \in Launched /\ k.f \in Filter BY <1>2, <1>3, PrivateStands, Zenon
  <1>5. n \in 1..Cores BY <1>2, <1>3, PrivateStands, Zenon
  <1>6. S \in SUBSET Nat BY <1>2, <1>3, PrivateStands
  <1>7. \A j \in S : BucketOf(UpperHash(k.keys[j])) \in Bucket BY <1>2, <1>3, PrivateStands, Zenon
  <1>8. PrivateGoing(m, k, was)
    <2>1. threads # <<>> BY <1>2, SomeThread
    <2> QED BY <1>1, <1>2, <2>1, Zenon DEF Course, Progress, Fresh
  <1>9. /\ local \in [0..(n - 1) -> [Bucket -> Nat]]
        /\ Between(m, k, was, bits, OverIn(D, count))
        /\ \A u \in DOMAIN ts :
            /\ CoreOf(u) \in 0..(n - 1)
            /\ ts[u].seen # <<>> =>
                ts[u].seen \in [Bucket -> Nat]
                    /\ \A a \in Bucket : ts[u].seen[a] <= local[CoreOf(u)][a]
    BY <1>8, Zenon DEF PrivateGoing
  <1>10. PICK own \in [S -> DOMAIN ts] :
            /\ Deals(ts, S, own)
            /\ Books(S, D, Todo(ts, S, own), Held(ts, S, own), Tickets(ts, S, own),
                     Segment(k, own), count, SegmentRecords, put, sunk)
    BY <1>8, Zenon DEF PrivateGoing
  <1>11. i \in S /\ i \in ts[t].todo
    <2>1. i = Min(ts[t].todo) BY DEF Upcoming
    <2>2. Min(ts[t].todo) \in S BY ONLY <1>2, <1>6, <1>10, NextIsOwn
    <2>3. Min(ts[t].todo) \in ts[t].todo BY ONLY <1>2, <1>6, <1>10, NextIsOwn
    <2> QED BY <2>1, <2>2, <2>3
  <1>12. b \in Bucket /\ c \in 0..(n - 1) /\ local[c] \in [Bucket -> Nat] /\ local[c][b] \in Nat
    <2>1. b \in Bucket BY <1>2, <1>7, <1>11
    <2>2. c \in 0..(n - 1) BY <1>2, <1>9, Zenon
    <2>3. local[c] \in [Bucket -> Nat] BY <1>9, <2>2
    <2> QED BY ONLY <2>1, <2>2, <2>3, Zenon
  <1>13. SegmentRecords \in Nat BY DEF Sound, WorkersOK
  <1>14. x \in Nat BY <1>12, <1>13, Zenon
  <1>15. /\ us[t].todo = ts[t].todo \ {i} /\ us[t].held = With(ts[t].held, i, x)
         /\ us[t].seen = <<>> /\ Alike(ts, us, t) /\ DOMAIN us = DOMAIN ts
         /\ \A u \in DOMAIN ts : u # t => us[u] = ts[u]
    <2>1. DOMAIN ts[t] = ThreadFields BY <1>1, <1>2, Zenon DEF ShapeInv
    <2>2. us[t].todo = Rest(t) /\ us[t].held = With(ts[t].held, i, x) /\ us[t].seen = <<>>
      <3>1. us[t] = [[[ts[t] EXCEPT !.held = With(ts[t].held, i, x)] EXCEPT !.todo = Rest(t)]
                        EXCEPT !.seen = <<>>]
        BY <1>2, <2>1, Zenon DEF ThreadFields
      <3> QED BY <2>1, <3>1, Zenon DEF ThreadFields
    <2>3. DOMAIN us = DOMAIN ts /\ \A u \in DOMAIN ts : u # t => us[u] = ts[u] BY ONLY <1>2, Zenon
    <2> QED BY <2>2, <2>3, Zenon DEF Rest, Alike
  <1>16. t \in DOMAIN ts BY <1>2
  <1>17. Deals(us, S, own) BY ONLY <1>10, <1>11, <1>14, <1>15, <1>16, ElementTaken
  <1>18. i \in Todo(ts, S, own) BY ONLY <1>10, <1>11, <1>14, <1>15, <1>16, ElementTaken
  <1>19. own[i] = t BY ONLY <1>10, <1>11, <1>14, <1>15, <1>16, ElementTaken
  <1>20. Todo(us, S, own) = Todo(ts, S, own) \ {i}
    BY ONLY <1>10, <1>11, <1>14, <1>15, <1>16, ElementTaken
  <1>21. Held(us, S, own) = Held(ts, S, own) \cup {i}
    BY ONLY <1>10, <1>11, <1>14, <1>15, <1>16, ElementTaken
  <1>22. Tickets(us, S, own) \in [S -> Nat] BY ONLY <1>10, <1>11, <1>14, <1>15, <1>16, ElementTaken
  <1>23. Tickets(us, S, own)[i] = x BY ONLY <1>10, <1>11, <1>14, <1>15, <1>16, ElementTaken
  <1>24. \A j \in S : j # i => Tickets(us, S, own)[j] = Tickets(ts, S, own)[j]
    BY ONLY <1>10, <1>11, <1>14, <1>15, <1>16, ElementTaken
  <1> SUFFICES ASSUME NEW cell, cell = Segment(k, own) PROVE Arrays' /\ Course(m, s, e)' OBVIOUS
  <1>25. cell[i] = <<b, c>> /\ <<b, c>> \in D
    <2>1. cell[i] = <<BucketOf(UpperHash(k.keys[i])), CoreOf(own[i])>> BY <1>11 DEF Segment
    <2>2. <<b, c>> \in D BY <1>12 DEF Segments
    <2> QED BY <1>2, <1>19, <2>1, <2>2, Zenon
  <1>26. count = [d \in D |-> local[d[2]][d[1]]] /\ count[<<b, c>>] = local[c][b]
    BY <1>25 DEF LocalCounts
  <1>27. /\ local' \in [0..(n - 1) -> [Bucket -> Nat]]
         /\ \A p \in 0..(n - 1) : \A a \in Bucket : local[p][a] <= local'[p][a]
         /\ \/ x = count[cell[i]] /\ tally = Counted(count, cell[i])
            \/ x >= SegmentRecords /\ count[cell[i]] > SegmentRecords /\ tally = count
    <2>1. CASE x = SegmentRecords /\ local[c][b] > SegmentRecords /\ local' = local
      <3>1. tally = count BY <2>1, Zenon
      <3>2. \A p \in 0..(n - 1) : \A a \in Bucket : local[p][a] \in Nat BY ONLY <1>9, Zenon
      <3>3. \A p \in 0..(n - 1) : \A a \in Bucket : local[p][a] <= local'[p][a]
        BY ONLY <2>1, <3>2, SMTT(40)
      <3>4. x >= SegmentRecords /\ count[cell[i]] > SegmentRecords
        BY <1>13, <1>25, <1>26, <2>1, SMTT(40)
      <3>5. local' \in [0..(n - 1) -> [Bucket -> Nat]] BY <1>9, <2>1
      <3> QED BY <3>1, <3>3, <3>4, <3>5, Zenon
    <2>2. CASE x = local[c][b] /\ local' = Ticked(local, c, b)
      <3>1. /\ DOMAIN local' = 0..(n - 1)
            /\ local'[c] = [local[c] EXCEPT ![b] = local[c][b] + 1]
            /\ \A p \in 0..(n - 1) : p # c => local'[p] = local[p]
        BY ONLY <1>9, <1>12, <2>2, Zenon DEF Ticked
      <3>2. /\ local'[c] \in [Bucket -> Nat] /\ local'[c][b] = local[c][b] + 1
            /\ \A a \in Bucket : a # b => local'[c][a] = local[c][a]
        BY <1>12, <3>1, SMTT(40)
      <3>3. local' \in [0..(n - 1) -> [Bucket -> Nat]]
        <4>1. local' = Ticked(local, c, b) /\ local \in [0..(n - 1) -> [Bucket -> Nat]]
          BY <1>9, <2>2, Zenon
        <4>2. local'[c] \in [Bucket -> Nat] /\ local' = [local EXCEPT ![c] = local'[c]]
          BY <3>1, <3>2, <4>1, Zenon DEF Ticked
        <4> QED BY <1>12, <4>1, <4>2
      <3>4. \A p \in 0..(n - 1) : \A a \in Bucket : local[p][a] \in Nat BY <1>9
      <3>5. \A p \in 0..(n - 1) : \A a \in Bucket : local[p][a] <= local'[p][a]
        <4> SUFFICES ASSUME NEW p \in 0..(n - 1), NEW a \in Bucket
                     PROVE  local[p][a] <= local'[p][a]
          OBVIOUS
        <4>1. CASE p # c BY <3>1, <3>4, <4>1
        <4>2. CASE p = c /\ a # b BY <3>2, <3>4, <4>2
        <4>3. CASE p = c /\ a = b BY <1>12, <3>2, <4>3
        <4> QED BY <4>1, <4>2, <4>3
      <3>6. tally = Counted(count, <<b, c>>)
        <4>1. tally = [d \in D |-> local'[d[2]][d[1]]] BY DEF LocalCounts
        <4>2. Counted(count, <<b, c>>) =
                [d \in D |-> IF d = <<b, c>> THEN count[<<b, c>>] + 1 ELSE count[d]]
          BY <1>26, Zenon DEF Counted
        <4>3. ASSUME NEW d \in D
              PROVE  local'[d[2]][d[1]] = IF d = <<b, c>> THEN count[<<b, c>>] + 1 ELSE count[d]
          <5>1. d = <<d[1], d[2]>> /\ d[1] \in Bucket /\ d[2] \in 0..(n - 1) BY DEF Segments
          <5>2. count[d] = local[d[2]][d[1]] BY ONLY <1>26, Zenon
          <5>3. CASE d = <<b, c>>
            <6>1. d[1] = b /\ d[2] = c BY <5>3, Zenon
            <6> QED BY <1>26, <3>2, <5>3, <6>1
          <5>4. CASE d # <<b, c>>
            <6>1. d[1] # b \/ d[2] # c BY ONLY <5>1, <5>4, Zenon
            <6> QED BY ONLY <3>1, <3>2, <5>1, <5>2, <5>4, <6>1
          <5> QED BY <5>3, <5>4
        <4> DEFINE L(d) == local'[d[2]][d[1]]
                   R(d) == IF d = <<b, c>> THEN count[<<b, c>>] + 1 ELSE count[d]
        <4> HIDE DEF L, R
        <4>4. tally = [d \in D |-> L(d)] BY <4>1 DEF L
        <4>5. Counted(count, <<b, c>>) = [d \in D |-> R(d)] BY ONLY <4>2, Zenon DEF R
        <4>6. \A d \in D : L(d) = R(d) BY <4>3, Zenon DEF L, R
        <4> QED BY ONLY <4>4, <4>5, <4>6, Zenon
      <3> QED BY <1>25, <1>26, <2>2, <3>3, <3>5, <3>6, Zenon
    <2> QED BY <2>1, <2>2, Zenon
  <1>28. Books(S, D, Todo(us, S, own), Held(us, S, own), Tickets(us, S, own), cell, tally,
               SegmentRecords, put, sunk)
    <2>1. Held(ts, S, own) \subseteq S /\ i \notin Held(ts, S, own) BY <1>10, <1>18, Zenon DEF Books
    <2>2. \A j \in Held(ts, S, own) : Tickets(us, S, own)[j] = Tickets(ts, S, own)[j]
      BY <1>24, <2>1
    <2>3. \/ Tickets(us, S, own)[i] = count[cell[i]] /\ tally = Counted(count, cell[i])
          \/ Tickets(us, S, own)[i] >= SegmentRecords /\ count[cell[i]] > SegmentRecords
                /\ tally = count
      BY <1>23, <1>27, Zenon
    <2>4. Books(S, D, Todo(ts, S, own), Held(ts, S, own), Tickets(ts, S, own), cell, count,
                SegmentRecords, put, sunk)
      BY <1>10
    <2>5. Books(S, D, Todo(ts, S, own) \ {i}, Held(ts, S, own) \cup {i}, Tickets(us, S, own),
                cell, tally, SegmentRecords, put, sunk)
      BY ONLY <1>13, <1>18, <1>22, <2>2, <2>3, <2>4, TicketTaken
    <2> QED BY <1>20, <1>21, <2>5
  <1>29. Between(m, k, was, bits', OverIn(D, tally))
    <2>1. \A d \in D : count[d] \in Nat /\ tally[d] \in Nat /\ count[d] <= tally[d]
      <3> SUFFICES ASSUME NEW d \in D
                   PROVE  count[d] \in Nat /\ tally[d] \in Nat /\ count[d] <= tally[d]
        BY Zenon
      <3>1. d[1] \in Bucket /\ d[2] \in 0..(n - 1) BY Zenon DEF Segments
      <3>2. count[d] = local[d[2]][d[1]] /\ tally[d] = local'[d[2]][d[1]] BY Zenon DEF LocalCounts
      <3>3. local[d[2]][d[1]] \in Nat BY <1>9, <3>1, SMTT(40)
      <3>4. local'[d[2]][d[1]] \in Nat BY <1>27, <3>1
      <3>5. local[d[2]][d[1]] <= local'[d[2]][d[1]] BY ONLY <1>27, <3>1, Zenon
      <3> QED BY <3>2, <3>3, <3>4, <3>5
    <2>2. \A d \in D : count[d] > SegmentRecords => tally[d] > SegmentRecords
      BY ONLY <1>13, <2>1, SMTT(40)
    <2>3. OverIn(D, count) \subseteq OverIn(D, tally) BY <2>2 DEF OverIn
    <2> QED BY ONLY <1>2, <1>9, <2>3, Zenon DEF Between
  <1>30. us # <<>> BY <1>15, <1>16, SomeThread
  <1>31. PrivateGoing(m, k, was)'
    <2>1. own \in [Chosen(k) -> DOMAIN threads'] /\ Deals(threads', Chosen(k), own)
      BY <1>10, <1>15, <1>17, Zenon
    <2>2. bits' = bits /\ records' = records BY <1>2, Zenon
    <2>3. Books(Chosen(k), Segments(n), Todo(threads', Chosen(k), own),
                         Held(threads', Chosen(k), own), Tickets(threads', Chosen(k), own),
                         Segment(k, own), LocalCounts(Segments(n), local'), SegmentRecords,
                         PrivatePut(k, records'[k.f], Segments(n)), Sunk(m, k, bits'))
      BY <1>28, <2>2, Zenon
    <2>4. \A u \in DOMAIN threads' :
                /\ CoreOf(u) \in 0..(n - 1)
                /\ threads'[u].seen # <<>> =>
                    threads'[u].seen \in [Bucket -> Nat]
                        /\ \A a \in Bucket : threads'[u].seen[a] <= local'[CoreOf(u)][a]
      <3> SUFFICES ASSUME NEW u \in DOMAIN ts
                   PROVE  /\ CoreOf(u) \in 0..(n - 1)
                          /\ us[u].seen # <<>> =>
                               us[u].seen \in [Bucket -> Nat]
                                 /\ \A a \in Bucket : us[u].seen[a] <= local'[CoreOf(u)][a]
        BY <1>15, Zenon
      <3>1. CASE u = t BY <1>9, <1>15, <3>1, Zenon
      <3>2. CASE u # t
        <4>1. us[u] = ts[u] /\ CoreOf(u) \in 0..(n - 1) BY <1>9, <1>15, <3>2
        <4>2. ASSUME ts[u].seen # <<>>, NEW a \in Bucket
              PROVE  ts[u].seen[a] <= local'[CoreOf(u)][a]
          <5>1. ts[u].seen \in [Bucket -> Nat] /\ ts[u].seen[a] <= local[CoreOf(u)][a]
            BY <1>9, <4>2
          <5>2. local[CoreOf(u)][a] <= local'[CoreOf(u)][a] BY <1>27, <4>1, Zenon
          <5>3. local[CoreOf(u)][a] \in Nat /\ local'[CoreOf(u)][a] \in Nat
            BY ONLY <1>9, <1>27, <4>1, Zenon
          <5>4. ts[u].seen[a] \in Nat BY <5>1
          <5> QED BY ONLY <5>1, <5>2, <5>3, <5>4, SMTT(40)
        <4>3. ts[u].seen # <<>> => ts[u].seen \in [Bucket -> Nat] BY <1>9
        <4> QED BY ONLY <4>1, <4>2, <4>3, Zenon
      <3> QED BY <3>1, <3>2, Zenon
    <2>5. Between(m, k, was, bits', OverIn(Segments(n), LocalCounts(Segments(n), local')))
      BY <1>29, Zenon
    <2>6. threads' # <<>> /\ layout' = layout /\ host' = host /\ n = host[k.f].producers
      BY <1>2, <1>30, Zenon
    <2>7. local' \in [0..(n - 1) -> [Bucket -> Nat]] BY <1>27
    <2> QED BY ONLY <2>1, <2>3, <2>4, <2>5, <2>6, <2>7, PrivateGoingNext, Zenon
  <1>32. Progress(m, was)' BY <1>2, <1>31, StillGoing, Zenon
  <1>33. ZerosAreTrue(s)' BY <1>1, <1>2, <1>30, ZerosRemain, Zenon DEF Course
  <1>34. Course(m, s, e)' BY <1>1, <1>2, <1>32, <1>33, GoesOn, SMTT(40)
  <1>35. Arrays' BY <1>1, <1>2, ArraysStay DEF Arrays
  <1> QED BY <1>34, <1>35

\* A thread of a private route looks at the counters of its core.
LEMMA PrivateLooks ==
    ASSUME Sound, NEW m, NEW s, NEW e, Here(m, s, e), NEW t, WantsTicket(t), KeepQueue,
           UNCHANGED <<local, bits, workspace>>,
           threads' = [threads EXCEPT ![t].seen = local[CoreOf(t)]]
    PROVE  Arrays' /\ \E d : Course(m, d, e)'
  <1> SUFFICES ASSUME NEW k, k = Head(queue), NEW was, was = s.content, NEW S, S = Chosen(k),
                      NEW ts, ts = threads, NEW us, us = threads',
                      NEW n, n = host[k.f].producers, NEW D, D = Segments(n)
               PROVE  Arrays' /\ Course(m, s, e)'
    OBVIOUS
  <1>1. Arrays /\ StreamInv /\ ShapeInv /\ Course(m, s, e) BY DEF Here
  <1>2. /\ queue # <<>> /\ k.op \in Routes /\ t \in DOMAIN ts
        /\ UNCHANGED <<layout, host, local, bits, counters, slots, counts, records, selected>>
        /\ us = [ts EXCEPT ![t].seen = local[CoreOf(t)]]
    BY DEF WantsTicket, AtKey, Running, This, KeepQueue, KeepHost, workspace
  <1>3. PrivateGoing(m, k, was)
    <2>1. threads # <<>> BY <1>2, SomeThread
    <2> QED BY <1>1, <1>2, <2>1 DEF Course, Progress, Fresh
  <1>4. /\ local \in [0..(n - 1) -> [Bucket -> Nat]]
        /\ Between(m, k, was, bits, OverIn(D, LocalCounts(D, local)))
        /\ \A u \in DOMAIN ts :
            /\ CoreOf(u) \in 0..(n - 1)
            /\ ts[u].seen # <<>> =>
                ts[u].seen \in [Bucket -> Nat]
                    /\ \A a \in Bucket : ts[u].seen[a] <= local[CoreOf(u)][a]
    BY <1>3, Zenon DEF PrivateGoing
  <1>5. PICK own \in [S -> DOMAIN ts] :
            /\ Deals(ts, S, own)
            /\ Books(S, D, Todo(ts, S, own), Held(ts, S, own), Tickets(ts, S, own),
                     Segment(k, own), LocalCounts(D, local), SegmentRecords,
                     PrivatePut(k, records[k.f], D), Sunk(m, k, bits))
    BY <1>3 DEF PrivateGoing
  <1>6. /\ us[t].todo = ts[t].todo /\ us[t].held = ts[t].held /\ us[t].seen = local[CoreOf(t)]
        /\ DOMAIN us = DOMAIN ts /\ \A u \in DOMAIN ts : u # t => us[u] = ts[u]
    <2>1. DOMAIN ts[t] = ThreadFields BY <1>1, <1>2 DEF ShapeInv
    <2>2. /\ us[t].todo = ts[t].todo /\ us[t].held = ts[t].held /\ us[t].seen = local[CoreOf(t)]
      BY <1>2, <2>1 DEF ThreadFields
    <2> QED BY <1>2, <2>2
  <1>7. \A u \in DOMAIN ts : us[u].todo = ts[u].todo /\ us[u].held = ts[u].held BY <1>6
  <1>8. DOMAIN us = DOMAIN ts BY <1>6
  <1>9. Deals(us, S, own) BY ONLY <1>5, <1>7, <1>8, SameElements
  <1>10. Todo(us, S, own) = Todo(ts, S, own) BY ONLY <1>5, <1>7, <1>8, SameElements
  <1>11. Held(us, S, own) = Held(ts, S, own) BY ONLY <1>5, <1>7, <1>8, SameElements
  <1>12. Tickets(us, S, own) = Tickets(ts, S, own) BY ONLY <1>5, <1>7, <1>8, SameElements
  <1>13. us # <<>> BY <1>2, <1>8, SomeThread
  <1>14. PrivateGoing(m, k, was)'
    <2>1. own \in [Chosen(k) -> DOMAIN threads'] /\ Deals(threads', Chosen(k), own)
      BY <1>5, <1>8, <1>9
    <2>2. bits' = bits /\ records' = records /\ local' = local BY <1>2, Zenon
    <2>3. Books(Chosen(k), Segments(n), Todo(threads', Chosen(k), own),
                         Held(threads', Chosen(k), own), Tickets(threads', Chosen(k), own),
                         Segment(k, own), LocalCounts(Segments(n), local'), SegmentRecords,
                         PrivatePut(k, records'[k.f], Segments(n)), Sunk(m, k, bits'))
      BY <1>5, <1>10, <1>11, <1>12, <2>2
    <2>4. \A u \in DOMAIN threads' :
                /\ CoreOf(u) \in 0..(n - 1)
                /\ threads'[u].seen # <<>> =>
                    threads'[u].seen \in [Bucket -> Nat]
                        /\ \A a \in Bucket : threads'[u].seen[a] <= local'[CoreOf(u)][a]
      <3> SUFFICES ASSUME NEW u \in DOMAIN ts
                   PROVE  /\ CoreOf(u) \in 0..(n - 1)
                          /\ us[u].seen # <<>> =>
                               us[u].seen \in [Bucket -> Nat]
                                 /\ \A a \in Bucket : us[u].seen[a] <= local[CoreOf(u)][a]
        BY <1>8, <2>2
      <3>1. CASE u = t
        <4>1. CoreOf(t) \in 0..(n - 1) BY ONLY <1>2, <1>4, Zenon
        <4>2. local[CoreOf(t)] \in [Bucket -> Nat] BY <1>4, <4>1
        <4>3. \A a \in Bucket : local[CoreOf(t)][a] <= local[CoreOf(t)][a]
          <5>1. \A a \in Bucket : local[CoreOf(t)][a] \in Nat BY <4>2, Zenon
          <5> QED BY <5>1
        <4> QED BY <1>6, <3>1, <4>1, <4>2, <4>3
      <3>2. CASE u # t BY <1>4, <1>6, <3>2
      <3> QED BY <3>1, <3>2
    <2>5. Between(m, k, was, bits', OverIn(Segments(n), LocalCounts(Segments(n), local')))
      BY <1>4, <2>2
    <2>6. threads' # <<>> /\ layout' = layout /\ host' = host /\ n = host[k.f].producers
      BY <1>2, <1>13
    <2>7. local' \in [0..(n - 1) -> [Bucket -> Nat]] BY <1>4, <2>2
    <2> QED BY ONLY <2>1, <2>3, <2>4, <2>5, <2>6, <2>7, PrivateGoingNext
  <1>15. Progress(m, was)' BY <1>2, <1>14, StillGoing
  <1>16. ZerosAreTrue(s)' BY <1>1, <1>2, <1>13, ZerosRemain DEF Course
  <1>17. Course(m, s, e)' BY <1>1, <1>2, <1>15, <1>16, GoesOn
  <1>18. Arrays' BY <1>1, <1>2, ArraysStay DEF Arrays
  <1> QED BY <1>17, <1>18

\* The tickets of private routes, and the looks at the counters.
LEMMA PrivateTickets ==
    ASSUME Sound, NEW m, NEW s, NEW e, Here(m, s, e), NEW t,
           AddTicket(t) \/ Observe(t) \/ OverflowIsSet(t) \/ CasTicket(t)
    PROVE  Arrays' /\ \E d : Course(m, d, e)'
  <1> SUFFICES ASSUME NEW c, c = CoreOf(t), NEW b, b = OwnBucket(t)
               PROVE  Arrays' /\ \E d : Course(m, d, e)'
    OBVIOUS
  <1>1. WantsTicket(t) /\ KeepQueue /\ UNCHANGED <<bits, workspace>>
    BY DEF AddTicket, Observe, OverflowIsSet, CasTicket
  <1>2. ASSUME threads[t].seen # <<>>
        PROVE  threads[t].seen[b] \in Nat /\ local[c][b] \in Nat
              /\ threads[t].seen[b] <= local[c][b]
    <2> SUFFICES ASSUME NEW k, k = Head(queue), NEW i, i = Upcoming(t)
                 PROVE  threads[t].seen[b] \in Nat /\ local[c][b] \in Nat
                          /\ threads[t].seen[b] <= local[c][b]
      OBVIOUS
    <2>1. /\ queue # <<>> /\ k.op \in Routes /\ t \in DOMAIN threads /\ threads[t].todo # {}
          /\ b = BucketOf(UpperHash(k.keys[i]))
      BY <1>1 DEF WantsTicket, AtKey, Running, This, KeyAt, OwnBucket
    <2>2. k.op \in PrivateKernels BY <2>1 DEF Routes, PrivateKernels
    <2>3. PrivateGoing(m, k, s.content)
      <3>1. threads # <<>> BY <2>1, SomeThread, SMTT(40)
      <3> QED BY <2>1, <3>1 DEF Here, Course, Progress, Fresh
    <2>4. /\ local \in [0..(host[k.f].producers - 1) -> [Bucket -> Nat]]
          /\ c \in 0..(host[k.f].producers - 1) /\ threads[t].seen \in [Bucket -> Nat]
          /\ \A a \in Bucket : threads[t].seen[a] <= local[c][a]
      BY <1>2, <2>1, <2>3 DEF PrivateGoing
    <2>5. b \in Bucket
      <3>1. Chosen(k) \in SUBSET Nat BY <2>1, <2>2, PrivateStands, Zenon
      <3>2. PICK own \in [Chosen(k) -> DOMAIN threads] : Deals(threads, Chosen(k), own)
        BY <2>3 DEF PrivateGoing
      <3>3. Min(threads[t].todo) \in Chosen(k) BY ONLY <2>1, <3>1, <3>2, NextIsOwn
      <3>4. \A j \in Chosen(k) : BucketOf(UpperHash(k.keys[j])) \in Bucket
        BY <2>1, <2>2, PrivateStands
      <3> QED BY <2>1, <3>3, <3>4 DEF Upcoming
    <2>6. local[c] \in [Bucket -> Nat] BY <2>4
    <2> QED BY <2>4, <2>5, <2>6
  <1>3. CASE AddTicket(t)
    <2>1. Holding(t, local[c][b]) /\ local' = Ticked(local, c, b) BY <1>3 DEF AddTicket, Ticked
    <2> QED BY <1>1, <2>1, PrivateTakes
  <1>4. CASE Observe(t) BY <1>1, <1>4, PrivateLooks DEF Observe
  <1>5. CASE OverflowIsSet(t)
    <2>1. Holding(t, SegmentRecords) /\ local' = local /\ threads[t].seen # <<>>
          /\ threads[t].seen[b] > SegmentRecords
      BY <1>5 DEF OverflowIsSet, OverflowTicket
    <2>2. SegmentRecords \in Nat BY DEF Sound, WorkersOK
    <2>3. local[c][b] > SegmentRecords BY <1>2, <2>1, <2>2
    <2> QED BY <1>1, <2>1, <2>3, PrivateTakes
  <1>6. CASE CasTicket(t) /\ ~SameWord(t)
    <2>1. threads' = [threads EXCEPT ![t].seen = local[CoreOf(t)]] /\ local' = local
      BY <1>6 DEF CasTicket
    <2> QED BY <1>1, <2>1, PrivateLooks
  <1>7. CASE CasTicket(t) /\ SameWord(t)
    <2> SUFFICES ASSUME NEW x, x = local[c][b] PROVE Arrays' /\ \E d : Course(m, d, e)' OBVIOUS
    <2>1. /\ threads[t].seen # <<>> /\ threads[t].seen = local[c] /\ x <= SegmentRecords
          /\ local' = Ticked(local, c, b)
          /\ Holding(t, IF x < SegmentRecords THEN x ELSE SegmentRecords)
      BY <1>7 DEF CasTicket, SameWord, Ticked, OverflowTicket
    <2>2. (IF x < SegmentRecords THEN x ELSE SegmentRecords) = x
      BY <1>2, <2>1 DEF Sound, WorkersOK
    <2>3. Holding(t, x) BY <2>1, <2>2
    <2> QED BY <1>1, <2>1, <2>3, PrivateTakes
  <1> QED BY <1>3, <1>4, <1>5, <1>6, <1>7

\* A block belongs to its bucket.
LEMMA BlockOfBucket ==
    ASSUME NEW c \in Nat, NEW l \in 0..1
    PROVE  GlobalBlock(c, l) \div BlocksPerBucket = c
  <1>1. GlobalBlock(c, l) = c * 2 + l BY DEF GlobalBlock, BlocksPerBucket
  <1>2. (c * 2 + l) \div 2 = c OBVIOUS
  <1> QED BY <1>1, <1>2 DEF BlocksPerBucket

\* RoutePrivateKeyIf: the hash goes to its segment, or the bits to the filter.
LEMMA PrivateCommits ==
    ASSUME Sound, NEW m, NEW s, NEW e, Here(m, s, e), NEW t, CommitPrivate(t)
    PROVE  Arrays' /\ \E d : Course(m, d, e)'
  <1> SUFFICES ASSUME NEW k, k = Head(queue), NEW was, was = s.content, NEW S, S = Chosen(k),
                      NEW ts, ts = threads, NEW us, us = threads', NEW cap, cap = SegmentRecords,
                      NEW i, i = First(t), NEW h, h = Hash[k.keys[i]],
                      NEW n, n = host[k.f].producers, NEW D, D = Segments(n),
                      NEW count, count = LocalCounts(D, local),
                      NEW X, X = BitsOf(k.keys[i]), NEW ticket, ticket = ts[t].held[i],
                      NEW place, place = <<BucketOf(UpperHash(k.keys[i])), CoreOf(t), ticket>>,
                      NEW file, file = records[k.f], NEW file2, file2 = records'[k.f],
                      NEW put, put = PrivatePut(k, file, D), NEW pos, pos = PrivatePut(k, file2, D),
                      NEW sunk, sunk = Sunk(m, k, bits), NEW deep, deep = Sunk(m, k, bits')
               PROVE  Arrays' /\ Course(m, s, e)'
    OBVIOUS
  <1>1. Arrays /\ StreamInv /\ ShapeInv /\ Course(m, s, e) /\ m = Marks BY Zenon DEF Here
  <1>2. /\ queue # <<>> /\ k.op \in Routes /\ t \in DOMAIN ts /\ DOMAIN ts[t].held # {} /\ KeepQueue
        /\ UNCHANGED <<layout, host, local, counters, slots, counts, selected>>
        /\ us = [ts EXCEPT ![t].held = Without(@, i)]
        /\ IF ticket < cap
           THEN records' = [records EXCEPT ![k.f] = With(@, place, h)] /\ bits' = bits
           ELSE bits' = [bits EXCEPT ![k.f] = @ \cup X] /\ records' = records
    BY DEF CommitPrivate, Running, This, KeepQueue, KeepHost, KeyAt, Write, BitsOf
  <1>3. k.op \in PrivateKernels BY <1>2, Zenon DEF Routes, PrivateKernels
  <1>4. k \in Launched /\ k.f \in Filter BY <1>2, <1>3, PrivateStands, Zenon
  <1>5. n \in 1..Cores /\ cap \in Nat BY <1>2, <1>3, PrivateStands, Zenon DEF Sound, WorkersOK
  <1>6. S \in SUBSET Nat BY <1>2, <1>3, PrivateStands, Zenon
  <1>7. \A j \in S : k.keys[j] \in Key /\ BucketOf(UpperHash(k.keys[j])) \in Bucket
    BY <1>2, <1>3, PrivateStands
  <1>8. PrivateGoing(m, k, was)
    <2>1. threads # <<>> BY <1>2, SomeThread
    <2> QED BY <1>1, <1>2, <2>1, Zenon DEF Course, Progress, Fresh
  <1>9. /\ local \in [0..(n - 1) -> [Bucket -> Nat]]
        /\ Between(m, k, was, bits, OverIn(D, count))
        /\ \A u \in DOMAIN ts :
            /\ CoreOf(u) \in 0..(n - 1)
            /\ ts[u].seen # <<>> =>
                ts[u].seen \in [Bucket -> Nat]
                    /\ \A a \in Bucket : ts[u].seen[a] <= local[CoreOf(u)][a]
    BY <1>8, Zenon DEF PrivateGoing
  <1>10. PICK own \in [S -> DOMAIN ts] :
            /\ Deals(ts, S, own)
            /\ Books(S, D, Todo(ts, S, own), Held(ts, S, own), Tickets(ts, S, own),
                     Segment(k, own), count, cap, put, sunk)
    BY <1>8, Zenon DEF PrivateGoing
  <1>11. i \in S /\ i \in DOMAIN ts[t].held /\ ticket \in Nat
    <2>1. DOMAIN ts[t].held \subseteq S /\ ts[t].held \in [DOMAIN ts[t].held -> Nat]
      BY <1>2, <1>10, Zenon DEF Deals
    <2>2. DOMAIN ts[t].held \in SUBSET Nat BY <1>6, <2>1, Zenon
    <2>3. i \in DOMAIN ts[t].held BY <1>2, <2>2, LeastIn, Zenon DEF First
    <2> QED BY <2>1, <2>3, Zenon
  <1>12. t \in DOMAIN ts BY <1>2, Zenon
  <1>13. /\ us[t].todo = ts[t].todo /\ us[t].held = Without(ts[t].held, i)
         /\ us[t].seen = ts[t].seen
         /\ Alike(ts, us, t) /\ DOMAIN us = DOMAIN ts
         /\ \A u \in DOMAIN ts : u # t => us[u] = ts[u]
    <2>1. DOMAIN ts[t] = ThreadFields BY <1>1, <1>2, Zenon DEF ShapeInv
    <2>2. /\ us[t].todo = ts[t].todo /\ us[t].held = Without(ts[t].held, i)
          /\ us[t].seen = ts[t].seen
      BY ONLY <1>2, <2>1, Zenon DEF ThreadFields
    <2>3. DOMAIN us = DOMAIN ts /\ \A u \in DOMAIN ts : u # t => us[u] = ts[u] BY <1>2
    <2> QED BY ONLY <2>2, <2>3, Zenon DEF Alike
  <1>14. Deals(us, S, own) BY ONLY <1>10, <1>11, <1>12, <1>13, ElementUsed
  <1>15. i \in Held(ts, S, own) BY ONLY <1>10, <1>11, <1>12, <1>13, ElementUsed
  <1>16. own[i] = t BY ONLY <1>10, <1>11, <1>12, <1>13, ElementUsed
  <1>17. Todo(us, S, own) = Todo(ts, S, own) BY ONLY <1>10, <1>11, <1>12, <1>13, ElementUsed
  <1>18. Held(us, S, own) = Held(ts, S, own) \ {i} BY ONLY <1>10, <1>11, <1>12, <1>13, ElementUsed
  <1>19. Tickets(us, S, own) \in [S -> Nat] BY ONLY <1>10, <1>11, <1>12, <1>13, ElementUsed
  <1>20. Tickets(ts, S, own)[i] = ticket
    <2>1. Tickets(ts, S, own)[i] = ts[t].held[i]
      BY ONLY <1>10, <1>11, <1>12, <1>13, ElementUsed
    <2> QED BY <2>1
  <1>21. \A j \in S : j # i => Tickets(us, S, own)[j] = Tickets(ts, S, own)[j]
    BY ONLY <1>10, <1>11, <1>12, <1>13, ElementUsed
  <1> SUFFICES ASSUME NEW cell, cell = Segment(k, own) PROVE Arrays' /\ Course(m, s, e)' OBVIOUS
  <1>22. cell[i] = <<place[1], place[2]>> /\ cell[i] \in D
         /\ place = <<cell[i][1], cell[i][2], ticket>>
    <2>1. cell[i] = <<BucketOf(UpperHash(k.keys[i])), CoreOf(own[i])>> BY <1>11 DEF Segment
    <2>2. cell[i] \in D BY <1>10, <1>11, Zenon DEF Books
    <2> QED BY <1>16, <2>1, <2>2
  \* What happens to the records and to the filter.
  <1> DEFINE Placed ==
               /\ DOMAIN records' = Filter
               /\ Between(m, k, was, bits', OverIn(D, count))
               /\ sunk \subseteq deep
               /\ ticket < cap => <<cell[i], ticket, i>> \in pos
               /\ ticket >= cap => i \in deep
               /\ \A c \in D : \A a \in 0..(cap - 1) : \A j \in S :
                    <<c, a, j>> \in put /\ ~(c = cell[i] /\ a = ticket) => <<c, a, j>> \in pos
  <1>23. ASSUME ticket < cap PROVE Placed
    <2>1. records' = [records EXCEPT ![k.f] = With(@, place, h)] /\ bits' = bits
      BY ONLY <1>2, <1>23, Zenon
    <2>2. ticket \in 0..(cap - 1) BY ONLY <1>5, <1>11, <1>23
    <2>3. file2 = With(file, place, h) /\ DOMAIN records' = Filter BY <1>1, <1>4, <2>1 DEF Arrays
    <2>4. /\ place \in DOMAIN file2 /\ file2[place] = h
          /\ \A q \in DOMAIN file : q # place => q \in DOMAIN file2 /\ file2[q] = file[q]
      BY ONLY <2>3, Zenon DEF With
    <2>5. deep = sunk BY <2>1
    <2>6. <<cell[i], ticket, i>> \in pos
      <3>1. place \in DOMAIN file2 /\ file2[place] = Hash[k.keys[i]] BY <2>4
      <3> QED BY <1>11, <1>22, <2>2, <3>1, Zenon DEF PrivatePut
    <2>7. \A c \in D : \A a \in 0..(cap - 1) : \A j \in S :
               <<c, a, j>> \in put /\ ~(c = cell[i] /\ a = ticket) => <<c, a, j>> \in pos
      <3> SUFFICES ASSUME NEW c \in D, NEW a \in 0..(cap - 1), NEW j \in S,
                          <<c, a, j>> \in put, ~(c = cell[i] /\ a = ticket)
                   PROVE  <<c, a, j>> \in pos
        OBVIOUS
      <3> DEFINE q == <<c[1], c[2], a>>
      <3>1. q \in DOMAIN file /\ file[q] = Hash[k.keys[j]] BY Zenon DEF PrivatePut
      <3>2. c = <<c[1], c[2]>> /\ cell[i] = <<cell[i][1], cell[i][2]>> BY <1>22 DEF Segments
      <3>3. q # place BY <1>22, <3>2, SMTT(40)
      <3>4. q \in DOMAIN file2 /\ file2[q] = Hash[k.keys[j]] BY <2>4, <3>1, <3>3
      <3> QED BY <3>4, Zenon DEF PrivatePut
    <2>8. Between(m, k, was, bits', OverIn(D, count)) BY ONLY <1>9, <2>1, Zenon
    <2>9. ~(ticket >= cap) BY ONLY <1>5, <1>11, <1>23
    <2>10. DOMAIN records' = Filter BY ONLY <2>3
    <2>11. sunk \subseteq deep BY <2>5
    <2> QED BY ONLY <2>6, <2>7, <2>8, <2>9, <2>10, <2>11, Zenon
  <1>24. ASSUME ticket >= cap PROVE Placed
    <2>1. bits' = Enlarged(bits, k.f, X) /\ records' = records
      <3>1. ~(ticket < cap) BY ONLY <1>5, <1>11, <1>24, SMTT(40)
      <3> QED BY <1>2, <3>1, Zenon DEF Enlarged
    <2>2. count[cell[i]] > cap
      <3>1. \A j \in Held(ts, S, own) :
              IF Tickets(ts, S, own)[j] < cap THEN Tickets(ts, S, own)[j] < count[cell[j]]
              ELSE count[cell[j]] > cap
        BY <1>10, Zenon DEF Books
      <3> QED BY <1>5, <1>11, <1>15, <1>20, <1>24, <3>1
    <2>3. X \subseteq Gain(m, k) /\ m[k.keys[i]] = X
      <3>1. m[k.keys[i]] = X BY <1>1, <1>7, <1>11, Zenon DEF Marks
      <3> QED BY <1>11, <3>1, Zenon DEF Gain
    <2>4. \A p \in X : p[1] \in OverIn(D, count)
      <3> DEFINE g == BlockIndex(UpperHash(k.keys[i]))
                 c == BucketOf(UpperHash(k.keys[i]))
                 l == LocalBlock(UpperHash(k.keys[i]))
      <3>1. HashesOK /\ PolicyOK /\ k.keys[i] \in Key BY <1>7, <1>11, Zenon DEF Sound
      <3>2. \A p \in X : p[1] = g BY <3>1, Marked, Zenon
      <3>3. g \in Block BY <3>1, Marked
      <3>4. GlobalBlock(c, l) = g BY <1>2, <1>3, <1>11, PrivateStands, Zenon
      <3>5. l \in 0..1 BY <1>2, <1>3, <1>11, PrivateStands, Zenon
      <3>6. c \in Nat
        <4>1. 2^BucketBits = 2 BY <3>1, Powers, Zenon
        <4> QED BY ONLY <1>7, <1>11, <4>1 DEF Bucket
      <3> HIDE DEF g, c, l
      <3>7. g \div BlocksPerBucket = c BY <3>4, <3>5, <3>6, BlockOfBucket, Zenon
      <3>8. cell[i][1] = g \div BlocksPerBucket BY <1>22, <3>7, SMTT(40) DEF c
      <3>9. g \in OverIn(D, count) BY <1>22, <2>2, <3>3, <3>8 DEF OverIn
      <3> QED BY ONLY <3>2, <3>9, Zenon
    <2>5. \A p \in bits[k.f] \cup X :
             p[1] \in OverIn(D, count) \/ p \in X => p[1] \in OverIn(D, count)
      BY <2>4
    <2>6. Between(m, k, was, bits', OverIn(D, count))
      BY ONLY <1>4, <1>9, <2>1, <2>3, <2>5, BitsGrow, Zenon
    <2>7. bits'[k.f] = bits[k.f] \cup X
      <3>1. bits \in Content(m) BY <1>9, Zenon DEF Between
      <3> QED BY <1>4, <2>1, <3>1, Zenon DEF Enlarged, Content
    <2>8. Sunk(m, k, bits) \subseteq Sunk(m, k, bits') BY ONLY <2>7 DEF Sunk
    <2>9. i \in deep
      <3>1. m[k.keys[i]] \subseteq bits'[k.f] BY ONLY <2>3, <2>7, Zenon
      <3> QED BY <1>11, <3>1, Zenon DEF Sunk
    <2>10. pos = put BY <2>1, Zenon
    <2>11. ~(ticket < cap) BY ONLY <1>5, <1>11, <1>24
    <2>12. DOMAIN records' = Filter BY ONLY <1>1, <2>1 DEF Arrays
    <2>13. sunk \subseteq deep BY <2>8, Zenon
    <2> QED BY ONLY <2>6, <2>9, <2>10, <2>11, <2>12, <2>13, Zenon
  <1>25. Placed
    <2>1. ticket < cap \/ ticket >= cap BY ONLY <1>5, <1>11
    <2> HIDE DEF Placed
    <2> QED BY ONLY <1>23, <1>24, <2>1
  <1>26. Books(S, D, Todo(us, S, own), Held(us, S, own), Tickets(us, S, own), cell, count, cap,
               pos, deep)
    <2> DEFINE tk == Tickets(ts, S, own)
               tl == Tickets(us, S, own)
               T == Todo(ts, S, own)
               H == Held(ts, S, own)
    <2>1. tk[i] = ticket BY ONLY <1>20
    <2>2. Books(S, D, T, H, tk, cell, count, cap, put, sunk) BY <1>10
    <2>3. H \subseteq S BY ONLY <1>10, Zenon DEF Books
    <2>4. tl \in [S -> Nat] /\ \A j \in H \ {i} : tl[j] = tk[j] BY <1>19, <1>21, <2>3, Zenon
    <2>5. i \in H BY ONLY <1>15, Zenon
    <2> HIDE DEF tk, tl, T, H
    <2>6. /\ sunk \subseteq deep /\ (tk[i] < cap => <<cell[i], tk[i], i>> \in pos)
          /\ (tk[i] >= cap => i \in deep)
          /\ \A c \in D : \A a \in 0..(cap - 1) : \A j \in S :
               <<c, a, j>> \in put /\ ~(c = cell[i] /\ a = tk[i]) => <<c, a, j>> \in pos
      <3>1. sunk \subseteq deep BY ONLY <1>25
      <3>2. tk[i] < cap => <<cell[i], tk[i], i>> \in pos
        <4>1. ticket < cap => <<cell[i], ticket, i>> \in pos BY ONLY <1>25, Zenon
        <4> QED BY <2>1, <4>1
      <3>3. tk[i] >= cap => i \in deep BY <1>25, <2>1
      <3>4. \A c \in D : \A a \in 0..(cap - 1) : \A j \in S :
               <<c, a, j>> \in put /\ ~(c = cell[i] /\ a = tk[i]) => <<c, a, j>> \in pos
        <4>1. \A c \in D : \A a \in 0..(cap - 1) : \A j \in S :
               <<c, a, j>> \in put /\ ~(c = cell[i] /\ a = ticket) => <<c, a, j>> \in pos
          BY <1>25, Zenon
        <4> QED BY ONLY <2>1, <4>1
      <3> QED BY <3>1, <3>2, <3>3, <3>4, Zenon
    <2>7. Books(S, D, T, H \ {i}, tl, cell, count, cap, pos, deep)
      BY ONLY <1>5, <2>2, <2>4, <2>5, <2>6, TicketUsed
    <2> QED BY <1>17, <1>18, <2>7 DEF tl, T, H
  <1> HIDE DEF Placed
  <1>27. us # <<>> BY ONLY <1>12, <1>13, SomeThread, Zenon
  <1>28. PrivateGoing(m, k, was)'
    <2>1. own \in [Chosen(k) -> DOMAIN threads'] /\ Deals(threads', Chosen(k), own)
      BY <1>10, <1>13, <1>14, Zenon
    <2>2. local' = local BY ONLY <1>2
    <2>3. Books(Chosen(k), Segments(n), Todo(threads', Chosen(k), own),
                         Held(threads', Chosen(k), own), Tickets(threads', Chosen(k), own),
                         Segment(k, own), LocalCounts(Segments(n), local'), SegmentRecords,
                         PrivatePut(k, records'[k.f], Segments(n)), Sunk(m, k, bits'))
      BY <1>26, <2>2
    <2>4. \A u \in DOMAIN threads' :
                /\ CoreOf(u) \in 0..(n - 1)
                /\ threads'[u].seen # <<>> =>
                    threads'[u].seen \in [Bucket -> Nat]
                        /\ \A a \in Bucket : threads'[u].seen[a] <= local'[CoreOf(u)][a]
      <3>1. \A u \in DOMAIN ts : us[u].seen = ts[u].seen BY <1>13
      <3> QED BY <1>9, <1>13, <2>2, <3>1, Zenon
    <2>5. Between(m, k, was, bits', OverIn(Segments(n), LocalCounts(Segments(n), local')))
      BY <1>25, <2>2, Zenon DEF Placed
    <2>6. threads' # <<>> /\ layout' = layout /\ host' = host /\ n = host[k.f].producers
      BY <1>2, <1>27
    <2>7. local' \in [0..(n - 1) -> [Bucket -> Nat]] BY <1>9, <2>2, Zenon
    <2> QED BY ONLY <2>1, <2>3, <2>4, <2>5, <2>6, <2>7, PrivateGoingNext
  <1>29. Progress(m, was)' BY <1>2, <1>28, StillGoing, Zenon
  <1>30. ZerosAreTrue(s)' BY <1>1, <1>2, <1>27, ZerosRemain DEF Course
  <1>31. Course(m, s, e)' BY <1>1, <1>2, <1>29, <1>30, GoesOn
  <1>32. Arrays' BY <1>1, <1>2, <1>25, ArraysStay, Zenon DEF Arrays, Placed
  <1> QED BY <1>31, <1>32

\* A private route that is done, after a step.
LEMMA PrivateDoneNext ==
    ASSUME layout' = layout, host' = host, NEW m, NEW j, NEW was, NEW n, n = host[j.f].producers,
           threads' = <<>>, local' = <<>>,
           Between(m, j, was, bits', OverIn(Segments(n), Published(Segments(n), counts'[j.f]))),
           j.op \in {"private apply if", "compact apply if"} => selected'[j.f] \/ Chosen(j) = {},
           NEW cell, PrivateKept(m, j, cell, n, counts'[j.f], records'[j.f], bits')
    PROVE  PrivateDone(m, j, was)'
  <1>1. Block' = Block BY Rigid
  <1>2. OverIn(Segments(n), Published(Segments(n), counts[j.f]))' =
        OverIn(Segments(n), Published(Segments(n), counts'[j.f]))
    BY <1>1 DEF OverIn, Published
  <1>3. Between(m, j, was, bits, OverIn(Segments(n), Published(Segments(n), counts[j.f])))' =
        Between(m, j, was, bits', OverIn(Segments(n), Published(Segments(n), counts'[j.f])))
    BY <1>2 DEF Between
  <1>4. PrivateKept(m, j, cell, n, counts[j.f], records[j.f], bits)' =
        PrivateKept(m, j, cell, n, counts'[j.f], records'[j.f], bits')
    BY Zenon DEF PrivateKept, Kept, Published, PrivatePut, Sunk
  <1> QED BY <1>3, <1>4 DEF PrivateDone

\* EndPrivateRoute: the counters are published, and the flag raised for a batch in
\* which anything was selected.
LEMMA PrivateIsDone ==
    ASSUME Sound, NEW m, NEW s, NEW e, Here(m, s, e), EndPrivateRoute
    PROVE  Arrays' /\ \E d : Course(m, d, e)'
  <1> SUFFICES ASSUME NEW k, k = Head(queue), NEW S, S = Chosen(k), NEW d, d = Executed(m, k, s),
                      NEW was, was = s.content, NEW n, n = host[k.f].producers,
                      NEW D, D = Segments(n), NEW count, count = LocalCounts(D, local),
                      NEW file, file = records[k.f], NEW known, known = counts'[k.f]
               PROVE  Arrays' /\ Course(m, d, e)'
    OBVIOUS
  <1>1. Arrays /\ StreamInv /\ Course(m, s, e) BY DEF Here
  <1>2. /\ queue # <<>> /\ Finish /\ k.op \in Routes /\ AllIdle /\ threads' = <<>> /\ local' = <<>>
        /\ UNCHANGED <<layout, host, bits, counters, slots, records>>
        /\ counts' = [counts EXCEPT ![k.f] = [b \in Bucket |->
              [p \in DOMAIN counts[k.f][b] |->
                  IF p \in DOMAIN local THEN local[p][b] ELSE counts[k.f][b][p]]]]
        /\ selected' = [selected EXCEPT ![k.f] =
              selected[k.f] \/ (k.op = "private route if" /\ TRUE \in Range(k.sel))]
    BY Zenon DEF EndPrivateRoute, Running, This, Finish, KeepHost
  <1>3. k.op \in PrivateKernels /\ k.op \in RouteKinds
    BY <1>2, Zenon DEF Routes, PrivateKernels, RouteKinds
  <1>4. k \in Launched /\ k.f \in Filter BY <1>2, <1>3, PrivateStands, Zenon
  <1>5. n \in 1..Cores /\ Cores \in Nat BY <1>2, <1>3, PrivateStands, Zenon DEF Sound, WorkersOK
  <1>6. Len(k.sel) = Len(k.keys) BY <1>2, <1>3, PrivateStands, Zenon
  <1>7. PrivateGoing(m, k, was) BY <1>1, <1>2, Zenon DEF Course, Progress, Fresh, AllIdle
  <1>8. local \in [0..(n - 1) -> [Bucket -> Nat]] /\ Between(m, k, was, bits, OverIn(D, count))
    BY <1>7, ZenonT(60) DEF PrivateGoing
  <1>9. PICK own \in [S -> DOMAIN threads] :
            /\ Deals(threads, S, own)
            /\ Books(S, D, Todo(threads, S, own), Held(threads, S, own),
                     Tickets(threads, S, own), Segment(k, own), count, SegmentRecords,
                     PrivatePut(k, file, D), Sunk(m, k, bits))
    BY <1>7 DEF PrivateGoing
  <1>10. Todo(threads, S, own) = {} /\ Held(threads, S, own) = {}
    <2>1. \A t \in DOMAIN threads : threads[t].todo = {} /\ DOMAIN threads[t].held = {}
      BY ONLY <1>2, Zenon DEF AllIdle, Idle
    <2> QED BY <1>9, <2>1, AllDone
  <1> SUFFICES ASSUME NEW cell, cell = Segment(k, own) PROVE Arrays' /\ Course(m, d, e)' OBVIOUS
  <1>11. Kept(S, D, cell, count, SegmentRecords, PrivatePut(k, file, D), Sunk(m, k, bits))
    BY <1>9, <1>10, BooksClosed
  <1>12. \A i \in S : cell[i][1] = BucketOf(UpperHash(k.keys[i])) BY Zenon DEF Segment
  <1>13. /\ counts' \in [Filter -> [Bucket -> [0..(Cores - 1) -> Nat]]]
         /\ \A b \in Bucket : \A p \in 0..(n - 1) : known[b][p] = local[p][b]
    <2>1. counts \in [Filter -> [Bucket -> [0..(Cores - 1) -> Nat]]] BY <1>1 DEF Arrays
    <2>2. counts[k.f] \in [Bucket -> [0..(Cores - 1) -> Nat]] BY <1>4, <2>1
    <2>3. known = [b \in Bucket |-> [p \in 0..(Cores - 1) |->
                      IF p \in 0..(n - 1) THEN local[p][b] ELSE counts[k.f][b][p]]]
      <3>1. known = [b \in Bucket |-> [p \in DOMAIN counts[k.f][b] |->
                  IF p \in DOMAIN local THEN local[p][b] ELSE counts[k.f][b][p]]]
        BY <1>2, <1>4, <2>1, Zenon
      <3>2. \A b \in Bucket : DOMAIN counts[k.f][b] = 0..(Cores - 1) BY <2>2
      <3>3. DOMAIN local = 0..(n - 1) BY ONLY <1>8
      <3> QED BY ONLY <3>1, <3>2, <3>3, Zenon
    <2>4. ASSUME NEW b \in Bucket, NEW p \in 0..(Cores - 1)
          PROVE  (IF p \in 0..(n - 1) THEN local[p][b] ELSE counts[k.f][b][p]) \in Nat
      <3>1. counts[k.f][b][p] \in Nat BY ONLY <2>2, Zenon
      <3>2. p \in 0..(n - 1) => local[p][b] \in Nat BY ONLY <1>8
      <3> QED BY <3>1, <3>2
    <2>5. known \in [Bucket -> [0..(Cores - 1) -> Nat]] BY <2>3, <2>4
    <2>6. counts' = [counts EXCEPT ![k.f] = known] BY <1>2, <1>4, <2>1, Zenon
    <2>7. counts' \in [Filter -> [Bucket -> [0..(Cores - 1) -> Nat]]] BY <1>4, <2>1, <2>5, <2>6
    <2>8. 0..(n - 1) \subseteq 0..(Cores - 1) BY ONLY <1>5
    <2>9. \A b \in Bucket : \A p \in 0..(n - 1) : known[b][p] = local[p][b]
      BY ONLY <2>3, <2>8, Zenon
    <2> QED BY <2>7, <2>9
  <1>14. Published(D, known) = count
    <2>1. \A c \in D : known[c[1]][c[2]] = local[c[2]][c[1]] BY <1>13 DEF Segments
    <2> QED BY <2>1 DEF Published, LocalCounts
  <1>15. /\ selected' \in [Filter -> BOOLEAN]
         /\ k.op = "private route if" => selected'[k.f] \/ S = {}
    <2>1. selected \in [Filter -> BOOLEAN] BY <1>1 DEF Arrays
    <2>2. selected[k.f] \in BOOLEAN BY <1>4, <2>1
    <2> DEFINE v == selected[k.f] \/ (k.op = "private route if" /\ TRUE \in Range(k.sel))
    <2>3. v \in BOOLEAN OBVIOUS
    <2>4. selected' = [selected EXCEPT ![k.f] = v] BY ONLY <1>2, Zenon
    <2>5. selected' \in [Filter -> BOOLEAN] /\ selected'[k.f] = v
      <3> HIDE DEF v
      <3> QED BY <1>4, <2>1, <2>3, <2>4
    <2>6. ASSUME NEW i \in S PROVE TRUE \in Range(k.sel)
      <3>1. i \in 1..Len(k.keys) /\ k.sel[i] BY DEF Chosen
      <3>2. k.sel \in Seq(BOOLEAN) BY <1>4 DEF Launched
      <3>3. i \in DOMAIN k.sel /\ k.sel[i] \in BOOLEAN BY <1>6, <3>1, <3>2
      <3>4. k.sel[i] = TRUE BY <3>1, <3>3
      <3> QED BY <3>3, <3>4 DEF Range
    <2>7. k.op = "private route if" => v \/ S = {} BY <2>6
    <2> QED BY ONLY <2>5, <2>7, Zenon
  <1>16. ASSUME NEW j \in Launched, Mates(k, j) PROVE PrivateDone(m, j, was)'
    <2>1. j.f = k.f BY <1>4, <1>16, SameOperands
    <2>2. j.keys = k.keys BY <1>4, <1>16, SameOperands
    <2>3. Chosen(j) = S BY <1>4, <1>16, SameOperands
    <2>4. Gain(m, j) = Gain(m, k) BY <2>2, <2>3 DEF Gain
    <2>5. j.op \in {"private apply if", "compact apply if"} => k.op = "private route if"
      BY <1>4, <1>16, SameOperands
    <2>6. Sunk(m, j, bits) = Sunk(m, k, bits) BY <2>1, <2>2, <2>3 DEF Sunk
    <2>7. PrivatePut(j, file, D) = PrivatePut(k, file, D) BY <2>2, <2>3, Zenon DEF PrivatePut
    <2>8. Between(m, j, was, bits, OverIn(D, count)) BY ONLY <1>8, <2>1, <2>4, Zenon DEF Between
    <2>9. PrivateKept(m, j, cell, n, known, file, bits)
      BY <1>11, <1>12, <1>14, <2>2, <2>3, <2>6, <2>7 DEF PrivateKept
    <2>10. n = host[j.f].producers /\ counts'[j.f] = known /\ records'[j.f] = file /\ bits' = bits
      BY <1>2, <2>1, Zenon
    <2>11. Between(m, j, was, bits', OverIn(Segments(n), Published(Segments(n), counts'[j.f])))
      BY <1>14, <2>8, <2>10
    <2>12. PrivateKept(m, j, cell, n, counts'[j.f], records'[j.f], bits') BY <2>9, <2>10
    <2>13. j.op \in {"private apply if", "compact apply if"} => selected'[j.f] \/ Chosen(j) = {}
      BY <1>15, <2>1, <2>3, <2>5
    <2>14. layout' = layout /\ host' = host /\ threads' = <<>> /\ local' = <<>> BY <1>2, Zenon
    <2> QED BY ONLY <2>10, <2>11, <2>12, <2>13, <2>14, PrivateDoneNext
  <1>17. k.op # "route" BY <1>2, Zenon DEF Routes
  <1>18. ZerosAreTrue(d)'
    <2> SUFFICES ASSUME NEW f \in Filter, d.zero[f] PROVE Zero(f)' BY DEF ZerosAreTrue
    <2>1. s.zero[f]
      <3>1. Zeroed(k, s.zero) = s.zero[k.f] BY ONLY <1>2, Zenon DEF Zeroed, Routes
      <3>2. s \in State(m) BY <1>1 DEF Course
      <3>3. Executed(m, k, s).zero[k.f] = Zeroed(k, s.zero) BY ONLY <1>4, <3>2, ExecutedIsState
      <3>4. f # k.f => Executed(m, k, s).zero[f] = s.zero[f]
        BY ONLY <1>4, <3>2, f \in Filter, ExecutedIsState
      <3> QED BY <3>1, <3>3, <3>4
    <2>2. Zero(f) BY <1>1, <1>17, <2>1 DEF Course, ZerosAreTrue
    <2> QED BY ONLY <1>2, <2>2, ZerosStay, Zenon
  <1>19. \A j \in Launched : Mates(k, j) =>
             IF k.op = "route" THEN RouteDone(m, j, s.content)' ELSE PrivateDone(m, j, s.content)'
    BY <1>16, <1>17
  <1>20. Course(m, d, e)' BY <1>1, <1>2, <1>3, <1>18, <1>19, RouteEnds, Zenon
  <1>21. Arrays' BY <1>1, <1>2, <1>13, <1>15, ArraysStay, Zenon DEF Arrays
  <1> QED BY <1>20, <1>21
================================================================================
