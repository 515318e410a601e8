---------------------------- MODULE MultimapKernels ----------------------------
(***************************************************************************)
(* The arithmetic of StaticMultimap's kernels: where a key is looked for   *)
(* (static_multimap_ref.h), prefix sums by chunks of chunks, the two sorts,*)
(* and the ranks of a conditional insertion (detail/static_multimap).      *)
(*                                                                         *)
(* Arrays and lanes count from 0, as in the code.                          *)
(***************************************************************************)
EXTENDS Integers, Sequences, FiniteSets, Functions

CONSTANTS
    LogLanes,           \* a warp has 2^LogLanes lanes (32)
    CHUNK,              \* elements that one warp or thread takes (256)
    HashBits            \* width of a hash value (32)

KernelShape ==
    /\ LogLanes \in Nat /\ HashBits \in Nat
    /\ CHUNK \in Nat \ {0, 1} /\ CHUNK % 2^LogLanes = 0

WARP == 2^LogLanes
Least(x, y) == IF x < y THEN x ELSE y

--------------------------------------------------------------------------------
(* Where a key goes. *)

\* The smallest 2^d that covers the capacity; rangeMask is one less.
Domain(capacity) ==
    2^(CHOOSE e \in 0..capacity : 2^e >= capacity /\ (e = 0 \/ 2^(e - 1) < capacity))

\* PermuteInCapacity: steps of a permutation of the domain until one is below
\* the capacity.  0x85ebca6b % 2^16 = 51819 stands for the addend: the domains
\* checked are no larger.
PermuteInCapacity(capacity, key) ==
    LET walk[n \in 0..Domain(capacity)] ==
            IF n = 0 THEN key ELSE (walk[n - 1] * 33 + 51819) % Domain(capacity)
        first == CHOOSE n \in 1..Domain(capacity) :
                     walk[n] < capacity /\ \A m \in 1..(n - 1) : walk[m] >= capacity
    IN  walk[first]

InCapacityRange(capacity, key) == key >= 0 /\ key < capacity

\* Start in dense storage: small keys are permuted, other keys' hashes scaled.
DenseStart(capacity, key, hash) ==
    IF InCapacityRange(capacity, key) THEN PermuteInCapacity(capacity, key)
    ELSE (hash * capacity) \div 2^HashBits
DirectStart(capacity, hash) == hash % capacity

--------------------------------------------------------------------------------
(* Prefix sums. *)

Chunks(n) == (n - 1) \div CHUNK + 1
Chunk(n, c) == (c * CHUNK)..(Least((c + 1) * CHUNK, n) - 1)

\* InclusiveWarpSum: shuffles up over distances 1, 2, 4, ...
InclusiveWarpSum(v) ==
    LET sum[k \in 0..LogLanes] ==
            IF k = 0 THEN v
            ELSE [l \in DOMAIN v |->
                     sum[k - 1][l] + (IF l >= 2^(k - 1) THEN sum[k - 1][l - 2^(k - 1)] ELSE 0)]
    IN  sum[LogLanes]

\* The lanes' values of one part of a chunk; lanes beyond the end bring nothing.
Part(values, n, start) ==
    [l \in 0..(WARP - 1) |-> IF start + l < n THEN values[start + l] ELSE 0]

\* What a warp carries into each of its parts, and at CHUNK \div WARP the sum.
Carry(values, n, c) ==
    LET carry[p \in 0..(CHUNK \div WARP)] ==
            IF p = 0 THEN 0
            ELSE carry[p - 1]
                 + InclusiveWarpSum(Part(values, n, c * CHUNK + (p - 1) * WARP))[WARP - 1]
    IN  carry

\* ScanSimt: each element becomes the sum of those before it in its chunk.
ScanSums(values, n) ==
    [c \in 0..(Chunks(n) - 1) |-> Carry(values, n, c)[CHUNK \div WARP]]
Scan(values, n) ==
    LET carry == [c \in 0..(Chunks(n) - 1) |-> Carry(values, n, c)]
        sums == [p \in 0..((n - 1) \div WARP) |-> InclusiveWarpSum(Part(values, n, p * WARP))]
    IN  [i \in 0..(n - 1) |->
            carry[i \div CHUNK][(i % CHUNK) \div WARP] + sums[i \div WARP][i % WARP] - values[i]]

\* PrefixPrepared: scan, the same for the sums of the chunks, and OffsetSimt,
\* which adds them and leaves the total behind the last element.
Whole(sums, chunks) == IF chunks = 1 THEN sums[0] ELSE sums[chunks]
Offset(values, sums, n, chunks) ==
    [i \in 0..n |->
        IF i = n THEN Whole(sums, chunks)
        ELSE values[i] + (IF chunks > 1 THEN sums[i \div CHUNK] ELSE 0)]
Prefix(values, n) ==
    LET level[k \in 0..(n + 1)] ==
            IF k = 0 THEN values ELSE ScanSums(level[k - 1], Cardinality(DOMAIN level[k - 1]))
        scanned[k \in 0..n] ==
            LET m == Cardinality(DOMAIN level[k])
                sums == IF Chunks(m) > 1 THEN scanned[k + 1] ELSE level[k + 1]
            IN  Offset(Scan(level[k], m), sums, m, Chunks(m))
    IN  scanned[0]

--------------------------------------------------------------------------------
(* Ranks of the selected elements; sel is a function from 0..n-1. *)

\* What ValidateSimt counts in each chunk.
ChunkCounts(sel, n) ==
    [c \in 0..(Chunks(n) - 1) |-> Cardinality({i \in Chunk(n, c) : sel[i]})]

\* RankSimt: one thread goes through a chunk.
SerialRank(sel, n, offsets, i) ==
    LET c == i \div CHUNK IN offsets[c] + Cardinality({j \in Chunk(n, c) : j < i /\ sel[j]})

\* InsertWarpSimt: a warp goes through it by parts, with ballots.
Ballot(sel, n, c, p) ==
    {l \in 0..(WARP - 1) :
        LET i == c * CHUNK + p * WARP + l IN i \in Chunk(n, c) /\ sel[i]}
WarpRank(sel, n, offsets, i) ==
    LET c == i \div CHUNK
        p == (i % CHUNK) \div WARP
        carry[q \in 0..p] == IF q = 0 THEN 0 ELSE carry[q - 1] + Cardinality(Ballot(sel, n, c, q - 1))
    IN  offsets[c] + carry[p] + Cardinality({l \in Ballot(sel, n, c, p) : l < i % WARP})

--------------------------------------------------------------------------------
(* Sorting. *)

Exchange(v, i, j) == [v EXCEPT ![i] = v[j], ![j] = v[i]]

\* SiftDown among the first n values.
\* (Variant with a bug: the left child is taken without a look at the right.)
LeftChild(v, root, n) == root * 2 + 1
GreaterChild(v, root, n) ==
    LET child == root * 2 + 1 IN
    IF child + 1 < n /\ v[child] < v[child + 1] THEN child + 1 ELSE child
SiftDown(values, start, n) ==
    LET sift[root \in 0..n, v \in [DOMAIN values -> Int]] ==
            IF root >= n \div 2 THEN v
            ELSE LET child == GreaterChild(v, root, n) IN
                 IF v[root] < v[child] THEN sift[child, Exchange(v, root, child)] ELSE v
    IN  sift[start, values]

\* HeapSort: make a heap from the last parent down, then take off maxima.
HeapSort(values, count) ==
    LET heap[k \in 0..(count \div 2)] ==
            IF k = 0 THEN values
            ELSE SiftDown(heap[k - 1], count \div 2 - k, count)
        drain[k \in 0..count] ==
            IF k = 0 THEN heap[count \div 2]
            ELSE IF count - k + 1 <= 1 THEN drain[k - 1]
            ELSE SiftDown(Exchange(drain[k - 1], 0, count - k), 0, count - k)
    IN  drain[count]

\* SortWarpValues: a bitonic network over length = columns * WARP values, value
\* j * WARP + lane in column j of its lane.  Partners differ in one bit.
Bit(i, weight) == (i \div weight) % 2
Partner(i, weight) == IF Bit(i, weight) = 1 THEN i - weight ELSE i + weight
TakesMinimum(i, span, distance) == (Bit(i, span) = 0) = (Bit(i, distance) = 0)
CompareExchange(v, span, distance) ==
    [i \in DOMAIN v |->
        LET other == v[Partner(i, distance)] IN
        IF TakesMinimum(i, span, distance)
        THEN (IF v[i] < other THEN v[i] ELSE other)
        ELSE (IF v[i] > other THEN v[i] ELSE other)]
SortWarpValues(values, logLength) ==
    LET round[s \in 0..logLength] ==
            IF s = 0 THEN values
            ELSE LET step[d \in 0..s] ==
                         IF d = 0 THEN round[s - 1]
                         ELSE CompareExchange(step[d - 1], 2^s, 2^(s - d))
                 IN  step[s]
    IN  round[logLength]

\* RetrieveSingleKeySimt: pads with the greatest value to a power of two.
SortedDense(values, total, greatest) ==
    LET log == CHOOSE k \in LogLanes..(LogLanes + total) :
                   2^k >= total /\ (k = LogLanes \/ 2^(k - 1) < total)
        padded == [i \in 0..(2^log - 1) |-> IF i < total THEN values[i] ELSE greatest]
        sorted == SortWarpValues(padded, log)
    IN  [i \in 0..(total - 1) |-> sorted[i]]
================================================================================
