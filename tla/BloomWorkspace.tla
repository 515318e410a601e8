---------------------------- MODULE BloomWorkspace ----------------------------
(***************************************************************************)
(* How the kernels of a large BloomFilter addition share their work and    *)
(* their memory (detail/bloom_filter/kernels.h).  Route and Apply are      *)
(* written apart, one for many layouts, and must agree on the place of     *)
(* every word; BloomFilter models what they put there.                     *)
(*                                                                         *)
(* A behaviour follows one division of something into shares (`plan`): the *)
(* workers come one after the other and claim what is theirs.              *)
(***************************************************************************)
EXTENDS Integers, FiniteSets, FiniteSetsExt

CONSTANTS
    HashBits,           \* the width of half a hash and of a loop index: 32
    RouteThreads, ApplyThreads,     \* threads per core: 512 and 1024
    Lanes,              \* words of a block: 8
    CountersPerWord,    \* of packed counters: 4
    PackedCounterWords, CountMask,  \* 8192 and 127
    MaxLocalWords,      \* 14336
    StencilKeys,        \* neighbouring keys that one thread takes: 4
    Cores,              \* how many cores a kernel may get
    MaxKeys,            \* the largest batch explored
    Shapes, Blocks, Slots   \* the layouts and routed workspaces explored

VARIABLES plan, worker, index, claimed, claims
vars == <<plan, worker, index, claimed, claims>>

GroupWidth(l) == IF l.packed THEN 2 * Lanes ELSE 4 * Lanes

--------------------------------------------------------------------------------
(* Sizes that are fixed when the code is compiled. *)

Buckets(l) == 2^l.bucketBits
BlocksPerBucket(l) == l.tile * l.tiles
Records(l) == (0..(Buckets(l) - 1)) \X (0..(l.records - 1))

\* The counters of Route and the records of Apply, in local memory.
CounterWords(l) == IF l.packed THEN Buckets(l) \div CountersPerWord ELSE Buckets(l)
TiledRecordWords(l) == l.slots + 1 + Lanes
CompactRecordWords(l) == l.slots + 1
RecordWords(l) == IF l.compact THEN CompactRecordWords(l) ELSE TiledRecordWords(l)

\* The two kernels that apply: their threads, and the local memory they reserve.
BloomFilterAddPrivateApply(l) ==
    [threads |-> ApplyThreads, words |-> l.tile * TiledRecordWords(l)]
BloomFilterAddPrivateCompactSparseApply(l) ==
    [threads |-> ApplyThreads, words |-> l.tile * CompactRecordWords(l)]
PrivateApply(l) ==
    IF l.compact THEN BloomFilterAddPrivateCompactSparseApply(l)
    ELSE BloomFilterAddPrivateApply(l)
LocalWords(l) == PrivateApply(l).words
AlignPrivateDynamicUbBytes(bytes) == 32 * ((bytes + 31) \div 32)
LaunchBytes(words) == AlignPrivateDynamicUbBytes(4 * words)

\* What the compiler insists on: of a template for any layout, and of those two.
RouteCompiles(l) ==
    /\ l.bucketBits \in 1..(HashBits - 1)
    /\ CounterWords(l) % 2 = 0 /\ CounterWords(l) <= PackedCounterWords
    /\ l.packed => Buckets(l) % CountersPerWord = 0 /\ l.records <= CountMask
ApplyCompiles(l) ==
    /\ l.shift \in 1..(HashBits - 1) /\ l.slots # 0
    /\ \E h \in 0..HashBits : l.tile = 2^h
    /\ Buckets(l) * BlocksPerBucket(l) = 2^(HashBits - l.shift)
    /\ LocalWords(l) <= MaxLocalWords
    /\ ApplyThreads % GroupWidth(l) = 0
TiledCompiles(l) == ApplyCompiles(l) /\ CounterWords(l) = PackedCounterWords
CompactCompiles(l) == ApplyCompiles(l) /\ l.packed /\ l.tiles = 1 /\ l.bucketBits >= 3
\* (The two shipped route layouts have counters of one size.)
Compiles(l) ==
    /\ RouteCompiles(l) /\ CounterWords(l) = PackedCounterWords
    /\ IF l.compact THEN CompactCompiles(l) ELSE TiledCompiles(l)

--------------------------------------------------------------------------------
(* Places in the workspaces, in words. *)

Every(start, stride, n) == {i \in 0..(n - 1) : i >= start /\ (i - start) % stride = 0}

CountOffset(p, word, producers) == word * producers + p
RecordOffset(l, p, bucket, ticket, producers) ==
    CounterWords(l) * producers
        + 2 * ((bucket * producers + p) * l.records + ticket)
RoutedSlotOffset(b, ticket, blocks, slots) == blocks + b * slots + ticket

\* What one core writes of the private workspace: each thread some of the counts,
\* and records of two words each.
CountsWritten(l, p, thread, producers) ==
    {CountOffset(p, word, producers) : word \in Every(thread, RouteThreads, CounterWords(l))}
RecordsWritten(l, p, producers) ==
    UNION {{RecordOffset(l, p, r[1], r[2], producers) + half : half \in {0, 1}} :
           r \in Records(l)}
\* What EnsureAddWorkspace asks for.
PrivateWorkspaceWords(l, producers) ==
    PackedCounterWords * producers + Buckets(l) * producers * l.records * 2

\* The words of one block in the workspace of the routed addition.
RoutedWords(b, blocks, slots) ==
    {b} \cup {RoutedSlotOffset(b, ticket, blocks, slots) : ticket \in 0..(slots - 1)}
RoutedWorkspaceWords(blocks, slots) == blocks * (slots + 1)

\* The words of one block in the local memory of Apply: a count, the hashes,
\* and the patterns of those for which there was no slot.
LocalBlockWords(l, b) ==
    LET offset == b * RecordWords(l)
    IN  {offset} \cup {offset + 1 + slot : slot \in 0..(l.slots - 1)}
          \cup IF l.compact THEN {}
               ELSE {offset + 1 + l.slots + lane : lane \in 0..(Lanes - 1)}

--------------------------------------------------------------------------------
(* Apply: what the threads of the cores read and store. *)

Core(w) == w \div ApplyThreads
ThreadOf(w) == w % ApplyThreads

\* The records that a thread reads, of a segment that is full.
RecordsRead(l, w, cores, producers) ==
    LET width == GroupWidth(l)
    IN  Every(Core(w), cores, Buckets(l))
          \X Every(ThreadOf(w) \div width, ApplyThreads \div width, producers)
          \X Every(ThreadOf(w) % width, width, l.records)

\* The words of the filter that a thread stores, or sends to the lane that does;
\* in the compact layout a thread has all the words of its blocks.
TiledStores(l, w, cores) ==
    {<<bucket * BlocksPerBucket(l) + tile * l.tile + b, ThreadOf(w) % Lanes>> :
        bucket \in Every(Core(w), cores, Buckets(l)), tile \in 0..(l.tiles - 1),
        b \in Every(ThreadOf(w) \div Lanes, ApplyThreads \div Lanes, l.tile)}
CompactStores(l, w, cores) ==
    {bucket * BlocksPerBucket(l) + b :
        bucket \in Every(Core(w), cores, Buckets(l)),
        b \in Every(ThreadOf(w), ApplyThreads, BlocksPerBucket(l))}
        \X (0..(Lanes - 1))
WordsStored(l, w, cores) ==
    IF l.compact THEN CompactStores(l, w, cores) ELSE TiledStores(l, w, cores)
FilterWords(l) == (0..(2^(HashBits - l.shift) - 1)) \X (0..(Lanes - 1))

--------------------------------------------------------------------------------
(* The keys of a batch: each thread steps over them, index by index. *)

GlobalThreadIndex(core, threads, thread) == core * threads + thread
TotalThreadCount(cores, threads) == cores * threads

\* The kernels: how a thread walks, and the threads of a core.
BloomFilterAdd == [walk |-> "one", threads |-> ApplyThreads]
BloomFilterAddIf == [walk |-> "one", threads |-> ApplyThreads]
BloomFilterContainsIf == [walk |-> "one", threads |-> ApplyThreads]
BloomFilterAddDenseI32Route == [walk |-> "one", threads |-> ApplyThreads]
BloomFilterAddPrivateRoute == [walk |-> "one", threads |-> RouteThreads]
BloomFilterAddRoute == [walk |-> "two", threads |-> RouteThreads]
BloomFilterAddPrivateRouteIf == [walk |-> "stencil", threads |-> RouteThreads]
BloomFilterAddApply == [walk |-> "one", threads |-> ApplyThreads]   \* over blocks
Kernels ==
    {BloomFilterAdd, BloomFilterAddIf, BloomFilterContainsIf, BloomFilterAddDenseI32Route,
     BloomFilterAddPrivateRoute, BloomFilterAddRoute, BloomFilterAddPrivateRouteIf,
     BloomFilterAddApply}

Wrapped(i) == i % 2^HashBits
Stride == TotalThreadCount(plan.cores, plan.threads)
Start(w) ==
    LET start == GlobalThreadIndex(w \div plan.threads, plan.threads, w % plan.threads)
    IN  Wrapped(IF plan.walk = "stencil" THEN start * StencilKeys ELSE start)

\* With walk "two", a thread takes two keys at once while that overflows nothing.
TakesTwo(i) ==
    /\ plan.walk = "two" /\ Stride <= (2^HashBits - 1) \div 2
    /\ plan.size - i > Stride
KeysAt(i) ==
    CASE plan.walk = "stencil" -> i .. (Min({i + StencilKeys, plan.size}) - 1)
      [] TakesTwo(i) -> {i, Wrapped(i + Stride)}
      [] OTHER -> {i}
Pace(i) ==
    CASE plan.walk = "stencil" -> Stride * StencilKeys
      [] TakesTwo(i) -> 2 * Stride
      [] OTHER -> Stride

\* The index after i, or none: the code compares before it adds.
\* (Variant with a bug: it adds first, and stops at the end of the batch.)
AddsFirst(i) == IF Wrapped(i + Pace(i)) < plan.size THEN {Wrapped(i + Pace(i))} ELSE {}
After(i) == IF plan.size - i <= Pace(i) THEN {} ELSE {Wrapped(i + Pace(i))}

--------------------------------------------------------------------------------
(* The divisions explored. *)

\* No device has so many threads that a stride does not fit an index.
ThreadsFit(cores, kernel) ==
    TotalThreadCount(cores, kernel.threads)
        * (IF kernel.walk = "stencil" THEN StencilKeys ELSE 1) < 2^HashBits
CompiledShapes == {l \in Shapes : Compiles(l)}

Init ==
    /\ \/ \E kernel \in Kernels, cores \in Cores, size \in 1..MaxKeys :
            /\ ThreadsFit(cores, kernel)
            /\ plan = [of |-> "keys", walk |-> kernel.walk, threads |-> kernel.threads,
                       cores |-> cores, size |-> size]
       \/ \E blocks \in Blocks, slots \in Slots :
            plan = [of |-> "routed", blocks |-> blocks, slots |-> slots]
       \/ \E l \in CompiledShapes :
            \/ plan = [of |-> "local", shape |-> l]
            \/ \E cores \in Cores :
                 \/ plan = [of |-> "counts", shape |-> l, producers |-> cores]
                 \/ plan = [of |-> "records", shape |-> l, producers |-> cores]
                 \/ plan = [of |-> "stored", shape |-> l, cores |-> cores]
                 \/ \E producers \in Cores :
                      plan = [of |-> "read", shape |-> l, producers |-> producers,
                              cores |-> cores]
    /\ worker = 0 /\ index = (IF plan.of = "keys" THEN Start(0) ELSE 0)
    /\ claimed = {} /\ claims = 0

Workers ==
    CASE plan.of = "keys" -> Stride
      [] plan.of = "routed" -> plan.blocks
      [] plan.of = "local" -> plan.shape.tile
      [] plan.of = "counts" -> plan.producers * RouteThreads
      [] plan.of = "records" -> plan.producers
      [] OTHER -> plan.cores * PrivateApply(plan.shape).threads
Share(w) ==
    CASE plan.of = "routed" -> RoutedWords(w, plan.blocks, plan.slots)
      [] plan.of = "local" -> LocalBlockWords(plan.shape, w)
      [] plan.of = "counts" ->
           CountsWritten(plan.shape, w \div RouteThreads, w % RouteThreads, plan.producers)
      [] plan.of = "records" -> RecordsWritten(plan.shape, w, plan.producers)
      [] plan.of = "stored" -> WordsStored(plan.shape, w, plan.cores)
      [] plan.of = "read" -> RecordsRead(plan.shape, w, plan.cores, plan.producers)
All ==
    CASE plan.of = "keys" -> 0..(plan.size - 1)
      [] plan.of = "routed" -> 0..(RoutedWorkspaceWords(plan.blocks, plan.slots) - 1)
      [] plan.of = "local" -> 0..(LocalWords(plan.shape) - 1)
      [] plan.of = "counts" -> 0..(PackedCounterWords * plan.producers - 1)
      [] plan.of = "records" ->
           (PackedCounterWords * plan.producers)
               ..(PrivateWorkspaceWords(plan.shape, plan.producers) - 1)
      [] plan.of = "stored" -> FilterWords(plan.shape)
      [] plan.of = "read" -> {<<r[1], p, r[2]>> : r \in Records(plan.shape),
                                                  p \in 0..(plan.producers - 1)}

Claim(things) ==
    /\ claimed' = claimed \cup things
    /\ claims' = claims + Cardinality(things)
    /\ UNCHANGED plan
NextWorker ==
    /\ worker' = worker + 1
    /\ index' = IF plan.of = "keys" THEN Start(worker + 1) ELSE 0

TakeKeys ==
    /\ plan.of = "keys" /\ worker < Workers
    /\ IF index >= plan.size THEN Claim({}) /\ NextWorker
       ELSE /\ Claim(KeysAt(index))
            /\ IF After(index) = {} THEN NextWorker
               ELSE index' \in After(index) /\ UNCHANGED worker
TakeShare ==
    /\ plan.of # "keys" /\ worker < Workers
    /\ Claim(Share(worker)) /\ NextWorker

\* The next addition.
LaunchAgain ==
    /\ worker = Workers
    /\ worker' = 0 /\ index' = IF plan.of = "keys" THEN Start(0) ELSE 0
    /\ claimed' = {} /\ claims' = 0 /\ UNCHANGED plan

Next == TakeKeys \/ TakeShare \/ LaunchAgain

Spec == Init /\ [][Next]_vars

--------------------------------------------------------------------------------
TypeOK ==
    /\ worker \in 0..Workers /\ index \in Nat /\ claims \in Nat
    /\ IsFiniteSet(claimed)

\* Every key is added by one thread, also where an index plus a stride does not
\* fit its type; no two words of a workspace share a place, and they fill what
\* the host allocated or the launch reserved; every record that Route wrote is
\* read by one thread of Apply, and every word of the filter stored by one,
\* whatever the numbers of cores and in every layout that compiles.
EachOnce ==
    /\ claims = Cardinality(claimed)
    /\ claimed \subseteq All
    /\ worker = Workers => claimed = All

\* The record of a hash lies in the bucket whose Apply stores the hash's block,
\* and it is the block that a query looks at: no bit of the upper hash is lost.
BlockIndex(upper, blocks) == (upper * blocks) \div 2^HashBits
BucketOf(l, upper) == upper \div 2^(HashBits - l.bucketBits)
FullLocalBlock(l, upper) == (upper \div 2^l.shift) % BlocksPerBucket(l)
BlocksStayHome ==
    plan.of = "stored" =>
        LET l == plan.shape IN
        \A upper \in 0..(2^HashBits - 1) :
            BucketOf(l, upper) * BlocksPerBucket(l) + FullLocalBlock(l, upper)
                = BlockIndex(upper, 2^(HashBits - l.shift))
===============================================================================
