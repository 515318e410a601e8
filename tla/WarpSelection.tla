----------------------------- MODULE WarpSelection -----------------------------
(***************************************************************************)
(* How the kernels of StaticMultiset deal a batch out to warps and place   *)
(* each element stably (detail/static_multiset/selection.h and the prefix  *)
(* sums of kernels.h).  A warp owns a partition: a run of whole tiles of   *)
(* Lanes elements.  Every element has a weight (1 if it is selected, or    *)
(* the number of its matches) and starts where the weights before it end.  *)
(*                                                                         *)
(* Elements, partitions and lanes count from 0, as in the code; weights    *)
(* are functions f on 0..n-1.                                              *)
(***************************************************************************)
EXTENDS Integers, FiniteSets, Functions

CONSTANTS
    LogLanes,           \* a warp has 2^LogLanes lanes (32)
    WarpsPerBlock,      \* THREADS / 32
    Blocks,             \* BLOCKS
    SmallInsertLimit    \* SMALL_INSERT_LIMIT

Lanes == 2^LogLanes
Partitions == WarpsPerBlock * Blocks
Tiles(n) == (n \div Lanes) + (IF n % Lanes # 0 THEN 1 ELSE 0)

ASSUME ShapeAssumption ==
    /\ LogLanes \in Nat
    /\ {WarpsPerBlock, Blocks} \subseteq Nat \ {0}
    /\ SmallInsertLimit \in 0..(Lanes * Partitions)

Begin(n, id) ==
    LET rest == Tiles(n) % Partitions
        first == (Tiles(n) \div Partitions) * id + (IF id < rest THEN id ELSE rest)
    IN  IF first > n \div Lanes THEN n ELSE first * Lanes

Partition(n, id) == Begin(n, id)..(Begin(n, id + 1) - 1)
Owner(n, i) == CHOOSE id \in 0..(Partitions - 1) : i \in Partition(n, id)

Total(f, S) == SumFunctionOnSet(f, S)

\* What the first pass leaves in work[id].
PartitionTotals(f, n) == [id \in 0..(Partitions - 1) |-> Total(f, Partition(n, id))]

\* ScanBlocksKernel: prefixes within each block, and the blocks' totals.
WithinBlock(work, id) == Total(work, (id - (id % WarpsPerBlock))..(id - 1))
BlockTotal(work, b) == Total(work, (b * WarpsPerBlock)..((b + 1) * WarpsPerBlock - 1))

\* ScanKernel: prefixes of the blocks' totals, and the grand total.
BlockPrefix(work, b) ==
    LET totals == [c \in 0..(Blocks - 1) |-> BlockTotal(work, c)] IN Total(totals, 0..(b - 1))

\* Where each partition starts, by the two scans, and by the one of
\* SmallSelectKernel.
ScannedOffsets(f, n) ==
    LET work == PartitionTotals(f, n) IN
    [id \in DOMAIN work |-> WithinBlock(work, id) + BlockPrefix(work, id \div WarpsPerBlock)]
SmallOffsets(f, n) ==
    LET work == PartitionTotals(f, n) IN
    [id \in DOMAIN work |-> IF id < Tiles(n) THEN Total(work, 0..(id - 1)) ELSE 0]

Offsets(f, n) == IF n <= SmallInsertLimit THEN SmallOffsets(f, n) ELSE ScannedOffsets(f, n)

\* The inclusive sums of a warp's lanes, by shuffles over distances 1, 2, 4...
InclusiveWarpSum(v) ==
    LET sum[k \in 0..LogLanes] ==
            IF k = 0 THEN v
            ELSE LET delta == 2^(k - 1) IN
                 [l \in DOMAIN v |->
                    sum[k - 1][l] + (IF l >= delta THEN sum[k - 1][l - delta] ELSE 0)]
    IN  sum[LogLanes]

\* The same of lanes that all weigh u or nothing, from a mask of those that do.
MaskedWarpSum(v, u) ==
    [l \in DOMAIN v |-> Cardinality({m \in 0..l : v[m] # 0}) * u]

\* The first place of element i: the partition's offset, the tiles before, the
\* lanes before.
WarpSum(v, u) == IF u # 0 THEN MaskedWarpSum(v, u) ELSE InclusiveWarpSum(v)
Place(f, n, offsets, i, u) ==
    LET id == Owner(n, i)
        lane == (i - Begin(n, id)) % Lanes
        tile == i - lane
        v == [l \in 0..(Lanes - 1) |->
                IF tile + l < Begin(n, id + 1) THEN f[tile + l] ELSE 0]
    IN  offsets[id] + Total(f, Begin(n, id)..(tile - 1)) + WarpSum(v, u)[lane] - f[i]

Places(f, n) ==
    LET offsets == Offsets(f, n) IN
    [i \in 0..(n - 1) |-> Place(f, n, offsets, i, 0)]

\* Retrieve always scans twice, and has the shortcut for uniform multiplicities.
RetrievePlaces(f, n, u) ==
    LET offsets == ScannedOffsets(f, n) IN
    [i \in 0..(n - 1) |-> Place(f, n, offsets, i, u)]
================================================================================
