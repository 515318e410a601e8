# Formal models of ops-collections

ops-collections is a header-only library of containers that live in the memory
of an Ascend device.  A host thread owns a container object; its bulk methods
launch a kernel on a stream, in which the threads of the vector cores share
the elements of a batch and work on the container's storage with plain loads,
stores and compare-and-swaps.  This directory holds TLA+ models of the
library's containers, of the kernels below them and of the host code around
them, the TLC configurations that check them, and TLAPS proofs of what matters
most.

Paths below are relative to `src/include/` unless they start with `src/`.

## 1. Inventory

| Component | State | Operations | How it interacts |
|---|---|---|---|
| open-addressing core: `detail/open_addressing/` | slots in device memory, two counters (`argStorage_`, `ioaCounterStorage_`), sentinels | Insert, InsertIf, InsertOrAssign, InsertAndFind, Assign, Erase, Find, Contains, ForEach, Count, Clear; synchronous and `Async` forms | host method -> kernel -> device operation; a synchronous call resets a counter, launches, waits for the stream, loads the counter |
| probing and extents: `detail/extent/`, `detail/probing_scheme/`, `utility/prime.h` | none (an iterator per probe) | `MakeValidExtent`, `MakeIterator`, `operator++` | the constructor rounds the capacity; every device operation walks the iterator |
| Clear: `ClearSimd`/`ClearSIMD`, `ClearSimt` | the slots | fills the table with the empty slot | SIMT threads for small tables or odd sentinels, block copies by all vector cores otherwise |
| `StaticMap`, `StaticSet` | one open-addressing table | forward every call | users, `DynamicMap` |
| `DynamicMap`: `dynamic_map.h` | vector of StaticMaps, per-submap counts, total size, a prebuilt next submap, scratch and mask buffers | Insert (exact and `kAppendUnique`), InsertAsync, InsertOrAssign, Find, Contains, Erase, EraseAsync, Reserve, Clear | every operation is a row of StaticMap calls with masks between them; a background stream builds the next submap |
| `StaticMultiset` | the accepted elements in order, and their counts as an interval, as counters or as a hash table; flags that tell which | Insert, InsertIf, Contains, Find, CountEach, Count, Retrieve, RetrieveAll, Clear | host code picks a representation by what it knows of the keys; two-pass retrieval |
| `StaticMultimap` | pairs in order of acceptance with an index table beside them, or a table of pairs; four layouts by the types of key and value | Insert, InsertIf, Contains, ContainsIf, Find, FindIf, Count, Retrieve, RetrieveAll, Clear | validation, ranks, insertion by warps; count, prefix sum, write, sort, in scratch buffers that wait for their pending stream |
| `HyperLogLog` | packed registers, private sketches in a workspace, a histogram | Add, Merge, Estimate, Clear, moves | concurrent maximum of packed registers; kernels that collect privately and merge |
| `BloomFilter` | words of the filter, `knownEmpty_`, `mutableDataExposed_`, two kinds of workspace | Add, AddIf, Contains, ContainsIf, Merge, Intersect, Clear, Data, moves | host shortcuts on what is known of the filter; kernels that route keys to their blocks and kernels that apply them |
| `RoaringBitmap` | a copy of a serialised bitmap and its descriptors in device memory | construction, Contains, moves, destruction | parser on the host, asynchronous copies, lookup kernels |
| hash functions: `detail/hash_functions/`, `detail/hyperloglog/hash.h` | none | XXHash_32, XXHash_64, MurmurHash3, the same on 32-bit halves | used by all |
| atomics and key comparison: `utility/atomic_cas_wrap.h`, `detail/bitwise_compare.h` | none | compare-and-swap of 2, 4 and 8 bytes | device operations |
| storage and counters: `detail/storages/` | buffers and counters | allocate, initialise, reset, load | containers |

What is hard in this code, by component (the `hazards` of `PROJECT.json` name
the lines):

* **Open-addressing core.**  Probing takes no lock.  A pair of at most 8 bytes
  is one word; of a wider pair the key word is won by a compare-and-swap and
  the payload follows in a plain store, so others meet a key without its
  payload.  Two insertions of one key race for one slot.  Erase swaps against
  a content it read earlier.  Searches stop at the first empty slot, so no
  stored key may ever have one before it on its path.  InsertAndFind spins on
  another thread's store.  Counters are added up in registers, then added to
  one word.  *Correct* means: no key twice; every stored key reachable; a
  kernel as a whole is one atomic bulk operation with exact counters; every
  kernel ends; and at the host, kernels run in the order of the calls and a
  count is that of its own kernel, whichever earlier step failed.
* **Probing.**  Wrap-around at the width of the index type, steps that must
  not be zero and must visit all buckets, a binary search over a table of
  primes.  *Correct* means: inside the table, every bucket once, back at the
  start in the end.
* **Clear.**  Three divisions with remainders (blocks to cores, blocks to
  tiles, elements to blocks).  *Correct* means: disjoint shares that cover the
  table.
* **DynamicMap.**  Growth, reservation and prebuilding choose capacities by
  rules of their own; the counts of the submaps are exact after some calls and
  estimates after others, and a submap counted empty is skipped by lookups and
  deduplication; the loops over submaps are rows of kernels; some refused
  allocations throw and some are only logged.  *Correct* means: a key in one
  submap, counts that never understate, an exact size, no submap beyond its
  load factor; to its user an unbounded map; and no kernel on memory that was
  not allocated.
* **StaticMultiset, StaticMultimap, BloomFilter.**  Host flags that stand for
  facts about device memory (all keys distinct, every key equally often,
  filter empty, data handed out) and switch algorithms; a stale flag is a wrong
  answer many calls later.  Ranks and prefix sums that several kernels compute
  decide which elements get in and where answers go.  Counters and words are
  shared by threads, workspaces fill up.  *Correct* means: a bag with exact
  counts and answers in order; a filter that holds exactly the bits of its
  keys.
* **HyperLogLog.**  Several registers share a word; concurrent maxima of
  neighbours must not undo each other; private sketches are packed otherwise
  and must be merged once each.  *Correct* means: registers are the maxima of
  the ranks of the keys.
* **RoaringBitmap.**  A parser of bytes that may be damaged, containers of
  three kinds, wide loads where alignment allows; construction can fail
  between any two steps with copies still queued.  *Correct* means: every
  sound image is accepted, and a damaged one is refused or read inside its
  bounds; exactly the members are found; memory has one owner.

## 2. Plan

Done: the modules of sections 3 and 4, the core first, then StaticMap and
StaticSet, DynamicMap, the bags, the sketches, Roaring bitmaps; and the theorems
of section 5, for the core and the parts below it, the counts of StaticMultiset,
DynamicMap with its memory, the filters, and Roaring bitmaps.
What is left to model is in section 7.  Left to prove: the refinements of
`OrderedBag` and `PairBag`; `AnswersComeInOrder` of `CallLog`.

## 3. The modules and the code

| Module | Models | Composes |
|---|---|---|
| `ProbeMath` | arithmetic of extents and of the probing iterator | |
| `Probing` | a table's construction and the walks of keys over it | `ProbeMath` |
| `OpenAddressing` | the table, its device operations, kernels and host calls, interleaved; the callers' discipline and the inductive invariant | |
| `OpenAddressing_proofs` | theorems about the table, and the proof of the refinement | `OpenAddressingBulk` |
| `BulkMap` | abstract: what a bulk call promises | |
| `OpenAddressingBulk` | the refinement, and the invariant of a running kernel | `OpenAddressing`, `BulkMap` |
| `NarrowSlots` | compare-and-swap of a two-byte slot, comparison of keys | |
| `ClearTiling` | the tiling of Clear over the vector cores | |
| `TableParts_proofs` | theorems about walks, two-byte swaps and the tiling of Clear | `Probing`, `NarrowSlots`, `ClearTiling`, `NaturalInduction` |
| `TableRef`, `StaticMapRef`, `StaticSetRef` | device operations on a table they have to themselves; the device references | each the one before |
| `BulkKernels` | the kernels, one step each | `StaticMapRef`, `StaticSetRef` |
| `HostCalls` | the host's calls as sequences of steps that may fail | `BulkKernels` |
| `CallLog` | a program of calls and what each should answer | `HostCalls` |
| `StaticMap`, `StaticSet` | the public methods | `CallLog` |
| `GrowingMap` | abstract: what DynamicMap promises | |
| `DynamicMap` | the growing map, and its refinement of `GrowingMap` | `GrowingMap` |
| `NaturalInduction` | induction over the naturals and division with remainder, in a form the provers can cite | |
| `DynamicMap_proofs` | theorems about the submaps, and the proof of the refinement | `DynamicMap`, `NaturalInduction` |
| `DeviceMemory` | device memory of a DynamicMap under refused allocations | |
| `DeviceMemory_proofs` | theorems about the owners of memory and the kernels' use of it, of the maps and of the images | `DeviceMemory`, `RoaringBitmap` |
| `WarpSelection` | how batches are dealt out to warps and elements placed | |
| `OrderedBag` | abstract: what StaticMultiset promises | |
| `Multiset` | StaticMultiset, and its refinement of `OrderedBag` | `WarpSelection`, `OrderedBag` |
| `Multiset_proofs` | theorems about the counts and the kernels' threads | `Multiset`, `NaturalInduction` |
| `MultimapKernels` | where a key goes, ranks, prefix sums and sorts of the multimap's kernels | |
| `PairBag` | abstract: what StaticMultimap promises | |
| `Multimap` | StaticMultimap, and its refinement of `PairBag` | `MultimapKernels`, `PairBag` |
| `BloomFilter` | the filters, their kernels and workspaces, the host ahead of them | |
| `BloomKernels_proofs` | lemmas about the kernels of the filters, and how far each can be | `BloomFilter`, `NaturalInduction` |
| `BloomFilter_proofs` | theorems about what filters hold and queries answer | `BloomKernels_proofs` |
| `BloomWorkspace` | the division of keys, workspaces and words among cores and threads | |
| `HashFunctions` | the hash functions at a smaller width | |
| `HyperLogLog` | sketches, every path of an insertion, merging, the histogram | `HashFunctions` |
| `SketchMath` | sizes of sketches and buffers, correction of an estimate | |
| `RoaringFormat` | the serialised format: parser and lookup | |
| `RoaringBitmap` | objects that own an image in device memory, and their queries | `RoaringFormat` |
| `RoaringImages` | images written by the format's specification, whole, cut and damaged | `RoaringFormat` |
| `MC...` | instances for TLC | see section 4 |

### OpenAddressing

`first` and `second` are the key and payload words of the slots; `op[s]` and
`batch[s]` the kernel on stream `s` and its elements (a key, a payload, and
whether the stencil accepts it); `counter` and `ioaCounter` the table's two
counters on the device, `answer[s]` what the host loads from them, `out[s]`
the output arrays.  A thread has `pc` (what it does next), `elt` (the loop
index `i` of the kernel), `pos` (how far the probing iterator is), `seen` (what
it loaded) and its two local counters.

One action is one access to shared memory with what follows from it in
registers: `ProbeInsert`, `ProbeAssign`, `ProbeErase`, `ProbeFind`,
`ProbeForEach` load a slot; `CasInsert` and `CasErase` are the
compare-and-swaps (`AttemptInsert`, `AttemptInsertOrAssign`,
`AttemptInsertStable`); `StorePayload` and `WipePayload` are the store of
`CasDependentWrite` after the key was won; `AssignPayload` the store of that
name, which for a packed pair writes the key as well; `WaitForPayload` the spin
and `LoadContent` the load after it.  `Fetch` and `Leave` are the head and end
of the grid-stride loop with the atomic addition to the counters, `ClearSlot`
the loop of `ClearSimt`.  `Launch`, `Complete` and `TakeAnswer` are the host:
reset and launch, the stream's synchronisation with the load of the counter,
and the caller's use of the result.

`Path[k]` is the order in which key `k` probes the slots.  The instances take
it from `ProbeMath` (`PathIn` of `MCOpenAddressing`); the proofs assume only
what `PathsServeTables` proves of `Probing`, that each slot comes up once.  `Layout` tells sets, pairs
of one word and wider pairs apart.  `MayOverlap` says which operations callers
let overlap on different streams, and `Synchronous` which of them are called in
the form that returns a count.

Left out: hash values and key comparison beyond equality (they are in
`HashFunctions` and `NarrowSlots`), the warp shuffles that only spread work,
allocation, and memory orderings in which other threads see a thread's stores
in another order than it made them.

`NarrowSlots` has what `OpenAddressing` takes for one step when keys have two
bytes: `AtomicCas2Byte` loads the word around the slot, compares the half it
is asked for, and swaps the whole word until the neighbour stands still.

### OpenAddressingBulk and BulkMap

`BulkMap` is the caller's view: a map, a call that transforms it at once, exact
counters.  Which of several payloads of one key wins, which duplicate counts as
the insertion, and which keys get in when there is not room for all are left
open, as the code leaves them open.  The refinement maps the table to the map
of its stored keys; a kernel in flight counts as not having happened, which is
why `snap` remembers the map the kernel found.  The second half of
`OpenAddressingBulk` says how far a kernel in flight is (`BulkInv`, section 5).

### The host's calls: TableRef to StaticMap and StaticSet

These modules have one layer of the code each.  `TableRef` is
`OpenAddressingRefImpl` run by one thread alone; `StaticMapRef` and
`StaticSetRef` are the device references, where a set's key stands for its own
payload; `BulkKernels` folds the device operation over a batch, with the
counters a kernel adds to and the array it fills; `HostCalls` is
`OpenAddressingImpl`: a call is a sequence of steps (a reset, a launch, a
wait, a copy back), each of which may fail, and of which `CheckRetOrThrow`
ends the call and `CheckRet` does not; `StaticMap` and `StaticSet` are the
public methods, each the steps it takes.  A host is `device`, `queue` (kernels
of the stream that have not run), `outs` and `reply`; `Synchronize` runs what
is queued, and a failed wait runs none of it.  `CallLog` runs programs of such calls and
keeps `content`, the map as of the last call made, with `expected`, what the
kernels queued should output; at most one step of a call fails, one kernel is
pending, and the copy of the tombstone succeeds.

### DynamicMap

`submaps[s]` has a capacity, the map its table stands for, the number of its
tombstones (erased slots stay taken) and `submapSize_[s]` as `count`.
`EnsureActiveRoom`, `ActivateNext`, `GrownCapacity`, `StartPrepareNext` follow
the private methods of the same names (`GrownCapacity` is the doubling loop).
`Begin` is the common start of the insertions, `InsertFast` the exact path with
no older submap in use, `InsertLoop` one iteration of the chunk loop with the
mask of the keys that older submaps hold, `InsertOptimistic` the unchecked
append, `ReserveLoop` one iteration of Reserve.  `Lookup` goes through the
submaps as the code does: alone with the answers of the first that is not
empty, or merging (`MergeFind`) what the next ones find.  Each StaticMap call
is one step of the map of `BulkMap`: the runs `bulk_packed` and `bulk_wide` and
the theorem `KernelsAreMapOperations` are the licence for that.  `GrowingMap` sees a call begin (`call`), the map change
once, and the call return; growth and the steps of the loops are stutters
there.  `ret` carries the keys asked for, so that an answer belongs to its
question.  `contract` says whether the program keeps to the operations whose
results are exact, and to new keys in appends.

`DeviceMemory` is the same code seen by its allocations.  `memory` gives the
size of each block, `building` the StaticMap under construction, block by
block, `call` how far a call is, and `used` what the last kernels were given.
Refusals in a constructor throw, and what was built is taken apart; refusals
of scratch buffers are logged, and the size is noted all the same.

### Multiset, WarpSelection and OrderedBag

The host's flags have the names of the code without the underscore.  `Select`
is the call up to the statistics, which are functions of the batch
(`ValidTotal`, `OrderErrors`, `Low`, ...; `totals` and `range` in the code);
the host's decision is one of `NothingAccepted`, `InsertInterval`,
`PrepareFirst`, `PrepareHash`, `PrepareCounters`, `PrepareNothing` (the cases of
`PrepareInsertion`, with the kernels that only write each word once) or
`AllocationFails`.  `flight` are the elements that the running kernel has still
to put in, each with the slot it is at: `CompareAndSwap` and `AtomicAdd` are the
two ways of `InsertOne`, `Load` and `StoreCount` the increment that is not
atomic.  That every element has a thread of its own allows more orders than the
kernel's loop does.  The add that follows a lost compare-and-swap is in one step
with it: nothing reads the counters before the kernel ends.  Queries are
one step: their threads only read, and the container is used by one host
thread at a time.  `WarpSelection` places the elements: partitions of whole
tiles, sums over lanes, warps and blocks.  `OrderedBag` is the sequence of
accepted elements; an insertion changes it once, when it returns, and not at
all when an allocation fails.  Empty batches and null pointers, which return at
once, are left out.

### Multimap, MultimapKernels and PairBag

`layout` is one of `dense32`, `dense64` (pairs in order, index entries with a
tag of the key) and `packed`, `wide` (slots are pairs).  An insertion is
validated and ranked on its way to the kernel, whose threads (`flight`) then
race for free slots; the ranks say which prefix of the selected pairs is
admitted and where each goes in `table`.  `MatchingSlots` is the walk of a
query; Retrieve counts, sums by chunks of chunks and writes, with or without
the cache of matches that fits into `CacheBudget`, and sorts the values of
each query as the two sorts of `MultimapKernels` do.  `PairBag` is the bag of
the accepted pairs, at most `Capacity`; an insertion takes the prefix that
fits or, when an allocation fails, nothing.

### BloomFilter and BloomWorkspace

`host[f]` is what the object knows (`knownEmpty_`, `mutableDataExposed_`, its
workspaces), `queue` the kernels that the device has not finished, `bits` the
contents.  A call only launches, so what the host decides from its flags meets
the filter several kernels later.  A small batch is added by `Add` kernels with
atomics, word by word or in pairs of words; a large one by two kernels: Route
leaves the hashes in a workspace, by block (`routed`) or by bucket of blocks
in segments of the producing cores (`AddTicket`, `Observe` and `CasTicket`
are its counters, packed and not), and Apply gathers them and stores each block
once.  What finds no room is applied to the filter at once.  The names of the
`private` layouts are those of the code's four built workspaces.
`conditional` Route looks first and tells Apply through `selected`
whether there is anything to do.  `expected` is the history variable: the
contents as of the last call made.

`BloomWorkspace` is the index arithmetic of the same kernels, which
`BloomFilter` takes for granted: a behaviour picks one division (keys among
the threads of the cores, with loop indices at their width; segments; tiles;
words of the counters) and lets the workers claim their shares.

### HyperLogLog, HashFunctions and SketchMath

`words` are the registers of the sketches, `queue` the kernels of the call in
progress, `lane[c]` the threads of core `c` with the word each has observed,
`local` the private sketches and `workspace` what they are written to.
`LaunchBatch`, `LaunchSmallAdd` and `LaunchLargeAdd` choose the kernels as the
code does, by precision, batch and `knownEmpty`; `Observe` and `StoreWord` or
`Raise` are the compare-and-swap loop on a packed word.  `ReduceTiles` merges
the workspace, `FusedReduce` and `FusedReload` do it inside the fused kernel
between two `SyncAll`.  `SyncFails` is a wait that fails: the kernels not yet
executed are lost, one may have run by half.  `must` and `may` bracket the
keys that are then in the sketch.  `HashFunctions` computes the hashes with a
word of eight bits; the scheme of rotations, carries and special cases is the
code's.  `SketchMath` has real numbers as whole ones, see section 7.

### RoaringFormat, RoaringBitmap and RoaringImages

A byte has `ByteBits` bits and every width of the format follows; with 8 the
numbers are the code's.  The parser reads byte by byte and never past the
size it is told; memory behind an image has any content (`Foreign`).
`RoaringBitmap` constructs objects step by step (`Parse`, `Allocate`,
`SubmitCopy`, `Constructed`), each of which may fail and goes to `Unwind`;
copies and queries are work in the `queue` of a stream.  A query's kernel looks
keys up in the copy, with the alignment the address of the allocation gives
(`Bases`).  `RoaringImages` writes images by the format's specification, apart
from the parser.

### ClearTiling and Probing

`ClearTiling` has the host's arithmetic as operators of the names of the code's
variables (`TotalBlocks`, `CoresWithExtra`, `Tiles`, `TailData`) and `CopyTile`
as one copy of one core.  `Probing` constructs a table of any shape and walks it
with any pair of hashes; arithmetic is modulo the width of the type the code
computes in.

## 4. The runs

Parts that share no state are checked in one run: the MC module declares the
variables of all, a behaviour starts in one part, and the variables of the
others hold the empty string throughout (`MCArithmetic`, `MCMaps`, `MCBags`,
`MCSketches`; `MCMapOrSet` has a map and a set in the same variables, of which `bulk_wide` takes
the map; the
variables of `DeviceMemory`, which `MCArithmetic` extends, stay as before the
first allocation).  The
constants `Parts` of `MCArithmetic` and `Containers` of `MCMaps` name the parts
a run takes: all, or in `clear_full_tiles` and `churn_fills` the one.  A
property of such a run is the conjunction of properties of its parts, each
guarded by the part it is about, and says in a comment where they are defined.

| Run | Instance | What it shows |
|---|---|---|
| `arithmetic` | walks: index type of 6 bits, requests up to its limit, buckets of 1 to 3 slots, the first primes | `WalksSeeAll`, `WalksEnd`: a walk offers each bucket once, inside the table, and ends, also where an addition would overflow; `CapacitiesServe`: rounding is exact at the entries of the prime table, at zero and at its end |
| | Clear: 3 cores, blocks of 2, all capacities to 75, 7 slot types | `WorkIsShared`: disjoint shares that cover the table, but for tiles that `clear_full_tiles` shows |
| | Bloom filter shares: every layout that compiles with hashes of 5 bits, 1 to 4 cores | `WorkIsShared`: each key, record, counter and word is one thread's; the four layouts the library builds satisfy its own assertions at full width |
| | Roaring images: array, bitset and run containers, 32 and 64 bits, cut off at every byte or with a bit flipped | `ParserIsExact`; `LookupsAreExact`: an image that stands answers exactly, and its memory has one owner wherever a constructor fails |
| | keys and lengths 0 to 255, words of 8 bits | `HashesAgree`; `SketchMathHolds`: estimates interpolate on all gap patterns of nine-entry tables and a thinned table of the code, and buffers serve the sketches of their size |
| | two threads, a word of two slots | `SlotsAreAtomic`: a two-byte compare-and-swap is one step |
| | device memory: 3 submaps, one batch size, one refusal | `OneOwner`, `KernelsGetMemory`: nothing leaks or is freed twice, and no kernel gets memory that is not there |
| `bulk_packed` | one kernel of 2 threads, batches of 1 to 2, 3 slots; a map of 2 colliding keys and 2 payloads, or a set of 3 keys with Count and ForEach | `BothAreBulkMaps`: whatever the threads interleave, the kernel is one step of `BulkMap`, with its counters and outputs |
| `bulk_wide` | 2 slots and one payload, pairs wider than a word | `IsBulkMap`: the same, the property of the proof; `CallsReturn`: every call returns |
| `overlap_packed` | 2 streams of one thread, 2 slots, batches of 1, all operations but Count; Clear on its own | `UniqueKeys`, `Reachable`, `SlotsAreGivenOnce`, and `TableInv`, the invariant of the proofs, which contains `FreeSlotsAreBlank` |
| `overlap_wide` | the same for wide pairs, InsertAndFind not with Erase | `InsertAndFindAnswers`: nobody gets the sentinel of a payload on its way; `KernelsEnd`: no kernel spins for ever |
| `dynamic` | DynamicMap: 2 keys, 2 payloads, batches to 2, up to 3 submaps | `KeyInOneSubmap`, `OneChunk`, `IsGrowingMap` for exact use; `CountsAreSound` for any use |
| | StaticMap, StaticSet: 2 slots, 2 colliding keys, one kernel pending, any one step of a call failing | `AnswersComeInOrder`: kernels output what the order of the calls says; `CountsAreOwn`: a count returned is that of the call's own kernel |
| `bags` | multiset: capacity 3, 4 counters, 4 keys and the sentinel in their midst, 33 insertions of 1 to 5 keys, warps of 2 lanes | `CountsAreExact`, `ThreadsKeepApart`, `IsOrderedBag`: through all representations and thread orders |
| | multimap: four layouts, capacity 3, 3 keys that collide in slot or tag, 12 insertions of 1 to 6 pairs | `TableHoldsAccepted`, `MultimapsArePairBags` |
| `sketches` | filters: two, 4 blocks of 2 words, 5 keys, 8 layouts, the host up to 2 kernels ahead, workspaces of 1 slot | `FilterIsExact`: a drained filter holds exactly its bits, `knownEmpty_` is true only of empty ones, workspaces are left ready; `AnswersAreExact`: queries answer from their place in the stream |
| | sketches: two, 8 registers, precisions 14 to 18, batches of 3 and 8 keys, one wait fails | `RegistersAreExact`, `RegistersOnlyGrow` |
| `upsert_erase`, `clear_full_tiles`, `set_erase`, `churn_fills` | small instances | counterexamples, section 6 |

**Bounds and why they are enough.**  Slots interact only through the paths of
keys; two colliding keys (three in the set of `bulk_packed`) on two or three
slots give a lost race, a walk past a taken slot and past a tombstone, a full
table and one full of tombstones.  Two threads give every race the code has:
each compare-and-swap involves a slot and one rival, and the rest of a thread's
work is private.  `Rank` and `TotalThreads` deal the elements of a batch out
to the threads as the grid-stride loop does: with two threads and batches of
one or two, a thread has one element or none, and the loop has no other state
than its position.  For Clear, 75 slots of one or two elements give each core
up to several tiles with every combination of remainders.  For `dynamic`,
submaps of a few slots let every batch fit, fill or overflow the active one,
with a prebuilt one that is large enough, with one that is not, and without;
`MaxSubmaps`, `MaxSize` and `MaxTombstones` bound the exploration, and
`MaxTombstones` is below the slack of the smallest submap, beyond which
`churn_fills` shows what happens.  `MaxQueue` and `MaxStale` bound the calls of
StaticMap and StaticSet: what an earlier call leaves to a later one is a kernel
in the queue and a counter that is not zero, and more of either adds nothing
new.  `DeviceMemory` was also explored with batches of two sizes, at two
submaps and at three, without an error.

For the multiset, four counters are few enough for keys to fall below, into, at
the end of and beyond the window of any base; the batches are all of one and
two keys, and longer ones that are cut by the capacity, unsorted, sorted with a
repetition, with sentinels, and deselected in places.  `MCBags` also checks, as
assumptions, the placement for all batches of up to nine elements in warps of
two lanes, two warps to a block, two blocks.  One query is made between two
changes of a bag, since queries change nothing.  The multimap has small keys,
whose tags are the keys, and large ones, whose tags collide with them; a walk
that wraps around; batches of more than a chunk and more than a warp.

For the filters, the keys collide in a block, in a bucket and nowhere, and one
is found wherever two others have been added; workspaces of a single slot or
record overflow with two keys, and the thresholds (`MinAggregated`,
`MinPrivate`, `MaxIndex`) are lowered so that batches of two and three keys
take every path.  For the sketches, eight registers, two or three to a word,
and two keys of one register give every race of the packed words; `TileKeys`,
`SmallFrom`, `LargeFrom`, `BatchLimit` and `Boundaries` are lowered so that
eight keys take every kernel and every stage.  Precision 13 takes the path of
14 everywhere.  A Roaring byte of two bits makes containers of 16 keys and
images of at most a few dozen bytes, all of whose prefixes are parsed.

**Symmetry.**  Payloads (never compared but for equality) in `bulk_packed`;
payloads and the two streams in `overlap_packed`; keys and payloads in
`dynamic` (those of DynamicMap); the two sketches in `sketches`.  Runs that
check liveness use none.

**Fairness.**  `Spec` of `OpenAddressing` assumes weak fairness of each
thread's steps and of `Complete`: the device keeps scheduling every resident
thread, and the host waits in `aclrtSynchronizeStream`.  For `WaitForPayload`
this includes threads that spin beside the thread they wait for, which the
device's independent scheduling of diverged threads has to provide; the code
relies on it.  No fairness is assumed for callers.  `Probing` assumes it for
`Advance`, the body of a running loop.  The other modules state safety only:
their loops are bounded by what is left of a batch, except the compare-and-swap
loops of `HyperLogLog` and `BloomFilter`, which retry when another thread has
made progress.

**Deadlock** is checked in every run.

## 5. What is proved

Each theorem holds for all values of the constants that satisfy the assumptions
named; the run shows the same property on a small instance.

| Module | Theorem | Says | Assumes |
|---|---|---|---|
| `OpenAddressing_proofs` | `TypeCorrect` | `Spec => []TypeOK` | nothing |
| | `TableIsInvariant` | `[]TableInv`, the inductive invariant | `Disciplined` |
| | `KeysAreUnique` | no key is stored twice | `Disciplined` |
| | `KeysAreReachable` | no empty slot precedes a stored key on its path | `Disciplined` |
| | `FreeSlotsStayBlank` | a free slot has the empty payload | `Disciplined` |
| | `SlotsGivenOnce` | from empty to one key to the tombstone, and back only by Clear | `Disciplined` |
| | `InsertAndFindHasAnswers` | `[]InsertAndFindAnswers`: "nothing" is answered only for a key without room | `Disciplined`, `PayloadsLast` |
| | `KernelsAreMapOperations` | `BulkSpec => IsBulkMap`: on one stream, every kernel is one atomic operation of `BulkMap` | `SingleStream`, `Disciplined`, `PayloadsLast` |
| | `KernelsKeepBooks` | `[]BulkInv`, what is true of a kernel half done | the same |
| `TableParts_proofs` | `ProbesAreTyped` | indices, steps and capacities keep their types | `InputsOK`, `SizesFit` |
| | `WalksSeeTheTable` | a walk that is back at its start has offered every bucket | the same |
| | `BucketsComeOnce` | no step of a walk offers a bucket again (an action property) | the same |
| | `TablesServeRequests` | a capacity is whole buckets, no less than asked for, the smallest prime that serves | the same |
| | `PathsServeTables` | the slots of a walk are each slot of the table once: `OpenAddressing`'s assumption about `Path` | the same |
| | `WordsAreTyped` | both halves of every word stay keys | `KeysOK`, `WidthOK` |
| | `NarrowSwapsAreAtomic` | a compare-and-swap of a two-byte slot is one step on that slot alone | the same |
| | `TilingTyped` | `[]TypeOK`: no core copies more tiles than its share has | `PlatformOK`, `TableOK` |
| | `CoresWorkApart` | no element is written by two cores, and none a block past the table | the same |
| | `ClearsUnlessTilesAreFull` | Clear leaves nothing behind, unless a share is of full tiles | the same |
| `Multiset_proofs` | `MultisetTyped` | `[]TypeOK` | `PowersOK`, `SelectionOK` |
| | `MultisetCounts` | `[]CountsAreExact`: every representation answers with the number of accepted elements | the same |
| | `MultisetWriters` | `[]ThreadsKeepApart`: threads write inside the arrays, and an increment that is not atomic has one writer | the same |
| `DynamicMap_proofs` | `DynamicMapInvariant` | `[]DynInv`, the inductive invariant | `ExtentsServe` |
| | `KeysAreInOneSubmap` | no key is in two submaps | `ExtentsServe` |
| | `CountsStaySound` | counts cover what is stored, keep to the load factor, and add up to the size | `ExtentsServe` |
| | `RoomServesBatch` | an insertion, once begun, has room for its whole batch | `ExtentsServe` |
| | `LookupsAreExact` | a lookup answers with the key's payload in any submap, or that there is none | `ExtentsServe` |
| | `DynamicMapIsGrowingMap` | `Spec` implements `GrowingMap` | `ExtentsServe`, `[]FewTombstones` |
| `DeviceMemory_proofs` | `MemoryInvariant` | `[]MemoryInv`, the inductive invariant | `SizesOK` |
| | `BlocksHaveOneOwner` | an allocated block has one living owner: no leak, no second free | `SizesOK` |
| | `KernelsAreServed` | kernels get memory that is there, large enough and apart | `SizesOK` |
| | `OwnersInvariant` | `[]OwnerInv`, the inductive invariant | `ImagesOK` |
| | `MemoryHasOneOwner` | the same for the images, and nothing queued works in freed memory | `ImagesOK` |
| `BloomFilter_proofs` | `KnownEmptyIsRight` | a filter that the host takes for empty is, and its memory is not handed out | `CallsOK`, `WorkersOK` |
| | `WorkspaceStaysReady` | queued kernels find their workspace, and a drained stream leaves its counters zero | the same |
| | `FiltersAreTyped` | `[]TypeOK` | `Sound` |
| | `DrainedFiltersAreExact` | once the stream has drained, a filter holds exactly the bits of its calls | `Sound` |
| | `FiltersAreExact` | `[]FilterIsExact`: the three together | `Sound` |
| | `QueriesAreExact` | `[]AnswersAreExact`: a query answers from its place in the stream | `Sound` |

**The table.**  `Disciplined`: reserved keys that no batch brings, a tombstone if anything is erased, no InsertOrAssign while an Erase runs
on another stream, and a Clear that has the table to itself.  `MCOpenAddressing`
and `MCMapOrSet` check that the discipline of the runs is this one; the
counterexample `upsert_erase` shows
that the theorems fail without its third part, and `set_erase` what happens
without the second.  `PayloadsLast`: callers do not pass the sentinel as a
payload, and no Erase runs beside an InsertAndFind, whose answer it could wipe.

`UniqueKeys` and `Reachable` are not inductive: an insertion that has walked
past a slot must know that the slot will not become free behind it.  `TableInv`
adds what the threads know of the table: what an insertion has passed stays
taken, by other keys (`PassedStaysTaken`); an InsertOrAssign that found its key
overwrites a slot that still holds it (`FoundStaysPut`); a slot about to get a
payload is not free (`TouchedStaysTaken`); the running kernels are ones that may
overlap (`OverlapKept`); and a Clear in flight will come by every slot that it
has not emptied (`ClearLeavesNone`).  The proof abstracts each step to the one
of five effects it has on the keys of the table (none, a slot taken, a slot
erased, a key rewritten, a slot cleared) and shows each conjunct for each
effect, so that the fifteen actions are gone through once.  `AnswersInv` adds,
for InsertAndFind, that a thread that has stopped waiting loads a payload that
is there and stays (`LoadedIsThere`).

**The kernel as one operation.**  `BulkMap` changes its map once, when the call
returns, and none of the many steps of a kernel is the moment at which that
happens.  The proof therefore carries through the kernel, for each operation,
what its postcondition says of a kernel half done (`BulkInv`, together with
`TableInv` and `AnswersInv`).  `Done` are the elements whose thread has moved on
or left.  There is a set of `movers`, one element for each key that has come to
the table or gone from it since the launch; a thread between its
compare-and-swap and the store of the payload has moved its key but is not done,
which is why the two sets differ (`Account`).  The counters are spread over the
registers of running threads and the word on the device: `Tally` says that both
together are the number of elements that are done and moved nothing (or, for an
InsertOrAssign, housed no key), and at the end, when all have left, the word
alone is.  `KeysMoved` says that a done insertion has stored its key or found the
table full, so that as many new keys get in as there is room for; `PayloadsMoved`
and `LookupsAnswered` say what the slots and the outputs hold meanwhile; and
`Knows` what a thread's place in the program says of its element and its slot:
that a search has passed no slot with its key, and that a failed swap of an Erase
can only mean the tombstone.  `SingleStream` says that one stream uses the
table, whose counters calls on others would share; `PayloadsLast` is needed
because an InsertAndFind may otherwise answer with the sentinel.  The number of
slots, keys, threads and elements and the probe paths are arbitrary, and sets,
packed pairs and wider ones are covered alike.  TLC found no violation of `BulkInv`
on the instances of `bulk_packed` and `bulk_wide`; the second also checks
`IsBulkMap`.

**Probing.**  `InputsOK` and `SizesFit` say that the prime table is increasing and
of primes, that buckets have slots, and that nobody asks for more slots than the
types of host and kernels can count; TLC evaluates both for the instance of
`arithmetic`.  The proofs rest on two facts of arithmetic: a step that has an
inverse modulo the number of buckets comes by all of them before it is back
(`Congruent` and the division lemmas of `NaturalInduction`), and every step that
double hashing can take has one, since it is positive and smaller than a prime.
The rest is that `LowerBound` finds the prime it is to find, by the invariant of
the binary search, and that nothing wraps around in between.

**Two-byte slots.**  `KeysOK` and `WidthOK` say that keys fit into half a word and
that a byte has an even number of values.  `SwapInv` says that a word is its two
halves, and that a thread about to swap has seen the key it expects in the word it
has read: when the word is unchanged, so is the key.

**Clear.**  `PlatformOK` and `TableOK` say that sizes are whole numbers, all but a
set's payload positive.  The arithmetic of the host is proved correct for every
number of cores: `UsesSimd` makes the table large enough to have a block for each
core, so that shares are a quotient of blocks, one more for the first cores
(`Deal`); hence they follow each other, cover the table, and their tiles reach
their ends.  `TilingInv` adds that a core has written in its own share only and
that what it has passed is clean.  The exception in `EmptiedUnlessTilesAreFull` is
the one of the run `clear_full_tiles`, so the theorem says that Clear has no
other.  TLC checked `TilingInv` for three cores, keys of 1, 2 and 4 bytes, payloads of
up to 2, and 40 capacities.

**StaticMultiset.**  `PowersOK` is the law of powers of two up to `Capacity`.
`SelectionOK` is what `WarpSelection` has to do: find all elements of a batch and
place the valid ones in their order.  Its sums are folds over lanes, warps and
blocks of data, so TLC evaluates it for the batches of `bags`, and all batches of
up to nine elements besides, and the theorems take it from there, for every
capacity, hash and batch.  `CountsAreExact` is not inductive while a kernel runs:
counters then lack what its threads have still to add.  `BagInv` names the places of
`ordered_` whose elements the counters already know (`Entered`: all that the kernel
is to leave but those of its remaining threads), and says that the counters, direct
(`Counters`) or in the hash table (`Chains`), are exact for these; and that a
remaining thread will add its own element: it has passed only slots of other keys,
and a count that it loaded is still the counter's.  Each step with which a thread ends
moves one place to `Entered`; the table has more slots than elements, so a thread
finds one.  TLC checked `BagInv` on the instance of `bags`.

**DynamicMap.**  `ExtentsServe`: a table is at least as large as asked for, which
`TablesServeRequests` proves of `MakeValidExtent`.
`CountsAreSound` and `KeyInOneSubmap` lean on each other: an insertion masks the
keys that older submaps hold, but looks only into those whose count is not zero.
Besides, `DynInv` needs that the capacity to come is never zero, else the doubling
loop would not serve a batch, and that the call in progress keeps to the contract
(`CallOK`).  TLC checked `DynInv` on the instance of the run `dynamic`.  The
capacities, the sum of the counts and the chain of lookups are recursive
functions; what they compute is proved by induction over the naturals.  The
library's induction rules take the formula as a parameter, which the provers
cannot instantiate, so `NaturalInduction` derives from the well-foundedness of `<`
that a set of naturals has a least member, and the proofs take the set of
counterexamples.

`DynamicMapIsGrowingMap` maps each step to a step of `GrowingMap` or to none.  It
assumes that there are never more tombstones in the active submap than the load
factor keeps free, for the code does not ensure it: a submap counts as having
room when slots of erased keys have used it up, and drops keys, as `churn_fills`
shows.  The run bounds tombstones likewise (`MaxTombstones`).

**Memory of a DynamicMap.**  `SizesOK` says that sizes are positive numbers.
`OneOwner` needs to know for each member of each object when it may be null, and
who holds a half-built map while its constructor runs (`Construction`, `Presence`,
`SlotsThere`); that the recorded sizes are those of the blocks, except after a
refused scratch buffer (`SizesTrue`); and that a call has set up what its kernels
will use (`CallReady`).  A step takes a block, drops the blocks of an object,
hands some over, or moves a map; ownership is shown for these four effects
(`Taken`, `Dropped`, `HandedOver`, `MapMoves`) and the actions reduced to them.
For `KernelsAreServed`, the three parts of the deduplication buffer are apart
because their offsets are rounded up to the alignment.

**The filters.**  `CallsOK` and `WorkersOK` say that calls name filters and bring
batches, and that there are cores and threads; `Sound` adds `PolicyOK`, what the
code asks of a policy at compile time, and `HashesOK`: hashes have two halves of
at least two bits, and the law of powers of two holds as far as hashes and words go,
which the provers do not know and TLC evaluates.

`KnownEmptyIsRight` is about the host alone (`HostInv`): every call that may bring
a key gives up known emptiness on every way out of it.  `WorkspaceIsReady` needs
`StreamInv`, which relates the host to the kernels still
queued: if a filter has a routed workspace whose counters are not zero, a kernel
that zeroes them is still to come, the ClearWorkspace behind the allocation or the
apply of a batch; a route always has its apply right behind it (`Paired`); and the
kernels in the stream keep their workspace (`Served`), for only a move takes it
from a filter, and callers move one when its stream has drained: the code does not
wait, and the guide asks them to before a filter's memory is given back.  TLC
checked these two invariants on the instance of `sketches`.

That a drained filter holds exactly its bits is not inductive by far: between call
and drained stream lie several kernels, each of several threads.  `FilterInv` says
that the device is on its *course*.  A state of the course is what the filters hold
between two kernels, the route whose apply is owed, and whose counters are zero; a
kernel takes one to the next (`Executed`) if it finds what the host knew when it
launched it (`Ready`), and the kernels in the stream lead from the state that the
device is at to the contents expected (`Leads`).  So a call has only to lengthen the
course by kernels whose effects together are its promise, whichever path it picks,
and a kernel only to get from one state to the next.  How far it is in between,
`Progress` says by family.  The bits of an add are those of the elements done, and
each thread has its own elements.  A route keeps books (`Books`) of a block's
tickets, or of a core's and a bucket's: each ticket below the counter is held by a
thread or has been written to its slot, no two elements have one, and whoever was refused
a slot has its bits in the filter; the same lemmas serve both, and the packed
counters as well, of which two threads may read the same count and only one wins
the swap.  A private apply has everything of the tiles behind it in the filter, and of
this tile in local memory what the gathered records set.  For an apply
that overwrites blocks instead of reading them, `Ready` demands that the state of the
course be empty, not the filter: the route before it has put there what found no
room, and the apply has to keep that.

`QueriesAreExact` takes the answer a query should give from the same course.  The
lanes of `ContainsH8V1` exchange their matches in rounds; that after the last of
them each lane has the conjunction over all words is an induction over the rounds,
and so is that the halving search of a lane for its word finds it.  `FilterInv`
speaks of a path of states and of who has which element, over which TLC cannot
enumerate; it checked what follows from it, `FilterIsExact` and `AnswersAreExact`.

**Roaring bitmaps.**  `ImagesOK` describes the images a program may bring, sound or
damaged.  `OwnerInv` says who owns an allocation between the steps of a
constructor or a move, and that queued work is in memory that is held; a failing
constructor waits for its own stream before it frees (`OwnWork`).

**Only model-checked.**  Liveness (`CallsReturn`, `KernelsEnd`, `WalksEnd`) and
what needs ENABLED are out of the prover's reach; so are `HashFunctions`, whose
bit operations are recursive operators, and `HyperLogLog`, which uses them.  What
the selection of StaticMultiset computes (`SelectionOK`), the refinement `IsOrderedBag`, whose
queries are sums and retrievals over sequences, StaticMultimap with its sorts and
prefix sums, the parser of `RoaringFormat` and the tables of `SketchMath` are
recursion over data, for which there is no induction here.
Section 2 lists what could be proved and is not yet.

## 6. Where code and documentation disagree

| Run | What happens |
|---|---|
| `upsert_erase` | `AssignPayload` of InsertOrAssign stores the packed slot, key included; after a concurrent Erase the key is back, while another insertion has stored it again further on: `UniqueKeys` fails |
| `clear_full_tiles` | a core whose share is a whole number of tiles computes a tail of 0 elements and never clears its last tile: `ClearEmpties` fails |
| `set_erase` | a StaticSet never has a tombstone, so Erase empties the slot, and lookups miss the keys stored behind it: `LookupsMissNothing` fails |
| `churn_fills` | slots of erased keys are not reused, and a submap's count does not know of them: an Insert with room by count drops keys, `InsertStoresAll` fails |

In three places `docs/DynamicMap_design.md` describes another program than
`dynamic_map.h`.  Here the run `dynamic` passes: its properties hold of the
code and contradict the document.

| The document | The code | Property |
|---|---|---|
| :266, InsertOrAssign of a key of an older submap writes the active one only and makes duplicates | `InsertOrAssignChunk` (:517) assigns it in the older submap, and the mask keeps it out of the active one; `tests/dynamic_map/insert_or_assign_test.cpp:108` asserts this | `KeyInOneSubmap`, `IsGrowingMap` |
| :156, :185, :190, :265, Insert fills the old submap with chunks of `min(remaining, activeRoom)` and makes a new one when it is full | `EnsureActiveRoom` makes room for the whole batch first (:135, :198); the loop has one iteration, and the old submap's room stays unused | `OneChunk` |
| :293, no growth after Reserve; Reserve and EnsureActiveRoom share one algorithm | Reserve (:98) counts the room of all submaps, EnsureActiveRoom (:471) that of the last one | `OneChunk` |

An example of the last row: a map whose first submap has room for one element;
`Reserve(4)` appends a submap with room for three.  Three insertions fill the
second submap, the fourth appends a third, and the first one is still empty.
No property says that reserved room is used, since the code does not use it; what
the properties say is that such submaps do no harm: they are passed over by
lookups and by the deduplication, and the room that an insertion needs is there.

## 7. What is not modelled

* **HyperLogLog's real numbers**: the rounding of `double`, the logarithm of
  linear counting and so the accuracy of an estimate.  `SketchMath` has the
  control of the finaliser on whole numbers.
* **Tables of numbers**: the primes of `utility/prime.h` (20,000 lines of
  them; the search over them is in `ProbeMath` with a short table) and the
  bias tables of HyperLogLog (a thinned one and artificial ones are used).
* **Failures beyond those named above**: a wait that fails in the multimap,
  and with it the pending stream of `QueryScratch` (`static_multimap.h:123`) and
  the buffers freed with kernels queued (`static_multimap.h:356`); failed
  launches and waits of BloomFilter, and its destruction with kernels queued; a second
  failing wait in the handler of RoaringBitmap's constructor; in the calls of
  StaticMap and StaticSet, two failing steps of one call and a failing copy of
  the tombstone.
* **Calls that throw or return before they touch anything**: null pointers,
  incompatible arguments, batches whose size overflows a counter.
* **Details of single operations that no property tells apart**:
  `RoaringContainsContainer` reads `computedOffsets[index]` before it knows
  whether it needs it (`roaring_bitmap_ref.h:100`, past the array's four
  entries for most indices) and then drops the value; the model reads it where
  the value is used.  `InsertAndFind` checks `values` only for null
  (`open_addressing_impl.h:183`), and so does the model; the output pointers are
  taken to be valid.  The overflow test of `RetrieveCacheLimit`
  (`static_multimap.h:70`) is left out, its other limits are there.  The four
  atomic ORs of a block in the BloomFilter's packed kernel
  (`bloom_filter/kernels.h:172`) are one step: they commute, and nothing reads
  the filter before the kernel has ended.
* **Several host threads that share a container**, whose counters and flags
  would be mixed up, and for BloomFilter several streams; the headers do not
  promise this.
* **Moved-from containers** other than filters, sketches and Roaring bitmaps.
* **Code that nothing calls**: `Less`, `MergeSimt` and `Merge` of the
  multimap, the back-to-back compare-and-swap.
* **Sizes near 2^32**: capacities that do not fit the kernels' `uint32_t
  tableSize`, and the loop index of the open-addressing kernels, which wraps
  around (`detail/open_addressing/kernels.h:70`).
* **Misuse**: batches that contain a reserved key, beyond the actions' having a
  branch for them; insertions that race with queries of the same multiset,
  multimap, filter or sketch, which the headers leave to the caller.
* **Memory orderings** in which other threads see a thread's stores in another
  order than it made them, and warp scheduling.
* `pair`, traits and launch utilities are types and compile-time dispatch; the
  tests and benchmarks were read as documentation.
