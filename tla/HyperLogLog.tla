----------------------------- MODULE HyperLogLog -----------------------------
(***************************************************************************)
(* HyperLogLog (hyperloglog.h, hyperloglog_ref.h, detail/hyperloglog): a   *)
(* sketch of registers, several of which share a 32-bit word, and the      *)
(* kernels that raise them.  A call of the host launches kernels on a      *)
(* stream, which runs them one after the other, and waits for the stream.  *)
(* Which kernels an insertion launches depends on the precision, on the    *)
(* number of keys and on whether the sketch is known to be empty:          *)
(*                                                                         *)
(*   direct   every thread raises registers of the sketch by               *)
(*            compare-and-swap of a word;                                  *)
(*   private  every core collects its keys in a sketch of its own, in its  *)
(*            unified buffer, with another packing, and writes it to the   *)
(*            workspace; a second kernel merges the workspace into the     *)
(*            sketch.  For precisions 15 and 17 a large insertion does it  *)
(*            in stages, which begin with what earlier stages found;       *)
(*   fused    precision 16 does all the stages in one kernel, whose cores  *)
(*            meet at SyncAll.                                             *)
(*                                                                         *)
(* The hash of a key is that of HashFunctions, at a smaller width; the     *)
(* direct path takes register and rank from the 64-bit word, the others    *)
(* from its halves.  The thresholds of the code are constants.  A call may *)
(* fail where the host waits: then the kernels not yet executed, or half   *)
(* of one, are lost.  Calls on a sketch are serialised by the caller, as   *)
(* the header demands.                                                     *)
(***************************************************************************)
EXTENDS HashFunctions, FiniteSets, FiniteSetsExt, SequencesExt

CONSTANTS
    Sketch,         \* the objects of the program
    Batches,        \* the sequences of keys that are added
    Precisions,     \* a subset of 14 .. 18; 13 behaves as 14
    Log2Registers,  \* the number of index bits the model works with
    PerWord,        \* registers in a word of the sketch (4 in the code)
    OddPack,        \* ranks in a word of a private sketch at precision 18 (5)
    FieldBits,      \* bits of a register within a word (8)
    AddCores, Cores, \* addCores_, and cores_, which is at most addCores_
    Threads, Lanes, \* threads of a block: 256, and 1024 where it has its own sketch
    TileKeys,       \* [Precisions -> Nat]: keys in a tile
    SmallFrom,      \* [Precisions -> Nat]: smallThreshold
    LargeFrom,      \* 1 << 20
    BatchLimit, BatchSplit, \* 0x7fffffff and 1 << 30
    Boundaries,     \* the two stage boundaries, 1 << 20 and 8 << 20
    ReduceCap,      \* most words of a tile of the reduction
    FusedCap,       \* words that a tile of the fused reduction has for all cores
    MaxFailures     \* bound: waits that fail

VARIABLES
    precision,  \* precision_, of every sketch (Merge demands equal ones)
    alive,      \* the sketches that own words_
    words,      \* words_, as registers
    knownEmpty, \* knownEmpty_
    call,       \* the call of the host in progress, or Idle
    queue,      \* the kernels launched and not yet complete; the first runs
    step,       \* [core -> how far it is in the kernel]
    at,         \* [core -> the first key of its next tile]
    lane,       \* [core -> [lane -> its keys, and the word it observed]]
    local,      \* the private sketches in the unified buffers
    workspace,  \* addWorkspace_, of the sketch of the call
    counts,     \* histogram_: [core -> [rank -> registers]]
    must, may,  \* ghosts: the keys surely and possibly added, per sketch
    failures    \* the waits that have failed

host == <<precision, alive, knownEmpty, call, must, may, failures>>
vars == <<host, words, queue, step, at, lane, local, workspace, counts>>

-----------------------------------------------------------------------------
(* Registers, ranks and words. *)

Register == 0 .. 2 ^ Log2Registers - 1
Word == 0 .. ((2 ^ Log2Registers) \div PerWord) - 1
Core == 0 .. AddCores - 1
Lane == 0 .. Lanes - 1
MaxRank == (FullBits + 1) - Log2Registers
Rank == 0 .. MaxRank

Keys == UNION {ToSet(keys) : keys \in Batches}

Zero == [r \in Register |-> 0]

\* Memory nobody has written yet: the content that a maximum would show.
Junk == [r \in Register |-> MaxRank]

CeilDiv(a, b) == (a + b - 1) \div b

\* __clz of a number of that many bits.
Clz(x, bits) == Cardinality({i \in 0 .. bits - 1 : x < 2 ^ i})

\* HyperLogLogRef::Add: register and rank from the 64-bit hash.
IndexOf(key) == Hash8(key, 0) \div 2 ^ (FullBits - Log2Registers)

RankOf(key) ==
    LET tail == ((Hash8(key, 0) * 2 ^ Log2Registers) % Full) + 2 ^ (Log2Registers - 1)
    IN  Clz(tail, FullBits) + 1

\* UpdateLocal: register and rank from the halves of the hash.
LocalIndexOf(key) ==
    FinalHashHigh(HashKeyBeforeFinalMultiply(key, 8))
        \div 2 ^ (HalfBits - Log2Registers)

\* RankFromFinalHashLow.
RankFromFinalHashLow(state, hashHigh) ==
    LET low == FinalHashLow(state, hashHigh)
    IN  IF low = 0
        THEN (FullBits + 1) - Log2Registers
        ELSE ((HalfBits + 1) - Log2Registers) + Clz(low, HalfBits)

LocalRankOf(key) ==
    LET state == HashKeyBeforeFinalMultiply(key, 8)
        hashHigh == FinalHashHigh(state)
        hi == hashHigh % 2 ^ (HalfBits - Log2Registers)
    IN  IF hi = 0
        THEN RankFromFinalHashLow(state, hashHigh)
        ELSE (Clz(hi, HalfBits) + 1) - Log2Registers

(***************************************************************************)
(* MaxPackedRanks(a, b) at a register: one subtraction for a whole word,   *)
(* in which the high bit of every byte of a, set beforehand, tells which   *)
(* of the two bytes is the larger.                                         *)
(***************************************************************************)
PackedValue(f, w) ==
    MapThenSumSet(LAMBDA i : f[(w * PerWord) + i] * 2 ^ (FieldBits * i), 0 .. PerWord - 1)

MaxPackedRanks(a, b) ==
    LET high == 2 ^ (FieldBits - 1)
        marked == [r \in Register |-> (a[r] % high) + high]
        difference == [w \in Word |-> (PackedValue(marked, w) - PackedValue(b, w))
                                        % 2 ^ (FieldBits * PerWord)]
        first(r) == (difference[r \div PerWord]
                       \div 2 ^ ((FieldBits * (r % PerWord)) + (FieldBits - 1))) % 2 = 1
    IN  [r \in Register |-> IF first(r) THEN a[r] ELSE b[r]]

\* The registers of some words of f, the others of g.
Patch(g, f, ws) == [r \in Register |-> IF r \div PerWord \in ws THEN f[r] ELSE g[r]]

-----------------------------------------------------------------------------
(* Launches.  A kernel is a record; the first of the queue is running. *)

\* `seeded`: the private sketches begin as the sketch; `sketches`: how many
\* private sketches a reduction merges.
Kernel(name, cores, keys, seeded, sketches) ==
    [name |-> name, cores |-> cores, keys |-> keys, seeded |-> seeded,
     sketches |-> sketches]

Plain(name) == Kernel(name, Cores, << >>, FALSE, 0)

Running == queue[1]
Busy(name) == queue # << >> /\ Running.name = name

\* LaunchPrivate's choice of a packing; a sketch in global memory has bytes.
Direct == Running.name = "direct"
Pack == IF Direct THEN PerWord
        ELSE CASE precision <= 15 -> 1 [] precision <= 17 -> PerWord [] OTHER -> OddPack

\* LaunchPrivate, then LaunchReduce.
PrivateThenReduce(keys, cores, seeded) ==
    <<Kernel("private", cores, keys, seeded, 0), Kernel("reduce", Cores, << >>, FALSE, cores)>>

\* LaunchLargeAdd's and P16StageEnd's end of a stage.
StageAlignment == AddCores * TileKeys[precision]
StageEnd(count, boundary) ==
    LET aligned == (boundary \div StageAlignment) * StageAlignment
    IN  Min({count \div 2, Max({StageAlignment, aligned})})

(***************************************************************************)
(* LaunchLargeAdd: precision 16 is fused, 15 and 17 go in stages that the  *)
(* sketch seeds after the first, the others in one.                        *)
(***************************************************************************)
LaunchLargeAdd(keys) ==
    LET n == Len(keys)
        part(from, to) == PrivateThenReduce(SubSeq(keys, from + 1, to), AddCores, from # 0)
        end1 == StageEnd(n, Boundaries[1])
        end2 == StageEnd(n, Boundaries[2])
        second == IF end2 = end1 THEN << >> ELSE part(end1, end2)
    IN  CASE precision = 16 -> <<Kernel("fused", AddCores, keys, FALSE, AddCores)>>
          [] precision \in {15, 17} -> part(0, end1) \o second \o part(end2, n)
          [] OTHER -> PrivateThenReduce(keys, AddCores, FALSE)

\* LaunchSmallAdd, on as many cores as the keys fill.
LaunchSmallAdd(keys) ==
    PrivateThenReduce(keys, Min({AddCores, CeilDiv(Len(keys), TileKeys[precision])}), FALSE)

\* A batch of Add's loop: large batches go to private sketches, others straight
\* to the registers.
LaunchBatch(keys) ==
    IF Len(keys) >= LargeFrom
    THEN LaunchLargeAdd(keys)
    ELSE <<Kernel("direct", Min({AddCores, CeilDiv(Len(keys), Threads)}), keys, FALSE, 0)>>

\* Add's loop: what 32-bit offsets cannot address goes in parts.
LaunchBatches[keys \in Seq(Nat)] ==
    IF keys = << >>
    THEN << >>
    ELSE LET n == Len(keys)
             batch == IF n <= BatchLimit THEN n ELSE BatchSplit
         IN  LaunchBatch(SubSeq(keys, 1, batch)) \o LaunchBatches[SubSeq(keys, batch + 1, n)]

-----------------------------------------------------------------------------
(* The host. *)

Idle == [op |-> "idle"]
Asleep == [todo |-> << >>, seen |-> << >>]

\* Every core at the start of a kernel.
Fresh ==
    /\ step' = [c \in Core |-> 0]
    /\ at' = [c \in Core |-> 0]
    /\ lane' = [c \in Core |-> [l \in Lane |-> Asleep]]
    /\ local' = [c \in Core |-> Junk]

\* Nothing that a call left in its buffers counts for the next one: a read of
\* it would be a read of Junk.
Forget ==
    /\ workspace' = [c \in Core |-> Junk]
    /\ counts' = [c \in Core |-> [k \in Rank |-> 0]]

Begin(record, kernels) ==
    /\ call = Idle
    /\ call' = record
    /\ queue' = kernels
    /\ UNCHANGED <<precision, step, at, lane, local, workspace, counts, failures>>

\* Clear: the sketch counts as unknown until the kernel is known to be done.
Clear(s) ==
    /\ s \in alive
    /\ Begin([op |-> "clear", s |-> s], <<Plain("clear")>>)
    /\ knownEmpty' = [knownEmpty EXCEPT ![s] = FALSE]
    /\ must' = [must EXCEPT ![s] = {}]
    /\ UNCHANGED <<alive, words, may>>

\* The constructor: the allocation, and Clear.
Create(s) ==
    /\ s \notin alive
    /\ Begin([op |-> "create", s |-> s], <<Plain("clear")>>)
    /\ alive' = alive \cup {s}
    /\ words' = [words EXCEPT ![s] = Junk]
    /\ knownEmpty' = [knownEmpty EXCEPT ![s] = FALSE]
    /\ must' = [must EXCEPT ![s] = {}]
    /\ UNCHANGED may

\* Add: the small path is for a sketch known to be empty only.
Add(s, keys) ==
    /\ s \in alive
    /\ Begin([op |-> "add", s |-> s, keys |-> ToSet(keys)],
             IF /\ knownEmpty[s]
                /\ Len(keys) >= SmallFrom[precision]
                /\ Len(keys) < LargeFrom
             THEN LaunchSmallAdd(keys)
             ELSE LaunchBatches[keys])
    /\ knownEmpty' = [knownEmpty EXCEPT ![s] = @ /\ keys = << >>]
    /\ may' = [may EXCEPT ![s] = @ \cup ToSet(keys)]
    /\ UNCHANGED <<alive, words, must>>

\* Merge: of a sketch with itself there is nothing to do.
Merge(s, other) ==
    /\ {s, other} \subseteq alive
    /\ Begin([op |-> "merge", s |-> s, other |-> other],
             IF s = other THEN << >> ELSE <<Plain("merge")>>)
    /\ knownEmpty' = [knownEmpty EXCEPT ![s] = @ /\ knownEmpty[other]]
    /\ may' = [may EXCEPT ![s] = @ \cup may[other]]
    /\ UNCHANGED <<alive, words, must>>

Estimate(s) ==
    /\ s \in alive
    /\ Begin([op |-> "estimate", s |-> s], <<Plain("histogram")>>)
    /\ UNCHANGED <<alive, words, knownEmpty, must, may>>

\* The move assignment: the target releases its own sketch, and takes over the
\* words of the source, which is left without any.
Move(target, source) ==
    /\ target # source
    /\ source \in alive
    /\ call = Idle
    /\ alive' = (alive \cup {target}) \ {source}
    /\ words' = [words EXCEPT ![target] = words[source], ![source] = Zero]
    /\ knownEmpty' = [knownEmpty EXCEPT ![target] = knownEmpty[source], ![source] = FALSE]
    /\ must' = [must EXCEPT ![target] = must[source], ![source] = {}]
    /\ may' = [may EXCEPT ![target] = may[source], ![source] = {}]
    /\ UNCHANGED <<precision, call, queue, step, at, lane, local, workspace, counts, failures>>

\* The destructor.
Release(s) ==
    /\ s \in alive
    /\ call = Idle
    /\ alive' = alive \ {s}
    /\ words' = [words EXCEPT ![s] = Zero]
    /\ knownEmpty' = [knownEmpty EXCEPT ![s] = FALSE]
    /\ must' = [must EXCEPT ![s] = {}]
    /\ may' = [may EXCEPT ![s] = {}]
    /\ UNCHANGED <<precision, call, queue, step, at, lane, local, workspace, counts, failures>>

\* The wait succeeds once the stream is empty.
Return ==
    /\ call # Idle
    /\ queue = << >>
    /\ call' = Idle
    /\ knownEmpty' = IF call.op \in {"clear", "create"}
                     THEN [knownEmpty EXCEPT ![call.s] = TRUE]
                     ELSE knownEmpty
    /\ must' = CASE call.op = "add" -> [must EXCEPT ![call.s] = @ \cup call.keys]
                 [] call.op = "merge" -> [must EXCEPT ![call.s] = @ \cup must[call.other]]
                 [] OTHER -> must
    /\ may' = IF call.op \in {"clear", "create"} THEN [may EXCEPT ![call.s] = {}] ELSE may
    /\ Forget
    /\ UNCHANGED <<precision, alive, words, queue, step, at, lane, local, failures>>

\* The wait fails: the caller sees an exception, and nothing tells how much of
\* the kernels was executed.  A constructor releases the sketch.
SyncFails ==
    /\ call # Idle
    /\ failures < MaxFailures
    /\ failures' = failures + 1
    /\ call' = Idle
    /\ queue' = << >>
    /\ Fresh
    /\ Forget
    /\ IF call.op = "create"
       THEN /\ alive' = alive \ {call.s}
            /\ words' = [words EXCEPT ![call.s] = Zero]
            /\ may' = [may EXCEPT ![call.s] = {}]
       ELSE UNCHANGED <<alive, words, may>>
    /\ UNCHANGED <<precision, knownEmpty, must>>

-----------------------------------------------------------------------------
(* Kernels: what a core or one of its threads does. *)

\* Of the running kernel: the words a core's threads take, one each and then
\* every stride, and the keys that thread l of core c takes the same way, as
\* the register and the rank that the thread computes from each.
Stripe(c) == {w \in Word : (w \div Threads) % Running.cores = c}

DirectPlace == [key \in Keys |-> <<IndexOf(key), RankOf(key)>>]
LocalPlace == [key \in Keys |-> <<LocalIndexOf(key), LocalRankOf(key)>>]
Place(key) == IF Direct THEN DirectPlace[key] ELSE LocalPlace[key]

Strided(from, to, stride) ==
    [i \in 1 .. Max({0, CeilDiv(to - from, stride)}) |->
        Place(Running.keys[from + ((i - 1) * stride) + 1])]

GridShare(c, l, threads) ==
    IF l < threads
    THEN Strided((c * threads) + l, Len(Running.keys), Running.cores * threads)
    ELSE << >>

Advance(c) == step' = [step EXCEPT ![c] = @ + 1]
Resting(c) == \A l \in Lane : lane[c][l] = Asleep
Active(c) == queue # << >> /\ c < Running.cores

\* ClearSimt.
ClearWords(c) ==
    /\ Busy("clear") /\ Active(c) /\ step[c] = 0
    /\ words' = [words EXCEPT ![call.s] = Patch(@, Zero, Stripe(c))]
    /\ Advance(c)
    /\ UNCHANGED <<host, queue, at, lane, local, workspace, counts>>

\* MergeSimt.
MergeWords(c) ==
    /\ Busy("merge") /\ Active(c) /\ step[c] = 0
    /\ words' = [words EXCEPT
           ![call.s] = Patch(@, MaxPackedRanks(@, words[call.other]), Stripe(c))]
    /\ Advance(c)
    /\ UNCHANGED <<host, queue, at, lane, local, workspace, counts>>

\* HistogramSimt: a block counts the registers of its words by rank.
CountRanks(c) ==
    /\ Busy("histogram") /\ Active(c) /\ step[c] = 0
    /\ counts' = [counts EXCEPT ![c] = [k \in Rank |->
           Cardinality({r \in Register :
               r \div PerWord \in Stripe(c) /\ words[call.s][r] = k})]]
    /\ Advance(c)
    /\ UNCHANGED <<host, words, queue, at, lane, local, workspace>>

\* AddSimt begins: every thread has its share of the keys.
StartDirect(c) ==
    /\ Busy("direct") /\ Active(c) /\ step[c] = 0
    /\ lane' = [lane EXCEPT ![c] = [l \in Lane |->
           [todo |-> GridShare(c, l, Threads), seen |-> << >>]]]
    /\ Advance(c)
    /\ UNCHANGED <<host, words, queue, at, local, workspace, counts>>

\* The keys from <<begin>> to <<end>> that TiledAddKernel and FusedP16AddKernel
\* give to core c, out of those from `from` to `to`.
ChunkOf(c, from, to) ==
    LET tile == TileKeys[precision]
        chunk == CeilDiv(to - from, Running.cores * tile) * tile
        begin == from + (c * chunk)
    IN  <<begin, Min({begin + chunk, to})>>

\* The stages of FusedP16AddKernel: step[c] is 3 * stage + 1 while core c adds,
\* + 2 once its sketch is in the workspace, + 3 once it has reduced.
StageBounds ==
    LET n == Len(Running.keys)
    IN  <<0, StageEnd(n, Boundaries[1]), StageEnd(n, Boundaries[2]), n>>

FusedChunk(c, stage) == ChunkOf(c, StageBounds[stage + 1], StageBounds[stage + 2])
Stage(c) == (step[c] - 1) \div 3
Adding(c) ==
    /\ Active(c)
    /\ \/ Busy("private") /\ step[c] = 1
       \/ Busy("fused") /\ step[c] % 3 = 1

ChunkEnd(c) ==
    CASE Busy("fused") -> FusedChunk(c, Stage(c))[2]
      [] precision = 18 -> Len(Running.keys)
      [] OTHER -> ChunkOf(c, 0, Len(Running.keys))[2]

\* InitLocalSimt, and InitLocalFromPackedSimt: the bytes of a word, lowest first.
InitLocal == Zero
InitLocalFromPacked(packed) ==
    [r \in Register |-> (PackedValue(packed, r \div PerWord) \div 2 ^ (FieldBits * (r % PerWord)))
                         % 2 ^ FieldBits]

\* PrepareTiledSketch: precision 15 unpacks the sketch it begins with, 16 and 17
\* copy it as it is.
TiledSketch ==
    IF ~ Running.seeded THEN InitLocal
    ELSE IF precision = 15 THEN InitLocalFromPacked(words[call.s]) ELSE words[call.s]

Prepare(c, sketch, first) ==
    /\ Active(c) /\ step[c] = 0
    /\ local' = [local EXCEPT ![c] = sketch]
    /\ at' = [at EXCEPT ![c] = first]
    /\ Advance(c)
    /\ UNCHANGED <<host, words, queue, lane, workspace, counts>>

\* The kernels with private sketches, each up to its first key.
PrivateAdd(c) == Busy("private") /\ precision = 18 /\ Prepare(c, InitLocal, 0)
TiledAdd(c) ==
    Busy("private") /\ precision # 18
    /\ Prepare(c, TiledSketch, ChunkOf(c, 0, Len(Running.keys))[1])
FusedAdd(c) == Busy("fused") /\ Prepare(c, InitLocal, FusedChunk(c, 0)[1])

Take(c, share, next) ==
    /\ Adding(c) /\ Resting(c) /\ at[c] < ChunkEnd(c)
    /\ lane' = [lane EXCEPT ![c] = [l \in Lane |-> [todo |-> share[l], seen |-> << >>]]]
    /\ at' = [at EXCEPT ![c] = next]
    /\ UNCHANGED <<host, words, queue, step, local, workspace, counts>>

\* PrivateAddSimt has no tiles: its threads stride the grid.
StrideGrid(c) ==
    /\ Busy("private") /\ precision = 18
    /\ Take(c, [l \in Lane |-> GridShare(c, l, Lanes)], ChunkEnd(c))

\* CopyTile: where the tile that begins at an offset ends.
TileEnd(offset, end) ==
    IF end - offset < TileKeys[precision] THEN end ELSE offset + TileKeys[precision]

\* AddTiles: the threads of the core take the next tile once all are done with
\* the one before.
NextTile(c) ==
    LET to == TileEnd(at[c], ChunkEnd(c)) IN
    /\ Busy("private") => precision # 18
    /\ Take(c, [l \in Lane |-> Strided(at[c] + l, to, Lanes)], to)

Added(c) == Adding(c) /\ Resting(c) /\ at[c] >= ChunkEnd(c)

\* WriteLocalSimt, and FusedP16AddKernel's copy to the workspace.
WriteLocal(c) ==
    /\ Added(c)
    /\ workspace' = [workspace EXCEPT ![c] = local[c]]
    /\ Advance(c)
    /\ UNCHANGED <<host, words, queue, at, lane, local, counts>>

\* The registers that the thread updates, and those of one word.
File(c) == IF Direct THEN words[call.s] ELSE local[c]
WordOf(f, r) == [x \in {y \in Register : y \div Pack = r \div Pack} |-> f[x]]

Write(c, r, rank) ==
    IF Direct
    THEN words' = [words EXCEPT ![call.s][r] = rank] /\ UNCHANGED local
    ELSE local' = [local EXCEPT ![c][r] = rank] /\ UNCHANGED words

Drop(c, l) == lane' = [lane EXCEPT ![c][l] = [todo |-> Tail(@.todo), seen |-> << >>]]
Note(c, l, word) == lane' = [lane EXCEPT ![c][l].seen = word]

\* The first load of Ref::Add and UpdateLocal: a rank that is not larger is
\* dropped.
Observe(c, l) ==
    /\ lane[c][l].todo # << >>
    /\ lane[c][l].seen = << >>
    /\ LET r == Head(lane[c][l].todo)[1]
       IN  IF File(c)[r] >= Head(lane[c][l].todo)[2]
           THEN Drop(c, l)
           ELSE Note(c, l, WordOf(File(c), r))
    /\ UNCHANGED <<host, words, queue, step, at, local, workspace, counts>>

\* (Variant with a bug: a plain store of the word, made from the observed one.)
StoreWord(c, l) ==
    /\ lane[c][l].seen # << >>
    /\ LET r == Head(lane[c][l].todo)[1]
           seen == lane[c][l].seen
           file == [x \in Register |->
                       IF x = r THEN Head(lane[c][l].todo)[2]
                       ELSE IF x \in DOMAIN seen THEN seen[x] ELSE File(c)[x]]
       IN  IF Direct
           THEN words' = [words EXCEPT ![call.s] = file] /\ UNCHANGED local
           ELSE local' = [local EXCEPT ![c] = file] /\ UNCHANGED words
    /\ Drop(c, l)
    /\ UNCHANGED <<host, queue, step, at, workspace, counts>>

\* The compare-and-swap of a word: it fails when any register of the word has
\* changed, and then tells the word.  A word of one rank has an atomic maximum.
Raise(c, l) ==
    /\ lane[c][l].seen # << >>
    /\ LET r == Head(lane[c][l].todo)[1]
           rank == Head(lane[c][l].todo)[2]
           word == WordOf(File(c), r)
       IN  CASE Pack = 1 ->
                  /\ Write(c, r, Max({word[r], rank}))
                  /\ Drop(c, l)
             [] Pack # 1 /\ word = lane[c][l].seen ->
                  /\ Write(c, r, rank)
                  /\ Drop(c, l)
             [] OTHER ->
                  /\ IF word[r] >= rank THEN Drop(c, l) ELSE Note(c, l, word)
                  /\ UNCHANGED <<words, local>>
    /\ UNCHANGED <<host, queue, step, at, workspace, counts>>

\* (Variant with a bug: what the sketch already holds is left out.)
MergedAfresh(n) ==
    FoldLeft(LAMBDA f, c : MaxPackedRanks(f, workspace[c]), Zero,
             [i \in 1 .. n |-> i - 1])

\* The largest of the sketch and the first n private ones.
Merged(n) ==
    FoldLeft(LAMBDA f, c : MaxPackedRanks(f, workspace[c]),
             words[call.s], [i \in 1 .. n |-> i - 1])

\* LaunchReduce's tile, and ReduceSketchesKernel: a block takes every
\* Running.cores-th tile.
ReduceTiles(c) ==
    /\ Busy("reduce") /\ Active(c) /\ step[c] = 0
    /\ LET tile == Min({CeilDiv(Cardinality(Word), Cores), ReduceCap})
           mine == {w \in Word : (w \div tile) % Running.cores = c}
       IN  words' = [words EXCEPT ![call.s] = Patch(@, Merged(Running.sketches), mine)]
    /\ Advance(c)
    /\ UNCHANGED <<host, queue, at, lane, local, workspace, counts>>

\* SyncAll: no core passes before all have come this far.
SyncAll(reached) == \A d \in Core : step[d] >= reached

\* ReduceP16Sketches: a core reduces one interval, if there is one for it.
FusedReduce(c) ==
    /\ Busy("fused") /\ step[c] > 0 /\ step[c] % 3 = 2
    /\ SyncAll(step[c])
    /\ LET tile == FusedCap \div Running.cores
           mine == IF tile = 0 THEN {} ELSE {w \in Word : w \div tile = c}
           result == [r \in Register |->
                         Max({words[call.s][r]} \cup {workspace[d][r] : d \in Core})]
       IN  /\ words' = [words EXCEPT ![call.s] = Patch(@, result, mine)]
           /\ local' = [local EXCEPT ![c] = Patch(@, result, mine)]
    /\ Advance(c)
    /\ UNCHANGED <<host, queue, at, lane, workspace, counts>>

\* ReloadP16Sketch: the next stage begins with what all cores found.
FusedReload(c) ==
    /\ Busy("fused") /\ step[c] \in {3, 6}
    /\ SyncAll(step[c])
    /\ local' = [local EXCEPT ![c] = words[call.s]]
    /\ at' = [at EXCEPT ![c] = FusedChunk(c, step[c] \div 3)[1]]
    /\ Advance(c)
    /\ UNCHANGED <<host, words, queue, lane, workspace, counts>>

\* A kernel is complete when all its cores are.
LastStep ==
    CASE Busy("private") -> 2 [] Busy("fused") -> 9 [] OTHER -> 1

KernelDone ==
    /\ queue # << >>
    /\ \A c \in Core : Active(c) => step[c] = LastStep /\ Resting(c)
    /\ queue' = Tail(queue)
    /\ Fresh
    /\ UNCHANGED <<host, words, workspace, counts>>

-----------------------------------------------------------------------------
Init ==
    /\ precision \in Precisions
    /\ alive = {}
    /\ words = [s \in Sketch |-> Zero]
    /\ knownEmpty = [s \in Sketch |-> FALSE]
    /\ call = Idle
    /\ queue = << >>
    /\ step = [c \in Core |-> 0]
    /\ at = [c \in Core |-> 0]
    /\ lane = [c \in Core |-> [l \in Lane |-> Asleep]]
    /\ local = [c \in Core |-> Junk]
    /\ workspace = [c \in Core |-> Junk]
    /\ counts = [c \in Core |-> [k \in Rank |-> 0]]
    /\ must = [s \in Sketch |-> {}]
    /\ may = [s \in Sketch |-> {}]
    /\ failures = 0

Host ==
    \/ \E s \in Sketch : Create(s) \/ Clear(s) \/ Estimate(s) \/ Release(s)
    \/ \E s \in Sketch, keys \in Batches : Add(s, keys)
    \/ \E s \in Sketch, t \in Sketch : Merge(s, t) \/ Move(s, t)
    \/ Return
    \/ SyncFails

Device ==
    \/ \E c \in Core :
          \/ ClearWords(c) \/ MergeWords(c) \/ CountRanks(c)
          \/ StartDirect(c) \/ PrivateAdd(c) \/ TiledAdd(c) \/ FusedAdd(c)
          \/ StrideGrid(c) \/ NextTile(c) \/ WriteLocal(c)
          \/ ReduceTiles(c) \/ FusedReduce(c) \/ FusedReload(c)
    \/ \E c \in Core, l \in Lane : Observe(c, l) \/ Raise(c, l)
    \/ KernelDone

Next == Host \/ Device

Spec == Init /\ [][Next]_vars

-----------------------------------------------------------------------------
(* Properties. *)

TypeOK ==
    /\ alive \subseteq Sketch
    /\ words \in [Sketch -> [Register -> Rank]]
    /\ knownEmpty \in [Sketch -> BOOLEAN]
    /\ \A c \in Core :
          /\ local[c] \in [Register -> Rank]
          /\ workspace[c] \in [Register -> Rank]
    /\ must \in [Sketch -> SUBSET Keys]
    /\ may \in [Sketch -> SUBSET Keys]

\* What HyperLogLog is: the first bits of a key's hash choose a register, which
\* holds the largest position, over its keys, of the first one after them.
FirstOne(key) ==
    LET rest == Hash8(key, 0) % 2 ^ (FullBits - Log2Registers)
        width == FullBits - Log2Registers
    IN  Min({n \in 1 .. width : rest >= 2 ^ (width - n)} \cup {width + 1})

Reference == [key \in Keys |-> <<Hash8(key, 0) \div 2 ^ (FullBits - Log2Registers),
                                FirstOne(key)>>]

Sup(keys, r) ==
    Max({0} \cup {Reference[key][2] : key \in {k \in keys : Reference[k][1] = r}})

\* Between two calls a sketch is that of the keys added since it was cleared,
\* its own and those of the sketches merged into it, along whatever path of
\* kernels they came; if calls failed, it is between that without their keys
\* and that with them.
RegistersAreExact ==
    call = Idle =>
        \A s \in alive : \A r \in Register :
            /\ words[s][r] >= Sup(must[s], r)
            /\ words[s][r] <= Sup(may[s], r)

\* A sketch that the host takes for empty is empty on the device, even after a
\* call that failed.
KnownEmptyIsEmpty ==
    \A s \in alive : knownEmpty[s] => words[s] = Zero

\* hyperloglog/kernels.h:158 relies on it, where a load of one byte rejects a
\* key: while a kernel runs, no register of a sketch that is being added to or
\* merged into decreases, nor does one of a private sketch once it is prepared.
NoneDecreases ==
    /\ call # Idle /\ call.op \in {"add", "merge"} =>
         \A s \in Sketch, r \in Register : words'[s][r] >= words[s][r]
    /\ queue' = queue =>
         \A c \in Core : step[c] > 0 =>
             \A r \in Register : local'[c][r] >= local[c][r]

RegistersOnlyGrow == [][NoneDecreases]_vars

\* Estimate adds up, over the cores, how many registers have each rank: every
\* register of the sketch is counted, and once.
HistogramIsExact ==
    call # Idle /\ call.op = "estimate" /\ queue = << >> =>
        \A k \in Rank :
            MapThenSumSet(LAMBDA c : counts[c][k], Core)
                = Cardinality({r \in Register : words[call.s][r] = k})
=============================================================================
