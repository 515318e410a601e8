------------------------------ MODULE MCSketches ------------------------------
(***************************************************************************)
(* BloomFilter and HyperLogLog, which share no state: a behaviour is one   *)
(* of filters or one of sketches, chosen at the start.  Filters stay as    *)
(* constructed when they are not chosen, and the variables of a sketch are *)
(* not used.                                                               *)
(***************************************************************************)
EXTENDS BloomFilter, TLC

(* An instance of BloomFilter: two filters of up to four blocks of two words,  *)
(* keys that collide in a block, in a bucket, and nowhere, and one (kc) that   *)
(* is found wherever ka and kb have been added.                                *)
CONSTANTS ka, kb, kc, kd, ke, F, G

\* Upper halves 0, 1, 1, 2, 5: blocks 0, 0, 0, 1, 2 of four.
Hashes == (ka :> 2) @@ (kb :> 14) @@ (kc :> 9) @@ (kd :> 22) @@ (ke :> 42)
OddSalts == <<3, 7>>

Call(op, f) == [op |-> op, f |-> f, from |-> f, keys |-> <<>>, sel |-> <<>>]
Batch(op, f, keys, sel) == [Call(op, f) EXCEPT !.keys = keys, !.sel = sel]
All(op, f, keys) == Batch(op, f, keys, [i \in DOMAIN keys |-> TRUE])

HostCalls ==
    {All("add", F, keys) : keys \in {<<ka, kb, kd>>, <<ka, ke, kb>>, <<kd, ka>>}}
    \cup {Batch("add if", F, <<ka, kb, kd>>, <<TRUE, FALSE, TRUE>>),
          Call("clear", F), All("contains", F, <<ka, kc, ke>>),
          Batch("contains if", F, <<kc, ke>>, <<TRUE, FALSE>>), All("data", F, <<ke>>)}
    \cup {All("add", G, <<ke>>), [Call("merge", F) EXCEPT !.from = G],
          [Call("intersect", F) EXCEPT !.from = G], [Call("move", G) EXCEPT !.from = F]}
LayoutsChecked == {"dense", "sparse", "compact", "routed", "one", "pair", "word", "conditional"}

CONSTANTS h1, h2

ASSUME PolicyAssumption == PolicyOK
\* What BloomFilter_proofs assumes of the instance.
ASSUME CallsAssumption == CallsOK /\ WorkersOK /\ HashesOK

VARIABLES which,
    precision, alive, words, knownEmpty, call, sketchQueue, step, at, lane, private,
    seeds, histogram, must, may, failures

Sketch == {h1, h2}
TileKeysChecked == [p \in 14 .. 18 |-> IF p \in {14, 16} THEN 2 ELSE 1]
SmallFromChecked == [p \in 14 .. 18 |-> IF p = 14 THEN 2 ELSE 3]

\* Two keys of one word, two of one register, and some others; batches for
\* every path: one key, a small one, a large one, one that is split.
Insertions == {<<49, 22, 10>>, <<9, 22, 48, 6, 2, 49, 10, 22>>}

\* Eight registers, two to a word, and eight-bit hashes.
Sketched == INSTANCE HyperLogLog
    WITH queue <- sketchQueue, local <- private, counts <- histogram, workspace <- seeds,
         HalfBits <- 4, Prime1 <- 177, Prime2 <- 79, Prime3 <- 57, Prime4 <- 99,
         Prime5 <- 197, Batches <- Insertions, Precisions <- 14 .. 18,
         Log2Registers <- 3, PerWord <- 2, OddPack <- 3, FieldBits <- 4,
         AddCores <- 2, Threads <- 1, Lanes <- 2, TileKeys <- TileKeysChecked,
         SmallFrom <- SmallFromChecked, LargeFrom <- 4, BatchLimit <- 7, BatchSplit <- 6,
         Boundaries <- <<2, 6>>, ReduceCap <- 1, FusedCap <- 6, MaxFailures <- 1

sketchVars == <<precision, alive, words, knownEmpty, call, sketchQueue, step, at, lane,
                private, seeds, histogram, must, may, failures>>

InitOfAny ==
    \/ /\ which = "filters" /\ Init
       /\ precision = "" /\ alive = "" /\ words = "" /\ knownEmpty = "" /\ call = ""
       /\ sketchQueue = "" /\ step = "" /\ at = "" /\ lane = "" /\ private = "" /\ seeds = ""
       /\ histogram = "" /\ must = "" /\ may = "" /\ failures = ""
    \/ which = "sketches" /\ Sketched!Init /\ Init /\ layout = "dense"

NextOfAny ==
    /\ UNCHANGED which
    /\ \/ which = "filters" /\ Next /\ UNCHANGED sketchVars
       \/ which = "sketches" /\ Sketched!Next /\ UNCHANGED vars

AnySketch == InitOfAny /\ [][NextOfAny]_<<which, vars, sketchVars>>

Sketches == which = "sketches"

\* See HyperLogLog: types, the registers, their growth, and the histogram of an
\* estimate.
RegistersAreExact ==
    Sketches => /\ Sketched!TypeOK /\ Sketched!RegistersAreExact
                /\ Sketched!KnownEmptyIsEmpty /\ Sketched!HistogramIsExact
RegistersOnlyGrow == [][Sketches => Sketched!NoneDecreases]_sketchVars

Symmetry == Permutations(Sketch)
================================================================================
