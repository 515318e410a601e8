----------------------------- MODULE MCArithmetic -----------------------------
(***************************************************************************)
(* The parts that stand alone: the walk of a probe, the tiling of Clear,   *)
(* the images of RoaringBitmap, the hash functions, the shares of a Bloom  *)
(* filter's addition, the slots of two bytes and the device memory of a    *)
(* DynamicMap.  A behaviour is one of a single part, chosen at the start   *)
(* among the Parts of the configuration; the variables of the others are   *)
(* not used, and those of the device memory (module DeviceMemory) stay as  *)
(* they are before the first allocation.                                   *)
(***************************************************************************)
EXTENDS DeviceMemory

CONSTANTS
    Parts,
    HostBits, DeviceBits, Primes, Requests, BucketSizes, Hashes,    \* of Probing
    ByteBits, SerialCookieNoRun, SerialCookie, NoOffsetThreshold, BinarySearchThreshold,
    r1, r2, s1, s2                                                  \* of RoaringImages

(* Instances of Probing: a 6-bit device type whose limit the largest tables  *)
(* reach, the first entries of the prime table (which skips 17) and          *)
(* hashes that give every residue of the smaller tables.                     *)
MCPrimes == <<2, 3, 5, 7, 11, 13, 19>>
MCBucketSizes == {1, 2, 3}
MCHashes == {0, 1, 2, 3, 4, 5, 19, 62, 63}
MCRequests == [linear |-> {0, 1, 2, 4, 5, 6, 17, 36, 61, 62},
               double |-> {0, 1, 2, 4, 5, 6, 17, 23, 36, 39, 57}]

VARIABLES which,
    phase, scheme, request, bucketSize, capacity, start, step, idx, visited,
    slot, slots, clearPhase, dirty, written, tile,
    image, object, allocations, queue, construction, found, queries, failures,
    sample,
    plan, worker, index, claimed, claims,
    narrowWords, narrowCall

Walks == which = "walks"
Clears == which = "clears"
Bitmaps == which = "bitmaps"
Samples == which = "samples"
Workspaces == which = "workspaces"
Narrows == which = "narrow"
Memories == which = "memory"

Walk == INSTANCE Probing
ASSUME ProbingAssumption == Walk!InputsOK /\ Walk!SizesFit

\* Clear: blocks of 2 elements, tiles of 1 to 6 blocks, by the key's size.
Slot(key, payload, same) == [key |-> key, payload |-> payload, sameSentinels |-> same]
SlotTypesChecked ==
    {Slot(1, 0, TRUE), Slot(2, 0, TRUE), Slot(1, 1, TRUE), Slot(2, 2, TRUE), Slot(2, 1, TRUE),
     Slot(1, 1, FALSE), Slot(8, 8, TRUE)}

Tiling == INSTANCE ClearTiling
    WITH capacity <- slots, phase <- clearPhase,
         Cores <- 3, UBSize <- 24, BLOCK_SIZE <- 2, BUFFER_NUM <- 2,
         Capacities <- 1 .. 75, SlotTypes <- SlotTypesChecked
ASSUME TilingAssumption == Tiling!PlatformOK /\ Tiling!TableOK

Written == INSTANCE RoaringImages
Roaring == INSTANCE RoaringBitmap
    WITH memory <- allocations, call <- construction,
         Images <- Written!ImagesChecked, Object <- {r1, r2}, Stream <- {s1, s2}, Threads <- 2,
         Bases <- {0, 1, 2}, Foreign <- {0, 3}, MetadataBytes <- 6, BucketBytes <- 5,
         Alignment <- 4, MaxQueries <- 1, MaxFailures <- 1
ASSUME ImagesAssumption == Roaring!ImagesOK

\* Words of eight bits, halves of four, and odd constants.
Hash == INSTANCE HashFunctions
    WITH HalfBits <- 4, Prime1 <- 177, Prime2 <- 79, Prime3 <- 57, Prime4 <- 99, Prime5 <- 197

\* HyperLogLog's tables for precision 13, every fifteenth entry; and tables of
\* nine entries whose gaps are the bits of their number, one or two times two.
Thinned == [p \in {13} |->
    [raw |-> <<5909, 7516, 9389, 11508, 13853, 16389, 19082, 21906, 24806, 27759, 30763, 33802,
               36833, 39898, 40717>>,
     bias |-> <<5908, 4444, 3245, 2292, 1565, 1029, 650, 402, 230, 111, 43, 10, -31, -38, -38>>]]
Patterned ==
    [n \in 0 .. 255 |->
        LET raw(i) == 20 + 2 * (i - 1)
                        + 2 * Cardinality({j \in 0 .. i - 2 : (n \div 2 ^ j) % 2 = 1})
        IN  [raw |-> [i \in 1 .. 9 |-> raw(i)], bias |-> [i \in 1 .. 9 |-> raw(i) - 5 * i]]]
Estimates == INSTANCE SketchMath
    WITH SizeBits <- 4, Points <- 6, Tables <- Thinned
Patterns == INSTANCE SketchMath
    WITH SizeBits <- 4, Points <- 3, Tables <- Patterned
ASSUME EstimateAssumption == Estimates!TablesOK /\ Patterns!TablesOK

\* Half-hashes of five bits, two threads to route and eight to apply.
Shape(bucketBits, packed, records, slotsOf, shift, tileOf, tiles, compact) ==
    [bucketBits |-> bucketBits, packed |-> packed, records |-> records, slots |-> slotsOf,
     shift |-> shift, tile |-> tileOf, tiles |-> tiles, compact |-> compact]
ShapesChecked ==
    {Shape(b, p, r, n, s, t, ts, c) : b \in 1 .. 3, p \in BOOLEAN, r \in {1, 3},
        n \in {1, 2}, s \in 1 .. 3, t \in 1 .. 4, ts \in 1 .. 2, c \in BOOLEAN}
Shares == INSTANCE BloomWorkspace
    WITH HashBits <- 5, RouteThreads <- 2, ApplyThreads <- 8, Lanes <- 2, CountersPerWord <- 2,
         PackedCounterWords <- 4, CountMask <- 3, MaxLocalWords <- 16, StencilKeys <- 2,
         Cores <- 1 .. 4, MaxKeys <- 31, Shapes <- ShapesChecked, Blocks <- 1 .. 3,
         Slots <- {1, 2}

\* The four layouts that are built, and what they reserve of local memory.
Shipped == INSTANCE BloomWorkspace
    WITH HashBits <- 32, RouteThreads <- 512, ApplyThreads <- 1024, Lanes <- 8,
         CountersPerWord <- 4, PackedCounterWords <- 8192, CountMask <- 127,
         MaxLocalWords <- 14336, StencilKeys <- 4, Cores <- 1 .. 72, MaxKeys <- 0,
         Shapes <- {}, Blocks <- {}, Slots <- {}
ASSUME ShippedAssumption ==
    \A layout \in {<<Shape(13, FALSE, 240, 95, 12, 128, 1, FALSE), 53248>>,
                   <<Shape(15, TRUE, 80, 20, 9, 256, 1, FALSE), 29696>>,
                   <<Shape(15, TRUE, 80, 5, 6, 1024, 2, FALSE), 57344>>,
                   <<Shape(15, TRUE, 80, 6, 6, 2048, 1, TRUE), 57344>>} :
        /\ Shipped!Compiles(layout[1])
        /\ Shipped!LaunchBytes(Shipped!LocalWords(layout[1])) = layout[2]
        /\ Shipped!LaunchBytes(Shipped!CounterWords(layout[1])) = 32768

\* Bytes of one bit: a slot holds -2 to 1, a word two slots.
TwoBytes == INSTANCE NarrowSlots
    WITH words <- narrowWords, call <- narrowCall,
         Threads <- {1, 2}, Words <- {0}, ByteBits <- 1, UsedKeys <- {-2, 0}, Empty <- -1
ASSUME NarrowAssumption == TwoBytes!KeysOK /\ TwoBytes!WidthOK

ASSUME MemoryAssumption == SizesOK

shareVars == <<plan, worker, index, claimed, claims>>
narrowVars == <<narrowWords, narrowCall>>
walkVars == <<phase, scheme, request, bucketSize, capacity, start, step, idx, visited>>
clearVars == <<slot, slots, clearPhase, dirty, written, tile>>
bitmapVars == <<image, object, allocations, queue, construction, found, queries, failures>>

NoWalk ==
    /\ phase = "" /\ scheme = "" /\ request = "" /\ bucketSize = "" /\ capacity = ""
    /\ start = "" /\ step = "" /\ idx = "" /\ visited = ""
NoClear ==
    /\ slot = "" /\ slots = "" /\ clearPhase = "" /\ dirty = "" /\ written = "" /\ tile = ""
NoBitmap ==
    /\ image = "" /\ object = "" /\ allocations = "" /\ queue = "" /\ construction = ""
    /\ found = "" /\ queries = "" /\ failures = ""
NoSample == sample = ""
NoShare == plan = "" /\ worker = "" /\ index = "" /\ claimed = "" /\ claims = ""
NoNarrow == narrowWords = "" /\ narrowCall = ""
NoOther == NoShare /\ NoNarrow
NoEarlier == NoWalk /\ NoClear /\ NoBitmap /\ NoSample

InitOfAny ==
  /\ which \in Parts
  /\ Init
  /\ \/ Walks /\ Walk!Init /\ NoClear /\ NoBitmap /\ NoSample /\ NoOther
     \/ Clears /\ NoWalk /\ Tiling!Init /\ NoBitmap /\ NoSample /\ NoOther
     \/ Bitmaps /\ NoWalk /\ NoClear /\ Roaring!Init /\ NoSample /\ NoOther
     \/ Samples /\ NoWalk /\ NoClear /\ NoBitmap /\ sample = 0 /\ NoOther
     \/ Workspaces /\ NoEarlier /\ Shares!Init /\ NoNarrow
     \/ Narrows /\ NoEarlier /\ NoShare /\ TwoBytes!Init
     \/ Memories /\ NoEarlier /\ NoOther

earlierVars == <<walkVars, clearVars, bitmapVars, sample>>
laterVars == <<shareVars, narrowVars, vars>>

AdvanceWalk == Walk!Advance /\ UNCHANGED <<which, clearVars, bitmapVars, sample, laterVars>>

\* The samples are keys and lengths, each reached bit by bit.
NextOfAny ==
    \/ Walks /\ Walk!Next /\ UNCHANGED <<which, clearVars, bitmapVars, sample, laterVars>>
    \/ Clears /\ Tiling!Next /\ UNCHANGED <<which, walkVars, bitmapVars, sample, laterVars>>
    \/ Bitmaps /\ Roaring!Next /\ UNCHANGED <<which, walkVars, clearVars, sample, laterVars>>
    \/ /\ Samples /\ sample' \in {(2 * sample) % 256, (2 * sample + 1) % 256}
       /\ UNCHANGED <<which, walkVars, clearVars, bitmapVars, laterVars>>
    \/ Workspaces /\ Shares!Next /\ UNCHANGED <<which, earlierVars, narrowVars, vars>>
    \/ Narrows /\ TwoBytes!Next /\ UNCHANGED <<which, earlierVars, shareVars, vars>>
    \/ Memories /\ Next /\ UNCHANGED <<which, earlierVars, shareVars, narrowVars>>

AnyArithmetic ==
    /\ InitOfAny
    /\ [][NextOfAny]_<<which, earlierVars, laterVars>>
    /\ WF_walkVars(AdvanceWalk)

TypesOK == /\ TypeOK
           /\ Walks => Walk!TypeOK
           /\ Clears => Tiling!TypeOK
           /\ Bitmaps => Roaring!TypeOK
           /\ Workspaces => Shares!TypeOK
           /\ Narrows => TwoBytes!TypeOK

\* See Probing: what a walk has seen, and that every walk ends without a bucket
\* coming twice.
WalksSeeAll == Walks => Walk!WalksSeeAll
WalksEnd == /\ [][Walks => Walk!FreshBucket]_walkVars
            /\ (Walks /\ phase = "walk") ~> (Walks /\ phase = "wrapped")

\* See Probing: a table is as large as was asked for.
CapacitiesServe == Walks => Walk!CapacitiesServe

\* See SketchMath: a sketch of HyperLogLog is as large as was asked for, its
\* kernels find room, and its input is all inside an allocation; which entries of
\* the tables correct an estimate; corrected estimates grow with the raw ones, and
\* none is negative.
SketchMathHolds ==
    Samples =>
        /\ sample = 0 => Estimates!SizesServe /\ Estimates!KernelsFit
        /\ \A n, bytes \in 0 .. 15 : \A size \in {1, 2} :
              Estimates!InputLiesInside(sample % 16, n, sample \div 16, bytes, size)
        /\ \A e \in 18 .. 56 : /\ Patterns!WindowIsNearest(sample, e)
                               /\ Patterns!CorrectionGrows(sample, e)
        /\ Estimates!WindowIsNearest(13, 5909 + 137 * sample)
        /\ Estimates!CorrectionGrows(13, 5909 + 137 * sample)
        /\ \A v \in {0, 1, 2000, 8192} : \A h \in {0, 900, 6500, 6501} :
              Estimates!EstimateIsNatural(13, 1 + 32 * sample, v, h)

\* See ClearTiling and BloomWorkspace: nothing is in two workers' shares, and
\* all of it is in one; what Clear leaves, and where the hashes of a block go.
WorkIsShared ==
    /\ Clears => Tiling!SharesAreDisjoint /\ Tiling!EmptiedUnlessTilesAreFull
    /\ Workspaces => Shares!EachOnce /\ Shares!BlocksStayHome

\* What the documentation says of Clear, for every capacity: it empties the
\* container.
ClearEmpties == Clears => Tiling!ClearEmpties

\* See RoaringBitmap: the parser; and what a query finds, in memory that has one
\* owner.
ParserIsExact == Bitmaps => Roaring!ParserIsExact
LookupsAreExact == Bitmaps => Roaring!LookupsAreExact /\ Roaring!OneOwner

\* See NarrowSlots: a swap of a slot of two bytes is one step.
SlotsAreAtomic == [][Narrows => TwoBytes!SlotSwapped]_narrowVars

\* The special cases for integer keys, and the version on halves that the vector
\* cores run, are the hash they stand for; a hash of any length reads every byte
\* of its key once and no other; the finalizers of 32-bit keys lose nothing.
HashesAgree ==
    Samples =>
        /\ Hash!HalvesHashAsOne(sample)
        /\ \A seed \in {0, 5, 200} : Hash!IntegersHashAsBytes(sample, seed)
        /\ Hash!ReadsOnce(Hash!MurmurReads(sample), sample)
        /\ Hash!ReadsOnce(Hash!Xx32Reads(sample), sample)
        /\ Hash!ReadsOnce(Hash!Xx64Reads(sample), sample)
        /\ LET fmix(k) == Hash!Fmix(k, sample % 16, <<2, 1, 2>>, 11, 5, 16)
           IN  /\ Cardinality({fmix(k) : k \in 0 .. 15}) = 16
               /\ Cardinality({Hash!Finalize32(k) : k \in 0 .. 15}) = 16
===============================================================================
