-------------------------------- MODULE Multimap --------------------------------
(***************************************************************************)
(* StaticMultimap (static_multimap.h and detail/static_multimap): a table  *)
(* of pairs probed linearly, where equal pairs take slots of their own.    *)
(*                                                                         *)
(* Four layouts: "dense32" and "dense64" keep the pairs in order of        *)
(* acceptance and a table of indices with a tag of the key beside them;    *)
(* in "packed" and "wide" the slots are the pairs, of one word or of two.  *)
(*                                                                         *)
(* One host thread.  An insertion is validated, ranked and then put in by  *)
(* a kernel in which each admitted pair has a thread of its own.  Queries  *)
(* are kernels that only read.  What the kernels compute is in             *)
(* MultimapKernels.                                                        *)
(***************************************************************************)
EXTENDS MultimapKernels

CONSTANTS
    Key, EmptyKey, Value, EmptyValue,
    Capacity,
    Hash,               \* Hash: [Key -> 0..(2^HashBits - 1)]
    Batches,            \* insertions: [pairs, sel, conditional]
    Queries, Rooms,     \* [keys, sel], sizes of output buffers
    RankedMaximum,      \* rankedInsertMaximumKeys
    CacheBudget         \* retrieveCacheBudget, in matches

VARIABLES
    layout,             \* chosen by the types and by the constructor
    size,
    table, indices,     \* the pairs; the index entries of the dense layouts
    phase, call,        \* "idle" or "insert", and the running insertion
    flight,             \* the threads of the insertion kernel
    failed,             \* status, as the insertion kernel leaves it
    accepted,           \* history: the pairs that insertions have reported stored
    ret                 \* the last operation, what it was asked and answered

storage == <<layout, size, table, indices>>
vars == <<storage, phase, call, flight, failed, accepted, ret>>

Slot == 0..(Capacity - 1)
Pair == [k : Key, v : Value]
EmptyPair == [k |-> EmptyKey, v |-> EmptyValue]
NoEntry == [tag |-> 0, index |-> 0]     \* an index is one more than a position
Dense == layout \in {"dense32", "dense64"}

NoReturn == <<"none", {}, "ok", <<>>>>
Number(n) == <<[k |-> EmptyKey, v |-> n]>>

--------------------------------------------------------------------------------
(* StaticMultimapRef. *)

Start(k) ==
    IF Dense THEN DenseStart(Capacity, k, Hash[k]) ELSE DirectStart(Capacity, Hash[k])
Tag(k) ==
    IF layout = "dense32" \/ InCapacityRange(Capacity, k) THEN k ELSE Hash[k]
NextSlot(s) == IF s + 1 = Capacity THEN 0 ELSE s + 1

PairAt(s) ==
    IF ~Dense THEN table[s]
    ELSE IF indices[s].index # 0 THEN table[indices[s].index - 1] ELSE EmptyPair

IsFree(s) == IF Dense THEN indices[s] = NoEntry ELSE table[s].k = EmptyKey

Matches(s, k) ==
    IF Dense THEN /\ indices[s].tag = Tag(k)
                  /\ layout = "dense64" => table[indices[s].index - 1].k = k
    ELSE table[s].k = k

\* The matching slots of a walk from the key's start to the first free slot.
MatchingSlots(k) ==
    LET at(n) == (Start(k) + n) % Capacity
        walk[n \in 0..Capacity] ==
            IF n = Capacity THEN <<>>
            ELSE IF IsFree(at(n)) THEN <<>>
            ELSE IF Matches(at(n), k) THEN <<at(n)>> \o walk[n + 1] ELSE walk[n + 1]
    IN  IF k = EmptyKey THEN <<>> ELSE walk[0]

Contains(k) == MatchingSlots(k) # <<>>
Count(k) == Len(MatchingSlots(k))
Find(k) ==
    LET values == {PairAt(s).v : s \in Range(MatchingSlots(k))} IN
    IF values = {} THEN EmptyValue ELSE CHOOSE v \in values : \A w \in values : v <= w

--------------------------------------------------------------------------------
Init ==
    /\ layout \in {"dense32", "dense64", "packed", "wide"}
    /\ size = 0
    /\ table = [s \in Slot |-> EmptyPair]
    /\ indices = IF Dense THEN [s \in Slot |-> NoEntry] ELSE <<>>
    /\ phase = "idle" /\ call = {} /\ flight = <<>> /\ failed = 0
    /\ accepted = <<>> /\ ret = NoReturn

Idle == phase = "idle"
Entries == [tag : Int, index : 1..Capacity] \cup {NoEntry}

TypeOK ==
    /\ size \in 0..Capacity /\ failed \in 0..1
    /\ table \in [Slot -> Pair \cup {EmptyPair} \cup [k : Key, v : {EmptyValue}]]
    /\ indices \in (IF Dense THEN [Slot -> Entries] ELSE {<<>>})
    /\ phase \in {"idle", "selected", "insert"}
    /\ call \subseteq Batches /\ (call = {} <=> Idle)

--------------------------------------------------------------------------------
(* Insert and InsertIf. *)

Elements(b) == 0..(Len(b.pairs) - 1)
PairOf(b, i) == b.pairs[i + 1]
Sel(b) == [i \in Elements(b) |-> b.sel[i + 1]]
Room == Capacity - size

\* CountSelected, with the Validate kernel and the prefix of the chunks' counts.
Offsets(b) ==
    LET n == Len(b.pairs) IN Prefix(ChunkCounts(Sel(b), n), Chunks(n))
Selected(b) ==
    IF b.conditional THEN Offsets(b)[Chunks(Len(b.pairs))] ELSE Len(b.pairs)
Invalid(b) ==
    \E i \in Elements(b) :
        Sel(b)[i] /\ (PairOf(b, i).k = EmptyKey \/ PairOf(b, i).v = EmptyValue)
Admitted(b) == Least(Selected(b), Room)

Return(status, out) ==
    /\ ret' = <<"insert", {}, status, out>>
    /\ phase' = "idle" /\ call' = {} /\ flight' = <<>>

Select(b) ==
    /\ Idle /\ ret = NoReturn
    /\ phase' = "selected" /\ call' = {b}
    /\ failed' = 0
    /\ UNCHANGED <<storage, flight, accepted, ret>>

Deciding(b) == phase = "selected" /\ b \in call

RefuseInvalid(b) ==
    /\ Deciding(b) /\ Invalid(b)
    /\ Return("invalid", <<>>) /\ UNCHANGED <<storage, failed, accepted>>

\* No memory for the counts, for their prefix or for the ranks.
AllocationFails(b) ==
    /\ Deciding(b) /\ b.conditional
    /\ Return("memory", <<>>) /\ UNCHANGED <<storage, failed, accepted>>

NothingFits(b) ==
    /\ Deciding(b) /\ ~Invalid(b) /\ Admitted(b) = 0
    /\ Return("ok", Number(Selected(b))) /\ UNCHANGED <<storage, failed, accepted>>

\* The rank among the selected decides who is admitted, and the position.
Ranks(b) ==
    LET n == Len(b.pairs)
        offsets == Offsets(b)
    IN  IF ~b.conditional THEN [i \in Elements(b) |-> i]
        ELSE IF n <= RankedMaximum THEN [i \in Elements(b) |-> SerialRank(Sel(b), n, offsets, i)]
        ELSE [i \in Elements(b) |-> WarpRank(Sel(b), n, offsets, i)]

Threads(b) ==
    LET rank == Ranks(b)
        room == Admitted(b)
        thread(i) ==
            LET p == PairOf(b, i) IN
            [pair |-> p, to |-> size + rank[i], slot |-> Start(p.k), step |-> 0,
             pc |-> IF Dense /\ InCapacityRange(Capacity, p.k) THEN "cas" ELSE "load"]
    IN  [i \in {j \in Elements(b) : Sel(b)[j] /\ rank[j] < room} |-> thread(i)]

\* The payloads of the dense layouts are written before their entries; no
\* thread of this kernel reads them.
Payload(threads) ==
    [s \in Slot |->
        IF \E i \in DOMAIN threads : threads[i].to = s
        THEN threads[CHOOSE i \in DOMAIN threads : threads[i].to = s].pair ELSE table[s]]
LaunchInsert(b) ==
    /\ Deciding(b) /\ ~Invalid(b) /\ Admitted(b) > 0
    /\ phase' = "insert" /\ flight' = Threads(b)
    /\ table' = IF Dense THEN Payload(flight') ELSE table
    /\ UNCHANGED <<layout, size, indices, call, failed, accepted, ret>>

Done(i) == flight' = [j \in DOMAIN flight \ {i} |-> flight[j]]

\* A taken slot: on to the next one, or give up after as many as there are.
WalkOn(i) ==
    IF flight[i].step + 1 < Capacity
    THEN /\ flight' = [flight EXCEPT ![i].slot = NextSlot(@), ![i].step = @ + 1, ![i].pc = "load"]
         /\ UNCHANGED failed
    ELSE Done(i) /\ failed' = 1

Load(i) ==
    /\ flight[i].pc = "load"
    /\ IF IsFree(flight[i].slot)
       THEN flight' = [flight EXCEPT ![i].pc = "cas"] /\ UNCHANGED failed
       ELSE WalkOn(i)
    /\ UNCHANGED <<storage, phase, call, accepted, ret>>

\* (Variant with a bug: the outcome of the compare-and-swap is not looked at.)
AlwaysWins(i) == TRUE
WinsSlot(i) == IsFree(flight[i].slot)

\* InsertIndex: the entry is published at once.
CasIndex(i) ==
    /\ flight[i].pc = "cas" /\ Dense
    /\ IF WinsSlot(i)
       THEN /\ indices' = [indices EXCEPT ![flight[i].slot] =
                              [tag |-> Tag(flight[i].pair.k), index |-> flight[i].to + 1]]
            /\ Done(i) /\ UNCHANGED failed
       ELSE WalkOn(i) /\ UNCHANGED indices
    /\ UNCHANGED <<layout, size, table, phase, call, accepted, ret>>

\* Insert in direct slots: the pair as one word, or the key and then the value.
CasSlot(i) ==
    /\ flight[i].pc = "cas" /\ ~Dense
    /\ IF WinsSlot(i)
       THEN /\ UNCHANGED failed
            /\ IF layout = "packed"
               THEN table' = [table EXCEPT ![flight[i].slot] = flight[i].pair] /\ Done(i)
               ELSE /\ table' = [table EXCEPT ![flight[i].slot].k = flight[i].pair.k]
                    /\ flight' = [flight EXCEPT ![i].pc = "store"]
       ELSE WalkOn(i) /\ UNCHANGED table
    /\ UNCHANGED <<layout, size, indices, phase, call, accepted, ret>>
StoreValue(i) ==
    /\ flight[i].pc = "store"
    /\ table' = [table EXCEPT ![flight[i].slot].v = flight[i].pair.v]
    /\ Done(i)
    /\ UNCHANGED <<layout, size, indices, phase, call, failed, accepted, ret>>

TakenFrom(b) ==
    LET n == Len(b.pairs)
        take[i \in 0..n] ==
            IF i = 0 THEN <<>>
            ELSE IF b.sel[i] /\ Len(take[i - 1]) < Admitted(b)
                 THEN Append(take[i - 1], b.pairs[i]) ELSE take[i - 1]
    IN  take[n]

Inserted(b) ==
    /\ phase = "insert" /\ flight = <<>> /\ b \in call
    /\ IF failed = 1
       THEN Return("failed", <<>>) /\ UNCHANGED <<size, accepted>>
       ELSE /\ size' = size + Admitted(b) /\ accepted' = accepted \o TakenFrom(b)
            /\ Return("ok", Number(Selected(b) - Admitted(b)))
    /\ UNCHANGED <<layout, table, indices, failed>>

--------------------------------------------------------------------------------
(* Queries. *)

Returned(op, asked, result) ==
    /\ Idle /\ ret = NoReturn /\ ret' = <<op, asked>> \o result
    /\ UNCHANGED <<storage, phase, call, flight, failed, accepted>>
Answer(op, asked, out) == Returned(op, asked, <<"ok", out>>)
NoMemory(op, asked) == Returned(op, asked, <<"memory", <<>>>>)
IntoRoom(total, room, out) == IF total > room THEN <<"length", <<>>>> ELSE <<"ok", out>>

ContainsIf(q) ==
    Answer("contains", {q}, [i \in DOMAIN q.keys |-> q.sel[i] /\ Contains(q.keys[i])])
FindIf(q) ==
    Answer("find", {q},
           [i \in DOMAIN q.keys |-> IF q.sel[i] THEN Find(q.keys[i]) ELSE EmptyValue])

\* QueryCountsSimt: each query's count, each chunk's sum and the sums' prefix.
Counts(q) == [i \in 0..(Len(q.keys) - 1) |-> Count(q.keys[i + 1])]
ChunkOffsets(q) ==
    LET n == Len(q.keys)
        sums == [c \in 0..(Chunks(n) - 1) |-> SumFunctionOnSet(Counts(q), Chunk(n, c))]
    IN  Prefix(sums, Chunks(n))
Total(q) == ChunkOffsets(q)[Chunks(Len(q.keys))]

CountAll(q) == Answer("count", {q}, Number(Total(q)))
CountFails(q) == NoMemory("count", {q})

\* RetrieveCacheLimit: how many values of each query the count pass may keep.
\* (Sizes are numbers here: the test that their product fits a size_t is left out.)
CacheLimit(n, room) ==
    LET limit == room \div n IN
    IF limit < 2 \/ limit >= size \/ limit > 1024 \/ limit > CacheBudget \div n THEN 0 ELSE limit

\* What the count pass leaves for a query: the value of a single match, else
\* the slot of the first one; and the first values in the cache.
SavedMatch(k) ==
    LET slots == MatchingSlots(k) IN
    IF Len(slots) = 1 THEN [value |-> PairAt(slots[1]).v]
    ELSE [slot |-> IF slots = <<>> THEN Capacity ELSE slots[1]]
Cache(k, limit) ==
    LET slots == MatchingSlots(k) IN
    [j \in 0..(Least(Len(slots), limit) - 1) |-> PairAt(slots[j + 1]).v]

\* WriteMatches: from the first match on until the known number are written, or
\* an empty slot comes.
FoundFrom(k, first, count) ==
    LET at(n) == (first + n) % Capacity
        ended(n) == \E m \in 0..n : PairAt(at(m)).k = EmptyKey
        walk[n \in 0..Capacity] ==
            IF n = 0 THEN <<>>
            ELSE IF Len(walk[n - 1]) < count /\ ~ended(n - 1) /\ PairAt(at(n - 1)).k = k
                 THEN Append(walk[n - 1], PairAt(at(n - 1)).v) ELSE walk[n - 1]
    IN  [j \in 0..(count - 1) |-> walk[Capacity][j + 1]]

FromCache(k, count, limit) == limit # 0 /\ count <= limit
\* RetrieveSimt, RetrieveCachedSimt: the values that a query writes.
Segment(k, limit) ==
    LET count == Count(k) IN
    IF count = 1 THEN [j \in {0} |-> SavedMatch(k).value]
    ELSE IF FromCache(k, count, limit) THEN HeapSort(Cache(k, limit), count)
    ELSE HeapSort(FoundFrom(k, SavedMatch(k).slot, count), count)

\* Where each query writes: its chunk's offset and the counts before it there.
FirstPlace(q) ==
    LET n == Len(q.keys)
        offsets == ChunkOffsets(q)
        scanned == Scan(Counts(q), n)
    IN  [i \in 0..(n - 1) |-> offsets[i \div CHUNK] + scanned[i]]

\* One query that matches all pairs: the dense values are sorted by one warp.
OnlyKey(q) ==
    Len(q.keys) = 1 /\ Dense /\ Total(q) = size /\ Total(q) \in WARP..(64 * WARP)
Greatest == CHOOSE v \in Value : \A w \in Value : v >= w

Retrieved(q, limit) ==
    LET counts == Counts(q)
        first == FirstPlace(q)
        segments == [i \in DOMAIN counts |-> Segment(q.keys[i + 1], limit)]
        writers(p) == {i \in DOMAIN counts : p - 1 - first[i] \in 0..(counts[i] - 1)}
        written(p) ==
            IF writers(p) = {} THEN EmptyPair
            ELSE LET i == CHOOSE j \in writers(p) : TRUE IN
                 [k |-> q.keys[i + 1], v |-> segments[i][p - 1 - first[i]]]
        alone == SortedDense([i \in 0..(size - 1) |-> table[i].v], size, Greatest)
    IN  IF OnlyKey(q) THEN [p \in 1..size |-> [k |-> q.keys[1], v |-> alone[p - 1]]]
        ELSE [p \in 1..Total(q) |-> written(p)]

\* The cache needs memory; without it the call goes on, unless there is none
\* for the matches either.
Retrieve(q, room) ==
    \E limit \in {0, IF size <= 1 THEN 0 ELSE CacheLimit(Len(q.keys), room)} :
        Returned("retrieve", {[q |-> q, room |-> room]},
                 IntoRoom(Total(q), room, Retrieved(q, limit)))
RetrieveFails(q, room) == NoMemory("retrieve", {[q |-> q, room |-> room]})

\* CompactSimt: each chunk of slots writes its pairs at the prefix of the counts.
Compacted ==
    LET used == [s \in Slot |-> table[s].k # EmptyKey]
        first == Prefix(ChunkCounts(used, Capacity), Chunks(Capacity))
        place == [s \in Slot |-> SerialRank(used, Capacity, first, s)]
    IN  [p \in 1..size |-> table[CHOOSE s \in Slot : used[s] /\ place[s] = p - 1]]
Exported == [p \in 1..size |-> table[p - 1]]
RetrieveAll(room) ==
    Returned("all", {room}, IntoRoom(size, room, IF Dense THEN Exported ELSE Compacted))
RetrieveAllFails(room) == ~Dense /\ size \in 1..room /\ NoMemory("all", {room})

\* The dense layouts only forget the entries.
ClearSimt ==
    /\ table' = IF Dense THEN table ELSE [s \in Slot |-> EmptyPair]
    /\ indices' = IF Dense THEN [s \in Slot |-> NoEntry] ELSE indices

Clear ==
    /\ Idle /\ ret = NoReturn
    /\ ClearSimt
    /\ size' = 0 /\ accepted' = <<>>
    /\ UNCHANGED <<layout, phase, call, flight, failed, ret>>

\* The caller has seen what the last call returned, and goes on.
TakeAnswer ==
    /\ Idle /\ ret # NoReturn /\ ret' = NoReturn
    /\ UNCHANGED <<storage, phase, call, flight, failed, accepted>>

--------------------------------------------------------------------------------
Finish(b) ==
    \/ RefuseInvalid(b) \/ AllocationFails(b) \/ NothingFits(b)
    \/ LaunchInsert(b) \/ Inserted(b)

Next ==
    \/ \E b \in Batches : Select(b)
    \/ \E b \in call : Finish(b)
    \/ \E i \in DOMAIN flight : Load(i) \/ CasIndex(i) \/ CasSlot(i) \/ StoreValue(i)
    \/ \E q \in Queries :
        \/ ContainsIf(q) \/ FindIf(q) \/ CountAll(q) \/ CountFails(q)
        \/ \E room \in Rooms : Retrieve(q, room) \/ RetrieveFails(q, room)
    \/ \E room \in Rooms : RetrieveAll(room) \/ RetrieveAllFails(room)
    \/ Clear \/ TakeAnswer

Spec == Init /\ [][Next]_vars

--------------------------------------------------------------------------------
\* Once an insertion has returned, the walk of every key meets exactly the pairs
\* that were reported stored, in every layout and whatever the threads did; and
\* "the admitted prefix fits by construction": no thread has run out of slots.
TableHoldsAccepted ==
    /\ Idle => \A k \in Key : \A v \in Value :
         Cardinality({j \in DOMAIN MatchingSlots(k) : PairAt(MatchingSlots(k)[j]).v = v})
             = Cardinality({i \in DOMAIN accepted : accepted[i] = [k |-> k, v |-> v]})
    /\ failed = 0

\* To its callers StaticMultimap is a bag of pairs: what is taken, what fails,
\* and what every query answers, in the order that static_multimap.h promises.
Promise == INSTANCE PairBag WITH items <- accepted
IsPairBag == Promise!Init /\ [][Promise!Next]_(Promise!vars)
================================================================================
