------------------------------ MODULE DynamicMap ------------------------------
(***************************************************************************)
(* The growing map of dynamic_map.h: a vector of StaticMaps ("submaps"),   *)
(* of which the last one is active and takes the insertions.  When a batch *)
(* does not fit the active submap, a larger one is appended, possibly one  *)
(* that was built ahead on a background stream.                            *)
(*                                                                         *)
(* A host thread calls one operation after the other.  The loops of Insert, *)
(* InsertOrAssign and Reserve take one step per iteration; call holds      *)
(* their local variables.  Each StaticMap call is one step of the map that *)
(* module BulkMap describes (OpenAddressingBulk shows that it is): keys in *)
(* at most Capacity slots, of which erased ones stay taken.                *)
(*                                                                         *)
(* The constructor of a submap clears it and waits for its stream, the     *)
(* background stream included, so a prebuilt submap is ready when          *)
(* StartPrepareNext returns.                                               *)
(***************************************************************************)
EXTENDS Integers, Sequences, FiniteSets

CONSTANTS
    Key, Val, NoVal,      \* NoVal: emptyValue_
    InitialCapacity,
    MakeValidExtent(_),   \* the capacity a StaticMap makes of a request
    MinInsertSize,        \* minInsertSize_
    MaxBatch,             \* longest batch
    Reservations,         \* arguments of Reserve
    Calls,                \* the operations callers use
    MaxSubmaps, MaxSize, MaxTombstones    \* bounds of the exploration

GROWTH_FACTOR == 2

Batches == UNION {[1..n -> [key : Key, val : Val]] : n \in 1..MaxBatch}
KeyBatches == UNION {[1..n -> Key] : n \in 1..MaxBatch}

ASSUME SizesAssumption == {InitialCapacity, MinInsertSize, MaxBatch, MaxSubmaps} \subseteq Nat
ASSUME ReservationsAssumption == Reservations \subseteq Nat
ASSUME ExtentAssumption == \A c \in 0..InitialCapacity : MakeValidExtent(c) \in Nat \ {0}
ASSUME KeyAssumption == IsFiniteSet(Key)       \* of so many bits
ASSUME NoValAssumption == NoVal \notin Val    \* the reserved emptyValue_

VARIABLES
    submaps,      \* submaps[s]: its capacity, map, tombstones and submapSize_
    nextSubmap,   \* nextSubmapCap_ of the prebuilt submap, 0: there is none
    nextCapacity, \* nextCapacity_
    size,         \* size_
    prep,         \* whether the constructor got a background stream
    contract,     \* whether the callers keep to the exact operations, and to
                  \* the contract of kAppendUnique
    call,         \* the operation in its loop
    ret           \* what the last operation returned, and of which keys

vars == <<submaps, nextSubmap, nextCapacity, size, prep, contract, call, ret>>

--------------------------------------------------------------------------------
(* Room and growth. *)

NewSubmap(cap) == [cap |-> MakeValidExtent(cap), map |-> <<>>, dead |-> 0, count |-> 0]
Index == 1..Len(submaps)
Active == Len(submaps)

\* 0.60f of the capacity, less minInsertSize_.
Usable(cap) ==
    LET u == (cap * 3) \div 5 IN IF u > MinInsertSize THEN u - MinInsertSize ELSE 0

ActiveRoom ==
    LET usable == Usable(submaps[Active].cap)
        used == submaps[Active].count
    IN  IF usable > used THEN usable - used ELSE 0

GrowTarget(n) == IF size * GROWTH_FACTOR > n THEN size * GROWTH_FACTOR ELSE n

\* newCap = nextCapacity_, doubled while it has no room for target: the capacity
\* after so many rounds of that loop, and after as many as it can have.
Rounds(target) == 2 * (target + MinInsertSize)
GrownCapacity(target) ==
    LET newCap[round \in 0..Rounds(target)] ==
            IF round = 0 THEN nextCapacity
            ELSE LET cap == newCap[round - 1]
                 IN  IF Usable(cap) < target THEN cap * GROWTH_FACTOR ELSE cap
    IN  newCap[Rounds(target)]

Prebuilt(target) == nextSubmap # 0 /\ Usable(nextSubmap) >= target

\* ActivateNext: the prebuilt submap if it is large enough, else it is
\* dropped and one is built on the spot.
ActivateNext(target) ==
    LET cap == IF Prebuilt(target) THEN nextSubmap ELSE GrownCapacity(target) IN
    /\ submaps' = Append(submaps, NewSubmap(cap))
    /\ nextCapacity' = cap * GROWTH_FACTOR
    /\ nextSubmap' = 0

StartPrepareNext(n) ==
    nextSubmap' = IF nextSubmap # 0 \/ ~prep THEN nextSubmap ELSE GrownCapacity(GrowTarget(n))

--------------------------------------------------------------------------------
(* What a call on one submap does to it. *)

Keys(b) == {b[i].key : i \in DOMAIN b}
Offers(b, k) == {b[i].val : i \in {j \in DOMAIN b : b[j].key = k}}
Live(s) == DOMAIN submaps[s].map

\* Whose payload wins among a batch's duplicates of a key is left to the threads.
Winners(b) == {p \in [Keys(b) -> Val] : \A k \in Keys(b) : p[k] \in Offers(b, k)}

\* As many of the keys that the submap lacks as it has slots for.
Admissible(s, keys) ==
    LET missing == keys \ Live(s)
        slots == submaps[s].cap - Cardinality(Live(s)) - submaps[s].dead
        n == IF Cardinality(missing) < slots THEN Cardinality(missing) ELSE slots
    IN  {new \in SUBSET missing : Cardinality(new) = n}

\* The map of submap s once the keys of set have the winning payloads.
WithPayloads(s, set, win) ==
    [k \in Live(s) \cup set |-> IF k \in set THEN win[k] ELSE submaps[s].map[k]]

NonEmptyBefore(a) == {s \in 1..(a - 1) : submaps[s].count # 0}

\* BuildContainsMask: the batch's keys that an older submap holds.
\* (Variant with a bug: only the first of them is asked.)
MaskOfFirst(b) ==
    Keys(b) \cap UNION {Live(s) : s \in NonEmptyBefore(Active) \cap {1}}
Masked(b) == Keys(b) \cap UNION {Live(s) : s \in NonEmptyBefore(Active)}

--------------------------------------------------------------------------------
NoCall == [op |-> "none", batch |-> <<>>, offset |-> 0, total |-> 0, idx |-> 1, remaining |-> 0]
Idle == call = NoCall
NoReturn == [asked |-> {}, count |-> 0, out |-> NoVal]
Returned(asked, count, out) == ret' = [asked |-> asked, count |-> count, out |-> out]
Finish == call' = NoCall

TypeOK ==
    /\ submaps \in Seq([cap : Nat \ {0}, dead : Nat, count : Nat,
                        map : UNION {[ks -> Val] : ks \in SUBSET Key}])
    /\ submaps # <<>>
    /\ {nextSubmap, nextCapacity, size} \subseteq Nat
    /\ {prep, contract} \subseteq BOOLEAN
    /\ call \in [op : Calls \cup {"none"}, batch : Seq([key : Key, val : Val]),
                 offset : Nat, total : Nat, idx : Nat \ {0}, remaining : Nat]
    /\ call.offset <= Len(call.batch)
    /\ ret \in [asked : SUBSET Key, count : Nat, out : Val \cup {NoVal}]

\* The constructor; without a background stream it works all the same.
Init ==
    /\ submaps = <<NewSubmap(InitialCapacity)>>
    /\ nextSubmap = 0
    /\ nextCapacity = MakeValidExtent(InitialCapacity) * GROWTH_FACTOR
    /\ size = 0
    /\ prep \in BOOLEAN /\ contract \in BOOLEAN
    /\ call = NoCall
    /\ ret = NoReturn

\* EnsureActiveRoom, first thing in every insertion of n elements.
\* (Variant with a bug: any room at all is thought enough.)
EnsureSomeRoom(n) ==
    IF ActiveRoom > 0 THEN UNCHANGED <<submaps, nextSubmap, nextCapacity>>
    ELSE Len(submaps) < MaxSubmaps /\ ActivateNext(GrowTarget(n))
EnsureActiveRoom(n) ==
    IF ActiveRoom >= n THEN UNCHANGED <<submaps, nextSubmap, nextCapacity>>
    ELSE Len(submaps) < MaxSubmaps /\ ActivateNext(GrowTarget(n))

InsertOps == {"insert", "upsert", "append", "async"}

\* The contract: all keys of the batch, and of history, are unique.
AllNew(b) ==
    /\ Cardinality(Keys(b)) = Len(b)
    /\ \A s \in Index : Keys(b) \cap Live(s) = {}

Begin(op, b) ==
    /\ Idle /\ size + Len(b) <= MaxSize
    /\ contract => op # "async" /\ (op = "append" => AllNew(b))
    /\ EnsureActiveRoom(Len(b))
    /\ call' = [NoCall EXCEPT !.op = op, !.batch = b]
    /\ ret' = NoReturn
    /\ UNCHANGED <<size, prep, contract>>

\* The exact fast path of Insert: no older submap holds anything.
InsertFast ==
    /\ call.op = "insert" /\ call.offset = 0 /\ NonEmptyBefore(Active) = {}
    /\ \E new \in Admissible(Active, Keys(call.batch)) : \E win \in Winners(call.batch) :
        /\ submaps' = [submaps EXCEPT ![Active].map = WithPayloads(Active, new, win),
                                      ![Active].count = @ + Cardinality(new)]
        /\ size' = size + Cardinality(new)
        /\ Returned({}, Cardinality(new), NoVal)
    /\ Finish
    /\ UNCHANGED <<nextSubmap, nextCapacity, prep, contract>>

\* n more elements are done, of which some were new; the last ones end the call.
Inserted(n, new) ==
    /\ size' = size + new
    /\ IF call.offset + n = Len(call.batch)
       THEN Returned({}, call.total + new, NoVal) /\ Finish
       ELSE /\ call' = [call EXCEPT !.offset = @ + n, !.total = @ + new]
            /\ UNCHANGED ret

\* The elements that the mask lets into the active submap, which CountZero
\* counts, and those among them that InsertIf stores: one of each new key.
Candidates(chunk) ==
    LET masked == Masked(chunk) IN {i \in DOMAIN chunk : chunk[i].key \notin masked}
NotInserted(chunk, new) ==
    {i \in Candidates(chunk) :
        chunk[i].key \notin new \/ \E j \in 1..(i - 1) : chunk[j].key = chunk[i].key}
InsertedOf(chunk, new) == Cardinality(Candidates(chunk)) - Cardinality(NotInserted(chunk, new))

\* InsertChunk: MaskIsZero lets only the keys into the active submap that no
\* older one holds.
InsertChunk(chunk) ==
    \E new \in Admissible(Active, Keys(chunk) \ Masked(chunk)) : \E win \in Winners(chunk) :
        /\ submaps' = [submaps EXCEPT ![Active].map = WithPayloads(Active, new, win),
                                      ![Active].count = @ + InsertedOf(chunk, new)]
        /\ Inserted(Len(chunk), InsertedOf(chunk, new))

\* InsertOrAssignChunk: the older submaps assign the keys they hold, the
\* active one assigns or inserts the others, each in a kernel of its own.
InsertOrAssignChunk(chunk) ==
    \E new \in Admissible(Active, Keys(chunk) \ Masked(chunk)) :
    \E win \in [Index -> Winners(chunk)] :
        LET written(s) ==
                IF s = Active THEN new \cup (Live(s) \cap (Keys(chunk) \ Masked(chunk)))
                ELSE IF s \in NonEmptyBefore(Active) THEN Live(s) \cap Keys(chunk) ELSE {}
        IN  /\ submaps' = [s \in Index |->
                   [submaps[s] EXCEPT
                       !.map = WithPayloads(s, written(s), win[s]),
                       !.count = IF s = Active THEN @ + InsertedOf(chunk, new) ELSE @]]
            /\ Inserted(Len(chunk), InsertedOf(chunk, new))

\* One iteration of `while (offset < n)`: grow, or prebuild if the room gets
\* scarce and insert as much as there is room for.
InsertLoop ==
    LET n == Len(call.batch) - call.offset
        len == IF n < ActiveRoom THEN n ELSE ActiveRoom
        chunk == SubSeq(call.batch, call.offset + 1, call.offset + len)
    IN  /\ \/ call.op = "insert" /\ (call.offset > 0 \/ NonEmptyBefore(Active) # {})
           \/ call.op = "upsert"
        /\ IF ActiveRoom = 0
           THEN ActivateNext(GrowTarget(n)) /\ UNCHANGED <<size, call, ret>>
           ELSE /\ IF ActiveRoom < n * 2 THEN StartPrepareNext(n) ELSE UNCHANGED nextSubmap
                /\ IF call.op = "insert" THEN InsertChunk(chunk) ELSE InsertOrAssignChunk(chunk)
                /\ UNCHANGED nextCapacity
        /\ UNCHANGED <<prep, contract>>

\* Insert(kAppendUnique) and InsertAsync: all of the batch goes to the active
\* submap, unchecked, and is counted as inserted.
InsertOptimistic ==
    /\ call.op \in {"append", "async"}
    /\ LET n == Len(call.batch) IN
        /\ IF call.op = "async" /\ ActiveRoom < n * 2
           THEN StartPrepareNext(n) ELSE UNCHANGED nextSubmap
        /\ \E new \in Admissible(Active, Keys(call.batch)) : \E win \in Winners(call.batch) :
              submaps' = [submaps EXCEPT ![Active].map = WithPayloads(Active, new, win),
                                         ![Active].count = @ + n]
        /\ size' = size + n
        /\ Returned({}, n, NoVal)
    /\ Finish
    /\ UNCHANGED <<nextCapacity, prep, contract>>

--------------------------------------------------------------------------------
BeginReserve(n) ==
    /\ Idle /\ Len(submaps) < MaxSubmaps
    /\ call' = [NoCall EXCEPT !.op = "reserve", !.remaining = n]
    /\ ret' = NoReturn
    /\ UNCHANGED <<submaps, nextSubmap, nextCapacity, size, prep, contract>>

\* One iteration of `while (remaining > 0)`.
ReserveLoop ==
    LET exists == call.idx <= Len(submaps)
        cap == IF exists THEN submaps[call.idx].cap ELSE nextCapacity
    IN  /\ call.op = "reserve" /\ call.remaining > 0
        /\ IF exists THEN UNCHANGED <<submaps, nextCapacity>>
           ELSE /\ submaps' = Append(submaps, NewSubmap(cap))
                /\ nextCapacity' = cap * GROWTH_FACTOR
        /\ call' = [call EXCEPT !.idx = @ + 1,
                                !.remaining = IF Usable(cap) >= @ THEN 0 ELSE @ - Usable(cap)]
        /\ UNCHANGED <<nextSubmap, size, prep, contract, ret>>

ReserveReturn ==
    /\ call.op = "reserve" /\ call.remaining = 0
    /\ Finish
    /\ UNCHANGED <<submaps, nextSubmap, nextCapacity, size, prep, contract, ret>>

--------------------------------------------------------------------------------
\* FirstNonEmpty: one beyond the submaps when no count says that there is a key.
FirstNonEmpty ==
    LET nonEmpty == {s \in Index : submaps[s].count # 0}
    IN  CHOOSE s \in nonEmpty \cup {Len(submaps) + 1} : \A t \in nonEmpty : s <= t
HasMoreNonEmptyAfter(base) == \E s \in Index : s > base /\ submaps[s].count # 0

\* What a submap answers; and MergeFind, which keeps what has been found already.
AnswerOf(s, k) == IF k \in Live(s) THEN submaps[s].map[k] ELSE NoVal
MergeFind(k, base) ==
    LET out[s \in base..Len(submaps)] ==
            IF s = base \/ (submaps[s].count # 0 /\ out[s - 1] = NoVal)
            THEN AnswerOf(s, k) ELSE out[s - 1]
    IN  out[Len(submaps)]

\* (Variant with a bug: what comes after the first submap asked is not merged.)
LookupFirst(k) == AnswerOf(IF FirstNonEmpty > Len(submaps) THEN 1 ELSE FirstNonEmpty, k)
Lookup(k) ==
    LET base == FirstNonEmpty
    IN  IF base > Len(submaps) THEN AnswerOf(1, k)
        ELSE IF HasMoreNonEmptyAfter(base) THEN MergeFind(k, base) ELSE AnswerOf(base, k)

\* Find, for one key of the batch: the kernels answer element by element.
\* Contains asks the same submaps and merges with "or".
Find(k) ==
    /\ Idle
    /\ Returned({k}, 0, Lookup(k))
    /\ UNCHANGED <<submaps, nextSubmap, nextCapacity, size, prep, contract, call>>

Sum(f) ==
    LET sum[i \in 0..Len(f)] == IF i = 0 THEN 0 ELSE sum[i - 1] + f[i] IN sum[Len(f)]
Less(a, b) == IF a >= b THEN a - b ELSE 0

Tombstones == Sum([s \in Index |-> submaps[s].dead])

\* What the kernels do to the submaps; only the synchronous Erase reads back
\* and counts.
EraseIn(ks, counted) ==
    LET asked == {ks[i] : i \in DOMAIN ks}
        del == [s \in Index |->
                  IF submaps[s].count = 0 THEN 0 ELSE Cardinality(Live(s) \cap asked)]
        total == Sum(del)
    IN  /\ Tombstones + total <= MaxTombstones
        /\ submaps' = [s \in Index |->
              IF submaps[s].count = 0 THEN submaps[s]
              ELSE [submaps[s] EXCEPT
                      !.map = [k \in Live(s) \ asked |-> @[k]],
                      !.dead = @ + del[s],
                      !.count = IF counted THEN Less(@, del[s]) ELSE @]]
        /\ size' = IF counted THEN Less(size, total) ELSE size
        /\ Returned(asked, IF counted THEN total ELSE 0, NoVal)

\* (Variants with a bug: keys that were not there count as erased, in the size;
\* in the submaps.)
EraseByLength(ks) ==
    /\ Idle /\ size # 0
    /\ size' = size - Len(ks)
    /\ UNCHANGED <<submaps, nextSubmap, nextCapacity, prep, contract, call, ret>>
EraseCountingMisses(ks) ==
    /\ Idle /\ Tombstones + Len(ks) <= MaxTombstones
    /\ submaps' = [s \in Index |-> [submaps[s] EXCEPT !.count = Less(@, Len(ks))]]
    /\ UNCHANGED <<nextSubmap, nextCapacity, size, prep, contract, call, ret>>

Erase(ks) ==
    /\ Idle
    /\ EraseIn(ks, TRUE)
    /\ UNCHANGED <<nextSubmap, nextCapacity, prep, contract, call>>

EraseAsync(ks) ==
    /\ Idle
    /\ EraseIn(ks, FALSE)
    /\ UNCHANGED <<nextSubmap, nextCapacity, prep, contract, call>>

\* Every submap is cleared and kept; the prebuilt one is dropped.
Clear ==
    /\ Idle
    /\ submaps' = [s \in Index |-> [submaps[s] EXCEPT !.map = <<>>, !.dead = 0, !.count = 0]]
    /\ size' = 0
    /\ nextSubmap' = 0
    /\ ret' = NoReturn
    /\ UNCHANGED <<nextCapacity, prep, contract, call>>

--------------------------------------------------------------------------------
Next ==
    \/ \E op \in InsertOps \cap Calls : \E b \in Batches : Begin(op, b)
    \/ InsertFast \/ InsertLoop \/ InsertOptimistic
    \/ \E n \in Reservations : "reserve" \in Calls /\ BeginReserve(n)
    \/ ReserveLoop \/ ReserveReturn
    \/ \E ks \in KeyBatches :
          \/ "erase" \in Calls /\ Erase(ks)
          \/ "eraseasync" \in Calls /\ ~contract /\ EraseAsync(ks)
    \/ \E k \in Key : "find" \in Calls /\ Find(k)
    \/ "clear" \in Calls /\ Clear

Spec == Init /\ [][Next]_vars

--------------------------------------------------------------------------------
\* A key is in at most one submap, as Find, Erase and the deduplication of
\* later insertions take for granted ("key 至多在一个子表"); the callers'
\* contract for appends is enough for that.  This includes InsertOrAssign of a
\* key that an older submap holds, of which DynamicMap_design.md:266 says that
\* it makes duplicates ("仅写入活跃子表会产生重复"): the code assigns it there.
KeyInOneSubmap ==
    contract => \A s, t \in Index : s # t => Live(s) \cap Live(t) = {}

\* A submap's count covers what it holds, whatever mix of exact and
\* optimistic calls led there: Find, Erase and the deduplication skip a
\* submap whose count is zero, and must not lose a key by it.  It never
\* exceeds the load factor, by any kind of insertion; and the map's size is
\* the sum of the counts, although each is adjusted, and clamped at zero, on
\* its own.
CountsAreSound ==
    /\ \A s \in Index : Cardinality(Live(s)) <= submaps[s].count
                       /\ submaps[s].count <= Usable(submaps[s].cap)
    /\ size = Sum([s \in Index |-> submaps[s].count])

\* The room made at the start of an insertion serves the whole batch: the
\* chunk loop runs once and its GrowOneSubmap is never needed, whatever has been
\* reserved, prebuilt, erased or cleared before.  (DynamicMap_design.md:156 says
\* instead that chunks fill the old submap before a new one is made, and :293
\* that an insertion never grows the map after Reserve, which counts the room
\* of all submaps; here all of the room is the active one's.)
OneChunk ==
    call.op \in InsertOps => call.offset = 0 /\ ActiveRoom >= Len(call.batch)

\* What the map is to its callers, and the call they wait for.
Contents ==
    [k \in UNION {Live(s) : s \in Index} |-> submaps[CHOOSE s \in Index : k \in Live(s)].map[k]]
Pending == [op |-> call.op, batch |-> call.batch]
Promise == INSTANCE GrowingMap WITH map <- Contents, call <- Pending

\* The synchronous operations keep the promise, with exact results and sizes,
\* however often the map has grown, was reserved, erased from or cleared; so
\* do the appending ones whose keys are new.
IsGrowingMap == Promise!Init /\ [][contract => Promise!Next]_(Promise!vars)

--------------------------------------------------------------------------------
(* What the documents say, and the code does not keep. *)

\* Insert finds a place for every key, also after erasures, whose slots later
\* insertions reuse (DynamicMap_design.md: "被删槽位可被后续插入复用").
InsertStoresAll ==
    [][call.op = "insert" /\ call'.op = "none" =>
         Keys(call.batch) \subseteq UNION {Live(s)' : s \in Index}]_vars
================================================================================
