-------------------------------- MODULE Multiset --------------------------------
(***************************************************************************)
(* StaticMultiset (static_multiset.h and detail/static_multiset): a        *)
(* multiset of integers that changes its representation as it grows:       *)
(*   - an interval of keys with one common multiplicity, no array at all;  *)
(*   - counters addressed by key - directBase_ ("direct");                 *)
(*   - a hash table of keys with counters,                                 *)
(* and always the sequence of the accepted elements in ordered_.           *)
(*                                                                         *)
(* One host thread; its flags say what the device arrays mean.  An         *)
(* insertion is a row of kernels: Select reads the batch and collects its  *)
(* statistics, the host chooses a representation, and Rebuild and Insert   *)
(* put elements in, each element by a thread of its own.  Keys are the     *)
(* encoded ones (Encode keeps their order and makes them unsigned).        *)
(*                                                                         *)
(* counts_ holds one more than the count in the direct representation and  *)
(* the count itself in the hash table: empty slots start at one.           *)
(***************************************************************************)
EXTENDS WarpSelection, Sequences, FiniteSetsExt

CONSTANTS
    Key, EmptyKey,        \* the keys that batches bring, encoded
    Capacity,             \* capacity_
    Hash,                 \* Hash: [Key -> Nat]
    Batches,              \* insertions: [keys, sel, conditional]
    Queries, Rooms        \* [keys, sel], what is asked; sizes of output buffers

ASSUME KeyAssumption == Key \subseteq Nat /\ EmptyKey \in Nat \ Key
ASSUME CapacityAssumption == Capacity \in Nat \ {0}
ASSUME HashAssumption == Hash \in [Key -> Nat]
ASSUME BatchAssumption ==
    \A b \in Batches :
        /\ b.keys \in Seq(Key \cup {EmptyKey}) /\ b.keys # <<>>
        /\ b.sel \in [DOMAIN b.keys -> BOOLEAN]
        /\ b.conditional \/ b.sel = [i \in DOMAIN b.keys |-> TRUE]

VARIABLES
    size,            \* size_
    direct,          \* direct_
    directBase,      \* directBase_
    uniformCount,    \* uniformCount_, 0: the counts are materialized
    uniformLength,   \* uniformLength_
    counts, keys,    \* counts_, keys_: NoArray before they are allocated
    ordered,         \* ordered_
    phase,           \* "idle", "selected", or the kernel that runs
    call,            \* the insertion that runs: a set of at most one batch
    flight,          \* the elements that the kernel has not put in yet
    ret              \* the last operation, what it was asked and answered

host == <<size, direct, directBase, uniformCount, uniformLength>>
arrays == <<counts, keys>>
vars == <<host, arrays, ordered, phase, call, flight, ret>>

--------------------------------------------------------------------------------
TableCapacity ==
    CHOOSE c \in {2^d : d \in 0..Capacity} :
        c >= Capacity /\ \A d \in 0..Capacity : 2^d >= Capacity => c <= 2^d
Slot == 0..(TableCapacity - 1)
NoArray == <<>>
Unset == -1         \* what a new ordered_ holds

NextSlot(s) == IF s + 1 = TableCapacity THEN 0 ELSE s + 1
Home(k) == Hash[k] % TableCapacity

(* StaticMultisetRef. *)

\* A walk through the hash table from the key's home slot to the key or to the
\* first empty slot: the slot of the key, or none.
SlotAt(k, n) == (Home(k) + n) % TableCapacity
SlotsOf(k) ==
    {SlotAt(k, n) : n \in {m \in 0..(TableCapacity - 1) :
        /\ keys[SlotAt(k, m)] = k
        /\ \A before \in 0..(m - 1) : keys[SlotAt(k, before)] \notin {k, EmptyKey}}}

HashCount(k) == IF SlotsOf(k) = {} THEN 0 ELSE counts[Min(SlotsOf(k))]

DirectCount(k) ==
    IF k < directBase THEN 0
    ELSE IF uniformCount # 0 THEN IF k - directBase < uniformLength THEN uniformCount ELSE 0
    ELSE IF counts = NoArray \/ k - directBase >= TableCapacity THEN 0
    ELSE counts[k - directBase] - 1

Count(k) ==
    IF k = EmptyKey THEN 0
    ELSE IF direct THEN DirectCount(k)
    ELSE IF keys = NoArray THEN 0
    ELSE HashCount(k)

\* Contains never reads the counters of the hash table.
Contains(k) ==
    /\ k # EmptyKey
    /\ IF direct THEN DirectCount(k) # 0 ELSE keys # NoArray /\ SlotsOf(k) # {}

\* Count with the caller's equality and hash, which agree with the container's:
\* a walk that looks for the end of the chain before it compares.
ProbeCount(k) ==
    LET walk[n \in 0..TableCapacity] ==
            IF n = TableCapacity THEN 0
            ELSE LET s == SlotAt(k, n) IN
                 IF keys[s] = EmptyKey THEN 0
                 ELSE IF keys[s] = k THEN counts[s] ELSE walk[n + 1]
    IN  IF k = EmptyKey THEN 0
        ELSE IF direct THEN Count(k)
        ELSE IF keys = NoArray THEN 0 ELSE walk[0]

--------------------------------------------------------------------------------
(* What Select finds out about a batch; elements count from 0. *)

Elements(b) == 0..(Len(b.keys) - 1)
KeyAt(b, i) == b.keys[i + 1]
Selected(b, i) == b.sel[i + 1]
IsValid(b, i) == Selected(b, i) /\ KeyAt(b, i) # EmptyKey

\* The partitions that collect: the active ones for a small batch, else all.
Collectors(n) == 0..((IF n <= SmallInsertLimit THEN Tiles(n) ELSE Partitions) - 1)
Collected(b) == UNION {Partition(Len(b.keys), id) : id \in Collectors(Len(b.keys))}

Weights(b) == [i \in Elements(b) |-> IF IsValid(b, i) THEN 1 ELSE 0]
ValidTotal(b) == Total(Weights(b), Collected(b))
InvalidTotal(b) ==
    Cardinality({i \in Collected(b) : Selected(b, i) /\ KeyAt(b, i) = EmptyKey})
ValidKeys(b) == {KeyAt(b, i) : i \in {j \in Collected(b) : IsValid(b, j)}}
Low(b) == Min(ValidKeys(b))
High(b) == Max(ValidKeys(b))

\* (Variant with a bug: equal neighbours are in order.)
WeakOrderErrors(b) ==
    Cardinality({i \in Collected(b) : i > 0 /\ KeyAt(b, i) < KeyAt(b, i - 1)})
OrderErrors(b) ==
    Cardinality({i \in Collected(b) : i > 0 /\ KeyAt(b, i) <= KeyAt(b, i - 1)})

AllValid(b) == ValidTotal(b) = Len(b.keys)
Room == Capacity - size
\* (Variant with a bug: what is stored already takes no room.)
AcceptedAnew(b) == IF ValidTotal(b) < Capacity THEN ValidTotal(b) ELSE Capacity
Accepted(b) == IF ValidTotal(b) < Room THEN ValidTotal(b) ELSE Room
Failed(b) == ValidTotal(b) - Accepted(b) + InvalidTotal(b)

\* ordered_ with the elements S of the batch behind the accepted ones.
Overwrite(b, S) ==
    [p \in DOMAIN ordered |-> IF p - size - 1 \in S THEN KeyAt(b, p - size - 1) ELSE ordered[p]]

\* The laws of powers, as far as they matter here: there is a power of two that is
\* no smaller than the capacity.
PowersOK == 2^0 = 1 /\ \A d \in 0..Capacity : 2^(d + 1) = 2 * 2^d

\* The kernels of the selection find every element of a batch, count the valid ones
\* and place each of them behind those before it.
SelectionOK ==
    \A b \in Batches :
        LET valid == {i \in Elements(b) : IsValid(b, i)} IN
        /\ Collected(b) = Elements(b) /\ ValidTotal(b) = Cardinality(valid)
        /\ \A i \in valid :
              Places(Weights(b), Len(b.keys))[i] = Cardinality({j \in valid : j < i})

--------------------------------------------------------------------------------
NoReturn == <<"none", <<>>, <<>>>>
Thrown == <<-1>>
Idle == phase = "idle"

Return(out) ==
    /\ ret' = <<"insert", <<>>, out>>
    /\ phase' = "idle" /\ call' = {} /\ flight' = <<>>

TypeOK ==
    /\ size \in 0..Capacity /\ direct \in BOOLEAN
    /\ {directBase, uniformCount, uniformLength} \subseteq Nat
    /\ counts = NoArray \/ counts \in [Slot -> Nat]
    /\ keys = NoArray \/ keys \in [Slot -> Key \cup {EmptyKey}]
    /\ ordered \in [1..Capacity -> Key \cup {EmptyKey, Unset}]
    /\ phase \in {"idle", "selected", "rebuild", "insert"}
    /\ call \subseteq Batches /\ (call = {} <=> Idle)

Empty ==
    /\ size' = 0 /\ direct' = FALSE /\ directBase' = 0
    /\ uniformCount' = 0 /\ uniformLength' = 0
    /\ counts' = NoArray /\ keys' = NoArray

Init ==
    /\ size = 0 /\ direct = FALSE /\ directBase = 0
    /\ uniformCount = 0 /\ uniformLength = 0
    /\ counts = NoArray /\ keys = NoArray
    /\ ordered = [p \in 1..Capacity |-> Unset]
    /\ phase = "idle" /\ call = {} /\ flight = <<>> /\ ret = NoReturn

\* Insert and InsertIf up to the Select kernel, which copies the raw prefix of
\* an unconditional batch into place while it reads it.
Select(b) ==
    /\ Idle
    /\ phase' = "selected" /\ call' = {b} /\ ret' = NoReturn
    /\ ordered' = IF b.conditional THEN ordered
                  ELSE Overwrite(b, {i \in Collected(b) : i < Room})
    /\ UNCHANGED <<host, arrays, flight>>

--------------------------------------------------------------------------------
(* FinishInsertion: the host has read the statistics. *)

Deciding(b) == phase = "selected" /\ b \in call

NothingAccepted(b) ==
    /\ Deciding(b) /\ Accepted(b) = 0
    /\ Return(<<Failed(b)>>)
    /\ UNCHANGED <<host, arrays, ordered>>

IsInterval(b) ==
    AllValid(b) /\ OrderErrors(b) = 0 /\ High(b) - Low(b) = Len(b.keys) - 1
FirstInterval(b) == size = 0 /\ IsInterval(b)
\* (Variant with a bug: how much of the interval is accepted is not compared.)
RepeatedStart(b) == uniformCount # 0 /\ IsInterval(b) /\ Low(b) = directBase
RepeatedInterval(b) ==
    uniformCount # 0 /\ IsInterval(b) /\ Low(b) = directBase /\ Accepted(b) = uniformLength

InsertInterval(b) ==
    /\ Deciding(b) /\ Accepted(b) > 0
    /\ FirstInterval(b) \/ RepeatedInterval(b)
    /\ ordered' = IF b.conditional
                  THEN Overwrite(b, 0..(Accepted(b) - 1))
                  ELSE ordered
    /\ IF FirstInterval(b)
       THEN /\ direct' = TRUE /\ directBase' = Low(b)
            /\ uniformLength' = Accepted(b) /\ uniformCount' = 1
       ELSE /\ uniformCount' = uniformCount + 1
            /\ UNCHANGED <<direct, directBase, uniformLength>>
    /\ size' = size + Accepted(b)
    /\ Return(<<Failed(b)>>)
    /\ UNCHANGED arrays

General(b) ==
    Deciding(b) /\ Accepted(b) > 0 /\ ~FirstInterval(b) /\ ~RepeatedInterval(b)

FitsDirect(b) == Low(b) >= directBase /\ High(b) - directBase < TableCapacity
FitsAlone(b) == High(b) - Low(b) < TableCapacity

\* The batch's own keys: what the Insert kernel starts with.  If all are valid
\* their places are their indices, else the prefix sums of Select are.
InsertFlight(b, dir, base) ==
    LET n == Len(b.keys)
        place == IF AllValid(b) THEN [i \in Elements(b) |-> i] ELSE Places(Weights(b), n)
        taken == IF AllValid(b) THEN {i \in Elements(b) : i < Accepted(b)}
                 ELSE {i \in Elements(b) : IsValid(b, i) /\ place[i] < Room}
        plain == AllValid(b) /\ dir /\ OrderErrors(b) = 0
    IN  [i \in taken |->
            [key |-> KeyAt(b, i), visited |-> 0, seen |-> 0,
             to |-> IF b.conditional \/ ~AllValid(b) THEN size + 1 + place[i] ELSE 0,
             slot |-> IF dir THEN KeyAt(b, i) - base ELSE Home(KeyAt(b, i)),
             pc |-> IF plain THEN "load" ELSE IF dir THEN "add" ELSE "cas"]]

RebuildFlight ==
    [p \in 1..size |->
        [key |-> ordered[p], visited |-> 0, seen |-> 0, to |-> 0,
         slot |-> Home(ordered[p]), pc |-> "cas"]]

\* InitializeStorage, with the Clear kernel.
Storage(hash) ==
    /\ counts' = [s \in Slot |-> 1]
    /\ keys' = IF hash THEN [s \in Slot |-> EmptyKey] ELSE keys

Launch(kernel, elements) == phase' = kernel /\ flight' = elements /\ UNCHANGED <<call, ret>>

\* The four cases of PrepareInsertion.
PrepareFirst(b) ==
    /\ General(b) /\ size = 0
    /\ Storage(~FitsAlone(b))
    /\ direct' = FitsAlone(b) /\ directBase' = Low(b)
    /\ Launch("insert", InsertFlight(b, FitsAlone(b), Low(b)))
    /\ UNCHANGED <<size, uniformCount, uniformLength, ordered>>

PrepareHash(b) ==
    /\ General(b) /\ size # 0 /\ direct /\ ~FitsDirect(b)
    /\ Storage(TRUE)
    /\ Launch("rebuild", RebuildFlight)
    /\ direct' = FALSE /\ uniformCount' = 0 /\ uniformLength' = 0
    /\ UNCHANGED <<size, directBase, ordered>>

\* (Variant with a bug: the materialized counters lack the extra one.)
MaterializeCount == counts' = [s \in Slot |-> IF s < uniformLength THEN uniformCount ELSE 1]
Materialize ==
    counts' = [s \in Slot |-> IF s < uniformLength THEN uniformCount + 1 ELSE 1]

PrepareCounters(b) ==
    /\ General(b) /\ size # 0 /\ direct /\ FitsDirect(b) /\ uniformCount # 0
    /\ Materialize /\ UNCHANGED keys
    /\ uniformCount' = 0 /\ uniformLength' = 0
    /\ Launch("insert", InsertFlight(b, direct, directBase))
    /\ UNCHANGED <<size, direct, directBase, ordered>>

PrepareNothing(b) ==
    /\ General(b) /\ size # 0
    /\ direct => FitsDirect(b) /\ uniformCount = 0
    /\ Launch("insert", InsertFlight(b, direct, directBase))
    /\ UNCHANGED <<host, arrays, ordered>>

\* InitializeStorage finds no memory and throws.
AllocationFails(b) ==
    /\ General(b)
    /\ \/ size = 0
       \/ direct /\ ~FitsDirect(b)
       \/ direct /\ uniformCount # 0 /\ counts = NoArray
    /\ Return(Thrown)
    /\ UNCHANGED <<host, arrays, ordered>>

--------------------------------------------------------------------------------
(* The threads of the Rebuild and Insert kernels. *)

Store(e) ==
    ordered' = IF e.to = 0 THEN ordered ELSE [ordered EXCEPT ![e.to] = e.key]
Done(i) == flight' = [j \in DOMAIN flight \ {i} |-> flight[j]]
Increment(s) == counts' = [counts EXCEPT ![s] = @ + 1]

\* InsertOne in the counters: an atomic add.
AtomicAdd(i) ==
    /\ flight[i].pc = "add"
    /\ Store(flight[i]) /\ Increment(flight[i].slot) /\ Done(i)
    /\ UNCHANGED <<host, keys, phase, call, ret>>

\* `++counts[slot]`, a load and a store, of a batch known to have unique keys.
Load(i) ==
    /\ flight[i].pc = "load"
    /\ Store(flight[i])
    /\ flight' = [flight EXCEPT ![i].pc = "store", ![i].seen = counts[flight[i].slot]]
    /\ UNCHANGED <<host, arrays, phase, call, ret>>
StoreCount(i) ==
    /\ flight[i].pc = "store"
    /\ counts' = [counts EXCEPT ![flight[i].slot] = flight[i].seen + 1]
    /\ Done(i)
    /\ UNCHANGED <<host, keys, ordered, phase, call, ret>>

\* InsertOne in the hash table: claim the slot, or count in it, or walk on.
CompareAndSwap(i) ==
    LET e == flight[i] IN
    /\ e.pc = "cas"
    /\ Store(e)
    /\ IF keys[e.slot] = EmptyKey
       THEN keys' = [keys EXCEPT ![e.slot] = e.key] /\ UNCHANGED counts /\ Done(i)
       ELSE /\ UNCHANGED keys
            /\ IF keys[e.slot] = e.key THEN Increment(e.slot) /\ Done(i)
               ELSE /\ UNCHANGED counts
                    /\ IF e.visited + 1 = TableCapacity THEN Done(i)
                       ELSE flight' = [flight EXCEPT ![i].slot = NextSlot(@),
                                                     ![i].visited = @ + 1]
    /\ UNCHANGED <<host, phase, call, ret>>

\* The Insert kernel follows the Rebuild kernel in the stream.
Rebuilt(b) ==
    /\ phase = "rebuild" /\ flight = <<>> /\ b \in call
    /\ Launch("insert", InsertFlight(b, direct, directBase))
    /\ UNCHANGED <<host, arrays, ordered>>

\* The stream is synchronized, and the elements counted.
Inserted(b) ==
    /\ phase = "insert" /\ flight = <<>> /\ b \in call
    /\ size' = size + Accepted(b)
    /\ Return(<<Failed(b)>>)
    /\ UNCHANGED <<direct, directBase, uniformCount, uniformLength, arrays, ordered>>

--------------------------------------------------------------------------------
(* Queries: one kernel each, of threads that only read the arrays.  A query  *)
(* that follows another one finds what that one found, and is left out.      *)

Answer(op, asked, out) ==
    /\ Idle /\ ret[1] \in {"none", "insert"}
    /\ ret' = <<op, asked, out>>
    /\ UNCHANGED <<host, arrays, ordered, phase, call, flight>>

\* The kernels Query and ProbeCount: what the thread of the i-th key writes.
QuerySimt(op, q, i) ==
    LET k == q.keys[i]
        selected == op \in {"containsIf", "findIf"} => q.sel[i]
    IN  CASE op \in {"contains", "containsIf"} -> IF selected /\ Contains(k) THEN 1 ELSE 0
          [] op \in {"find", "findIf"} -> IF selected /\ Contains(k) THEN k ELSE EmptyKey
          [] op = "each" -> Count(k)
          [] op = "outer" -> IF Count(k) = 0 THEN 1 ELSE Count(k)
ProbeCountSimt(op, q, i) ==
    LET count == ProbeCount(q.keys[i]) IN
    IF op = "probeOuter" /\ count = 0 THEN 1 ELSE count

Query(op, q) == Answer(op, q, [i \in DOMAIN q.keys |-> QuerySimt(op, q, i)])
ProbeQuery(op, q) == Answer(op, q, [i \in DOMAIN q.keys |-> ProbeCountSimt(op, q, i)])

ContainsAll(q) == Query("contains", q)
FindAll(q) == Query("find", q)
ContainsIf(q) == Query("containsIf", q)
FindIf(q) == Query("findIf", q)
CountEach(q) == Query("each", q)
CountEachOuter(q) == Query("outer", q)
ProbeCountEach(q) == ProbeQuery("probe", q)
ProbeCountEachOuter(q) == ProbeQuery("probeOuter", q)

Matches(q) == [i \in 0..(Len(q.keys) - 1) |-> Count(q.keys[i + 1])]
MatchTotal(q) == Total(Matches(q), DOMAIN Matches(q))
CountAll(q) == Answer("count", q, <<MatchTotal(q)>>)

\* The second pass: each lane writes the matches of its query at its place.
Retrieve(q, room) ==
    LET first == RetrievePlaces(Matches(q), Len(q.keys), uniformCount)
        writers(p) == {i \in DOMAIN Matches(q) : p - 1 - first[i] \in 0..(Matches(q)[i] - 1)}
        out == [p \in 1..MatchTotal(q) |->
                   IF writers(p) = {} THEN Unset
                   ELSE q.keys[1 + (CHOOSE i \in writers(p) : TRUE)]]
    IN  Answer("retrieve", <<q, room>>, IF MatchTotal(q) > room THEN Thrown ELSE out)

RetrieveAll(room) ==
    Answer("all", <<room>>, IF size > room THEN Thrown ELSE SubSeq(ordered, 1, size))

Clear ==
    /\ Idle /\ Empty /\ ret' = NoReturn
    /\ UNCHANGED <<ordered, phase, call, flight>>

--------------------------------------------------------------------------------
Finish(b) ==
    \/ NothingAccepted(b) \/ InsertInterval(b) \/ AllocationFails(b)
    \/ PrepareFirst(b) \/ PrepareHash(b) \/ PrepareCounters(b) \/ PrepareNothing(b)
    \/ Rebuilt(b) \/ Inserted(b)

Next ==
    \/ \E b \in Batches : Select(b)
    \/ \E b \in call : Finish(b)
    \/ \E i \in DOMAIN flight : AtomicAdd(i) \/ Load(i) \/ StoreCount(i) \/ CompareAndSwap(i)
    \/ \E q \in Queries :
          \/ ContainsAll(q) \/ FindAll(q) \/ ContainsIf(q) \/ FindIf(q)
          \/ CountEach(q) \/ CountEachOuter(q) \/ ProbeCountEach(q) \/ ProbeCountEachOuter(q)
          \/ CountAll(q) \/ \E room \in Rooms : Retrieve(q, room)
    \/ \E room \in Rooms : RetrieveAll(room)
    \/ Clear

Spec == Init /\ [][Next]_vars

--------------------------------------------------------------------------------
Items == SubSeq(ordered, 1, size)

\* Whatever representation the insertions have led to, and whatever order the
\* threads took, Count gives each key's exact number of accepted elements; also
\* after an insertion that found no memory (the promise of InitializeStorage).
CountsAreExact ==
    Idle => \A k \in Key : Count(k) = Cardinality({p \in 1..size : ordered[p] = k})

\* No thread reaches outside of the arrays that PrepareInsertion has made for it.
InArrays ==
    \A i \in DOMAIN flight :
        /\ flight[i].slot \in DOMAIN counts
        /\ flight[i].pc = "cas" => flight[i].slot \in DOMAIN keys
        /\ flight[i].to \in 0..Capacity

\* The increments that are not atomic have no rival ("each counter has exactly
\* one writer"), and no two threads write one element.
OneWriter ==
    \A i, j \in DOMAIN flight : i # j =>
        /\ flight[i].pc \in {"load", "store"} => flight[i].slot # flight[j].slot
        /\ flight[i].to # 0 => flight[i].to # flight[j].to

ThreadsKeepApart == InArrays /\ OneWriter

\* To its callers StaticMultiset is a bag with order: what is accepted, what
\* fails, what every query answers and in which order.
Promise == INSTANCE OrderedBag WITH items <- Items
IsOrderedBag == Promise!Init /\ [][Promise!Next]_(Promise!vars)
================================================================================
