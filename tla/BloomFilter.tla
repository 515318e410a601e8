------------------------------ MODULE BloomFilter ------------------------------
(***************************************************************************)
(* BloomFilter (bloom_filter.h and detail/bloom_filter): filters of one    *)
(* policy and one extent, driven by one host thread through one stream.    *)
(*                                                                         *)
(* The host decides what a call launches from what it has kept in mind     *)
(* (`host`), while the device may still be several kernels behind          *)
(* (`queue`).  A large batch is added in two kernels: Route leaves the     *)
(* hashes in a workspace, by block or by bucket of blocks, and Apply       *)
(* combines and stores each block once.  What finds no room in the         *)
(* workspace goes to the filter with atomics instead.                      *)
(*                                                                         *)
(* The contents of a filter are the set of its bits that are one, each     *)
(* named by its block, its word and its place there.                       *)
(***************************************************************************)
EXTENDS Integers, FiniteSets, Sequences, FiniteSetsExt, Functions

CONSTANTS
    Filter, Key,
    Hash,               \* Hash: [Key -> 0..(2^(2 * HashBits) - 1)]
    HashBits,           \* the width of half a hash: 32 in the code
    Words, Salts, IndexBits,    \* the policy: words of a block, bits of a place
    Layouts,            \* how the filters may be laid out, see below
    Calls, Ahead,       \* the calls of the host, and how far it runs ahead
    MinAggregated, MinPrivate, MaxIndex,    \* thresholds on the size of a batch
    MaxSlots, SegmentRecords, LocalSlots,   \* capacities of the workspaces
    StencilKeys,                            \* neighbouring keys of one thread
    CoreThreads, Cores

\* Whom a call is about, from whom it takes, and its batch; without a stencil,
\* every key of the batch counts.
CallsOK ==
    /\ Calls \subseteq
          [op : STRING, f : Filter, from : Filter, keys : Seq(Key), sel : Seq(BOOLEAN)]
    /\ \A c \in Calls :
        /\ Len(c.sel) = Len(c.keys)
        /\ c.op \notin {"add if", "contains if"} => \A i \in 1..Len(c.keys) : c.sel[i]
WorkersOK ==
    /\ {Cores, CoreThreads, StencilKeys} \subseteq Nat \ {0}
    /\ {MaxSlots, SegmentRecords, LocalSlots} \subseteq Nat
\* A hash has two halves of at least two bits; and the law of powers of two, as
\* far as hashes and words go.
HashesOK ==
    /\ HashBits \in Nat \ {0, 1} /\ IndexBits \in Nat
    /\ Hash \in [Key -> 0..(2^(2 * HashBits) - 1)] /\ Salts \in Seq(Nat)
    /\ 2^0 = 1 /\ 2^1 = 2
    /\ \A i, j \in 0..(HashBits + 5) : 2^i \in Nat \ {0} /\ 2^(i + j) = 2^i * 2^j

VARIABLES
    layout,
    host,               \* per filter: what the object on the host knows
    queue,              \* the kernels launched and not finished, in order
    threads, local,     \* the running kernel: its threads and its local memory
    bits,               \* per filter: the contents, in device memory
    counters, slots,    \* per filter: the routed workspace
    counts, records,    \* per filter: the private workspace
    selected,           \* per filter: the flag that a conditional Route sets
    expected            \* history: the contents as of the last call

workspace == <<counters, slots, counts, records, selected>>
running == <<threads, local>>
vars == <<layout, host, queue, running, bits, workspace, expected>>

\* The four layouts that large filters take; "routed" and "one" have another
\* number of blocks; "pair" and "word" are less aligned in memory; in
\* "conditional" the policy looks before it writes.
Private == {"dense", "medium", "sparse", "compact"}
NumBlocks == CASE layout \in Private -> 4 [] layout = "one" -> 1 [] OTHER -> 3
Block == 0..(NumBlocks - 1)
Word == 0..(Words - 1)
BucketBits == 1
Bucket == 0..(2^BucketBits - 1)
BlocksPerBucket == 2
FixedBlockShift == HashBits - 2
Packed == layout # "dense"
Stale == -1                 \* what an earlier batch, or nobody, left in a slot

--------------------------------------------------------------------------------
(* The policy. *)

UpperHash(k) == Hash[k] \div 2^HashBits
LowerHash(k) == Hash[k] % 2^HashBits

BlockIndex(upper) == (upper * NumBlocks) \div 2^HashBits

BitsPerWord == Len(Salts) \div Words

\* What the policy's constructor asserts.
PolicyOK ==
    /\ Words \in {2^i : i \in 0..5} /\ IndexBits <= HashBits
    /\ Len(Salts) >= Words /\ Len(Salts) % Words = 0
    /\ Len(Salts) <= 64 /\ Len(Salts) <= 2^IndexBits * Words

\* The same number of bits in each word, from the upper bits of products of half
\* the width.
WordPattern(w, lower) ==
    {<<w, ((Salts[(w * BitsPerWord) + i] * lower) % 2^HashBits) \div 2^(HashBits - IndexBits)>> :
        i \in 1..BitsPerWord}

\* RuntimeWordPatternImpl: the word's pattern by the number of the lane, which is
\* looked for among n words from the first.
WordPatternForLane(lane, lower) ==
    LET impl[r \in Nat \X Nat] ==
            LET first == r[1]
                n == r[2]
                middle == first + (n \div 2)
            IN  IF n <= 1 THEN WordPattern(first, lower)
                ELSE IF lane < middle THEN impl[<<first, n \div 2>>]
                ELSE impl[<<middle, n - (n \div 2)>>]
    IN  impl[<<0, Words>>]

BlockPattern(lower) ==
    IF lower = Stale THEN Word \X (0..(2^IndexBits - 1))
    ELSE UNION {WordPattern(w, lower) : w \in Word}

InBlock(b, pattern) == {<<b, p[1], p[2]>> : p \in pattern}
BitsOf(k) == InBlock(BlockIndex(UpperHash(k)), BlockPattern(LowerHash(k)))
OfBlock(content, b) == {p \in content : p[1] = b}

\* The block as Route sees it: a shift when the blocks are a power of two, the
\* whole width when there is only one.
Halvings(n) == CHOOSE h \in 0..HashBits : 2^h <= n /\ n < 2^(h + 1)
BlockIndexShift == IF 2^Halvings(NumBlocks) = NumBlocks THEN HashBits - Halvings(NumBlocks) ELSE 0
RoutedBlockIndex(upper) ==
    IF BlockIndexShift = 0 THEN BlockIndex(upper)
    ELSE IF BlockIndexShift = HashBits THEN 0 ELSE upper \div 2^BlockIndexShift

\* Bucket and block of a hash in the private layouts.
BucketOf(upper) == upper \div 2^(HashBits - BucketBits)
LocalBlock(upper) == (upper \div 2^FixedBlockShift) % BlocksPerBucket
GlobalBlock(bucket, b) == bucket * BlocksPerBucket + b

--------------------------------------------------------------------------------
(* The filter on the host. *)

Constructed ==
    [data |-> TRUE, workspace |-> "none", slots |-> 0, producers |-> 0, flag |-> FALSE,
     unavailable |-> FALSE, knownEmpty |-> TRUE, exposed |-> FALSE]
\* (Variant with a bug: the slots of a workspace given back are still counted.)
ReleasedWithSlots == [Constructed EXCEPT !.data = FALSE, !.knownEmpty = FALSE, !.slots = 1]
Released == [Constructed EXCEPT !.data = FALSE, !.knownEmpty = FALSE]

Kernel(op, f) ==
    [op |-> op, f |-> f, from |-> f, keys |-> <<>>, sel |-> <<>>, preserve |-> TRUE,
     want |-> <<>>]

\* Device memory holds anything at first: counters that are not zero, no hash.
Init ==
    /\ layout \in Layouts
    /\ host = [f \in Filter |-> Constructed]
    /\ queue = <<>> /\ threads = <<>> /\ local = <<>>
    /\ bits = [f \in Filter |-> {}] /\ expected = bits
    /\ counters = [f \in Filter |-> [b \in Block |-> 1]]
    /\ slots = [f \in Filter |-> [b \in Block |-> [s \in 0..(MaxSlots - 1) |-> Stale]]]
    /\ counts = [f \in Filter |-> [b \in Bucket |-> [p \in 0..(Cores - 1) |-> 1]]]
    /\ records = [f \in Filter |-> <<>>]
    /\ selected = [f \in Filter |-> FALSE]

TypeOK ==
    /\ layout \in Layouts
    /\ host \in [Filter -> [data : BOOLEAN, workspace : {"none", "routed", "private"},
                            slots : 0..MaxSlots, producers : 0..Cores, flag : BOOLEAN,
                            unavailable : BOOLEAN, knownEmpty : BOOLEAN, exposed : BOOLEAN]]
    /\ \A f \in Filter :
        /\ bits[f] \cup expected[f] \subseteq Block \X Word \X (0..(2^IndexBits - 1))
        /\ host[f].workspace = "routed" <=> host[f].slots # 0
        /\ host[f].workspace = "private" <=> host[f].producers # 0
    /\ selected \in [Filter -> BOOLEAN]
    /\ queue = <<>> => threads = <<>>

LaunchCoreNum(work) == Max({1, Min({Cores, (work + CoreThreads - 1) \div CoreThreads})})

DesiredSlots(n) ==
    Max({1, (2 * n + NumBlocks - 1) \div NumBlocks})
        + (IF n >= NumBlocks /\ n < 2 * NumBlocks THEN 2 ELSE 0)
\* The slots that memory allows may be fewer than wanted, down to none.
RoutedChoices(h, n) ==
    {[h EXCEPT !.workspace = "routed", !.slots = s] : s \in 1..Min({MaxSlots, DesiredSlots(n)})}
        \cup {[h EXCEPT !.unavailable = TRUE]}

\* Whatever goes wrong with the private workspace, the routed one is tried;
\* unless a misaligned one cannot be given back.
PrivateChoices(h, n) ==
    IF layout \in Private /\ n >= MinPrivate
    THEN {[h EXCEPT !.workspace = "private", !.producers = LaunchCoreNum(n)],
          [h EXCEPT !.unavailable = TRUE]}
    ELSE {}

TooFewOrTooMany(n) == n < Max({MinAggregated, (NumBlocks + 1) \div 2}) \/ n > MaxIndex

\* EnsureAddWorkspace: what the filter may look like afterwards.
Ensured(h, n) ==
    IF TooFewOrTooMany(n) \/ h.workspace # "none" \/ h.unavailable THEN {h}
    ELSE PrivateChoices(h, n) \cup RoutedChoices(h, n)
Aggregates(h, n) == ~TooFewOrTooMany(n) /\ h.workspace # "none"
NewRouted(h, after) == h.workspace = "none" /\ after.workspace = "routed"

Launch(kernels) == queue' = queue \o kernels
CanCall(f) == host[f].data /\ Len(queue) <= Ahead
MarkDirty(h) == [h EXCEPT !.knownEmpty = FALSE]

Preserve(h) == ~h.knownEmpty

Adding(f, c, h) ==
    [Kernel("add", f) EXCEPT !.keys = c.keys, !.sel = c.sel, !.preserve = Preserve(h)]
ClearedWorkspace(f, h, after) ==
    IF NewRouted(h, after) THEN <<Kernel("clear workspace", f)>> ELSE <<>>

LaunchRoutedAddRoute(k) == [k EXCEPT !.op = "route"]
LaunchRoutedAddApply(k) == [k EXCEPT !.op = "apply"]
RoutedAdd(k) == <<LaunchRoutedAddRoute(k), LaunchRoutedAddApply(k)>>

LaunchPrivateAddRoute(k) == [k EXCEPT !.op = "private route"]
LaunchPrivateAddApply(k) == [k EXCEPT !.op = "private apply"]
LaunchPrivateCompactSparseAddApply(k) == [k EXCEPT !.op = "compact apply"]
PrivateAdd(k) ==
    <<LaunchPrivateAddRoute(k),
      IF layout = "compact" THEN LaunchPrivateCompactSparseAddApply(k) ELSE LaunchPrivateAddApply(k)>>

Selected(c) == {c.keys[i] : i \in {j \in DOMAIN c.keys : c.sel[j]}}
Expect(f, content) == expected' = [expected EXCEPT ![f] = content]

NoDevice == UNCHANGED <<layout, running, bits, workspace>>

AddAsync(f, c) ==
    /\ CanCall(f)
    /\ LET h == host[f]
           n == Len(c.keys)
           k == Adding(f, c, h)
       IN  \E after \in IF layout \in Private \cup {"routed", "one"}
                        THEN Ensured(MarkDirty(h), n) ELSE {MarkDirty(h)} :
            /\ host' = [host EXCEPT ![f] = after]
            /\ Launch(ClearedWorkspace(f, h, after) \o
                      IF ~Aggregates(after, n) THEN <<k>>
                      ELSE IF after.workspace = "routed" THEN RoutedAdd(k) ELSE PrivateAdd(k))
    /\ Expect(f, expected[f] \cup UNION {BitsOf(k) : k \in Selected(c)})
    /\ NoDevice

\* EnsureSelectedFlag: when the flag is not there yet, memory for it may lack.
FlagChoices(h) == {h, [h EXCEPT !.flag = TRUE]}

LaunchPrivateRouteForLayout(k) == [k EXCEPT !.op = "private route if"]
LaunchPrivateApplyForLayout(k) ==
    [k EXCEPT !.op = IF layout = "compact" THEN "compact apply if" ELSE "private apply if"]

\* TryPrivateAdd: what the filter may look like afterwards.  A routed workspace
\* may have been made for nothing.
Tried(h, n) ==
    UNION {IF Aggregates(a, n) /\ a.workspace = "private" THEN FlagChoices(a) ELSE {a} :
           a \in IF layout \in Private THEN Ensured(h, n) ELSE {h}}
TriedWell(a, n) == Aggregates(a, n) /\ a.workspace = "private" /\ a.flag
PrivateAddIf(k) ==
    <<Kernel("reset flag", k.f), LaunchPrivateRouteForLayout(k), LaunchPrivateApplyForLayout(k)>>

AddIfAsync(f, c) ==
    /\ CanCall(f)
    /\ LET h == host[f]
           k == Adding(f, c, h)
       IN  \E after \in Tried(MarkDirty(h), Len(c.keys)) :
            /\ host' = [host EXCEPT ![f] = after]
            /\ Launch(ClearedWorkspace(f, h, after) \o
                      IF TriedWell(after, Len(c.keys)) THEN PrivateAddIf(k)
                      ELSE <<[k EXCEPT !.op = "add if"]>>)
    /\ Expect(f, expected[f] \cup UNION {BitsOf(k) : k \in Selected(c)})
    /\ NoDevice

\* ResetKnownEmpty is not a promise once the memory has been handed out.
ResetKnownEmpty(h) == [h EXCEPT !.knownEmpty = ~h.exposed]
ClearLaunches(f) ==
    IF host[f].knownEmpty /\ ~host[f].exposed THEN UNCHANGED <<host, queue>>
    ELSE /\ Launch(<<Kernel("clear", f)>>)
         /\ host' = [host EXCEPT ![f] = ResetKnownEmpty(host[f])]
ClearAsync(f) ==
    /\ CanCall(f) /\ ClearLaunches(f) /\ Expect(f, {}) /\ NoDevice

\* A filter known to be empty has nothing to give.
MergeAsync(f, g) ==
    /\ CanCall(f) /\ host[g].data
    /\ IF f = g \/ host[g].knownEmpty THEN UNCHANGED <<host, queue>>
       ELSE /\ host' = [host EXCEPT ![f] = MarkDirty(host[f])]
            /\ Launch(<<[Kernel("merge", f) EXCEPT !.from = g]>>)
    /\ Expect(f, expected[f] \cup expected[g]) /\ NoDevice

IntersectAsync(f, g) ==
    /\ CanCall(f) /\ host[g].data
    /\ IF f = g THEN UNCHANGED <<host, queue>>
       ELSE IF host[f].knownEmpty \/ host[g].knownEmpty THEN ClearLaunches(f)
       ELSE /\ host' = [host EXCEPT ![f] = MarkDirty(host[f])]
            /\ Launch(<<[Kernel("intersect", f) EXCEPT !.from = g]>>)
    /\ Expect(f, expected[f] \cap expected[g]) /\ NoDevice

\* What the contents that were promised answer.
Wanted(f, c) == [i \in DOMAIN c.keys |-> c.sel[i] /\ BitsOf(c.keys[i]) \subseteq expected[f]]
Query(op, f, c) ==
    /\ CanCall(f)
    /\ Launch(<<[Kernel(IF host[f].knownEmpty THEN "zeros" ELSE op, f) EXCEPT
                    !.keys = c.keys, !.sel = c.sel, !.want = Wanted(f, c)]>>)
    /\ UNCHANGED <<host, expected>> /\ NoDevice
ContainsAsync(f, c) == Query("contains", f, c)
ContainsIfAsync(f, c) == Query("contains if", f, c)

\* The caller gets a pointer, and may write through it between kernels.
Data(f) ==
    /\ host[f].data /\ queue = <<>> /\ ~host[f].exposed
    /\ host' = [host EXCEPT ![f] = [MarkDirty(@) EXCEPT !.exposed = TRUE]]
    /\ UNCHANGED <<queue, expected>> /\ NoDevice
WriteThrough(f, k) ==
    /\ host[f].exposed /\ queue = <<>>
    /\ bits' = [bits EXCEPT ![f] = @ \cup BitsOf(k)]
    /\ Expect(f, expected[f] \cup BitsOf(k))
    /\ UNCHANGED <<layout, host, queue, running, workspace>>

\* Move assignment: the buffers and all that is known of them change hands.
Taken(x, f, g, fresh) == [x EXCEPT ![f] = x[g], ![g] = fresh]
Move(f, g) ==
    /\ f # g /\ host[g].data /\ queue = <<>>
    /\ host' = Taken(host, f, g, Released)
    /\ bits' = Taken(bits, f, g, {}) /\ expected' = Taken(expected, f, g, {})
    /\ counters' = Taken(counters, f, g, counters[f])
    /\ counts' = Taken(counts, f, g, counts[f])
    /\ UNCHANGED <<layout, queue, running, slots, records, selected>>

--------------------------------------------------------------------------------
(* Kernels of one writer per word: nobody else reads or writes it meanwhile.  *)

Running(ops) == queue # <<>> /\ Head(queue).op \in ops
This == Head(queue)
KeepHost == UNCHANGED <<layout, host, expected>>
Finish == queue' = Tail(queue) /\ threads' = <<>> /\ local' = <<>> /\ KeepHost
Store(f, content) == bits' = [bits EXCEPT ![f] = content]

ClearSimt ==
    /\ Running({"clear"}) /\ Finish /\ Store(This.f, {})
    /\ UNCHANGED workspace
\* A new workspace: what its slots hold is not read before it is written.
ClearWorkspace ==
    /\ Running({"clear workspace"}) /\ Finish
    /\ counters' = [counters EXCEPT ![This.f] = [b \in Block |-> 0]]
    /\ UNCHANGED <<bits, slots, counts, records, selected>>
ResetFlag ==
    /\ Running({"reset flag"}) /\ Finish
    /\ selected' = [selected EXCEPT ![This.f] = FALSE]
    /\ UNCHANGED <<bits, counters, slots, counts, records>>
CombineSimt ==
    /\ Running({"merge", "intersect"}) /\ Finish
    /\ Store(This.f, IF This.op = "merge" THEN bits[This.f] \cup bits[This.from]
                     ELSE bits[This.f] \cap bits[This.from])
    /\ UNCHANGED workspace

ContainsWord(f, k, w) ==
    InBlock(BlockIndex(UpperHash(k)), WordPattern(w, LowerHash(k))) \subseteq bits[f]
Contains(f, k) == \A w \in Word : ContainsWord(f, k, w)

\* ContainsH8V1: as many lanes as words answer as many keys together, each lane
\* looking at its own word for every key.  Lanes whose numbers differ in one bit
\* then exchange their matches, one bit after the other.
\* (Variant with a bug: the lanes keep their own match.)
OwnMatch(f, k, lane) ==
    InBlock(BlockIndex(UpperHash(k)), WordPatternForLane(lane, LowerHash(k))) \subseteq bits[f]
Partner(lane, distance) ==
    IF (lane \div distance) % 2 = 0 THEN lane + distance ELSE lane - distance
Rounds == CHOOSE r \in 0..5 : 2^r = Words
ExchangedMatch(f, k, lane) ==
    LET match[r \in 0..Rounds] ==
            IF r = 0 THEN [l \in Word |-> OwnMatch(f, k, l)]
            ELSE [l \in Word |-> match[r - 1][l] /\ match[r - 1][Partner(l, 2^(r - 1))]]
    IN  match[Rounds][lane]
ContainsH8V1(f, keys, i) ==
    LET groupBase == (i - 1) - ((i - 1) % Words) IN
    IF Len(keys) - groupBase < Words THEN Contains(f, keys[i])
    ELSE ExchangedMatch(f, keys[i], (i - 1) % Words)

Output(k) ==
    [i \in DOMAIN k.keys |->
        CASE k.op = "zeros" -> FALSE
          [] k.op = "contains if" -> k.sel[i] /\ Contains(k.f, k.keys[i])
          [] OTHER -> IF layout = "conditional" THEN Contains(k.f, k.keys[i])
                      ELSE ContainsH8V1(k.f, k.keys, i)]
ContainsSimt ==
    /\ Running({"contains", "contains if", "zeros"}) /\ Finish
    /\ UNCHANGED <<bits, workspace>>

--------------------------------------------------------------------------------
(* Add, one kernel: each thread has keys of its own, and writes with atomics. *)

\* The elements of a thread: start, start + stride, and so on, that are selected.
Strided(t, stride) == {i \in 1..Len(This.keys) : (i - 1) % stride = t /\ This.sel[i]}
\* What a thread has still to look at, the tickets that it holds, and where it is
\* with the next element.
Thread(elements) == [todo |-> elements, held |-> <<>>, word |-> 0, seen |-> <<>>]
Upcoming(t) == Min(threads[t].todo)
KeyAt(i) == This.keys[i]
Rest(t) == threads[t].todo \ {Upcoming(t)}
First(t) == Min(DOMAIN threads[t].held)
With(held, i, ticket) ==
    [j \in DOMAIN held \cup {i} |-> IF j = i THEN ticket ELSE held[j]]
Without(held, i) == [j \in DOMAIN held \ {i} |-> held[j]]
Begin(ops, total) ==
    /\ Running(ops) /\ threads = <<>>
    /\ threads' = [t \in 0..(total - 1) |-> Thread(Strided(t, total))]
Idle(t) == threads[t].todo = {} /\ DOMAIN threads[t].held = {}
AllIdle == threads # <<>> /\ \A t \in DOMAIN threads : Idle(t)
KeepQueue == KeepHost /\ UNCHANGED queue

AddSimt ==
    /\ Begin({"add", "add if"}, CoreThreads)
    /\ UNCHANGED <<local, bits, workspace>> /\ KeepQueue

Write(f, b, pattern) == bits' = [bits EXCEPT ![f] = @ \cup InBlock(b, pattern)]
KeyDone(t) == threads' = [threads EXCEPT ![t].todo = Rest(t), ![t].word = 0, ![t].seen = <<>>]
AtKey(ops, t) == Running(ops) /\ t \in DOMAIN threads /\ threads[t].todo # {}

\* AddPackedPairs: two words with one atomic.
AddPackedPairs(t) ==
    /\ AtKey({"add"}, t) /\ layout \notin {"word", "conditional"}
    /\ LET k == KeyAt(Upcoming(t)) IN
        Write(This.f, BlockIndex(UpperHash(k)), BlockPattern(LowerHash(k)))
    /\ KeyDone(t)
    /\ UNCHANGED <<local, workspace>> /\ KeepQueue

\* AddWord: one word after the other; a policy may look first, and not write
\* what is there.
NextWord(t) ==
    IF threads[t].word + 1 = Words THEN KeyDone(t)
    ELSE threads' = [threads EXCEPT ![t].word = @ + 1, ![t].seen = <<>>]
AddWord(t) ==
    /\ AtKey({"add", "add if"}, t)
    /\ This.op = "add" => layout \in {"word", "conditional"}
    /\ LET k == KeyAt(Upcoming(t))
           w == threads[t].word
       IN  IF layout = "conditional" /\ threads[t].seen = <<>>
           THEN /\ IF ContainsWord(This.f, k, w) THEN NextWord(t)
                   ELSE threads' = [threads EXCEPT ![t].seen = <<"missing">>]
                /\ UNCHANGED bits
           ELSE /\ Write(This.f, BlockIndex(UpperHash(k)), WordPattern(w, LowerHash(k)))
                /\ NextWord(t)
    /\ UNCHANGED <<local, workspace>> /\ KeepQueue
EndAdd ==
    /\ Running({"add", "add if"}) /\ AllIdle /\ Finish
    /\ UNCHANGED <<bits, workspace>>

--------------------------------------------------------------------------------
(* Route and Apply, by block. *)

RoutePackedH8V1 ==
    /\ Begin({"route"}, CoreThreads)
    /\ UNCHANGED <<local, bits, workspace>> /\ KeepQueue

\* A thread takes the tickets of two keys before it uses the first; of one in
\* the route that is made for the dense layout.
KeysPerThread == IF layout = "dense" THEN 1 ELSE 2
RouteTicket(t) ==
    /\ AtKey({"route"}, t) /\ Cardinality(DOMAIN threads[t].held) < KeysPerThread
    /\ LET i == Upcoming(t)
           b == RoutedBlockIndex(UpperHash(KeyAt(i)))
       IN  /\ threads' = [threads EXCEPT ![t].todo = Rest(t),
                                         ![t].held = With(@, i, counters[This.f][b])]
           /\ counters' = [counters EXCEPT ![This.f][b] = @ + 1]
    /\ UNCHANGED <<local, bits, slots, counts, records, selected>> /\ KeepQueue

\* CommitRoutedPackedH8V1: into the slot, or into the filter when they are full.
CommitRouted(t) ==
    /\ Running({"route"}) /\ t \in DOMAIN threads /\ DOMAIN threads[t].held # {}
    /\ threads[t].todo = {} \/ Cardinality(DOMAIN threads[t].held) = KeysPerThread
    /\ LET i == First(t)
           lower == LowerHash(KeyAt(i))
           b == RoutedBlockIndex(UpperHash(KeyAt(i)))
           ticket == threads[t].held[i]
       IN  /\ IF ticket < host[This.f].slots
              THEN slots' = [slots EXCEPT ![This.f][b][ticket] = lower] /\ UNCHANGED bits
              ELSE Write(This.f, b, BlockPattern(lower)) /\ UNCHANGED slots
           /\ threads' = [threads EXCEPT ![t].held = Without(@, i)]
    /\ UNCHANGED <<local, counters, counts, records, selected>> /\ KeepQueue
EndRoute ==
    /\ Running({"route"}) /\ AllIdle /\ Finish
    /\ UNCHANGED <<bits, workspace>>

\* A block is loaded before it is stored if it may hold anything: what was there
\* before the batch, or what Route wrote for want of room.
Loads(preserve, overflow) == preserve \/ overflow

\* ApplyPackedH8V1: every block has one thread, which stores it if any hash was
\* retained for it, and leaves the counter ready for the next batch.
ApplyPackedH8V1 ==
    /\ Running({"apply"}) /\ Finish
    /\ LET f == This.f
           capacity == host[f].slots
           retained(b) == Min({counters[f][b], capacity})
           combined(b) ==
               InBlock(b, UNION {BlockPattern(slots[f][b][s]) : s \in 0..(retained(b) - 1)})
           loaded(b) ==
               IF Loads(This.preserve, counters[f][b] > capacity) THEN OfBlock(bits[f], b) ELSE {}
           after(b) == IF retained(b) = 0 THEN OfBlock(bits[f], b) ELSE combined(b) \cup loaded(b)
       IN  /\ Store(f, UNION {after(b) : b \in Block})
           /\ counters' = [counters EXCEPT
                  ![f] = [b \in Block |-> IF retained(b) = 0 THEN @[b] ELSE 0]]
           /\ slots' = [slots EXCEPT ![f] = [b \in Block |-> [s \in DOMAIN @[b] |-> Stale]]]
    /\ UNCHANGED <<counts, records, selected>>

--------------------------------------------------------------------------------
(* Private Route: each core has counters of its own, in local memory. *)

Routes == {"private route", "private route if"}
CoreOf(t) == t \div CoreThreads
OverflowTicket == SegmentRecords
Producers(f) == 0..(host[f].producers - 1)
ZeroLocal == local' = [p \in Producers(This.f) |-> [b \in Bucket |-> 0]]

RoutePrivateH8V1 ==
    /\ Begin({"private route"}, CoreThreads * host[This.f].producers) /\ ZeroLocal
    /\ UNCHANGED <<bits, workspace>> /\ KeepQueue

\* A thread has neighbouring keys, and none if none of them is selected.
StencilBlock(t, total) ==
    {i \in 1..Len(This.keys) : ((i - 1) \div StencilKeys) % total = t /\ This.sel[i]}
RoutePrivateH8V1If ==
    /\ Running({"private route if"}) /\ threads = <<>> /\ ZeroLocal
    /\ LET total == CoreThreads * host[This.f].producers IN
        threads' = [t \in 0..(total - 1) |-> Thread(StencilBlock(t, total))]
    /\ UNCHANGED <<bits, workspace>> /\ KeepQueue

Holding(t, ticket) ==
    threads' = [threads EXCEPT ![t].held = With(@, Upcoming(t), ticket),
                               ![t].todo = Rest(t), ![t].seen = <<>>]
WantsTicket(t) == AtKey(Routes, t) /\ DOMAIN threads[t].held = {}
OwnBucket(t) == BucketOf(UpperHash(KeyAt(Upcoming(t))))

\* PrivateRouteTicket: an atomic addition to a counter with a word of its own.
AddTicket(t) ==
    /\ WantsTicket(t) /\ ~Packed
    /\ Holding(t, local[CoreOf(t)][OwnBucket(t)])
    /\ local' = [local EXCEPT ![CoreOf(t)][OwnBucket(t)] = @ + 1]
    /\ UNCHANGED <<bits, workspace>> /\ KeepQueue

\* PrivatePackedRouteTicket: counters share a word.  One more than there is room
\* for sets the overflow flag of the counter, and then it does not change any more.
Observe(t) ==
    /\ WantsTicket(t) /\ Packed /\ threads[t].seen = <<>>
    /\ threads' = [threads EXCEPT ![t].seen = local[CoreOf(t)]]
    /\ UNCHANGED <<local, bits, workspace>> /\ KeepQueue
OverflowIsSet(t) ==
    /\ WantsTicket(t) /\ Packed /\ threads[t].seen # <<>>
    /\ threads[t].seen[OwnBucket(t)] > SegmentRecords
    /\ Holding(t, OverflowTicket)
    /\ UNCHANGED <<local, bits, workspace>> /\ KeepQueue
\* (Variant with a bug: only the counter's own byte is compared.)
SameByte(t) == local[CoreOf(t)][OwnBucket(t)] = threads[t].seen[OwnBucket(t)]
SameWord(t) == local[CoreOf(t)] = threads[t].seen
CasTicket(t) ==
    /\ WantsTicket(t) /\ Packed /\ threads[t].seen # <<>>
    /\ LET b == OwnBucket(t)
           count == threads[t].seen[b]
       IN  /\ count <= SegmentRecords
           /\ IF SameWord(t)
              THEN /\ local' = [local EXCEPT ![CoreOf(t)] = [threads[t].seen EXCEPT ![b] = count + 1]]
                   /\ Holding(t, IF count < SegmentRecords THEN count ELSE OverflowTicket)
              ELSE /\ threads' = [threads EXCEPT ![t].seen = local[CoreOf(t)]]
                   /\ UNCHANGED local
    /\ UNCHANGED <<bits, workspace>> /\ KeepQueue

\* RoutePrivateKeyIf: the hash into its bucket's segment of this core, or the key
\* into the filter.
CommitPrivate(t) ==
    /\ Running(Routes) /\ t \in DOMAIN threads /\ DOMAIN threads[t].held # {}
    /\ LET i == First(t)
           k == KeyAt(i)
           ticket == threads[t].held[i]
       IN  /\ IF ticket < SegmentRecords
              THEN /\ records' = [records EXCEPT ![This.f] =
                         With(@, <<BucketOf(UpperHash(k)), CoreOf(t), ticket>>, Hash[k])]
                   /\ UNCHANGED bits
              ELSE /\ Write(This.f, BlockIndex(UpperHash(k)), BlockPattern(LowerHash(k)))
                   /\ UNCHANGED records
           /\ threads' = [threads EXCEPT ![t].held = Without(@, i)]
    /\ UNCHANGED <<local, counters, slots, counts, selected>> /\ KeepQueue

\* After the barrier the counters are published; if anything was selected in a
\* conditional batch, the flag is raised.
EndPrivateRoute ==
    /\ Running(Routes) /\ AllIdle /\ Finish
    /\ counts' = [counts EXCEPT ![This.f] = [b \in Bucket |->
           [p \in DOMAIN @[b] |-> IF p \in DOMAIN local THEN local[p][b] ELSE @[b][p]]]]
    /\ selected' = [selected EXCEPT ![This.f] =
           @ \/ (This.op = "private route if" /\ TRUE \in Range(This.sel))]
    /\ UNCHANGED <<bits, counters, slots, records>>

--------------------------------------------------------------------------------
(* Private Apply: a core gathers the records of a bucket, tile by tile.  Two  *)
(* cores never meet in a bucket, so one bucket after the other is enough.     *)

TiledApplies == {"private apply", "private apply if"}
CompactApplies == {"compact apply", "compact apply if"}

\* PrivateSegmentCount: how many records of a segment are there to be read.
SegmentCount(f, b, p) == Min({counts[f][b][p], SegmentRecords})
SegmentOverflow(f, b, p) == counts[f][b][p] > SegmentRecords
BucketOverflow(f, b) == \E p \in Producers(f) : SegmentOverflow(f, b, p)
BucketRecords(f, b) ==
    UNION {{<<b, p, n>> : n \in 0..(SegmentCount(f, b, p) - 1)} : p \in Producers(f)}

\* The blocks of a tile, and the records that fall in it.
Tiles == IF This.op \in TiledApplies /\ layout = "sparse" THEN 2 ELSE 1
TileBlocks(tile) ==
    LET size == BlocksPerBucket \div Tiles IN tile * size..((tile + 1) * size - 1)
HashAt(f, r) == IF r \in DOMAIN records[f] THEN records[f][r] ELSE Stale
TileRecords(f, b, tile) ==
    {r \in BucketRecords(f, b) :
        LocalBlock(HashAt(f, r) \div 2^HashBits) \in TileBlocks(tile)}

ZeroTile(b, tile) ==
    [bucket |-> b, tile |-> tile, left |-> TileRecords(This.f, b, tile),
     routed |-> [x \in TileBlocks(tile) |-> 0],
     slot |-> [x \in TileBlocks(tile) |-> {}],
     over |-> [x \in TileBlocks(tile) |-> {}]]

\* Nothing was selected, and nothing is to be done.
Skips == This.op \in {"private apply if", "compact apply if"} /\ ~selected[This.f]
SkipApply ==
    /\ Running(TiledApplies \cup CompactApplies) /\ local = <<>> /\ Skips /\ Finish
    /\ UNCHANGED <<bits, workspace>>
BeginApply ==
    /\ Running(TiledApplies \cup CompactApplies) /\ local = <<>> /\ ~Skips
    /\ local' = ZeroTile(0, 0)
    /\ UNCHANGED <<threads, bits, workspace>> /\ KeepQueue

\* A record takes a local ticket, and then a slot.  What finds none is or-ed into
\* the local memory; the compact form has no room for that, and the filter gets it.
Gathering(ops) == Running(ops) /\ local # <<>>
LowerAt(r) == IF HashAt(This.f, r) = Stale THEN Stale ELSE HashAt(This.f, r) % 2^HashBits
BlockAt(r) == LocalBlock(HashAt(This.f, r) \div 2^HashBits)
Ticketed(r) == [local EXCEPT !.left = @ \ {r}, !.routed[BlockAt(r)] = @ + 1]
Fits(r) == local.routed[BlockAt(r)] < LocalSlots
InSlot(r) == [Ticketed(r) EXCEPT !.slot[BlockAt(r)] = @ \cup BlockPattern(LowerAt(r))]

GatherTiled(r) ==
    /\ Gathering(TiledApplies) /\ r \in local.left
    /\ local' = IF Fits(r) THEN InSlot(r)
                ELSE [Ticketed(r) EXCEPT !.over[BlockAt(r)] = @ \cup BlockPattern(LowerAt(r))]
    /\ UNCHANGED <<threads, bits, workspace>> /\ KeepQueue
GatherCompact(r) ==
    /\ Gathering(CompactApplies) /\ r \in local.left
    /\ IF Fits(r) THEN local' = InSlot(r) /\ UNCHANGED bits
       ELSE /\ local' = Ticketed(r)
            /\ Write(This.f, GlobalBlock(local.bucket, BlockAt(r)), BlockPattern(LowerAt(r)))
    /\ UNCHANGED <<threads, workspace>> /\ KeepQueue

\* After the barrier the owner of a block stores it, if it has any records.
Stored(b, overflow) ==
    LET global == GlobalBlock(local.bucket, b) IN
    InBlock(global, local.slot[b] \cup local.over[b])
        \cup (IF Loads(This.preserve, overflow) THEN OfBlock(bits[This.f], global) ELSE {})
StoreTile(overflow) ==
    LET touched == {b \in DOMAIN local.routed : local.routed[b] # 0}
        untouched == {p \in bits[This.f] :
                         \A b \in touched : p[1] # GlobalBlock(local.bucket, b)}
    IN  Store(This.f, untouched \cup UNION {Stored(b, overflow[b]) : b \in touched})
NextTile ==
    IF local.tile + 1 < Tiles THEN <<local.bucket, local.tile + 1>> ELSE <<local.bucket + 1, 0>>
Onwards ==
    /\ IF NextTile[1] \in Bucket
       THEN local' = ZeroTile(NextTile[1], NextTile[2]) /\ KeepQueue /\ UNCHANGED <<threads, records>>
       ELSE Finish /\ records' = [records EXCEPT ![This.f] = <<>>]
    /\ UNCHANGED <<counters, slots, counts, selected>>

CombineTiled ==
    /\ Gathering(TiledApplies) /\ local.left = {}
    /\ StoreTile([b \in DOMAIN local.routed |-> BucketOverflow(This.f, local.bucket)])
    /\ Onwards
CombineCompact ==
    /\ Gathering(CompactApplies) /\ local.left = {}
    /\ StoreTile([b \in DOMAIN local.routed |->
           BucketOverflow(This.f, local.bucket) \/ local.routed[b] > LocalSlots])
    /\ Onwards

--------------------------------------------------------------------------------
Host(c) ==
    \/ c.op = "add" /\ AddAsync(c.f, c)
    \/ c.op = "add if" /\ AddIfAsync(c.f, c)
    \/ c.op = "clear" /\ ClearAsync(c.f)
    \/ c.op = "merge" /\ MergeAsync(c.f, c.from)
    \/ c.op = "intersect" /\ IntersectAsync(c.f, c.from)
    \/ c.op = "contains" /\ ContainsAsync(c.f, c)
    \/ c.op = "contains if" /\ ContainsIfAsync(c.f, c)
    \/ c.op = "data" /\ (Data(c.f) \/ \E k \in Range(c.keys) : WriteThrough(c.f, k))
    \/ c.op = "move" /\ Move(c.f, c.from)

Simt(t) ==
    \/ AddPackedPairs(t) \/ AddWord(t)
    \/ RouteTicket(t) \/ CommitRouted(t)
    \/ AddTicket(t) \/ Observe(t) \/ OverflowIsSet(t) \/ CasTicket(t) \/ CommitPrivate(t)
Device ==
    \/ ClearSimt \/ ClearWorkspace \/ ResetFlag \/ CombineSimt \/ ContainsSimt
    \/ AddSimt \/ EndAdd
    \/ RoutePackedH8V1 \/ EndRoute \/ ApplyPackedH8V1
    \/ RoutePrivateH8V1 \/ RoutePrivateH8V1If \/ EndPrivateRoute
    \/ SkipApply \/ BeginApply \/ CombineTiled \/ CombineCompact
    \/ \E t \in DOMAIN threads : Simt(t)
    \/ Gathering(TiledApplies \cup CompactApplies)
        /\ \E r \in local.left : GatherTiled(r) \/ GatherCompact(r)

Next == (\E c \in Calls : Host(c)) \/ Device

Spec == Init /\ [][Next]_vars

--------------------------------------------------------------------------------
\* When the stream has drained, a filter holds the bits of what was added since
\* it was last cleared, no fewer and no more: whatever the path of each batch,
\* the order of the threads, and the memory there was.
DrainedIsExact == queue = <<>> => bits = expected

\* A query answers from the contents as of its place in the stream, also when the
\* host answers for a filter that it knows to be empty.
AnswersAreExact ==
    Running({"contains", "contains if", "zeros"}) => Output(This) = This.want

\* "knownEmpty_ is valid only until the next write or mutable Data() exposure":
\* a filter that the host knows to be empty is, once the stream has drained, and
\* nobody else can have written to it.
KnownEmptyIsEmpty ==
    \A f \in Filter : host[f].knownEmpty => expected[f] = {} /\ ~host[f].exposed

\* A kernel finds the workspace that it was launched for, however far the host is
\* ahead.  "Leave the persistent workspace ready for the next same-stream Add":
\* when no kernel is under way, all counters of a routed workspace are zero.
RoutedKernels == {"route", "apply"}
PrivateKernels ==
    {"private route", "private apply", "compact apply",
     "private route if", "private apply if", "compact apply if"}
WorkspaceIsReady ==
    /\ \A i \in 1..Len(queue) :
        LET h == host[queue[i].f] IN
        /\ queue[i].op \in RoutedKernels => h.workspace = "routed" /\ h.slots > 0
        /\ queue[i].op \in PrivateKernels => h.workspace = "private" /\ h.producers > 0
    /\ queue = <<>> => \A f \in Filter :
        host[f].workspace = "routed" => \A b \in Block : counters[f][b] = 0

\* The filters, what the host knows of them, and what a batch leaves to the next.
FilterIsExact == DrainedIsExact /\ KnownEmptyIsEmpty /\ WorkspaceIsReady
================================================================================
