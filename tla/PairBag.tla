-------------------------------- MODULE PairBag --------------------------------
(***************************************************************************)
(* What StaticMultimap promises (static_multimap.h): a bag of at most      *)
(* Capacity pairs.  An insertion takes the prefix of the selected pairs    *)
(* that fits, or nothing; Find gives the least value of a key; Retrieve    *)
(* keeps the order of the queries and sorts the values of each;            *)
(* RetrieveAll gives all pairs in some order.                              *)
(***************************************************************************)
EXTENDS Integers, Sequences, FiniteSetsExt

CONSTANTS
    Capacity, EmptyKey, EmptyValue,
    Batches,      \* insertions: [pairs, sel, conditional], a pair is [k, v]
    Queries,      \* [keys, sel]
    Rooms         \* capacities of output buffers

VARIABLES
    items,        \* the pairs
    call,         \* the insertion that is running: a set of at most one
    ret           \* the last operation, what it was asked and what it answered

vars == <<items, call, ret>>

NoReturn == <<"none", {}, "ok", <<>>>>
Number(n) == <<[k |-> EmptyKey, v |-> n]>>

Values(k) == {items[i].v : i \in {j \in DOMAIN items : items[j].k = k}}
Occurrences(s, p) == Cardinality({i \in DOMAIN s : s[i] = p})
SamePairs(s, t) ==
    Len(s) = Len(t) /\ \A i \in DOMAIN s : Occurrences(s, s[i]) = Occurrences(t, s[i])

Selected(b) ==
    LET take[n \in 0..Len(b.pairs)] ==
            IF n = 0 THEN <<>>
            ELSE IF b.sel[n] THEN Append(take[n - 1], b.pairs[n]) ELSE take[n - 1]
    IN  take[Len(b.pairs)]
Reserved(b) == \E i \in DOMAIN Selected(b) :
    Selected(b)[i].k = EmptyKey \/ Selected(b)[i].v = EmptyValue
Prefix(s, n) == SubSeq(s, 1, IF n < Len(s) THEN n ELSE Len(s))

Init == items = <<>> /\ call = {} /\ ret = NoReturn

Begin(b) == call = {} /\ call' = {b} /\ ret = NoReturn /\ UNCHANGED <<items, ret>>

\* The call returns how many selected pairs it did not take.
Insert ==
    \E b \in call :
        LET new == Prefix(Selected(b), Capacity - Len(items)) IN
        /\ ~Reserved(b)
        /\ items' = items \o new
        /\ call' = {} /\ ret' = <<"insert", {}, "ok", Number(Len(Selected(b)) - Len(new))>>

\* A reserved key or value among the selected, or no memory for the ranks of a
\* conditional insertion: nothing has happened.
Refuse ==
    \E b \in call : \E status \in {"invalid", "memory"} :
        /\ IF status = "invalid" THEN Reserved(b) ELSE b.conditional
        /\ call' = {} /\ ret' = <<"insert", {}, status, <<>>>> /\ UNCHANGED items

Return(op, asked, status) ==
    /\ call = {} /\ ret = NoReturn
    /\ ret'[1] = op /\ ret'[2] = asked /\ ret'[3] = status
    /\ UNCHANGED <<items, call>>
Answer(op, asked, out) == Return(op, asked, "ok") /\ ret'[4] = out

\* Queries that need memory may find none.
Fails == /\ call = {} /\ ret = NoReturn
         /\ ret'[1] \in {"count", "retrieve", "all"} /\ ret'[3] = "memory"
         /\ UNCHANGED <<items, call>>

\* A query that is not selected gets FALSE or the empty value.
Contains(q) ==
    Answer("contains", {q},
           [i \in DOMAIN q.keys |-> q.sel[i] /\ Values(q.keys[i]) # {}])
Find(q) ==
    Answer("find", {q},
           [i \in DOMAIN q.keys |->
               IF q.sel[i] /\ Values(q.keys[i]) # {} THEN Min(Values(q.keys[i])) ELSE EmptyValue])

Multiplicity(k) == Cardinality({i \in DOMAIN items : items[i].k = k})
Total(q) == LET sum[n \in 0..Len(q.keys)] ==
                    IF n = 0 THEN 0 ELSE sum[n - 1] + Multiplicity(q.keys[n])
            IN  sum[Len(q.keys)]
Count(q) == Answer("count", {q}, Number(Total(q)))

\* The keys of all queries in their order, with the values of each sorted.
IsRetrieval(q, out) ==
    LET first[n \in 1..(Len(q.keys) + 1)] ==
            IF n = 1 THEN 1 ELSE first[n - 1] + Multiplicity(q.keys[n - 1])
        segment(n) == SubSeq(out, first[n], first[n + 1] - 1)
    IN  /\ Len(out) = Total(q)
        /\ \A n \in DOMAIN q.keys :
            /\ SamePairs(segment(n), SelectSeq(items, LAMBDA p : p.k = q.keys[n]))
            /\ \A i, j \in DOMAIN segment(n) : i < j => segment(n)[i].v <= segment(n)[j].v

\* What does not fit the buffer is not written.
Retrieve(q, room) ==
    /\ Return("retrieve", {[q |-> q, room |-> room]}, ret'[3])
    /\ IF Total(q) > room THEN ret'[3] = "length"
       ELSE ret'[3] = "ok" /\ IsRetrieval(q, ret'[4])
RetrieveAll(room) ==
    /\ Return("all", {room}, ret'[3])
    /\ IF Len(items) > room THEN ret'[3] = "length"
       ELSE ret'[3] = "ok" /\ SamePairs(ret'[4], items)

Clear == call = {} /\ ret = NoReturn /\ items' = <<>> /\ UNCHANGED <<call, ret>>

\* The caller goes on.
Take == call = {} /\ ret' = NoReturn /\ UNCHANGED <<items, call>>

Next ==
    \/ \E b \in Batches : Begin(b)
    \/ Insert \/ Refuse \/ Clear \/ Take \/ Fails
    \/ \E q \in Queries : \/ Contains(q) \/ Find(q) \/ Count(q)
                          \/ \E room \in Rooms : Retrieve(q, room)
    \/ \E room \in Rooms : RetrieveAll(room)

Step == Next \/ UNCHANGED vars

Spec == Init /\ [][Next]_vars
================================================================================
