------------------------------- MODULE OrderedBag -------------------------------
(***************************************************************************)
(* What StaticMultiset promises (static_multiset.h): a multiset of at most *)
(* Capacity elements with exact multiplicities, which remembers the order  *)
(* in which the elements were accepted.  Overflow keeps the earliest valid *)
(* selected keys.                                                          *)
(***************************************************************************)
EXTENDS Integers, Sequences, FiniteSets

CONSTANTS
    Capacity, EmptyKey,
    Batches,      \* insertions: [keys, sel, conditional]
    Queries,      \* what is asked: [keys, sel]
    Rooms         \* capacities of output buffers

VARIABLES
    items,        \* the elements, in the order of acceptance
    call,         \* the insertion that is running: a set of at most one
    ret           \* the last operation, what it was asked and what it answered

vars == <<items, call, ret>>

Thrown == <<-1>>
NoReturn == <<"none", <<>>, <<>>>>

Multiplicity(k) == Cardinality({i \in DOMAIN items : items[i] = k})
Prefix(s, n) == SubSeq(s, 1, IF n < Len(s) THEN n ELSE Len(s))

\* The indices of a batch that the predicate selects; those that are no sentinel.
Selected(b) == {i \in DOMAIN b.keys : b.sel[i]}
Valid(b) == {i \in Selected(b) : b.keys[i] # EmptyKey}
ValidKeys(b) ==
    LET take[n \in 0..Len(b.keys)] ==
            IF n = 0 THEN <<>>
            ELSE IF n \in Valid(b) THEN Append(take[n - 1], b.keys[n]) ELSE take[n - 1]
    IN  take[Len(b.keys)]

Init == items = <<>> /\ call = {} /\ ret = NoReturn

Begin(b) == call = {} /\ call' = {b} /\ ret' = NoReturn /\ UNCHANGED items

\* The call returns the number of selected keys that it did not store.
Insert ==
    \E b \in call :
        LET new == Prefix(ValidKeys(b), Capacity - Len(items)) IN
        /\ items' = items \o new
        /\ call' = {}
        /\ ret' = <<"insert", <<>>, <<Cardinality(Selected(b)) - Len(new)>>>>

\* No memory: nothing has happened.
Fail == call # {} /\ call' = {} /\ ret' = <<"insert", <<>>, Thrown>> /\ UNCHANGED items

Answer(op, asked, out) ==
    call = {} /\ ret' = <<op, asked, out>> /\ UNCHANGED <<items, call>>

\* One answer for each key asked for; unselected ones are as absent ones.
Held(k) == k # EmptyKey /\ Multiplicity(k) > 0
OneOrMore(n) == IF n = 0 THEN 1 ELSE n
Each(op, q, i) ==
    LET k == q.keys[i] IN
    CASE op = "contains" -> IF Held(k) THEN 1 ELSE 0
      [] op = "containsIf" -> IF q.sel[i] /\ Held(k) THEN 1 ELSE 0
      [] op = "find" -> IF Held(k) THEN k ELSE EmptyKey
      [] op = "findIf" -> IF q.sel[i] /\ Held(k) THEN k ELSE EmptyKey
      [] op \in {"each", "probe"} -> Multiplicity(k)
      [] op \in {"outer", "probeOuter"} -> OneOrMore(Multiplicity(k))
Query(q) ==
    \E op \in {"contains", "containsIf", "find", "findIf", "each", "outer", "probe", "probeOuter"} :
        Answer(op, q, [i \in DOMAIN q.keys |-> Each(op, q, i)])

\* The matches of all queries, in the order of the queries.
Matches(q) ==
    LET all[n \in 0..Len(q.keys)] ==
            IF n = 0 THEN <<>>
            ELSE all[n - 1] \o [m \in 1..Multiplicity(q.keys[n]) |-> q.keys[n]]
    IN  all[Len(q.keys)]

Count(q) == Answer("count", q, <<Len(Matches(q))>>)

IntoRoom(room, s) == IF Len(s) > room THEN Thrown ELSE s
Retrieve(q, room) == Answer("retrieve", <<q, room>>, IntoRoom(room, Matches(q)))
RetrieveAll(room) == Answer("all", <<room>>, IntoRoom(room, items))

Clear == call = {} /\ items' = <<>> /\ ret' = NoReturn /\ UNCHANGED call

Next ==
    \/ \E b \in Batches : Begin(b)
    \/ Insert \/ Fail \/ Clear
    \/ \E q \in Queries : Query(q) \/ Count(q) \/ \E room \in Rooms : Retrieve(q, room)
    \/ \E room \in Rooms : RetrieveAll(room)

Step == Next \/ UNCHANGED vars

Spec == Init /\ [][Next]_vars
================================================================================
