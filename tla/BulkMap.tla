-------------------------------- MODULE BulkMap --------------------------------
(***************************************************************************)
(* What a bulk call on a StaticMap or StaticSet promises its caller        *)
(* (static_map.h, static_set.h and their API documentation): the table is  *)
(* a map, a call transforms it at once, and the counters and outputs are   *)
(* exactly those of the keys that were new, present or without room.       *)
(* Duplicates inside one batch are left open where the code leaves them    *)
(* open: which payload wins, which of the duplicates is "the" insertion,   *)
(* which new keys get in when not all of them do.                          *)
(*                                                                         *)
(* Erased keys keep their slot (tombstones): used only shrinks in Clear.   *)
(***************************************************************************)
EXTENDS Integers, Sequences, FiniteSets

CONSTANTS
    Calls,        \* the operations callers use
    Synchronous,  \* those of them whose counters come back
    Capacity,     \* slots of the table
    Nothing,      \* what a lookup answers for an absent key
    Batches(_)    \* Batches(o): the batches a call of o may bring

VARIABLES
    map,          \* the keys stored, each with what a lookup answers for it
    used,         \* slots that hold a key or a tombstone
    call,         \* the call in progress
    result        \* counters and outputs of the last call, until the caller has them

vars == <<map, used, call, result>>

NoCall == [op |-> "none", batch |-> <<>>]
NoResult == [count |-> 0, assigned |-> 0, out |-> <<>>]

TypeOK ==
    /\ used \in 0..Capacity
    /\ Cardinality(DOMAIN map) <= used
    /\ call \in {NoCall} \cup [op : Calls, batch : UNION {Batches(o) : o \in Calls}]

Init == map = <<>> /\ used = 0 /\ call = NoCall /\ result = NoResult

Begin(o) ==
    /\ call = NoCall /\ result = NoResult
    /\ call' \in [op : {o}, batch : Batches(o)]
    /\ UNCHANGED <<map, used, result>>

Take ==
    /\ result # NoResult
    /\ result' = NoResult
    /\ UNCHANGED <<map, used, call>>

--------------------------------------------------------------------------------
Elements == call.batch
Live == DOMAIN map
Accepted == {i \in DOMAIN Elements : Elements[i].pass}
Asked == {Elements[i].key : i \in Accepted}
Offers(k) == {Elements[i].val : i \in {j \in Accepted : Elements[j].key = k}}
AskedIn(keys) == {i \in Accepted : Elements[i].key \in keys}

\* As many of the missing keys as there is room for.
Newcomers ==
    LET missing == Asked \ Live
        room == Capacity - used
        size == IF Cardinality(missing) < room THEN Cardinality(missing) ELSE room
    IN  {n \in SUBSET missing : Cardinality(n) = size}

\* The keys of fresh get a payload the batch offers, the others keep theirs.
MapBecomes(live, fresh) ==
    map' \in {m \in [live -> (UNION {Offers(k) : k \in fresh}) \cup {map[k] : k \in Live}] :
                \A k \in live : IF k \in fresh THEN m[k] \in Offers(k) ELSE m[k] = map[k]}

\* A call in its asynchronous form has outputs, but returns no counter.
End(count, assigned, out) ==
    result' = IF call.op \in Synchronous
              THEN [count |-> count, assigned |-> assigned, out |-> out]
              ELSE [count |-> 0, assigned |-> 0, out |-> out]

NoOutput == [i \in DOMAIN Elements |-> [val |-> Nothing, flag |-> "unset"]]

Insert ==
    /\ call.op = "insert"
    /\ \E n \in Newcomers :
        /\ MapBecomes(Live \cup n, n)
        /\ used' = used + Cardinality(n)
        /\ End(Cardinality(Accepted) - Cardinality(n), 0, NoOutput)

\* InsertOrAssign: an element fails only if its key found no room.
Upsert ==
    /\ call.op = "upsert"
    /\ \E n \in Newcomers :
        LET housed == AskedIn(Live \cup n) IN
        /\ MapBecomes(Live \cup n, Asked \cap (Live \cup n))
        /\ used' = used + Cardinality(n)
        /\ End(Cardinality(Accepted \ housed), Cardinality(housed) - Cardinality(n), NoOutput)

\* One of the duplicates of a new key inserts it; all of them read what is stored.
InsertAndFind ==
    /\ call.op = "insertfind"
    /\ \E n \in Newcomers :
        /\ MapBecomes(Live \cup n, n)
        /\ used' = used + Cardinality(n)
        /\ \E first \in {f \in [n -> Accepted] : \A k \in n : Elements[f[k]].key = k} :
             /\ \A k \in n : map'[k] = Elements[first[k]].val
             /\ End(0, 0, [i \in DOMAIN Elements |->
                    LET k == Elements[i].key IN
                    [val  |-> IF k \in Live \cup n THEN map'[k] ELSE Nothing,
                     flag |-> IF k \in n /\ first[k] = i THEN "yes" ELSE "no"]])

Assign ==
    /\ call.op = "assign"
    /\ MapBecomes(Live, Asked \cap Live)
    /\ UNCHANGED used
    /\ End(0, 0, NoOutput)

\* A key asked for twice is erased once and counted once as erased.
Erase ==
    /\ call.op = "erase"
    /\ map' = [k \in Live \ Asked |-> map[k]]
    /\ UNCHANGED used
    /\ End(Cardinality(Accepted) - Cardinality(Asked \cap Live), 0, NoOutput)

Find ==
    /\ call.op = "find"
    /\ UNCHANGED <<map, used>>
    /\ End(0, 0, [i \in DOMAIN Elements |->
            LET hit == i \in AskedIn(Live) IN
            [val  |-> IF hit THEN map[Elements[i].key] ELSE Nothing,
             flag |-> IF hit THEN "yes" ELSE "no"]])

\* Count returns how many elements have a key that is stored ...
Count ==
    /\ call.op = "count"
    /\ UNCHANGED <<map, used>>
    /\ End(Cardinality(AskedIn(Live)), 0, NoOutput)

\* ... and ForEach calls back for those elements.
ForEach ==
    /\ call.op = "foreach"
    /\ UNCHANGED <<map, used>>
    /\ End(0, 0, [i \in DOMAIN Elements |->
            IF i \in AskedIn(Live) THEN [val |-> Elements[i].key, flag |-> "yes"]
                                   ELSE [val |-> Nothing, flag |-> "unset"]])

Clear ==
    /\ call.op = "clear"
    /\ map' = <<>> /\ used' = 0
    /\ End(0, 0, NoOutput)

--------------------------------------------------------------------------------
Return ==
    /\ call # NoCall /\ call' = NoCall
    /\ \/ Insert \/ Upsert \/ InsertAndFind \/ Assign \/ Erase
       \/ Find \/ Count \/ ForEach \/ Clear

Next ==
    \/ \E o \in Calls : Begin(o)
    \/ Return
    \/ Take

\* A call returns.
Spec == Init /\ [][Next]_vars /\ WF_vars(Return)
================================================================================
