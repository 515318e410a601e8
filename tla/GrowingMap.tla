------------------------------ MODULE GrowingMap ------------------------------
(***************************************************************************)
(* What DynamicMap promises the callers of its synchronous operations (the *)
(* API documentation of DynamicMap): a map without a size limit, whose     *)
(* operations return what happened and whose Size() is exact.  How it      *)
(* grows is not part of the promise.                                       *)
(***************************************************************************)
EXTENDS Integers, FiniteSets

CONSTANTS
    Key, Val, NoVal,     \* payloads, and what Find answers for an absent key
    Batches              \* batches of pairs, as sequences of [key, val]

VARIABLES
    map,      \* the keys stored, with their payloads
    size,     \* Size()
    call,     \* the operation that is running, with its batch
    ret       \* what the last operation returned, and of which keys

vars == <<map, size, call, ret>>

Live == DOMAIN map
Keys(b) == {b[i].key : i \in DOMAIN b}
Offers(b, k) == {b[i].val : i \in {j \in DOMAIN b : b[j].key = k}}
NoCall == [op |-> "none", batch |-> <<>>]
NoReturn == [asked |-> {}, count |-> 0, out |-> NoVal]
Returned(asked, count, out) == ret' = [asked |-> asked, count |-> count, out |-> out]

\* The keys of fresh get a payload the batch offers, the others keep theirs.
Store(b, fresh) ==
    map' \in {m \in [Live \cup fresh -> Val] :
                \A k \in Live \cup fresh :
                    IF k \in fresh THEN m[k] \in Offers(b, k) ELSE m[k] = map[k]}

Init == map = <<>> /\ size = 0 /\ call = NoCall /\ ret = NoReturn

\* An operation that changes the map at one moment between call and return.
Begin(op, b) ==
    /\ call = NoCall
    /\ call' = [op |-> op, batch |-> b]
    /\ ret' = NoReturn
    /\ UNCHANGED <<map, size>>

\* The batch's new keys are stored and counted; keys known already keep their
\* payloads, unless the operation assigns.
Insert ==
    LET batch == call.batch
        new == Keys(batch) \ Live
    IN  /\ call.op \in {"insert", "upsert", "append"}
        /\ Store(batch, IF call.op = "upsert" THEN Keys(batch) ELSE new)
        /\ size' = size + Cardinality(new)
        /\ Returned({}, Cardinality(new), NoVal)
        /\ call' = NoCall

\* Room is not visible.
Reserve == call.op = "reserve" /\ call' = NoCall /\ UNCHANGED <<map, size, ret>>

Erase(asked) ==
    LET erased == asked \cap Live IN
    /\ call = NoCall
    /\ map' = [k \in Live \ erased |-> map[k]]
    /\ size' = size - Cardinality(erased)
    /\ Returned(asked, Cardinality(erased), NoVal)
    /\ UNCHANGED call

\* Find, and with it Contains, of one key of a batch.
Find(k) ==
    /\ call = NoCall
    /\ Returned({k}, 0, IF k \in Live THEN map[k] ELSE NoVal)
    /\ UNCHANGED <<map, size, call>>

Clear == call = NoCall /\ map' = <<>> /\ size' = 0 /\ ret' = NoReturn /\ UNCHANGED call

Next ==
    \/ \E op \in {"insert", "upsert", "append"}, b \in Batches : Begin(op, b)
    \/ Begin("reserve", <<>>)
    \/ Insert \/ Reserve
    \/ \E asked \in SUBSET Key : Erase(asked)
    \/ \E k \in Key : Find(k)
    \/ Clear

Spec == Init /\ [][Next]_vars
================================================================================
