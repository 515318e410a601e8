-------------------------- MODULE OpenAddressingBulk --------------------------
(***************************************************************************)
(* The table, driven by one stream, implements BulkMap: whatever the threads *)
(* of a kernel interleave, the kernel as a whole is one step of the map.   *)
(*                                                                         *)
(* The history variable snap remembers the map as the running kernel found *)
(* it: BulkMap changes its map when the call returns.                      *)
(***************************************************************************)
EXTENDS OpenAddressing, FiniteSets

VARIABLE snap

Holder(k) == CHOOSE i \in Slot : first[i] = k
Stored == {first[i] : i \in Slot} \cap Key
LiveMap == [k \in Stored |-> Content(Holder(k))]
UsedSlots == {i \in Slot : first[i] # EmptyKey}

Idle == \A s \in Stream : op[s] = "none"
Host == CHOOSE s \in Stream : TRUE

BulkInit == Init /\ snap = [map |-> LiveMap, used |-> Cardinality(UsedSlots)]

\* snap follows the table while no kernel runs.
Remember ==
    snap' = IF Idle' THEN [map |-> LiveMap', used |-> Cardinality(UsedSlots')] ELSE snap

BulkNext == Next /\ Remember

\* Running threads are scheduled, and the host notices that a kernel has ended.
KernelsRun == /\ \A t \in Thread : WF_<<vars, snap>>(Step(t) /\ Remember)
              /\ \A s \in Stream : WF_<<vars, snap>>(Complete(s) /\ Remember)

BulkSpec == BulkInit /\ [][BulkNext]_<<vars, snap>> /\ KernelsRun

Promise ==
    INSTANCE BulkMap WITH
        Capacity <- N,
        map <- snap.map,
        used <- snap.used,
        call <- IF Idle THEN [op |-> "none", batch |-> <<>>]
                        ELSE [op |-> op[Host], batch |-> batch[Host]],
        result <- IF Idle /\ batch[Host] # <<>>
                  THEN [count |-> answer[Host].count, assigned |-> answer[Host].assigned,
                        out |-> out[Host]]
                  ELSE [count |-> 0, assigned |-> 0, out |-> <<>>]

\* Every kernel is one atomic bulk operation: the counters the host reads
\* back, the outputs and the table after it are those of BulkMap, however the
\* threads' loads, stores and compare-and-swaps interleave, and it returns.
IsBulkMap == Promise!Init /\ [][Promise!Next]_(Promise!vars)

\* ... and the call returns.
CallsReturn == Promise!Spec

--------------------------------------------------------------------------------
(* Why: the invariant of a running kernel (OpenAddressingBulk_proofs).        *)

\* One stream, as the kernels of a table have that share its counters.
SingleStream == Stream = {Host}

Now == op[Host]
Working == Now \notin {"none", "clear"}
Elements == batch[Host]
KeyAt(i) == Elements[i].key
Passing == {i \in DOMAIN Elements : Elements[i].pass}
Offered(k) == {Elements[i].val : i \in {j \in Passing : KeyAt(j) = k}}
Before == DOMAIN snap.map

\* The elements of a thread, those it has still to do, and what all have done.
Share(t) == {i \in DOMAIN Elements : (i - 1) % TotalThreads = Rank[t] - 1}
Due(t) == {i \in Share(t) : pc[t] # "exit" /\ i >= elt[t]}
Done == {i \in DOMAIN Elements : \A t \in Thread : i \notin Due(t)}

\* The host's view: the map of the abstract call, and the call.
HostKnows ==
    /\ Idle => snap = [map |-> LiveMap, used |-> Cardinality(UsedSlots)]
    /\ snap.map = [k \in Before |-> snap.map[k]] /\ Before \subseteq Key /\ snap.used \in Nat
    /\ Now = "clear" => Elements = <<>>
    /\ Working => Elements # <<>> /\ (Now \notin StencilCalls => Passing = DOMAIN Elements)
    /\ Now # "none" \/ Elements = <<>> => answer[Host] = Zero

\* What a thread's place in the program says of its element and its slot.
LookupCalls == {"assign", "erase", "find", "count", "foreach"}
Noted(t) == Now = "foreach" /\ out[Host][elt[t]] # Unset
Knows(t) ==
    /\ AtWork(t) => Elem(t).pass
    /\ pc[t] \in {"cas", "store"} => Now \in InsertCalls
    /\ pc[t] = "wait" => Now = "insertfind"
    /\ pc[t] = "load" => Now \in {"insertfind", "find"}
    /\ pc[t] = "wipe" => Now = "erase"
    /\ pc[t] \in {"store", "assign", "wait", "load"} => first[ThisSlot(t)] = ThisKey(t)
    /\ pc[t] = "wipe" => first[ThisSlot(t)] = ErasedKey /\ ThisKey(t) \notin Stored
    /\ pc[t] = "erase" =>
        \/ first[ThisSlot(t)] = ErasedKey /\ ThisKey(t) \notin Stored
        \/ /\ first[ThisSlot(t)] = ThisKey(t)
           /\ Layout # "wide" => second[ThisSlot(t)] = seen[t]
    /\ pc[t] \in {"probe", "erase"} /\ Now \in LookupCalls /\ ~Noted(t) =>
        \A q \in 1..(pos[t] - 1) : first[Path[ThisKey(t)][q]] # ThisKey(t)
Strided == \A t \in Thread : pc[t] # "exit" => (elt[t] - 1) % TotalThreads = Rank[t] - 1
ThreadsKnow == Strided /\ \A t \in Thread : Knows(t)

\* A slot that was won and has no payload yet is one thread's business.
OneStores ==
    \A t, u \in Thread : pc[t] = "store" /\ pc[u] = "store" /\ ThisSlot(t) = ThisSlot(u) => t = u
StoredIsBlank ==
    \A t \in Thread : pc[t] = "store" /\ Now # "upsert" => second[ThisSlot(t)] = EmptyVal

\* Which keys the kernel has brought, taken away, or found no room for.
KeysMoved ==
    /\ Now \in InsertCalls => Before \subseteq Stored
    /\ Now = "erase" => Stored \subseteq Before
    /\ Working /\ Now \notin InsertCalls \cup {"erase"} => Stored = Before
    /\ Working => Cardinality(UsedSlots) = snap.used + Cardinality(Stored \ Before)
    /\ \A i \in Done \cap Passing :
        /\ Now \in InsertCalls => KeyAt(i) \in Stored \/ UsedSlots = Slot
        /\ Now = "erase" => KeyAt(i) \notin Stored

\* The payloads that were there, and those that are overwritten.
Overwrites == Now \in {"upsert", "assign"}
PayloadsMoved ==
    Working =>
        /\ \A k \in Stored \cap Before :
            LiveMap[k] = snap.map[k] \/ (Overwrites /\ LiveMap[k] \in Offered(k))
        /\ Overwrites => \A i \in Done \cap Passing :
                KeyAt(i) \in Stored => LiveMap[KeyAt(i)] \in Offered(KeyAt(i))

\* What lookups have answered.
LookupsAnswered ==
    /\ Now = "find" => \A i \in Done :
        out[Host][i] = IF i \in Passing /\ KeyAt(i) \in Stored
                       THEN [val |-> LiveMap[KeyAt(i)], flag |-> "yes"]
                       ELSE [val |-> Nothing, flag |-> "no"]
    /\ Now = "foreach" =>
        /\ \A i \in DOMAIN Elements : \/ out[Host][i] = Unset
                                      \/ /\ out[Host][i] = [val |-> KeyAt(i), flag |-> "yes"]
                                         /\ KeyAt(i) \in Stored
        /\ \A i \in Done : KeyAt(i) \in Stored => out[Host][i] # Unset
    /\ Working /\ Now \notin {"find", "foreach", "insertfind"} =>
        \A i \in DOMAIN Elements : out[Host][i] = Unset

\* The sum of what the threads have counted of the elements of a set: each its
\* own, until it leaves.
Tally(local, total, elements) ==
    /\ \A t \in Thread :
        local[t] = IF pc[t] = "exit" THEN 0 ELSE Cardinality(elements \cap Share(t))
    /\ total = Cardinality({i \in elements : \E t \in Thread : i \in Share(t) /\ pc[t] = "exit"})

\* The elements that moved their key are one per key; those of the threads that
\* have still to write a payload are among them.  All others have failed.
Housed == {i \in Done \cap Passing : KeyAt(i) \in Stored}
Account(movers) ==
    /\ \A i, j \in movers : KeyAt(i) = KeyAt(j) => i = j
    /\ {KeyAt(i) : i \in movers} = (Stored \ Before) \cup (Before \ Stored)
    /\ \A t \in Thread : pc[t] \in {"store", "wipe"} => elt[t] \in movers
    /\ \A i \in movers \ Done : \E t \in Thread : i = elt[t] /\ pc[t] \in {"store", "wipe"}
    /\ Now \in {"insert", "insertfind"} =>
        \A i \in movers \cap Done : LiveMap[KeyAt(i)] = Elements[i].val
    /\ Now \in {"insert", "erase"} \cap Synchronous =>
        Tally(localFailed, counter, (Done \cap Passing) \ movers)
    /\ Now \in {"upsert"} \cap Synchronous =>
        /\ Tally(localFailed, ioaCounter.count, (Done \cap Passing) \ Housed)
        /\ Tally(localAssigned, ioaCounter.assigned, Housed \ movers)
    /\ Now = "insertfind" => \A i \in Done :
        /\ out[Host][i] = [val  |-> IF KeyAt(i) \in Stored THEN LiveMap[KeyAt(i)] ELSE Nothing,
                           flag |-> IF i \in movers THEN "yes" ELSE "no"]
        /\ KeyAt(i) \in Stored => LiveMap[KeyAt(i)] # Nothing
HitsCounted ==
    Now = "count" =>
        /\ counter = Cardinality(Housed)
        /\ \A t \in Thread : localFailed[t] = 0

\* Together with TableInv and AnswersInv, inductive for a single stream.
BulkInv ==
    /\ HostKnows /\ ThreadsKnow /\ OneStores /\ StoredIsBlank
    /\ KeysMoved /\ PayloadsMoved /\ LookupsAnswered /\ HitsCounted
    /\ Working => \E movers \in SUBSET Passing : Account(movers)
================================================================================
