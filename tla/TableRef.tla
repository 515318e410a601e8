------------------------------- MODULE TableRef -------------------------------
(***************************************************************************)
(* What an operation of OpenAddressingRefImpl does to a table it has to    *)
(* itself: the sequential meaning of the device operations, slot by slot.  *)
(* OpenAddressing has the same operations as steps that interleave.        *)
(*                                                                         *)
(* tab[i] is slot i, Path[k] the order in which key k visits the slots.    *)
(***************************************************************************)
EXTENDS Integers, Sequences

CONSTANTS
    EmptyKey, EmptyVal,     \* emptySlotValue_
    N,                      \* storageRef_.Capacity()
    Path                    \* the probing iterator of each key

EmptySlot == [key |-> EmptyKey, val |-> EmptyVal]

\* The first slot on the way of k that holds one of the keys; 0 after a round.
FirstSlot(tab, k, keys) ==
    LET hits == {p \in 1..N : tab[Path[k][p]].key \in keys}
    IN  IF hits = {} THEN 0 ELSE Path[k][CHOOSE p \in hits : \A q \in hits : p <= q]

InsertVerdict(tab, value, assign) ==
    LET i == FirstSlot(tab, value.key, {EmptyKey, value.key})
        free == i # 0 /\ tab[i].key = EmptyKey
    IN  [tab |-> IF i # 0 /\ (free \/ assign) THEN [tab EXCEPT ![i] = value] ELSE tab,
         verdict |-> IF i = 0 THEN "FAILED" ELSE IF free THEN "SUCCESS" ELSE "DUPLICATE"]

Insert(tab, value) ==
    LET r == InsertVerdict(tab, value, FALSE) IN [tab |-> r.tab, ok |-> r.verdict = "SUCCESS"]

InsertOrAssignVerdict(tab, value) == InsertVerdict(tab, value, TRUE)

InsertOrAssign(tab, value) ==
    LET r == InsertOrAssignVerdict(tab, value) IN [tab |-> r.tab, ok |-> r.verdict # "FAILED"]

\* Alone on the table it never waits for a payload.
InsertAndFind(tab, value) ==
    LET r == InsertVerdict(tab, value, FALSE)
        i == FirstSlot(tab, value.key, {EmptyKey, value.key})
    IN  [tab |-> r.tab,
         found |-> IF i = 0 THEN EmptyVal ELSE r.tab[i].val,
         inserted |-> r.verdict = "SUCCESS"]

\* Without a tombstone the search goes on past empty slots, and the slot is
\* simply emptied.
Erase(tab, key, erasedSlot) ==
    LET i == FirstSlot(tab, key, IF erasedSlot.key = EmptyKey THEN {key} ELSE {EmptyKey, key})
        here == i # 0 /\ tab[i].key = key
    IN  [tab |-> IF here THEN [tab EXCEPT ![i] = erasedSlot] ELSE tab, ok |-> here]

Assign(tab, value) ==
    LET i == FirstSlot(tab, value.key, {EmptyKey, value.key})
        here == i # 0 /\ tab[i].key = value.key
    IN  [tab |-> IF here THEN [tab EXCEPT ![i].val = value.val] ELSE tab, ok |-> here]

FindAndContains(tab, key) ==
    LET i == FirstSlot(tab, key, {EmptyKey, key})
        here == i # 0 /\ tab[i].key = key
    IN  [val |-> IF here THEN tab[i].val ELSE EmptyVal, here |-> here]

Find(tab, key) == FindAndContains(tab, key).val
Contains(tab, key) == FindAndContains(tab, key).here
Count(tab, key) == IF Contains(tab, key) THEN 1 ELSE 0

\* The slots the callback gets, in the order of the walk.
ForEach(tab, key) ==
    LET end == FirstSlot(tab, key, {EmptyKey})
        last == IF end = 0 THEN N ELSE CHOOSE p \in 1..N : Path[key][p] = end
        walk == [p \in 1..last |-> tab[Path[key][p]]]
        match(slot) == slot.key = key
    IN  SelectSeq(walk, match)
================================================================================
