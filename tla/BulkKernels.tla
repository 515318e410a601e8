------------------------------ MODULE BulkKernels ------------------------------
(***************************************************************************)
(* The kernels of open_addressing/kernels.h as whole steps of the device:  *)
(* what one of them does to the table, the counters and its output array   *)
(* when nothing else runs.  Its threads take the elements of the batch in  *)
(* some order; OpenAddressingBulk shows that the order does not matter     *)
(* where no key comes twice, here it is that of the batch.                 *)
(*                                                                         *)
(* A device is a record: tab, the table; erased, the content of            *)
(* erasedValueStorage_; counter, that of argStorage_; failed and assigned, *)
(* the two words of ioaCounterStorage_.                                    *)
(***************************************************************************)
EXTENDS Integers, Sequences, SequencesExt

CONSTANTS
    IsPair,                 \* isPairV<Value>: a map, else a set
    EmptyKey, EmptyVal, N, Path

Map == INSTANCE StaticMapRef
Set == INSTANCE StaticSetRef

EmptyPayload == IF IsPair THEN EmptyVal ELSE EmptyKey
EmptySlot == [key |-> EmptyKey, val |-> EmptyPayload]
AsValue(e) == IF IsPair THEN [key |-> e.key, val |-> e.val] ELSE e.key

RefInsert(tab, e) == IF IsPair THEN Map!Insert(tab, AsValue(e)) ELSE Set!Insert(tab, AsValue(e))
RefInsertAndFind(tab, e) ==
    IF IsPair THEN Map!InsertAndFind(tab, AsValue(e)) ELSE Set!InsertAndFind(tab, AsValue(e))
RefErase(tab, k, slot) == IF IsPair THEN Map!Erase(tab, k, slot) ELSE Set!Erase(tab, k, slot.key)
RefFind(tab, k) == IF IsPair THEN Map!Find(tab, k) ELSE Set!Find(tab, k)
RefContains(tab, k) == IF IsPair THEN Map!Contains(tab, k) ELSE Set!Contains(tab, k)
RefForEach(tab, k) == IF IsPair THEN Map!ForEach(tab, k) ELSE Set!ForEach(tab, k)
RefCount(tab, k) == IF IsPair THEN Map!Count(tab, k) ELSE Set!Count(tab, k)

\* A kernel that changes the device element by element, or only reads it.
Changes(d, batch, Step(_, _)) == [device |-> FoldLeft(Step, d, batch), out |-> <<>>]
Reads(d, batch, Answer(_)) ==
    [device |-> d, out |-> [i \in DOMAIN batch |-> Answer(batch[i])]]

\* The same kernel without its counters.
Uncounted(d, run) ==
    [run EXCEPT !.device.counter = d.counter, !.device.failed = d.failed,
                !.device.assigned = d.assigned]

InsertIf(d, batch) ==
    LET step(x, e) ==
          IF ~e.pass THEN x
          ELSE LET r == RefInsert(x.tab, e)
               IN  [x EXCEPT !.tab = r.tab, !.counter = IF r.ok THEN @ ELSE @ + 1]
    IN  Changes(d, batch, step)
InsertIfAsync(d, batch) == Uncounted(d, InsertIf(d, batch))

InsertOrAssign(d, batch) ==
    LET step(x, e) ==
          LET r == Map!InsertOrAssignVerdict(x.tab, AsValue(e))
          IN  [x EXCEPT !.tab = r.tab,
                        !.failed = IF r.verdict = "FAILED" THEN @ + 1 ELSE @,
                        !.assigned = IF r.verdict = "DUPLICATE" THEN @ + 1 ELSE @]
    IN  Changes(d, batch, step)
InsertOrAssignAsync(d, batch) ==
    LET step(x, e) == [x EXCEPT !.tab = Map!InsertOrAssign(@, AsValue(e)).tab]
    IN  Changes(d, batch, step)

AssignIfAsync(d, batch) ==
    LET step(x, e) == IF e.pass THEN [x EXCEPT !.tab = Map!Assign(@, AsValue(e)).tab] ELSE x
    IN  Changes(d, batch, step)

\* Both output arrays in one: what is found, and whether it was inserted.
InsertAndFindAsync(d, batch) ==
    LET step(x, e) ==
          LET r == RefInsertAndFind(x.device.tab, e)
          IN  [device |-> [x.device EXCEPT !.tab = r.tab],
               out |-> Append(x.out, [val |-> r.found, flag |-> r.inserted])]
    IN  FoldLeft(step, [device |-> d, out |-> <<>>], batch)

\* The tombstone is the one on the device when the kernel runs.
Erase(d, batch) ==
    LET step(x, e) ==
          LET r == RefErase(x.tab, e.key, d.erased)
          IN  [x EXCEPT !.tab = r.tab, !.counter = IF r.ok THEN @ ELSE @ + 1]
    IN  Changes(d, batch, step)
EraseAsync(d, batch) == Uncounted(d, Erase(d, batch))

FindIf(d, batch) ==
    LET answer(e) == IF e.pass THEN RefFind(d.tab, e.key) ELSE EmptyPayload
    IN  Reads(d, batch, answer)
ContainsIf(d, batch) ==
    LET answer(e) == e.pass /\ RefContains(d.tab, e.key)
    IN  Reads(d, batch, answer)
ForEach(d, batch) ==
    LET answer(e) == RefForEach(d.tab, e.key)
    IN  Reads(d, batch, answer)

Count(d, batch) ==
    LET step(x, e) == [x EXCEPT !.counter = @ + RefCount(x.tab, e.key)]
    IN  Changes(d, batch, step)

\* ClearSimt or ClearSIMD (module ClearTiling looks into the latter).
Clear(d, batch) == [device |-> [d EXCEPT !.tab = [i \in 1..N |-> EmptySlot]], out |-> <<>>]
================================================================================
