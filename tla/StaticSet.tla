------------------------------- MODULE StaticSet -------------------------------
(***************************************************************************)
(* StaticSet: the public calls (static_set.inl) as the steps they take,    *)
(* each forwarding to OpenAddressingImpl.  A set cannot be given a         *)
(* tombstone, so Erase may hide the keys behind the erased one (module     *)
(* OpenAddressing); callers here only erase everything there is.           *)
(***************************************************************************)
EXTENDS CallLog

Insert(b) == Host!Insert(b)
InsertAsync(b) == Host!InsertAsync(b)
InsertIf(b) == Host!InsertIf(b)
InsertIfAsync(b) == Host!InsertIfAsync(b)
InsertAndFindAsync(b) == Host!InsertAndFindAsync(b)
InsertAndFind(b) == InsertAndFindAsync(b) \o <<Host!SynchronizeOrThrow>>
Erase(b) == Host!Erase(b)
EraseAsync(b) == Host!EraseAsync(b)
Clear == Host!Clear
ClearAsync == Host!ClearAsync
FindAsync(b) == Host!FindAsync(b)
Find(b) == FindAsync(b) \o <<Host!SynchronizeOrThrow>>
FindIfAsync(b) == Host!FindIfAsync(b)
FindIf(b) == FindIfAsync(b) \o <<Host!SynchronizeOrThrow>>
ContainsAsync(b) == Host!ContainsAsync(b)
Contains(b) == ContainsAsync(b) \o <<Host!SynchronizeOrThrow>>
ContainsIfAsync(b) == Host!ContainsIfAsync(b)
ContainsIf(b) == ContainsIfAsync(b) \o <<Host!SynchronizeOrThrow>>
ForEachAsync(b) == Host!ForEachAsync(b)
ForEach(b) == ForEachAsync(b) \o <<Host!SynchronizeOrThrow>>
Count(b) == Host!Count(b)

--------------------------------------------------------------------------------
AllOf(b) == Host!Unconditional(b).elems

Insertions(b) ==
    <<Counting(Insert(b), Promise(Inserted, AllOf(b)), b),
      Counting(InsertIf(b), Promise(Inserted, b.elems), b),
      Silent(InsertAsync(b), Promise(Inserted, AllOf(b))),
      Silent(InsertIfAsync(b), Promise(Inserted, b.elems)),
      Silent(InsertAndFind(b), Promise(InsertedAndFound, b.elems)),
      Silent(InsertAndFindAsync(b), Promise(InsertedAndFound, b.elems))>>

\* Nothing is left, so no tombstone is missed.
Erasures(b) ==
    LET p == [Promise(Erased, b.elems) EXCEPT !.used = 0] IN
    IF DOMAIN content \subseteq {b.elems[i].key : i \in DOMAIN b.elems}
    THEN <<Counting(Erase(b), p, b), Silent(EraseAsync(b), p)>> ELSE <<>>

Lookups(b) ==
    <<Silent(Find(b), Promise(Found, AllOf(b))),
      Silent(FindAsync(b), Promise(Found, AllOf(b))),
      Silent(FindIf(b), Promise(Found, b.elems)),
      Silent(FindIfAsync(b), Promise(Found, b.elems)),
      Silent(Contains(b), Promise(Contained, AllOf(b))),
      Silent(ContainsAsync(b), Promise(Contained, AllOf(b))),
      Silent(ContainsIf(b), Promise(Contained, b.elems)),
      Silent(ContainsIfAsync(b), Promise(Contained, b.elems)),
      Silent(ForEach(b), Promise(Visited, b.elems)),
      Silent(ForEachAsync(b), Promise(Visited, b.elems)),
      CountingPresent(Count(b), Promise(Counted, b.elems), b)>>

Clearings ==
    <<Silent(Clear, PromiseOfClear),
      Silent(ClearAsync, PromiseOfClear)>>

CallsOf(b) == Insertions(b) \o Erasures(b) \o Lookups(b)

SetNext ==
    \/ \E b \in Batches : Made(CallsOf(b))
    \/ Made(Clearings)
    \/ DeviceStep

SetSpec == LogInit /\ [][SetNext]_logVars
================================================================================
