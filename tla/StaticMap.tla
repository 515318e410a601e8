------------------------------- MODULE StaticMap -------------------------------
(***************************************************************************)
(* StaticMap: the public calls (static_map.inl) as the steps they take,    *)
(* each forwarding to OpenAddressingImpl; the synchronous forms of the     *)
(* calls with outputs queue the kernel and wait.                           *)
(***************************************************************************)
EXTENDS CallLog

Insert(b) == Host!Insert(b)
InsertAsync(b) == Host!InsertAsync(b)
InsertIf(b) == Host!InsertIf(b)
InsertIfAsync(b) == Host!InsertIfAsync(b)
InsertOrAssign(b) == Host!InsertOrAssign(b)
InsertOrAssignAsync(b) == Host!InsertOrAssignAsync(b)
AssignIfAsync(b) == Host!AssignIfAsync(b)
InsertAndFindAsync(b) == Host!InsertAndFindAsync(b)
InsertAndFind(b) == InsertAndFindAsync(b) \o <<Host!SynchronizeOrThrow>>
Erase(b) == Host!Erase(b)
EraseAsync(b) == Host!EraseAsync(b)
Clear == Host!Clear
ClearAsync == Host!ClearAsync
FindAsync(b) == Host!FindAsync(b)
Find(b) == FindAsync(b) \o <<Host!SynchronizeOrThrow>>
FindIfAsync(b) == Host!FindIfAsync(b)
FindIf(b) == FindIfAsync(b) \o <<Host!SynchronizeOrThrow>>
ContainsAsync(b) == Host!ContainsAsync(b)
Contains(b) == ContainsAsync(b) \o <<Host!SynchronizeOrThrow>>
ContainsIfAsync(b) == Host!ContainsIfAsync(b)
ContainsIf(b) == ContainsIfAsync(b) \o <<Host!SynchronizeOrThrow>>
ForEachAsync(b) == Host!ForEachAsync(b)
ForEach(b) == ForEachAsync(b) \o <<Host!SynchronizeOrThrow>>
Count(b) == Host!Count(b)
SetErasedKey(key) == <<Host!SetErasedValue([key |-> key, val |-> EmptyVal])>>

--------------------------------------------------------------------------------
AllOf(b) == Host!Unconditional(b).elems

Insertions(b) ==
    <<Counting(Insert(b), Promise(Inserted, AllOf(b)), b),
      Counting(InsertIf(b), Promise(Inserted, b.elems), b),
      Silent(InsertAsync(b), Promise(Inserted, AllOf(b))),
      Silent(InsertIfAsync(b), Promise(Inserted, b.elems)),
      Silent(InsertAndFind(b), Promise(InsertedAndFound, b.elems)),
      Silent(InsertAndFindAsync(b), Promise(InsertedAndFound, b.elems))>>

Assignments(b) ==
    <<CountingTwice(InsertOrAssign(b), Promise(Upserted, b.elems), b),
      Silent(InsertOrAssignAsync(b), Promise(Upserted, b.elems)),
      Silent(AssignIfAsync(b), Promise(Assigned, b.elems))>>

\* Callers erase once they have configured a tombstone.
Erasures(b) ==
    IF host.device.erased.key = EmptyKey THEN <<>>
    ELSE <<Counting(Erase(b), Promise(Erased, b.elems), b),
           Silent(EraseAsync(b), Promise(Erased, b.elems))>>

Lookups(b) ==
    <<Silent(Find(b), Promise(Found, AllOf(b))),
      Silent(FindAsync(b), Promise(Found, AllOf(b))),
      Silent(FindIf(b), Promise(Found, b.elems)),
      Silent(FindIfAsync(b), Promise(Found, b.elems)),
      Silent(Contains(b), Promise(Contained, AllOf(b))),
      Silent(ContainsAsync(b), Promise(Contained, AllOf(b))),
      Silent(ContainsIf(b), Promise(Contained, b.elems)),
      Silent(ContainsIfAsync(b), Promise(Contained, b.elems)),
      Silent(ForEach(b), Promise(Visited, b.elems)),
      Silent(ForEachAsync(b), Promise(Visited, b.elems)),
      CountingPresent(Count(b), Promise(Counted, b.elems), b)>>

Clearings ==
    <<Silent(Clear, PromiseOfClear),
      Silent(ClearAsync, PromiseOfClear)>>

\* Nothing tells the caller if it fails, which callers here are spared.
ConfigureTombstone ==
    /\ host.device.erased.key = EmptyKey
    /\ Heard(Host!Perform(host, SetErasedKey(ErasedKey), 0), expected)
    /\ ownCount' = TRUE
    /\ UNCHANGED <<content, used>>

CallsOf(b) == Insertions(b) \o Assignments(b) \o Erasures(b) \o Lookups(b)

MapNext ==
    \/ \E b \in Batches : Made(CallsOf(b))
    \/ Made(Clearings)
    \/ ConfigureTombstone
    \/ DeviceStep

MapSpec == LogInit /\ [][MapNext]_logVars
================================================================================
