----------------------------- MODULE StaticMapRef -----------------------------
(* The device reference of a StaticMap: values are pairs of key and payload,  *)
(* every operation is the one of OpenAddressingRefImpl.                       *)
CONSTANTS EmptyKey, EmptyVal, N, Path

Impl == INSTANCE TableRef

Insert(tab, value) == Impl!Insert(tab, value)
InsertOrAssign(tab, value) == Impl!InsertOrAssign(tab, value)
InsertOrAssignVerdict(tab, value) == Impl!InsertOrAssignVerdict(tab, value)
InsertAndFind(tab, value) == Impl!InsertAndFind(tab, value)
Assign(tab, value) == Impl!Assign(tab, value)
\* (Variant with a bug: the configured tombstone gets lost on the way.)
EraseWithoutTombstone(tab, key, erasedSlot) == Impl!Erase(tab, key, Impl!EmptySlot)
Erase(tab, key, erasedSlot) == Impl!Erase(tab, key, erasedSlot)
Find(tab, key) == Impl!Find(tab, key)
Contains(tab, key) == Impl!Contains(tab, key)
ForEach(tab, key) == Impl!ForEach(tab, key)
Count(tab, key) == Impl!Count(tab, key)
================================================================================
