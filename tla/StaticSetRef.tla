----------------------------- MODULE StaticSetRef -----------------------------
(* The device reference of a StaticSet: a value is a key, which is also what  *)
(* a lookup answers, the empty key standing for "nothing".                    *)
CONSTANTS EmptyKey, N, Path

Impl == INSTANCE TableRef WITH EmptyVal <- EmptyKey

\* A slot is a key; the key stands for its own payload (ExtractValue).
AsSlot(key) == [key |-> key, val |-> key]

Insert(tab, key) == Impl!Insert(tab, AsSlot(key))
InsertAndFind(tab, key) == Impl!InsertAndFind(tab, AsSlot(key))
Erase(tab, key, erasedKey) == Impl!Erase(tab, key, AsSlot(erasedKey))
Find(tab, key) == Impl!Find(tab, key)
Contains(tab, key) == Impl!Contains(tab, key)
ForEach(tab, key) == Impl!ForEach(tab, key)
Count(tab, key) == Impl!Count(tab, key)
================================================================================
