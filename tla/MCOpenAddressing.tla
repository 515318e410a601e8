--------------------------- MODULE MCOpenAddressing ---------------------------
(* Instances of the table.  The probe paths are those of the probing iterator *)
(* for a table of Capacity one-slot buckets under double hashing: the keys    *)
(* collide on their first slot, and walk on with steps of their own.          *)
EXTENDS OpenAddressing, TLC

CONSTANTS a, b, c, v, w, none, gone, novalue, s1, s2, t1, t2

P == INSTANCE ProbeMath WITH HostBits <- 8, DeviceBits <- 8, Primes <- <<2, 3, 5>>

\* a and b start at slot 0 with steps 1 and 2, c starts at slot 1.
Hash1(k) == IF k = c THEN 1 ELSE 0
Hash2(k) == IF k = b THEN 1 ELSE 0

PathIn(keys, n) ==
    [k \in keys |->
        LET walk == P!SlotPath(P!Initial(Hash1(k), n, 1), P!DoubleStep(Hash2(k), n, 1), n, 1)
        IN  [p \in 1..n |-> walk[p] + 1]]

\* Two buckets leave double hashing a single step (h2 % 1 + 1).
Path2 == PathIn(Key, 2)
Path3 == PathIn(Key, 3)

\* One kernel of two threads; two kernels of one thread each.
OneStream == [t \in Thread |-> s1]
TwoRanks == [t \in Thread |-> IF t = t1 THEN 1 ELSE 2]
TwoStreams == [t \in Thread |-> IF t = t1 THEN s1 ELSE s2]
OneRank == [t \in Thread |-> 1]

PayloadSymmetry == Permutations(Val)

\* The two streams, each with its thread, are alike as well.
SwapStreams == [x \in {s1, s2, t1, t2} |->
                  CASE x = s1 -> s2 [] x = s2 -> s1 [] x = t1 -> t2 [] OTHER -> t1]
KeepStreams == [x \in {s1, s2, t1, t2} |-> x]
OverlapSymmetry == {f @@ g : f \in {SwapStreams, KeepStreams}, g \in PayloadSymmetry}

\* Which calls share the table.
NoOverlap == {}
AnyOverlap == Calls \X Calls

\* Everything but Clear, and but an InsertOrAssign while an Erase runs.
DisciplinedOverlap ==
    {pair \in (Calls \ {"clear"}) \X (Calls \ {"clear"}) :
        pair \notin {<<"upsert", "erase">>, <<"erase", "upsert">>}}

\* ... and no InsertAndFind while an Erase runs, whose waiting threads an
\* erased payload would strand.
EndingOverlap ==
    {pair \in DisciplinedOverlap :
        pair \notin {<<"insertfind", "erase">>, <<"erase", "insertfind">>}}

ASSUME DisciplineIsMet ==
    MayOverlap \in {DisciplinedOverlap, EndingOverlap} => Disciplined
================================================================================
