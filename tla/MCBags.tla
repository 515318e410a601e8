--------------------------------- MODULE MCBags ---------------------------------
(***************************************************************************)
(* StaticMultiset and StaticMultimap, which share no state: a behaviour is *)
(* one of a multiset or one of a multimap, chosen at the start: a multiset *)
(* stays as constructed when it is not chosen, and the variables of a      *)
(* multimap are not used.                                                  *)
(***************************************************************************)
EXTENDS Multiset, TLC

(* An instance of Multiset: four counters for three elements, keys that make  *)
(* intervals, fit the counters, and do not; and larger shapes of the warps.   *)
Keys4 == {1, 2, 3, 5}
Sentinel == 4
Collide == [k \in Keys4 |-> IF k = 5 THEN 3 ELSE k + 1]

All(s) == [keys |-> s, sel |-> [i \in DOMAIN s |-> TRUE], conditional |-> FALSE]
If(s, t) == [keys |-> s, sel |-> t, conditional |-> TRUE]

\* Insertions of one and two keys, and longer ones with sentinels, repeated
\* and unselected keys, intervals that are sorted and not.
Insertions ==
    {All(s) : s \in UNION {[1..n -> {1, 2, Sentinel, 5}] : n \in 1..2}}
    \cup {All(s) : s \in {<<1, 2, 3>>, <<2, 1, 3>>, <<1, 1, 2>>, <<3, 4, 5>>,
                          <<4, 2, 4, 3, 2>>, <<1, 4, 2, 3, 5>>, <<5, 4, 4, 4, 1>>}}
    \cup {If(<<1, 2>>, t) : t \in [1..2 -> BOOLEAN]}
    \cup {If(<<1, 2, 3>>, <<TRUE, FALSE, TRUE>>),
          If(<<2, 4, 1, 5, 3>>, <<FALSE, TRUE, TRUE, FALSE, TRUE>>)}

\* Every key and the sentinel, and keys that are asked for twice.
Questions ==
    {[keys |-> <<1, 2, 3, 5, 4>>, sel |-> <<TRUE, FALSE, TRUE, FALSE, TRUE>>],
     [keys |-> <<2, 4, 2, 1, 1>>, sel |-> <<FALSE, TRUE, TRUE, TRUE, FALSE>>]}
OutputSizes == {2, 15}

\* Warps deal out a batch without gaps, and place every element where the
\* elements before it end: two lanes, two warps in each of two blocks, up to
\* two tiles to a warp.
W == INSTANCE WarpSelection WITH WarpsPerBlock <- 2, Blocks <- 2, SmallInsertLimit <- 8

Before(f, i) == W!Total(f, 0..(i - 1))
ASSUME PlacementIsStable ==
    \A n \in {0, 1, 2, 3, 6, 8, 9} : \A f \in [0..(n - 1) -> 0..1] : \A i \in 0..(n - 1) :
        /\ \E id \in 0..(W!Partitions - 1) : i \in W!Partition(n, id)
        /\ W!Places(f, n)[i] = Before(f, i)
ASSUME MatchesAreInOrder ==
    \A n \in {0, 2, 5} : \A u \in 1..2 : \A i \in 0..(n - 1) :
        /\ \A f \in [0..(n - 1) -> 0..2] : W!RetrievePlaces(f, n, 0)[i] = Before(f, i)
        /\ \A f \in [0..(n - 1) -> {0, u}] : W!RetrievePlaces(f, n, u)[i] = Before(f, i)

VARIABLES which,
    layout, pairs, table, indices, pairPhase, pairCall, pairFlight, failed, accepted, pairRet

(* The multimap: three slots; a small key that collides with a large one and *)
(* shares its tag, and a key whose walk wraps around.                        *)
PairKeys == {-5, 1, 7}
NoKey == -9
PairValues == {-2, 3}
NoValue == 0
\* Key 7 starts at slot 0, as key 1 does, and its hash is the tag of key 1.
PairHashes == (-9 :> 0) @@ (-5 :> 3) @@ (1 :> 0) @@ (7 :> 1)

P(k, x) == [k |-> k, v |-> x]
Good == {P(1, -2), P(7, 3), P(-5, 3)}
AllPairs(s) == [pairs |-> s, sel |-> [i \in DOMAIN s |-> TRUE], conditional |-> FALSE]
PairsIf(s, t) == [pairs |-> s, sel |-> t, conditional |-> TRUE]

PairInsertions ==
    {AllPairs(<<p>>) : p \in Good}
    \cup {AllPairs(<<P(1, 3), P(7, -2)>>), AllPairs(<<P(7, 3), P(1, -2), P(-5, 3)>>),
          AllPairs(<<P(-5, 3), P(-5, 3)>>), AllPairs(<<P(7, 3), P(7, -2), P(7, -2), P(1, 3)>>),
          AllPairs(<<P(1, 3), P(NoKey, 3)>>), AllPairs(<<P(7, NoValue)>>)}
    \cup {PairsIf(<<P(1, 3), P(7, 3), P(NoKey, 3)>>, <<TRUE, TRUE, FALSE>>),
          PairsIf(<<P(7, -2), P(1, -2), P(7, 3)>>, <<FALSE, TRUE, TRUE>>),
          PairsIf(<<P(1, 3), P(-5, 3), P(7, -2), P(1, 3), P(7, 3), P(1, -2)>>,
             <<TRUE, FALSE, TRUE, FALSE, TRUE, TRUE>>)}

Ask(s, t) == [keys |-> s, sel |-> t]
PairQuestions ==
    {Ask(<<7>>, <<TRUE>>), Ask(<<1, 7>>, <<TRUE, TRUE>>),
     Ask(<<7, NoKey, -5, 1, 7>>, <<TRUE, TRUE, FALSE, TRUE, FALSE>>)}
PairRooms == {2, 10}

Pairs == INSTANCE Multimap
    WITH size <- pairs, phase <- pairPhase, call <- pairCall, flight <- pairFlight,
         ret <- pairRet,
         CHUNK <- 2, HashBits <- 2, Key <- PairKeys, EmptyKey <- NoKey,
         Value <- PairValues, EmptyValue <- NoValue, Hash <- PairHashes,
         Batches <- PairInsertions, Queries <- PairQuestions, Rooms <- PairRooms,
         RankedMaximum <- 3, CacheBudget <- 8

ASSUME PairKernelsAssumption == Pairs!KernelShape

pairVars == <<layout, pairs, table, indices, pairPhase, pairCall, pairFlight, failed,
              accepted, pairRet>>

Multisets == which = "multisets"
Multimaps == which = "multimaps"

InitOfAny ==
    \/ /\ Multisets /\ Init
       /\ layout = "" /\ pairs = "" /\ table = "" /\ indices = "" /\ pairPhase = ""
       /\ pairCall = "" /\ pairFlight = "" /\ failed = "" /\ accepted = "" /\ pairRet = ""
    \/ Multimaps /\ Init /\ Pairs!Init

NextOfAny ==
    /\ UNCHANGED which
    /\ \/ Multisets /\ Next /\ UNCHANGED pairVars
       \/ Multimaps /\ Pairs!Next /\ UNCHANGED vars

AnyBag == InitOfAny /\ [][NextOfAny]_<<which, vars, pairVars>>

\* What Multiset_proofs assumes of the instance.
ASSUME SelectionAssumption == PowersOK /\ SelectionOK

\* See Multimap: types, what the table holds, and what callers see.
TableHoldsAccepted == Multimaps => Pairs!TypeOK /\ Pairs!TableHoldsAccepted
MultimapsArePairBags ==
    /\ Multimaps => Pairs!Promise!Init
    /\ [][Multimaps => Pairs!Promise!Step]_<<which, pairVars>>
================================================================================
