--------------------------------- MODULE MCMaps ---------------------------------
(***************************************************************************)
(* DynamicMap with the constants of the configuration, and the calls of a  *)
(* StaticMap and of a StaticSet of two slots, which share no state with    *)
(* it: a behaviour is one of them, chosen at the start among Containers.   *)
(* Both keys visit the slots in the same order.                            *)
(*                                                                         *)
(* A DynamicMap has submaps of a few slots, a minimal insertion size of at *)
(* most one, batches that fit, fill and overflow the active submap.        *)
(***************************************************************************)
EXTENDS DynamicMap, TLC

CONSTANTS a, b, c, v, w, novalue, ka, kb, x, y, none, gone, Containers

P == INSTANCE ProbeMath WITH HostBits <- 16, DeviceBits <- 16, Primes <- <<2, 3, 5>>

\* Linear probing over buckets of one slot, or of two.
SingleSlots(cap) == P!LinearExtent(cap, 1)
PairSlots(cap) == P!LinearExtent(cap, 2)

Symmetry == {f @@ g : f \in Permutations(Key), g \in Permutations(Val)}

VARIABLES container, host, content, used, expected, inOrder, ownCount

callVars == <<host, content, used, expected, inOrder, ownCount>>

Element(k, z, p) == [key |-> k, val |-> z, pass |-> p]
Elements == {<<Element(ka, x, TRUE)>>, <<Element(ka, y, TRUE), Element(kb, x, FALSE)>>}
MapBatches ==
    [elems : Elements, null : {FALSE}]
    \cup {[elems |-> <<Element(ka, x, TRUE)>>, null |-> TRUE]}
SetBatches == [elems : Elements \cup {<<>>}, null : BOOLEAN]
TwoSlots == [k \in {ka, kb} |-> <<1, 2>>]

Map == INSTANCE StaticMap WITH
    IsPair <- TRUE, EmptyKey <- none, EmptyVal <- novalue, ErasedKey <- gone,
    N <- 2, Path <- TwoSlots, Batches <- MapBatches, MaxQueue <- 1, MaxStale <- 1
Set == INSTANCE StaticSet WITH
    IsPair <- FALSE, EmptyKey <- none, EmptyVal <- novalue, ErasedKey <- gone,
    N <- 2, Path <- TwoSlots, Batches <- SetBatches, MaxQueue <- 1, MaxStale <- 1

Growing == container = "DynamicMap"
AMap == container = "StaticMap"
ASet == container = "StaticSet"

\* (A DynamicMap that is not used stays as it is constructed.)
InitOfAny ==
    /\ Init /\ container \in Containers
    /\ \/ /\ Growing
          /\ host = "" /\ content = "" /\ used = "" /\ expected = "" /\ inOrder = ""
          /\ ownCount = ""
       \/ /\ ~prep /\ ~contract
          /\ \/ AMap /\ Map!LogInit
             \/ ASet /\ Set!LogInit

NextOfAny ==
    /\ UNCHANGED container
    /\ \/ Growing /\ Next /\ UNCHANGED callVars
       \/ AMap /\ Map!MapNext /\ UNCHANGED vars
       \/ ASet /\ Set!SetNext /\ UNCHANGED vars

AnyMap == InitOfAny /\ [][NextOfAny]_<<container, vars, callVars>>

TypesOK ==
    /\ TypeOK
    /\ AMap => Map!LogTypeOK
    /\ ASet => Set!LogTypeOK

\* See CallLog: what kernels output and what calls return, whichever steps of
\* the calls before have failed.
AnswersComeInOrder == (AMap => Map!AnswersComeInOrder) /\ (ASet => Set!AnswersComeInOrder)
CountsAreOwn == (AMap => Map!CountsAreOwn) /\ (ASet => Set!CountsAreOwn)
================================================================================
