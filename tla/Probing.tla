-------------------------------- MODULE Probing --------------------------------
(***************************************************************************)
(* How an open-addressing table gets its capacity and how a key walks it.  *)
(* A table is built for a request (MakeValidExtent), then one key after    *)
(* the other makes an iterator and advances it until it is back.           *)
(*                                                                         *)
(* Every device operation of the table stops when its iterator is back at  *)
(* the index it started from, so the whole of OpenAddressing rests on the  *)
(* walk returning there, and only after every bucket was offered once.     *)
(*                                                                         *)
(* Hashes are inputs.                                                     *)
(***************************************************************************)
EXTENDS ProbeMath

CONSTANTS
    Requests,      \* Requests[scheme]: capacities a caller may ask for
    BucketSizes,   \* values of the template parameter BucketSize
    Hashes         \* values the hash functions may return

Schemes == {"linear", "double"}

InputsOK ==
    /\ WidthsOK /\ PrimesOK
    /\ Requests \in [Schemes -> SUBSET (0..(2^HostBits - 1))]
    /\ BucketSizes \subseteq Nat \ {0}
    /\ Hashes \subseteq 0..(2^DeviceBits - 1)

\* Nobody asks for more slots than the types that count them can hold: neither
\* the extent nor the kernels' tableSize wraps around.
SizesFit ==
    \A bs \in BucketSizes :
        /\ \A r \in Requests["linear"] :
              LinearSlots(r, bs) < 2^HostBits /\ LinearSlots(r, bs) < 2^DeviceBits
        /\ \A r \in Requests["double"] :
              DoubleRejects(r, bs) \/ (/\ DoubleSlots(r, bs) < 2^HostBits
                                       /\ DoubleSlots(r, bs) < 2^DeviceBits)

VARIABLES
    phase,       \* "none", "thrown", "built", "walk", "wrapped"
    scheme,      \* LinearProbing or DoubleHashing
    request,     \* the capacity asked for
    bucketSize,
    capacity,    \* tableSize as the kernels see it
    start,       \* initIdx of the current walk
    step,        \* probeStep_
    idx,         \* idx_
    visited      \* bucket starts handed out since the walk began

vars == <<phase, scheme, request, bucketSize, capacity, start, step, idx, visited>>

--------------------------------------------------------------------------------

TypeOK ==
    /\ phase \in {"none", "thrown", "built", "walk", "wrapped"}
    /\ scheme \in Schemes
    /\ request \in Requests[scheme]
    /\ bucketSize \in BucketSizes
    /\ {capacity, start, step, idx} \subseteq 0..(2^DeviceBits - 1)
    /\ visited \subseteq 0..(2^DeviceBits - 1)

Init ==
    /\ phase = "none"
    /\ scheme \in Schemes
    /\ request \in Requests[scheme]
    /\ bucketSize \in BucketSizes
    /\ capacity = 0 /\ start = 0 /\ step = 0 /\ idx = 0
    /\ visited = {}

\* The constructor: MakeValidExtent, or std::invalid_argument.
Construct ==
    /\ phase = "none"
    /\ LET throws == scheme = "double" /\ DoubleRejects(request, bucketSize)
           ext    == IF scheme = "double" THEN DoubleExtent(request, bucketSize)
                                          ELSE LinearExtent(request, bucketSize)
       IN  /\ phase' = IF throws THEN "thrown" ELSE "built"
           /\ capacity' = IF throws THEN 0 ELSE Device(ext)
    /\ UNCHANGED <<scheme, request, bucketSize, start, step, idx, visited>>

\* A caller catches the exception and asks again, with fewer slots.
Retry ==
    /\ phase = "thrown"
    /\ \E r \in Requests[scheme] : r < request /\ request' = r
    /\ phase' = "none"
    /\ UNCHANGED <<scheme, bucketSize, capacity, start, step, idx, visited>>

\* Some key with hashes h1, h2 starts to probe.
MakeIterator(h1, h2) ==
    /\ phase \in {"built", "wrapped"}
    /\ start' = Initial(h1, capacity, bucketSize)
    /\ step' = IF scheme = "linear" THEN LinearStep(bucketSize)
                                    ELSE DoubleStep(h2, capacity, bucketSize)
    /\ idx' = start'
    /\ visited' = {start'}
    /\ phase' = "walk"
    /\ UNCHANGED <<scheme, request, bucketSize, capacity>>

Advance ==
    /\ phase = "walk"
    /\ idx' = Increment(idx, step, capacity)
    /\ visited' = visited \cup {idx'}
    /\ phase' = IF idx' = start THEN "wrapped" ELSE "walk"
    /\ UNCHANGED <<scheme, request, bucketSize, capacity, start, step>>

Next ==
    \/ Construct
    \/ Retry
    \/ \E h1, h2 \in Hashes : MakeIterator(h1, h2)
    \/ Advance

\* Advance is the device loop: a running thread keeps executing it.
Spec == Init /\ [][Next]_vars /\ WF_vars(Advance)

--------------------------------------------------------------------------------
BucketStarts == {b * bucketSize : b \in 0..(capacity \div bucketSize - 1)}

\* A walk that is back at its start has offered every bucket: an insertion
\* that reports the table full has looked at every slot, a lookup that gives
\* up has too (InsertVerdict, Erase, FindAndContains: `*probingIter == initIdx`).
\* On its way it never leaves the table or straddles two buckets, even when
\* idx + step would not fit the type.
WalksSeeAll ==
    /\ phase = "wrapped" => visited = BucketStarts
    /\ phase \in {"walk", "wrapped"} => /\ idx % bucketSize = 0
                                        /\ idx + bucketSize <= capacity

\* No bucket is offered twice in a walk (a ForEach would call back twice, and
\* an insertion would count positions it already rejected).
FreshBucket == phase = "walk" /\ phase' = "walk" => idx' \notin visited
NoRevisit == [][FreshBucket]_vars

\* A table that was built holds what was asked for, in whole buckets; with
\* double hashing its bucket count is the smallest entry of the prime table
\* that suffices, whatever the binary search did.
CapacitiesServe ==
    phase \in {"built", "walk", "wrapped"} =>
        LET buckets == capacity \div bucketSize IN
        /\ capacity % bucketSize = 0
        /\ capacity >= request
        /\ scheme = "double" =>
             /\ \E i \in 1..Len(Primes) : Primes[i] = buckets
             /\ \A i \in 1..Len(Primes) :
                   Primes[i] < buckets => Primes[i] * bucketSize < AtLeastOne(request)

\* Every walk ends: no key makes a thread probe for ever.
WalkEnds == phase = "walk" ~> phase = "wrapped"
================================================================================
