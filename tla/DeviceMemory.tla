------------------------------ MODULE DeviceMemory ------------------------------
(***************************************************************************)
(* The device memory of a DynamicMap and of its StaticMaps: who allocates  *)
(* a block, who frees it, and what the kernels are given, when the device  *)
(* may refuse any allocation.  Some refusals throw, and the half-built     *)
(* object is taken apart; others are only logged, and the code goes on     *)
(* with a null pointer.                                                    *)
(*                                                                         *)
(* DynamicMap describes when a map grows; here any insertion may grow it,  *)
(* and any older submap may hold keys.  A step is an allocation, or the    *)
(* kernels that a call launches.                                           *)
(***************************************************************************)
EXTENDS Integers, Sequences, FiniteSets, FiniteSetsExt

CONSTANTS
    KeyBytes, PayloadBytes, Align,  \* sizeof(Key), sizeof(T), and 64
    BatchSizes,
    MaxSubmaps, MaxRefusals         \* bounds of the exploration

VARIABLES
    memory,         \* the size of each block, 0: the block is free
    refusals,
    submaps, nextSubmap,            \* the blocks of each StaticMap
    building,       \* the StaticMap under construction, and what it is for
    emptyValue, counter, scratch, dedup,    \* the blocks of the DynamicMap
    scratchBytes, dedupBytes, keysBytes, maskBytes,
    call,           \* the call in progress
    used            \* what the kernels were given that were just launched

blocksVars == <<submaps, nextSubmap, emptyValue, counter, scratch, dedup>>
sizesVars == <<scratchBytes, dedupBytes, keysBytes, maskBytes>>
vars == <<memory, refusals, building, blocksVars, sizesVars, call, used>>

\* A block is named for what is first asked for in it, and numbered.
Names ==
    {"arg", "ioa", "empty", "erased", "slots", "counter", "emptyValue", "scratch", "dedup"}
Block == Names \X (1 .. MaxSubmaps + 1)
Null == <<"null", 0>>

SizesOK ==
    /\ {KeyBytes, PayloadBytes, Align} \subseteq Nat \ {0}
    /\ BatchSizes \subseteq Nat \ {0}
    /\ MaxSubmaps \in Nat /\ MaxRefusals \in Nat

--------------------------------------------------------------------------------
(* The allocator. *)

\* Allocate: a free block, the first of its name, or none.
Granted(name) ==
    {b \in {name} \X (1 .. MaxSubmaps + 1) :
        memory[b] = 0 /\ \A k \in 1 .. b[2] - 1 : memory[<<name, k>>] # 0}
        \cup IF refusals < MaxRefusals THEN {Null} ELSE {}
Refused(b) == refusals' = refusals + (IF b = Null THEN 1 ELSE 0)

\* Deallocate, and the deleters of the smart pointers: null is let alone.
Without(mem, blocks) == [b \in Block |-> IF b \in blocks THEN 0 ELSE mem[b]]
With(mem, b, bytes) == IF b = Null THEN mem ELSE [mem EXCEPT ![b] = bytes]

--------------------------------------------------------------------------------
(* OpenAddressingImpl: four ArgStorages, then the slots. *)

ArgStorages == <<"arg", "ioa", "empty", "erased">>
NoMap == [arg |-> Null, ioa |-> Null, empty |-> Null, erased |-> Null, slots |-> Null]
BlocksOf(m) == {m[f] : f \in DOMAIN m} \ {Null}
NotBuilding == [for |-> "none", tried |-> 0, map |-> NoMap]
Build(for) == building' = [NotBuilding EXCEPT !.for = for]

NoCall == [op |-> "none", at |-> "idle", n |-> 0, held |-> {}, refused |-> FALSE]
NoObject == [NoCall EXCEPT !.at = "absent"]
Done == call' = [NoCall EXCEPT !.at = "done"]
At(where) == call' = [call EXCEPT !.at = where]

\* What a kernel is given: a part of a block, and whose it is.
Part(b, from, upto, whose) == [block |-> b, from |-> from, upto |-> upto, whose |-> whose]
Whole(b, whose) == Part(b, 0, 1, whose)

\* ArgStorage does not look at what it got.
BuildArgStorage ==
    /\ building.for # "none" /\ building.tried < Len(ArgStorages)
    /\ \E b \in Granted(ArgStorages[building.tried + 1]) :
         /\ memory' = With(memory, b, 1) /\ Refused(b)
         /\ building' = [building EXCEPT !.tried = @ + 1,
                                         !.map[ArgStorages[building.tried + 1]] = b]
    /\ used' = {}
    /\ UNCHANGED <<blocksVars, sizesVars, call>>

\* Where the finished StaticMap goes.
Published(m) ==
    CASE building.for = "next" ->
           /\ nextSubmap' = m /\ At("dedup") /\ UNCHANGED submaps
      [] building.for = "first" ->
           /\ submaps' = <<m>> /\ At("emptyValue") /\ UNCHANGED nextSubmap
      [] building.for = "reserved" ->
           /\ submaps' = Append(submaps, m) /\ Done /\ UNCHANGED nextSubmap
      [] building.for = "active" ->
           /\ submaps' = Append(submaps, m) /\ At("prepare") /\ UNCHANGED nextSubmap

\* BucketStorage throws bad_alloc: what was built of the map is freed, and of the
\* DynamicMap, when it is the first.
\* (Variant with a bug: a StaticMap in construction is not destroyed.)
UnwoundObject == IF building.for = "first" THEN {counter} ELSE {}
Unwound == BlocksOf(building.map) \cup UnwoundObject

BuildSlots ==
    /\ building.for # "none" /\ building.tried = Len(ArgStorages)
    /\ \E b \in Granted("slots") :
         LET m == [building.map EXCEPT !.slots = b] IN
         /\ Refused(b)
         /\ IF b = Null
            THEN /\ memory' = Without(memory, Unwound)
                 /\ IF building.for = "first" THEN counter' = Null /\ call' = NoObject
                    ELSE UNCHANGED counter /\ call' = NoCall
                 /\ used' = {}
                 /\ UNCHANGED <<submaps, nextSubmap>>
            ELSE /\ memory' = With(memory, b, 1)
                 /\ Published(m)
                 /\ used' = {Whole(m.slots, "slots"), Whole(m.empty, "unchecked")}
                 /\ UNCHANGED counter
    /\ building' = NotBuilding
    /\ UNCHANGED <<emptyValue, scratch, dedup, sizesVars>>

--------------------------------------------------------------------------------
(* The constructor of DynamicMap, and its destructor. *)

\* The members first: counter_, an ArgStorage.
Construct ==
    /\ call = NoObject /\ building.for = "none"
    /\ \E b \in Granted("counter") :
         memory' = With(memory, b, 1) /\ Refused(b) /\ counter' = b
    /\ Build("first")
    /\ used' = {}
    /\ UNCHANGED <<submaps, nextSubmap, emptyValue, scratch, dedup, sizesVars, call>>

\* The copy of the empty value; failures are logged.
ConstructRest ==
    /\ call.at = "emptyValue"
    /\ \E b \in Granted("emptyValue") :
         memory' = With(memory, b, 1) /\ Refused(b) /\ emptyValue' = b
    /\ call' = NoCall /\ used' = {}
    /\ UNCHANGED <<submaps, nextSubmap, counter, scratch, dedup, sizesVars, building>>

Owned ==
    (UNION {BlocksOf(submaps[s]) : s \in DOMAIN submaps}) \cup BlocksOf(nextSubmap)
        \cup BlocksOf(building.map) \cup ({emptyValue, counter, scratch, dedup} \ {Null})

Destroy ==
    /\ call = NoCall
    /\ memory' = Without(memory, Owned)
    /\ submaps' = <<>> /\ nextSubmap' = NoMap
    /\ emptyValue' = Null /\ counter' = Null /\ scratch' = Null /\ dedup' = Null
    /\ scratchBytes' = 0 /\ dedupBytes' = 0 /\ keysBytes' = 0 /\ maskBytes' = 0
    /\ call' = NoObject /\ used' = {}
    /\ UNCHANGED <<building, refusals>>

--------------------------------------------------------------------------------
(* Growth. *)

Insertions == {"Insert", "InsertOrAssign", "InsertAsync"}
Lookups == {"Find", "Contains"}
Begin ==
    /\ call = NoCall
    /\ \E op \in Insertions \cup Lookups, n \in BatchSizes :
         call' = [NoCall EXCEPT !.op = op, !.n = n,
                                !.at = IF op \in Insertions THEN "room" ELSE "scratch"]
    /\ used' = {}
    /\ UNCHANGED <<memory, refusals, building, blocksVars, sizesVars>>

\* EnsureActiveRoom: there is room, or a prebuilt submap that is large enough, or
\* one is built, for which a prebuilt one is dropped.
EnsureActiveRoom ==
    /\ call.at = "room" /\ building.for = "none"
    /\ used' = {}
    /\ \/ At("prepare") /\ UNCHANGED <<memory, submaps, nextSubmap, building>>
       \/ /\ nextSubmap # NoMap /\ Len(submaps) < MaxSubmaps
          /\ submaps' = Append(submaps, nextSubmap) /\ nextSubmap' = NoMap
          /\ At("prepare") /\ UNCHANGED <<memory, building>>
       \/ /\ Len(submaps) < MaxSubmaps
          /\ memory' = Without(memory, BlocksOf(nextSubmap)) /\ nextSubmap' = NoMap
          /\ Build("active") /\ UNCHANGED <<submaps, call>>
    /\ UNCHANGED <<refusals, emptyValue, counter, scratch, dedup, sizesVars>>

\* StartPrepareNext, when room gets short and there is a background stream.
StartPrepareNext ==
    /\ call.at = "prepare" /\ building.for = "none"
    /\ \/ At("dedup") /\ UNCHANGED building
       \/ /\ nextSubmap = NoMap
          /\ Build("next") /\ UNCHANGED call
    /\ used' = {}
    /\ UNCHANGED <<memory, refusals, blocksVars, sizesVars>>

Reserve ==
    /\ call = NoCall /\ building.for = "none" /\ Len(submaps) < MaxSubmaps
    /\ call' = [NoCall EXCEPT !.op = "Reserve", !.at = "reserve"]
    /\ Build("reserved") /\ used' = {}
    /\ UNCHANGED <<memory, refusals, blocksVars, sizesVars>>

--------------------------------------------------------------------------------
(* The buffers that grow with the batches.  A refusal is logged, and the size   *)
(* is noted all the same.                                                       *)

Rounded(n) == ((n + Align - 1) \div Align) * Align
DedupBytes(n) == Rounded(n * KeyBytes) + 2 * Rounded(n)

\* (Variant with a bug: the noted size is enough.)
LargeBySize(b, has, bytes) == has >= bytes
LargeEnough(b, has, bytes) == has >= bytes /\ b # Null

\* The new block is asked for before the old one is freed.
Replaced(old, b, bytes) == memory' = Without(With(memory, b, bytes), {old}) /\ Refused(b)

\* Keys lie in some of the older submaps, or in none: then there is nothing to
\* look up, and InsertAsync never does.
Older == IF call.op = "InsertAsync" THEN {{}} ELSE SUBSET (1 .. Len(submaps) - 1)

EnsureDedupScratch ==
    /\ call.at = "dedup"
    /\ \E held \in Older :
         IF held = {} \/ LargeEnough(dedup, dedupBytes, DedupBytes(call.n))
         THEN /\ call' = [call EXCEPT !.at = "run", !.held = held]
              /\ UNCHANGED <<memory, refusals, dedup, dedupBytes>>
         ELSE \E b \in Granted("dedup") :
              /\ Replaced(dedup, b, DedupBytes(call.n))
              /\ dedup' = b /\ dedupBytes' = DedupBytes(call.n)
              /\ call' = [call EXCEPT !.at = "run", !.held = held, !.refused = b = Null]
    /\ IF call'.held = {}
       THEN UNCHANGED <<keysBytes, maskBytes>>
       ELSE keysBytes' = Rounded(call.n * KeyBytes) /\ maskBytes' = Rounded(call.n)
    /\ used' = {}
    /\ UNCHANGED <<submaps, nextSubmap, emptyValue, counter, scratch, scratchBytes, building>>

\* The first submap with keys answers into the output; the others into the scratch.
ScratchBytes == call.n * (IF call.op = "Find" THEN PayloadBytes ELSE 1)
EnsureScratch ==
    /\ call.at = "scratch"
    /\ \E held \in SUBSET (1 .. Len(submaps)) :
         IF Cardinality(held) <= 1 \/ LargeEnough(scratch, scratchBytes, ScratchBytes)
         THEN /\ call' = [call EXCEPT !.at = "run", !.held = held]
              /\ UNCHANGED <<memory, refusals, scratch, scratchBytes>>
         ELSE \E b \in Granted("scratch") :
              /\ Replaced(scratch, b, ScratchBytes)
              /\ scratch' = b /\ scratchBytes' = ScratchBytes
              /\ call' = [call EXCEPT !.at = "run", !.held = held, !.refused = b = Null]
    /\ used' = {}
    /\ UNCHANGED <<submaps, nextSubmap, emptyValue, counter, dedup, dedupBytes, keysBytes,
                   maskBytes, building>>

--------------------------------------------------------------------------------
(* The kernels of a call, and what they are given besides the caller's arrays. *)

\* A kernel on submap s reads its empty value, which nobody checked.
Table(s) == {Whole(submaps[s].slots, "slots"), Whole(submaps[s].empty, "unchecked")}
TablesOf(subset) == UNION {Table(s) : s \in subset}
Active == Len(submaps)

\* A buffer that could not be had in this call is used all the same.
Buffer(b, from, bytes) ==
    Part(b, from, from + bytes, IF call.refused THEN "refused" ELSE "scratch")
Keys == Buffer(dedup, 0, call.n * KeyBytes)
Mask == Buffer(dedup, keysBytes, call.n)
Tmp == Buffer(dedup, keysBytes + maskBytes, call.n)

\* BuildContainsMask: a lookup without keys returns at once, a merge does not.
BuildContainsMask ==
    {Keys} \cup (IF dedup = Null THEN {} ELSE {Mask} \cup TablesOf(call.held))
           \cup (IF Cardinality(call.held) > 1 THEN {Mask, Tmp} ELSE {})

\* InitializeZeroAsync throws when it has no memory; Initialize does not.
ZeroThen(b, parts) == IF b = Null THEN {} ELSE parts \cup {Whole(b, "counter")}

InsertIf == ZeroThen(submaps[Active].arg, Table(Active))
Assigned == IF call.op = "InsertOrAssign" THEN TablesOf(call.held \cup {Active}) ELSE {}
InsertKernels ==
    IF call.held # {} THEN BuildContainsMask \cup ZeroThen(counter, {Mask} \cup Assigned)
                           \cup (IF counter = Null THEN {} ELSE InsertIf)
    ELSE CASE call.op = "Insert" -> InsertIf
           [] call.op = "InsertOrAssign" ->
                Table(Active) \cup {Whole(submaps[Active].ioa, "unchecked")}
           [] call.op = "InsertAsync" -> Table(Active)

\* Find and Contains; nothing is found in a submap when there is no scratch.
LookupKernels ==
    LET base == IF call.held = {} THEN 1 ELSE Min(call.held)
        merged == call.held \ {base}
        merge == {Buffer(scratch, 0, ScratchBytes)} \cup
                    IF call.op = "Find" THEN {Whole(emptyValue, "unchecked")} ELSE {}
    IN  Table(base) \cup (IF merged = {} THEN {} ELSE merge)
                   \cup (IF scratch = Null THEN {} ELSE TablesOf(merged))

\* Without a counter a call throws: it cannot zero it, or cannot read it back.
Throws ==
    \/ call.held # {} /\ Null \in {counter, submaps[Active].arg}
    \/ call.held = {} /\ submaps[Active][IF call.op = "Insert" THEN "arg" ELSE "ioa"] = Null

\* A large insertion goes on with its next chunk, for which it may grow again.
Run ==
    /\ call.at = "run" /\ building.for = "none"
    /\ used' = IF call.op \in Insertions THEN InsertKernels ELSE LookupKernels
    /\ \/ Done
       \/ /\ call.op \in {"Insert", "InsertOrAssign"} /\ ~Throws
          /\ \E n \in BatchSizes :
               n <= call.n /\ call' = [NoCall EXCEPT !.op = call.op, !.n = n, !.at = "room"]
    /\ UNCHANGED <<memory, refusals, building, blocksVars, sizesVars>>

\* The submaps in turn, up to one without a counter, where Erase throws.
Erase ==
    /\ call = NoCall
    /\ \E held \in SUBSET DOMAIN submaps :
         LET reached == {s \in held : \A t \in held : t <= s => submaps[t].arg # Null}
         IN  used' = TablesOf(reached) \cup {Whole(submaps[s].arg, "counter") : s \in reached}
                        \cup {Whole(submaps[s].erased, "unchecked") : s \in reached}
    /\ Done
    /\ UNCHANGED <<memory, refusals, building, blocksVars, sizesVars>>

EraseAsync ==
    /\ call = NoCall
    /\ \E held \in SUBSET DOMAIN submaps :
         used' = TablesOf(held) \cup {Whole(submaps[s].erased, "unchecked") : s \in held}
    /\ Done
    /\ UNCHANGED <<memory, refusals, building, blocksVars, sizesVars>>

\* The prebuilt submap is dropped; whether a submap is cleared by a kernel that
\* reads its empty value depends on its capacity.
Clear ==
    /\ call = NoCall
    /\ memory' = Without(memory, BlocksOf(nextSubmap)) /\ nextSubmap' = NoMap
    /\ used' = TablesOf(DOMAIN submaps)
    /\ Done
    /\ UNCHANGED <<refusals, building, submaps, emptyValue, counter, scratch, dedup, sizesVars>>

Return ==
    /\ call.at = "done"
    /\ call' = NoCall /\ used' = {}
    /\ UNCHANGED <<memory, refusals, building, blocksVars, sizesVars>>

--------------------------------------------------------------------------------

Init ==
    /\ memory = [b \in Block |-> 0] /\ refusals = 0
    /\ submaps = <<>> /\ nextSubmap = NoMap /\ building = NotBuilding
    /\ emptyValue = Null /\ counter = Null /\ scratch = Null /\ dedup = Null
    /\ scratchBytes = 0 /\ dedupBytes = 0 /\ keysBytes = 0 /\ maskBytes = 0
    /\ call = NoObject /\ used = {}

Next ==
    \/ Construct \/ BuildArgStorage \/ BuildSlots \/ ConstructRest \/ Destroy
    \/ Begin \/ EnsureActiveRoom \/ StartPrepareNext \/ Reserve
    \/ EnsureDedupScratch \/ EnsureScratch
    \/ Run \/ Erase \/ EraseAsync \/ Clear \/ Return

Spec == Init /\ [][Next]_vars

TypeOK ==
    /\ memory \in [Block -> Nat] /\ refusals \in 0..MaxRefusals
    /\ Len(submaps) <= MaxSubmaps
    /\ {emptyValue, counter, scratch, dedup} \subseteq Block \cup {Null}
    /\ building.tried \in 0 .. Len(ArgStorages)
    /\ call.held \subseteq DOMAIN submaps

\* Whatever the device refuses, and whatever throws half-way, the blocks that
\* are allocated are those of the living objects, and no block has two owners:
\* nothing is leaked and nothing is freed twice.
Owners ==
    {<<"submap", s, f>> : s \in DOMAIN submaps, f \in DOMAIN NoMap}
        \cup {<<"next", 0, f>> : f \in DOMAIN NoMap}
        \cup {<<"building", 0, f>> : f \in DOMAIN NoMap}
        \cup {<<"object", 0, f>> : f \in {"emptyValue", "counter", "scratch", "dedup"}}
BlockOf(o) ==
    CASE o[1] = "submap" -> submaps[o[2]][o[3]]
      [] o[1] = "next" -> nextSubmap[o[3]]
      [] o[1] = "building" -> building.map[o[3]]
      [] o[3] = "emptyValue" -> emptyValue
      [] o[3] = "counter" -> counter
      [] o[3] = "scratch" -> scratch
      [] o[3] = "dedup" -> dedup
OneOwner ==
    LET owners == {o \in Owners : BlockOf(o) # Null} IN
    /\ \A b \in Block : memory[b] # 0 <=> \E o \in owners : BlockOf(o) = b
    /\ \A o, p \in owners : BlockOf(o) = BlockOf(p) => o = p

\* What a kernel is given lies in an allocated block and inside it, and the
\* buffers of one call do not overlap.  A null pointer reaches a kernel only where
\* a refused allocation is no more than logged: never as the slots or a counter,
\* and as a buffer only in the very call in which it was refused.
Inside(part) == part.block # Null /\ part.upto <= memory[part.block]
KernelsGetMemory ==
    /\ \A part \in used :
         Inside(part) \/ (part.block = Null /\ part.whose \in {"unchecked", "refused"})
    /\ \A p, q \in used :
         p # q /\ p.block = q.block /\ p.block # Null => p.upto <= q.from \/ q.upto <= p.from
================================================================================
