-------------------------- MODULE DeviceMemory_proofs --------------------------
(***************************************************************************)
(* DeviceMemory: each allocated block has one owner, whatever is refused,  *)
(* and the kernels get memory.  And RoaringBitmap, the other component     *)
(* that owns device memory: for any images, objects and streams and any    *)
(* number of failures, what is allocated there has one owner.              *)
(*                                                                         *)
(* OneOwner is not inductive.  A step is safe because of where the call    *)
(* is: a prebuilt submap is constructed only while there is none, a        *)
(* DynamicMap only where nothing is left of an earlier one; otherwise a    *)
(* block would be overwritten and lost.  Construction and Presence say so. *)
(* A step moves blocks between owners in one of three ways, and the lemmas *)
(* Taken, Dropped and HandedOver show that each keeps it (SoleOwners).     *)
(*                                                                         *)
(* KernelsGetMemory follows from it: a kernel is given the whole of a      *)
(* block in the one way its owner is for, so that two parts of one block   *)
(* are parts of a buffer; and CallReady has a call that launches own a     *)
(* buffer of the size it computes with, or have been refused one.          *)
(***************************************************************************)
EXTENDS DeviceMemory, NaturalInduction, SequenceTheorems, FiniteSetTheorems

--------------------------------------------------------------------------------
(* The inductive invariant. *)

Place == Block \cup {Null}
Maps == [arg : Place, ioa : Place, empty : Place, erased : Place, slots : Place]
Callers ==
    [op : Insertions \cup Lookups \cup {"none", "Reserve"},
     at : {"idle", "absent", "done", "room", "prepare", "dedup", "scratch", "run", "reserve",
           "emptyValue"},
     n : Nat, held : SUBSET Nat, refused : BOOLEAN]
Works == [for : {"none", "first", "next", "reserved", "active"}, tried : 0 .. 4, map : Maps]

Types ==
    /\ memory \in [Block -> Nat]
    /\ submaps \in Seq(Maps) /\ nextSubmap \in Maps
    /\ {emptyValue, counter, scratch, dedup} \subseteq Place
    /\ {scratchBytes, dedupBytes, keysBytes, maskBytes} \subseteq Nat
    /\ building \in Works
    /\ call \in Callers

\* What is under construction, and in which call.
Construction ==
    /\ building.for = "none" => building = NotBuilding
    /\ building.for = "first" => call = NoObject
    /\ building.for = "next" => call.at = "prepare" /\ nextSubmap = NoMap
    /\ building.for = "active" => call.at = "room"
    /\ building.for = "reserved" => call.at = "reserve"
    /\ building.map.slots = Null
    /\ \A n \in building.tried + 1 .. 4 : building.map[ArgStorages[n]] = Null

\* There is an object, or nothing of it.
Presence ==
    /\ call.at = "absent" =>
         /\ call = NoObject
         /\ submaps = <<>> /\ nextSubmap = NoMap
         /\ emptyValue = Null /\ scratch = Null /\ dedup = Null
         /\ counter = Null \/ building.for = "first"
    /\ call.at # "absent" => submaps # <<>>
    /\ call.at = "emptyValue" => emptyValue = Null

\* A finished StaticMap has slots.
SlotsThere ==
    /\ \A s \in DOMAIN submaps : submaps[s].slots # Null
    /\ nextSubmap = NoMap \/ nextSubmap.slots # Null

\* The noted sizes are those of the buffers.
SizesTrue ==
    /\ scratch # Null => memory[scratch] = scratchBytes
    /\ dedup # Null => memory[dedup] = dedupBytes

\* A call that launches has its buffers, or was refused them.
Has(b, has, bytes) ==
    IF call.refused THEN b = Null ELSE b # Null /\ bytes <= has
CallReady ==
    /\ call.at \in {"room", "prepare", "dedup"} => call.op \in Insertions
    /\ call.at = "scratch" => call.op \in Lookups
    /\ call.at # "run" => ~call.refused /\ call.held = {}
    /\ call.at \in {"room", "prepare", "dedup", "scratch", "run"} => call.n > 0
    /\ call.at = "run" =>
         /\ call.op \in Insertions \cup Lookups
         /\ call.op \in Insertions =>
              /\ call.held \subseteq 1 .. Len(submaps) - 1
              /\ call.op = "InsertAsync" => call.held = {}
              /\ call.held # {} =>
                   /\ keysBytes = Rounded(call.n * KeyBytes) /\ maskBytes = Rounded(call.n)
                   /\ Has(dedup, dedupBytes, DedupBytes(call.n))
         /\ call.op \in Lookups =>
              /\ call.held \subseteq 1 .. Len(submaps)
              /\ Cardinality(call.held) > 1 => Has(scratch, scratchBytes, ScratchBytes)

\* OneOwner, with the owners that hold no block among the others.
SoleOwners ==
    /\ \A b \in Block : memory[b] # 0 <=> \E o \in Owners : BlockOf(o) = b
    /\ \A o, p \in Owners : BlockOf(o) = BlockOf(p) => o = p \/ BlockOf(o) = Null

MemoryInv ==
    Types /\ Construction /\ Presence /\ SlotsThere /\ SizesTrue /\ CallReady /\ SoleOwners

--------------------------------------------------------------------------------
(* Owners and their blocks. *)

LEMMA NullIsNoBlock == Null \notin Block
  BY DEF Null, Block, Names

Field == {"arg", "ioa", "empty", "erased", "slots"}
LEMMA Fields == DOMAIN NoMap = Field /\ NoMap \in Maps /\ \A f \in Field : NoMap[f] = Null
  BY DEF NoMap, Field, Maps, Place

LEMMA MapFields ==
    ASSUME NEW m \in Maps
    PROVE  DOMAIN m = Field /\ \A f \in Field : m[f] \in Place
  BY DEF Maps, Field

ObjectField == {"emptyValue", "counter", "scratch", "dedup"}

Ownership ==
    /\ \A o : o \in Owners <=>
          \/ \E s \in DOMAIN submaps : \E f \in Field : o = <<"submap", s, f>>
          \/ \E f \in Field : o = <<"next", 0, f>>
          \/ \E f \in Field : o = <<"building", 0, f>>
          \/ \E f \in ObjectField : o = <<"object", 0, f>>
    /\ \A s : \A f \in Field : BlockOf(<<"submap", s, f>>) = submaps[s][f]
    /\ \A f \in Field : BlockOf(<<"next", 0, f>>) = nextSubmap[f]
    /\ \A f \in Field : BlockOf(<<"building", 0, f>>) = building.map[f]
    /\ BlockOf(<<"object", 0, "emptyValue">>) = emptyValue
    /\ BlockOf(<<"object", 0, "counter">>) = counter
    /\ BlockOf(<<"object", 0, "scratch">>) = scratch
    /\ BlockOf(<<"object", 0, "dedup">>) = dedup

LEMMA OwnersAre == Ownership /\ Ownership'
  <1>1. \A o : o \in Owners <=>
          \/ \E s \in DOMAIN submaps : \E f \in Field : o = <<"submap", s, f>>
          \/ \E f \in Field : o = <<"next", 0, f>>
          \/ \E f \in Field : o = <<"building", 0, f>>
          \/ \E f \in ObjectField : o = <<"object", 0, f>>
    BY Fields DEF Owners, ObjectField
  <1>2. \A s : \A f \in Field : BlockOf(<<"submap", s, f>>) = submaps[s][f]
    <2> TAKE s
    <2> TAKE f \in Field
    <2> DEFINE o == <<"submap", s, f>>
    <2>1. o[1] = "submap" /\ o[2] = s /\ o[3] = f OBVIOUS
    <2> HIDE DEF o
    <2>2. BlockOf(o) = submaps[o[2]][o[3]] BY <2>1 DEF BlockOf, Field
    <2> QED BY <2>1, <2>2 DEF o
  <1>3. /\ \A f \in Field : BlockOf(<<"next", 0, f>>) = nextSubmap[f]
        /\ \A f \in Field : BlockOf(<<"building", 0, f>>) = building.map[f]
    <2> SUFFICES ASSUME NEW f \in Field
                 PROVE  /\ BlockOf(<<"next", 0, f>>) = nextSubmap[f]
                        /\ BlockOf(<<"building", 0, f>>) = building.map[f]
      OBVIOUS
    <2> DEFINE o == <<"next", 0, f>>
               p == <<"building", 0, f>>
    <2>1. o[1] = "next" /\ o[3] = f /\ p[1] = "building" /\ p[3] = f OBVIOUS
    <2> HIDE DEF o, p
    <2>2. BlockOf(o) = nextSubmap[o[3]] /\ BlockOf(p) = building.map[p[3]]
      BY <2>1 DEF BlockOf, Field
    <2> QED BY <2>1, <2>2 DEF o, p
  <1>4. /\ BlockOf(<<"object", 0, "emptyValue">>) = emptyValue
        /\ BlockOf(<<"object", 0, "counter">>) = counter
        /\ BlockOf(<<"object", 0, "scratch">>) = scratch
        /\ BlockOf(<<"object", 0, "dedup">>) = dedup
    BY DEF BlockOf
  <1>5. Ownership BY <1>1, <1>2, <1>3, <1>4 DEF Ownership
  <1>6. Ownership' BY <1>5, PTL
  <1> QED BY <1>5, <1>6

\* The owners of four kinds.
LEMMA Kinds ==
    ASSUME NEW o \in Owners
    PROVE  \/ \E s \in DOMAIN submaps : \E f \in Field : o = <<"submap", s, f>>
           \/ \E f \in Field : o = <<"next", 0, f>>
           \/ \E f \in Field : o = <<"building", 0, f>>
           \/ o = <<"object", 0, "emptyValue">>
           \/ o = <<"object", 0, "counter">>
           \/ o = <<"object", 0, "scratch">>
           \/ o = <<"object", 0, "dedup">>
  BY OwnersAre DEF Ownership, ObjectField

LEMMA OwnedBlocks ==
    ASSUME Types, NEW o \in Owners
    PROVE  BlockOf(o) \in Place
  <1>1. \A s \in DOMAIN submaps : submaps[s] \in Maps BY DEF Types
  <1>2. building.map \in Maps /\ nextSubmap \in Maps BY DEF Types, Works
  <1>3. CASE \E s \in DOMAIN submaps : \E f \in Field : o = <<"submap", s, f>>
    BY <1>1, <1>3, MapFields, OwnersAre DEF Ownership
  <1>4. CASE \E f \in Field : o = <<"next", 0, f>> BY <1>2, <1>4, MapFields, OwnersAre DEF Ownership
  <1>5. CASE \E f \in Field : o = <<"building", 0, f>> BY <1>2, <1>5, MapFields, OwnersAre DEF Ownership
  <1>6. CASE \E f \in {"emptyValue", "counter", "scratch", "dedup"} : o = <<"object", 0, f>>
    BY <1>6, OwnersAre DEF Types, Ownership
  <1> QED BY <1>3, <1>4, <1>5, <1>6, Kinds

LEMMA BlocksOfMap ==
    ASSUME NEW m \in Maps, NEW b \in Block
    PROVE  b \in BlocksOf(m) <=> \E f \in Field : m[f] = b
  BY MapFields, NullIsNoBlock DEF BlocksOf

\* An owner gets a block that was free, for the one it had.
LEMMA Taken ==
    ASSUME SoleOwners, NEW taker \in Owners, NEW b \in Place,
           \A o : o \in Owners' <=> o \in Owners,
           \A o \in Owners : BlockOf(o)' = IF o = taker THEN b ELSE BlockOf(o),
           b # Null => memory[b] = 0,
           \A x \in Block : memory'[x] # 0 <=> x = b \/ (memory[x] # 0 /\ x # BlockOf(taker))
    PROVE  SoleOwners'
  <1>1. \A o \in Owners : b # Null => BlockOf(o) # b
    BY NullIsNoBlock DEF SoleOwners, Place
  <1>2. ASSUME NEW x \in Block
        PROVE  memory'[x] # 0 <=> \E o \in Owners' : BlockOf(o)' = x
    <2>1. CASE x = b BY <2>1
    <2>2. CASE x # b
      <3>1. memory[x] # 0 <=> \E o \in Owners : BlockOf(o) = x BY DEF SoleOwners
      <3>2. \A o, p \in Owners : BlockOf(o) = x /\ BlockOf(p) = x => o = p
        BY NullIsNoBlock DEF SoleOwners
      <3> QED BY <2>2, <3>1, <3>2
    <2> QED BY <2>1, <2>2
  <1>3. ASSUME NEW o \in Owners', NEW p \in Owners', BlockOf(o)' = BlockOf(p)'
        PROVE  o = p \/ BlockOf(o)' = Null
    BY <1>1, <1>3 DEF SoleOwners
  <1> QED BY <1>2, <1>3 DEF SoleOwners

\* Some owners give up what they have; some of them are no more.
LEMMA Dropped ==
    ASSUME SoleOwners, NEW gone,
           \A o \in Owners' : o \in Owners,
           \A o \in Owners : o \in Owners' \/ o \in gone,
           \A o \in Owners' : BlockOf(o)' = IF o \in gone THEN Null ELSE BlockOf(o),
           \A x \in Block : memory'[x] # 0 <=>
               memory[x] # 0 /\ \A o \in Owners : o \in gone => BlockOf(o) # x
    PROVE  SoleOwners'
  <1>1. ASSUME NEW x \in Block
        PROVE  memory'[x] # 0 <=> \E o \in Owners' : BlockOf(o)' = x
    <2>1. memory[x] # 0 <=> \E o \in Owners : BlockOf(o) = x BY DEF SoleOwners
    <2>2. \A o, p \in Owners : BlockOf(o) = x /\ BlockOf(p) = x => o = p
      BY NullIsNoBlock DEF SoleOwners
    <2>3. x # Null BY NullIsNoBlock
    <2> QED BY <2>1, <2>2, <2>3
  <1>2. ASSUME NEW o \in Owners', NEW p \in Owners', BlockOf(o)' = BlockOf(p)'
        PROVE  o = p \/ BlockOf(o)' = Null
    BY <1>2 DEF SoleOwners
  <1> QED BY <1>1, <1>2 DEF SoleOwners

\* Blocks go from the owners in old to those in new, of which one gets a block
\* that was free.
LEMMA HandedOver ==
    ASSUME SoleOwners, NEW from, NEW taker \in Owners', NEW b \in Place,
           b # Null => memory[b] = 0,
           \A o \in Owners' : o # taker =>
               BlockOf(o)' = Null \/ (from[o] \in Owners /\ BlockOf(o)' = BlockOf(from[o])),
           BlockOf(taker)' = b,
           \A o, p \in Owners' :
               from[o] = from[p] => o = p \/ BlockOf(o)' = Null \/ BlockOf(p)' = Null,
           \A q \in Owners : \/ BlockOf(q) = Null
                             \/ \E o \in Owners' : o # taker /\ BlockOf(o)' = BlockOf(q),
           \A x \in Block : memory'[x] # 0 <=> x = b \/ memory[x] # 0
    PROVE  SoleOwners'
  <1>1. \A o \in Owners : b # Null => BlockOf(o) # b
    BY NullIsNoBlock DEF SoleOwners, Place
  <1>2. ASSUME NEW x \in Block
        PROVE  memory'[x] # 0 <=> \E o \in Owners' : BlockOf(o)' = x
    <2>1. memory[x] # 0 <=> \E o \in Owners : BlockOf(o) = x BY DEF SoleOwners
    <2>2. x # Null BY NullIsNoBlock
    <2> QED BY <2>1, <2>2
  <1>3. ASSUME NEW o \in Owners', NEW p \in Owners', BlockOf(o)' = BlockOf(p)'
        PROVE  o = p \/ BlockOf(o)' = Null
    BY <1>1, <1>3 DEF SoleOwners
  <1> QED BY <1>2, <1>3 DEF SoleOwners

--------------------------------------------------------------------------------
(* Allocation. *)

LEMMA GrantedIsFree ==
    ASSUME NEW name \in Names, NEW b \in Granted(name)
    PROVE  b \in Place /\ (b # Null => b \in Block /\ memory[b] = 0)
  BY NullIsNoBlock DEF Granted, Block, Place

LEMMA WithBlock ==
    ASSUME Types, NEW b \in Place, NEW n \in Nat
    PROVE  /\ With(memory, b, n) \in [Block -> Nat]
           /\ \A x \in Block : With(memory, b, n)[x] = IF x = b THEN n ELSE memory[x]
  BY NullIsNoBlock DEF With, Types, Place

LEMMA WithoutBlocks ==
    ASSUME NEW mem \in [Block -> Nat], NEW gone
    PROVE  /\ Without(mem, gone) \in [Block -> Nat]
           /\ \A x \in Block : Without(mem, gone)[x] = IF x \in gone THEN 0 ELSE mem[x]
  BY DEF Without

LEMMA OwnedIsAllocated ==
    ASSUME Types, SoleOwners, NEW o \in Owners, BlockOf(o) # Null
    PROVE  BlockOf(o) \in Block /\ memory[BlockOf(o)] # 0
  <1>1. BlockOf(o) \in Block BY OwnedBlocks DEF Place
  <1> QED BY <1>1 DEF SoleOwners

\* The buffers keep their sizes while others' blocks come and go.
LEMMA BuffersKeep ==
    ASSUME SizesTrue, UNCHANGED <<scratch, dedup, scratchBytes, dedupBytes>>,
           scratch # Null => memory'[scratch] = memory[scratch],
           dedup # Null => memory'[dedup] = memory[dedup]
    PROVE  SizesTrue'
  BY DEF SizesTrue

LEMMA BuffersAreAllocated ==
    ASSUME Types, SoleOwners
    PROVE  /\ scratch # Null => scratch \in Block /\ memory[scratch] # 0
           /\ dedup # Null => dedup \in Block /\ memory[dedup] # 0
  <1>1. <<"object", 0, "scratch">> \in Owners /\ <<"object", 0, "dedup">> \in Owners
    BY OwnersAre DEF Ownership, ObjectField
  <1> QED BY <1>1, OwnersAre, OwnedIsAllocated DEF Ownership

LEMMA ArgNames ==
    /\ Len(ArgStorages) = 4
    /\ \A n \in 1 .. 4 : ArgStorages[n] \in Field \cap Names /\ ArgStorages[n] # "slots"
    /\ \A m, n \in 1 .. 4 : ArgStorages[m] = ArgStorages[n] => m = n
  <1>1. ArgStorages = <<"arg", "ioa", "empty", "erased">> BY DEF ArgStorages
  <1>2. 1 .. 4 = {1, 2, 3, 4} OBVIOUS
  <1> QED BY <1>1, <1>2 DEF Field, Names

LEMMA BuildArgStorageKeeps ==
    ASSUME SizesOK, MemoryInv, BuildArgStorage
    PROVE  MemoryInv'
  <1> USE DEF MemoryInv
  <1>1. /\ building.for # "none" /\ building.tried < 4 /\ building \in Works
        /\ UNCHANGED <<blocksVars, sizesVars, call>>
    BY ArgNames DEF BuildArgStorage, Types
  <1>2. building.tried \in 0 .. 3 /\ building.map \in Maps BY <1>1 DEF Works
  <1>3. PICK f \in Field \cap Names : f = ArgStorages[building.tried + 1] /\ f # "slots"
    BY <1>2, ArgNames
  <1>4. PICK b \in Granted(f) :
          /\ memory' = With(memory, b, 1)
          /\ building' = [building EXCEPT !.tried = @ + 1, !.map[f] = b]
    BY <1>3 DEF BuildArgStorage
  <1>5. b \in Place /\ (b # Null => b \in Block /\ memory[b] = 0) BY <1>4, GrantedIsFree
  <1>6. memory' \in [Block -> Nat] /\ \A x \in Block : memory'[x] = IF x = b THEN 1 ELSE memory[x]
    BY <1>4, <1>5, WithBlock
  <1>7. /\ building'.for = building.for /\ building'.tried = building.tried + 1
        /\ building'.map = [building.map EXCEPT ![f] = b]
    BY <1>1, <1>4 DEF Works
  <1>8. building'.map \in Maps /\ building' \in Works
    <2>1. [building.map EXCEPT ![f] = b] \in Maps
      BY <1>2, <1>5 DEF Maps, Field
    <2>2. building' = [for |-> building.for, tried |-> building.tried + 1,
                       map |-> [building.map EXCEPT ![f] = b]]
      BY <1>1, <1>4 DEF Works
    <2> QED BY <1>1, <1>2, <1>7, <2>1, <2>2 DEF Works
  <1>9. \A g \in Field : building'.map[g] = IF g = f THEN b ELSE building.map[g]
    BY <1>2, <1>7, MapFields
  <1>10. Types' BY <1>1, <1>6, <1>8 DEF Types, blocksVars, sizesVars, Callers
  <1>11. Construction'
    <2>1. building'.map.slots = building.map.slots BY <1>3, <1>9 DEF Field
    <2>2. ASSUME NEW n \in building'.tried + 1 .. 4 PROVE building'.map[ArgStorages[n]] = Null
      <3>1. n \in building.tried + 1 .. 4 /\ n # building.tried + 1 /\ n \in 1 .. 4
        BY <1>2, <1>7, <2>2
      <3>2. ArgStorages[n] # f /\ ArgStorages[n] \in Field BY <1>2, <1>3, <3>1, ArgNames
      <3> QED BY <1>9, <3>1, <3>2 DEF Construction
    <2> QED BY <1>1, <1>7, <2>1, <2>2 DEF Construction, blocksVars
  <1>12. Presence' /\ SlotsThere' /\ CallReady'
    BY <1>1, <1>7 DEF Presence, SlotsThere, CallReady, Has, ScratchBytes, blocksVars, sizesVars
  <1>13. SizesTrue'
    BY <1>1, <1>5, <1>6, BuffersKeep, BuffersAreAllocated DEF blocksVars, sizesVars
  <1>14. SoleOwners'
    <2> DEFINE taker == <<"building", 0, f>>
    <2>1. taker \in Owners /\ BlockOf(taker) = building.map[f] BY OwnersAre DEF Ownership
    <2>2. building.map[f] = Null BY <1>2, <1>3 DEF Construction
    <2>3. \A o : o \in Owners' <=> o \in Owners BY <1>1 DEF Owners, blocksVars
    <2>4. ASSUME NEW o \in Owners PROVE BlockOf(o)' = IF o = taker THEN b ELSE BlockOf(o)
      <3>1. CASE \E g \in Field : o = <<"building", 0, g>>
        BY <1>9, <3>1, OwnersAre DEF Ownership
      <3>2. CASE \E s \in DOMAIN submaps : \E g \in Field : o = <<"submap", s, g>>
        BY <1>1, <3>2, OwnersAre DEF Ownership, blocksVars
      <3>3. CASE \E g \in Field : o = <<"next", 0, g>>
        BY <1>1, <3>3, OwnersAre DEF Ownership, blocksVars
      <3>4. CASE o[1] = "object" BY <1>1, <3>4, Kinds, OwnersAre DEF Ownership, blocksVars
      <3> QED BY <3>1, <3>2, <3>3, <3>4, Kinds
    <2>5. \A x \in Block : memory'[x] # 0 <=> x = b \/ (memory[x] # 0 /\ x # BlockOf(taker))
      BY <1>6, <2>1, <2>2, NullIsNoBlock
    <2> HIDE DEF taker
    <2> QED BY <1>5, <2>1, <2>3, <2>4, <2>5, Taken
  <1> QED BY <1>10, <1>11, <1>12, <1>13, <1>14

\* Where a block of a StaticMap is from when its construction ends.
LEMMA EndsConstruction ==
    ASSUME MemoryInv, BuildSlots
    PROVE  /\ building.for # "none" /\ building.tried = 4 /\ building.map \in Maps
           /\ building' = NotBuilding
           /\ UNCHANGED <<emptyValue, scratch, dedup, sizesVars>>
           /\ \E b \in Granted("slots") :
                LET m == [building.map EXCEPT !.slots = b]
                IN  IF b = Null
                    THEN /\ memory' = Without(memory, Unwound)
                         /\ IF building.for = "first"
                            THEN counter' = Null /\ call' = NoObject
                            ELSE UNCHANGED counter /\ call' = NoCall
                         /\ UNCHANGED <<submaps, nextSubmap>>
                    ELSE /\ memory' = With(memory, b, 1) /\ Published(m)
                         /\ UNCHANGED counter
  BY ArgNames DEF BuildSlots, MemoryInv, Types, Works

\* The slots are refused, and what there is of the map is given back.
LEMMA UnwoundKeeps ==
    ASSUME SizesOK, MemoryInv, BuildSlots,
           memory' = Without(memory, Unwound),
           IF building.for = "first" THEN counter' = Null /\ call' = NoObject
           ELSE UNCHANGED counter /\ call' = NoCall,
           UNCHANGED <<submaps, nextSubmap>>
    PROVE  MemoryInv'
  <1> USE DEF MemoryInv
  <1>1. /\ building.for # "none" /\ building.map \in Maps /\ building' = NotBuilding
        /\ UNCHANGED <<submaps, nextSubmap, emptyValue, scratch, dedup, sizesVars>>
    BY EndsConstruction
  <1>2. memory \in [Block -> Nat] BY DEF Types
  <1>3. memory' \in [Block -> Nat]
        /\ \A x \in Block : memory'[x] = IF x \in Unwound THEN 0 ELSE memory[x]
    BY <1>2, WithoutBlocks
  <1> DEFINE first == building.for = "first"
             gone == {o \in Owners : o[1] = "building"}
                        \cup (IF first THEN {<<"object", 0, "counter">>} ELSE {})
  <1>4. \A x \in Block : x \in Unwound <=> \E o \in Owners : o \in gone /\ BlockOf(o) = x
    <2> SUFFICES ASSUME NEW x \in Block
                 PROVE  x \in Unwound <=> \E o \in Owners : o \in gone /\ BlockOf(o) = x
      OBVIOUS
    <2>1. x \in BlocksOf(building.map) <=> \E f \in Field : building.map[f] = x
      BY <1>1, BlocksOfMap
    <2>2. x \in BlocksOf(building.map)
            <=> \E o \in Owners : o[1] = "building" /\ BlockOf(o) = x
      <3>1. \A o \in Owners : o[1] = "building" =>
              \E f \in Field : o = <<"building", 0, f>> /\ BlockOf(o) = building.map[f]
        BY Kinds, OwnersAre DEF Ownership
      <3>2. \A f \in Field : /\ <<"building", 0, f>> \in Owners
                             /\ <<"building", 0, f>>[1] = "building"
                             /\ BlockOf(<<"building", 0, f>>) = building.map[f]
        BY OwnersAre DEF Ownership
      <3> QED BY <2>1, <3>1, <3>2
    <2>3. <<"object", 0, "counter">> \in Owners /\ BlockOf(<<"object", 0, "counter">>) = counter
      BY OwnersAre DEF Ownership, ObjectField
    <2> QED BY <2>2, <2>3 DEF Unwound, UnwoundObject
  <1>5. NoCall \in Callers /\ NoObject \in Callers BY DEF NoCall, NoObject, Callers
  <1>6. NotBuilding \in Works BY Fields DEF NotBuilding, Works
  <1>7. Types'
    <2>1. counter' \in Place BY DEF Types, Place
    <2>2. call' \in Callers BY <1>5
    <2> QED BY <1>1, <1>3, <1>6, <2>1, <2>2 DEF Types, sizesVars
  <1>8. Construction' BY <1>1, ArgNames, Fields DEF Construction, NotBuilding, Field
  <1>9. Presence' /\ SlotsThere' /\ CallReady'
    <2>1. CASE first
      <3>1. call' = NoObject /\ counter' = Null BY <2>1
      <3> QED BY <1>1, <2>1, <3>1
          DEF Construction, Presence, SlotsThere, CallReady, NoObject, NoCall
    <2>2. CASE ~first
      <3>1. call' = NoCall /\ counter' = counter BY <2>2
      <3>2. call.at # "absent" BY <1>1, <2>2 DEF Construction, Types, Works, Presence, NoObject, NoCall
      <3> QED BY <1>1, <3>1, <3>2
          DEF Presence, SlotsThere, CallReady, NoObject, NoCall
    <2> QED BY <2>1, <2>2
  <1>10. SoleOwners'
    <2>1. \A o \in Owners' : o \in Owners BY <1>1 DEF Owners
    <2>2. \A o \in Owners : o \in Owners' BY <1>1 DEF Owners
    <2>3. ASSUME NEW o \in Owners'
          PROVE  BlockOf(o)' = IF o \in gone THEN Null ELSE BlockOf(o)
      <3>1. CASE \E g \in Field : o = <<"building", 0, g>>
        <4>1. PICK g \in Field : o = <<"building", 0, g>> BY <3>1
        <4>2. BlockOf(o)' = NoMap[g] BY <1>1, <4>1, OwnersAre DEF Ownership, NotBuilding
        <4> QED BY <2>1, <4>1, <4>2, Fields
      <3>2. CASE \E s \in DOMAIN submaps : \E g \in Field : o = <<"submap", s, g>>
        BY <1>1, <3>2, OwnersAre DEF Ownership
      <3>3. CASE \E g \in Field : o = <<"next", 0, g>> BY <1>1, <3>3, OwnersAre DEF Ownership
      <3>4. CASE o = <<"object", 0, "counter">>
        BY <3>4, OwnersAre DEF Ownership
      <3>5. CASE \E f \in {"emptyValue", "scratch", "dedup"} : o = <<"object", 0, f>>
        BY <1>1, <3>5, OwnersAre DEF Ownership
      <3> QED BY <2>1, <3>1, <3>2, <3>3, <3>4, <3>5, Kinds
    <2>4. \A x \in Block : memory'[x] # 0 <=>
              memory[x] # 0 /\ \A o \in Owners : o \in gone => BlockOf(o) # x
      BY <1>3, <1>4
    <2> HIDE DEF gone
    <2> QED BY <2>1, <2>2, <2>3, <2>4, Dropped
  <1>11. SizesTrue'
    <2>1. \A f \in {"scratch", "dedup"} : <<"object", 0, f>> \in Owners \ gone
      BY OwnersAre DEF Ownership, ObjectField
    <2>2. /\ scratch # Null => scratch \in Block /\ scratch \notin Unwound
          /\ dedup # Null => dedup \in Block /\ dedup \notin Unwound
      <3> HIDE DEF gone
      <3> QED BY <1>4, <2>1, BuffersAreAllocated, OwnersAre DEF SoleOwners, Ownership
    <2> QED BY <1>1, <1>3, <2>2, BuffersKeep DEF sizesVars
  <1> QED BY <1>7, <1>8, <1>9, <1>10, <1>11

\* The finished map goes to another owner; its slots are new.
LEMMA MapMoves ==
    ASSUME SoleOwners, building.map.slots = Null,
           NEW kind, kind # "building", NEW i, NEW b \in Block, memory[b] = 0,
           \A o : o \in Owners' <=> o \in Owners \/ \E f \in Field : o = <<kind, i, f>>,
           \A f \in Field :
               BlockOf(<<kind, i, f>>)' = IF f = "slots" THEN b ELSE building.map[f],
           \A f \in Field : <<kind, i, f>> \in Owners => BlockOf(<<kind, i, f>>) = Null,
           \A f \in Field : BlockOf(<<"building", 0, f>>)' = Null,
           \A o \in Owners : \/ \E f \in Field : o = <<"building", 0, f>>
                             \/ \E f \in Field : o = <<kind, i, f>>
                             \/ BlockOf(o)' = BlockOf(o),
           \A x \in Block : memory'[x] # 0 <=> x = b \/ memory[x] # 0
    PROVE  SoleOwners'
  <1> DEFINE moved == {<<kind, i, f>> : f \in Field}
             from == [o \in Owners' |-> IF o \in moved THEN <<"building", 0, o[3]>> ELSE o]
             taker == <<kind, i, "slots">>
  <1>1. \A o \in Owners' : from[o] = IF o \in moved THEN <<"building", 0, o[3]>> ELSE o
    OBVIOUS
  <1>2. \A f \in Field :
          /\ <<kind, i, f>> \in Owners' /\ from[<<kind, i, f>>] = <<"building", 0, f>>
          /\ <<"building", 0, f>> \in Owners
          /\ BlockOf(<<"building", 0, f>>) = building.map[f]
    BY <1>1, OwnersAre DEF Ownership
  <1>3. \A o : o \in moved <=> \E f \in Field : o = <<kind, i, f>> OBVIOUS
  <1>4. \A f, g \in Field : <<kind, i, f>> = <<kind, i, g>> => f = g OBVIOUS
  <1>5. taker \in Owners' /\ BlockOf(taker)' = b /\ b \in Place
    BY <1>2 DEF Field, Place
  <1>6. \A f \in Field : <<kind, i, f>> # taker => f # "slots" OBVIOUS
  <1>7. \A f, g \in Field : <<kind, i, f>> # <<"building", 0, g>> OBVIOUS
  <1>8. taker = <<kind, i, "slots">> OBVIOUS
  <1> HIDE DEF from, moved, taker
  <1>9. ASSUME NEW o \in Owners', o # taker
        PROVE  BlockOf(o)' = Null \/ (from[o] \in Owners /\ BlockOf(o)' = BlockOf(from[o]))
    <2>1. CASE o \in moved
      <3>1. PICK f \in Field : o = <<kind, i, f>> BY <1>3, <2>1
      <3>2. f # "slots" BY <1>8, <1>9, <3>1
      <3> QED BY <1>2, <3>1, <3>2
    <2>2. CASE o \notin moved
      <3>1. o \in Owners /\ from[o] = o BY <1>1, <1>3, <2>2
      <3> QED BY <1>3, <2>2, <3>1
    <2> QED BY <2>1, <2>2
  <1>10. ASSUME NEW o \in Owners', NEW p \in Owners', from[o] = from[p]
         PROVE  o = p \/ BlockOf(o)' = Null \/ BlockOf(p)' = Null
    <2>1. \A f \in Field : <<"building", 0, f>> \notin moved BY <1>3, <1>7
    <2>2. CASE o \in moved /\ p \in moved
      <3>1. PICK f \in Field, g \in Field : o = <<kind, i, f>> /\ p = <<kind, i, g>>
        BY <1>3, <2>2
      <3>2. <<"building", 0, f>> = <<"building", 0, g>> BY <1>2, <1>10, <3>1
      <3> QED BY <3>1, <3>2
    <2>3. CASE o \in moved /\ p \notin moved
      <3>1. PICK f \in Field : o = <<kind, i, f>> BY <1>3, <2>3
      <3>2. from[o] = <<"building", 0, f>> /\ from[p] = p BY <1>1, <1>2, <2>3, <3>1
      <3>3. p = <<"building", 0, f>> BY <1>10, <3>2
      <3> QED BY <3>3
    <2>4. CASE o \notin moved /\ p \in moved
      <3>1. PICK f \in Field : p = <<kind, i, f>> BY <1>3, <2>4
      <3>2. from[p] = <<"building", 0, f>> /\ from[o] = o BY <1>1, <1>2, <2>4, <3>1
      <3>3. o = <<"building", 0, f>> BY <1>10, <3>2
      <3> QED BY <3>3
    <2>5. CASE o \notin moved /\ p \notin moved BY ONLY <1>1, <1>10, <2>5
    <2> QED BY <2>2, <2>3, <2>4, <2>5
  <1>11. ASSUME NEW q \in Owners
         PROVE  BlockOf(q) = Null \/ \E o \in Owners' : o # taker /\ BlockOf(o)' = BlockOf(q)
    <2>1. CASE \E f \in Field : q = <<"building", 0, f>>
      <3>1. PICK f \in Field : q = <<"building", 0, f>> BY <2>1
      <3>2. f = "slots" => BlockOf(q) = Null BY <1>2, <3>1
      <3>3. f # "slots" => /\ <<kind, i, f>> \in Owners' /\ <<kind, i, f>> # taker
                           /\ BlockOf(<<kind, i, f>>)' = BlockOf(q)
        BY <1>2, <1>8, <3>1
      <3> QED BY <3>2, <3>3
    <2>2. CASE \E f \in Field : q = <<kind, i, f>> BY <2>2
    <2>3. CASE ~\E f \in Field : q = <<kind, i, f>>
      BY <1>8, <2>1, <2>3 DEF Field
    <2> QED BY <2>2, <2>3
  <1> QED BY <1>5, <1>9, <1>10, <1>11, HandedOver

\* The StaticMap is finished.
LEMMA PublishedKeeps ==
    ASSUME SizesOK, MemoryInv, BuildSlots, NEW b \in Granted("slots"), b # Null,
           memory' = With(memory, b, 1),
           Published([building.map EXCEPT !.slots = b]), UNCHANGED counter
    PROVE  MemoryInv'
  <1> USE DEF MemoryInv
  <1> DEFINE m == [building.map EXCEPT !.slots = b]
  <1>1. /\ building.for # "none" /\ building.map \in Maps /\ building' = NotBuilding
        /\ UNCHANGED <<emptyValue, counter, scratch, dedup, sizesVars>>
    BY EndsConstruction
  <1>2. b \in Block /\ memory[b] = 0 BY GrantedIsFree DEF Names
  <1>3. memory' \in [Block -> Nat] /\ \A x \in Block : memory'[x] = IF x = b THEN 1 ELSE memory[x]
    BY <1>2, WithBlock DEF Place
  <1>4. m \in Maps /\ \A f \in Field : m[f] = IF f = "slots" THEN b ELSE building.map[f]
    BY <1>1, <1>2 DEF Maps, Place, Field
  <1>5. m.slots = b BY <1>4 DEF Field
  <1>6. building' \in Works /\ Construction'
    BY <1>1, ArgNames, Fields DEF Construction, NotBuilding, Field, Works
  <1>7. \A f \in Field : BlockOf(<<"building", 0, f>>)' = Null
    BY <1>1, Fields, OwnersAre DEF Ownership, NotBuilding
  <1>8. SizesTrue'
    BY <1>1, <1>2, <1>3, BuffersKeep, BuffersAreAllocated DEF sizesVars
  <1>9. \A x \in Block : memory'[x] # 0 <=> x = b \/ memory[x] # 0 BY <1>3
  <1>10. building.map.slots = Null BY DEF Construction
  <1>11. building.for \in {"first", "next", "reserved", "active"} BY <1>1 DEF Types, Works
  <1>12. \A o \in {"emptyValue", "counter", "scratch", "dedup"} :
           BlockOf(<<"object", 0, o>>)' = BlockOf(<<"object", 0, o>>)
    BY <1>1, OwnersAre DEF Ownership
  <1>13. Published(m) OBVIOUS
  <1>14. submaps \in Seq(Maps) /\ nextSubmap \in Maps /\ call \in Callers BY DEF Types
  <1> HIDE DEF m
  <1>15. CASE building.for = "next"
    <2>1. nextSubmap' = m /\ call' = [call EXCEPT !.at = "dedup"] /\ submaps' = submaps
      BY <1>13, <1>15 DEF Published, At
    <2>2. call.at = "prepare" /\ nextSubmap = NoMap BY <1>15 DEF Construction
    <2>3. /\ call' \in Callers /\ call'.at = "dedup" /\ call'.op = call.op /\ call'.n = call.n
          /\ call'.held = call.held /\ call'.refused = call.refused
      BY <1>14, <2>1 DEF Callers
    <2>4. Types' BY <1>1, <1>3, <1>4, <1>6, <2>1, <2>3 DEF Types, sizesVars
    <2>5. Presence' /\ SlotsThere' /\ CallReady'
      BY <1>2, <1>5, <2>1, <2>2, <2>3, NullIsNoBlock DEF Presence, SlotsThere, CallReady
    <2>6. \A f \in Field : BlockOf(<<"next", 0, f>>)' = IF f = "slots" THEN b ELSE building.map[f]
      BY <1>4, <2>1, OwnersAre DEF Ownership
    <2>7. \A f \in Field : <<"next", 0, f>> \in Owners => BlockOf(<<"next", 0, f>>) = Null
      BY <2>2, Fields, OwnersAre DEF Ownership
    <2>8. \A o : o \in Owners' <=> o \in Owners \/ \E f \in Field : o = <<"next", 0, f>>
      BY <2>1, OwnersAre DEF Ownership
    <2>9. ASSUME NEW o \in Owners
          PROVE  \/ \E f \in Field : o = <<"building", 0, f>>
                 \/ \E f \in Field : o = <<"next", 0, f>>
                 \/ BlockOf(o)' = BlockOf(o)
      <3>1. CASE \E s \in DOMAIN submaps : \E f \in Field : o = <<"submap", s, f>>
        BY <2>1, <3>1, OwnersAre DEF Ownership
      <3> QED BY <1>12, <3>1, Kinds
    <2>10. SoleOwners'
      <3>1. "next" # "building" OBVIOUS
      <3>2. SoleOwners OBVIOUS
      <3> QED BY ONLY <1>2, <1>7, <1>9, <1>10, <2>6, <2>7, <2>8, <2>9, <3>1, <3>2, MapMoves, SMT
    <2> QED BY <1>6, <1>8, <2>4, <2>5, <2>10
  <1>16. CASE building.for # "next"
    <2>0. PICK n : n = Len(submaps) + 1 OBVIOUS
    <2>1. /\ submaps' = Append(submaps, m) /\ nextSubmap' = nextSubmap
          /\ call' \in Callers /\ call'.at \in {"emptyValue", "done", "prepare"}
          /\ call'.held = call.held /\ call'.refused = call.refused
          /\ call'.at = "prepare" => call'.op = call.op /\ call'.n = call.n
          /\ call'.at = "prepare" => building.for = "active"
          /\ call'.at = "emptyValue" => building.for = "first"
      <3>1. CASE building.for = "first"
        <4>1. submaps' = <<m>> /\ call' = [call EXCEPT !.at = "emptyValue"] /\ nextSubmap' = nextSubmap
          BY <1>13, <3>1 DEF Published, At
        <4>2. submaps = <<>> BY <3>1 DEF Construction, Presence, NoObject, NoCall
        <4> QED BY <1>14, <3>1, <4>1, <4>2 DEF Callers
      <3>2. CASE building.for = "reserved"
        <4>1. submaps' = Append(submaps, m) /\ call' = [NoCall EXCEPT !.at = "done"]
              /\ nextSubmap' = nextSubmap
          BY <1>13, <3>2 DEF Published, Done
        <4>2. call.held = {} /\ call.refused = FALSE
          BY <1>14, <3>2 DEF Construction, CallReady, Callers
        <4> QED BY <3>2, <4>1, <4>2 DEF NoCall, Callers
      <3>3. CASE building.for = "active"
        <4>1. submaps' = Append(submaps, m) /\ call' = [call EXCEPT !.at = "prepare"]
              /\ nextSubmap' = nextSubmap
          BY <1>13, <3>3 DEF Published, At
        <4> QED BY <1>14, <3>3, <4>1 DEF Callers
      <3> QED BY <1>11, <1>16, <3>1, <3>2, <3>3
    <2>2. call.held = {} /\ ~call.refused /\ call.at # "run"
          /\ (building.for = "active" => call.at = "room")
          /\ (building.for # "first" => call.at # "absent")
          /\ (building.for = "first" => emptyValue = Null)
      BY <1>11, <1>16 DEF Construction, CallReady, NoObject, NoCall, Presence
    <2>3. n \in Nat /\ n = Len(submaps) + 1 /\ n > Len(submaps) /\ Len(submaps) \in Nat
          /\ DOMAIN submaps = 1 .. Len(submaps)
      BY <1>14, <2>0
    <2>4. /\ submaps' \in Seq(Maps) /\ DOMAIN submaps' = 1 .. n /\ submaps'[n] = m
          /\ \A s \in DOMAIN submaps : submaps'[s] = submaps[s]
      BY <1>4, <1>14, <2>1, <2>3
    <2>5. submaps' # <<>> BY <2>3, <2>4
    <2>6. \A s : s \in DOMAIN submaps' <=> s \in DOMAIN submaps \/ s = n BY <2>3, <2>4
    <2>7. Types' BY <1>1, <1>3, <1>6, <1>14, <2>1, <2>4 DEF Types, sizesVars
    <2>8. Presence' BY <1>1, <2>1, <2>2, <2>5 DEF Presence
    <2>9. SlotsThere'
      BY <1>2, <1>5, <2>1, <2>4, <2>6, NullIsNoBlock DEF SlotsThere
    <2>10. CallReady' BY <2>1, <2>2 DEF CallReady
    <2>11. \A f \in Field :
             BlockOf(<<"submap", n, f>>)' = IF f = "slots" THEN b ELSE building.map[f]
      BY <1>4, <2>4, OwnersAre DEF Ownership
    <2>12. \A f \in Field : <<"submap", n, f>> \notin Owners
      BY <2>3, OwnersAre DEF Ownership
    <2>13. \A o : o \in Owners' <=> o \in Owners \/ \E f \in Field : o = <<"submap", n, f>>
      BY <2>6, OwnersAre DEF Ownership
    <2>14. ASSUME NEW o \in Owners
          PROVE  \/ \E f \in Field : o = <<"building", 0, f>>
                 \/ \E f \in Field : o = <<"submap", n, f>>
                 \/ BlockOf(o)' = BlockOf(o)
      <3>1. CASE \E s \in DOMAIN submaps : \E f \in Field : o = <<"submap", s, f>>
        BY <2>4, <3>1, OwnersAre DEF Ownership
      <3>2. CASE \E f \in Field : o = <<"next", 0, f>>
        BY <2>1, <3>2, OwnersAre DEF Ownership
      <3> QED BY <1>12, <3>1, <3>2, Kinds
    <2>15. SoleOwners'
      BY <1>2, <1>7, <1>9, <1>10, <2>11, <2>12, <2>13, <2>14, MapMoves, ZenonT(60)
    <2> QED BY <1>6, <1>8, <2>7, <2>8, <2>9, <2>10, <2>15
  <1> QED BY <1>15, <1>16

LEMMA BuildSlotsKeeps ==
    ASSUME SizesOK, MemoryInv, BuildSlots
    PROVE  MemoryInv'
  <1>1. PICK b \in Granted("slots") :
          IF b = Null
          THEN /\ memory' = Without(memory, Unwound)
               /\ IF building.for = "first" THEN counter' = Null /\ call' = NoObject
                  ELSE UNCHANGED counter /\ call' = NoCall
               /\ UNCHANGED <<submaps, nextSubmap>>
          ELSE /\ memory' = With(memory, b, 1)
               /\ Published([building.map EXCEPT !.slots = b])
               /\ UNCHANGED counter
    BY EndsConstruction
  <1>2. CASE b = Null BY <1>1, <1>2, UnwoundKeeps
  <1>3. CASE b # Null BY <1>1, <1>3, PublishedKeeps
  <1> QED BY <1>2, <1>3

--------------------------------------------------------------------------------
(* The steps of the object and of its calls. *)

\* A step that lets the memory and its owners alone.
LEMMA QuietKeeps ==
    ASSUME MemoryInv, UNCHANGED <<memory, blocksVars, sizesVars>>,
           building' \in Works, building'.map = building.map, call' \in Callers,
           Construction', Presence', CallReady'
    PROVE  MemoryInv'
  <1> USE DEF MemoryInv
  <1>1. UNCHANGED <<submaps, nextSubmap, emptyValue, counter, scratch, dedup>>
    BY DEF blocksVars
  <1>2. Types' /\ SlotsThere' /\ SizesTrue'
    BY <1>1 DEF Types, SlotsThere, SizesTrue, sizesVars
  <1>3. \A o : o \in Owners' <=> o \in Owners BY <1>1 DEF Owners
  <1>4. ASSUME NEW o \in Owners PROVE BlockOf(o)' = BlockOf(o)
    BY <1>1, Kinds, OwnersAre DEF Ownership
  <1>5. SoleOwners' BY <1>3, <1>4 DEF SoleOwners
  <1> QED BY <1>2, <1>5

\* A member of the DynamicMap gets another block.
LEMMA ObjectTakes ==
    ASSUME Types, SoleOwners, NEW f \in ObjectField, NEW b \in Place, b # Null => memory[b] = 0,
           UNCHANGED <<submaps, nextSubmap>>, building'.map = building.map,
           \A g \in ObjectField : BlockOf(<<"object", 0, g>>)' =
               IF g = f THEN b ELSE BlockOf(<<"object", 0, g>>),
           \A x \in Block : memory'[x] # 0 <=>
               x = b \/ (memory[x] # 0 /\ x # BlockOf(<<"object", 0, f>>))
    PROVE  SoleOwners'
  <1>1. PICK taker \in Owners : taker = <<"object", 0, f>>
    BY OwnersAre DEF Ownership
  <1>2. \A o : o \in Owners' <=> o \in Owners BY DEF Owners
  <1>3. ASSUME NEW o \in Owners PROVE BlockOf(o)' = IF o = taker THEN b ELSE BlockOf(o)
    <2>1. CASE \E g \in ObjectField : o = <<"object", 0, g>>
      <3>1. PICK g \in ObjectField : o = <<"object", 0, g>> BY <2>1
      <3>2. o = taker <=> g = f BY <1>1, <3>1
      <3> QED BY <1>1, <3>1, <3>2
    <2>2. CASE ~\E g \in ObjectField : o = <<"object", 0, g>>
      <3>1. o # taker BY <1>1, <2>2
      <3> QED BY <2>2, <3>1, OwnersAre DEF Ownership
    <2> QED BY <2>1, <2>2
  <1>4. \A x \in Block : memory'[x] # 0 <=> x = b \/ (memory[x] # 0 /\ x # BlockOf(taker))
    BY <1>1
  <1> QED BY <1>2, <1>3, <1>4, Taken

\* A prebuilt submap is destroyed.
LEMMA PrebuiltDropped ==
    ASSUME MemoryInv, memory' = Without(memory, BlocksOf(nextSubmap)), nextSubmap' = NoMap,
           building'.map = building.map,
           UNCHANGED <<submaps, emptyValue, counter, scratch, dedup, sizesVars>>
    PROVE  memory' \in [Block -> Nat] /\ SoleOwners' /\ SizesTrue'
  <1> USE DEF MemoryInv
  <1>1. /\ memory' \in [Block -> Nat]
        /\ \A x \in Block : memory'[x] = IF x \in BlocksOf(nextSubmap) THEN 0 ELSE memory[x]
    BY WithoutBlocks DEF Types
  <1> DEFINE gone == {o \in Owners : \E f \in Field : o = <<"next", 0, f>>}
  <1>2. \A x \in Block : x \in BlocksOf(nextSubmap) <=> \E o \in Owners : o \in gone /\ BlockOf(o) = x
    <2>1. \A x \in Block : x \in BlocksOf(nextSubmap) <=> \E f \in Field : nextSubmap[f] = x
      BY BlocksOfMap DEF Types
    <2>2. \A f \in Field : /\ <<"next", 0, f>> \in gone
                           /\ BlockOf(<<"next", 0, f>>) = nextSubmap[f]
      BY OwnersAre DEF Ownership
    <2>3. \A o \in gone : o \in Owners /\ \E f \in Field : o = <<"next", 0, f>> OBVIOUS
    <2> HIDE DEF gone
    <2> QED BY ONLY <2>1, <2>2, <2>3, ZenonT(60)
  <1>3. \A o : o \in Owners' <=> o \in Owners BY DEF Owners
  <1>4. ASSUME NEW o \in Owners' PROVE BlockOf(o)' = IF o \in gone THEN Null ELSE BlockOf(o)
    <2>1. CASE \E f \in Field : o = <<"next", 0, f>>
      BY <1>3, <2>1, Fields, OwnersAre DEF Ownership
    <2>2. CASE ~\E f \in Field : o = <<"next", 0, f>>
      <3>1. o \in Owners /\ o \notin gone BY <1>3, <2>2
      <3> HIDE DEF gone
      <3> QED BY <2>2, <3>1, Kinds, OwnersAre DEF Ownership
    <2> QED BY <2>1, <2>2
  <1>5. \A x \in Block : memory'[x] # 0 <=>
            memory[x] # 0 /\ \A o \in Owners : o \in gone => BlockOf(o) # x
    BY <1>1, <1>2
  <1>6. SoleOwners'
    <2> HIDE DEF gone
    <2> QED BY <1>3, <1>4, <1>5, Dropped
  <1>7. SizesTrue'
    <2>1. \A f \in {"scratch", "dedup"} : <<"object", 0, f>> \in Owners \ gone
      BY OwnersAre DEF Ownership, ObjectField
    <2>2. /\ scratch # Null => scratch \in Block /\ scratch \notin BlocksOf(nextSubmap)
          /\ dedup # Null => dedup \in Block /\ dedup \notin BlocksOf(nextSubmap)
      <3> HIDE DEF gone
      <3> QED BY <1>2, <2>1, BuffersAreAllocated, OwnersAre DEF SoleOwners, Ownership
    <2> QED BY <1>1, <2>2, BuffersKeep DEF sizesVars
  <1> QED BY <1>1, <1>6, <1>7

LEMMA CallsAre ==
    /\ NoCall \in Callers /\ NoObject \in Callers
    /\ NoCall.at = "idle" /\ NoCall.held = {} /\ ~NoCall.refused
    /\ NoObject.at = "absent" /\ NoObject.held = {} /\ ~NoObject.refused
    /\ NoCall # NoObject
  BY DEF NoCall, NoObject, Callers

\* Between two calls, nothing is under construction.
LEMMA Idle ==
    ASSUME MemoryInv, call.at \notin {"prepare", "room", "reserve", "absent"}
    PROVE  building = NotBuilding /\ submaps # <<>>
  BY CallsAre DEF MemoryInv, Types, Works, Construction, Presence

LEMMA BeginKeeps ==
    ASSUME SizesOK, MemoryInv, Begin
    PROVE  MemoryInv'
  <1> USE DEF MemoryInv
  <1>1. PICK op \in Insertions \cup Lookups, n \in BatchSizes :
          call' = [NoCall EXCEPT !.op = op, !.n = n,
                                 !.at = IF op \in Insertions THEN "room" ELSE "scratch"]
    BY DEF Begin
  <1>2. /\ call = NoCall /\ UNCHANGED <<memory, blocksVars, sizesVars>> /\ building' = building
    BY DEF Begin
  <1>3. call' = [op |-> op, at |-> IF op \in Insertions THEN "room" ELSE "scratch", n |-> n,
                 held |-> {}, refused |-> FALSE]
    BY <1>1 DEF NoCall
  <1>4. n \in Nat /\ n > 0 BY DEF SizesOK
  <1>5. call' \in Callers BY <1>3, <1>4 DEF Callers
  <1>6. building = NotBuilding /\ submaps # <<>> BY <1>2, CallsAre, Idle
  <1>7. CallReady' BY <1>3, <1>4 DEF CallReady
  <1>8. Presence' BY <1>2, <1>3, <1>6 DEF Presence, blocksVars
  <1>9. Construction' BY <1>2, <1>6 DEF Construction, NotBuilding
  <1> QED BY <1>2, <1>5, <1>7, <1>8, <1>9, QuietKeeps DEF Types

LEMMA ReturnKeeps ==
    ASSUME SizesOK, MemoryInv, Return
    PROVE  MemoryInv'
  <1> USE DEF MemoryInv
  <1>1. /\ call.at = "done" /\ call' = NoCall /\ UNCHANGED <<memory, blocksVars, sizesVars>>
        /\ building' = building
    BY DEF Return
  <1>2. building = NotBuilding /\ submaps # <<>> BY <1>1, Idle
  <1>3. CallReady' BY <1>1, CallsAre DEF CallReady
  <1>4. Presence' BY <1>1, <1>2, CallsAre DEF Presence, blocksVars
  <1>5. Construction' BY <1>1, <1>2 DEF Construction, NotBuilding
  <1> QED BY <1>1, <1>3, <1>4, <1>5, CallsAre, QuietKeeps DEF Types

\* A call is over, or its next chunk begins.
LEMMA DoneKeeps ==
    ASSUME MemoryInv, Done, call.at \notin {"prepare", "room", "reserve", "absent"},
           UNCHANGED <<memory, building, blocksVars, sizesVars>>
    PROVE  MemoryInv'
  <1> USE DEF MemoryInv
  <1>1. call' = [op |-> "none", at |-> "done", n |-> 0, held |-> {}, refused |-> FALSE]
    BY DEF Done, NoCall
  <1>2. building = NotBuilding /\ submaps # <<>> BY Idle
  <1>3. call' \in Callers BY <1>1 DEF Callers
  <1>4. CallReady' BY <1>1 DEF CallReady
  <1>5. Presence' BY <1>1, <1>2 DEF Presence, blocksVars
  <1>6. Construction' BY <1>1, <1>2 DEF Construction, NotBuilding
  <1> QED BY <1>3, <1>4, <1>5, <1>6, QuietKeeps DEF Types

LEMMA RunKeeps ==
    ASSUME SizesOK, MemoryInv, Run
    PROVE  MemoryInv'
  <1> USE DEF MemoryInv
  <1>1. /\ call.at = "run" /\ UNCHANGED <<memory, blocksVars, sizesVars>> /\ building' = building
    BY DEF Run
  <1>2. CASE Done BY <1>1, <1>2, DoneKeeps
  <1>3. CASE ~Done
    <2>1. PICK n \in BatchSizes :
            /\ call.op \in {"Insert", "InsertOrAssign"}
            /\ call' = [NoCall EXCEPT !.op = call.op, !.n = n, !.at = "room"]
      BY <1>3 DEF Run
    <2>2. n \in Nat /\ n > 0 BY DEF SizesOK
    <2>3. call' = [op |-> call.op, at |-> "room", n |-> n, held |-> {}, refused |-> FALSE]
      BY <2>1 DEF NoCall
    <2>4. call' \in Callers
      <3>1. call.op \in Insertions BY <2>1 DEF Insertions
      <3> QED BY ONLY <2>2, <2>3, <3>1 DEF Callers
    <2>5. building = NotBuilding /\ submaps # <<>> BY <1>1, Idle
    <2>6. CallReady'
      <3>1. call.op \in Insertions BY <2>1 DEF Insertions
      <3> QED BY ONLY <2>2, <2>3, <3>1 DEF CallReady
    <2>7. Presence' BY <1>1, <2>3, <2>5 DEF Presence, blocksVars
    <2>8. Construction' BY <1>1, <2>5 DEF Construction, NotBuilding
    <2> QED BY <1>1, <2>4, <2>6, <2>7, <2>8, QuietKeeps DEF Types
  <1> QED BY <1>2, <1>3

LEMMA ErasesKeep ==
    ASSUME SizesOK, MemoryInv, Erase \/ EraseAsync
    PROVE  MemoryInv'
  BY CallsAre, DoneKeeps DEF Erase, EraseAsync, MemoryInv

LEMMA StartPrepareNextKeeps ==
    ASSUME SizesOK, MemoryInv, StartPrepareNext
    PROVE  MemoryInv'
  <1> USE DEF MemoryInv
  <1>1. /\ call.at = "prepare" /\ building = NotBuilding
        /\ UNCHANGED <<memory, blocksVars, sizesVars>>
    BY DEF StartPrepareNext, Construction
  <1>2. CASE At("dedup") /\ UNCHANGED building
    <2>1. call' = [call EXCEPT !.at = "dedup"] BY <1>2 DEF At
    <2>2. /\ call' \in Callers /\ call'.at = "dedup" /\ call'.op = call.op /\ call'.n = call.n
          /\ call'.held = call.held /\ call'.refused = call.refused
      BY <2>1 DEF Types, Callers
    <2>3. CallReady' BY <1>1, <2>2 DEF CallReady
    <2>4. Presence' BY <1>1, <2>2 DEF Presence, blocksVars
    <2>5. Construction' BY <1>1, <1>2 DEF Construction, NotBuilding
    <2> QED BY <1>1, <1>2, <2>2, <2>3, <2>4, <2>5, QuietKeeps DEF Types
  <1>3. CASE nextSubmap = NoMap /\ Build("next") /\ UNCHANGED call
    <2>1. building' = [for |-> "next", tried |-> 0, map |-> NoMap]
      BY <1>3 DEF Build, NotBuilding
    <2>2. building' \in Works BY <2>1, Fields DEF Works
    <2>3. CallReady' BY <1>1, <1>3
          DEF CallReady, Has, ScratchBytes, blocksVars, sizesVars
    <2>4. Presence' BY <1>1, <1>3 DEF Presence, blocksVars
    <2>5. building'.for = "next" /\ building'.tried = 0 /\ building'.map = NoMap BY <2>1
    <2>6. Construction'
      BY <1>1, <1>3, <2>5, ArgNames, Fields DEF Construction, blocksVars, Field
    <2>7. building'.map = building.map BY <1>1, <2>5 DEF NotBuilding
    <2> QED BY <1>1, <1>3, <2>2, <2>3, <2>4, <2>6, <2>7, QuietKeeps DEF Types
  <1> QED BY <1>2, <1>3 DEF StartPrepareNext

LEMMA ReserveKeeps ==
    ASSUME SizesOK, MemoryInv, Reserve
    PROVE  MemoryInv'
  <1> USE DEF MemoryInv
  <1>1. /\ call = NoCall /\ UNCHANGED <<memory, blocksVars, sizesVars>>
        /\ call' = [op |-> "Reserve", at |-> "reserve", n |-> 0, held |-> {}, refused |-> FALSE]
        /\ building' = [for |-> "reserved", tried |-> 0, map |-> NoMap]
    BY DEF Reserve, NoCall, Build, NotBuilding
  <1>2. building = NotBuilding /\ submaps # <<>> BY <1>1, CallsAre, Idle
  <1>3. call' \in Callers /\ CallReady' BY <1>1 DEF Callers, CallReady
  <1>4. Presence' BY <1>1, <1>2 DEF Presence, blocksVars
  <1>5. building'.for = "reserved" /\ building'.tried = 0 /\ building'.map = NoMap BY <1>1
  <1>6. Construction'
    <2>1. call'.at = "reserve" BY <1>1
    <2> QED BY <1>5, <2>1, ArgNames, Fields DEF Construction, Field
  <1>7. building' \in Works BY <1>1, Fields DEF Works
  <1>8. building'.map = building.map BY <1>2, <1>5 DEF NotBuilding
  <1> QED BY <1>1, <1>3, <1>4, <1>6, <1>7, <1>8, QuietKeeps

LEMMA ConstructKeeps ==
    ASSUME SizesOK, MemoryInv, Construct
    PROVE  MemoryInv'
  <1> USE DEF MemoryInv
  <1>1. PICK b \in Granted("counter") : memory' = With(memory, b, 1) /\ counter' = b
    BY DEF Construct
  <1>2. /\ call = NoObject /\ building.for = "none" /\ call' = call
        /\ UNCHANGED <<submaps, nextSubmap, emptyValue, scratch, dedup, sizesVars>>
        /\ building' = [for |-> "first", tried |-> 0, map |-> NoMap]
    BY DEF Construct, Build, NotBuilding
  <1>3. b \in Place /\ (b # Null => b \in Block /\ memory[b] = 0) BY <1>1, GrantedIsFree DEF Names
  <1>4. memory' \in [Block -> Nat] /\ \A x \in Block : memory'[x] = IF x = b THEN 1 ELSE memory[x]
    BY <1>1, <1>3, WithBlock
  <1>5. building' \in Works BY <1>2, Fields DEF Works
  <1>6. building = NotBuilding BY <1>2 DEF Construction
  <1>7. building'.for = "first" /\ building'.tried = 0 /\ building'.map = NoMap BY <1>2
  <1>8. building'.map = building.map BY <1>6, <1>7 DEF NotBuilding
  <1>9. Types' BY <1>1, <1>2, <1>3, <1>4, <1>5 DEF Types, sizesVars
  <1>10. Construction' BY <1>2, <1>7, ArgNames, Fields DEF Construction, Field
  <1>11. Presence' BY <1>2, <1>7, CallsAre DEF Presence
  <1>12. SlotsThere' /\ CallReady' BY <1>2, CallsAre DEF SlotsThere, CallReady
  <1>13. SizesTrue' BY <1>2, <1>3, <1>4, BuffersKeep, BuffersAreAllocated DEF sizesVars
  <1>14. SoleOwners'
    <2>1. counter = Null BY <1>2, CallsAre DEF Presence
    <2>2. "counter" \in ObjectField BY DEF ObjectField
    <2>3. \A g \in ObjectField : BlockOf(<<"object", 0, g>>)' =
              IF g = "counter" THEN b ELSE BlockOf(<<"object", 0, g>>)
      BY <1>1, <1>2, OwnersAre DEF Ownership, ObjectField
    <2>4. \A x \in Block : memory'[x] # 0 <=>
              x = b \/ (memory[x] # 0 /\ x # BlockOf(<<"object", 0, "counter">>))
      BY <1>4, <2>1, OwnersAre, NullIsNoBlock DEF Ownership
    <2> QED BY <1>2, <1>3, <1>8, <2>2, <2>3, <2>4, ObjectTakes
  <1> QED BY <1>9, <1>10, <1>11, <1>12, <1>13, <1>14

LEMMA ConstructRestKeeps ==
    ASSUME SizesOK, MemoryInv, ConstructRest
    PROVE  MemoryInv'
  <1> USE DEF MemoryInv
  <1>1. PICK b \in Granted("emptyValue") : memory' = With(memory, b, 1) /\ emptyValue' = b
    BY DEF ConstructRest
  <1>2. /\ call.at = "emptyValue" /\ call' = NoCall
        /\ UNCHANGED <<submaps, nextSubmap, counter, scratch, dedup, sizesVars, building>>
    BY DEF ConstructRest
  <1>3. b \in Place /\ (b # Null => b \in Block /\ memory[b] = 0) BY <1>1, GrantedIsFree DEF Names
  <1>4. memory' \in [Block -> Nat] /\ \A x \in Block : memory'[x] = IF x = b THEN 1 ELSE memory[x]
    BY <1>1, <1>3, WithBlock
  <1>5. building = NotBuilding /\ submaps # <<>> /\ emptyValue = Null
    BY <1>2, Idle DEF Presence
  <1>6. Types' BY <1>1, <1>2, <1>3, <1>4, CallsAre DEF Types, sizesVars
  <1>7. Construction' BY <1>2, <1>5 DEF Construction, NotBuilding
  <1>8. Presence' BY <1>2, <1>5, CallsAre DEF Presence
  <1>9. SlotsThere' /\ CallReady' BY <1>2, CallsAre DEF SlotsThere, CallReady
  <1>10. SizesTrue' BY <1>2, <1>3, <1>4, BuffersKeep, BuffersAreAllocated DEF sizesVars
  <1>11. SoleOwners'
    <2>1. "emptyValue" \in ObjectField BY DEF ObjectField
    <2>2. \A g \in ObjectField : BlockOf(<<"object", 0, g>>)' =
              IF g = "emptyValue" THEN b ELSE BlockOf(<<"object", 0, g>>)
      BY <1>1, <1>2, OwnersAre DEF Ownership, ObjectField
    <2>3. \A x \in Block : memory'[x] # 0 <=>
              x = b \/ (memory[x] # 0 /\ x # BlockOf(<<"object", 0, "emptyValue">>))
      BY <1>4, <1>5, OwnersAre, NullIsNoBlock DEF Ownership
    <2> QED BY <1>2, <1>3, <2>1, <2>2, <2>3, ObjectTakes
  <1> QED BY <1>6, <1>7, <1>8, <1>9, <1>10, <1>11

LEMMA OwnedAreTheOwners ==
    ASSUME Types, NEW b \in Block
    PROVE  b \in Owned <=> \E o \in Owners : BlockOf(o) = b
  <1>1. \A s \in DOMAIN submaps : submaps[s] \in Maps BY DEF Types
  <1>2. nextSubmap \in Maps /\ building.map \in Maps BY DEF Types, Works
  <1>3. b \in UNION {BlocksOf(submaps[s]) : s \in DOMAIN submaps}
          <=> \E s \in DOMAIN submaps : \E f \in Field : submaps[s][f] = b
    BY <1>1, BlocksOfMap
  <1>4. /\ b \in BlocksOf(nextSubmap) <=> \E f \in Field : nextSubmap[f] = b
        /\ b \in BlocksOf(building.map) <=> \E f \in Field : building.map[f] = b
    BY <1>2, BlocksOfMap
  <1>5. b \in Owned <=> \/ \E s \in DOMAIN submaps : \E f \in Field : submaps[s][f] = b
                        \/ \E f \in Field : nextSubmap[f] = b
                        \/ \E f \in Field : building.map[f] = b
                        \/ b \in {emptyValue, counter, scratch, dedup}
    <2>1. b \in Owned <=> \/ b \in UNION {BlocksOf(submaps[s]) : s \in DOMAIN submaps}
                          \/ b \in BlocksOf(nextSubmap) \/ b \in BlocksOf(building.map)
                          \/ b \in {emptyValue, counter, scratch, dedup} \ {Null}
      BY DEF Owned
    <2>2. b # Null BY NullIsNoBlock
    <2> QED BY ONLY <1>3, <1>4, <2>1, <2>2, Zenon
  <1>6. ASSUME b \in Owned PROVE \E o \in Owners : BlockOf(o) = b
    <2>1. CASE \E s \in DOMAIN submaps : \E f \in Field : submaps[s][f] = b
      <3>1. PICK s \in DOMAIN submaps : \E f \in Field : submaps[s][f] = b BY <2>1
      <3>2. PICK f \in Field : submaps[s][f] = b BY <3>1
      <3>3. <<"submap", s, f>> \in Owners BY OwnersAre DEF Ownership
      <3>4. BlockOf(<<"submap", s, f>>) = b BY <3>2, OwnersAre DEF Ownership
      <3> QED BY <3>3, <3>4
    <2>2. CASE \E f \in Field : nextSubmap[f] = b \/ building.map[f] = b
      BY <2>2, OwnersAre DEF Ownership
    <2>3. CASE b \in {emptyValue, counter, scratch, dedup}
      <3>1. \A f \in {"emptyValue", "counter", "scratch", "dedup"} :
              <<"object", 0, f>> \in Owners
        BY OwnersAre DEF Ownership, ObjectField
      <3> QED BY <2>3, <3>1, OwnersAre DEF Ownership
    <2> QED BY <1>5, <1>6, <2>1, <2>2, <2>3
  <1>7. ASSUME NEW o \in Owners, BlockOf(o) = b PROVE b \in Owned
    BY <1>5, <1>7, Kinds, OwnersAre DEF Ownership
  <1> QED BY <1>6, <1>7

LEMMA DestroyKeeps ==
    ASSUME SizesOK, MemoryInv, Destroy
    PROVE  MemoryInv'
  <1> USE DEF MemoryInv
  <1>1. /\ call = NoCall /\ memory' = Without(memory, Owned)
        /\ submaps' = <<>> /\ nextSubmap' = NoMap
        /\ emptyValue' = Null /\ counter' = Null /\ scratch' = Null /\ dedup' = Null
        /\ scratchBytes' = 0 /\ dedupBytes' = 0 /\ keysBytes' = 0 /\ maskBytes' = 0
        /\ call' = NoObject /\ building' = building
    BY DEF Destroy
  <1>2. building = NotBuilding BY <1>1, CallsAre, Idle
  <1>3. /\ memory' \in [Block -> Nat]
        /\ \A x \in Block : memory'[x] = IF x \in Owned THEN 0 ELSE memory[x]
    BY <1>1, WithoutBlocks DEF Types
  <1>4. Types' BY <1>1, <1>3, CallsAre, Fields DEF Types, Place
  <1>5. Construction' BY <1>1, <1>2 DEF Construction, NotBuilding
  <1>6. Presence' BY <1>1, CallsAre DEF Presence
  <1>7. SlotsThere' /\ CallReady' /\ SizesTrue'
    BY <1>1, CallsAre DEF SlotsThere, CallReady, SizesTrue
  <1>8. \A x \in Block : memory'[x] = 0 BY <1>3, OwnedAreTheOwners DEF SoleOwners
  <1>9. \A o \in Owners' : BlockOf(o)' = Null
    <2> SUFFICES ASSUME NEW o \in Owners' PROVE BlockOf(o)' = Null OBVIOUS
    <2>1. building'.map = NoMap BY <1>1, <1>2 DEF NotBuilding
    <2>2. ~\E s \in DOMAIN submaps' : \E f \in Field : o = <<"submap", s, f>> BY <1>1
    <2>3. \/ \E f \in Field : o = <<"next", 0, f>>
          \/ \E f \in Field : o = <<"building", 0, f>>
          \/ \E f \in ObjectField : o = <<"object", 0, f>>
      BY <2>2, OwnersAre DEF Ownership
    <2> QED BY <1>1, <2>1, <2>3, Fields, OwnersAre DEF Ownership, ObjectField
  <1>10. SoleOwners' BY <1>8, <1>9, NullIsNoBlock DEF SoleOwners
  <1> QED BY <1>4, <1>5, <1>6, <1>7, <1>10

LEMMA ClearKeeps ==
    ASSUME SizesOK, MemoryInv, Clear
    PROVE  MemoryInv'
  <1> USE DEF MemoryInv
  <1>1. /\ call = NoCall /\ building' = building /\ nextSubmap' = NoMap
        /\ UNCHANGED <<submaps, emptyValue, counter, scratch, dedup, sizesVars>>
        /\ call' = [op |-> "none", at |-> "done", n |-> 0, held |-> {}, refused |-> FALSE]
    BY DEF Clear, Done, NoCall
  <1>2. building = NotBuilding /\ submaps # <<>> BY <1>1, CallsAre, Idle
  <1>3. memory' \in [Block -> Nat] /\ SoleOwners' /\ SizesTrue'
    BY <1>1, PrebuiltDropped DEF Clear
  <1>4. call' \in Callers /\ CallReady' BY <1>1 DEF Callers, CallReady
  <1>5. Types' BY <1>1, <1>3, <1>4, Fields DEF Types, sizesVars
  <1>6. Construction' BY <1>1, <1>2 DEF Construction, NotBuilding
  <1>7. Presence' BY <1>1, <1>2 DEF Presence
  <1>8. SlotsThere' BY <1>1 DEF SlotsThere
  <1> QED BY <1>3, <1>4, <1>5, <1>6, <1>7, <1>8

\* The prebuilt submap becomes the active one.
LEMMA SwappedInKeeps ==
    ASSUME MemoryInv, call.at = "room", building.for = "none", nextSubmap # NoMap,
           submaps' = Append(submaps, nextSubmap), nextSubmap' = NoMap, At("prepare"),
           UNCHANGED <<memory, building, emptyValue, counter, scratch, dedup, sizesVars>>
    PROVE  MemoryInv'
  <1> USE DEF MemoryInv
  <1>1. submaps \in Seq(Maps) /\ nextSubmap \in Maps BY DEF Types
  <1>2. PICK n : n = Len(submaps) + 1 OBVIOUS
  <1>3. /\ n > Len(submaps) /\ DOMAIN submaps = 1 .. Len(submaps)
        /\ submaps' \in Seq(Maps) /\ DOMAIN submaps' = 1 .. n /\ submaps'[n] = nextSubmap
        /\ \A s \in DOMAIN submaps : submaps'[s] = submaps[s]
        /\ \A s : s \in DOMAIN submaps' <=> s \in DOMAIN submaps \/ s = n
        /\ submaps' # <<>>
    BY <1>1, <1>2
  <1>4. call' = [call EXCEPT !.at = "prepare"] BY DEF At
  <1>5. /\ call' \in Callers /\ call'.at = "prepare" /\ call'.op = call.op /\ call'.n = call.n
        /\ call'.held = call.held /\ call'.refused = call.refused
    BY <1>4 DEF Types, Callers
  <1>6. Types' BY <1>1, <1>3, <1>5, Fields DEF Types, sizesVars
  <1>7. building = NotBuilding BY DEF Construction
  <1>8. Construction' BY <1>7 DEF Construction, NotBuilding
  <1>9. Presence' BY <1>3, <1>5 DEF Presence
  <1>10. SlotsThere' BY <1>3 DEF SlotsThere
  <1>11. CallReady' BY <1>5 DEF CallReady
  <1>12. SizesTrue' BY DEF SizesTrue, sizesVars
  <1>13. SoleOwners'
    <2> DEFINE moved == {<<"submap", n, f>> : f \in Field}
               from == [o \in Owners' |-> IF o \in moved THEN <<"next", 0, o[3]>> ELSE o]
    <2>1. PICK taker \in Owners' : taker = <<"next", 0, "slots">>
      BY OwnersAre DEF Ownership, Field
    <2>2. \A o \in Owners' : from[o] = IF o \in moved THEN <<"next", 0, o[3]>> ELSE o
      OBVIOUS
    <2>3. \A o : o \in moved <=> \E f \in Field : o = <<"submap", n, f>> OBVIOUS
    <2>4. \A f \in Field :
            /\ <<"submap", n, f>> \in Owners' /\ <<"submap", n, f>> \notin Owners
            /\ BlockOf(<<"submap", n, f>>)' = nextSubmap[f]
            /\ <<"next", 0, f>> \in Owners /\ BlockOf(<<"next", 0, f>>) = nextSubmap[f]
            /\ BlockOf(<<"next", 0, f>>)' = Null
      <3> SUFFICES ASSUME NEW f \in Field
                   PROVE  /\ <<"submap", n, f>> \in Owners' /\ <<"submap", n, f>> \notin Owners
                          /\ BlockOf(<<"submap", n, f>>)' = nextSubmap[f]
                          /\ <<"next", 0, f>> \in Owners
                          /\ BlockOf(<<"next", 0, f>>) = nextSubmap[f]
                          /\ BlockOf(<<"next", 0, f>>)' = Null
        OBVIOUS
      <3>1. <<"submap", n, f>> \in Owners' BY <1>3, OwnersAre DEF Ownership
      <3>2. <<"submap", n, f>> \notin Owners BY <1>3, OwnersAre DEF Ownership
      <3>3. BlockOf(<<"submap", n, f>>)' = nextSubmap[f] BY <1>3, OwnersAre DEF Ownership
      <3>4. <<"next", 0, f>> \in Owners /\ BlockOf(<<"next", 0, f>>) = nextSubmap[f]
            /\ BlockOf(<<"next", 0, f>>)' = Null
        BY Fields, OwnersAre DEF Ownership
      <3> QED BY <3>1, <3>2, <3>3, <3>4
    <2>5. \A f \in Field : from[<<"submap", n, f>>] = <<"next", 0, f>> BY <2>2, <2>4
    <2>6. \A o : o \in Owners' <=> o \in Owners \/ o \in moved
      BY <1>3, <2>3, OwnersAre DEF Ownership
    <2>7. ASSUME NEW o \in Owners, ~\E f \in Field : o = <<"next", 0, f>>
          PROVE  BlockOf(o)' = BlockOf(o)
      <3>1. CASE \E s \in DOMAIN submaps : \E f \in Field : o = <<"submap", s, f>>
        BY <1>3, <3>1, OwnersAre DEF Ownership
      <3> QED BY <2>7, <3>1, Kinds, OwnersAre, ZenonT(60) DEF Ownership
    <2> HIDE DEF from, moved
    <2>8. ASSUME NEW o \in Owners', o # taker
          PROVE  BlockOf(o)' = Null \/ (from[o] \in Owners /\ BlockOf(o)' = BlockOf(from[o]))
      <3>1. CASE o \in moved
        <4>1. PICK f \in Field : o = <<"submap", n, f>> BY <2>3, <3>1
        <4> QED BY <2>4, <2>5, <4>1
      <3>2. CASE o \notin moved
        <4>1. o \in Owners /\ from[o] = o BY <2>2, <2>6, <3>2
        <4>2. CASE \E f \in Field : o = <<"next", 0, f>> BY <2>4, <4>2
        <4> QED BY <2>7, <4>1, <4>2
      <3> QED BY <3>1, <3>2
    <2>9. ASSUME NEW o \in Owners', NEW p \in Owners', from[o] = from[p]
          PROVE  o = p \/ BlockOf(o)' = Null \/ BlockOf(p)' = Null
      <3>1. CASE o \in moved /\ p \in moved
        <4>1. PICK f \in Field, g \in Field : o = <<"submap", n, f>> /\ p = <<"submap", n, g>>
          BY <2>3, <3>1
        <4>2. <<"next", 0, f>> = <<"next", 0, g>> BY <2>5, <2>9, <4>1
        <4> QED BY <4>1, <4>2
      <3>2. CASE o \in moved /\ p \notin moved
        <4>1. PICK f \in Field : o = <<"submap", n, f>> BY <2>3, <3>2
        <4>2. p = <<"next", 0, f>> BY <2>2, <2>5, <2>9, <3>2, <4>1
        <4> QED BY <2>4, <4>2
      <3>3. CASE o \notin moved /\ p \in moved
        <4>1. PICK f \in Field : p = <<"submap", n, f>> BY <2>3, <3>3
        <4>2. o = <<"next", 0, f>> BY <2>2, <2>5, <2>9, <3>3, <4>1
        <4> QED BY <2>4, <4>2
      <3>4. CASE o \notin moved /\ p \notin moved BY <2>2, <2>9, <3>4
      <3> QED BY <3>1, <3>2, <3>3, <3>4
    <2>10. ASSUME NEW q \in Owners
           PROVE  \/ BlockOf(q) = Null
                  \/ \E o \in Owners' : o # taker /\ BlockOf(o)' = BlockOf(q)
      <3>1. CASE \E f \in Field : q = <<"next", 0, f>>
        <4>1. PICK f \in Field : q = <<"next", 0, f>> BY <3>1
        <4>2. <<"submap", n, f>> \in Owners' /\ <<"submap", n, f>> # taker BY <2>1, <2>4
        <4> QED BY <2>4, <4>1, <4>2
      <3>2. CASE ~\E f \in Field : q = <<"next", 0, f>>
        <4>1. q # taker BY <2>1, <3>2 DEF Field
        <4> QED BY <2>6, <2>7, <3>2, <4>1
      <3> QED BY <3>1, <3>2
    <2>11. PICK b \in Place : b = Null BY DEF Place
    <2>12. BlockOf(taker)' = b BY <2>1, <2>4, <2>11 DEF Field
    <2>13. \A x \in Block : memory'[x] # 0 <=> x = b \/ memory[x] # 0 BY <2>11, NullIsNoBlock
    <2> QED BY <2>8, <2>9, <2>10, <2>11, <2>12, <2>13, HandedOver
  <1> QED BY <1>6, <1>8, <1>9, <1>10, <1>11, <1>12, <1>13

LEMMA EnsureActiveRoomKeeps ==
    ASSUME SizesOK, MemoryInv, EnsureActiveRoom
    PROVE  MemoryInv'
  <1> USE DEF MemoryInv
  <1>1. /\ call.at = "room" /\ building.for = "none" /\ building = NotBuilding
        /\ UNCHANGED <<emptyValue, counter, scratch, dedup, sizesVars>>
    BY DEF EnsureActiveRoom, Construction
  <1>2. CASE At("prepare") /\ UNCHANGED <<memory, submaps, nextSubmap, building>>
    <2>1. call' = [call EXCEPT !.at = "prepare"] BY <1>2 DEF At
    <2>2. /\ call' \in Callers /\ call'.at = "prepare" /\ call'.op = call.op
          /\ call'.n = call.n /\ call'.held = call.held /\ call'.refused = call.refused
      BY <2>1 DEF Types, Callers
    <2>3. CallReady' BY <1>1, <2>2 DEF CallReady
    <2>4. Presence' BY <1>1, <1>2, <2>2 DEF Presence
    <2>5. Construction' BY <1>1, <1>2 DEF Construction, NotBuilding
    <2> QED BY <1>1, <1>2, <2>2, <2>3, <2>4, <2>5, QuietKeeps DEF Types, blocksVars
  <1>3. CASE /\ nextSubmap # NoMap
             /\ submaps' = Append(submaps, nextSubmap) /\ nextSubmap' = NoMap
             /\ At("prepare") /\ UNCHANGED <<memory, building>>
    BY <1>1, <1>3, SwappedInKeeps
  <1>4. CASE /\ memory' = Without(memory, BlocksOf(nextSubmap)) /\ nextSubmap' = NoMap
             /\ Build("active") /\ UNCHANGED <<submaps, call>>
    <2>1. building' = [for |-> "active", tried |-> 0, map |-> NoMap]
      BY <1>4 DEF Build, NotBuilding
    <2>2. building' \in Works BY <2>1, Fields DEF Works
    <2>3. building'.for = "active" /\ building'.tried = 0 /\ building'.map = NoMap BY <2>1
    <2>4. building'.map = building.map BY <1>1, <2>3 DEF NotBuilding
    <2>5. memory' \in [Block -> Nat] /\ SoleOwners' /\ SizesTrue'
      BY <1>1, <1>4, <2>4, PrebuiltDropped
    <2>6. Types' BY <1>1, <1>4, <2>2, <2>5, Fields DEF Types, sizesVars
    <2>7. Construction' BY <1>1, <1>4, <2>3, ArgNames, Fields DEF Construction, Field
    <2>8. Presence' BY <1>1, <1>4 DEF Presence
    <2>9. SlotsThere' BY <1>4 DEF SlotsThere
    <2>10. CallReady' BY <1>1, <1>4 DEF CallReady
    <2> QED BY <2>5, <2>6, <2>7, <2>8, <2>9, <2>10
  <1> QED BY <1>2, <1>3, <1>4 DEF EnsureActiveRoom

\* Buffers are rounded up to whole cache lines.
LEMMA RoundedUp ==
    ASSUME SizesOK, NEW n \in Nat
    PROVE  Rounded(n) \in Nat /\ Rounded(n) >= n
  <1>1. Align \in Nat /\ Align > 0 BY DEF SizesOK
  <1> DEFINE x == n + Align - 1
             q == x \div Align
             r == x % Align
  <1>2. x \in Nat /\ x = n + Align - 1 BY <1>1
  <1>3. q \in Nat /\ r \in 0 .. Align - 1 /\ x = Align * q + r
    <2> HIDE DEF x
    <2> QED BY <1>1, <1>2
  <1>4. Rounded(n) = q * Align BY DEF Rounded
  <1> HIDE DEF x, q, r
  <1>5. q * Align = Align * q /\ q * Align \in Nat BY <1>1, <1>3
  <1> QED BY <1>1, <1>2, <1>3, <1>4, <1>5

LEMMA DedupBytesAre ==
    ASSUME SizesOK, NEW n \in Nat, n > 0
    PROVE  DedupBytes(n) \in Nat /\ DedupBytes(n) > 0
  <1>1. n * KeyBytes \in Nat BY DEF SizesOK
  <1>2. /\ Rounded(n * KeyBytes) \in Nat
        /\ Rounded(n) \in Nat /\ Rounded(n) >= n
    BY <1>1, RoundedUp
  <1> QED BY <1>2 DEF DedupBytes

\* A buffer is replaced by one of other bytes, or by none.
LEMMA BufferReplaced ==
    ASSUME Types, SoleOwners, NEW f \in {"scratch", "dedup"}, NEW b \in Place,
           b # Null => memory[b] = 0, NEW bytes \in Nat, bytes > 0,
           memory' = Without(With(memory, b, bytes), {BlockOf(<<"object", 0, f>>)}),
           UNCHANGED <<submaps, nextSubmap, building>>,
           \A g \in ObjectField : BlockOf(<<"object", 0, g>>)' =
               IF g = f THEN b ELSE BlockOf(<<"object", 0, g>>)
    PROVE  /\ memory' \in [Block -> Nat] /\ SoleOwners'
           /\ b # Null => memory'[b] = bytes
           /\ \A g \in ObjectField \ {f} :
                BlockOf(<<"object", 0, g>>) # Null =>
                    memory'[BlockOf(<<"object", 0, g>>)] = memory[BlockOf(<<"object", 0, g>>)]
  <1>1. PICK old : old = BlockOf(<<"object", 0, f>>) OBVIOUS
  <1>2. f \in ObjectField /\ \A g \in ObjectField : <<"object", 0, g>> \in Owners
    BY OwnersAre DEF Ownership, ObjectField
  <1>3. old \in Place /\ (old # Null => old \in Block /\ memory[old] # 0)
    BY <1>1, <1>2, OwnedBlocks, OwnedIsAllocated
  <1>4. b # Null => b # old BY <1>3
  <1>5. /\ With(memory, b, bytes) \in [Block -> Nat]
        /\ \A x \in Block : With(memory, b, bytes)[x] = IF x = b THEN bytes ELSE memory[x]
    BY WithBlock
  <1>6. /\ memory' \in [Block -> Nat]
        /\ \A x \in Block : memory'[x] = IF x = old THEN 0 ELSE IF x = b THEN bytes ELSE memory[x]
    BY <1>1, <1>5, WithoutBlocks
  <1>7. b # Null => memory'[b] = bytes BY <1>4, <1>6 DEF Place
  <1>8. \A x \in Block : memory'[x] # 0 <=>
            x = b \/ (memory[x] # 0 /\ x # BlockOf(<<"object", 0, f>>))
    BY <1>1, <1>4, <1>6, NullIsNoBlock
  <1>9. SoleOwners' BY <1>2, <1>8, ObjectTakes
  <1>10. ASSUME NEW g \in ObjectField \ {f}, BlockOf(<<"object", 0, g>>) # Null
         PROVE  memory'[BlockOf(<<"object", 0, g>>)] = memory[BlockOf(<<"object", 0, g>>)]
    <2>1. PICK o \in Owners : o = <<"object", 0, g>> BY <1>2
    <2>2. BlockOf(o) \in Block /\ memory[BlockOf(o)] # 0 BY <1>10, <2>1, OwnedIsAllocated
    <2>3. PICK p \in Owners : p = <<"object", 0, f>> BY <1>2
    <2>4. o # p BY <2>1, <2>3
    <2>5. BlockOf(o) # old
      BY <1>1, <1>10, <2>1, <2>3, <2>4 DEF SoleOwners
    <2>6. b # Null => BlockOf(o) # b BY <2>2
    <2> QED BY <1>6, <2>1, <2>2, <2>5, <2>6, NullIsNoBlock
  <1> QED BY <1>6, <1>7, <1>9, <1>10

LEMMA EnsureDedupScratchKeeps ==
    ASSUME SizesOK, MemoryInv, EnsureDedupScratch
    PROVE  MemoryInv'
  <1> USE DEF MemoryInv
  <1>1. PICK held \in Older :
          IF held = {} \/ LargeEnough(dedup, dedupBytes, DedupBytes(call.n))
          THEN /\ call' = [call EXCEPT !.at = "run", !.held = held]
               /\ UNCHANGED <<memory, refusals, dedup, dedupBytes>>
          ELSE \E b \in Granted("dedup") :
               /\ Replaced(dedup, b, DedupBytes(call.n))
               /\ dedup' = b /\ dedupBytes' = DedupBytes(call.n)
               /\ call' = [call EXCEPT !.at = "run", !.held = held, !.refused = b = Null]
    BY DEF EnsureDedupScratch
  <1>2. /\ call.at = "dedup"
        /\ UNCHANGED <<submaps, nextSubmap, emptyValue, counter, scratch, scratchBytes, building>>
        /\ IF call'.held = {} THEN UNCHANGED <<keysBytes, maskBytes>>
           ELSE keysBytes' = Rounded(call.n * KeyBytes) /\ maskBytes' = Rounded(call.n)
    BY DEF EnsureDedupScratch
  <1>3. /\ building = NotBuilding /\ submaps # <<>> /\ call \in Callers
        /\ call.op \in Insertions /\ ~call.refused /\ call.n \in Nat /\ call.n > 0
    BY <1>2, Idle DEF CallReady, Types, Callers
  <1>4. /\ held \subseteq 1 .. Len(submaps) - 1 /\ held \subseteq Nat
        /\ call.op = "InsertAsync" => held = {}
    <2>1. Len(submaps) \in Nat BY DEF Types
    <2>2. CASE call.op = "InsertAsync" BY <1>1, <2>1, <2>2 DEF Older
    <2>3. CASE call.op # "InsertAsync"
      <3>1. held \in SUBSET (1 .. Len(submaps) - 1) BY <1>1, <2>3 DEF Older
      <3> QED BY <2>1, <2>3, <3>1
    <2> QED BY <2>2, <2>3
  <1>5. DedupBytes(call.n) \in Nat /\ DedupBytes(call.n) > 0 BY <1>3, DedupBytesAre
  <1>6. keysBytes' \in Nat /\ maskBytes' \in Nat
    <2>1. call.n * KeyBytes \in Nat BY <1>3 DEF SizesOK
    <2> QED BY <1>2, <1>3, <2>1, RoundedUp DEF Types
  <1>7. /\ Construction'
        /\ SlotsThere'
    BY <1>2, <1>3 DEF Construction, NotBuilding, SlotsThere
  <1>8. CASE held = {} \/ LargeEnough(dedup, dedupBytes, DedupBytes(call.n))
    <2>1. call' = [call EXCEPT !.at = "run", !.held = held]
          /\ UNCHANGED <<memory, dedup, dedupBytes>>
      BY <1>1, <1>8
    <2>2. /\ call' \in Callers /\ call'.at = "run" /\ call'.op = call.op /\ call'.n = call.n
          /\ call'.held = held /\ ~call'.refused
      BY <1>3, <1>4, <2>1 DEF Callers
    <2>3. Types' BY <1>2, <1>6, <2>1, <2>2 DEF Types
    <2>4. Presence' BY <1>2, <1>3, <2>2 DEF Presence
    <2>5. CallReady'
      <3>1. held # {} => Has(dedup, dedupBytes, DedupBytes(call.n))'
        BY <1>8, <2>1, <2>2 DEF LargeEnough, Has, DedupBytes, Rounded
      <3>2. call'.op \notin Lookups BY <1>3, <2>2 DEF Insertions, Lookups
      <3> QED BY <1>2, <1>3, <1>4, <2>1, <2>2, <3>1, <3>2 DEF CallReady, DedupBytes, Rounded
    <2>6. SizesTrue' /\ SoleOwners'
      <3>1. /\ UNCHANGED memory
            /\ UNCHANGED <<submaps, nextSubmap, building, emptyValue, counter, scratch, dedup>>
            /\ UNCHANGED <<scratchBytes, dedupBytes>>
        BY <1>2, <2>1
      <3>2. SizesTrue' BY <3>1 DEF SizesTrue
      <3>3. \A o : o \in Owners' <=> o \in Owners BY <3>1 DEF Owners
      <3>4. \A o \in Owners : BlockOf(o)' = BlockOf(o)
        BY <3>1, Kinds, OwnersAre DEF Ownership
      <3> QED BY <3>1, <3>2, <3>3, <3>4 DEF SoleOwners
    <2> QED BY <1>7, <2>3, <2>4, <2>5, <2>6
  <1>9. CASE ~(held = {} \/ LargeEnough(dedup, dedupBytes, DedupBytes(call.n)))
    <2>1. PICK b \in Granted("dedup") :
               /\ Replaced(dedup, b, DedupBytes(call.n))
               /\ dedup' = b /\ dedupBytes' = DedupBytes(call.n)
               /\ call' = [call EXCEPT !.at = "run", !.held = held, !.refused = b = Null]
      BY <1>1, <1>9
    <2>2. b \in Place /\ (b # Null => b \in Block /\ memory[b] = 0)
      BY <2>1, GrantedIsFree DEF Names
    <2>3. /\ call' \in Callers /\ call'.at = "run" /\ call'.op = call.op /\ call'.n = call.n
          /\ call'.held = held /\ (call'.refused <=> b = Null)
      BY <1>3, <1>4, <2>1 DEF Callers
    <2>4. memory' = Without(With(memory, b, DedupBytes(call.n)), {BlockOf(<<"object", 0, "dedup">>)})
      BY <2>1, OwnersAre DEF Replaced, Ownership
    <2>5. \A g \in ObjectField : BlockOf(<<"object", 0, g>>)' =
              IF g = "dedup" THEN b ELSE BlockOf(<<"object", 0, g>>)
      BY <1>2, <2>1, OwnersAre DEF Ownership, ObjectField
    <2>6. /\ memory' \in [Block -> Nat] /\ SoleOwners'
          /\ b # Null => memory'[b] = DedupBytes(call.n)
          /\ \A g \in ObjectField \ {"dedup"} :
               BlockOf(<<"object", 0, g>>) # Null =>
                   memory'[BlockOf(<<"object", 0, g>>)] = memory[BlockOf(<<"object", 0, g>>)]
      BY <1>2, <1>5, <2>2, <2>4, <2>5, BufferReplaced
    <2>7. scratch # Null => memory'[scratch] = memory[scratch]
      BY <2>6, OwnersAre DEF Ownership, ObjectField
    <2>8. SizesTrue' BY <1>2, <2>1, <2>6, <2>7 DEF SizesTrue
    <2>9. Types' BY <1>2, <1>5, <1>6, <2>1, <2>2, <2>3, <2>6 DEF Types
    <2>10. Presence' BY <1>2, <1>3, <2>3 DEF Presence
    <2>11. CallReady'
      <3>1. Has(dedup, dedupBytes, DedupBytes(call.n))'
        BY <1>5, <2>1, <2>3 DEF Has, DedupBytes, Rounded
      <3>2. call'.op \notin Lookups BY <1>3, <2>3 DEF Insertions, Lookups
      <3> QED BY <1>2, <1>3, <1>4, <2>3, <3>1, <3>2 DEF CallReady, DedupBytes, Rounded
    <2> QED BY <1>7, <2>6, <2>8, <2>9, <2>10, <2>11
  <1> QED BY <1>8, <1>9, Zenon

LEMMA ScratchBytesAre ==
    ASSUME SizesOK, Types, call.n > 0
    PROVE  ScratchBytes \in Nat /\ ScratchBytes > 0
  <1> DEFINE width == IF call.op = "Find" THEN PayloadBytes ELSE 1
  <1>1. width \in Nat /\ width > 0 BY DEF SizesOK
  <1>2. call.n \in Nat BY DEF Types, Callers
  <1>3. ScratchBytes = call.n * width BY DEF ScratchBytes
  <1> HIDE DEF width
  <1>4. \A m, n \in Nat : m > 0 /\ n > 0 => m * n \in Nat /\ m * n > 0 OBVIOUS
  <1> QED BY <1>1, <1>2, <1>3, <1>4

LEMMA EnsureScratchKeeps ==
    ASSUME SizesOK, MemoryInv, EnsureScratch
    PROVE  MemoryInv'
  <1> USE DEF MemoryInv
  <1>1. PICK held \in SUBSET (1 .. Len(submaps)) :
          IF Cardinality(held) <= 1 \/ LargeEnough(scratch, scratchBytes, ScratchBytes)
          THEN /\ call' = [call EXCEPT !.at = "run", !.held = held]
               /\ UNCHANGED <<memory, refusals, scratch, scratchBytes>>
          ELSE \E b \in Granted("scratch") :
               /\ Replaced(scratch, b, ScratchBytes)
               /\ scratch' = b /\ scratchBytes' = ScratchBytes
               /\ call' = [call EXCEPT !.at = "run", !.held = held, !.refused = b = Null]
    BY DEF EnsureScratch
  <1>2. /\ call.at = "scratch"
        /\ UNCHANGED <<submaps, nextSubmap, emptyValue, counter, dedup, dedupBytes, keysBytes,
                       maskBytes, building>>
    BY DEF EnsureScratch
  <1>3. /\ building = NotBuilding /\ submaps # <<>> /\ call \in Callers
        /\ call.op \in Lookups /\ ~call.refused /\ call.n \in Nat /\ call.n > 0
    BY <1>2, Idle DEF CallReady, Types, Callers
  <1>4. held \subseteq 1 .. Len(submaps) /\ held \subseteq Nat
    <2>1. Len(submaps) \in Nat BY DEF Types
    <2> QED BY <2>1
  <1>5. ScratchBytes \in Nat /\ ScratchBytes > 0 BY <1>3, ScratchBytesAre
  <1>6. Construction' /\ SlotsThere'
    BY <1>2, <1>3 DEF Construction, NotBuilding, SlotsThere
  <1>7. CASE Cardinality(held) <= 1 \/ LargeEnough(scratch, scratchBytes, ScratchBytes)
    <2>1. call' = [call EXCEPT !.at = "run", !.held = held]
          /\ UNCHANGED <<memory, scratch, scratchBytes>>
      BY <1>1, <1>7
    <2>2. /\ call' \in Callers /\ call'.at = "run" /\ call'.op = call.op /\ call'.n = call.n
          /\ call'.held = held /\ ~call'.refused
      BY <1>3, <1>4, <2>1 DEF Callers
    <2>3. Types' BY <1>2, <2>1, <2>2 DEF Types
    <2>4. Presence' BY <1>2, <1>3, <2>2 DEF Presence
    <2>5. CallReady'
      <3>1. ~Cardinality(held) <= 1 => Has(scratch, scratchBytes, ScratchBytes)'
        BY <1>7, <2>1, <2>2 DEF LargeEnough, Has, ScratchBytes
      <3>2. call'.op \notin Insertions BY <1>3, <2>2 DEF Insertions, Lookups
      <3>3. Cardinality(held) > 1 => ~Cardinality(held) <= 1
        <4>1. held \in SUBSET (1 .. Len(submaps)) /\ Len(submaps) \in Nat BY DEF Types
        <4>2. IsFiniteSet(1 .. Len(submaps)) BY <4>1, FS_Interval
        <4>3. Cardinality(held) \in Nat
          BY <4>1, <4>2, FS_Subset, FS_CardinalityType
        <4> QED BY <4>3
      <3> QED BY <1>2, <1>3, <1>4, <2>2, <3>1, <3>2, <3>3 DEF CallReady
    <2>6. SizesTrue' /\ SoleOwners'
      <3>1. /\ UNCHANGED memory
            /\ UNCHANGED <<submaps, nextSubmap, building, emptyValue, counter, scratch, dedup>>
            /\ UNCHANGED <<scratchBytes, dedupBytes>>
        BY <1>2, <2>1
      <3>2. SizesTrue' BY <3>1 DEF SizesTrue
      <3>3. \A o : o \in Owners' <=> o \in Owners BY <3>1 DEF Owners
      <3>4. \A o \in Owners : BlockOf(o)' = BlockOf(o)
        BY <3>1, Kinds, OwnersAre DEF Ownership
      <3> QED BY <3>1, <3>2, <3>3, <3>4 DEF SoleOwners
    <2> QED BY <1>6, <2>3, <2>4, <2>5, <2>6
  <1>8. CASE ~(Cardinality(held) <= 1 \/ LargeEnough(scratch, scratchBytes, ScratchBytes))
    <2>1. PICK b \in Granted("scratch") :
               /\ Replaced(scratch, b, ScratchBytes)
               /\ scratch' = b /\ scratchBytes' = ScratchBytes
               /\ call' = [call EXCEPT !.at = "run", !.held = held, !.refused = b = Null]
      BY <1>1, <1>8
    <2>2. b \in Place /\ (b # Null => b \in Block /\ memory[b] = 0)
      BY <2>1, GrantedIsFree DEF Names
    <2>3. /\ call' \in Callers /\ call'.at = "run" /\ call'.op = call.op /\ call'.n = call.n
          /\ call'.held = held /\ (call'.refused <=> b = Null)
      BY <1>3, <1>4, <2>1 DEF Callers
    <2>4. memory' = Without(With(memory, b, ScratchBytes), {BlockOf(<<"object", 0, "scratch">>)})
      BY <2>1, OwnersAre DEF Replaced, Ownership
    <2>5. \A g \in ObjectField : BlockOf(<<"object", 0, g>>)' =
              IF g = "scratch" THEN b ELSE BlockOf(<<"object", 0, g>>)
      BY <1>2, <2>1, OwnersAre DEF Ownership, ObjectField
    <2>6. /\ memory' \in [Block -> Nat] /\ SoleOwners'
          /\ b # Null => memory'[b] = ScratchBytes
          /\ \A g \in ObjectField \ {"scratch"} :
               BlockOf(<<"object", 0, g>>) # Null =>
                   memory'[BlockOf(<<"object", 0, g>>)] = memory[BlockOf(<<"object", 0, g>>)]
      BY <1>2, <1>5, <2>2, <2>4, <2>5, BufferReplaced
    <2>7. dedup # Null => memory'[dedup] = memory[dedup]
      BY <2>6, OwnersAre DEF Ownership, ObjectField
    <2>8. SizesTrue' BY <1>2, <2>1, <2>6, <2>7 DEF SizesTrue
    <2>9. Types' BY <1>2, <1>5, <2>1, <2>2, <2>3, <2>6 DEF Types
    <2>10. Presence' BY <1>2, <1>3, <2>3 DEF Presence
    <2>11. CallReady'
      <3>1. Has(scratch, scratchBytes, ScratchBytes)'
        BY <1>5, <2>1, <2>3 DEF Has, ScratchBytes
      <3>2. call'.op \notin Insertions BY <1>3, <2>3 DEF Insertions, Lookups
      <3> QED BY <1>2, <1>3, <1>4, <2>3, <3>1, <3>2 DEF CallReady
    <2> QED BY <1>6, <2>6, <2>8, <2>9, <2>10, <2>11
  <1> QED BY <1>7, <1>8, Zenon

--------------------------------------------------------------------------------
(* The theorem. *)

LEMMA InitHolds ==
    ASSUME SizesOK, Init
    PROVE  MemoryInv
  <1>1. Types
    BY CallsAre, Fields DEF Init, Types, NotBuilding, Works, Place
  <1>2. Construction /\ Presence /\ SlotsThere /\ SizesTrue /\ CallReady
    BY CallsAre, ArgNames, Fields
    DEF Init, NotBuilding, Field, Construction, Presence, SlotsThere, SizesTrue, CallReady
  <1>3. SoleOwners
    <2>1. \A o \in Owners : BlockOf(o) = Null
      <3> SUFFICES ASSUME NEW o \in Owners PROVE BlockOf(o) = Null OBVIOUS
      <3>1. submaps = <<>> /\ nextSubmap = NoMap /\ building.map = NoMap
            /\ emptyValue = Null /\ counter = Null /\ scratch = Null /\ dedup = Null
        BY DEF Init, NotBuilding
      <3>2. ~\E s \in DOMAIN submaps : \E f \in Field : o = <<"submap", s, f>> BY <3>1
      <3> QED BY <3>1, <3>2, Kinds, Fields, OwnersAre DEF Ownership
    <2>2. \A b \in Block : memory[b] = 0 BY DEF Init
    <2> QED BY <2>1, <2>2, NullIsNoBlock DEF SoleOwners
  <1> QED BY <1>1, <1>2, <1>3 DEF MemoryInv

LEMMA NextKeeps ==
    ASSUME SizesOK, MemoryInv, [Next]_vars
    PROVE  MemoryInv'
  <1>1. CASE Next
    BY <1>1, BuildArgStorageKeeps, BuildSlotsKeeps, ConstructKeeps, ConstructRestKeeps,
       DestroyKeeps, BeginKeeps, EnsureActiveRoomKeeps, StartPrepareNextKeeps, ReserveKeeps,
       EnsureDedupScratchKeeps, EnsureScratchKeeps, RunKeeps, ErasesKeep, ClearKeeps,
       ReturnKeeps
    DEF Next
  <1>2. CASE UNCHANGED vars
    BY <1>2, QuietKeeps
    DEF vars, MemoryInv, Types, Construction, Presence, CallReady, Has, ScratchBytes,
        blocksVars, sizesVars
  <1> QED BY <1>1, <1>2

\* Whatever the device refuses, and whatever throws half-way, each allocated block
\* has one living owner: nothing leaks, nothing is freed twice.
THEOREM MemoryInvariant == SizesOK => (Spec => []MemoryInv)
  <1> SUFFICES ASSUME SizesOK PROVE Spec => []MemoryInv OBVIOUS
  <1>1. Init => MemoryInv BY InitHolds
  <1>2. MemoryInv /\ [Next]_vars => MemoryInv' BY NextKeeps
  <1> QED BY <1>1, <1>2, PTL DEF Spec

THEOREM BlocksHaveOneOwner == SizesOK => (Spec => []OneOwner)
  <1>1. MemoryInv => OneOwner
    BY NullIsNoBlock DEF MemoryInv, SoleOwners, OneOwner
  <1> QED BY <1>1, MemoryInvariant, PTL

--------------------------------------------------------------------------------
(* What the kernels are given. *)

Served(parts) ==
    /\ \A part \in parts :
         Inside(part) \/ (part.block = Null /\ part.whose \in {"unchecked", "refused"})
    /\ \A p, q \in parts :
         p # q /\ p.block = q.block /\ p.block # Null => p.upto <= q.from \/ q.upto <= p.from

\* A whole block is given in the one way that its owner is for, and never as null
\* where it has been checked.
Whose(field) ==
    IF field = "slots" THEN "slots"
    ELSE IF field \in {"arg", "counter"} THEN "counter" ELSE "unchecked"
Wholly(p) ==
    \E o \in Owners : /\ o[3] \notin {"scratch", "dedup"}
                      /\ p = Whole(BlockOf(o), Whose(o[3]))
                      /\ BlockOf(o) # Null \/ Whose(o[3]) = "unchecked"

\* The buffers belong to the call that has asked for them.
OfDedup(p) ==
    /\ call.at = "run" /\ call.op \in Insertions /\ call.held # {}
    /\ p \in {Keys, Mask, Tmp}
OfScratch(p) ==
    /\ call.at = "run" /\ call.op \in Lookups /\ Cardinality(call.held) > 1
    /\ p = Buffer(scratch, 0, ScratchBytes)

Given(p) == Wholly(p) \/ OfDedup(p) \/ OfScratch(p)
GivenIsServed == \A parts : (\A p \in parts : Given(p)) => Served(parts)

LEMMA Wholes ==
    ASSUME MemoryInv, NEW p, Wholly(p)
    PROVE  /\ Inside(p) \/ (p.block = Null /\ p.whose = "unchecked")
           /\ p.block # Null => \E o \in Owners : /\ o[3] \notin {"scratch", "dedup"}
                                                  /\ BlockOf(o) = p.block
                                                  /\ p = Whole(BlockOf(o), Whose(o[3]))
  <1> USE DEF MemoryInv
  <1>1. PICK o \in Owners : /\ o[3] \notin {"scratch", "dedup"}
                            /\ p = Whole(BlockOf(o), Whose(o[3]))
                            /\ BlockOf(o) # Null \/ Whose(o[3]) = "unchecked"
    BY DEF Wholly
  <1>2. p.block = BlockOf(o) /\ p.upto = 1 /\ p.whose = Whose(o[3]) BY <1>1 DEF Whole, Part
  <1>3. ASSUME BlockOf(o) # Null PROVE Inside(p)
    <2>1. BlockOf(o) \in Block /\ memory[BlockOf(o)] # 0 BY <1>3, OwnedIsAllocated
    <2>2. memory[BlockOf(o)] \in Nat BY <2>1 DEF Types
    <2> QED BY <1>2, <1>3, <2>1, <2>2 DEF Inside
  <1> QED BY <1>1, <1>2, <1>3

\* The three parts of the buffer follow each other.
LEMMA DedupParts ==
    ASSUME SizesOK, MemoryInv, call.at = "run", call.op \in Insertions, call.held # {}
    PROVE  /\ \A p \in {Keys, Mask, Tmp} :
                /\ p.block = dedup
                /\ Inside(p) \/ (p.block = Null /\ p.whose = "refused")
           /\ \A p, q \in {Keys, Mask, Tmp} : p # q => p.upto <= q.from \/ q.upto <= p.from
  <1> USE DEF MemoryInv
  <1>1. /\ call.n \in Nat /\ call.n > 0 /\ Has(dedup, dedupBytes, DedupBytes(call.n))
        /\ keysBytes = Rounded(call.n * KeyBytes) /\ maskBytes = Rounded(call.n)
    BY DEF CallReady, Types, Callers
  <1> DEFINE n == call.n
             k == call.n * KeyBytes
             rk == Rounded(k)
             rn == Rounded(n)
  <1>2. n \in Nat /\ k \in Nat BY <1>1 DEF SizesOK
  <1>3. rk \in Nat /\ rk >= k /\ rn \in Nat /\ rn >= n BY <1>2, RoundedUp
  <1>4. DedupBytes(call.n) = rk + 2 * rn BY DEF DedupBytes
  <1>5. PICK w : w = IF call.refused THEN "refused" ELSE "scratch" OBVIOUS
  <1>6. /\ Keys = [block |-> dedup, from |-> 0, upto |-> 0 + k, whose |-> w]
        /\ Mask = [block |-> dedup, from |-> rk, upto |-> rk + n, whose |-> w]
        /\ Tmp = [block |-> dedup, from |-> rk + rn, upto |-> rk + rn + n, whose |-> w]
    BY <1>1, <1>5 DEF Keys, Mask, Tmp, Buffer, Part
  <1>7. CASE call.refused
    <2>1. dedup = Null BY <1>1, <1>7 DEF Has
    <2> HIDE DEF n, k, rk, rn
    <2> QED BY <1>2, <1>3, <1>5, <1>6, <1>7, <2>1
  <1>8. CASE ~call.refused
    <2>1. dedup # Null /\ rk + 2 * rn <= dedupBytes /\ memory[dedup] = dedupBytes
      BY <1>1, <1>4, <1>8 DEF Has, SizesTrue
    <2>2. dedupBytes \in Nat BY DEF Types
    <2> HIDE DEF n, k, rk, rn
    <2>3. 0 + k <= dedupBytes /\ rk + n <= dedupBytes /\ rk + rn + n <= dedupBytes
      BY <1>2, <1>3, <2>1, <2>2
    <2>4. \A p \in {Keys, Mask, Tmp} : p.block = dedup /\ p.upto <= memory[dedup]
      BY <1>6, <2>1, <2>3
    <2>5. \A p, q \in {Keys, Mask, Tmp} : p # q => p.upto <= q.from \/ q.upto <= p.from
      BY <1>2, <1>3, <1>6
    <2> QED BY <2>1, <2>4, <2>5 DEF Inside
  <1> QED BY <1>7, <1>8

LEMMA ScratchPart ==
    ASSUME SizesOK, MemoryInv, NEW p, OfScratch(p)
    PROVE  p.block = scratch /\ (Inside(p) \/ (p.block = Null /\ p.whose = "refused"))
  <1> USE DEF MemoryInv
  <1>1. /\ Has(scratch, scratchBytes, ScratchBytes) /\ p = Buffer(scratch, 0, ScratchBytes)
        /\ call.n > 0
    BY DEF OfScratch, CallReady
  <1>2. ScratchBytes \in Nat BY <1>1, ScratchBytesAre
  <1>3. /\ p.block = scratch /\ p.upto = ScratchBytes
        /\ p.whose = IF call.refused THEN "refused" ELSE "scratch"
    BY <1>1, <1>2 DEF Buffer, Part
  <1> QED BY <1>1, <1>3 DEF Has, Inside, SizesTrue

LEMMA PartsAreServed == SizesOK /\ MemoryInv => GivenIsServed
  <1> SUFFICES ASSUME SizesOK, MemoryInv, NEW parts, \A p \in parts : Given(p)
               PROVE  Served(parts)
    BY DEF GivenIsServed
  <1> USE DEF MemoryInv
  <1>1. PICK s \in Owners, d \in Owners :
          /\ s = <<"object", 0, "scratch">> /\ d = <<"object", 0, "dedup">>
          /\ BlockOf(s) = scratch /\ BlockOf(d) = dedup
    BY OwnersAre DEF Ownership, ObjectField
  <1>2. s[3] = "scratch" /\ d[3] = "dedup" /\ s # d BY <1>1
  <1>3. scratch = dedup => scratch = Null BY <1>1, <1>2 DEF SoleOwners
  <1>4. ASSUME NEW p, Wholly(p), p.block # Null PROVE p.block # scratch /\ p.block # dedup
    BY <1>1, <1>2, <1>4, Wholes DEF SoleOwners
  <1>5. ASSUME NEW part \in parts
        PROVE  Inside(part) \/ (part.block = Null /\ part.whose \in {"unchecked", "refused"})
    <2>1. CASE Wholly(part) BY <2>1, Wholes
    <2>2. CASE OfDedup(part) BY <2>2, DedupParts DEF OfDedup
    <2>3. CASE OfScratch(part) BY <2>3, ScratchPart
    <2> QED BY <2>1, <2>2, <2>3 DEF Given
  <1>6. ASSUME NEW p \in parts, NEW q \in parts, p # q, p.block = q.block, p.block # Null
        PROVE  p.upto <= q.from \/ q.upto <= p.from
    <2>1. OfDedup(p) => p.block = dedup BY DedupParts DEF OfDedup
    <2>2. OfDedup(q) => q.block = dedup BY DedupParts DEF OfDedup
    <2>3. OfScratch(p) => p.block = scratch BY ScratchPart
    <2>4. OfScratch(q) => q.block = scratch BY ScratchPart
    <2>5. CASE Wholly(p) /\ Wholly(q)
      <3>1. PICK o \in Owners : BlockOf(o) = p.block /\ p = Whole(BlockOf(o), Whose(o[3]))
        BY <1>6, <2>5, Wholes
      <3>2. PICK r \in Owners : BlockOf(r) = q.block /\ q = Whole(BlockOf(r), Whose(r[3]))
        BY <1>6, <2>5, Wholes
      <3>3. o = r BY <1>6, <3>1, <3>2 DEF SoleOwners
      <3> QED BY <1>6, <3>1, <3>2, <3>3
    <2>6. CASE OfDedup(p) /\ OfDedup(q) BY <1>6, <2>6, DedupParts DEF OfDedup
    <2>7. CASE OfScratch(p) /\ OfScratch(q) BY <1>6, <2>7 DEF OfScratch
    <2> QED BY <1>3, <1>4, <1>6, <2>1, <2>2, <2>3, <2>4, <2>5, <2>6, <2>7 DEF Given
  <1> QED BY <1>5, <1>6 DEF Served

\* A StaticMap gives its kernels the slots, which are there, and the empty value.
LEMMA SubmapParts ==
    ASSUME MemoryInv, NEW s \in DOMAIN submaps
    PROVE  /\ \A p \in Table(s) : Wholly(p)
           /\ \A f \in {"empty", "erased", "ioa"} : Wholly(Whole(submaps[s][f], "unchecked"))
           /\ submaps[s].arg # Null => Wholly(Whole(submaps[s].arg, "counter"))
  <1> USE DEF MemoryInv
  <1>1. ASSUME NEW f \in Field, submaps[s][f] # Null \/ Whose(f) = "unchecked"
        PROVE  Wholly(Whole(submaps[s][f], Whose(f)))
    <2>1. PICK o \in Owners : o = <<"submap", s, f>> BY OwnersAre DEF Ownership
    <2>2. BlockOf(o) = submaps[s][f] BY <2>1, OwnersAre DEF Ownership
    <2>3. o[3] = f BY <2>1
    <2>4. o[3] \notin {"scratch", "dedup"} BY <2>3 DEF Field
    <2> QED BY <1>1, <2>2, <2>3, <2>4 DEF Wholly
  <1>2. /\ Whose("slots") = "slots" /\ Whose("arg") = "counter"
        /\ \A f \in {"empty", "erased", "ioa"} : f \in Field /\ Whose(f) = "unchecked"
        /\ {"slots", "arg"} \subseteq Field
    BY DEF Whose, Field
  <1>3. submaps[s].slots # Null BY DEF SlotsThere
  <1>4. \A f \in {"empty", "erased", "ioa"} : Wholly(Whole(submaps[s][f], "unchecked"))
    BY <1>1, <1>2
  <1>5. Wholly(Whole(submaps[s].slots, "slots")) BY <1>1, <1>2, <1>3
  <1>6. submaps[s].arg # Null => Wholly(Whole(submaps[s].arg, "counter")) BY <1>1, <1>2
  <1>7. \A p \in Table(s) : Wholly(p) BY <1>4, <1>5 DEF Table
  <1> QED BY <1>4, <1>6, <1>7

LEMMA ObjectParts ==
    ASSUME MemoryInv
    PROVE  /\ counter # Null => Wholly(Whole(counter, "counter"))
           /\ Wholly(Whole(emptyValue, "unchecked"))
  <1>1. PICK c \in Owners : c = <<"object", 0, "counter">> BY OwnersAre DEF Ownership, ObjectField
  <1>2. PICK e \in Owners : e = <<"object", 0, "emptyValue">>
    BY OwnersAre DEF Ownership, ObjectField
  <1>3. BlockOf(c) = counter /\ c[3] = "counter" BY <1>1, OwnersAre DEF Ownership
  <1>4. BlockOf(e) = emptyValue /\ e[3] = "emptyValue" BY <1>2, OwnersAre DEF Ownership
  <1>5. Whose("counter") = "counter" /\ Whose("emptyValue") = "unchecked" BY DEF Whose
  <1> QED BY <1>3, <1>4, <1>5 DEF Wholly

LEMMA TablesParts ==
    ASSUME MemoryInv, NEW subset, subset \subseteq DOMAIN submaps
    PROVE  \A p \in TablesOf(subset) : Wholly(p)
  BY SubmapParts DEF TablesOf

LEMMA InsertKernelsAreGiven ==
    ASSUME MemoryInv, call.at = "run", call.op \in Insertions
    PROVE  \A p \in InsertKernels : Given(p)
  <1> USE DEF MemoryInv
  <1>1. Active \in DOMAIN submaps
    <2>1. submaps # <<>> BY Idle
    <2> QED BY <2>1 DEF Types, Active
  <1>2. call.held \subseteq DOMAIN submaps
    <2>1. Len(submaps) \in Nat /\ DOMAIN submaps = 1 .. Len(submaps) BY DEF Types
    <2> QED BY <2>1 DEF CallReady
  <1>3. \A p \in Table(Active) : Wholly(p) BY <1>1, SubmapParts
  <1>4. \A p \in InsertIf : Wholly(p) BY <1>1, <1>3, SubmapParts DEF InsertIf, ZeroThen
  <1>5. CASE call.held # {}
    <2>1. OfDedup(Keys) /\ OfDedup(Mask) /\ OfDedup(Tmp) BY <1>5 DEF OfDedup
    <2>2. \A p \in TablesOf(call.held) : Wholly(p) BY <1>2, TablesParts
    <2>3. \A p \in BuildContainsMask : Given(p) BY <2>1, <2>2 DEF BuildContainsMask, Given
    <2>4. \A p \in Assigned : Wholly(p)
      <3>1. call.held \cup {Active} \subseteq DOMAIN submaps BY <1>1, <1>2
      <3>2. \A p \in TablesOf(call.held \cup {Active}) : Wholly(p) BY <3>1, TablesParts
      <3> QED BY <3>2 DEF Assigned
    <2>5. \A p \in ZeroThen(counter, {Mask} \cup Assigned) : Given(p)
      BY <2>1, <2>4, ObjectParts DEF ZeroThen, Given
    <2>6. InsertKernels = BuildContainsMask \cup ZeroThen(counter, {Mask} \cup Assigned)
                           \cup (IF counter = Null THEN {} ELSE InsertIf)
      BY <1>5 DEF InsertKernels
    <2> QED BY <1>4, <2>3, <2>5, <2>6 DEF Given
  <1>6. CASE call.held = {}
    <2>1. Wholly(Whole(submaps[Active].ioa, "unchecked")) BY <1>1, SubmapParts
    <2>2. CASE call.op = "Insert"
      <3>1. InsertKernels = InsertIf BY <1>6, <2>2 DEF InsertKernels
      <3> QED BY <1>4, <3>1 DEF Given
    <2>3. CASE call.op = "InsertOrAssign"
      <3>1. InsertKernels = Table(Active) \cup {Whole(submaps[Active].ioa, "unchecked")}
        BY <1>6, <2>3 DEF InsertKernels
      <3> QED BY <1>3, <2>1, <3>1 DEF Given
    <2>4. CASE call.op = "InsertAsync"
      <3>1. InsertKernels = Table(Active) BY <1>6, <2>4 DEF InsertKernels
      <3> QED BY <1>3, <3>1 DEF Given
    <2> QED BY <2>2, <2>3, <2>4 DEF Insertions
  <1> QED BY <1>5, <1>6

LEMMA LookupKernelsAreGiven ==
    ASSUME MemoryInv, call.at = "run", call.op \in Lookups
    PROVE  \A p \in LookupKernels : Given(p)
  <1> USE DEF MemoryInv
  <1>1. /\ Len(submaps) \in Nat /\ DOMAIN submaps = 1 .. Len(submaps) /\ 1 \in DOMAIN submaps
        /\ call.held \subseteq 1 .. Len(submaps)
    <2>1. submaps # <<>> BY Idle
    <2> QED BY <2>1 DEF Types, CallReady
  <1> DEFINE base == IF call.held = {} THEN 1 ELSE Min(call.held)
             merged == call.held \ {base}
             merge == {Buffer(scratch, 0, ScratchBytes)} \cup
                         IF call.op = "Find" THEN {Whole(emptyValue, "unchecked")} ELSE {}
  <1>2. call.held # {} => base \in call.held
    <2> SUFFICES ASSUME call.held # {} PROVE Min(call.held) \in call.held OBVIOUS
    <2>1. call.held \in SUBSET Nat BY <1>1
    <2>2. \E n \in call.held : \A m \in call.held : n <= m BY <2>1, LeastNatural
    <2> QED BY <2>2 DEF Min
  <1>3. call.held = {} => base = 1 OBVIOUS
  <1>4. LookupKernels = Table(base) \cup (IF merged = {} THEN {} ELSE merge)
                                    \cup (IF scratch = Null THEN {} ELSE TablesOf(merged))
    BY DEF LookupKernels
  <1> HIDE DEF base
  <1>5. base \in DOMAIN submaps BY <1>1, <1>2, <1>3
  <1>6. merged \subseteq DOMAIN submaps BY <1>1
  <1>7. merged # {} => Cardinality(call.held) > 1
    <2> SUFFICES ASSUME merged # {} PROVE Cardinality(call.held) > 1 OBVIOUS
    <2>1. IsFiniteSet(1 .. Len(submaps)) BY <1>1, FS_Interval
    <2>2. IsFiniteSet(call.held) BY <1>1, <2>1, FS_Subset
    <2>3. base \in call.held BY <1>2
    <2>4. /\ IsFiniteSet(merged)
          /\ Cardinality(merged) = Cardinality(call.held) - 1
      BY <2>2, <2>3, FS_RemoveElement
    <2>5. Cardinality(merged) # 0 BY <2>4, FS_EmptySet
    <2>6. Cardinality(merged) \in Nat /\ Cardinality(call.held) \in Nat
      BY <2>2, <2>4, FS_CardinalityType
    <2> QED BY <2>4, <2>5, <2>6
  <1>8. \A p \in Table(base) : Wholly(p) BY <1>5, SubmapParts
  <1>9. \A p \in TablesOf(merged) : Wholly(p) BY <1>6, TablesParts
  <1>10. merged # {} => \A p \in merge : Given(p)
    BY <1>7, ObjectParts DEF OfScratch, Given
  <1> HIDE DEF merged, merge
  <1> QED BY <1>4, <1>8, <1>9, <1>10 DEF Given

TablesWhole == \A s \in DOMAIN submaps : \A p \in Table(s) : Wholly(p)
LEMMA TablesAreWhole == MemoryInv => TablesWhole
  BY SubmapParts DEF TablesWhole

\* Kernels that are launched while the memory stays as it is.
LEMMA ServedKernels ==
    ASSUME SizesOK, MemoryInv, \A p \in used' : Given(p), UNCHANGED memory
    PROVE  KernelsGetMemory'
  BY PartsAreServed DEF GivenIsServed, Served, Inside, KernelsGetMemory

LEMMA RunServes ==
    ASSUME SizesOK, MemoryInv, Run
    PROVE  KernelsGetMemory'
  <1>1. /\ call.at = "run" /\ UNCHANGED memory
        /\ used' = IF call.op \in Insertions THEN InsertKernels ELSE LookupKernels
        /\ call.op \in Insertions \cup Lookups
    BY DEF Run, MemoryInv, CallReady
  <1>2. \A p \in used' : Given(p) BY <1>1, InsertKernelsAreGiven, LookupKernelsAreGiven
  <1> QED BY <1>1, <1>2, ServedKernels

LEMMA EraseServes ==
    ASSUME SizesOK, MemoryInv, Erase
    PROVE  KernelsGetMemory'
  <1>1. PICK held \in SUBSET DOMAIN submaps :
          LET reached == {s \in held : \A t \in held : t <= s => submaps[t].arg # Null}
          IN  used' = TablesOf(reached) \cup {Whole(submaps[s].arg, "counter") : s \in reached}
                         \cup {Whole(submaps[s].erased, "unchecked") : s \in reached}
    BY DEF Erase
  <1> DEFINE reached == {s \in held : \A t \in held : t <= s => submaps[t].arg # Null}
  <1>2. DOMAIN submaps \subseteq Nat BY DEF MemoryInv, Types
  <1>3. \A s \in reached : s \in DOMAIN submaps /\ submaps[s].arg # Null BY <1>2
  <1>4. used' = TablesOf(reached) \cup {Whole(submaps[s].arg, "counter") : s \in reached}
                    \cup {Whole(submaps[s].erased, "unchecked") : s \in reached}
    BY <1>1
  <1> HIDE DEF reached
  <1>5. \A p \in TablesOf(reached) : Wholly(p) BY <1>3, TablesParts
  <1>6. ASSUME NEW p \in used' PROVE Given(p)
    BY <1>3, <1>4, <1>5, SubmapParts DEF Given
  <1> QED BY <1>6, ServedKernels DEF Erase

LEMMA EraseAsyncServes ==
    ASSUME SizesOK, MemoryInv, EraseAsync
    PROVE  KernelsGetMemory'
  <1>1. PICK held \in SUBSET DOMAIN submaps :
          used' = TablesOf(held) \cup {Whole(submaps[s].erased, "unchecked") : s \in held}
    BY DEF EraseAsync
  <1>2. \A p \in TablesOf(held) : Wholly(p) BY TablesParts
  <1>3. ASSUME NEW p \in used' PROVE Given(p)
    BY <1>1, <1>2, SubmapParts DEF Given
  <1> QED BY <1>3, ServedKernels DEF EraseAsync

LEMMA ClearServes ==
    ASSUME SizesOK, MemoryInv', Clear
    PROVE  KernelsGetMemory'
  <1>1. submaps' = submaps /\ used' = TablesOf(DOMAIN submaps) BY DEF Clear
  <1>2. TablesWhole' BY TablesAreWhole, PTL
  <1>3. \A s \in DOMAIN submaps : Table(s)' = Table(s) BY <1>1 DEF Table
  <1>4. \A p \in used' : Given(p)' BY <1>1, <1>2, <1>3 DEF TablesWhole, TablesOf, Given
  <1>5. GivenIsServed' BY PartsAreServed, PTL
  <1>6. Served(used)' BY <1>4, <1>5 DEF GivenIsServed
  <1> QED BY <1>6 DEF Served, KernelsGetMemory

\* The kernel that fills the slots of a new submap.
LEMMA BuildSlotsServes ==
    ASSUME SizesOK, MemoryInv, MemoryInv', BuildSlots
    PROVE  KernelsGetMemory'
  <1>1. PICK b \in Granted("slots") :
          LET m == [building.map EXCEPT !.slots = b] IN
          IF b = Null THEN used' = {}
          ELSE /\ memory' = With(memory, b, 1)
               /\ used' = {Whole(m.slots, "slots"), Whole(m.empty, "unchecked")}
    BY DEF BuildSlots
  <1>2. CASE b = Null BY <1>1, <1>2 DEF KernelsGetMemory
  <1>3. CASE b # Null
    <2>1. PICK e : e = building.map.empty OBVIOUS
    <2>2. b \in Block /\ memory[b] = 0 BY <1>3, GrantedIsFree DEF Names
    <2>3. building.map \in Maps BY EndsConstruction
    <2>4. used' = {Whole(b, "slots"), Whole(e, "unchecked")} BY <1>1, <1>3, <2>1, <2>3 DEF Maps
    <2>5. \A x \in Block : memory'[x] = IF x = b THEN 1 ELSE memory[x]
      BY <1>1, <1>3, <2>2, WithBlock DEF MemoryInv, Place
    <2>6. e # Null => e \in Block /\ memory[e] # 0 /\ memory[e] \in Nat
      <3>1. PICK o \in Owners : o = <<"building", 0, "empty">>
        BY OwnersAre DEF Ownership, Field
      <3>2. BlockOf(o) = e BY <2>1, <3>1, OwnersAre DEF Ownership, Field
      <3> QED BY <3>2, OwnedIsAllocated DEF MemoryInv, Types
    <2>7. \A p \in used' : Inside(p)' \/ (p.block = Null /\ p.whose = "unchecked")
      BY <1>3, <2>2, <2>4, <2>5, <2>6 DEF Inside, Whole, Part
    <2>8. \A p, q \in used' : p # q => p.block # q.block
      BY <2>2, <2>4, <2>6, <1>3 DEF Whole, Part
    <2> QED BY <2>7, <2>8 DEF KernelsGetMemory
  <1> QED BY <1>2, <1>3

LEMMA KernelsKeep ==
    ASSUME SizesOK, MemoryInv, MemoryInv', KernelsGetMemory, [Next]_vars
    PROVE  KernelsGetMemory'
  <1>1. CASE UNCHANGED vars BY <1>1 DEF vars, KernelsGetMemory, Inside
  <1>2. CASE used' = {} BY <1>2 DEF KernelsGetMemory
  <1>3. CASE Next /\ used' # {}
    <2>1. BuildSlots \/ Run \/ Erase \/ EraseAsync \/ Clear
      BY <1>3 DEF Next, Construct, BuildArgStorage, ConstructRest, Destroy, Begin,
                  EnsureActiveRoom, StartPrepareNext, Reserve, EnsureDedupScratch,
                  EnsureScratch, Return
    <2> QED BY <2>1, BuildSlotsServes, RunServes, EraseServes, EraseAsyncServes, ClearServes, Zenon
  <1> QED BY <1>1, <1>2, <1>3

\* Every kernel is given memory that is allocated and large enough, and its buffers
\* apart, null only where a refusal is no more than logged.
THEOREM KernelsAreServed == SizesOK => (Spec => []KernelsGetMemory)
  <1> SUFFICES ASSUME SizesOK PROVE Spec => []KernelsGetMemory OBVIOUS
  <1>1. Init => KernelsGetMemory BY DEF Init, KernelsGetMemory
  <1>2. KernelsGetMemory /\ MemoryInv /\ MemoryInv' /\ [Next]_vars => KernelsGetMemory'
    BY KernelsKeep
  <1> QED BY <1>1, <1>2, MemoryInvariant, PTL DEF Spec

--------------------------------------------------------------------------------
(* The memory of a bitmap, allocations, and the constructor that is running,     *)
(* making.  Memory changes hands in two ways: a constructor that returns gives   *)
(* what it holds to its object, which had nothing (CallOwns), and a move empties *)
(* the object it takes from.  So no two objects own the same memory (ObjectsOwn),*)
(* and what is given back has no other owner.  Nothing queued uses it either:    *)
(* the caller waits before an object lets go, and the work of a constructor,     *)
(* which nobody else can see, is all on the one stream that its handler waits    *)
(* for (OwnWork).                                                                *)

CONSTANTS Images, Object, Stream, Threads, Bases, Foreign, MetadataBytes, BucketBytes,
          Alignment, MaxQueries, MaxFailures,
          ByteBits, SerialCookieNoRun, SerialCookie, NoOffsetThreshold, BinarySearchThreshold
VARIABLES image, object, allocations, queue, making, found, queries, failures
RB == INSTANCE RoaringBitmap WITH memory <- allocations, call <- making

\* Its addresses, by the numbers of this module.
Address == 1 .. Cardinality(Object)

\* They are RoaringBitmap's, and do not change.
LEMMA AddressIs ==
    RB!Address = Address /\ RB!Address' = Address /\ \A S : RB!Cardinality(S) = Cardinality(S)
  <1>1. \A S : RB!Cardinality(S) = Cardinality(S) BY DEF RB!Cardinality, Cardinality
  <1> QED BY <1>1 DEF RB!Address, Address

--------------------------------------------------------------------------------
(* The inductive invariant. *)

\* The constructor has memory.
Holding == making.pc \in {"copying", "waiting", "unwinding"}

Owns(o, a) == object[o].exists /\ object[o].allocation = a
Holds(a) == Holding /\ making.handle.allocation = a

IsFunctionOn(f, S) == f = [x \in S |-> f[x]]
Handle(h) ==
    {"exists", "allocation"} \subseteq DOMAIN h /\ h.exists /\ h.allocation \in Address \cup {RB!Null}

Shape ==
    /\ image \in Images
    /\ IsFunctionOn(object, Object) /\ IsFunctionOn(allocations, Address)
    /\ IsFunctionOn(queue, Stream)
    /\ \A o \in Object : object[o] = RB!Absent \/ Handle(object[o])
    /\ \A a \in Address : allocations[a] = RB!Free \/ "allocated" \in DOMAIN allocations[a]
    /\ \A s \in Stream : queue[s] \in Seq(Range(queue[s]))

CallShape ==
    /\ making.pc \in {"parsed", "rejected", "copying", "waiting", "unwinding"} =>
         /\ making.object \in Object /\ ~object[making.object].exists
         /\ making.stream \in Stream
    /\ Holding =>
         /\ {"pc", "object", "stream", "handle"} \subseteq DOMAIN making
         /\ Handle(making.handle) /\ making.handle.allocation # RB!Null

\* What is allocated has an owner and nothing else has.
NoneLost ==
    \A a \in Address : allocations[a].allocated <=> Holds(a) \/ \E o \in Object : Owns(o, a)

ObjectsOwn ==
    \A o, p \in Object : \A a \in Address : Owns(o, a) /\ Owns(p, a) => o = p
CallOwns == \A o \in Object : \A a \in Address : ~(Owns(o, a) /\ Holds(a))

\* Work uses memory; a constructor's is used by what it has queued itself.
WorkHasMemory ==
    \A s \in Stream : \A n \in DOMAIN queue[s] :
        /\ queue[s][n].allocation \in Address
        /\ allocations[queue[s][n].allocation].allocated
OwnWork ==
    \A s \in Stream : \A n \in DOMAIN queue[s] :
        Holds(queue[s][n].allocation) => s = making.stream

OwnerInv ==
    Shape /\ CallShape /\ NoneLost /\ ObjectsOwn /\ CallOwns /\ WorkHasMemory /\ OwnWork

--------------------------------------------------------------------------------
(* The steps. *)

LEMMA InitOwns == RB!Init => OwnerInv
  <1> SUFFICES ASSUME RB!Init PROVE OwnerInv OBVIOUS
  <1>1. Shape BY AddressIs DEF RB!Init, Shape, IsFunctionOn, RB!Absent, RB!Free, Range
  <1>2. ~Holding /\ CallShape BY DEF RB!Init, CallShape, Holding, RB!Idle
  <1>3. \A o \in Object : \A a \in Address : ~Owns(o, a) BY DEF RB!Init, Owns, RB!Absent
  <1>4. \A a \in Address : ~allocations[a].allocated BY AddressIs DEF RB!Init, RB!Free
  <1>5. \A s \in Stream : DOMAIN queue[s] = {} BY DEF RB!Init
  <1> QED
    BY <1>1, <1>2, <1>3, <1>4, <1>5
    DEF OwnerInv, NoneLost, ObjectsOwn, CallOwns, WorkHasMemory, OwnWork, Holds

\* A constructor that has no memory yet, or none any more.
LEMMA CallWithoutMemory ==
    ASSUME OwnerInv, ~Holding, ~Holding', CallShape',
           UNCHANGED <<image, object, allocations, queue>>
    PROVE  OwnerInv'
  <1>1. Shape' BY DEF OwnerInv, Shape
  <1>2. NoneLost' BY DEF OwnerInv, NoneLost, Holds, Owns
  <1>3. ObjectsOwn' BY DEF OwnerInv, ObjectsOwn, Owns
  <1>4. CallOwns' /\ OwnWork' BY DEF CallOwns, OwnWork, Holds
  <1>5. WorkHasMemory' BY DEF OwnerInv, WorkHasMemory
  <1> QED BY <1>1, <1>2, <1>3, <1>4, <1>5 DEF OwnerInv

LEMMA ParseOwns ==
    ASSUME OwnerInv, NEW o \in Object, NEW s \in Stream, RB!Parse(o, s)
    PROVE  OwnerInv'
  <1>1. making = RB!Idle /\ ~object[o].exists /\ UNCHANGED <<image, object, allocations, queue>>
    BY DEF RB!Parse
  <1>2. PICK size, parsed :
          making' = [pc |-> IF parsed.valid THEN "parsed" ELSE "rejected",
                   object |-> o, stream |-> s, size |-> size, parsed |-> parsed]
    BY DEF RB!Parse
  <1>3. ~Holding /\ ~Holding' BY <1>1, <1>2 DEF Holding, RB!Idle
  <1>4. CallShape' BY <1>1, <1>2, <1>3 DEF CallShape
  <1> QED BY <1>1, <1>3, <1>4, CallWithoutMemory

LEMMA NoMemoryOwns ==
    ASSUME OwnerInv, RB!Catch \/ RB!AllocationFails
    PROVE  OwnerInv'
  <1>1. ~Holding BY DEF RB!Catch, RB!AllocationFails, Holding
  <1>2. making' = RB!Idle /\ UNCHANGED <<image, object, allocations, queue>>
    BY DEF RB!Catch, RB!AllocationFails
  <1>3. ~Holding' /\ CallShape' BY <1>2 DEF Holding, CallShape, RB!Idle
  <1> QED BY <1>1, <1>2, <1>3, CallWithoutMemory

LEMMA AllocateOwns ==
    ASSUME OwnerInv, RB!Allocate
    PROVE  OwnerInv'
  <1>1. PICK a \in Address, base \in Bases :
          /\ ~allocations[a].allocated
          /\ allocations' =
               [allocations EXCEPT ![a] = [allocated |-> TRUE, base |-> base, pieces |-> {}]]
          /\ LET handle == [RB!Layout(making.parsed) EXCEPT
                              !.allocation = a,
                              !.loadAlignment = RB!AlignmentFlags(making.parsed, base)]
             IN  making' = [pc |-> "copying", object |-> making.object, stream |-> making.stream,
                          handle |-> handle, parsed |-> making.parsed,
                          copies |-> RB!Copies(handle, making.parsed)]
    BY AddressIs DEF RB!Allocate
  <1>2. making.pc = "parsed" /\ UNCHANGED <<image, object, queue>> BY DEF RB!Allocate
  <1>3. ~Holding /\ Holding' BY <1>1, <1>2 DEF Holding
  <1>4. /\ making'.object = making.object /\ making'.stream = making.stream
        /\ {"pc", "object", "stream", "handle"} \subseteq DOMAIN making'
        /\ making'.handle.allocation = a /\ Handle(making'.handle)
    BY <1>1 DEF RB!Layout, Handle
  <1>5. a # RB!Null BY DEF Address, RB!Null
  <1>6. CallShape' BY <1>2, <1>3, <1>4, <1>5 DEF OwnerInv, CallShape
  <1>7. \A b \in Address : /\ allocations'[b].allocated <=> allocations[b].allocated \/ b = a
                           /\ Holds(b)' <=> b = a
                           /\ ~Holds(b)
    BY <1>1, <1>3, <1>4 DEF OwnerInv, Shape, IsFunctionOn, Holds
  <1>8. \A o : \A b : Owns(o, b)' <=> Owns(o, b) BY <1>2 DEF Owns
  <1>9. \A o \in Object : ~Owns(o, a) BY <1>1 DEF OwnerInv, NoneLost
  <1>10. Shape' BY <1>1, <1>2 DEF OwnerInv, Shape, IsFunctionOn
  <1>11. NoneLost' BY <1>7, <1>8 DEF OwnerInv, NoneLost
  <1>12. ObjectsOwn' BY <1>8 DEF OwnerInv, ObjectsOwn
  <1>13. CallOwns' BY <1>7, <1>8, <1>9 DEF CallOwns
  <1>14. WorkHasMemory' BY <1>2, <1>7 DEF OwnerInv, WorkHasMemory
  <1>15. OwnWork' BY <1>1, <1>2, <1>7 DEF OwnerInv, WorkHasMemory, OwnWork
  <1> QED BY <1>6, <1>10, <1>11, <1>12, <1>13, <1>14, <1>15 DEF OwnerInv

\* A sequence is one of its own elements.
LEMMA OwnElements ==
    ASSUME NEW S, NEW q \in Seq(S)
    PROVE  q \in Seq(Range(q)) /\ \A T : S \subseteq T => q \in Seq(T)
  <1>1. Len(q) \in Nat /\ q \in [1..Len(q) -> S] OBVIOUS
  <1>2. DOMAIN q = 1..Len(q) BY <1>1
  <1>3. q \in [1..Len(q) -> Range(q)] BY <1>1, <1>2 DEF Range
  <1>4. q \in Seq(Range(q)) BY <1>1, <1>3
  <1>5. ASSUME NEW T, S \subseteq T PROVE q \in Seq(T)
    <2>1. q \in [1..Len(q) -> T] BY <1>1, <1>5
    <2> QED BY <1>1, <2>1
  <1> QED BY <1>4, <1>5

\* What Append and Tail do to a queue.
LEMMA Appended ==
    ASSUME NEW q, q \in Seq(Range(q)), NEW e
    PROVE  /\ Append(q, e) \in Seq(Range(Append(q, e)))
           /\ \A n \in DOMAIN Append(q, e) :
                Append(q, e)[n] = e \/ (n \in DOMAIN q /\ Append(q, e)[n] = q[n])
  <1>1. q \in Seq(Range(q) \cup {e}) BY OwnElements
  <1>2. Append(q, e) \in Seq(Range(q) \cup {e}) BY <1>1
  <1>3. Append(q, e) \in Seq(Range(Append(q, e))) BY <1>2, OwnElements
  <1>4. \A n \in DOMAIN Append(q, e) :
          Append(q, e)[n] = e \/ (n \in DOMAIN q /\ Append(q, e)[n] = q[n])
    BY <1>1, <1>2
  <1> QED BY <1>3, <1>4

LEMMA Tailed ==
    ASSUME NEW q, q \in Seq(Range(q)), q # << >>
    PROVE  /\ Tail(q) \in Seq(Range(Tail(q)))
           /\ \A n \in DOMAIN Tail(q) : n + 1 \in DOMAIN q /\ Tail(q)[n] = q[n + 1]
           /\ 1 \in DOMAIN q /\ Head(q) = q[1]
  <1>1. PICK S : q \in Seq(S) OBVIOUS
  <1>2. Tail(q) \in Seq(Range(Tail(q)))
    <2>1. Tail(q) \in Seq(S) BY <1>1
    <2> QED BY <2>1, OwnElements
  <1>3. \A n \in DOMAIN Tail(q) : n + 1 \in DOMAIN q /\ Tail(q)[n] = q[n + 1] BY <1>1
  <1>4. 1 \in DOMAIN q /\ Head(q) = q[1] BY <1>1
  <1> QED BY <1>2, <1>3, <1>4

LEMMA SubmitOwns ==
    ASSUME OwnerInv, RB!SubmitCopy
    PROVE  OwnerInv'
  <1> DEFINE item == [kind |-> "copy", allocation |-> making.handle.allocation,
                      piece |-> Head(making.copies)]
             s == making.stream
             a == making.handle.allocation
  <1>1. /\ making.pc = "copying" /\ UNCHANGED <<image, object, allocations>>
        /\ queue' = [queue EXCEPT ![s] = Append(@, item)]
        /\ making' = [making EXCEPT !.copies = Tail(@),
                                !.pc = IF Len(making.copies) = 1 THEN "waiting" ELSE @]
    BY DEF RB!SubmitCopy
  <1>2. Holding /\ s \in Stream /\ a \in Address
    BY <1>1 DEF Holding, OwnerInv, CallShape, Handle
  <1>3. {"pc", "object", "stream", "handle"} \subseteq DOMAIN making
    BY <1>2 DEF OwnerInv, CallShape
  <1>4. /\ making'.object = making.object /\ making'.stream = s /\ making'.handle = making.handle
        /\ DOMAIN making' = DOMAIN making /\ making'.pc \in {"copying", "waiting"}
    BY <1>1, <1>3
  <1>5. Holding' /\ CallShape'
    BY <1>1, <1>2, <1>3, <1>4 DEF OwnerInv, CallShape, Holding, Handle
  <1>6. \A b : (Holds(b)' <=> Holds(b)) /\ \A o : Owns(o, b)' <=> Owns(o, b)
    BY <1>1, <1>2, <1>4, <1>5 DEF Holds, Owns
  <1>7. allocations[a].allocated BY <1>2 DEF OwnerInv, NoneLost, Holds
  <1>8. \A r \in Stream : r # s => queue'[r] = queue[r]
    BY <1>1 DEF OwnerInv, Shape, IsFunctionOn
  <1>9. queue'[s] = Append(queue[s], item) BY <1>1, <1>2 DEF OwnerInv, Shape, IsFunctionOn
  <1>10. queue[s] \in Seq(Range(queue[s])) BY <1>2 DEF OwnerInv, Shape
  <1>11. queue'[s] \in Seq(Range(queue'[s])) BY <1>9, <1>10, Appended
  <1>12. \A n \in DOMAIN queue'[s] :
           queue'[s][n].allocation = a \/ (n \in DOMAIN queue[s] /\ queue'[s][n] = queue[s][n])
    <2> SUFFICES ASSUME NEW n \in DOMAIN queue'[s]
                 PROVE  queue'[s][n].allocation = a
                          \/ (n \in DOMAIN queue[s] /\ queue'[s][n] = queue[s][n])
      OBVIOUS
    <2>1. item.allocation = a OBVIOUS
    <2>2. queue'[s][n] = item \/ (n \in DOMAIN queue[s] /\ queue'[s][n] = queue[s][n])
      <3> HIDE DEF item, s, a
      <3> QED BY <1>9, <1>10, Appended
    <2> QED BY <2>1, <2>2
  <1>13. Shape'
    <2>1. IsFunctionOn(queue', Stream) BY <1>1 DEF OwnerInv, Shape, IsFunctionOn
    <2> QED BY <1>1, <1>8, <1>11, <2>1 DEF OwnerInv, Shape
  <1> HIDE DEF item
  <1>14. NoneLost' BY <1>1, <1>6 DEF OwnerInv, NoneLost
  <1>15. ObjectsOwn' /\ CallOwns' BY <1>6 DEF OwnerInv, ObjectsOwn, CallOwns
  <1>16. WorkHasMemory'
    <2> SUFFICES ASSUME NEW r \in Stream, NEW n \in DOMAIN queue'[r]
                 PROVE  /\ queue'[r][n].allocation \in Address
                        /\ allocations[queue'[r][n].allocation].allocated
      BY <1>1 DEF WorkHasMemory
    <2>1. CASE queue'[r][n].allocation = a BY <1>2, <1>7, <2>1
    <2>2. CASE n \in DOMAIN queue[r] /\ queue'[r][n] = queue[r][n]
      BY <2>2 DEF OwnerInv, WorkHasMemory
    <2> QED BY <1>8, <1>12, <2>1, <2>2
  <1>17. OwnWork' BY <1>4, <1>6, <1>8, <1>12 DEF OwnerInv, OwnWork
  <1> QED BY <1>5, <1>13, <1>14, <1>15, <1>16, <1>17 DEF OwnerInv

LEMMA RuntimeFailsOwns ==
    ASSUME OwnerInv, RB!RuntimeFails
    PROVE  OwnerInv'
  <1>1. /\ making.pc \in {"copying", "waiting"} /\ UNCHANGED <<image, object, allocations, queue>>
        /\ making' = [making EXCEPT !.pc = "unwinding"]
    BY DEF RB!RuntimeFails
  <1>2. Holding BY <1>1 DEF Holding
  <1>3. {"pc", "object", "stream", "handle"} \subseteq DOMAIN making
    BY <1>2 DEF OwnerInv, CallShape
  <1>4. /\ making'.object = making.object /\ making'.stream = making.stream
        /\ making'.handle = making.handle /\ DOMAIN making' = DOMAIN making
        /\ making'.pc = "unwinding"
    BY <1>1, <1>3
  <1>5. Holding' /\ CallShape'
    BY <1>1, <1>2, <1>3, <1>4 DEF OwnerInv, CallShape, Holding, Handle
  <1>6. \A b : (Holds(b)' <=> Holds(b)) /\ \A o : Owns(o, b)' <=> Owns(o, b)
    BY <1>1, <1>2, <1>4, <1>5 DEF Holds, Owns
  <1>7. Shape' /\ NoneLost' /\ WorkHasMemory'
    BY <1>1, <1>6 DEF OwnerInv, Shape, NoneLost, WorkHasMemory
  <1>8. ObjectsOwn' /\ CallOwns' BY <1>6 DEF OwnerInv, ObjectsOwn, CallOwns
  <1>9. OwnWork' BY <1>1, <1>4, <1>6 DEF OwnerInv, OwnWork
  <1> QED BY <1>5, <1>7, <1>8, <1>9 DEF OwnerInv

\* The constructor hands what it holds to its object.
LEMMA ConstructedOwns ==
    ASSUME OwnerInv, RB!Constructed
    PROVE  OwnerInv'
  <1>1. /\ making.pc = "waiting" /\ UNCHANGED <<image, allocations, queue>> /\ making' = RB!Idle
        /\ object' = [object EXCEPT ![making.object] = making.handle]
    BY DEF RB!Constructed
  <1>2. Holding /\ ~Holding' BY <1>1 DEF Holding, RB!Idle
  <1>3. PICK o \in Object, a \in Address :
          /\ o = making.object /\ a = making.handle.allocation
          /\ ~object[o].exists /\ Handle(making.handle)
    BY <1>1, <1>2 DEF OwnerInv, CallShape, Handle
  <1>4. CallShape' BY <1>1, <1>2 DEF CallShape, RB!Idle
  <1>5. Shape' BY <1>1, <1>3 DEF OwnerInv, Shape, IsFunctionOn, Handle
  <1>6. \A p \in Object : object'[p] = IF p = o THEN making.handle ELSE object[p]
    BY <1>1, <1>3 DEF OwnerInv, Shape, IsFunctionOn
  <1>7. object'[o].exists /\ object'[o].allocation = a BY <1>3, <1>6 DEF Handle
  <1>8. \A b \in Address : /\ Owns(o, b)' <=> b = a
                           /\ ~Owns(o, b)
                           /\ Holds(b) <=> b = a
                           /\ ~Holds(b)'
                           /\ \A p \in Object : p # o => (Owns(p, b)' <=> Owns(p, b))
    BY <1>2, <1>3, <1>6, <1>7 DEF Owns, Holds
  <1>9. \A p \in Object : ~Owns(p, a) BY <1>3, <1>8 DEF OwnerInv, CallOwns
  <1>10. NoneLost' BY <1>1, <1>3, <1>8 DEF OwnerInv, NoneLost
  <1>11. ObjectsOwn' BY <1>8, <1>9 DEF OwnerInv, ObjectsOwn
  <1>12. CallOwns' /\ OwnWork' BY <1>2 DEF CallOwns, OwnWork, Holds
  <1>13. WorkHasMemory' BY <1>1 DEF OwnerInv, WorkHasMemory
  <1> QED BY <1>4, <1>5, <1>10, <1>11, <1>12, <1>13 DEF OwnerInv

\* What has no owner left, and no work, is given back.
LEMMA UnwindOwns ==
    ASSUME OwnerInv, RB!Unwind
    PROVE  OwnerInv'
  <1> DEFINE a == making.handle.allocation
  <1>1. /\ making.pc = "unwinding" /\ queue[making.stream] = << >> /\ making' = RB!Idle
        /\ UNCHANGED <<image, object, queue>>
        /\ allocations' = [allocations EXCEPT ![a] = RB!Free]
    BY DEF RB!Unwind
  <1>2. Holding /\ ~Holding' BY <1>1 DEF Holding, RB!Idle
  <1>3. a \in Address /\ Holds(a) BY <1>2 DEF OwnerInv, CallShape, Handle, Holds
  <1>4. CallShape' BY <1>1, <1>2 DEF CallShape, RB!Idle
  <1>5. Shape' BY <1>1, <1>3 DEF OwnerInv, Shape, IsFunctionOn, RB!Free
  <1>6. \A b \in Address : /\ allocations'[b].allocated <=> allocations[b].allocated /\ b # a
                           /\ Holds(b) <=> b = a
                           /\ ~Holds(b)'
                           /\ \A o : Owns(o, b)' <=> Owns(o, b)
    BY <1>1, <1>2, <1>3 DEF OwnerInv, Shape, IsFunctionOn, Holds, Owns, RB!Free
  <1>7. \A o \in Object : ~Owns(o, a) BY <1>3 DEF OwnerInv, CallOwns
  <1>8. \A s \in Stream : \A n \in DOMAIN queue[s] : queue[s][n].allocation # a
    BY <1>1, <1>3 DEF OwnerInv, OwnWork
  <1>9. NoneLost' BY <1>6, <1>7 DEF OwnerInv, NoneLost
  <1>10. ObjectsOwn' BY <1>6 DEF OwnerInv, ObjectsOwn
  <1>11. CallOwns' /\ OwnWork' BY <1>2 DEF CallOwns, OwnWork, Holds
  <1>12. WorkHasMemory' BY <1>1, <1>6, <1>8 DEF OwnerInv, WorkHasMemory
  <1> QED BY <1>4, <1>5, <1>9, <1>10, <1>11, <1>12 DEF OwnerInv

\* What an object owns is given back, when the caller lets go of it.
LEMMA ReleasedMemory ==
    ASSUME OwnerInv, NEW o \in Object, RB!Quiet(o), ~Holding, allocations' = RB!Released(o),
           UNCHANGED queue
    PROVE  /\ IsFunctionOn(allocations', Address)
           /\ \A b \in Address :
                /\ allocations'[b] = RB!Free \/ "allocated" \in DOMAIN allocations'[b]
                /\ allocations'[b].allocated <=> allocations[b].allocated /\ ~Owns(o, b)
           /\ WorkHasMemory'
  <1>1. object[o].exists /\ ~RB!Uses(object[o].allocation) BY DEF RB!Quiet
  <1>2. Handle(object[o]) BY <1>1 DEF OwnerInv, Shape, RB!Absent
  <1>3. CASE object[o].allocation = RB!Null
    <2>1. allocations' = allocations BY <1>3 DEF RB!Released
    <2>2. \A b \in Address : ~Owns(o, b) BY <1>3 DEF Owns, Address, RB!Null
    <2> QED BY <2>1, <2>2 DEF OwnerInv, Shape, WorkHasMemory
  <1>4. CASE object[o].allocation # RB!Null
    <2> DEFINE a == object[o].allocation
    <2>1. a \in Address BY <1>2, <1>4 DEF Handle
    <2>2. allocations' = [allocations EXCEPT ![a] = RB!Free] BY <1>4 DEF RB!Released
    <2>3. \A b \in Address : allocations'[b] = IF b = a THEN RB!Free ELSE allocations[b]
      BY <2>1, <2>2 DEF OwnerInv, Shape, IsFunctionOn
    <2>4. IsFunctionOn(allocations', Address)
      BY <2>1, <2>2 DEF OwnerInv, Shape, IsFunctionOn
    <2>5. ~RB!Free.allocated BY DEF RB!Free
    <2>6. \A b \in Address : Owns(o, b) <=> b = a BY <1>1 DEF Owns
    <2>7. \A s \in Stream : \A n \in DOMAIN queue[s] : queue[s][n].allocation # a
      BY <1>1 DEF RB!Uses
    <2>8. WorkHasMemory' BY <2>3, <2>7 DEF OwnerInv, WorkHasMemory
    <2> HIDE DEF a
    <2> QED BY <2>3, <2>4, <2>5, <2>6, <2>8 DEF OwnerInv, Shape
  <1> QED BY <1>3, <1>4

LEMMA DestroyOwns ==
    ASSUME OwnerInv, NEW o \in Object, RB!Destroy(o)
    PROVE  OwnerInv'
  <1>1. /\ making = RB!Idle /\ RB!Quiet(o) /\ allocations' = RB!Released(o)
        /\ object' = [object EXCEPT ![o] = RB!Absent]
        /\ UNCHANGED <<image, queue, making>>
    BY DEF RB!Destroy
  <1>2. ~Holding /\ ~Holding' BY <1>1 DEF Holding, RB!Idle
  <1>3. CallShape' BY <1>1, <1>2 DEF CallShape, RB!Idle
  <1>4. \A p \in Object : object'[p] = IF p = o THEN RB!Absent ELSE object[p]
    BY <1>1 DEF OwnerInv, Shape, IsFunctionOn
  <1>5. \A p \in Object : \A b : Owns(p, b)' <=> p # o /\ Owns(p, b)
    BY <1>4 DEF Owns, RB!Absent
  <1>6. /\ IsFunctionOn(allocations', Address)
        /\ \A b \in Address :
             /\ allocations'[b] = RB!Free \/ "allocated" \in DOMAIN allocations'[b]
             /\ allocations'[b].allocated <=> allocations[b].allocated /\ ~Owns(o, b)
        /\ WorkHasMemory'
    BY <1>1, <1>2, ReleasedMemory
  <1>7. IsFunctionOn(object', Object) BY <1>1 DEF OwnerInv, Shape, IsFunctionOn
  <1>8. Shape' BY <1>1, <1>4, <1>6, <1>7 DEF OwnerInv, Shape
  <1>9. NoneLost' BY <1>2, <1>5, <1>6 DEF OwnerInv, NoneLost, ObjectsOwn, Holds
  <1>10. ObjectsOwn' BY <1>5 DEF OwnerInv, ObjectsOwn
  <1>11. CallOwns' /\ OwnWork' BY <1>2 DEF CallOwns, OwnWork, Holds
  <1> QED BY <1>3, <1>6, <1>8, <1>9, <1>10, <1>11 DEF OwnerInv

\* The object gets what the other one owned, after its own memory was released
\* (released = what it owned) or when it had none.
LEMMA MovedObjects ==
    ASSUME OwnerInv, NEW o \in Object, NEW other \in Object, o # other,
           object[other].exists, RB!MoveFrom(o, other)
    PROVE  /\ IsFunctionOn(object', Object)
           /\ \A p \in Object : object'[p] = RB!Absent \/ Handle(object'[p])
           /\ \A b \in Address :
                /\ Owns(o, b)' <=> Owns(other, b)
                /\ ~Owns(other, b)'
                /\ \A p \in Object : p \notin {o, other} => (Owns(p, b)' <=> Owns(p, b))
  <1>1. object' = [object EXCEPT ![o] = object[other], ![other] = RB!Empty] BY DEF RB!MoveFrom
  <1>2. \A p \in Object : object'[p] = IF p = other THEN RB!Empty
                                       ELSE IF p = o THEN object[other] ELSE object[p]
    BY <1>1 DEF OwnerInv, Shape, IsFunctionOn
  <1>3. IsFunctionOn(object', Object) BY <1>1 DEF OwnerInv, Shape, IsFunctionOn
  <1>4. Handle(RB!Empty) /\ RB!Empty.allocation = RB!Null BY DEF Handle, RB!Empty
  <1>5. \A b \in Address : b # RB!Null BY DEF Address, RB!Null
  <1> QED BY <1>2, <1>3, <1>4, <1>5 DEF OwnerInv, Shape, Owns

LEMMA MoveConstructOwns ==
    ASSUME OwnerInv, NEW o \in Object, NEW other \in Object, RB!MoveConstruct(o, other)
    PROVE  OwnerInv'
  <1>1. /\ making = RB!Idle /\ ~object[o].exists /\ object[other].exists /\ RB!MoveFrom(o, other)
        /\ UNCHANGED <<image, allocations, queue, making>>
    BY DEF RB!MoveConstruct
  <1>2. o # other BY <1>1
  <1>3. ~Holding /\ ~Holding' BY <1>1 DEF Holding, RB!Idle
  <1>4. CallShape' BY <1>1, <1>3 DEF CallShape, RB!Idle
  <1>5. \A b \in Address : ~Owns(o, b) BY <1>1 DEF Owns
  <1>6. /\ IsFunctionOn(object', Object)
        /\ \A p \in Object : object'[p] = RB!Absent \/ Handle(object'[p])
        /\ \A b \in Address :
             /\ Owns(o, b)' <=> Owns(other, b)
             /\ ~Owns(other, b)'
             /\ \A p \in Object : p \notin {o, other} => (Owns(p, b)' <=> Owns(p, b))
    BY <1>1, <1>2, MovedObjects
  <1>7. Shape' BY <1>1, <1>6 DEF OwnerInv, Shape
  <1>8. NoneLost' BY <1>1, <1>3, <1>5, <1>6 DEF OwnerInv, NoneLost, Holds
  <1>9. ObjectsOwn' BY <1>6 DEF OwnerInv, ObjectsOwn
  <1>10. CallOwns' /\ OwnWork' BY <1>3 DEF CallOwns, OwnWork, Holds
  <1>11. WorkHasMemory' BY <1>1 DEF OwnerInv, WorkHasMemory
  <1> QED BY <1>4, <1>7, <1>8, <1>9, <1>10, <1>11 DEF OwnerInv

LEMMA MoveAssignOwns ==
    ASSUME OwnerInv, NEW o \in Object, NEW other \in Object, RB!MoveAssign(o, other)
    PROVE  OwnerInv'
  <1>1. making = RB!Idle /\ object[other].exists /\ RB!Quiet(o) /\ UNCHANGED <<image, queue, making>>
    BY DEF RB!MoveAssign
  <1>2. ~Holding /\ ~Holding' BY <1>1 DEF Holding, RB!Idle
  <1>3. CallShape' BY <1>1, <1>2 DEF CallShape, RB!Idle
  <1>4. CASE o = other
    <2>1. UNCHANGED <<allocations, object>> BY <1>4 DEF RB!MoveAssign
    <2> QED BY <1>1, <1>2, <1>3, <2>1, CallWithoutMemory
  <1>5. CASE o # other
    <2>1. allocations' = RB!Released(o) /\ RB!MoveFrom(o, other) BY <1>5 DEF RB!MoveAssign
    <2>2. /\ IsFunctionOn(object', Object)
          /\ \A p \in Object : object'[p] = RB!Absent \/ Handle(object'[p])
          /\ \A b \in Address :
               /\ Owns(o, b)' <=> Owns(other, b)
               /\ ~Owns(other, b)'
               /\ \A p \in Object : p \notin {o, other} => (Owns(p, b)' <=> Owns(p, b))
      BY <1>1, <1>5, <2>1, MovedObjects
    <2>3. /\ IsFunctionOn(allocations', Address)
          /\ \A b \in Address :
               /\ allocations'[b] = RB!Free \/ "allocated" \in DOMAIN allocations'[b]
               /\ allocations'[b].allocated <=> allocations[b].allocated /\ ~Owns(o, b)
          /\ WorkHasMemory'
      BY <1>1, <1>2, <2>1, ReleasedMemory
    <2>4. Shape' BY <1>1, <2>2, <2>3 DEF OwnerInv, Shape
    <2>5. NoneLost'
      <3>1. \A b \in Address : (Holds(b) \/ Holds(b)') => FALSE BY <1>2 DEF Holds
      <3>2. \A b \in Address : allocations[b].allocated <=> \E p \in Object : Owns(p, b)
        BY <3>1 DEF OwnerInv, NoneLost
      <3>3. \A b \in Address : allocations'[b].allocated <=> \E p \in Object : Owns(p, b)'
        BY <1>5, <2>2, <2>3, <3>2 DEF OwnerInv, ObjectsOwn
      <3> QED BY <3>1, <3>3 DEF NoneLost
    <2>6. ObjectsOwn' BY <2>2 DEF OwnerInv, ObjectsOwn
    <2>7. CallOwns' /\ OwnWork' BY <1>2 DEF CallOwns, OwnWork, Holds
    <2> QED BY <1>3, <2>3, <2>4, <2>5, <2>6, <2>7 DEF OwnerInv
  <1> QED BY <1>4, <1>5

LEMMA LaunchOwns ==
    ASSUME OwnerInv, making = RB!Idle, NEW s \in Stream, NEW handle,
           handle.allocation \in Address, allocations[handle.allocation].allocated,
           RB!Launch(s, handle)
    PROVE  OwnerInv'
  <1> DEFINE item == [kind |-> "kernel", allocation |-> handle.allocation, handle |-> handle]
  <1>1. /\ queue' = [queue EXCEPT ![s] = Append(@, item)]
        /\ UNCHANGED <<image, object, allocations, making>>
    BY DEF RB!Launch
  <1>2. item.allocation = handle.allocation OBVIOUS
  <1> HIDE DEF item
  <1>3. ~Holding /\ ~Holding' BY <1>1 DEF Holding, RB!Idle
  <1>4. CallShape' BY <1>1, <1>3 DEF CallShape, RB!Idle
  <1>5. \A r \in Stream : queue'[r] = IF r = s THEN Append(queue[s], item) ELSE queue[r]
    BY <1>1 DEF OwnerInv, Shape, IsFunctionOn
  <1>6. \A r \in Stream : queue[r] \in Seq(Range(queue[r])) BY DEF OwnerInv, Shape
  <1>7. /\ queue'[s] \in Seq(Range(queue'[s]))
        /\ \A n \in DOMAIN queue'[s] :
             queue'[s][n] = item \/ (n \in DOMAIN queue[s] /\ queue'[s][n] = queue[s][n])
    <2>1. queue'[s] = Append(queue[s], item) /\ queue[s] \in Seq(Range(queue[s]))
      BY <1>5, <1>6
    <2>2. queue'[s] \in Seq(Range(queue'[s])) BY <2>1, Appended
    <2> QED BY <2>1, <2>2, Appended
  <1>8. IsFunctionOn(queue', Stream) BY <1>1 DEF OwnerInv, Shape, IsFunctionOn
  <1>9. Shape' BY <1>1, <1>5, <1>7, <1>8 DEF OwnerInv, Shape
  <1>10. NoneLost' BY <1>1, <1>3 DEF OwnerInv, NoneLost, Holds, Owns
  <1>11. ObjectsOwn' BY <1>1 DEF OwnerInv, ObjectsOwn, Owns
  <1>12. CallOwns' /\ OwnWork' BY <1>3 DEF CallOwns, OwnWork, Holds
  <1>13. WorkHasMemory'
    <2> SUFFICES ASSUME NEW r \in Stream, NEW n \in DOMAIN queue'[r]
                 PROVE  /\ queue'[r][n].allocation \in Address
                        /\ allocations[queue'[r][n].allocation].allocated
      BY <1>1 DEF WorkHasMemory
    <2>1. CASE queue'[r][n] = item BY <1>2, <2>1
    <2>2. CASE n \in DOMAIN queue[r] /\ queue'[r][n] = queue[r][n]
      BY <2>2 DEF OwnerInv, WorkHasMemory
    <2> QED BY <1>5, <1>7, <2>1, <2>2
  <1> QED BY <1>4, <1>9, <1>10, <1>11, <1>12, <1>13 DEF OwnerInv

LEMMA QueryOwns ==
    ASSUME OwnerInv, NEW o \in Object, NEW s \in Stream,
           RB!ContainsAsync(o, s) \/ RB!ContainsByRef(o, s)
    PROVE  OwnerInv'
  <1>1. making = RB!Idle /\ object[o].exists /\ object[o].allocation # RB!Null
    BY DEF RB!ContainsAsync, RB!ContainsByRef
  <1>2. Handle(object[o]) BY <1>1 DEF OwnerInv, Shape, RB!Absent
  <1>3. object[o].allocation \in Address BY <1>1, <1>2 DEF Handle
  <1>4. allocations[object[o].allocation].allocated BY <1>1, <1>3 DEF OwnerInv, NoneLost, Owns
  <1>5. CASE RB!ContainsAsync(o, s)
    BY <1>1, <1>3, <1>4, <1>5, LaunchOwns DEF RB!ContainsAsync
  <1>6. CASE RB!ContainsByRef(o, s)
    <2>1. RB!Ref(o).allocation = object[o].allocation BY <1>2 DEF RB!Ref, Handle
    <2> QED BY <1>1, <1>3, <1>4, <1>6, <2>1, LaunchOwns DEF RB!ContainsByRef
  <1> QED BY <1>5, <1>6

\* Work that is done writes memory, and frees none.
LEMMA RetireOwns ==
    ASSUME OwnerInv, NEW s \in Stream, RB!Retire(s)
    PROVE  OwnerInv'
  <1>1. /\ queue[s] # << >> /\ queue' = [queue EXCEPT ![s] = Tail(@)]
        /\ UNCHANGED <<image, object, making>>
        /\ \/ allocations' = allocations
           \/ allocations' = [allocations EXCEPT ![Head(queue[s]).allocation] =
                            RB!Write(@, Head(queue[s]).piece)]
    BY DEF RB!Retire
  <1>2. /\ IsFunctionOn(allocations', Address)
        /\ \A b \in Address : /\ allocations'[b] = RB!Free \/ "allocated" \in DOMAIN allocations'[b]
                              /\ allocations'[b].allocated <=> allocations[b].allocated
    <2>1. CASE allocations' = allocations BY <2>1 DEF OwnerInv, Shape
    <2>2. CASE allocations' # allocations
      <3> DEFINE a == Head(queue[s]).allocation
                 written == RB!Write(allocations[a], Head(queue[s]).piece)
      <3>1. allocations' = [allocations EXCEPT ![a] = written] BY <1>1, <2>2
      <3>2. \A b \in Address : allocations'[b] = IF b = a THEN written ELSE allocations[b]
        BY <3>1 DEF OwnerInv, Shape, IsFunctionOn
      <3>3. DOMAIN written = DOMAIN allocations[a] BY DEF RB!Write
      <3>4. "allocated" \in DOMAIN allocations[a] => written.allocated = allocations[a].allocated
        BY DEF RB!Write
      <3>5. IsFunctionOn(allocations', Address) BY <3>1 DEF OwnerInv, Shape, IsFunctionOn
      <3>6. "allocated" \in DOMAIN RB!Free BY DEF RB!Free
      <3> HIDE DEF written, a
      <3> QED BY <3>2, <3>3, <3>4, <3>5, <3>6 DEF OwnerInv, Shape
    <2> QED BY <2>1, <2>2
  <1>3. \A r \in Stream : queue'[r] = IF r = s THEN Tail(queue[s]) ELSE queue[r]
    BY <1>1 DEF OwnerInv, Shape, IsFunctionOn
  <1>4. /\ queue'[s] \in Seq(Range(queue'[s]))
        /\ \A n \in DOMAIN queue'[s] :
             n + 1 \in DOMAIN queue[s] /\ queue'[s][n] = queue[s][n + 1]
    <2> DEFINE q == queue[s]
    <2>1. queue'[s] = Tail(q) /\ q \in Seq(Range(q)) /\ q # << >>
      BY <1>1, <1>3 DEF OwnerInv, Shape
    <2>2. /\ Tail(q) \in Seq(Range(Tail(q)))
          /\ \A n \in DOMAIN Tail(q) : n + 1 \in DOMAIN q /\ Tail(q)[n] = q[n + 1]
      <3> HIDE DEF q
      <3> QED BY <2>1, Tailed
    <2> QED BY <2>1, <2>2
  <1>5. IsFunctionOn(queue', Stream) BY <1>1 DEF OwnerInv, Shape, IsFunctionOn
  <1>6. Shape' BY <1>1, <1>2, <1>3, <1>4, <1>5 DEF OwnerInv, Shape
  <1>7. CallShape' BY <1>1 DEF OwnerInv, CallShape, Holding, Handle
  <1>8. \A b : (Holds(b)' <=> Holds(b)) /\ \A o : Owns(o, b)' <=> Owns(o, b)
    BY <1>1 DEF Holds, Holding, Owns
  <1>9. NoneLost' BY <1>2, <1>8 DEF OwnerInv, NoneLost
  <1>10. ObjectsOwn' /\ CallOwns' BY <1>8 DEF OwnerInv, ObjectsOwn, CallOwns
  <1>11. \A r \in Stream : \A n \in DOMAIN queue'[r] :
            \E k \in DOMAIN queue[r] : queue'[r][n] = queue[r][k]
    BY <1>3, <1>4
  <1>12. WorkHasMemory' BY <1>2, <1>11 DEF OwnerInv, WorkHasMemory
  <1>13. OwnWork' BY <1>1, <1>8, <1>11 DEF OwnerInv, OwnWork
  <1> QED BY <1>6, <1>7, <1>9, <1>10, <1>12, <1>13 DEF OwnerInv

LEMMA NothingMoves ==
    ASSUME OwnerInv, UNCHANGED <<image, object, allocations, queue, making>>
    PROVE  OwnerInv'
  BY DEF OwnerInv, Shape, CallShape, NoneLost, ObjectsOwn, CallOwns, WorkHasMemory, OwnWork,
         Holding, Holds, Owns, Handle

LEMMA NextOwns ==
    ASSUME RB!ImagesOK, OwnerInv, [RB!Next]_(RB!vars)
    PROVE  OwnerInv'
  <1>1. image.objects \subseteq Object /\ image.streams \subseteq Stream
    BY DEF RB!ImagesOK, OwnerInv, Shape
  <1>2. CASE UNCHANGED RB!vars BY <1>2, NothingMoves DEF RB!vars
  <1>3. CASE \E o \in image.objects, s \in image.streams :
                RB!Parse(o, s) \/ RB!ContainsAsync(o, s) \/ RB!ContainsByRef(o, s)
    BY <1>1, <1>3, ParseOwns, QueryOwns
  <1>4. CASE RB!Catch \/ RB!Allocate \/ RB!AllocationFails \/ RB!SubmitCopy \/ RB!RuntimeFails
    BY <1>4, NoMemoryOwns, AllocateOwns, SubmitOwns, RuntimeFailsOwns
  <1>5. CASE RB!Constructed \/ RB!Unwind BY <1>5, ConstructedOwns, UnwindOwns
  <1>6. CASE \E o, other \in image.objects : RB!MoveConstruct(o, other) \/ RB!MoveAssign(o, other)
    BY <1>1, <1>6, MoveConstructOwns, MoveAssignOwns
  <1>7. CASE \E o \in image.objects : RB!Destroy(o) BY <1>1, <1>7, DestroyOwns
  <1>8. CASE \E s \in Stream : RB!Retire(s) BY <1>8, RetireOwns
  <1>9. CASE \E s \in Stream : \E t \in RB!Thread : RB!ContainsSimt(s, t)
    BY <1>9, NothingMoves DEF RB!ContainsSimt
  <1> QED BY <1>2, <1>3, <1>4, <1>5, <1>6, <1>7, <1>8, <1>9 DEF RB!Next

--------------------------------------------------------------------------------
(* The theorem. *)

LEMMA OwnersAreOne ==
    ASSUME OwnerInv
    PROVE  RB!OneOwner
  <1> DEFINE inProgress == {a \in Address : /\ making.pc \in {"copying", "waiting", "unwinding"}
                                            /\ making.handle.allocation = a}
             owners(a) == {o \in Object : object[o].exists /\ object[o].allocation = a}
  <1>1. \A a \in Address : a \in inProgress <=> Holds(a) BY DEF Holds, Holding
  <1>2. \A a \in Address : \A o : o \in owners(a) <=> o \in Object /\ Owns(o, a) BY DEF Owns
  <1> HIDE DEF inProgress, owners
  <1>3. ASSUME NEW a \in Address, ~allocations[a].allocated
        PROVE  owners(a) = {} /\ a \notin inProgress
    BY <1>1, <1>2, <1>3 DEF OwnerInv, NoneLost
  <1>4. ASSUME NEW a \in Address, allocations[a].allocated
        PROVE  Cardinality(owners(a)) + Cardinality(inProgress \cap {a}) = 1
    <2>1. CASE Holds(a)
      <3>1. owners(a) = {} BY <1>2, <2>1 DEF OwnerInv, CallOwns
      <3>2. inProgress \cap {a} = {a} BY <1>1, <2>1
      <3>3. Cardinality(owners(a)) = 0 /\ Cardinality(inProgress \cap {a}) = 1
        BY <3>1, <3>2, FS_EmptySet, FS_Singleton
      <3> QED BY <3>3
    <2>2. CASE ~Holds(a)
      <3>1. inProgress \cap {a} = {} BY <1>1, <2>2
      <3>2. PICK o \in Object : Owns(o, a) BY <1>4, <2>2 DEF OwnerInv, NoneLost
      <3>3. owners(a) = {o} BY <1>2, <3>2 DEF OwnerInv, ObjectsOwn
      <3>4. Cardinality(owners(a)) = 1 /\ Cardinality(inProgress \cap {a}) = 0
        BY <3>1, <3>3, FS_EmptySet, FS_Singleton
      <3> QED BY <3>4
    <2> QED BY <2>1, <2>2
  <1>5. \A s \in Stream : \A n \in DOMAIN queue[s] : allocations[queue[s][n].allocation].allocated
    BY DEF OwnerInv, WorkHasMemory
  <1>6. \A a \in Address :
          IF allocations[a].allocated
          THEN Cardinality(owners(a)) + Cardinality(inProgress \cap {a}) = 1
          ELSE owners(a) = {} /\ a \notin inProgress
    BY <1>3, <1>4
  <1> QED BY <1>5, <1>6, AddressIs DEF RB!OneOwner, owners, inProgress

\* The invariant holds throughout.
THEOREM OwnersInvariant == RB!ImagesOK => (RB!Spec => []OwnerInv)
  <1> SUFFICES ASSUME RB!ImagesOK PROVE RB!Spec => []OwnerInv OBVIOUS
  <1>1. RB!Init => OwnerInv BY InitOwns
  <1>2. OwnerInv /\ [RB!Next]_(RB!vars) => OwnerInv' BY NextOwns
  <1> QED BY <1>1, <1>2, PTL DEF RB!Spec

\* Whatever is moved where, and wherever a constructor fails: memory that is
\* allocated has exactly one owner, and nothing that is queued works in memory
\* that was given back (~RoaringBitmap, MoveFrom, Initialize's handler).
THEOREM MemoryHasOneOwner == RB!ImagesOK => (RB!Spec => []RB!OneOwner)
  <1> SUFFICES ASSUME RB!ImagesOK PROVE RB!Spec => []RB!OneOwner OBVIOUS
  <1> QED BY OwnersInvariant, OwnersAreOne, PTL
================================================================================
