---------------------------- MODULE OpenAddressing ----------------------------
(***************************************************************************)
(* The concurrent open-addressing table behind StaticMap and StaticSet:    *)
(* the device operations of detail/open_addressing/                        *)
(* open_addressing_ref_impl.h, the grid-stride kernels that call them      *)
(* (detail/open_addressing/kernels.h) and the host calls that launch the   *)
(* kernels and read their counters (open_addressing_impl.h).               *)
(*                                                                         *)
(* A host call launches one kernel on a stream; kernels of one stream run  *)
(* one after the other, kernels of different streams overlap.  A kernel's  *)
(* threads share the elements of the batch in grid-stride order and probe  *)
(* the table with no lock: every global load, store and compare-and-swap   *)
(* is a step of its own.                                                   *)
(*                                                                         *)
(* Path[k] is the sequence of slots the probing iterator offers key k      *)
(* until it is back at its start (module Probing shows that every slot     *)
(* comes up exactly once).                                                 *)
(***************************************************************************)
EXTENDS Integers, Sequences

CONSTANTS
    Key,            \* keys in the batches of the callers
    Val,            \* payloads in the batches (for "set": unused)
    EmptyKey,       \* key of emptySlotValue_
    EmptyVal,       \* payload of emptySlotValue_, and of the tombstone
    ErasedKey,      \* key of erasedSlotValue; EmptyKey when none is configured
    N,              \* storageRef_.Capacity()
    Path,           \* Path[k][p]: the p-th slot key k probes
    Layout,         \* "set", "packed" (pair of at most 8 bytes), "wide" (more)
    Stream,         \* streams
    Thread,         \* threads a kernel may run on
    StreamOf,       \* the stream whose kernel a thread belongs to
    Rank,           \* globalThreadIdx + 1
    TotalThreads,   \* totalThreadNum
    Calls,          \* the operations callers use
    MayOverlap,     \* pairs of operations callers let run at the same time
    Synchronous,    \* the operations called in their synchronous form
    MaxBatch        \* longest batch

Slot == 1..N
SlotKeys == Key \cup {EmptyKey, ErasedKey}
HasTombstone == ErasedKey # EmptyKey
HasPayload == Layout # "set"
Payload == Val \cup {EmptyVal}

\* What a caller passes per element: a key, for maps a payload (for sets the
\* key stands for itself), and whether the stencil predicate accepts it.
Element ==
    {e \in [key : Key, val : Val \cup Key, pass : BOOLEAN] :
        IF HasPayload THEN e.val \in Val ELSE e.val = e.key}

InsertCalls == {"insert", "upsert", "insertfind"}
Ops == InsertCalls \cup {"assign", "erase", "find", "count", "foreach", "clear"}
StencilCalls == {"insert", "assign", "find"}
CountedCalls == {"insert", "erase", "count"}

ASSUME TableAssumption ==
    /\ N \in Nat \ {0}
    /\ Path \in [Key -> [Slot -> Slot]]
    /\ \A k \in Key : \A i \in Slot : \E p \in Slot : Path[k][p] = i
    /\ \A k \in Key : \A p, q \in Slot : Path[k][p] = Path[k][q] => p = q
    /\ Layout \in {"set", "packed", "wide"}
ASSUME ThreadAssumption ==
    /\ StreamOf \in [Thread -> Stream]
    /\ TotalThreads \in Nat \ {0}
    /\ Rank \in [Thread -> 1..TotalThreads]
    /\ \A s \in Stream : \A r \in 1..TotalThreads :
          \E t \in Thread : StreamOf[t] = s /\ Rank[t] = r
    /\ \A t, u \in Thread : StreamOf[t] = StreamOf[u] /\ Rank[t] = Rank[u] => t = u
ASSUME CallAssumption ==
    /\ Calls \subseteq Ops
    /\ HasPayload \/ Calls \cap {"upsert", "assign"} = {}    \* StaticSet has neither
    /\ MayOverlap \subseteq Ops \X Ops
    /\ Synchronous \subseteq CountedCalls \cup {"upsert"}
    /\ "count" \in Calls => "count" \in Synchronous         \* Count has no other form
    /\ MaxBatch \in Nat

VARIABLES
    first,      \* first[i]: key word of slot i
    second,     \* second[i]: payload of slot i (same word as the key if "packed")
    op,         \* op[s]: the kernel running on stream s, or "none"
    batch,      \* batch[s]: its elements
    counter,    \* argStorage_, of the table and not of a stream
    ioaCounter, \* ioaCounterStorage_: its low and its high word
    answer,     \* answer[s]: the counters as the host has loaded them
    out,        \* out[s]: the output arrays of the call, the callback's effect
    pc,         \* pc[t]: what thread t does next
    elt,        \* elt[t]: loop index i of the kernel, from 1
    pos,        \* pos[t]: how far along Path the probe is
    seen,       \* seen[t]: payload read together with a matching key
    localFailed, localAssigned

tableVars == <<first, second>>
callVars == <<op, batch, counter, ioaCounter, answer, out>>
threadVars == <<pc, elt, pos, seen, localFailed, localAssigned>>
vars == <<first, second, op, batch, counter, ioaCounter, answer, out,
          pc, elt, pos, seen, localFailed, localAssigned>>

\* An output array entry: what was found and whether (for InsertAndFind:
\* whether inserted); the caller's memory is "unset" until a thread writes it.
Result == [val : Payload \cup SlotKeys, flag : {"yes", "no", "unset"}]
Nothing == IF HasPayload THEN EmptyVal ELSE EmptyKey
Unset == [val |-> Nothing, flag |-> "unset"]

\* What a synchronous call returns.
Counts == [count : Nat, assigned : Nat]
Zero == [count |-> 0, assigned |-> 0]

TypeOK ==
    /\ first \in [Slot -> SlotKeys]
    /\ second \in [Slot -> Payload]
    /\ op \in [Stream -> Calls \cup {"none"}]
    /\ batch \in [Stream -> Seq(Element)]
    /\ counter \in Nat
    /\ ioaCounter \in Counts
    /\ answer \in [Stream -> Counts]
    /\ out \in [Stream -> Seq(Result)]
    /\ \A s \in Stream : Len(out[s]) = Len(batch[s])
    /\ pc \in [Thread -> {"exit", "fetch", "probe", "cas", "store", "assign",
                          "erase", "wipe", "wait", "load"}]
    /\ elt \in [Thread -> Nat \ {0}]
    /\ pos \in [Thread -> Slot]
    /\ seen \in [Thread -> Payload]
    /\ localFailed \in [Thread -> Nat]
    /\ localAssigned \in [Thread -> Nat]

Init ==
    /\ first = [i \in Slot |-> EmptyKey]
    /\ second = [i \in Slot |-> EmptyVal]
    /\ op = [s \in Stream |-> "none"]
    /\ batch = [s \in Stream |-> <<>>]
    /\ counter = 0
    /\ ioaCounter = Zero
    /\ answer = [s \in Stream |-> Zero]
    /\ out = [s \in Stream |-> <<>>]
    /\ pc = [t \in Thread |-> "exit"]
    /\ elt = [t \in Thread |-> 1]
    /\ pos = [t \in Thread |-> 1]
    /\ seen = [t \in Thread |-> EmptyVal]
    /\ localFailed = [t \in Thread |-> 0]
    /\ localAssigned = [t \in Thread |-> 0]

--------------------------------------------------------------------------------
(* What a thread works on. *)

Op(t) == op[StreamOf[t]]
Elem(t) == batch[StreamOf[t]][elt[t]]
ThisKey(t) == Elem(t).key
ThisSlot(t) == Path[ThisKey(t)][pos[t]]
Content(i) == IF HasPayload THEN second[i] ELSE first[i]

\* The iteration limit of the kernel's loop: valueNum, or tableSize for Clear.
Limit(s) == IF op[s] = "clear" THEN N ELSE Len(batch[s])

\* The element is done: back to the loop head with i = i + totalThreadNum.
NextElement(t) ==
    /\ pc' = [pc EXCEPT ![t] = "fetch"]
    /\ elt' = [elt EXCEPT ![t] = @ + TotalThreads]
    /\ pos' = [pos EXCEPT ![t] = 1]
    /\ seen' = [seen EXCEPT ![t] = EmptyVal]

Goto(t, label) ==
    /\ pc' = [pc EXCEPT ![t] = label]
    /\ UNCHANGED <<elt, pos, localFailed, localAssigned>>

\* Only the kernels of synchronous calls count.
Counting(t) == Op(t) \in Synchronous

AddFailed(t) ==
    /\ localFailed' = IF Counting(t) THEN [localFailed EXCEPT ![t] = @ + 1] ELSE localFailed
    /\ UNCHANGED localAssigned

NoCount == UNCHANGED <<localFailed, localAssigned>>

Answer(t, v, f) ==
    out' = [out EXCEPT ![StreamOf[t]][elt[t]] = [val |-> v, flag |-> f]]

--------------------------------------------------------------------------------
(* The host side: a call launches a kernel; the stream becomes free again  *)
(* when the kernel has ended (aclrtSynchronizeStream of the synchronous    *)
(* calls, stream order for the asynchronous ones).                         *)

Compatible(s, o) ==
    \A r \in Stream \ {s} : op[r] # "none" => <<op[r], o>> \in MayOverlap

Batches(o) ==
    IF o = "clear" THEN {<<>>}
    ELSE UNION {[1..n -> {e \in Element : o \notin StencilCalls => e.pass}] : n \in 1..MaxBatch}

\* A call with elements starts the kernel, a synchronous one resets the
\* table's counter first; calls with n = 0 or null arguments return before they
\* touch anything.
Launch(s, o, b) ==
    /\ op[s] = "none" /\ batch[s] = <<>>
    /\ Compatible(s, o)
    /\ op' = [op EXCEPT ![s] = o]
    /\ batch' = [batch EXCEPT ![s] = b]
    /\ counter' = IF o \in Synchronous \cap CountedCalls THEN 0 ELSE counter
    /\ ioaCounter' = IF o \in Synchronous \cap {"upsert"} THEN Zero ELSE ioaCounter
    /\ UNCHANGED answer
    /\ out' = [out EXCEPT ![s] = [i \in 1..Len(b) |-> Unset]]
    /\ pc' = [t \in Thread |-> IF StreamOf[t] = s THEN "fetch" ELSE pc[t]]
    /\ elt' = [t \in Thread |-> IF StreamOf[t] = s THEN Rank[t] ELSE elt[t]]
    /\ localFailed' = [t \in Thread |-> IF StreamOf[t] = s THEN 0 ELSE localFailed[t]]
    /\ localAssigned' = [t \in Thread |-> IF StreamOf[t] = s THEN 0 ELSE localAssigned[t]]
    /\ UNCHANGED <<first, second, pos, seen>>

\* (Variant with a bug: the counter is stored, not added to.)
LeaveOverwriting(t) ==
    /\ pc[t] = "fetch"
    /\ elt[t] > Limit(StreamOf[t])
    /\ pc' = [pc EXCEPT ![t] = "exit"]
    /\ elt' = [elt EXCEPT ![t] = 1]
    /\ localFailed' = [localFailed EXCEPT ![t] = 0]
    /\ localAssigned' = [localAssigned EXCEPT ![t] = 0]
    /\ counter' = IF Op(t) = "upsert" THEN counter ELSE localFailed[t]
    /\ ioaCounter' = IF Op(t) # "upsert" THEN ioaCounter
                     ELSE [count |-> localFailed[t], assigned |-> localAssigned[t]]
    /\ UNCHANGED <<first, second, op, batch, answer, out, pos, seen>>

\* The loop of a thread is over: one atomic addition per local counter, and
\* its registers are gone.
Leave(t) ==
    /\ pc[t] = "fetch"
    /\ elt[t] > Limit(StreamOf[t])
    /\ pc' = [pc EXCEPT ![t] = "exit"]
    /\ elt' = [elt EXCEPT ![t] = 1]
    /\ localFailed' = [localFailed EXCEPT ![t] = 0]
    /\ localAssigned' = [localAssigned EXCEPT ![t] = 0]
    /\ counter' = IF Op(t) = "upsert" THEN counter ELSE counter + localFailed[t]
    /\ ioaCounter' = IF Op(t) # "upsert" THEN ioaCounter
                     ELSE [count |-> ioaCounter.count + localFailed[t],
                           assigned |-> ioaCounter.assigned + localAssigned[t]]
    /\ UNCHANGED <<first, second, op, batch, answer, out, pos, seen>>

\* A synchronous call loads its counter to the host (LoadToHost).
Complete(s) ==
    /\ op[s] # "none"
    /\ \A t \in Thread : StreamOf[t] = s => pc[t] = "exit"
    /\ op' = [op EXCEPT ![s] = "none"]
    /\ answer' = IF op[s] \notin Synchronous THEN answer
                 ELSE [answer EXCEPT ![s] =
                         IF op[s] = "upsert" THEN ioaCounter
                                             ELSE [count |-> counter, assigned |-> 0]]
    /\ UNCHANGED <<first, second, batch, counter, ioaCounter, out>>
    /\ UNCHANGED threadVars

\* The caller has its answer and lets go of it and of its arrays.
TakeAnswer(s) ==
    /\ op[s] = "none" /\ batch[s] # <<>>
    /\ batch' = [batch EXCEPT ![s] = <<>>]
    /\ out' = [out EXCEPT ![s] = <<>>]
    /\ answer' = [answer EXCEPT ![s] = Zero]
    /\ UNCHANGED <<first, second, op, counter, ioaCounter>>
    /\ UNCHANGED threadVars

\* ClearSimt: every iteration empties one slot (CopyEmptyValue).
ClearSlot(t) ==
    /\ pc[t] = "fetch" /\ Op(t) = "clear" /\ elt[t] <= N
    /\ first' = [first EXCEPT ![elt[t]] = EmptyKey]
    /\ second' = [second EXCEPT ![elt[t]] = EmptyVal]
    /\ NextElement(t) /\ NoCount
    /\ UNCHANGED callVars

\* The loop body's beginning: the stencil may reject the element, for which a
\* lookup still writes its "nothing" answer.
Fetch(t) ==
    /\ pc[t] = "fetch" /\ Op(t) # "clear" /\ elt[t] <= Limit(StreamOf[t])
    /\ IF Elem(t).pass
       THEN /\ Goto(t, "probe")
            /\ UNCHANGED <<out, seen>>
       ELSE /\ NextElement(t) /\ NoCount
            /\ IF Op(t) = "find" THEN Answer(t, Nothing, "no") ELSE UNCHANGED out
    /\ UNCHANGED <<first, second, op, batch, counter, ioaCounter, answer>>

--------------------------------------------------------------------------------
(* Probing.  A probe step is the load of one slot and what follows from it. *)

\* No slot will serve the key: the table is exhausted, or an empty slot ended
\* the search.  Insert, InsertOrAssign and Erase count a failure, Find and
\* InsertAndFind answer "nothing", the others do nothing.
GiveUp(t) ==
    /\ NextElement(t)
    /\ IF Op(t) \in {"insert", "upsert", "erase"} THEN AddFailed(t) ELSE NoCount
    /\ IF Op(t) \in {"find", "insertfind"} THEN Answer(t, Nothing, "no") ELSE UNCHANGED out
    /\ UNCHANGED counter

\* (Variant with a bug: a lost slot is tried again, the iterator stays.)
MoveOnNowhere(t) ==
    /\ pc' = [pc EXCEPT ![t] = "probe"]
    /\ UNCHANGED <<pos, elt, seen, localFailed, localAssigned, out, counter>>

MoveOn(t) ==
    /\ pos' = [pos EXCEPT ![t] = @ + 1]
    /\ pc' = [pc EXCEPT ![t] = "probe"]
    /\ UNCHANGED <<elt, seen, localFailed, localAssigned, out, counter>>

\* (Variants with a bug: one slot too many; back at the start, but not noticed.)
KeepLookingPastTheEnd(t) == IF pos[t] <= N THEN MoveOn(t) ELSE GiveUp(t)
KeepLookingForever(t) ==
    /\ pos' = [pos EXCEPT ![t] = IF @ < N THEN @ + 1 ELSE 1]
    /\ pc' = [pc EXCEPT ![t] = "probe"]
    /\ UNCHANGED <<elt, seen, localFailed, localAssigned, out, counter>>

KeepLooking(t) == IF pos[t] < N THEN MoveOn(t) ELSE GiveUp(t)

\* (Variant with a bug: the payload of another's insertion is not waited for.)
AlreadyThereAtOnce(t) ==
    \/ Op(t) = "insert" /\ NextElement(t) /\ AddFailed(t) /\ UNCHANGED <<out, counter>>
    \/ Op(t) = "upsert" /\ Goto(t, "assign") /\ UNCHANGED <<out, counter, seen>>
    \/ Op(t) = "insertfind" /\ Goto(t, "load") /\ UNCHANGED <<out, counter, seen>>

\* The slot already holds the key an insertion brings.
AlreadyThere(t) ==
    \/ /\ Op(t) = "insert"
       /\ NextElement(t) /\ AddFailed(t)
       /\ UNCHANGED <<out, counter>>
    \/ /\ Op(t) = "upsert"
       /\ Goto(t, "assign")
       /\ UNCHANGED <<out, counter, seen>>
    \/ /\ Op(t) = "insertfind"
       /\ Goto(t, IF HasPayload THEN "wait" ELSE "load")
       /\ UNCHANGED <<out, counter, seen>>

\* InsertVerdict and InsertAndFind: the slot is available, or holds the key,
\* or is another key's; a tombstone is another key's.
ProbeInsert(t) ==
    /\ pc[t] = "probe" /\ Op(t) \in InsertCalls
    /\ LET f == first[ThisSlot(t)] IN
       \/ /\ f = EmptyKey
          /\ Goto(t, "cas")
          /\ UNCHANGED <<out, counter, seen>>
       \/ f # EmptyKey /\ f = ThisKey(t) /\ AlreadyThere(t)
       \/ f \notin {EmptyKey, ThisKey(t)} /\ KeepLooking(t)
    /\ UNCHANGED <<first, second, op, batch, ioaCounter, answer>>

\* (Variant with a bug: tombstones count as free, before the search is over.)
FreeAtTombstone(i) ==
    first[i] \in {EmptyKey, ErasedKey} /\ (Layout = "wide" \/ second[i] = EmptyVal)

\* The compare-and-swap of AttemptInsert / AttemptInsertOrAssign expects
\* emptySlotValue_: the whole slot if it fits a word, else only its key.
FreeAt(i) == first[i] = EmptyKey /\ (Layout = "wide" \/ second[i] = EmptyVal)

TakeSlot(t) ==
    /\ FreeAt(ThisSlot(t))
    /\ first' = [first EXCEPT ![ThisSlot(t)] = ThisKey(t)]
    /\ \/ /\ Layout = "wide"
          /\ Goto(t, "store")
          /\ UNCHANGED <<second, out, seen>>
       \/ /\ Layout # "wide"
          /\ second' = [second EXCEPT ![ThisSlot(t)] = IF HasPayload THEN Elem(t).val ELSE @]
          /\ NextElement(t) /\ NoCount
          /\ IF Op(t) = "insertfind" THEN Answer(t, Elem(t).val, "yes") ELSE UNCHANGED out
    /\ UNCHANGED counter

\* (Variant with a bug: who won the slot is not looked at.)
CasInsertBlind(t) ==
    /\ pc[t] = "cas"
    /\ \/ TakeSlot(t)
       \/ ~FreeAt(ThisSlot(t)) /\ KeepLooking(t) /\ UNCHANGED tableVars
    /\ UNCHANGED <<op, batch, ioaCounter, answer>>

CasInsert(t) ==
    /\ pc[t] = "cas"
    /\ \/ TakeSlot(t)
       \/ /\ ~FreeAt(ThisSlot(t))
          /\ IF first[ThisSlot(t)] = ThisKey(t) THEN AlreadyThere(t) ELSE KeepLooking(t)
          /\ UNCHANGED tableVars
    /\ UNCHANGED <<op, batch, ioaCounter, answer>>

\* CasDependentWrite: the key word is won, the payload follows as a plain store.
StorePayload(t) ==
    /\ pc[t] = "store"
    /\ second' = [second EXCEPT ![ThisSlot(t)] = Elem(t).val]
    /\ NextElement(t) /\ NoCount
    /\ IF Op(t) = "insertfind" THEN Answer(t, Elem(t).val, "yes") ELSE UNCHANGED out
    /\ UNCHANGED <<first, op, batch, counter, ioaCounter, answer>>

\* (Variant with a bug: Assign, too, stores the whole slot.)
AssignSlot(t) ==
    /\ pc[t] = "assign"
    /\ first' = [first EXCEPT ![ThisSlot(t)] = ThisKey(t)]
    /\ second' = [second EXCEPT ![ThisSlot(t)] = Elem(t).val]
    /\ localAssigned' = IF Op(t) = "upsert" /\ Counting(t)
                        THEN [localAssigned EXCEPT ![t] = @ + 1] ELSE localAssigned
    /\ NextElement(t)
    /\ UNCHANGED <<localFailed, op, batch, counter, ioaCounter, answer, out>>

\* AssignPayload of InsertOrAssign stores the whole slot, key included, when
\* it fits a word; Assign only stores the payload.
AssignPayload(t) ==
    /\ pc[t] = "assign"
    /\ first' = IF Op(t) = "upsert" /\ Layout = "packed"
                THEN [first EXCEPT ![ThisSlot(t)] = ThisKey(t)] ELSE first
    /\ second' = [second EXCEPT ![ThisSlot(t)] = Elem(t).val]
    /\ localAssigned' = IF Op(t) = "upsert" /\ Counting(t)
                        THEN [localAssigned EXCEPT ![t] = @ + 1] ELSE localAssigned
    /\ NextElement(t)
    /\ UNCHANGED <<localFailed, op, batch, counter, ioaCounter, answer, out>>

\* WaitForPayload: spin until the winner's payload is there ...
WaitForPayload(t) ==
    /\ pc[t] = "wait"
    /\ second[ThisSlot(t)] # EmptyVal
    /\ Goto(t, "load")
    /\ UNCHANGED <<first, second, op, batch, counter, ioaCounter, answer, out, seen>>

\* ... then load the slot again (WaitAndExtractValue); also the second load
\* of a lookup whose slot is wider than a word.
LoadContent(t) ==
    /\ pc[t] = "load"
    /\ Answer(t, Content(ThisSlot(t)), IF Op(t) = "find" THEN "yes" ELSE "no")
    /\ NextElement(t) /\ NoCount
    /\ UNCHANGED <<first, second, op, batch, counter, ioaCounter, answer>>

\* Assign: stops at the first empty slot, never inserts.
ProbeAssign(t) ==
    /\ pc[t] = "probe" /\ Op(t) = "assign"
    /\ LET f == first[ThisSlot(t)] IN
       \/ f = EmptyKey /\ GiveUp(t)
       \/ f # EmptyKey /\ f = ThisKey(t) /\ Goto(t, "assign") /\ UNCHANGED <<out, counter, seen>>
       \/ f \notin {EmptyKey, ThisKey(t)} /\ KeepLooking(t)
    /\ UNCHANGED <<first, second, op, batch, ioaCounter, answer>>

\* Erase: an empty slot ends the search only where tombstones are configured.
ProbeErase(t) ==
    /\ pc[t] = "probe" /\ Op(t) = "erase"
    /\ LET f == first[ThisSlot(t)] IN
       \/ /\ f # EmptyKey /\ f = ThisKey(t)
          /\ Goto(t, "erase")
          /\ seen' = IF Layout = "wide" THEN seen ELSE [seen EXCEPT ![t] = second[ThisSlot(t)]]
          /\ UNCHANGED <<out, counter>>
       \/ f = EmptyKey /\ HasTombstone /\ GiveUp(t)
       \/ f = EmptyKey /\ ~HasTombstone /\ KeepLooking(t)
       \/ f \notin {EmptyKey, ThisKey(t)} /\ KeepLooking(t)
    /\ UNCHANGED <<first, second, op, batch, ioaCounter, answer>>

\* (Variants with a bug: the slot is freed, instead of leaving a tombstone;
\* freed by its key alone, so that the payload stays behind.)
CasEraseTo(t, payload) ==
    /\ pc[t] = "erase"
    /\ LET i == ThisSlot(t)
           same == first[i] = ThisKey(t) /\ (Layout = "wide" \/ second[i] = seen[t])
       IN \/ /\ same
             /\ first' = [first EXCEPT ![i] = EmptyKey]
             /\ second' = [second EXCEPT ![i] = payload]
             /\ NextElement(t) /\ NoCount
             /\ UNCHANGED <<out, counter>>
          \/ /\ ~same
             /\ KeepLooking(t)
             /\ UNCHANGED tableVars
    /\ UNCHANGED <<op, batch, ioaCounter, answer>>
CasEraseToEmpty(t) == CasEraseTo(t, EmptyVal)
CasEraseKeyOnly(t) == CasEraseTo(t, second[ThisSlot(t)])

\* AttemptInsertStable(slot, what was read, erasedSlotValue): the swap expects
\* the content the probe loaded.  Finding the tombstone there means another
\* thread erased the key; anything else sends the search on.
CasErase(t) ==
    /\ pc[t] = "erase"
    /\ LET i == ThisSlot(t)
           same == first[i] = ThisKey(t) /\ (Layout = "wide" \/ second[i] = seen[t])
       IN \/ /\ same
             /\ first' = [first EXCEPT ![i] = ErasedKey]
             /\ IF Layout = "wide" THEN Goto(t, "wipe") /\ UNCHANGED <<second, seen>>
                ELSE /\ second' = [second EXCEPT ![i] = EmptyVal]
                     /\ NextElement(t) /\ NoCount
             /\ UNCHANGED <<out, counter>>
          \/ /\ ~same
             /\ IF first[i] = ErasedKey THEN GiveUp(t) ELSE KeepLooking(t)
             /\ UNCHANGED tableVars
    /\ UNCHANGED <<op, batch, ioaCounter, answer>>

\* CasDependentWrite of an erase: the tombstone's payload, as a plain store.
WipePayload(t) ==
    /\ pc[t] = "wipe"
    /\ second' = [second EXCEPT ![ThisSlot(t)] = EmptyVal]
    /\ NextElement(t) /\ NoCount
    /\ UNCHANGED <<first, op, batch, counter, ioaCounter, answer, out>>

\* FindAndContains, as called by Find, Contains and Count: an empty slot ends
\* the search.  A slot of at most a word comes in one load; of a wider one the
\* payload is loaded once the key has matched.
ProbeFind(t) ==
    /\ pc[t] = "probe" /\ Op(t) \in {"find", "count"}
    /\ LET f == first[ThisSlot(t)] IN
       \/ f = EmptyKey /\ GiveUp(t)
       \/ /\ f # EmptyKey /\ f = ThisKey(t)
          /\ \/ /\ Op(t) = "count"
                /\ counter' = counter + 1
                /\ NextElement(t) /\ NoCount /\ UNCHANGED out
             \/ /\ Op(t) = "find" /\ Layout = "wide"
                /\ Goto(t, "load")
                /\ UNCHANGED <<out, counter, seen>>
             \/ /\ Op(t) = "find" /\ Layout # "wide"
                /\ Answer(t, Content(ThisSlot(t)), "yes")
                /\ NextElement(t) /\ NoCount /\ UNCHANGED counter
       \/ f \notin {EmptyKey, ThisKey(t)} /\ KeepLooking(t)
    /\ UNCHANGED <<first, second, op, batch, ioaCounter, answer>>

\* ForEach calls back for every match up to the first empty slot; that the
\* callback ran, and with which slot, is noted among the outputs.
ProbeForEach(t) ==
    /\ pc[t] = "probe" /\ Op(t) = "foreach"
    /\ LET f == first[ThisSlot(t)] IN
       \/ f = EmptyKey /\ GiveUp(t)
       \/ /\ f # EmptyKey /\ f = ThisKey(t)
          /\ Answer(t, f, "yes")
          /\ UNCHANGED counter
          /\ IF pos[t] < N
             THEN /\ pos' = [pos EXCEPT ![t] = @ + 1]
                  /\ UNCHANGED <<pc, elt, seen, localFailed, localAssigned>>
             ELSE NextElement(t) /\ NoCount
       \/ f \notin {EmptyKey, ThisKey(t)} /\ KeepLooking(t)
    /\ UNCHANGED <<first, second, op, batch, ioaCounter, answer>>

--------------------------------------------------------------------------------
Step(t) ==
    \/ Fetch(t) \/ ClearSlot(t) \/ Leave(t)
    \/ ProbeInsert(t) \/ CasInsert(t) \/ StorePayload(t) \/ AssignPayload(t)
    \/ WaitForPayload(t) \/ LoadContent(t)
    \/ ProbeAssign(t) \/ ProbeErase(t) \/ CasErase(t) \/ WipePayload(t)
    \/ ProbeFind(t) \/ ProbeForEach(t)

Next ==
    \/ \E s \in Stream : \E o \in Calls : \E b \in Batches(o) : Launch(s, o, b)
    \/ \E s \in Stream : Complete(s) \/ TakeAnswer(s)
    \/ \E t \in Thread : Step(t)

\* The device keeps running every thread of a launched kernel, and the host
\* notices that a kernel has ended.
Spec == /\ Init /\ [][Next]_vars
        /\ \A t \in Thread : WF_vars(Step(t))
        /\ \A s \in Stream : WF_vars(Complete(s))

--------------------------------------------------------------------------------
Clearing == \E s \in Stream : op[s] = "clear"

\* Two slots never hold one key, whatever inserts, erases and assigns race:
\* the documented guarantee that concurrent InsertOrAssign leaves one valid
\* value per key.  (InsertVerdict's slot arbitration by compare-and-swap.)
UniqueKeys ==
    \A i, j \in Slot : first[i] \in Key /\ first[i] = first[j] => i = j

\* A stored key can be reached: no slot before it on its probe path is empty
\* or holds it already, so the early stops of Find, Assign, Erase and ForEach
\* at an empty slot lose nothing.  (Slots become available again only by
\* Clear; erasing leaves a tombstone.)
Reachable ==
    ~Clearing =>
        \A k \in Key : \A p \in Slot : first[Path[k][p]] = k =>
            \A q \in 1..(p - 1) : first[Path[k][q]] \notin {EmptyKey, k}

\* A slot is given to a key once: it turns from empty to a key, from that key
\* to the tombstone, and is neither handed to another key nor revived by a
\* late write (AssignPayload of a key that was erased meanwhile), until Clear.
SlotsAreGivenOnce ==
    [][\A i \in Slot :
         \/ first'[i] = first[i]
         \/ first[i] = EmptyKey
         \/ first[i] \in Key /\ first'[i] = ErasedKey
         \/ Clearing]_vars

\* A free slot carries no payload, so that the packed compare-and-swap against
\* emptySlotValue_ cannot miss it.
FreeSlotsAreBlank ==
    \A i \in Slot : first[i] = EmptyKey => second[i] = EmptyVal

\* InsertAndFind answers with a payload whenever its key has a slot, though the
\* key may be there before its payload (WaitForPayload): it answers "nothing"
\* only in a table that is full without its key.
InsertAndFindAnswers ==
    \A s \in Stream : op[s] = "insertfind" =>
        \A i \in DOMAIN out[s] : out[s][i] = [val |-> Nothing, flag |-> "no"] =>
            \A j \in Slot : first[j] \notin {EmptyKey, batch[s][i].key}

\* While one kernel at a time runs, a lookup that answers "nothing" is right: the
\* key it was asked for is not stored (what the documentation of Contains says).
LookupsMissNothing ==
    \A s \in Stream : op[s] = "find" =>
        \A i \in DOMAIN out[s] : batch[s][i].pass /\ out[s][i].flag = "no" =>
            \A j \in Slot : first[j] # batch[s][i].key

\* Every kernel ends: no thread spins on a payload that never comes.
KernelsEnd == \A s \in Stream : op[s] # "none" ~> op[s] = "none"

--------------------------------------------------------------------------------
(* Why the table keeps its promises: the callers' discipline, and the       *)
(* inductive invariant behind UniqueKeys and Reachable                      *)
(* (OpenAddressing_proofs proves it, the runs check it).                    *)

\* What the table needs of its callers: reserved keys that no batch brings, a
\* tombstone if anything is erased, no InsertOrAssign while an Erase runs on
\* another stream, and a Clear that has the table to itself.
Disciplined ==
    /\ EmptyKey \notin Key /\ ErasedKey \notin Key
    /\ "erase" \in Calls => HasTombstone
    /\ \A o, r \in Ops : <<o, r>> \in MayOverlap => <<r, o>> \in MayOverlap
    /\ <<"upsert", "erase">> \notin MayOverlap
    /\ \A o \in Ops : <<o, "clear">> \notin MayOverlap

--------------------------------------------------------------------------------
(* The shape of a kernel in flight. *)

AtWork(t) == pc[t] \notin {"exit", "fetch"}

\* No kernel, no running thread.
IdleThreadsRest == \A t \in Thread : Op(t) = "none" => pc[t] = "exit"

\* A thread that works has an element, and its job fits the operation.
WorkFitsCall ==
    \A t \in Thread :
        /\ AtWork(t) => Op(t) # "clear" /\ elt[t] <= Len(batch[StreamOf[t]])
        /\ ~AtWork(t) => pos[t] = 1
        /\ pc[t] = "store" => Layout = "wide"
        /\ pc[t] = "assign" => Op(t) \in {"upsert", "assign"}
        /\ pc[t] = "erase" => Op(t) = "erase"

Shape == TypeOK /\ IdleThreadsRest /\ WorkFitsCall

--------------------------------------------------------------------------------
(* What the threads know of the table. *)

\* The running kernels are ones that callers let overlap.
OverlapKept ==
    \A r, s \in Stream :
        r # s /\ op[r] # "none" /\ op[s] # "none" => <<op[r], op[s]>> \in MayOverlap

\* What an insertion has passed stays taken, and by other keys.
Inserting(t) == pc[t] = "cas" \/ (pc[t] = "probe" /\ Op(t) \in InsertCalls)

PassedStaysTaken ==
    \A t \in Thread : Inserting(t) =>
        \A q \in 1..(pos[t] - 1) : first[Path[ThisKey(t)][q]] \notin {EmptyKey, ThisKey(t)}

\* An InsertOrAssign that found its key overwrites a slot that still holds it.
FoundStaysPut ==
    \A t \in Thread :
        pc[t] = "assign" /\ Op(t) = "upsert" => first[ThisSlot(t)] = ThisKey(t)

\* A slot that a thread is about to write the payload of is not free.
TouchedStaysTaken ==
    \A t \in Thread :
        pc[t] \in {"store", "assign", "wipe"} => first[ThisSlot(t)] # EmptyKey

\* A Clear leaves a slot alone only if some thread will still come by.
ClearLeavesNone ==
    \A s \in Stream : op[s] = "clear" =>
        \A i \in Slot : first[i] = EmptyKey \/
            \E t \in Thread : /\ StreamOf[t] = s /\ pc[t] = "fetch"
                              /\ \E m \in 0..N : i = elt[t] + m * TotalThreads

\* The inductive invariant of the table under disciplined use.
TableInv ==
    /\ Shape
    /\ OverlapKept /\ PassedStaysTaken /\ FoundStaysPut /\ TouchedStaysTaken
    /\ ClearLeavesNone
    /\ UniqueKeys /\ Reachable /\ FreeSlotsAreBlank

--------------------------------------------------------------------------------
(* Why InsertAndFind has an answer. *)

\* What waiting for a payload needs besides: callers that never pass the
\* sentinel as a payload, and no Erase while an InsertAndFind runs.
PayloadsLast ==
    /\ EmptyVal \notin Val
    /\ <<"insertfind", "erase">> \notin MayOverlap

\* Only an Erase wipes payloads, only maps wait for them.
PayloadWorkFits ==
    \A t \in Thread :
        /\ pc[t] = "wipe" => Op(t) = "erase"
        /\ pc[t] = "wait" => HasPayload

\* An InsertAndFind about to load has something to load.
LoadedIsThere ==
    \A t \in Thread :
        pc[t] = "load" /\ Op(t) = "insertfind" => Content(ThisSlot(t)) # Nothing

\* Inductive together with TableInv, where payloads last.
AnswersInv == PayloadWorkFits /\ LoadedIsThere /\ InsertAndFindAnswers
================================================================================
