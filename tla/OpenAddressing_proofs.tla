------------------------- MODULE OpenAddressing_proofs -------------------------
(***************************************************************************)
(* Proofs about OpenAddressing and OpenAddressingBulk, for every table     *)
(* size, every family of probe paths, and any number of streams, threads   *)
(* and batch elements.                                                     *)
(*                                                                         *)
(* The argument.  Shape (types, and what a thread at work is entitled to)  *)
(* is inductive by itself.  On top of it, TableInv is inductive for        *)
(* disciplined callers: an insertion knows that every slot it has passed   *)
(* is taken by other keys (PassedStaysTaken), so the slot it wins is the   *)
(* first free one and its key is nowhere else; slots never become free     *)
(* again before a Clear; and an InsertOrAssign about to store knows that   *)
(* the slot still holds its key (FoundStaysPut), for no Erase is running.  *)
(* What InsertAndFind answers rests on TableInv: the payload it loads,     *)
(* once it is there, stays in its slot (LoadedIsThere).                    *)
(*                                                                         *)
(* The table, driven by one stream, implements BulkMap.  No single step of *)
(* a kernel is the moment at which its call happens: the map changes once, *)
(* when the call returns.  BulkInv says for a kernel half done how far it  *)
(* is: which elements are done, which of them moved their key in or out of *)
(* the table (movers, one per key), that the counters and the registers    *)
(* not yet added to them tally with the others, and that the outputs       *)
(* written answer for the keys.  That every step keeps this is shown first,*)
(* by what it does to the slots and to the elements that are done; then,   *)
(* that BulkInv of a kernel whose threads have all left is the             *)
(* postcondition of the operation.                                         *)
(***************************************************************************)
EXTENDS OpenAddressingBulk, SequenceTheorems, FiniteSetTheorems, TLAPS

--------------------------------------------------------------------------------
(* The element a working thread is at. *)

\* A working thread has an element of its batch, a slot and a call that is not
\* Clear.
LEMMA AtAnElement ==
    ASSUME Shape, NEW t \in Thread, AtWork(t)
    PROVE  /\ elt[t] \in 1..Len(batch[StreamOf[t]])
           /\ Elem(t) \in Element
           /\ ThisKey(t) \in Key
           /\ ThisSlot(t) \in Slot
           /\ Op(t) \in Calls \ {"clear"}
  <1>1. StreamOf[t] \in Stream BY ThreadAssumption DEF ThreadAssumption
  <1>2. batch[StreamOf[t]] \in Seq(Element) BY <1>1 DEF Shape, TypeOK
  <1>3. elt[t] \in 1..Len(batch[StreamOf[t]])
    BY <1>1, <1>2 DEF Shape, TypeOK, WorkFitsCall
  <1>4. Elem(t) \in Element BY <1>2, <1>3 DEF Elem
  <1>5. ThisKey(t) \in Key BY <1>4 DEF Element, ThisKey
  <1>6. ThisSlot(t) \in Slot
    BY <1>5, TableAssumption DEF TableAssumption, ThisSlot, Shape, TypeOK
  <1>7. Op(t) \in Calls \ {"clear"}
    BY <1>1 DEF Op, Shape, TypeOK, WorkFitsCall, IdleThreadsRest, AtWork
  <1> QED BY <1>3, <1>4, <1>5, <1>6, <1>7

\* An element carries a payload for maps, its key for sets.
LEMMA ElementsCarry ==
    ASSUME NEW e \in Element
    PROVE  /\ e.val \in Val \cup Key
           /\ HasPayload => e.val \in Val
           /\ ~HasPayload => e.val = e.key
  BY DEF Element

\* Writing one entry of an output array keeps its type and its length.
LEMMA AnswersFit ==
    ASSUME Shape, NEW t \in Thread, elt[t] \in 1..Len(batch[StreamOf[t]]),
           NEW x \in Payload \cup SlotKeys, NEW f \in {"yes", "no"}, Answer(t, x, f)
    PROVE  /\ out' \in [Stream -> Seq(Result)]
           /\ \A s \in Stream : Len(out'[s]) = Len(batch[s])
  <1> DEFINE s0 == StreamOf[t]
             r == [val |-> x, flag |-> f]
  <1>1. s0 \in Stream BY ThreadAssumption DEF ThreadAssumption
  <1>2. out \in [Stream -> Seq(Result)] /\ \A s \in Stream : Len(out[s]) = Len(batch[s])
    BY DEF Shape, TypeOK
  <1>3. r \in Result BY DEF Result
  <1>4. out[s0] \in Seq(Result) /\ elt[t] \in 1..Len(out[s0]) BY <1>1, <1>2
  <1>5. /\ [out[s0] EXCEPT ![elt[t]] = r] \in Seq(Result)
        /\ Len([out[s0] EXCEPT ![elt[t]] = r]) = Len(out[s0])
    BY <1>3, <1>4, ExceptSeq
  <1>6. out' = [out EXCEPT ![s0] = [out[s0] EXCEPT ![elt[t]] = r]]
    BY <1>1, <1>2 DEF Answer
  <1> QED BY <1>1, <1>2, <1>5, <1>6

\* Going on to the next element keeps the loop registers typed.
LEMMA NextElementFits ==
    ASSUME Shape, NEW t \in Thread, NextElement(t)
    PROVE  /\ elt' \in [Thread -> Nat \ {0}]
           /\ pos' \in [Thread -> Slot]
           /\ seen' \in [Thread -> Payload]
  <1>1. elt[t] \in Nat \ {0} /\ TotalThreads \in Nat \ {0}
    BY ThreadAssumption DEF ThreadAssumption, Shape, TypeOK
  <1>2. elt[t] + TotalThreads \in Nat \ {0} BY <1>1
  <1>3. elt' \in [Thread -> Nat \ {0}] BY <1>2 DEF NextElement, Shape, TypeOK
  <1>4. 1 \in Slot BY TableAssumption DEF TableAssumption, Slot
  <1>5. pos' \in [Thread -> Slot] BY <1>4 DEF NextElement, Shape, TypeOK
  <1>6. seen' \in [Thread -> Payload] BY DEF NextElement, Shape, TypeOK, Payload
  <1> QED BY <1>3, <1>5, <1>6

--------------------------------------------------------------------------------
(* Every step keeps the shape. *)

\* What a step of thread t may do to the registers.
Registers(t) ==
    /\ UNCHANGED <<op, batch>>
    /\ pc[t] # "exit"
    /\ \A u \in Thread \ {t} : pc'[u] = pc[u] /\ elt'[u] = elt[u] /\ pos'[u] = pos[u]
    /\ \/ pc'[t] \in {"fetch", "exit"} /\ pos'[t] = 1
       \/ /\ pc'[t] \notin {"fetch", "exit"}
          /\ AtWork(t) \/ (Op(t) # "clear" /\ elt[t] <= Limit(StreamOf[t]))
          /\ elt'[t] = elt[t]
          /\ pc'[t] = "store" => Layout = "wide"
          /\ pc'[t] = "assign" => Op(t) \in {"upsert", "assign"}
          /\ pc'[t] = "erase" => Op(t) = "erase"

\* A step of one thread that keeps its registers and the shared arrays typed
\* keeps the shape.
LEMMA RegistersKeepShape ==
    ASSUME Shape, TypeOK', NEW t \in Thread, Registers(t)
    PROVE  Shape'
  <1>1. IdleThreadsRest'
    BY DEF IdleThreadsRest, Shape, Registers, Op
  <1>2. WorkFitsCall'
    BY DEF WorkFitsCall, Shape, Registers, Op, AtWork, Limit
  <1> QED BY <1>1, <1>2 DEF Shape

\* The loop head: into the element, or past a rejected one.
LEMMA FetchKeepsShape ==
    ASSUME Shape, NEW t \in Thread, Fetch(t)
    PROVE  Shape'
  <1>1. StreamOf[t] \in Stream /\ elt[t] \in 1..Len(batch[StreamOf[t]])
    BY ThreadAssumption DEF ThreadAssumption, Shape, TypeOK, Fetch, Limit, Op
  <1>2. Nothing \in Payload \cup SlotKeys BY DEF Nothing, Payload, SlotKeys
  <1>3. CASE Elem(t).pass
    <2>1. TypeOK' BY <1>3 DEF Fetch, Goto, Shape, TypeOK
    <2>2. Registers(t) BY <1>3 DEF Fetch, Goto, Registers, Shape, TypeOK, Op
    <2> QED BY <2>1, <2>2, RegistersKeepShape
  <1>4. CASE ~Elem(t).pass
    <2>1. /\ out' \in [Stream -> Seq(Result)]
          /\ \A s \in Stream : Len(out'[s]) = Len(batch[s])
      BY <1>1, <1>2, <1>4, AnswersFit DEF Fetch, Shape, TypeOK
    <2>2. NextElement(t) BY <1>4 DEF Fetch
    <2>3. TypeOK'
      BY <1>4, <2>1, <2>2, NextElementFits DEF Fetch, NextElement, NoCount, Shape, TypeOK
    <2>4. Registers(t) BY <1>4, <2>2 DEF Fetch, NextElement, Registers, Shape, TypeOK
    <2> QED BY <2>3, <2>4, RegistersKeepShape
  <1> QED BY <1>3, <1>4

\* The end of the loop: the local counters are added to the shared ones.
LEMMA LeaveKeepsShape ==
    ASSUME Shape, NEW t \in Thread, Leave(t)
    PROVE  Shape'
  <1>1. StreamOf[t] \in Stream BY ThreadAssumption DEF ThreadAssumption
  <1>2. counter' \in Nat /\ ioaCounter' \in Counts
    BY <1>1, SMTT(40) DEF Leave, Counts, Shape, TypeOK
  <1>3. TypeOK'
    <2>1. pc' \in [Thread -> {"exit", "fetch", "probe", "cas", "store", "assign",
                              "erase", "wipe", "wait", "load"}]
      BY DEF Leave, Shape, TypeOK
    <2>2. elt' \in [Thread -> Nat \ {0}] BY DEF Leave, Shape, TypeOK
    <2>3. localFailed' \in [Thread -> Nat] /\ localAssigned' \in [Thread -> Nat]
      BY DEF Leave, Shape, TypeOK
    <2> QED BY <1>2, <2>1, <2>2, <2>3 DEF Leave, Shape, TypeOK
  <1>4. Registers(t) BY DEF Leave, Registers, Shape, TypeOK, WorkFitsCall, AtWork
  <1> QED BY <1>3, <1>4, RegistersKeepShape

\* The parts of TypeOK a probing thread may disturb.
TableTyped == first \in [Slot -> SlotKeys] /\ second \in [Slot -> Payload]
OutTyped ==
    out \in [Stream -> Seq(Result)] /\ \A s \in Stream : Len(out[s]) = Len(batch[s])
CountsTyped ==
    /\ counter \in Nat
    /\ localFailed \in [Thread -> Nat] /\ localAssigned \in [Thread -> Nat]

\* An element that is done, with typed arrays and counters, keeps the shape.
LEMMA NextElementKeepsShape ==
    ASSUME Shape, NEW t \in Thread, pc[t] # "exit", NextElement(t),
           UNCHANGED <<op, batch, ioaCounter, answer>>, TableTyped', OutTyped', CountsTyped'
    PROVE  Shape'
  <1>1. TypeOK'
    BY NextElementFits
    DEF NextElement, Shape, TypeOK, TableTyped, OutTyped, CountsTyped
  <1>2. Registers(t) BY DEF NextElement, Registers, Shape, TypeOK
  <1> QED BY <1>1, <1>2, RegistersKeepShape

\* A failed search answers, or counts a failure.
LEMMA GiveUpKeepsShape ==
    ASSUME Shape, NEW t \in Thread, AtWork(t), GiveUp(t),
           UNCHANGED <<op, batch, ioaCounter, answer>>, TableTyped'
    PROVE  Shape'
  <1>1. Nothing \in Payload \cup SlotKeys BY DEF Nothing, Payload, SlotKeys
  <1>2. OutTyped'
    BY <1>1, AtAnElement, AnswersFit DEF GiveUp, OutTyped, Shape, TypeOK
  <1>3. CountsTyped'
    BY DEF GiveUp, AddFailed, NoCount, CountsTyped, Shape, TypeOK
  <1>4. NextElement(t) /\ pc[t] # "exit" BY DEF GiveUp, AtWork
  <1> QED BY <1>2, <1>3, <1>4, NextElementKeepsShape

\* The iterator advances within the path.
LEMMA MoveOnKeepsShape ==
    ASSUME Shape, NEW t \in Thread, AtWork(t), MoveOn(t), pos[t] < N,
           UNCHANGED <<op, batch, ioaCounter, answer>>, TableTyped'
    PROVE  Shape'
  <1>1. pos[t] + 1 \in Slot
    BY TableAssumption DEF TableAssumption, Slot, Shape, TypeOK
  <1>2. TypeOK' BY <1>1 DEF MoveOn, TableTyped, Shape, TypeOK
  <1>3. Registers(t) BY DEF MoveOn, Registers, AtWork, Shape, TypeOK
  <1> QED BY <1>2, <1>3, RegistersKeepShape

\* The next slot, or the end of the path.
LEMMA KeepLookingKeepsShape ==
    ASSUME Shape, NEW t \in Thread, AtWork(t), KeepLooking(t),
           UNCHANGED <<op, batch, ioaCounter, answer>>, TableTyped'
    PROVE  Shape'
  BY MoveOnKeepsShape, GiveUpKeepsShape DEF KeepLooking

\* A working thread goes on with the same slot and another job.
LEMMA GotoKeepsShape ==
    ASSUME Shape, NEW t \in Thread, AtWork(t),
           NEW label \in {"cas", "store", "assign", "erase", "wipe", "wait", "load"},
           Goto(t, label), seen' \in [Thread -> Payload],
           UNCHANGED <<op, batch, counter, ioaCounter, answer, out>>, TableTyped',
           label = "store" => Layout = "wide",
           label = "assign" => Op(t) \in {"upsert", "assign"},
           label = "erase" => Op(t) = "erase"
    PROVE  Shape'
  <1>1. TypeOK' BY DEF Goto, TableTyped, Shape, TypeOK
  <1>2. Registers(t) BY DEF Goto, Registers, AtWork, Shape, TypeOK
  <1> QED BY <1>1, <1>2, RegistersKeepShape

\* An insertion that meets its key fails, assigns or waits.
LEMMA AlreadyThereKeepsShape ==
    ASSUME Shape, NEW t \in Thread, AtWork(t), AlreadyThere(t),
           UNCHANGED <<op, batch, ioaCounter, answer>>, TableTyped'
    PROVE  Shape'
  <1>1. CASE NextElement(t) /\ AddFailed(t) /\ UNCHANGED <<out, counter>>
    <2>1. OutTyped' BY <1>1 DEF OutTyped, Shape, TypeOK
    <2>2. CountsTyped' BY <1>1 DEF CountsTyped, AddFailed, Shape, TypeOK
    <2> QED BY <1>1, <2>1, <2>2, NextElementKeepsShape DEF AtWork
  <1>2. CASE Op(t) = "upsert" /\ Goto(t, "assign") /\ UNCHANGED <<out, counter, seen>>
    BY <1>2, GotoKeepsShape DEF Shape, TypeOK
  <1>3. CASE Goto(t, IF HasPayload THEN "wait" ELSE "load") /\ UNCHANGED <<out, counter, seen>>
    BY <1>3, GotoKeepsShape DEF Shape, TypeOK
  <1> QED BY <1>1, <1>2, <1>3 DEF AlreadyThere

\* One slot of Clear.
LEMMA ClearSlotKeepsShape ==
    ASSUME Shape, NEW t \in Thread, ClearSlot(t)
    PROVE  Shape'
  <1>1. TableTyped'
    BY DEF ClearSlot, TableTyped, Shape, TypeOK, SlotKeys, Payload
  <1>2. OutTyped' /\ CountsTyped'
    BY DEF ClearSlot, callVars, NoCount, OutTyped, CountsTyped, Shape, TypeOK
  <1> QED BY <1>1, <1>2, NextElementKeepsShape DEF ClearSlot, callVars

\* The load of InsertVerdict.
LEMMA ProbeInsertKeepsShape ==
    ASSUME Shape, NEW t \in Thread, ProbeInsert(t)
    PROVE  Shape'
  <1>1. AtWork(t) /\ UNCHANGED <<op, batch, ioaCounter, answer>> /\ TableTyped'
    BY DEF ProbeInsert, AtWork, TableTyped, Shape, TypeOK
  <1>2. CASE Goto(t, "cas") /\ UNCHANGED <<out, counter, seen>>
    BY <1>1, <1>2, GotoKeepsShape DEF Shape, TypeOK
  <1>3. CASE AlreadyThere(t) BY <1>1, <1>3, AlreadyThereKeepsShape
  <1>4. CASE KeepLooking(t) BY <1>1, <1>4, KeepLookingKeepsShape
  <1> QED BY <1>2, <1>3, <1>4 DEF ProbeInsert

\* The job of a thread that has won or filled a slot is done, and an
\* InsertAndFind answers with its own payload.
LEMMA InsertedKeepsShape ==
    ASSUME Shape, NEW t \in Thread, AtWork(t), NextElement(t), NoCount,
           IF Op(t) = "insertfind" THEN Answer(t, Elem(t).val, "yes") ELSE UNCHANGED out,
           UNCHANGED <<op, batch, counter, ioaCounter, answer>>, TableTyped'
    PROVE  Shape'
  <1>1. Elem(t).val \in Payload \cup SlotKeys
    BY AtAnElement, ElementsCarry DEF Payload, SlotKeys
  <1>2. OutTyped' BY <1>1, AtAnElement, AnswersFit DEF OutTyped, Shape, TypeOK
  <1>3. CountsTyped' BY DEF CountsTyped, NoCount, Shape, TypeOK
  <1> QED BY <1>2, <1>3, NextElementKeepsShape DEF AtWork

\* A won compare-and-swap puts a key of the batch into the table.
LEMMA TakeSlotKeepsShape ==
    ASSUME Shape, NEW t \in Thread, AtWork(t), TakeSlot(t),
           UNCHANGED <<op, batch, ioaCounter, answer>>
    PROVE  Shape'
  <1>1. ThisKey(t) \in Key /\ ThisSlot(t) \in Slot /\ Elem(t) \in Element BY AtAnElement
  <1>2. first' \in [Slot -> SlotKeys] BY <1>1 DEF TakeSlot, Shape, TypeOK, SlotKeys
  <1>3. CASE Layout = "wide"
    <2>1. TableTyped' BY <1>2, <1>3 DEF TakeSlot, TableTyped, Shape, TypeOK
    <2> QED BY <1>3, <2>1, GotoKeepsShape DEF TakeSlot, Shape, TypeOK
  <1>4. CASE Layout # "wide"
    <2>1. second' \in [Slot -> Payload]
      BY <1>1, <1>4, ElementsCarry DEF TakeSlot, Shape, TypeOK, Payload
    <2> QED BY <1>2, <1>4, <2>1, InsertedKeepsShape DEF TakeSlot, TableTyped
  <1> QED BY <1>3, <1>4

\* The compare-and-swap of an insertion, won or lost.
LEMMA CasInsertKeepsShape ==
    ASSUME Shape, NEW t \in Thread, CasInsert(t)
    PROVE  Shape'
  <1>1. AtWork(t) /\ UNCHANGED <<op, batch, ioaCounter, answer>> BY DEF CasInsert, AtWork
  <1>2. CASE TakeSlot(t) BY <1>1, <1>2, TakeSlotKeepsShape
  <1>3. CASE ~TakeSlot(t)
    <2>1. TableTyped' BY <1>3 DEF CasInsert, tableVars, TableTyped, Shape, TypeOK
    <2> QED BY <1>1, <1>3, <2>1, AlreadyThereKeepsShape, KeepLookingKeepsShape DEF CasInsert
  <1> QED BY <1>2, <1>3

\* The dependent write of an insertion.
LEMMA StorePayloadKeepsShape ==
    ASSUME Shape, NEW t \in Thread, StorePayload(t)
    PROVE  Shape'
  <1>1. AtWork(t) BY DEF StorePayload, AtWork
  <1>2. HasPayload BY DEF StorePayload, Shape, WorkFitsCall, HasPayload
  <1>3. Elem(t).val \in Payload BY <1>1, <1>2, AtAnElement, ElementsCarry DEF Payload
  <1>4. TableTyped' BY <1>3 DEF StorePayload, TableTyped, Shape, TypeOK
  <1> QED BY <1>1, <1>4, InsertedKeepsShape DEF StorePayload

\* The store of an assignment.
LEMMA AssignPayloadKeepsShape ==
    ASSUME Shape, NEW t \in Thread, AssignPayload(t)
    PROVE  Shape'
  <1>1. AtWork(t) BY DEF AssignPayload, AtWork
  <1>2. HasPayload
    BY <1>1, AtAnElement, CallAssumption
    DEF AssignPayload, Shape, WorkFitsCall, CallAssumption
  <1>3. Elem(t).val \in Payload /\ ThisKey(t) \in SlotKeys
    BY <1>1, <1>2, AtAnElement, ElementsCarry DEF Payload, SlotKeys
  <1>4. TableTyped' BY <1>3 DEF AssignPayload, TableTyped, Shape, TypeOK
  <1>5. OutTyped' BY DEF AssignPayload, OutTyped, Shape, TypeOK
  <1>6. CountsTyped' BY DEF AssignPayload, CountsTyped, Shape, TypeOK
  <1> QED BY <1>1, <1>4, <1>5, <1>6, NextElementKeepsShape DEF AssignPayload, AtWork

\* The end of the wait for a payload.
LEMMA WaitKeepsShape ==
    ASSUME Shape, NEW t \in Thread, WaitForPayload(t)
    PROVE  Shape'
  <1>1. AtWork(t) /\ TableTyped' BY DEF WaitForPayload, AtWork, TableTyped, Shape, TypeOK
  <1> QED BY <1>1, GotoKeepsShape DEF WaitForPayload, Shape, TypeOK

\* What a slot holds can be an answer.
LEMMA ContentTyped ==
    ASSUME Shape, NEW i \in Slot
    PROVE  Content(i) \in Payload \cup SlotKeys
  BY DEF Content, Shape, TypeOK

\* The second load of a lookup.
LEMMA LoadContentKeepsShape ==
    ASSUME Shape, NEW t \in Thread, LoadContent(t)
    PROVE  Shape'
  <1>1. AtWork(t) BY DEF LoadContent, AtWork
  <1>2. Content(ThisSlot(t)) \in Payload \cup SlotKeys BY <1>1, AtAnElement, ContentTyped
  <1>3. OutTyped'
    BY <1>1, <1>2, AtAnElement, AnswersFit DEF LoadContent, OutTyped
  <1>4. TableTyped' /\ CountsTyped'
    BY DEF LoadContent, NoCount, TableTyped, CountsTyped, Shape, TypeOK
  <1> QED BY <1>1, <1>3, <1>4, NextElementKeepsShape DEF LoadContent, AtWork

\* The load of Assign.
LEMMA ProbeAssignKeepsShape ==
    ASSUME Shape, NEW t \in Thread, ProbeAssign(t)
    PROVE  Shape'
  <1>1. AtWork(t) /\ UNCHANGED <<op, batch, ioaCounter, answer>> /\ TableTyped'
    BY DEF ProbeAssign, AtWork, TableTyped, Shape, TypeOK
  <1>2. CASE Goto(t, "assign") /\ UNCHANGED <<out, counter, seen>>
    BY <1>1, <1>2, GotoKeepsShape DEF ProbeAssign, Shape, TypeOK
  <1>3. CASE GiveUp(t) BY <1>1, <1>3, GiveUpKeepsShape
  <1>4. CASE KeepLooking(t) BY <1>1, <1>4, KeepLookingKeepsShape
  <1> QED BY <1>2, <1>3, <1>4 DEF ProbeAssign

\* The load of Erase.
LEMMA ProbeEraseKeepsShape ==
    ASSUME Shape, NEW t \in Thread, ProbeErase(t)
    PROVE  Shape'
  <1>1. AtWork(t) /\ UNCHANGED <<op, batch, ioaCounter, answer>> /\ TableTyped' /\ Op(t) = "erase"
    BY DEF ProbeErase, AtWork, TableTyped, Shape, TypeOK
  <1>2. CASE /\ Goto(t, "erase") /\ UNCHANGED <<out, counter>>
             /\ seen' = IF Layout = "wide" THEN seen
                        ELSE [seen EXCEPT ![t] = second[ThisSlot(t)]]
    <2>1. second[ThisSlot(t)] \in Payload BY <1>1, AtAnElement DEF Shape, TypeOK
    <2>2. seen' \in [Thread -> Payload] BY <1>2, <2>1 DEF Shape, TypeOK
    <2> QED BY <1>1, <1>2, <2>2, GotoKeepsShape
  <1>3. CASE GiveUp(t) BY <1>1, <1>3, GiveUpKeepsShape
  <1>4. CASE KeepLooking(t) BY <1>1, <1>4, KeepLookingKeepsShape
  <1> QED BY <1>2, <1>3, <1>4 DEF ProbeErase

\* The compare-and-swap of Erase, won or lost.
LEMMA CasEraseKeepsShape ==
    ASSUME Shape, NEW t \in Thread, CasErase(t)
    PROVE  Shape'
  <1>1. AtWork(t) /\ UNCHANGED <<op, batch, ioaCounter, answer>> BY DEF CasErase, AtWork
  <1>2. ThisSlot(t) \in Slot BY <1>1, AtAnElement
  <1>3. CASE UNCHANGED tableVars /\ (GiveUp(t) \/ KeepLooking(t))
    <2>1. TableTyped' BY <1>3 DEF tableVars, TableTyped, Shape, TypeOK
    <2> QED BY <1>1, <1>3, <2>1, GiveUpKeepsShape, KeepLookingKeepsShape
  <1>4. CASE /\ first' = [first EXCEPT ![ThisSlot(t)] = ErasedKey]
             /\ Goto(t, "wipe") /\ UNCHANGED <<second, seen, out, counter>>
    <2>1. TableTyped' BY <1>4 DEF TableTyped, Shape, TypeOK, SlotKeys
    <2> QED BY <1>1, <1>4, <2>1, GotoKeepsShape DEF Shape, TypeOK
  <1>5. CASE /\ first' = [first EXCEPT ![ThisSlot(t)] = ErasedKey]
             /\ second' = [second EXCEPT ![ThisSlot(t)] = EmptyVal]
             /\ NextElement(t) /\ NoCount /\ UNCHANGED <<out, counter>>
    <2>1. TableTyped' BY <1>5 DEF TableTyped, Shape, TypeOK, SlotKeys, Payload
    <2>2. OutTyped' /\ CountsTyped'
      BY <1>1, <1>5 DEF NoCount, OutTyped, CountsTyped, Shape, TypeOK
    <2> QED BY <1>1, <1>5, <2>1, <2>2, NextElementKeepsShape DEF AtWork
  <1> QED BY <1>3, <1>4, <1>5 DEF CasErase

\* The dependent write of Erase.
LEMMA WipePayloadKeepsShape ==
    ASSUME Shape, NEW t \in Thread, WipePayload(t)
    PROVE  Shape'
  <1>1. TableTyped' BY DEF WipePayload, TableTyped, Shape, TypeOK, Payload
  <1>2. OutTyped' /\ CountsTyped'
    BY DEF WipePayload, NoCount, OutTyped, CountsTyped, Shape, TypeOK
  <1> QED BY <1>1, <1>2, NextElementKeepsShape DEF WipePayload

\* The load of FindAndContains.
LEMMA ProbeFindKeepsShape ==
    ASSUME Shape, NEW t \in Thread, ProbeFind(t)
    PROVE  Shape'
  <1>1. AtWork(t) /\ UNCHANGED <<op, batch, ioaCounter, answer>> /\ TableTyped'
    BY DEF ProbeFind, AtWork, TableTyped, Shape, TypeOK
  <1>3. CASE /\ counter' = counter + 1
             /\ NextElement(t) /\ NoCount /\ UNCHANGED out
    <2>1. OutTyped' BY <1>1, <1>3 DEF OutTyped, Shape, TypeOK
    <2>2. CountsTyped' BY <1>3 DEF NoCount, CountsTyped, Shape, TypeOK
    <2> QED BY <1>1, <1>3, <2>1, <2>2, NextElementKeepsShape DEF AtWork
  <1>4. CASE Goto(t, "load") /\ UNCHANGED <<out, counter, seen>>
    BY <1>1, <1>4, GotoKeepsShape DEF Shape, TypeOK
  <1>5. CASE /\ Answer(t, Content(ThisSlot(t)), "yes")
             /\ NextElement(t) /\ NoCount /\ UNCHANGED counter
    <2>1. Content(ThisSlot(t)) \in Payload \cup SlotKeys
      BY <1>1, AtAnElement, ContentTyped
    <2>2. OutTyped' BY <1>1, <1>5, <2>1, AtAnElement, AnswersFit DEF OutTyped
    <2>3. CountsTyped' BY <1>5 DEF NoCount, CountsTyped, Shape, TypeOK
    <2> QED BY <1>1, <1>5, <2>2, <2>3, NextElementKeepsShape DEF AtWork
  <1>6. CASE GiveUp(t) BY <1>1, <1>6, GiveUpKeepsShape
  <1>7. CASE KeepLooking(t) BY <1>1, <1>7, KeepLookingKeepsShape
  <1> QED BY <1>3, <1>4, <1>5, <1>6, <1>7 DEF ProbeFind

\* The load of ForEach.
LEMMA ProbeForEachKeepsShape ==
    ASSUME Shape, NEW t \in Thread, ProbeForEach(t)
    PROVE  Shape'
  <1>1. AtWork(t) /\ UNCHANGED <<op, batch, ioaCounter, answer>> /\ TableTyped'
    BY DEF ProbeForEach, AtWork, TableTyped, Shape, TypeOK
  <1>2. first[ThisSlot(t)] \in Payload \cup SlotKeys
    BY <1>1, AtAnElement DEF Shape, TypeOK
  <1>3. CASE Answer(t, first[ThisSlot(t)], "yes") /\ UNCHANGED counter
    <2>1. OutTyped' BY <1>1, <1>2, <1>3, AtAnElement, AnswersFit DEF OutTyped
    <2>2. counter' \in Nat BY <1>3 DEF Shape, TypeOK
    <2>3. CASE /\ pos[t] < N
               /\ pos' = [pos EXCEPT ![t] = @ + 1]
               /\ UNCHANGED <<pc, elt, seen, localFailed, localAssigned>>
      <3>1. pos[t] + 1 \in Slot
        BY <2>3, TableAssumption DEF TableAssumption, Slot, Shape, TypeOK
      <3>2. TypeOK'
        BY <1>1, <2>1, <2>2, <2>3, <3>1 DEF TableTyped, OutTyped, Shape, TypeOK
      <3>3. Registers(t)
        BY <1>1, <2>3 DEF Registers, AtWork, Shape, WorkFitsCall
      <3> QED BY <3>2, <3>3, RegistersKeepShape
    <2>4. CASE NextElement(t) /\ NoCount
      <3>1. CountsTyped' BY <2>2, <2>4 DEF NoCount, CountsTyped, Shape, TypeOK
      <3> QED BY <1>1, <2>1, <2>4, <3>1, NextElementKeepsShape DEF AtWork
    <2>5. CASE GiveUp(t) BY <1>1, <2>5, GiveUpKeepsShape
    <2>6. CASE KeepLooking(t) BY <1>1, <2>6, KeepLookingKeepsShape
    <2> QED BY <1>3, <2>3, <2>4, <2>5, <2>6 DEF ProbeForEach
  <1>4. CASE GiveUp(t) BY <1>1, <1>4, GiveUpKeepsShape
  <1>5. CASE KeepLooking(t) BY <1>1, <1>5, KeepLookingKeepsShape
  <1> QED BY <1>3, <1>4, <1>5 DEF ProbeForEach

\* Every step of a thread keeps the shape.
LEMMA StepKeepsShape ==
    ASSUME Shape, NEW t \in Thread, Step(t)
    PROVE  Shape'
  BY FetchKeepsShape, ClearSlotKeepsShape, LeaveKeepsShape, ProbeInsertKeepsShape,
     CasInsertKeepsShape, StorePayloadKeepsShape, AssignPayloadKeepsShape,
     WaitKeepsShape, LoadContentKeepsShape, ProbeAssignKeepsShape,
     ProbeEraseKeepsShape, CasEraseKeepsShape, WipePayloadKeepsShape,
     ProbeFindKeepsShape, ProbeForEachKeepsShape
  DEF Step

\* Reset counters are counters.
LEMMA ZeroCounts == Zero \in Counts
  BY DEF Zero, Counts

\* A launch hands its threads a batch, fresh counters and outputs.
LEMMA LaunchKeepsShape ==
    ASSUME Shape, NEW s \in Stream, NEW o \in Calls, NEW b \in Batches(o), Launch(s, o, b)
    PROVE  Shape'
  <1>1. b \in Seq(Element)
    <2>1. CASE o = "clear" BY <2>1 DEF Batches
    <2>2. CASE o # "clear"
      <3>1. PICK n \in 1..MaxBatch :
                b \in [1..n -> {e \in Element : o \notin StencilCalls => e.pass}]
        BY <2>2 DEF Batches
      <3>2. n \in Nat BY CallAssumption DEF CallAssumption
      <3> QED BY <3>1, <3>2
    <2> QED BY <2>1, <2>2
  <1>2. Unset \in Result BY DEF Unset, Result, Nothing, Payload, SlotKeys
  <1>3. /\ [i \in 1..Len(b) |-> Unset] \in Seq(Result)
        /\ Len([i \in 1..Len(b) |-> Unset]) = Len(b)
    BY <1>1, <1>2
  <1>4. o # "none" BY CallAssumption DEF CallAssumption, Ops, InsertCalls
  <1>5. OutTyped' BY <1>3 DEF Launch, OutTyped, Shape, TypeOK
  <1>6. elt' \in [Thread -> Nat \ {0}]
    BY ThreadAssumption, SMTT(40) DEF ThreadAssumption, Launch, Shape, TypeOK
  <1>7. batch' \in [Stream -> Seq(Element)] BY <1>1 DEF Launch, Shape, TypeOK
  <1>8. TypeOK'
    <2>1. counter' \in Nat /\ ioaCounter' \in Counts BY ZeroCounts DEF Launch, Shape, TypeOK
    <2>2. localFailed' \in [Thread -> Nat] /\ localAssigned' \in [Thread -> Nat]
      BY DEF Launch, Shape, TypeOK
    <2>3. pc' \in [Thread -> {"exit", "fetch", "probe", "cas", "store", "assign",
                              "erase", "wipe", "wait", "load"}]
      BY DEF Launch, Shape, TypeOK
    <2>4. op' \in [Stream -> Calls \cup {"none"}] BY DEF Launch, Shape, TypeOK
    <2> QED BY <1>5, <1>6, <1>7, <2>1, <2>2, <2>3, <2>4 DEF Launch, OutTyped, Shape, TypeOK
  <1>9. IdleThreadsRest'
    BY <1>4, ThreadAssumption
    DEF ThreadAssumption, Launch, IdleThreadsRest, Op, Shape, TypeOK
  <1>10. WorkFitsCall'
    <2> SUFFICES ASSUME NEW t \in Thread
                 PROVE  /\ AtWork(t)' => Op(t)' # "clear" /\ elt'[t] <= Len(batch'[StreamOf[t]])
                        /\ ~AtWork(t)' => pos'[t] = 1
                        /\ pc'[t] = "store" => Layout = "wide"
                        /\ pc'[t] = "assign" => Op(t)' \in {"upsert", "assign"}
                        /\ pc'[t] = "erase" => Op(t)' = "erase"
      BY DEF WorkFitsCall
    <2>1. StreamOf[t] \in Stream BY ThreadAssumption DEF ThreadAssumption
    <2>2. UNCHANGED pos BY DEF Launch
    <2>3. CASE StreamOf[t] = s
      <3>1. pc'[t] = "fetch" BY <2>3 DEF Launch
      <3>2. pc[t] = "exit" BY <2>3 DEF Launch, Shape, IdleThreadsRest, Op
      <3> QED BY <2>2, <3>1, <3>2 DEF Shape, WorkFitsCall, AtWork
    <2>4. CASE StreamOf[t] # s
      <3>1. pc'[t] = pc[t] /\ elt'[t] = elt[t] BY <2>4 DEF Launch
      <3>2. Op(t)' = Op(t) /\ batch'[StreamOf[t]] = batch[StreamOf[t]]
        BY <2>1, <2>4 DEF Launch, Op, Shape, TypeOK
      <3> QED BY <2>2, <3>1, <3>2 DEF Shape, WorkFitsCall, AtWork
    <2> QED BY <2>3, <2>4
  <1> QED BY <1>8, <1>9, <1>10 DEF Shape

\* A kernel ends when its threads have.
LEMMA CompleteKeepsShape ==
    ASSUME Shape, NEW s \in Stream, Complete(s)
    PROVE  Shape'
  <1>1. answer' \in [Stream -> Counts]
    <2>1. [count |-> counter, assigned |-> 0] \in Counts BY DEF Counts, Shape, TypeOK
    <2> QED BY <2>1 DEF Complete, Shape, TypeOK
  <1>6. TypeOK' BY <1>1 DEF Complete, threadVars, Shape, TypeOK
  <1>2. IdleThreadsRest'
    BY ThreadAssumption
    DEF ThreadAssumption, Complete, threadVars, IdleThreadsRest, Op, Shape, TypeOK
  <1>3. ASSUME NEW t \in Thread
        PROVE  IF StreamOf[t] = s THEN pc[t] = "exit" ELSE Op(t)' = Op(t)
    BY ThreadAssumption DEF ThreadAssumption, Complete, Op, Shape, TypeOK
  <1>4. UNCHANGED <<batch, pc, elt, pos>> BY DEF Complete, threadVars
  <1>5. WorkFitsCall' BY <1>3, <1>4 DEF WorkFitsCall, AtWork, Shape
  <1> QED BY <1>2, <1>5, <1>6 DEF Shape

\* The caller lets go of batch and outputs together.
LEMMA TakeAnswerKeepsShape ==
    ASSUME Shape, NEW s \in Stream, TakeAnswer(s)
    PROVE  Shape'
  <1>1. OutTyped' BY DEF TakeAnswer, OutTyped, Shape, TypeOK
  <1>2. TypeOK' BY <1>1, ZeroCounts DEF TakeAnswer, threadVars, OutTyped, Shape, TypeOK
  <1>3. IdleThreadsRest' BY DEF TakeAnswer, threadVars, IdleThreadsRest, Op, Shape
  <1>4. ASSUME NEW t \in Thread
        PROVE  /\ Op(t)' = Op(t)
               /\ IF StreamOf[t] = s THEN pc[t] = "exit"
                  ELSE batch'[StreamOf[t]] = batch[StreamOf[t]]
    BY ThreadAssumption
    DEF ThreadAssumption, TakeAnswer, IdleThreadsRest, Op, Shape, TypeOK
  <1>5. UNCHANGED <<pc, elt, pos>> BY DEF TakeAnswer, threadVars
  <1>6. WorkFitsCall' BY <1>4, <1>5 DEF WorkFitsCall, AtWork, Shape
  <1> QED BY <1>2, <1>3, <1>6 DEF Shape

\* The empty table has the shape.
LEMMA InitHasShape == Init => Shape
  <1> SUFFICES ASSUME Init PROVE Shape OBVIOUS
  <1>1. 1 \in Slot BY TableAssumption DEF TableAssumption, Slot
  <1>2. TypeOK BY <1>1, ZeroCounts DEF Init, TypeOK, SlotKeys, Payload
  <1>3. IdleThreadsRest /\ WorkFitsCall
    BY DEF Init, IdleThreadsRest, WorkFitsCall, AtWork
  <1> QED BY <1>2, <1>3 DEF Shape

\* Every step of the system keeps the shape.
LEMMA NextKeepsShape == Shape /\ [Next]_vars => Shape'
  <1> SUFFICES ASSUME Shape, [Next]_vars PROVE Shape' OBVIOUS
  <1>1. CASE UNCHANGED vars
    BY <1>1 DEF vars, Shape, TypeOK, IdleThreadsRest, WorkFitsCall, AtWork, Op
  <1>2. CASE Next
    BY <1>2, StepKeepsShape, LaunchKeepsShape, CompleteKeepsShape, TakeAnswerKeepsShape
    DEF Next
  <1> QED BY <1>1, <1>2

\* In every reachable state the table holds slots, the outputs have one entry
\* per element of their batch, and a working thread has an element of a
\* running call to work on: for any table size, number of threads, streams and
\* overlap of calls.
THEOREM TypeCorrect == Spec => []TypeOK
  <1>1. Spec => []Shape BY InitHasShape, NextKeepsShape, PTL DEF Spec
  <1>2. Shape => TypeOK BY DEF Shape
  <1> QED BY <1>1, <1>2, PTL

--------------------------------------------------------------------------------
(* What a step does to the table, under disciplined use. *)

\* Only Clear shares the table with no other kernel, and an erasing thread
\* never meets an InsertOrAssign.
LEMMA WhoMeetsWhom ==
    ASSUME Disciplined, Shape, OverlapKept, NEW t \in Thread, NEW u \in Thread,
           Op(u) # "none"
    PROVE  /\ Op(t) = "clear" => StreamOf[u] = StreamOf[t]
           /\ ~(Op(t) = "erase" /\ Op(u) = "upsert")
  <1> DEFINE r == StreamOf[t]
             q == StreamOf[u]
  <1>1. r \in Stream /\ q \in Stream BY ThreadAssumption DEF ThreadAssumption
  <1>2. op[q] \in Ops BY <1>1, CallAssumption DEF CallAssumption, Shape, TypeOK, Op
  <1>3. "clear" \in Ops /\ "erase" \in Ops /\ "upsert" \in Ops BY DEF Ops, InsertCalls
  <1>4. ASSUME Op(t) = "clear", q # r PROVE FALSE
    <2>1. <<op[q], op[r]>> \in MayOverlap BY <1>1, <1>4 DEF OverlapKept, Op
    <2> QED BY <1>2, <1>4, <2>1 DEF Disciplined, Op
  <1>5. ASSUME Op(t) = "erase", Op(u) = "upsert" PROVE FALSE
    <2>1. q # r BY <1>5 DEF Op
    <2>2. <<op[q], op[r]>> \in MayOverlap BY <1>1, <1>5, <2>1 DEF OverlapKept, Op
    <2> QED BY <1>5, <2>2 DEF Disciplined, Op
  <1> QED BY <1>4, <1>5

Takes(t) ==
    /\ pc[t] = "cas" /\ first[ThisSlot(t)] = EmptyKey
    /\ first' = [first EXCEPT ![ThisSlot(t)] = ThisKey(t)]

Erases(t) ==
    /\ pc[t] = "erase" /\ first[ThisSlot(t)] = ThisKey(t)
    /\ first' = [first EXCEPT ![ThisSlot(t)] = ErasedKey]

Clears(t) ==
    /\ Op(t) = "clear" /\ pc[t] = "fetch" /\ elt[t] \in Slot
    /\ first' = [first EXCEPT ![elt[t]] = EmptyKey]

\* A step leaves the keys alone, or is one of these three: the whole-slot
\* store of an InsertOrAssign rewrites the key that is there.
LEMMA StepOnTable ==
    ASSUME Shape, FoundStaysPut, NEW t \in Thread, Step(t)
    PROVE  UNCHANGED first \/ Takes(t) \/ Erases(t) \/ Clears(t)
  <1>1. CASE CasInsert(t)
    BY <1>1 DEF CasInsert, TakeSlot, FreeAt, Takes, tableVars
  <1>2. CASE CasErase(t) BY <1>2 DEF CasErase, Erases, tableVars
  <1>3. CASE ClearSlot(t)
    BY <1>3 DEF ClearSlot, Clears, Slot, Shape, TypeOK
  <1>4. CASE AssignPayload(t)
    <2>1. AtWork(t) BY <1>4 DEF AssignPayload, AtWork
    <2>2. ThisSlot(t) \in Slot BY <2>1, AtAnElement
    <2> QED BY <1>4, <2>2 DEF AssignPayload, FoundStaysPut, Shape, TypeOK
  <1> QED
    BY <1>1, <1>2, <1>3, <1>4
    DEF Step, Fetch, Leave, ProbeInsert, StorePayload, WaitForPayload, LoadContent,
        ProbeAssign, ProbeErase, WipePayload, ProbeFind, ProbeForEach

\* What a step does to the thread's own knowledge.
Learns(t) ==
    /\ UNCHANGED <<op, batch>>
    /\ \A u \in Thread \ {t} : pc'[u] = pc[u] /\ elt'[u] = elt[u] /\ pos'[u] = pos[u]
    /\ (pc'[t] = "cas" \/ (pc'[t] = "probe" /\ Op(t) \in InsertCalls)) =>
          /\ UNCHANGED first
          /\ elt'[t] = elt[t]
          /\ \/ pos'[t] = 1
             \/ Inserting(t) /\ pos'[t] = pos[t]
             \/ /\ Inserting(t) /\ pos'[t] = pos[t] + 1
                /\ first[ThisSlot(t)] \notin {EmptyKey, ThisKey(t)}
    /\ pc'[t] = "assign" /\ Op(t) = "upsert" =>
          /\ UNCHANGED first
          /\ elt'[t] = elt[t] /\ pos'[t] = pos[t]
          /\ first[ThisSlot(t)] = ThisKey(t)
    /\ pc'[t] \in {"store", "assign", "wipe"} =>
          elt'[t] = elt[t] /\ pos'[t] = pos[t] /\ first'[ThisSlot(t)] # EmptyKey

\* A thread at a new element knows nothing yet.
LEMMA NextElementLearns ==
    ASSUME Shape, NEW t \in Thread, NextElement(t), UNCHANGED <<op, batch>>
    PROVE  Learns(t)
  BY DEF NextElement, Learns, Shape, TypeOK

\* A load that sends the insertion on has seen another key in the slot.
LEMMA ProbeInsertLearns ==
    ASSUME Disciplined, Shape, NEW t \in Thread, ProbeInsert(t)
    PROVE  Learns(t)
  <1>1. UNCHANGED <<op, batch, first>> /\ Inserting(t) /\ ThisKey(t) # EmptyKey
    BY AtAnElement DEF ProbeInsert, Inserting, AtWork, Disciplined
  <1>2. CASE NextElement(t) BY <1>1, <1>2, NextElementLearns
  <1>3. CASE Goto(t, "cas")
    BY <1>1, <1>3 DEF Goto, Learns, Shape, TypeOK
  <1>4. CASE AlreadyThere(t) /\ first[ThisSlot(t)] = ThisKey(t)
    BY <1>1, <1>2, <1>4 DEF AlreadyThere, Goto, Learns, Shape, TypeOK
  <1>5. CASE MoveOn(t) /\ first[ThisSlot(t)] \notin {EmptyKey, ThisKey(t)}
    BY <1>1, <1>5 DEF MoveOn, Learns, Shape, TypeOK
  <1> QED BY <1>2, <1>3, <1>4, <1>5 DEF ProbeInsert, KeepLooking, GiveUp

\* A failed compare-and-swap of a packed slot that is still empty would be
\* retried nowhere; with a blank payload it cannot fail.
LEMMA CasInsertLearns ==
    ASSUME Disciplined, Shape, FreeSlotsAreBlank, NEW t \in Thread, CasInsert(t)
    PROVE  Learns(t)
  <1>1. UNCHANGED <<op, batch>> /\ Inserting(t) /\ AtWork(t)
    BY DEF CasInsert, Inserting, AtWork
  <1>2. ThisSlot(t) \in Slot /\ ThisKey(t) # EmptyKey BY <1>1, AtAnElement DEF Disciplined
  <1>3. CASE NextElement(t) BY <1>1, <1>3, NextElementLearns
  <1>4. CASE Goto(t, "store") /\ first'[ThisSlot(t)] = ThisKey(t)
    BY <1>1, <1>2, <1>4 DEF Goto, Learns, Shape, TypeOK
  <1>5. CASE AlreadyThere(t) /\ first[ThisSlot(t)] = ThisKey(t) /\ UNCHANGED first
    BY <1>1, <1>2, <1>3, <1>5 DEF AlreadyThere, Goto, Learns, Shape, TypeOK
  <1>6. CASE /\ MoveOn(t) /\ UNCHANGED first
             /\ first[ThisSlot(t)] \notin {EmptyKey, ThisKey(t)}
    BY <1>1, <1>6 DEF MoveOn, Learns, Shape, TypeOK
  <1> QED
    BY <1>2, <1>3, <1>4, <1>5, <1>6
    DEF CasInsert, TakeSlot, FreeAt, FreeSlotsAreBlank, KeepLooking, GiveUp, tableVars,
        Shape, TypeOK

\* What a thread knows after its own step is so.
LEMMA StepLearns ==
    ASSUME Disciplined, Shape, FreeSlotsAreBlank, NEW t \in Thread, Step(t)
    PROVE  Learns(t)
  <1> USE DEF Shape, TypeOK
  <1>1. CASE NextElement(t) /\ UNCHANGED <<op, batch>> BY <1>1, NextElementLearns
  <1>2. CASE ProbeInsert(t) BY <1>2, ProbeInsertLearns
  <1>3. CASE CasInsert(t) BY <1>3, CasInsertLearns
  <1>4. CASE Fetch(t)
    <2>1. CASE Goto(t, "probe")
      BY <1>4, <2>1 DEF Fetch, Goto, Learns, WorkFitsCall, AtWork
    <2> QED BY <1>1, <1>4, <2>1 DEF Fetch
  <1>5. CASE Leave(t) BY <1>5 DEF Leave, Learns
  <1>6. CASE WaitForPayload(t) BY <1>6 DEF WaitForPayload, Goto, Learns
  <1>7. CASE ProbeAssign(t)
    <2>1. CASE Goto(t, "assign") /\ first[ThisSlot(t)] # EmptyKey
      BY <1>7, <2>1 DEF ProbeAssign, Goto, Learns
    <2>2. CASE MoveOn(t) BY <1>7, <2>2 DEF ProbeAssign, MoveOn, Learns, InsertCalls
    <2> QED BY <1>1, <1>7, <2>1, <2>2 DEF ProbeAssign, KeepLooking, GiveUp
  <1>8. CASE ProbeErase(t)
    <2>1. CASE Goto(t, "erase") BY <1>8, <2>1 DEF ProbeErase, Goto, Learns
    <2>2. CASE MoveOn(t) BY <1>8, <2>2 DEF ProbeErase, MoveOn, Learns, InsertCalls
    <2> QED BY <1>1, <1>8, <2>1, <2>2 DEF ProbeErase, KeepLooking, GiveUp
  <1>9. CASE CasErase(t)
    <2>1. AtWork(t) /\ Op(t) = "erase" /\ UNCHANGED <<op, batch>>
      BY <1>9 DEF CasErase, AtWork, WorkFitsCall
    <2>2. ThisSlot(t) \in Slot /\ "erase" \in Calls BY <2>1, AtAnElement
    <2>3. CASE Goto(t, "wipe") /\ first' = [first EXCEPT ![ThisSlot(t)] = ErasedKey]
      BY <2>1, <2>2, <2>3 DEF Goto, Learns, Disciplined, HasTombstone
    <2>4. CASE MoveOn(t) BY <2>1, <2>4 DEF MoveOn, Learns, InsertCalls
    <2> QED BY <1>1, <1>9, <2>1, <2>3, <2>4 DEF CasErase, KeepLooking, GiveUp
  <1>10. CASE ProbeFind(t)
    <2>1. CASE Goto(t, "load") BY <1>10, <2>1 DEF ProbeFind, Goto, Learns
    <2>2. CASE MoveOn(t) BY <1>10, <2>2 DEF ProbeFind, MoveOn, Learns, InsertCalls
    <2> QED BY <1>1, <1>10, <2>1, <2>2 DEF ProbeFind, KeepLooking, GiveUp
  <1>11. CASE ProbeForEach(t)
    <2>1. CASE UNCHANGED <<pc, elt>> /\ pos' = [pos EXCEPT ![t] = @ + 1]
      BY <1>11, <2>1 DEF ProbeForEach, Learns, InsertCalls
    <2>2. CASE MoveOn(t) BY <1>11, <2>2 DEF ProbeForEach, MoveOn, Learns, InsertCalls
    <2> QED BY <1>1, <1>11, <2>1, <2>2 DEF ProbeForEach, KeepLooking, GiveUp
  <1> QED
    BY <1>1, <1>2, <1>3, <1>4, <1>5, <1>6, <1>7, <1>8, <1>9, <1>10, <1>11
    DEF Step, ClearSlot, callVars, StorePayload, AssignPayload, LoadContent, WipePayload

\* A slot is free only with a blank payload, before and after.
LEMMA StepKeepsFreeSlotsBlank ==
    ASSUME Disciplined, Shape, FreeSlotsAreBlank, TouchedStaysTaken,
           NEW t \in Thread, Step(t)
    PROVE  FreeSlotsAreBlank'
  <1> USE DEF Shape, TypeOK
  <1>1. CASE UNCHANGED tableVars BY <1>1 DEF tableVars, FreeSlotsAreBlank
  <1>2. CASE ClearSlot(t) BY <1>2 DEF ClearSlot, FreeSlotsAreBlank
  <1>3. CASE CasInsert(t)
    <2>1. ThisKey(t) # EmptyKey /\ ThisSlot(t) \in Slot
      BY <1>3, AtAnElement DEF CasInsert, AtWork, Disciplined
    <2> QED BY <1>1, <1>3, <2>1 DEF CasInsert, TakeSlot, FreeSlotsAreBlank
  <1>4. CASE StorePayload(t) BY <1>4 DEF StorePayload, TouchedStaysTaken, FreeSlotsAreBlank
  <1>5. CASE AssignPayload(t)
    <2>1. ThisKey(t) # EmptyKey /\ ThisSlot(t) \in Slot
      BY <1>5, AtAnElement DEF AssignPayload, AtWork, Disciplined
    <2> QED BY <1>5, <2>1 DEF AssignPayload, TouchedStaysTaken, FreeSlotsAreBlank
  <1>6. CASE CasErase(t)
    <2>1. ThisSlot(t) \in Slot /\ "erase" \in Calls
      BY <1>6, AtAnElement DEF CasErase, AtWork, WorkFitsCall
    <2> QED BY <1>1, <1>6, <2>1 DEF CasErase, FreeSlotsAreBlank, Disciplined, HasTombstone
  <1>7. CASE WipePayload(t) BY <1>7 DEF WipePayload, FreeSlotsAreBlank
  <1> QED
    BY <1>1, <1>2, <1>3, <1>4, <1>5, <1>6, <1>7
    DEF Step, tableVars, Fetch, Leave, ProbeInsert, WaitForPayload, LoadContent,
        ProbeAssign, ProbeErase, ProbeFind, ProbeForEach

--------------------------------------------------------------------------------
(* The table itself. *)

\* Each slot is one position of each key's path.
LEMMA PathIsAPermutation ==
    ASSUME NEW k \in Key
    PROVE  /\ \A p \in Slot : Path[k][p] \in Slot
           /\ \A p, q \in Slot : Path[k][p] = Path[k][q] => p = q
           /\ \A i \in Slot : \E p \in Slot : Path[k][p] = i
  BY TableAssumption DEF TableAssumption

\* A position before a position of the path is a position of the path.
LEMMA PrefixOfPath ==
    ASSUME NEW p \in Slot, NEW q \in 1..(p - 1)
    PROVE  q \in Slot /\ q < p
  BY TableAssumption DEF TableAssumption, Slot

\* A key that an inserting thread may still place is nowhere in the table.
LEMMA TakenIsNew ==
    ASSUME Disciplined, Shape, PassedStaysTaken, Reachable, ~Clearing,
           NEW t \in Thread, Takes(t)
    PROVE  \A i \in Slot : first[i] # ThisKey(t)
  <1> DEFINE k == ThisKey(t)
  <1>1. AtWork(t) /\ Inserting(t) BY DEF Takes, AtWork, Inserting
  <1>2. k \in Key /\ pos[t] \in Slot /\ Path[k][pos[t]] = ThisSlot(t)
    BY <1>1, AtAnElement DEF ThisSlot, Shape, TypeOK
  <1> SUFFICES ASSUME NEW p \in Slot, first[Path[k][p]] = k PROVE FALSE
    BY <1>2, PathIsAPermutation
  <1>3. CASE p < pos[t]
    BY <1>1, <1>2, <1>3 DEF PassedStaysTaken, Slot
  <1>4. CASE p = pos[t] BY <1>2, <1>4 DEF Takes, Disciplined
  <1>5. CASE p > pos[t]
    <2>1. pos[t] \in 1..(p - 1) BY <1>2, <1>5 DEF Slot
    <2> QED BY <1>2, <2>1 DEF Reachable, Takes
  <1>6. p \in Int /\ pos[t] \in Int BY <1>2 DEF Slot
  <1> QED BY <1>3, <1>4, <1>5, <1>6

\* Putting a new key into a free slot, all earlier ones taken, keeps keys unique
\* and reachable.
LEMMA TakesKeepsTable ==
    ASSUME Disciplined, Shape, PassedStaysTaken, UniqueKeys, Reachable, ~Clearing,
           NEW t \in Thread, Takes(t)
    PROVE  UniqueKeys' /\ Reachable'
  <1> DEFINE k == ThisKey(t)
             i0 == ThisSlot(t)
  <1>1. AtWork(t) /\ Inserting(t) BY DEF Takes, AtWork, Inserting
  <1>2. k \in Key /\ i0 \in Slot /\ pos[t] \in Slot /\ i0 = Path[k][pos[t]]
    BY <1>1, AtAnElement DEF ThisSlot, Shape, TypeOK
  <1>3. first' = [first EXCEPT ![i0] = k] /\ first[i0] = EmptyKey BY DEF Takes
  <1>4. first \in [Slot -> SlotKeys] BY DEF Shape, TypeOK
  <1>5. \A i \in Slot : first[i] # k BY TakenIsNew
  <1>6. UniqueKeys' BY <1>2, <1>3, <1>4, <1>5 DEF UniqueKeys
  <1>7. ASSUME NEW l \in Key, NEW p \in Slot, first'[Path[l][p]] = l, NEW q \in 1..(p - 1)
        PROVE  first'[Path[l][q]] \notin {EmptyKey, l}
    <2>1. q \in Slot /\ q < p BY PrefixOfPath
    <2>2. Path[l][p] \in Slot /\ Path[l][q] \in Slot /\ Path[l][p] # Path[l][q]
      BY <2>1, PathIsAPermutation
    <2>3. CASE l = k
      <3>1. Path[k][p] = i0 BY <1>3, <1>4, <1>5, <2>2, <2>3, <1>7
      <3>2. p = pos[t]
        <4>1. \A x, y \in Slot : Path[k][x] = Path[k][y] => x = y
          BY <1>2, PathIsAPermutation
        <4> QED BY <1>2, <3>1, <4>1
      <3>3. first[Path[k][q]] \notin {EmptyKey, k}
        BY <1>1, <3>2 DEF PassedStaysTaken
      <3> QED BY <1>3, <1>4, <2>2, <2>3, <3>1, <3>3
    <2>4. CASE l # k
      <3>1. Path[l][p] # i0 /\ first[Path[l][p]] = l BY <1>2, <1>3, <1>4, <1>7, <2>2, <2>4
      <3>2. first[Path[l][q]] \notin {EmptyKey, l} BY <3>1 DEF Reachable
      <3>3. Path[l][q] # i0 BY <1>3, <3>2
      <3> QED BY <1>3, <1>4, <2>2, <3>2, <3>3
    <2> QED BY <2>3, <2>4
  <1>8. Reachable' BY <1>7 DEF Reachable
  <1> QED BY <1>6, <1>8

\* A tombstone in place of a key keeps them so.
LEMMA ErasesKeepsTable ==
    ASSUME Disciplined, Shape, UniqueKeys, Reachable, ~Clearing, NEW t \in Thread, Erases(t)
    PROVE  UniqueKeys' /\ Reachable'
  <1> DEFINE i0 == ThisSlot(t)
  <1>1. i0 \in Slot /\ "erase" \in Calls
    BY AtAnElement DEF Erases, AtWork, Shape, WorkFitsCall
  <1>2. first' = [first EXCEPT ![i0] = ErasedKey] BY DEF Erases
  <1>3. first \in [Slot -> SlotKeys] /\ ErasedKey \notin Key /\ ErasedKey # EmptyKey
    BY <1>1 DEF Shape, TypeOK, Disciplined, HasTombstone
  <1>4. UniqueKeys' BY <1>1, <1>2, <1>3 DEF UniqueKeys
  <1>5. ASSUME NEW l \in Key, NEW p \in Slot, first'[Path[l][p]] = l, NEW q \in 1..(p - 1)
        PROVE  first'[Path[l][q]] \notin {EmptyKey, l}
    <2>1. q \in Slot /\ Path[l][p] \in Slot /\ Path[l][q] \in Slot
      BY PrefixOfPath, PathIsAPermutation
    <2>2. first[Path[l][p]] = l BY <1>1, <1>2, <1>3, <1>5, <2>1
    <2>3. first[Path[l][q]] \notin {EmptyKey, l} BY <2>2 DEF Reachable
    <2> QED BY <1>1, <1>2, <1>3, <2>1, <2>3
  <1>6. Reachable' BY <1>5 DEF Reachable
  <1> QED BY <1>4, <1>6

\* While a Clear runs, no other kernel does.
LEMMA ClearIsAlone ==
    ASSUME Disciplined, Shape, OverlapKept, Clearing, NEW t \in Thread, Op(t) # "none"
    PROVE  Op(t) = "clear" /\ ~AtWork(t)
  <1>1. PICK s \in Stream : op[s] = "clear" BY DEF Clearing
  <1>2. PICK u \in Thread : StreamOf[u] = s
    <2>1. 1 \in 1..TotalThreads BY ThreadAssumption DEF ThreadAssumption
    <2> QED BY <1>1, <2>1, ThreadAssumption DEF ThreadAssumption
  <1>3. StreamOf[t] = s BY <1>1, <1>2, WhoMeetsWhom DEF Op
  <1> QED BY <1>1, <1>3 DEF Op, Shape, WorkFitsCall

\* Every step of a thread keeps keys unique and reachable.
LEMMA StepKeepsTable ==
    ASSUME Disciplined, TableInv, NEW t \in Thread, Step(t)
    PROVE  UniqueKeys' /\ Reachable'
  <1> USE DEF TableInv
  <1>1. UNCHANGED op BY StepLearns DEF Learns
  <1>2. pc[t] # "exit"
    BY DEF Step, Fetch, ClearSlot, Leave, ProbeInsert, CasInsert, StorePayload,
           AssignPayload, WaitForPayload, LoadContent, ProbeAssign, ProbeErase,
           CasErase, WipePayload, ProbeFind, ProbeForEach
  <1>3. Op(t) # "none" BY <1>2 DEF Shape, IdleThreadsRest
  <1>4. CASE UNCHANGED first BY <1>1, <1>4 DEF UniqueKeys, Reachable, Clearing
  <1>5. CASE Takes(t)
    <2>1. ~Clearing BY <1>3, <1>5, ClearIsAlone DEF Takes, AtWork
    <2> QED BY <1>5, <2>1, TakesKeepsTable
  <1>6. CASE Erases(t)
    <2>1. ~Clearing BY <1>3, <1>6, ClearIsAlone DEF Erases, AtWork
    <2> QED BY <1>6, <2>1, ErasesKeepsTable
  <1>7. CASE Clears(t)
    <2>1. UniqueKeys' BY <1>7 DEF Clears, UniqueKeys, Disciplined, Shape, TypeOK
    <2>2. Clearing' BY <1>1, <1>7, ThreadAssumption DEF ThreadAssumption, Clears, Clearing, Op
    <2> QED BY <2>1, <2>2 DEF Reachable
  <1> QED BY <1>4, <1>5, <1>6, <1>7, StepOnTable

--------------------------------------------------------------------------------
(* What the threads know stays true. *)

\* A key a working thread cares about: a slot that is neither empty nor of key
\* k stays so unless the table is cleared, and a slot of key k stays k's
\* unless it is erased.
LEMMA TakenStaysTaken ==
    ASSUME Disciplined, TableInv, NEW t \in Thread, Step(t), ~Clearing, NEW i \in Slot
    PROVE  /\ first[i] # EmptyKey => first'[i] # EmptyKey
           /\ \A k \in Key : first[i] \notin {EmptyKey, k} => first'[i] \notin {EmptyKey, k}
           /\ \A k \in Key : first[i] = k /\ Op(t) # "erase" => first'[i] = k
  <1> USE DEF TableInv
  <1>1. ErasedKey \notin Key /\ EmptyKey \notin Key BY DEF Disciplined
  <1>2. first \in [Slot -> SlotKeys] BY DEF Shape, TypeOK
  <1>3. CASE UNCHANGED first BY <1>3
  <1>4. CASE Takes(t)
    <2>1. ThisKey(t) \in Key /\ ThisSlot(t) \in Slot BY <1>4, AtAnElement DEF Takes, AtWork
    <2> QED BY <1>1, <1>2, <1>4, <2>1 DEF Takes
  <1>5. CASE Erases(t)
    <2>1. ThisKey(t) \in Key /\ ThisSlot(t) \in Slot BY <1>5, AtAnElement DEF Erases, AtWork
    <2>2. Op(t) = "erase" BY <1>5 DEF Erases, Shape, WorkFitsCall
    <2>3. "erase" \in Calls BY <1>5, <2>2, AtAnElement DEF Erases, AtWork
    <2>4. ErasedKey # EmptyKey BY <2>3 DEF Disciplined, HasTombstone
    <2> QED BY <1>1, <1>2, <1>5, <2>1, <2>2, <2>4 DEF Erases
  <1>6. CASE Clears(t)
    BY <1>6, ThreadAssumption, Zenon DEF ThreadAssumption, Clears, Clearing, Op
  <1> QED BY <1>3, <1>4, <1>5, <1>6, StepOnTable

\* The element of a thread that stands still is the same one.
LEMMA SameElement ==
    ASSUME Shape, NEW t \in Thread, NEW u \in Thread, Learns(t), elt'[u] = elt[u]
    PROVE  /\ Op(u)' = Op(u) /\ Elem(u)' = Elem(u) /\ ThisKey(u)' = ThisKey(u)
           /\ pos'[u] = pos[u] => ThisSlot(u)' = ThisSlot(u)
  BY DEF Learns, Op, Elem, ThisKey, ThisSlot

\* What a thread knows survives the steps of the others.
LEMMA StepKeepsKnowledge ==
    ASSUME Disciplined, TableInv, NEW t \in Thread, Step(t)
    PROVE  PassedStaysTaken' /\ FoundStaysPut' /\ TouchedStaysTaken'
  <1> USE DEF TableInv
  <1>1. Learns(t) BY StepLearns
  <1>2. UNCHANGED <<op, batch>> BY <1>1 DEF Learns
  <1>3. Shape' BY StepKeepsShape
  <1>4. ASSUME NEW u \in Thread, AtWork(u), u # t
        PROVE  /\ AtWork(u)' /\ ~Clearing /\ Op(u)' = Op(u) /\ ThisKey(u)' = ThisKey(u)
               /\ ThisSlot(u)' = ThisSlot(u)
               /\ pc'[u] = pc[u] /\ pos'[u] = pos[u]
    <2>1. pc'[u] = pc[u] /\ elt'[u] = elt[u] /\ pos'[u] = pos[u] BY <1>1, <1>4 DEF Learns
    <2>2. ~Clearing BY <1>4, AtAnElement, ClearIsAlone, CallAssumption
      DEF AtWork, IdleThreadsRest, Shape
    <2> QED BY <1>1, <1>4, <2>1, <2>2, SameElement DEF AtWork
  <1>5. PassedStaysTaken'
    <2> SUFFICES ASSUME NEW u \in Thread, Inserting(u)', NEW q \in 1..(pos'[u] - 1)
                 PROVE  first'[Path[ThisKey(u)'][q]] \notin {EmptyKey, ThisKey(u)'}
      BY DEF PassedStaysTaken
    <2>1. pos'[u] \in Slot BY <1>3 DEF Shape, TypeOK
    <2>2. CASE u # t
      <3>1. AtWork(u) /\ Inserting(u) BY <1>1, <1>2, <2>2 DEF Inserting, AtWork, Learns, Op
      <3>2. /\ ~Clearing /\ ThisKey(u)' = ThisKey(u) /\ pos'[u] = pos[u]
        BY <1>4, <2>2, <3>1
      <3>3. first[Path[ThisKey(u)][q]] \notin {EmptyKey, ThisKey(u)}
        BY <3>1, <3>2 DEF PassedStaysTaken
      <3>4. ThisKey(u) \in Key BY <3>1, AtAnElement
      <3>5. Path[ThisKey(u)][q] \in Slot
        BY <2>1, <3>4, PrefixOfPath, PathIsAPermutation
      <3> QED BY <3>2, <3>3, <3>4, <3>5, TakenStaysTaken
    <2>3. CASE u = t
      <3>1. /\ UNCHANGED first /\ elt'[t] = elt[t]
            /\ \/ pos'[t] = 1
               \/ Inserting(t) /\ pos'[t] = pos[t]
               \/ /\ Inserting(t) /\ pos'[t] = pos[t] + 1
                  /\ first[ThisSlot(t)] \notin {EmptyKey, ThisKey(t)}
        BY <1>1, <1>2, <2>3 DEF Learns, Inserting, Op
      <3>2. ThisKey(t)' = ThisKey(t) BY <1>1, <3>1, SameElement
      <3>3. pos'[t] # 1 BY <2>3, <2>1 DEF Slot
      <3>4. CASE q < pos[t] /\ Inserting(t)
        <4>1. q \in 1..(pos[t] - 1) BY <3>4 DEF Shape, TypeOK, Slot
        <4> QED BY <2>3, <3>1, <3>2, <3>4, <4>1 DEF PassedStaysTaken
      <3>5. CASE q = pos[t] /\ first[ThisSlot(t)] \notin {EmptyKey, ThisKey(t)}
        BY <2>3, <3>1, <3>2, <3>5 DEF ThisSlot
      <3>6. pos[t] \in Int BY DEF Shape, TypeOK, Slot
      <3> QED BY <2>3, <3>1, <3>3, <3>4, <3>5, <3>6
    <2> QED BY <2>2, <2>3
  <1>6. FoundStaysPut'
    <2> SUFFICES ASSUME NEW u \in Thread, pc'[u] = "assign", Op(u)' = "upsert"
                 PROVE  first'[ThisSlot(u)'] = ThisKey(u)'
      BY DEF FoundStaysPut
    <2>1. CASE u # t
      <3>1. AtWork(u) /\ pc[u] = "assign" /\ Op(u) = "upsert"
        BY <1>1, <1>2, <2>1 DEF Learns, AtWork, Op
      <3>2. ~Clearing /\ ThisKey(u)' = ThisKey(u) /\ ThisSlot(u)' = ThisSlot(u)
        BY <1>4, <2>1, <3>1
      <3>3. Op(t) # "erase" BY <3>1, WhoMeetsWhom
      <3>4. ThisKey(u) \in Key /\ ThisSlot(u) \in Slot BY <3>1, AtAnElement
      <3> QED BY <3>1, <3>2, <3>3, <3>4, TakenStaysTaken DEF FoundStaysPut
    <2>2. CASE u = t
      BY <1>1, <1>2, <2>2, SameElement DEF Learns, Op
    <2> QED BY <2>1, <2>2
  <1>7. TouchedStaysTaken'
    <2> SUFFICES ASSUME NEW u \in Thread, pc'[u] \in {"store", "assign", "wipe"}
                 PROVE  first'[ThisSlot(u)'] # EmptyKey
      BY DEF TouchedStaysTaken
    <2>1. CASE u # t
      <3>1. AtWork(u) /\ pc[u] \in {"store", "assign", "wipe"}
        BY <1>1, <2>1 DEF Learns, AtWork
      <3>2. ~Clearing /\ ThisSlot(u)' = ThisSlot(u) BY <1>4, <2>1, <3>1
      <3>3. ThisSlot(u) \in Slot BY <3>1, AtAnElement
      <3> QED BY <3>1, <3>2, <3>3, TakenStaysTaken DEF TouchedStaysTaken
    <2>2. CASE u = t
      BY <1>1, <2>2, SameElement DEF Learns
    <2> QED BY <2>1, <2>2
  <1> QED BY <1>5, <1>6, <1>7

--------------------------------------------------------------------------------
(* The grid-stride loop of Clear reaches every slot. *)

\* Division with a remainder, as the solver needs it.
LEMMA Division ==
    ASSUME NEW a \in Nat, NEW b \in Nat \ {0}
    PROVE  /\ a = b * (a \div b) + (a % b)
           /\ a % b \in 0..(b - 1)
           /\ a \div b \in 0..a
  <1>1. a = b * (a \div b) + (a % b) BY SMT
  <1>2. a % b \in 0..(b - 1) BY SMT
  <1>3. a \div b \in 0..a BY SMT
  <1> QED BY <1>1, <1>2, <1>3

\* Every slot is an iteration of one of the threads.
LEMMA StrideReachesAll ==
    ASSUME NEW i \in Slot
    PROVE  \E r \in 1..TotalThreads : \E m \in 0..N : i = r + m * TotalThreads
  <1> DEFINE T == TotalThreads
             d == (i - 1) \div T
  <1>1. T \in Nat \ {0} /\ N \in Nat /\ i - 1 \in Nat /\ i - 1 < N
    BY TableAssumption, ThreadAssumption DEF TableAssumption, ThreadAssumption, Slot
  <1>2. i - 1 = T * d + ((i - 1) % T) BY <1>1, Division
  <1>3. (i - 1) % T \in 0..(T - 1) BY <1>1, Division
  <1>4. d \in 0..(i - 1) BY <1>1, Division
  <1>5. d \in 0..N BY <1>1, <1>4
  <1>6. ((i - 1) % T) + 1 \in 1..T BY <1>1, <1>3
  <1>7. i \in Int /\ T * d = d * T BY <1>1, <1>5 DEF Slot
  <1>8. i = (((i - 1) % T) + 1) + d * T BY <1>2, <1>3, <1>7, <1>1, <1>5
  <1> QED BY <1>5, <1>6, <1>8

\* One stride further, one iteration fewer to go.
LEMMA StrideStep ==
    ASSUME NEW e \in Nat, NEW m \in 0..N, m # 0
    PROVE  m - 1 \in 0..N /\ e + m * TotalThreads = (e + TotalThreads) + (m - 1) * TotalThreads
  <1>1. TotalThreads \in Nat /\ N \in Nat
    BY TableAssumption, ThreadAssumption DEF TableAssumption, ThreadAssumption
  <1> QED BY <1>1

\* Strides lead forward.
LEMMA StrideGrows ==
    ASSUME NEW e \in Nat, NEW m \in 0..N
    PROVE  e + m * TotalThreads >= e
  <1>1. TotalThreads \in Nat /\ m \in Nat
    BY TableAssumption, ThreadAssumption DEF TableAssumption, ThreadAssumption
  <1>2. m * TotalThreads \in Nat BY <1>1
  <1> QED BY <1>2

Coming(s, i) ==
    \E t \in Thread : /\ StreamOf[t] = s /\ pc[t] = "fetch"
                      /\ \E m \in 0..N : i = elt[t] + m * TotalThreads

\* A step of Clear empties the slot that its thread leaves behind.
LEMMA StepKeepsClearing ==
    ASSUME Disciplined, TableInv, NEW t \in Thread, Step(t)
    PROVE  ClearLeavesNone'
  <1> USE DEF TableInv
  <1>1. Learns(t) BY StepLearns
  <1>2. UNCHANGED op BY <1>1 DEF Learns
  <1> SUFFICES ASSUME NEW s \in Stream, op[s] = "clear", NEW i \in Slot
               PROVE  first'[i] = EmptyKey \/ Coming(s, i)'
    BY <1>2 DEF ClearLeavesNone, Coming
  <1>3. Clearing BY DEF Clearing
  <1>4. pc[t] # "exit"
    BY DEF Step, Fetch, ClearSlot, Leave, ProbeInsert, CasInsert, StorePayload,
           AssignPayload, WaitForPayload, LoadContent, ProbeAssign, ProbeErase,
           CasErase, WipePayload, ProbeFind, ProbeForEach
  <1>5. Op(t) = "clear" /\ ~AtWork(t)
    BY <1>3, <1>4, ClearIsAlone DEF Shape, IdleThreadsRest
  <1>6. elt[t] \in Nat /\ i \in 1..N /\ elt \in [Thread -> Nat \ {0}]
        /\ pc \in [Thread -> {"exit", "fetch", "probe", "cas", "store", "assign",
                              "erase", "wipe", "wait", "load"}]
    BY DEF Shape, TypeOK, Slot
  <1>7. first[i] = EmptyKey \/ Coming(s, i) BY DEF ClearLeavesNone, Coming
  <1>8. CASE ClearSlot(t)
    <2>1. first'[i] = first[i] \/ first'[i] = EmptyKey
      BY <1>8 DEF ClearSlot, Shape, TypeOK
    <2>2. CASE Coming(s, i)
      <3>1. PICK u \in Thread : /\ StreamOf[u] = s /\ pc[u] = "fetch"
                                /\ \E m \in 0..N : i = elt[u] + m * TotalThreads
        BY <2>2 DEF Coming
      <3>2. PICK m \in 0..N : i = elt[u] + m * TotalThreads BY <3>1
      <3>3. CASE u # t
        <4>1. pc'[u] = pc[u] /\ elt'[u] = elt[u] BY <1>1, <3>3 DEF Learns
        <4> QED BY <3>1, <3>2, <4>1 DEF Coming
      <3>4. CASE u = t /\ m = 0
        <4>1. i = elt[t]
          BY <1>6, <3>2, <3>4, ThreadAssumption DEF ThreadAssumption
        <4> QED BY <1>8, <4>1 DEF ClearSlot, Shape, TypeOK
      <3>5. CASE u = t /\ m # 0
        <4>1. pc'[t] = "fetch" /\ elt'[t] = elt[t] + TotalThreads
          BY <1>6, <1>8 DEF ClearSlot, NextElement
        <4>2. m - 1 \in 0..N /\ i = elt'[t] + (m - 1) * TotalThreads
          BY <1>6, <3>2, <3>5, <4>1, StrideStep
        <4> QED BY <3>1, <3>5, <4>1, <4>2 DEF Coming
      <3> QED BY <3>3, <3>4, <3>5
    <2> QED BY <1>7, <2>1, <2>2
  <1>9. CASE Leave(t)
    <2>1. UNCHANGED first BY <1>9 DEF Leave
    <2>2. CASE Coming(s, i)
      <3>1. PICK u \in Thread : /\ StreamOf[u] = s /\ pc[u] = "fetch"
                                /\ \E m \in 0..N : i = elt[u] + m * TotalThreads
        BY <2>2 DEF Coming
      <3>2. PICK m \in 0..N : i = elt[u] + m * TotalThreads BY <3>1
      <3>3. u # t
        <4>1. elt[t] > N BY <1>5, <1>9 DEF Leave, Limit, Op
        <4>2. elt[u] \in Nat BY <1>6
        <4>3. i >= elt[u] BY <3>2, <4>2, StrideGrows
        <4> QED BY <1>6, <4>1, <4>3, TableAssumption DEF TableAssumption
      <3>4. pc'[u] = pc[u] /\ elt'[u] = elt[u] BY <1>1, <3>3 DEF Learns
      <3> QED BY <3>1, <3>2, <3>4 DEF Coming
    <2> QED BY <1>7, <2>1, <2>2
  <1> QED
    BY <1>5, <1>8, <1>9
    DEF Step, Fetch, ProbeInsert, CasInsert, StorePayload, AssignPayload,
        WaitForPayload, LoadContent, ProbeAssign, ProbeErase, CasErase,
        WipePayload, ProbeFind, ProbeForEach, AtWork

\* A step of a thread keeps the invariant.
LEMMA StepKeepsInv ==
    ASSUME Disciplined, TableInv, NEW t \in Thread, Step(t)
    PROVE  TableInv'
  <1>1. Shape' BY StepKeepsShape DEF TableInv
  <1>2. OverlapKept' BY StepLearns DEF TableInv, Learns, OverlapKept
  <1>3. FreeSlotsAreBlank' BY StepKeepsFreeSlotsBlank DEF TableInv
  <1> QED
    BY <1>1, <1>2, <1>3, StepKeepsKnowledge, StepKeepsTable, StepKeepsClearing
    DEF TableInv

--------------------------------------------------------------------------------
(* The host's steps. *)

\* A launch keeps it: the callers let only some kernels overlap.
LEMMA LaunchKeepsInv ==
    ASSUME Disciplined, TableInv, NEW s \in Stream, NEW o \in Calls, NEW b \in Batches(o),
           Launch(s, o, b)
    PROVE  TableInv'
  <1> USE DEF TableInv
  <1>1. Shape' BY LaunchKeepsShape
  <1>2. op \in [Stream -> Calls \cup {"none"}] /\ op' = [op EXCEPT ![s] = o]
        /\ op[s] = "none" /\ UNCHANGED first /\ UNCHANGED second
    BY DEF Launch, Shape, TypeOK
  <1>3. Calls \subseteq Ops /\ o \in Ops /\ o # "none"
    BY CallAssumption DEF CallAssumption, Ops, InsertCalls
  <1>4. ASSUME NEW t \in Thread
        PROVE  IF StreamOf[t] = s
               THEN /\ pc[t] = "exit" /\ pc'[t] = "fetch" /\ elt'[t] = Rank[t]
               ELSE /\ pc'[t] = pc[t] /\ elt'[t] = elt[t] /\ pos'[t] = pos[t]
                    /\ Op(t)' = Op(t) /\ Elem(t)' = Elem(t)
    <2>1. StreamOf[t] \in Stream BY ThreadAssumption DEF ThreadAssumption
    <2>2. CASE StreamOf[t] = s
      BY <2>2 DEF Launch, Shape, IdleThreadsRest, Op
    <2>3. CASE StreamOf[t] # s
      BY <2>1, <2>3 DEF Launch, Shape, TypeOK, Op, Elem
    <2> QED BY <2>2, <2>3
  <1>5. OverlapKept'
    <2> SUFFICES ASSUME NEW r \in Stream, NEW q \in Stream, r # q,
                        op'[r] # "none", op'[q] # "none"
                 PROVE  <<op'[r], op'[q]>> \in MayOverlap
      BY DEF OverlapKept
    <2>1. CASE r # s /\ q # s BY <1>2, <2>1 DEF OverlapKept
    <2>2. CASE q = s BY <1>2, <2>2 DEF Launch, Compatible
    <2>3. CASE r = s
      <3>1. <<op[q], o>> \in MayOverlap /\ op[q] \in Ops
        BY <1>2, <1>3, <2>3 DEF Launch, Compatible
      <3> QED BY <1>2, <1>3, <2>3, <3>1 DEF Disciplined
    <2> QED BY <2>1, <2>2, <2>3
  <1>6. PassedStaysTaken' /\ FoundStaysPut' /\ TouchedStaysTaken'
    BY <1>2, <1>4 DEF PassedStaysTaken, FoundStaysPut, TouchedStaysTaken,
                      Inserting, ThisSlot, ThisKey
  <1>7. ClearLeavesNone'
    <2> SUFFICES ASSUME NEW r \in Stream, op'[r] = "clear", NEW i \in Slot
                 PROVE  first'[i] = EmptyKey \/ Coming(r, i)'
      BY DEF ClearLeavesNone, Coming
    <2>1. CASE r = s
      <3>1. PICK k \in 1..TotalThreads : \E m \in 0..N : i = k + m * TotalThreads
        BY StrideReachesAll
      <3>2. PICK t \in Thread : StreamOf[t] = s /\ Rank[t] = k
        BY ThreadAssumption DEF ThreadAssumption
      <3>3. pc'[t] = "fetch" /\ elt'[t] = k BY <1>4, <3>2
      <3> QED BY <2>1, <3>1, <3>2, <3>3 DEF Coming
    <2>2. CASE r # s
      <3>1. first[i] = EmptyKey \/ Coming(r, i)
        BY <1>2, <2>2 DEF ClearLeavesNone, Coming
      <3> QED BY <1>2, <1>4, <2>2, <3>1 DEF Coming
    <2> QED BY <2>1, <2>2
  <1>8. Clearing => Clearing' BY <1>2 DEF Clearing
  <1>9. UniqueKeys' /\ Reachable' /\ FreeSlotsAreBlank'
    BY <1>2, <1>8 DEF UniqueKeys, Reachable, FreeSlotsAreBlank
  <1> QED BY <1>1, <1>5, <1>6, <1>7, <1>9

\* A Clear that has ended has emptied every slot.
LEMMA CompleteKeepsInv ==
    ASSUME Disciplined, TableInv, NEW s \in Stream, Complete(s)
    PROVE  TableInv'
  <1> USE DEF TableInv
  <1>1. Shape' BY CompleteKeepsShape
  <1>2. /\ op \in [Stream -> Calls \cup {"none"}] /\ op' = [op EXCEPT ![s] = "none"]
        /\ \A t \in Thread : StreamOf[t] = s => pc[t] = "exit"
        /\ UNCHANGED <<first, second, batch, pc, elt, pos>>
    BY DEF Complete, threadVars, Shape, TypeOK
  <1>3. OverlapKept' BY <1>2 DEF OverlapKept
  <1>4. ASSUME NEW t \in Thread, StreamOf[t] # s PROVE Op(t)' = Op(t)
    BY <1>2, <1>4, ThreadAssumption, Zenon DEF ThreadAssumption, Op
  <1>5. PassedStaysTaken' /\ FoundStaysPut' /\ TouchedStaysTaken'
    BY <1>2, <1>4 DEF PassedStaysTaken, FoundStaysPut, TouchedStaysTaken,
                      Inserting, ThisSlot, ThisKey, Elem
  <1>6. ClearLeavesNone' BY <1>2 DEF ClearLeavesNone
  <1>7. UniqueKeys' /\ FreeSlotsAreBlank' BY <1>2 DEF UniqueKeys, FreeSlotsAreBlank
  <1>8. Reachable'
    <2>1. CASE op[s] = "clear"
      <3>1. \A i \in Slot : first[i] = EmptyKey BY <1>2, <2>1 DEF ClearLeavesNone
      <3> QED BY <1>2, <3>1, PathIsAPermutation DEF Reachable, Disciplined
    <2>2. CASE op[s] # "clear"
      <3>1. Clearing => Clearing' BY <1>2, <2>2 DEF Clearing
      <3> QED BY <1>2, <3>1 DEF Reachable
    <2> QED BY <2>1, <2>2
  <1> QED BY <1>1, <1>3, <1>5, <1>6, <1>7, <1>8

\* Taking the answer keeps the invariant.
LEMMA TakeAnswerKeepsInv ==
    ASSUME TableInv, NEW s \in Stream, TakeAnswer(s)
    PROVE  TableInv'
  <1> USE DEF TableInv
  <1>1. Shape' BY TakeAnswerKeepsShape
  <1>2. UNCHANGED <<first, second, op, pc, elt, pos>> BY DEF TakeAnswer, threadVars
  <1>3. OverlapKept' /\ ClearLeavesNone' /\ UniqueKeys' /\ Reachable' /\ FreeSlotsAreBlank'
    BY <1>2 DEF OverlapKept, ClearLeavesNone, UniqueKeys, Reachable, Clearing,
                FreeSlotsAreBlank
  <1>4. ASSUME NEW t \in Thread, AtWork(t) PROVE Elem(t)' = Elem(t)
    <2>1. StreamOf[t] \in Stream /\ StreamOf[t] # s
      BY <1>4, ThreadAssumption
      DEF ThreadAssumption, TakeAnswer, Shape, IdleThreadsRest, Op, AtWork
    <2> QED BY <1>2, <2>1 DEF TakeAnswer, Elem, Shape, TypeOK
  <1>5. PassedStaysTaken' /\ FoundStaysPut' /\ TouchedStaysTaken'
    BY <1>2, <1>4 DEF PassedStaysTaken, FoundStaysPut, TouchedStaysTaken, AtWork,
                      Inserting, ThisSlot, ThisKey, Op
  <1> QED BY <1>1, <1>3, <1>5

--------------------------------------------------------------------------------
\* The empty table has it.
LEMMA InitHasInv == Disciplined /\ Init => TableInv
  <1> SUFFICES ASSUME Disciplined, Init PROVE TableInv OBVIOUS
  <1>1. Shape BY InitHasShape
  <1>2. \A i \in Slot : first[i] = EmptyKey /\ second[i] = EmptyVal BY DEF Init
  <1>3. EmptyKey \notin Key BY DEF Disciplined
  <1>4. UniqueKeys /\ Reachable /\ FreeSlotsAreBlank
    BY <1>2, <1>3, PathIsAPermutation DEF UniqueKeys, Reachable, FreeSlotsAreBlank
  <1>5. OverlapKept /\ ClearLeavesNone BY DEF Init, OverlapKept, ClearLeavesNone
  <1>6. PassedStaysTaken /\ FoundStaysPut /\ TouchedStaysTaken
    BY DEF Init, PassedStaysTaken, FoundStaysPut, TouchedStaysTaken, Inserting
  <1> QED BY <1>1, <1>4, <1>5, <1>6 DEF TableInv

\* The invariant is inductive.
LEMMA NextKeepsInv == Disciplined /\ TableInv /\ [Next]_vars => TableInv'
  <1> SUFFICES ASSUME Disciplined, TableInv, [Next]_vars PROVE TableInv' OBVIOUS
  <1>1. CASE UNCHANGED vars
    <2> USE <1>1 DEF vars, TableInv
    <2>1. Shape' BY NextKeepsShape
    <2>2. OverlapKept' /\ ClearLeavesNone' BY SMTT(40) DEF OverlapKept, ClearLeavesNone
    <2>3. PassedStaysTaken' /\ FoundStaysPut' /\ TouchedStaysTaken'
      BY DEF PassedStaysTaken, FoundStaysPut, TouchedStaysTaken, Inserting,
             ThisSlot, ThisKey, Elem, Op
    <2>4. UniqueKeys' /\ Reachable' /\ FreeSlotsAreBlank'
      BY DEF UniqueKeys, Reachable, Clearing, FreeSlotsAreBlank
    <2> QED BY <2>1, <2>2, <2>3, <2>4
  <1>2. CASE Next
    BY <1>2, StepKeepsInv, LaunchKeepsInv, CompleteKeepsInv, TakeAnswerKeepsInv DEF Next
  <1> QED BY <1>1, <1>2

\* The inductive invariant holds throughout, for every table, probe paths, number
\* of streams and threads, as long as the callers keep the discipline.
THEOREM TableIsInvariant == Disciplined => (Spec => []TableInv)
  <1> SUFFICES ASSUME Disciplined PROVE Spec => []TableInv OBVIOUS
  <1>1. Init => TableInv BY InitHasInv
  <1>2. TableInv /\ [Next]_vars => TableInv' BY NextKeepsInv
  <1> QED BY <1>1, <1>2, PTL DEF Spec

\* Whatever the size of the table, the number of threads and streams and the
\* way they interleave: no two slots ever hold the same key.
THEOREM KeysAreUnique == Disciplined => (Spec => []UniqueKeys)
  <1> SUFFICES ASSUME Disciplined PROVE Spec => []UniqueKeys OBVIOUS
  <1>1. Spec => []TableInv BY TableIsInvariant
  <1>2. TableInv => UniqueKeys BY DEF TableInv
  <1> QED BY <1>1, <1>2, PTL

\* ... a stored key is never cut off from its probe path by an empty slot,
\* concurrent erasures included, and a finished Clear leaves nothing behind.
THEOREM KeysAreReachable == Disciplined => (Spec => []Reachable)
  <1> SUFFICES ASSUME Disciplined PROVE Spec => []Reachable OBVIOUS
  <1>1. Spec => []TableInv BY TableIsInvariant
  <1>2. TableInv => Reachable BY DEF TableInv
  <1> QED BY <1>1, <1>2, PTL

\* ... and a free slot is recognised by the packed compare-and-swap.
THEOREM FreeSlotsStayBlank == Disciplined => (Spec => []FreeSlotsAreBlank)
  <1> SUFFICES ASSUME Disciplined PROVE Spec => []FreeSlotsAreBlank OBVIOUS
  <1>1. Spec => []TableInv BY TableIsInvariant
  <1>2. TableInv => FreeSlotsAreBlank BY DEF TableInv
  <1> QED BY <1>1, <1>2, PTL

\* What a slot may turn into.
SlotMoves(i) ==
    \/ first'[i] = first[i]
    \/ first[i] = EmptyKey
    \/ first[i] \in Key /\ first'[i] = ErasedKey
    \/ Clearing

\* A step of a thread leaves a slot its key, takes a free one, or erases.
LEMMA StepGivesOnce ==
    ASSUME TableInv, NEW t \in Thread, Step(t), NEW i \in Slot
    PROVE  SlotMoves(i)
  <1> USE DEF TableInv, SlotMoves
  <1>1. CASE UNCHANGED first BY <1>1
  <1>2. CASE Takes(t)
    <2>1. ThisSlot(t) \in Slot BY <1>2, AtAnElement DEF Takes, AtWork
    <2> QED BY <1>2, <2>1 DEF Takes, Shape, TypeOK
  <1>3. CASE Erases(t)
    <2>1. ThisSlot(t) \in Slot /\ ThisKey(t) \in Key
      BY <1>3, AtAnElement DEF Erases, AtWork
    <2> QED BY <1>3, <2>1 DEF Erases, Shape, TypeOK
  <1>4. CASE Clears(t)
    BY <1>4, ThreadAssumption DEF ThreadAssumption, Clears, Clearing, Op
  <1> QED BY <1>1, <1>2, <1>3, <1>4, StepOnTable

\* ... and no slot goes from one key to another, nor back from the tombstone
\* to a key, until a Clear.
THEOREM SlotsGivenOnce == Disciplined => (Spec => SlotsAreGivenOnce)
  <1> SUFFICES ASSUME Disciplined PROVE Spec => SlotsAreGivenOnce OBVIOUS
  <1>1. Spec => []TableInv BY TableIsInvariant
  <1>2. ASSUME TableInv, [Next]_vars PROVE [\A i \in Slot : SlotMoves(i)]_vars
    <2>1. CASE UNCHANGED vars BY <2>1
    <2>2. CASE \E t \in Thread : Step(t) BY <1>2, <2>2, StepGivesOnce
    <2>3. CASE UNCHANGED first BY <2>3 DEF SlotMoves
    <2> QED BY <1>2, <2>1, <2>2, <2>3 DEF Next, Launch, Complete, TakeAnswer
  <1>3. TableInv /\ [Next]_vars =>
            [\A i \in Slot :
               \/ first'[i] = first[i]
               \/ first[i] = EmptyKey
               \/ first[i] \in Key /\ first'[i] = ErasedKey
               \/ Clearing]_vars
    BY <1>2 DEF SlotMoves
  <1> QED BY <1>1, <1>3, PTL DEF Spec, SlotsAreGivenOnce

--------------------------------------------------------------------------------
(* InsertAndFind answers with a payload. *)

\* An InsertAndFind never meets an Erase nor a Clear.
LEMMA FindersAreSafe ==
    ASSUME Disciplined, PayloadsLast, TableInv, NEW t \in Thread, Op(t) # "none",
           NEW s \in Stream, op[s] = "insertfind"
    PROVE  Op(t) # "erase" /\ ~Clearing
  <1> USE DEF TableInv
  <1>1. StreamOf[t] \in Stream BY ThreadAssumption DEF ThreadAssumption
  <1>2. "insertfind" \in Ops /\ "erase" \in Ops BY DEF Ops, InsertCalls
  <1>3. ASSUME Op(t) = "erase" PROVE FALSE
    <2>1. <<op[s], op[StreamOf[t]]>> \in MayOverlap
      BY <1>1, <1>3 DEF OverlapKept, Op
    <2> QED BY <1>3, <2>1 DEF PayloadsLast, Op
  <1>4. ASSUME Clearing PROVE FALSE
    <2>1. PICK u \in Thread : StreamOf[u] = s
      <3>1. 1 \in 1..TotalThreads BY ThreadAssumption DEF ThreadAssumption
      <3> QED BY <3>1, ThreadAssumption DEF ThreadAssumption
    <2>2. Op(u) = "insertfind" BY <2>1 DEF Op
    <2> QED BY <1>4, <2>2, ClearIsAlone
  <1> QED BY <1>3, <1>4

\* An insertion whose last slot is another key's has seen a table without a
\* free slot and without its key.
LEMMA PassedAll ==
    ASSUME Shape, PassedStaysTaken, NEW t \in Thread, Inserting(t), AtWork(t),
           ~(pos[t] < N), first[ThisSlot(t)] \notin {EmptyKey, ThisKey(t)}
    PROVE  \A j \in Slot : first[j] \notin {EmptyKey, ThisKey(t)}
  <1>1. ThisKey(t) \in Key /\ pos[t] \in Slot /\ N \in Nat
    BY AtAnElement, TableAssumption DEF TableAssumption, Shape, TypeOK
  <1> SUFFICES ASSUME NEW p \in Slot
               PROVE  first[Path[ThisKey(t)][p]] \notin {EmptyKey, ThisKey(t)}
    BY <1>1, PathIsAPermutation
  <1>2. CASE p = N
    <2>1. p = pos[t] BY <1>1, <1>2 DEF Slot
    <2> QED BY <2>1 DEF ThisSlot
  <1>3. CASE p # N
    <2>1. p \in 1..(pos[t] - 1) BY <1>1, <1>3 DEF Slot
    <2> QED BY <2>1 DEF PassedStaysTaken
  <1> QED BY <1>2, <1>3

\* What an InsertAndFind writes is a payload, unless the table is full.
LEMMA StepAnswers ==
    ASSUME Disciplined, PayloadsLast, TableInv, AnswersInv, NEW t \in Thread, Step(t),
           Op(t) = "insertfind"
    PROVE  \/ UNCHANGED out
           \/ \E v \in Payload \cup SlotKeys, f \in {"yes", "no"} :
                /\ Answer(t, v, f) /\ elt[t] \in 1..Len(batch[StreamOf[t]])
                /\ v = Nothing /\ f = "no" =>
                      \A j \in Slot : first[j] \notin {EmptyKey, ThisKey(t)}
  <1> USE DEF TableInv
  <1> DEFINE Goal == \/ UNCHANGED out
           \/ \E v \in Payload \cup SlotKeys, f \in {"yes", "no"} :
                /\ Answer(t, v, f) /\ elt[t] \in 1..Len(batch[StreamOf[t]])
                /\ v = Nothing /\ f = "no" =>
                      \A j \in Slot : first[j] \notin {EmptyKey, ThisKey(t)}
  <1>1. CASE ProbeInsert(t)
    <2>1. AtWork(t) /\ Inserting(t) BY <1>1 DEF ProbeInsert, AtWork, Inserting
    <2>2. CASE UNCHANGED out BY <2>2
    <2>3. CASE KeepLooking(t) /\ first[ThisSlot(t)] \notin {EmptyKey, ThisKey(t)}
      <3>1. CASE pos[t] < N BY <2>3, <3>1 DEF KeepLooking, MoveOn
      <3>2. CASE ~(pos[t] < N)
        <4>1. Answer(t, Nothing, "no") BY <2>3, <3>2 DEF KeepLooking, GiveUp
        <4>2. \A j \in Slot : first[j] \notin {EmptyKey, ThisKey(t)}
          BY <2>1, <2>3, <3>2, PassedAll
        <4>3. Nothing \in Payload \cup SlotKeys BY DEF Nothing, Payload, SlotKeys
        <4> QED BY <2>1, <4>1, <4>2, <4>3, AtAnElement
      <3> QED BY <3>1, <3>2
    <2> QED BY <1>1, <2>2, <2>3 DEF ProbeInsert, AlreadyThere
  <1>2. CASE CasInsert(t)
    <2>1. AtWork(t) /\ Inserting(t) BY <1>2 DEF CasInsert, AtWork, Inserting
    <2>2. CASE UNCHANGED out BY <2>2
    <2>3. CASE Answer(t, Elem(t).val, "yes")
      <3>1. Elem(t).val \in Payload \cup SlotKeys
        BY <2>1, AtAnElement, ElementsCarry DEF Payload, SlotKeys
      <3> QED BY <2>1, <2>3, <3>1, AtAnElement
    <2>4. CASE KeepLooking(t) /\ ~FreeAt(ThisSlot(t)) /\ first[ThisSlot(t)] # ThisKey(t)
      <3>1. ThisSlot(t) \in Slot BY <2>1, AtAnElement
      <3>2. first[ThisSlot(t)] \notin {EmptyKey, ThisKey(t)}
        BY <2>4, <3>1 DEF FreeAt, FreeSlotsAreBlank
      <3>3. CASE pos[t] < N BY <2>4, <3>3 DEF KeepLooking, MoveOn
      <3>4. CASE ~(pos[t] < N)
        <4>1. Answer(t, Nothing, "no") BY <2>4, <3>4 DEF KeepLooking, GiveUp
        <4>2. \A j \in Slot : first[j] \notin {EmptyKey, ThisKey(t)}
          BY <2>1, <3>2, <3>4, PassedAll
        <4>3. Nothing \in Payload \cup SlotKeys BY DEF Nothing, Payload, SlotKeys
        <4> QED BY <2>1, <4>1, <4>2, <4>3, AtAnElement
      <3> QED BY <3>3, <3>4
    <2> QED BY <1>2, <2>2, <2>3, <2>4 DEF CasInsert, TakeSlot, AlreadyThere
  <1>3. CASE StorePayload(t)
    <2>1. AtWork(t) BY <1>3 DEF StorePayload, AtWork
    <2>2. Elem(t).val \in Payload \cup SlotKeys
      BY <2>1, AtAnElement, ElementsCarry DEF Payload, SlotKeys
    <2>3. Answer(t, Elem(t).val, "yes") BY <1>3 DEF StorePayload
    <2> QED BY <2>1, <2>2, <2>3, AtAnElement
  <1>4. CASE LoadContent(t)
    <2>1. AtWork(t) BY <1>4 DEF LoadContent, AtWork
    <2>2. Content(ThisSlot(t)) \in Payload \cup SlotKeys
      BY <2>1, AtAnElement, ContentTyped
    <2>3. Content(ThisSlot(t)) # Nothing BY <1>4 DEF LoadContent, AnswersInv, LoadedIsThere
    <2>4. Answer(t, Content(ThisSlot(t)), "no") BY <1>4 DEF LoadContent
    <2> QED BY <2>1, <2>2, <2>3, <2>4, AtAnElement
  <1>5. CASE UNCHANGED out BY <1>5
  <1>6. Op(t) \notin {"clear", "find", "erase", "assign", "count", "foreach"} OBVIOUS
  <1>7. pc[t] = "erase" => Op(t) = "erase" BY DEF Shape, WorkFitsCall
  <1>8. CASE Fetch(t) BY <1>6, <1>8 DEF Fetch
  <1> QED
    BY <1>1, <1>2, <1>3, <1>4, <1>5, <1>6, <1>7, <1>8
    DEF Step, ClearSlot, Leave, AssignPayload, WaitForPayload, ProbeAssign, ProbeErase,
        CasErase, WipePayload, ProbeFind, ProbeForEach, callVars

\* Writes by one stream leave the other streams' arrays alone.
LEMMA StepWritesOwn ==
    ASSUME Shape, NEW t \in Thread, Step(t), NEW s \in Stream, s # StreamOf[t]
    PROVE  out'[s] = out[s]
  <1>1. CASE UNCHANGED out BY <1>1
  <1>2. ASSUME NEW v, NEW f, Answer(t, v, f) PROVE out'[s] = out[s]
    BY <1>2 DEF Answer, Shape, TypeOK
  <1> QED
    BY <1>1, <1>2
    DEF Step, Fetch, ClearSlot, Leave, ProbeInsert, CasInsert, TakeSlot, StorePayload,
        AssignPayload, WaitForPayload, LoadContent, ProbeAssign, ProbeErase, CasErase,
        WipePayload, ProbeFind, ProbeForEach, KeepLooking, GiveUp, MoveOn, AlreadyThere,
        callVars

\* A thread with a step to do belongs to a kernel.
LEMMA StepsOfKernels ==
    ASSUME Shape, NEW t \in Thread, Step(t)
    PROVE  Op(t) # "none"
  <1>1. pc[t] # "exit"
    BY DEF Step, Fetch, ClearSlot, Leave, ProbeInsert, CasInsert, StorePayload,
           AssignPayload, WaitForPayload, LoadContent, ProbeAssign, ProbeErase,
           CasErase, WipePayload, ProbeFind, ProbeForEach
  <1> QED BY <1>1 DEF Shape, IdleThreadsRest

\* The answers given stay right: the table stays full, and nobody erases.
LEMMA StepKeepsAnswers ==
    ASSUME Disciplined, PayloadsLast, TableInv, AnswersInv, NEW t \in Thread, Step(t)
    PROVE  InsertAndFindAnswers'
  <1> USE DEF TableInv
  <1>1. UNCHANGED <<op, batch>> BY StepLearns DEF Learns
  <1>2. Op(t) # "none" BY StepsOfKernels
  <1> SUFFICES ASSUME NEW s \in Stream, op[s] = "insertfind", NEW i \in DOMAIN out'[s],
                      out'[s][i] = [val |-> Nothing, flag |-> "no"]
               PROVE  \A j \in Slot : first'[j] \notin {EmptyKey, batch[s][i].key}
    BY <1>1 DEF InsertAndFindAnswers
  <1> DEFINE k == batch[s][i].key
  <1>3. i \in 1..Len(batch[s]) /\ out[s] \in Seq(Result) /\ Len(out[s]) = Len(batch[s])
    <2>1. Shape' BY StepKeepsShape
    <2>2. out'[s] \in Seq(Result) /\ Len(out'[s]) = Len(batch[s])
      BY <1>1, <2>1 DEF Shape, TypeOK
    <2> QED BY <2>2 DEF Shape, TypeOK
  <1>4. k \in Key
    <2>1. batch[s] \in Seq(Element) BY DEF Shape, TypeOK
    <2>2. batch[s][i] \in Element BY <1>3, <2>1
    <2> QED BY <2>2 DEF Element
  <1>5. ~Clearing BY <1>2, FindersAreSafe
  <1>6. ASSUME \A j \in Slot : first[j] \notin {EmptyKey, k}
        PROVE  \A j \in Slot : first'[j] \notin {EmptyKey, k}
    BY <1>4, <1>5, <1>6, TakenStaysTaken
  <1>7. CASE out'[s][i] = out[s][i]
    <2>1. i \in DOMAIN out[s] BY <1>3
    <2> QED BY <1>6, <1>7, <2>1 DEF AnswersInv, InsertAndFindAnswers
  <1>8. CASE s = StreamOf[t]
    <2>1. Op(t) = "insertfind" BY <1>8 DEF Op
    <2>2. CASE UNCHANGED out BY <1>7, <2>2
    <2>3. ASSUME NEW v \in Payload \cup SlotKeys, NEW f \in {"yes", "no"},
                 Answer(t, v, f), elt[t] \in 1..Len(batch[StreamOf[t]]),
                 v = Nothing /\ f = "no" =>
                    \A j \in Slot : first[j] \notin {EmptyKey, ThisKey(t)}
          PROVE  \A j \in Slot : first'[j] \notin {EmptyKey, k}
      <3>1. out \in [Stream -> Seq(Result)] BY DEF Shape, TypeOK
      <3>2. CASE i # elt[t]
        BY <1>3, <1>7, <1>8, <2>3, <3>1, <3>2 DEF Answer
      <3>3. CASE i = elt[t]
        <4>1. out'[s][i] = [val |-> v, flag |-> f]
          BY <1>3, <1>8, <2>3, <3>1, <3>3 DEF Answer
        <4>2. v = Nothing /\ f = "no" BY <4>1
        <4>3. ThisKey(t) = k BY <1>8, <3>3 DEF ThisKey, Elem
        <4> QED BY <1>6, <2>3, <4>2, <4>3
      <3> QED BY <3>2, <3>3
    <2> QED BY <2>1, <2>2, <2>3, StepAnswers
  <1>9. CASE s # StreamOf[t] BY <1>7, <1>9, StepWritesOwn
  <1> QED BY <1>8, <1>9

\* No thread turns to a wipe that does not erase, or waits where nothing comes.
LEMMA StepKeepsWork ==
    ASSUME Disciplined, TableInv, PayloadWorkFits, NEW t \in Thread, Step(t)
    PROVE  PayloadWorkFits'
  <1> USE DEF TableInv
  <1>1. UNCHANGED <<op, batch>> /\ \A u \in Thread \ {t} : pc'[u] = pc[u]
    BY StepLearns DEF Learns
  <1>2. pc \in [Thread -> {"exit", "fetch", "probe", "cas", "store", "assign",
                          "erase", "wipe", "wait", "load"}]
    BY Zenon DEF Shape, TypeOK
  <1>3. /\ pc'[t] = "wipe" => pc[t] = "erase"
        /\ pc'[t] = "wait" => HasPayload
    BY <1>2 DEF Step, Fetch, ClearSlot, Leave, ProbeInsert, CasInsert, TakeSlot, StorePayload,
        AssignPayload, WaitForPayload, LoadContent, ProbeAssign, ProbeErase, CasErase,
        WipePayload, ProbeFind, ProbeForEach, KeepLooking, GiveUp, MoveOn, AlreadyThere,
        Goto, NextElement
  <1>4. pc[t] = "erase" => Op(t) = "erase" BY DEF Shape, WorkFitsCall
  <1> QED BY <1>1, <1>3, <1>4 DEF PayloadWorkFits, Op

\* A payload that is there stays, or gives way to another, unless an Erase or
\* a Clear takes it.
LEMMA StepKeepsPayloads ==
    ASSUME PayloadsLast, TableInv, PayloadWorkFits, NEW t \in Thread, Step(t),
           Op(t) \notin {"erase", "clear"}, NEW i \in Slot,
           HasPayload, second[i] # EmptyVal
    PROVE  second'[i] # EmptyVal
  <1> USE DEF TableInv
  <1>1. CASE UNCHANGED second BY <1>1
  <1>2. ASSUME AtWork(t), second' = [second EXCEPT ![ThisSlot(t)] = Elem(t).val]
        PROVE  second'[i] # EmptyVal
    <2>1. Elem(t).val # EmptyVal
      BY <1>2, AtAnElement, ElementsCarry DEF PayloadsLast
    <2> QED BY <1>2, <2>1, AtAnElement DEF Shape, TypeOK
  <1>3. CASE CasInsert(t)
    BY <1>1, <1>2, <1>3 DEF CasInsert, TakeSlot, tableVars, AtWork
  <1>4. CASE StorePayload(t) BY <1>2, <1>4 DEF StorePayload, AtWork
  <1>5. CASE AssignPayload(t) BY <1>2, <1>5 DEF AssignPayload, AtWork
  <1>6. ~CasErase(t) BY DEF CasErase, Shape, WorkFitsCall
  <1>7. ~WipePayload(t) BY DEF WipePayload, PayloadWorkFits
  <1>8. ~ClearSlot(t) BY DEF ClearSlot
  <1> QED
    BY <1>1, <1>3, <1>4, <1>5, <1>6, <1>7, <1>8
    DEF Step, Fetch, Leave, ProbeInsert, WaitForPayload, LoadContent, ProbeAssign,
        ProbeErase, ProbeFind, ProbeForEach, tableVars

\* An InsertAndFind that turns to its load has seen the payload, or its key in
\* a set.
LEMMA LoadsLearn ==
    ASSUME Disciplined, TableInv, PayloadWorkFits, NEW t \in Thread, Step(t),
           Op(t) = "insertfind", pc'[t] = "load"
    PROVE  /\ elt'[t] = elt[t] /\ pos'[t] = pos[t] /\ UNCHANGED tableVars
           /\ Content(ThisSlot(t)) # Nothing
  <1> USE DEF TableInv
  <1>1. pc \in [Thread -> {"exit", "fetch", "probe", "cas", "store", "assign",
                          "erase", "wipe", "wait", "load"}]
    BY DEF Shape, TypeOK
  <1>2. CASE WaitForPayload(t)
    <2>1. HasPayload BY <1>2 DEF WaitForPayload, PayloadWorkFits
    <2> QED BY <1>2, <2>1 DEF WaitForPayload, Goto, tableVars, Content, Nothing
  <1>3. ASSUME AlreadyThere(t), first[ThisSlot(t)] = ThisKey(t), AtWork(t), UNCHANGED tableVars
        PROVE  /\ elt'[t] = elt[t] /\ pos'[t] = pos[t] /\ UNCHANGED tableVars
               /\ Content(ThisSlot(t)) # Nothing
    <2>1. Goto(t, IF HasPayload THEN "wait" ELSE "load") BY <1>3 DEF AlreadyThere
    <2>2. ~HasPayload BY <1>1, <2>1 DEF Goto
    <2>3. ThisKey(t) # EmptyKey BY <1>3, AtAnElement DEF Disciplined
    <2> QED BY <1>3, <2>1, <2>2, <2>3 DEF Goto, Content, Nothing
  <1>4. CASE ProbeInsert(t)
    <2>1. AtWork(t) /\ UNCHANGED tableVars BY <1>4 DEF ProbeInsert, AtWork, tableVars
    <2> QED
      BY <1>1, <1>3, <1>4, <2>1 DEF ProbeInsert, KeepLooking, GiveUp, MoveOn, Goto, NextElement
  <1>5. CASE CasInsert(t)
    <2>1. AtWork(t) BY <1>5 DEF CasInsert, AtWork
    <2> QED BY <1>1, <1>3, <1>5, <2>1
      DEF CasInsert, TakeSlot, KeepLooking, GiveUp, MoveOn, Goto, NextElement
  <1>6. pc[t] = "erase" => Op(t) = "erase" BY DEF Shape, WorkFitsCall
  <1> QED
    BY <1>1, <1>2, <1>4, <1>5, <1>6
    DEF Step, Fetch, ClearSlot, Leave, StorePayload, AssignPayload, LoadContent, ProbeAssign,
        ProbeErase, CasErase, WipePayload, ProbeFind, ProbeForEach, KeepLooking, GiveUp, MoveOn,
        Goto, NextElement

\* What an InsertAndFind is about to load is there.
LEMMA StepKeepsLoads ==
    ASSUME Disciplined, PayloadsLast, TableInv, AnswersInv, NEW t \in Thread, Step(t)
    PROVE  LoadedIsThere'
  <1> USE DEF TableInv
  <1>1. Learns(t) /\ UNCHANGED <<op, batch>> BY StepLearns DEF Learns
  <1> SUFFICES ASSUME NEW u \in Thread, pc'[u] = "load", Op(u) = "insertfind"
               PROVE  Content(ThisSlot(u))' # Nothing
    BY <1>1 DEF LoadedIsThere, Op
  <1>2. CASE u = t
    <2>1. /\ elt'[t] = elt[t] /\ pos'[t] = pos[t] /\ UNCHANGED tableVars
          /\ Content(ThisSlot(t)) # Nothing
      BY <1>2, LoadsLearn DEF AnswersInv
    <2>2. ThisSlot(t)' = ThisSlot(t) BY <1>1, <2>1, SameElement
    <2> QED BY <1>2, <2>1, <2>2 DEF Content, tableVars
  <1>3. CASE u # t
    <2>1. pc[u] = "load" /\ elt'[u] = elt[u] /\ pos'[u] = pos[u] /\ AtWork(u)
      BY <1>1, <1>3 DEF Learns, AtWork
    <2>2. ThisSlot(u)' = ThisSlot(u) /\ ThisSlot(u) \in Slot
      BY <1>1, <2>1, SameElement, AtAnElement
    <2>3. Content(ThisSlot(u)) # Nothing BY <2>1 DEF AnswersInv, LoadedIsThere
    <2>4. StreamOf[u] \in Stream /\ op[StreamOf[u]] = "insertfind"
      BY ThreadAssumption DEF ThreadAssumption, Op
    <2>5. Op(t) # "erase" /\ ~Clearing BY <2>4, StepsOfKernels, FindersAreSafe
    <2>6. Op(t) # "clear" BY <2>5, ThreadAssumption DEF ThreadAssumption, Clearing, Op
    <2>7. CASE HasPayload
      <3>1. second[ThisSlot(u)] # EmptyVal BY <2>3, <2>7 DEF Content, Nothing
      <3>2. second'[ThisSlot(u)] # EmptyVal
        BY <2>2, <2>5, <2>6, <2>7, <3>1, StepKeepsPayloads DEF AnswersInv
      <3> QED BY <2>2, <2>7, <3>2 DEF Content, Nothing
    <2>8. CASE ~HasPayload
      <3>1. first[ThisSlot(u)] # EmptyKey BY <2>3, <2>8 DEF Content, Nothing
      <3>2. first'[ThisSlot(u)] # EmptyKey BY <2>2, <2>5, <3>1, TakenStaysTaken
      <3> QED BY <2>2, <2>8, <3>2 DEF Content, Nothing
    <2> QED BY <2>7, <2>8
  <1> QED BY <1>2, <1>3

\* The host's steps keep it: a launch starts with unwritten arrays.
LEMMA HostKeepsAnswers ==
    ASSUME TableInv, AnswersInv, NEW s \in Stream,
           \/ \E o \in Calls : \E b \in Batches(o) : Launch(s, o, b)
           \/ Complete(s) \/ TakeAnswer(s)
    PROVE  AnswersInv'
  <1> USE DEF TableInv
  <1>1. UNCHANGED tableVars BY DEF Launch, Complete, TakeAnswer, tableVars
  <1>2. ASSUME NEW t \in Thread, StreamOf[t] # s
        PROVE  /\ pc'[t] = pc[t] /\ Op(t)' = Op(t) /\ ThisSlot(t)' = ThisSlot(t)
    <2>1. StreamOf[t] \in Stream BY ThreadAssumption DEF ThreadAssumption
    <2> QED BY <1>2, <2>1, ZenonT(60)
      DEF Launch, Complete, TakeAnswer, threadVars, Op, ThisSlot, ThisKey, Elem, Shape, TypeOK
  <1>3. ASSUME NEW t \in Thread, StreamOf[t] = s
        PROVE  pc'[t] \in {"exit", "fetch"}
    BY <1>3 DEF Launch, Complete, TakeAnswer, threadVars, Op, Shape, TypeOK, IdleThreadsRest
  <1>4. PayloadWorkFits' BY <1>2, <1>3 DEF AnswersInv, PayloadWorkFits
  <1>5. LoadedIsThere'
    BY <1>1, <1>2, <1>3 DEF AnswersInv, LoadedIsThere, Content, tableVars
  <1>6. InsertAndFindAnswers'
    <2> SUFFICES ASSUME NEW r \in Stream, op'[r] = "insertfind", NEW i \in DOMAIN out'[r],
                        out'[r][i] = [val |-> Nothing, flag |-> "no"]
                 PROVE  \A j \in Slot : first'[j] \notin {EmptyKey, batch'[r][i].key}
      BY DEF InsertAndFindAnswers
    <2>1. CASE r # s
      <3>1. op'[r] = op[r] /\ out'[r] = out[r] /\ batch'[r] = batch[r]
        BY <2>1 DEF Launch, Complete, TakeAnswer, Shape, TypeOK
      <3> QED BY <1>1, <3>1 DEF AnswersInv, InsertAndFindAnswers, tableVars
    <2>2. CASE r = s
      <3>1. \E o \in Calls : \E b \in Batches(o) : Launch(s, o, b)
        BY <2>2 DEF Complete, TakeAnswer, Shape, TypeOK
      <3>2. PICK o \in Calls : \E b \in Batches(o) : Launch(s, o, b) BY <3>1
      <3>3. PICK b \in Batches(o) : Launch(s, o, b) BY <3>2
      <3>4. out'[s] = [n \in 1..Len(b) |-> Unset] BY <3>3 DEF Launch, Shape, TypeOK
      <3>5. out'[s][i] = Unset BY <2>2, <3>4
      <3> QED BY <2>2, <3>5 DEF Unset
    <2> QED BY <2>1, <2>2
  <1> QED BY <1>4, <1>5, <1>6 DEF AnswersInv

\* The invariant of the answers holds at first ...
LEMMA InitHasAnswers == Init => AnswersInv
  BY DEF Init, AnswersInv, PayloadWorkFits, LoadedIsThere, InsertAndFindAnswers

\* ... and every step keeps it.
LEMMA NextKeepsAnswers ==
    Disciplined /\ PayloadsLast /\ TableInv /\ AnswersInv /\ [Next]_vars => AnswersInv'
  <1> SUFFICES ASSUME Disciplined, PayloadsLast, TableInv, AnswersInv, [Next]_vars
               PROVE  AnswersInv'
    OBVIOUS
  <1>1. CASE UNCHANGED vars
    BY <1>1 DEF vars, AnswersInv, PayloadWorkFits, LoadedIsThere, InsertAndFindAnswers,
                Content, ThisSlot, ThisKey, Elem, Op
  <1>2. ASSUME NEW t \in Thread, Step(t) PROVE AnswersInv'
    BY <1>2, StepKeepsWork, StepKeepsLoads, StepKeepsAnswers DEF AnswersInv
  <1> QED BY <1>1, <1>2, HostKeepsAnswers DEF Next

\* Whatever the size of the table and whoever else inserts, assigns or looks
\* up: a concurrent InsertAndFind that answers "nothing" was asked about a key
\* that is not in the table, and the table has no free slot (WaitForPayload:
\* a key whose payload is still to come is waited for, then loaded).
THEOREM InsertAndFindHasAnswers ==
    Disciplined /\ PayloadsLast => (Spec => []InsertAndFindAnswers)
  <1> SUFFICES ASSUME Disciplined, PayloadsLast PROVE Spec => []InsertAndFindAnswers OBVIOUS
  <1>1. Spec => []TableInv BY TableIsInvariant
  <1>2. Init => AnswersInv BY InitHasAnswers
  <1>3. TableInv /\ AnswersInv /\ [Next]_vars => AnswersInv' BY NextKeepsAnswers
  <1>4. AnswersInv => InsertAndFindAnswers BY DEF AnswersInv
  <1> QED BY <1>1, <1>2, <1>3, <1>4, PTL DEF Spec

--------------------------------------------------------------------------------
(* One stream. *)

\* Every thread belongs to the one kernel.
LEMMA OneKernel ==
    ASSUME SingleStream
    PROVE  /\ Host \in Stream /\ \A s \in Stream : s = Host
           /\ \A t \in Thread : StreamOf[t] = Host /\ Op(t) = Now /\ Elem(t) = Elements[elt[t]]
           /\ Idle <=> Now = "none"
  <1>1. Host \in Stream /\ \A s \in Stream : s = Host BY DEF SingleStream
  <1>2. \A t \in Thread : StreamOf[t] = Host BY <1>1, ThreadAssumption DEF ThreadAssumption
  <1> QED BY <1>1, <1>2 DEF Op, Elem, Elements, Now, Idle

\* The elements of the call.
LEMMA ElementsTyped ==
    ASSUME SingleStream, Shape
    PROVE  /\ Elements \in Seq(Element) /\ Len(Elements) \in Nat
           /\ DOMAIN Elements = 1..Len(Elements)
           /\ \A i \in DOMAIN Elements : Elements[i] \in Element /\ KeyAt(i) \in Key
           /\ Passing \subseteq DOMAIN Elements
  <1>1. Elements \in Seq(Element) BY OneKernel DEF Shape, TypeOK, Elements
  <1>2. \A i \in DOMAIN Elements : Elements[i] \in Element BY <1>1
  <1>3. \A i \in DOMAIN Elements : KeyAt(i) \in Key BY <1>2 DEF KeyAt, Element
  <1> QED BY <1>1, <1>2, <1>3 DEF Passing

\* A working thread's element, by its number.
LEMMA AtThisElement ==
    ASSUME SingleStream, Shape, NEW t \in Thread, AtWork(t)
    PROVE  /\ elt[t] \in DOMAIN Elements
           /\ KeyAt(elt[t]) = ThisKey(t) /\ ThisKey(t) \in Key
           /\ ThisSlot(t) \in Slot
           /\ Elements[elt[t]] = Elem(t) /\ Elem(t) \in Element
           /\ Now \in Calls \ {"clear"}
  BY OneKernel, ElementsTyped, AtAnElement DEF Elements, KeyAt, ThisKey

--------------------------------------------------------------------------------
(* The grid-stride loop. *)

\* Division with its parts named.
LEMMA DivisionParts ==
    ASSUME NEW a \in Nat, NEW T \in Nat \ {0}
    PROVE  \E p \in Nat : \E x \in 0..(T - 1) : a = T * p + x /\ a % T = x /\ a \div T = p
  <1>1. a = T * (a \div T) + (a % T) /\ a % T \in 0..(T - 1) /\ a \div T \in 0..a
    BY ONLY Division, a \in Nat, T \in Nat \ {0}
  <1>2. a \div T \in Nat BY <1>1
  <1> QED BY <1>1, <1>2

\* A stride further is in the same share.
LEMMA StrideSameShare ==
    ASSUME NEW a \in Nat \ {0}, NEW T \in Nat \ {0}
    PROVE  ((a + T) - 1) % T = (a - 1) % T
  <1> DEFINE b == a - 1
  <1>1. b \in Nat /\ b + T = (a + T) - 1 /\ b + T \in Nat OBVIOUS
  <1> HIDE DEF b
  <1>2. PICK p \in Nat, x \in 0..(T - 1) : b = T * p + x /\ b % T = x
    BY <1>1, DivisionParts
  <1>3. PICK q \in Nat, y \in 0..(T - 1) : b + T = T * q + y /\ (b + T) % T = y
    BY <1>1, DivisionParts
  <1>4. T * p + x + T = T * q + y BY <1>1, <1>2, <1>3
  <1>5. CASE q = p + 1
    <2>1. T * q = T * p + T BY ONLY <1>4, <1>5, T \in Nat
    <2>2. x = y BY <1>4, <2>1
    <2> QED BY <1>1, <1>2, <1>3, <2>2 DEF b
  <1>6. CASE q > p + 1
    <2>1. T * (q - p - 1) >= T BY ONLY <1>4, <1>6, T \in Nat \ {0}
    <2>2. T * q = T * p + T + T * (q - p - 1) BY ONLY <1>4, T \in Nat
    <2> QED BY <1>4, <2>1, <2>2
  <1>7. CASE q < p + 1
    <2>1. T * (p - q) >= 0 BY ONLY <1>4, <1>7, T \in Nat
    <2>2. T * p = T * q + T * (p - q) BY ONLY <1>4, T \in Nat
    <2> QED BY <1>4, <2>1, <2>2
  <1> QED BY <1>4, <1>5, <1>6, <1>7

\* Between two elements of a share there is at least a stride.
LEMMA StrideGap ==
    ASSUME NEW a \in Nat \ {0}, NEW c \in Nat \ {0}, NEW T \in Nat \ {0},
           (a - 1) % T = (c - 1) % T, a < c
    PROVE  a + T <= c
  <1>0. a - 1 \in Nat /\ c - 1 \in Nat OBVIOUS
  <1>1. PICK p \in Nat, x \in 0..(T - 1) : a - 1 = T * p + x /\ (a - 1) % T = x
    BY <1>0, DivisionParts
  <1>2. PICK q \in Nat, y \in 0..(T - 1) : c - 1 = T * q + y /\ (c - 1) % T = y
    BY <1>0, DivisionParts
  <1>3. CASE q <= p
    <2>1. T * (p - q) >= 0 BY ONLY <1>1, <1>2, <1>3, T \in Nat
    <2>2. T * p = T * q + T * (p - q) BY ONLY <1>1, <1>2, T \in Nat
    <2> QED BY <1>1, <1>2, <2>1, <2>2
  <1>4. CASE q > p
    <2>1. T * (q - p) >= T BY ONLY <1>1, <1>2, <1>4, T \in Nat \ {0}
    <2>2. T * q = T * p + T * (q - p) BY ONLY <1>1, <1>2, T \in Nat
    <2> QED BY <1>1, <1>2, <2>1, <2>2
  <1> QED BY <1>1, <1>2, <1>3, <1>4

\* Every element is one thread's.
LEMMA OwnersOfElements ==
    ASSUME SingleStream, Shape, NEW i \in DOMAIN Elements
    PROVE  /\ \E t \in Thread : i \in Share(t)
           /\ \A t, u \in Thread : i \in Share(t) /\ i \in Share(u) => t = u
  <1> DEFINE r == ((i - 1) % TotalThreads) + 1
  <1>1. i \in Nat \ {0} /\ TotalThreads \in Nat \ {0}
    BY ElementsTyped, ThreadAssumption DEF ThreadAssumption
  <1>2. (i - 1) % TotalThreads \in 0..(TotalThreads - 1)
    <2>1. i - 1 \in Nat BY <1>1
    <2> QED BY <1>1, <2>1, Division
  <1>3. r \in 1..TotalThreads BY <1>1, <1>2
  <1>4. PICK t \in Thread : StreamOf[t] = Host /\ Rank[t] = r
    BY <1>3, OneKernel, ThreadAssumption DEF ThreadAssumption
  <1>5. i \in Share(t) BY <1>2, <1>4 DEF Share
  <1>6. ASSUME NEW u \in Thread, NEW v \in Thread, i \in Share(u), i \in Share(v) PROVE u = v
    <2>1. Rank[u] - 1 = Rank[v] - 1 /\ Rank[u] \in 1..TotalThreads /\ Rank[v] \in 1..TotalThreads
      BY <1>6, ThreadAssumption DEF Share, ThreadAssumption
    <2>2. Rank[u] = Rank[v] BY <2>1, <1>1
    <2> QED BY <2>2, OneKernel, ThreadAssumption DEF ThreadAssumption
  <1> QED BY <1>5, <1>6

\* A thread's element is due until the thread is done with it.
LEMMA DueUntilDone ==
    ASSUME SingleStream, Shape, Strided, NEW t \in Thread, pc[t] # "exit",
           elt[t] \in DOMAIN Elements
    PROVE  elt[t] \in Share(t) /\ elt[t] \in Due(t) /\ elt[t] \notin Done
  <1>1. elt[t] \in Share(t) BY DEF Share, Strided
  <1>2. elt[t] \in Due(t) BY <1>1, ElementsTyped DEF Due
  <1> QED BY <1>1, <1>2 DEF Done

\* The end of the loop body: one element more is done.
LEMMA Finishing ==
    ASSUME SingleStream, Shape, Strided, NEW t \in Thread, pc[t] # "exit",
           elt[t] \in DOMAIN Elements, NextElement(t), UNCHANGED batch
    PROVE  /\ Strided' /\ Done' = Done \cup {elt[t]}
           /\ \A u \in Thread : Share(u)' = Share(u)
           /\ \A u \in Thread : pc'[u] = "exit" <=> pc[u] = "exit"
  <1> DEFINE e == elt[t]
  <1>1. /\ e \in Nat \ {0} /\ TotalThreads \in Nat \ {0}
        /\ elt \in [Thread -> Nat \ {0}] /\ DOMAIN pc = Thread
    BY ThreadAssumption DEF ThreadAssumption, Shape, TypeOK
  <1>2. /\ pc'[t] = "fetch" /\ elt'[t] = e + TotalThreads
        /\ \A u \in Thread \ {t} : pc'[u] = pc[u] /\ elt'[u] = elt[u]
    BY <1>1 DEF NextElement
  <1>3. Elements' = Elements BY DEF Elements
  <1>4. \A u \in Thread : Share(u)' = Share(u) BY <1>3 DEF Share
  <1>5. Strided' BY <1>1, <1>2, StrideSameShare DEF Strided
  <1>6. \A u \in Thread \ {t} : Due(u)' = Due(u) BY <1>2, <1>4 DEF Due
  <1>7. Due(t)' = Due(t) \ {e}
    <2>1. ASSUME NEW i \in Share(t) PROVE (i >= e + TotalThreads) <=> (i >= e /\ i # e)
      <3>1. i \in Nat \ {0} /\ (i - 1) % TotalThreads = Rank[t] - 1
        BY ElementsTyped DEF Share
      <3>2. (e - 1) % TotalThreads = Rank[t] - 1 BY DEF Strided
      <3>3. i > e => e + TotalThreads <= i BY <1>1, <3>1, <3>2, StrideGap
      <3> QED BY <1>1, <3>1, <3>3
    <2>2. Due(t)' = {i \in Share(t) : i >= e + TotalThreads} BY <1>2, <1>4 DEF Due
    <2> QED BY <2>1, <2>2 DEF Due
  <1>8. e \in Due(t) /\ e \in Share(t) BY DueUntilDone
  <1>9. \A u \in Thread \ {t} : e \notin Due(u) BY <1>8, OwnersOfElements DEF Due
  <1>10. Done' = Done \cup {e}
    <2>1. Done' = {i \in DOMAIN Elements : \A u \in Thread : i \notin Due(u)'}
      BY <1>3 DEF Done
    <2> QED BY <1>6, <1>7, <1>8, <1>9, <2>1 DEF Done
  <1> QED BY <1>2, <1>4, <1>5, <1>10

\* In the middle of the loop body, nothing is done.
LEMMA Continuing ==
    ASSUME SingleStream, Shape, Strided, UNCHANGED <<batch, elt>>,
           \A u \in Thread : pc'[u] = "exit" <=> pc[u] = "exit"
    PROVE  /\ Strided' /\ Done' = Done
           /\ \A u \in Thread : Share(u)' = Share(u)
  <1>1. Elements' = Elements BY DEF Elements
  <1>2. \A u \in Thread : Share(u)' = Share(u) BY <1>1 DEF Share
  <1>3. \A u \in Thread : Due(u)' = Due(u) BY <1>2 DEF Due
  <1>4. Done' = Done BY <1>1, <1>3 DEF Done
  <1> QED BY <1>2, <1>4 DEF Strided

\* Nor when a thread leaves.
LEMMA LeavingDone ==
    ASSUME SingleStream, Shape, Strided, Working, NEW t \in Thread, Leave(t)
    PROVE  /\ Strided' /\ Done' = Done
           /\ \A u \in Thread : Share(u)' = Share(u)
           /\ Share(t) \subseteq Done
  <1>1. Elements' = Elements BY DEF Leave, Elements
  <1>2. \A u \in Thread : Share(u)' = Share(u) BY <1>1 DEF Share
  <1>3. /\ pc'[t] = "exit" /\ pc[t] = "fetch"
        /\ \A u \in Thread \ {t} : pc'[u] = pc[u] /\ elt'[u] = elt[u]
    BY DEF Leave, Shape, TypeOK
  <1>4. \A u \in Thread \ {t} : Due(u)' = Due(u) BY <1>2, <1>3 DEF Due
  <1>5. Due(t) = {} /\ Due(t)' = {}
    <2>1. elt[t] > Len(Elements)
      BY OneKernel DEF Leave, Limit, Working, Now, Elements
    <2>2. elt[t] \in Nat BY DEF Shape, TypeOK
    <2>3. \A i \in Share(t) : i \in Nat /\ i <= Len(Elements) BY ElementsTyped DEF Share
    <2>4. Len(Elements) \in Nat BY ElementsTyped
    <2>5. \A i \in Share(t) : ~(i >= elt[t]) BY <2>1, <2>2, <2>3, <2>4
    <2> QED BY <1>3, <2>5 DEF Due
  <1>6. \A u \in Thread : Due(u)' = Due(u) BY <1>4, <1>5
  <1>7. Done' = Done BY <1>1, <1>6 DEF Done
  <1>8. Strided' BY <1>3 DEF Strided
  <1>9. Share(t) \subseteq Done
    <2> SUFFICES ASSUME NEW i \in Share(t), NEW u \in Thread, i \in Due(u) PROVE FALSE
      BY DEF Done, Share
    <2>1. i \in DOMAIN Elements /\ i \in Share(u) BY DEF Due, Share
    <2>2. u = t BY <2>1, OwnersOfElements
    <2> QED BY <1>5, <2>2
  <1> QED BY <1>2, <1>7, <1>8, <1>9

--------------------------------------------------------------------------------
(* What a step leaves alone. *)

\* The other threads stand still.
LEMMA OthersStay ==
    ASSUME SingleStream, Disciplined, Shape, FreeSlotsAreBlank, NEW t \in Thread, Step(t)
    PROVE  /\ UNCHANGED <<op, batch, answer>> /\ Now' = Now /\ Elements' = Elements
           /\ Passing' = Passing /\ \A i \in Nat : KeyAt(i)' = KeyAt(i)
           /\ \A u \in Thread \ {t} :
                /\ pc'[u] = pc[u] /\ elt'[u] = elt[u] /\ pos'[u] = pos[u] /\ seen'[u] = seen[u]
                /\ localFailed'[u] = localFailed[u] /\ localAssigned'[u] = localAssigned[u]
                /\ Elem(u)' = Elem(u) /\ ThisKey(u)' = ThisKey(u) /\ ThisSlot(u)' = ThisSlot(u)
  <1>1. Learns(t) BY StepLearns
  <1>2. UNCHANGED <<op, batch>> BY <1>1 DEF Learns
  <1>3. UNCHANGED answer
    BY Zenon DEF Step, Fetch, ClearSlot, callVars, Leave, ProbeInsert, CasInsert, StorePayload,
           AssignPayload, WaitForPayload, LoadContent, ProbeAssign, ProbeErase, CasErase,
           WipePayload, ProbeFind, ProbeForEach
  <1>4. ASSUME NEW u \in Thread, u # t
        PROVE  /\ seen'[u] = seen[u]
               /\ localFailed'[u] = localFailed[u] /\ localAssigned'[u] = localAssigned[u]
    BY <1>4, SMTT(40) DEF Step, Fetch, ClearSlot, Leave, ProbeInsert, CasInsert, TakeSlot,
      StorePayload,
           AssignPayload, WaitForPayload, LoadContent, ProbeAssign, ProbeErase, CasErase,
           WipePayload, ProbeFind, ProbeForEach, NextElement, Goto, MoveOn, KeepLooking,
           GiveUp, AlreadyThere, AddFailed, NoCount, Shape, TypeOK
  <1>5. ASSUME NEW u \in Thread \ {t}
        PROVE  /\ pc'[u] = pc[u] /\ elt'[u] = elt[u] /\ pos'[u] = pos[u]
               /\ Elem(u)' = Elem(u) /\ ThisKey(u)' = ThisKey(u) /\ ThisSlot(u)' = ThisSlot(u)
    BY <1>1, SameElement DEF Learns
  <1> QED BY <1>2, <1>3, <1>4, <1>5 DEF Now, Elements, Passing, KeyAt

\* A step writes the entry of its own element only.
LEMMA OtherEntriesStay ==
    ASSUME SingleStream, Shape, NEW t \in Thread, Step(t), NEW i \in Nat, i # elt[t]
    PROVE  out'[Host][i] = out[Host][i]
  <1>1. out \in [Stream -> Seq(Result)] /\ StreamOf[t] = Host /\ Host \in Stream
    BY OneKernel DEF Shape, TypeOK
  <1>2. CASE UNCHANGED out BY <1>2
  <1>3. ASSUME NEW v, NEW f, Answer(t, v, f) PROVE out'[Host][i] = out[Host][i]
    BY <1>1, <1>3 DEF Answer
  <1> QED
    BY <1>2, <1>3
    DEF Step, Fetch, ClearSlot, Leave, ProbeInsert, CasInsert, TakeSlot, StorePayload,
        AssignPayload, WaitForPayload, LoadContent, ProbeAssign, ProbeErase, CasErase,
        WipePayload, ProbeFind, ProbeForEach, KeepLooking, GiveUp, MoveOn, AlreadyThere,
        callVars

\* Two threads at work have two elements.
LEMMA OwnElements ==
    ASSUME SingleStream, Shape, Strided, NEW t \in Thread, NEW u \in Thread,
           AtWork(t), AtWork(u), elt[t] = elt[u]
    PROVE  t = u
  <1>1. elt[t] \in DOMAIN Elements BY AtThisElement
  <1>2. elt[t] \in Share(t) /\ elt[t] \in Share(u) BY <1>1, DueUntilDone DEF AtWork
  <1> QED BY <1>1, <1>2, OwnersOfElements

\* No thread is at work in a Clear or without a kernel, and in a kernel that has
\* elements no slot is cleared.
LEMMA WorkingSteps ==
    ASSUME SingleStream, Shape, NEW t \in Thread, Step(t), Working
    PROVE  ~Clearing /\ ~ClearSlot(t) /\ ~Clears(t)
  BY OneKernel DEF Working, Clearing, ClearSlot, Clears, Now

\* What a kernel that has elements does to the table.
LEMMA TableSteps ==
    ASSUME SingleStream, TableInv, ThreadsKnow, NEW t \in Thread, Step(t), Working
    PROVE  /\ \/ UNCHANGED first
              \/ Takes(t) /\ Now \in InsertCalls /\ FreeAt(ThisSlot(t))
              \/ Erases(t) /\ Now = "erase"
           /\ \/ UNCHANGED second
              \/ /\ second' = [second EXCEPT ![ThisSlot(t)] = Elem(t).val]
                 /\ HasPayload
                 /\ (Takes(t) /\ Layout = "packed") \/ pc[t] \in {"store", "assign"}
              \/ /\ second' = [second EXCEPT ![ThisSlot(t)] = EmptyVal]
                 /\ (Erases(t) /\ Layout # "wide") \/ pc[t] = "wipe"
  <1> USE DEF TableInv
  <1>1. ~ClearSlot(t) BY WorkingSteps
  <1>2. Now \in Ops \ {"none"} /\ Op(t) = Now
    BY OneKernel, CallAssumption DEF Working, CallAssumption, Shape, TypeOK, Now
  <1>3. CASE CasInsert(t)
    <2>1. AtWork(t) /\ Now \in InsertCalls BY <1>3 DEF CasInsert, AtWork, ThreadsKnow, Knows, Knows
    <2>2. CASE UNCHANGED tableVars BY <2>2 DEF tableVars
    <2>3. CASE TakeSlot(t)
      <3>1. ThisSlot(t) \in Slot /\ Takes(t)
        BY <1>3, <2>1, <2>3, AtAnElement DEF TakeSlot, FreeAt, Takes, CasInsert
      <3>2. \/ UNCHANGED second
            \/ /\ second' = [second EXCEPT ![ThisSlot(t)] = Elem(t).val]
               /\ HasPayload /\ Layout = "packed"
        BY <2>3, <3>1, TableAssumption
        DEF TakeSlot, HasPayload, TableAssumption, Shape, TypeOK
      <3> QED BY <2>1, <2>3, <3>1, <3>2 DEF TakeSlot
    <2> QED BY <1>3, <2>2, <2>3 DEF CasInsert
  <1>4. CASE CasErase(t)
    <2>1. Now = "erase" BY <1>2, <1>4 DEF CasErase, Shape, WorkFitsCall
    <2>2. Erases(t) \/ UNCHANGED first BY <1>4 DEF CasErase, Erases, tableVars
    <2> QED BY <1>4, <2>1, <2>2 DEF CasErase, Erases, tableVars, Goto
  <1>5. CASE AssignPayload(t)
    <2>1. AtWork(t) /\ pc[t] = "assign" /\ first[ThisSlot(t)] = ThisKey(t)
      BY <1>5 DEF AssignPayload, AtWork, ThreadsKnow, Knows, Knows
    <2>2. UNCHANGED first
      BY <1>5, <2>1, AtAnElement DEF AssignPayload, Shape, TypeOK
    <2>3. HasPayload
      BY <1>2, <2>1, AtAnElement, CallAssumption DEF Shape, WorkFitsCall, CallAssumption
    <2> QED BY <1>5, <2>1, <2>2, <2>3 DEF AssignPayload
  <1>6. CASE StorePayload(t)
    <2>1. HasPayload BY <1>6 DEF StorePayload, Shape, WorkFitsCall, HasPayload
    <2> QED BY <1>6, <2>1 DEF StorePayload
  <1>7. CASE WipePayload(t) BY <1>7 DEF WipePayload
  <1> QED
    BY <1>1, <1>3, <1>4, <1>5, <1>6, <1>7
    DEF Step, Fetch, Leave, ProbeInsert, WaitForPayload, LoadContent, ProbeAssign,
        ProbeErase, ProbeFind, ProbeForEach, tableVars

--------------------------------------------------------------------------------
(* What the threads know. *)

\* A tombstone stays, and a key that a lookup has not met does not turn up.
LEMMA LookupsUndisturbed ==
    ASSUME SingleStream, Disciplined, TableInv, ThreadsKnow, NEW t \in Thread, Step(t), Working,
           NEW i \in Slot, Now \in LookupCalls
    PROVE  /\ Now = "erase" /\ first[i] = ErasedKey => first'[i] = ErasedKey
           /\ \A k \in Key : first[i] # k => first'[i] # k
           /\ Now # "erase" => UNCHANGED first
  <1> USE DEF TableInv
  <1>1. UNCHANGED first \/ (Erases(t) /\ Now = "erase")
    BY TableSteps DEF LookupCalls, InsertCalls
  <1>2. first \in [Slot -> SlotKeys] /\ ErasedKey \notin Key BY DEF Shape, TypeOK, Disciplined
  <1>3. CASE Erases(t)
    <2>1. ThisKey(t) \in Key /\ ThisSlot(t) \in Slot BY <1>3, AtAnElement DEF Erases, AtWork
    <2> QED BY <1>1, <1>2, <1>3, <2>1 DEF Erases
  <1> QED BY <1>1, <1>3

\* What a thread knows survives the steps of the others.
LEMMA OthersKnow ==
    ASSUME SingleStream, Disciplined, TableInv, ThreadsKnow, NEW t \in Thread, Step(t), Working,
           NEW u \in Thread, u # t
    PROVE  Knows(u)'
  <1> USE DEF TableInv
  <1>1. /\ Now' = Now /\ pc'[u] = pc[u] /\ elt'[u] = elt[u] /\ pos'[u] = pos[u]
        /\ seen'[u] = seen[u] /\ Elem(u)' = Elem(u) /\ ThisKey(u)' = ThisKey(u)
        /\ ThisSlot(u)' = ThisSlot(u)
    BY OthersStay
  <1>2. Knows(u) BY DEF ThreadsKnow
  <1>3. ~Clearing /\ Op(t) = Now BY WorkingSteps, OneKernel
  <1>4. AtWork(u)' <=> AtWork(u) BY <1>1 DEF AtWork
  <1>5. CASE ~AtWork(u) BY <1>1, <1>4, <1>5 DEF Knows, AtWork
  <1>6. CASE AtWork(u)
    <2>1. ThisKey(u) \in Key /\ ThisSlot(u) \in Slot /\ elt[u] \in DOMAIN Elements
      BY <1>6, AtThisElement
    <2>2. pc[u] \in {"store", "assign", "wait", "load"} => first'[ThisSlot(u)] = ThisKey(u)
      <3> SUFFICES ASSUME pc[u] \in {"store", "assign", "wait", "load"}
                   PROVE  first'[ThisSlot(u)] = ThisKey(u)
        OBVIOUS
      <3>1. first[ThisSlot(u)] = ThisKey(u) BY <1>2 DEF Knows
      <3>2. Op(t) # "erase"
        BY <1>2, <1>3, OneKernel DEF Knows, Shape, WorkFitsCall, InsertCalls
      <3> QED BY <1>3, <2>1, <3>1, <3>2, TakenStaysTaken
    <2>3. pc[u] \in {"wipe", "erase"} => Now = "erase"
      BY <1>2, OneKernel DEF Knows, Shape, WorkFitsCall
    <2>4. pc[u] = "wipe" => first'[ThisSlot(u)] = ErasedKey /\ ThisKey(u) \notin Stored'
      BY <1>2, <2>1, <2>3, LookupsUndisturbed DEF Knows, LookupCalls, Stored
    <2>5. ASSUME pc[u] = "erase"
          PROVE  \/ first'[ThisSlot(u)] = ErasedKey /\ ThisKey(u) \notin Stored'
                 \/ /\ first'[ThisSlot(u)] = ThisKey(u)
                    /\ Layout # "wide" => second'[ThisSlot(u)] = seen[u]
      <3>1. Now = "erase" /\ Now \in LookupCalls BY <2>3, <2>5 DEF LookupCalls
      <3>2. CASE first[ThisSlot(u)] = ErasedKey
        <4>1. ThisKey(u) \notin Stored
          BY <1>2, <2>1, <2>5, <3>2 DEF Knows, Disciplined
        <4>2. \A i \in Slot : first'[i] # ThisKey(u)
          BY <2>1, <3>1, <4>1, LookupsUndisturbed DEF Stored
        <4> QED BY <2>1, <3>1, <3>2, <4>2, LookupsUndisturbed DEF Stored
      <3>3. CASE first[ThisSlot(u)] # ErasedKey
        <4>1. /\ first[ThisSlot(u)] = ThisKey(u)
              /\ Layout # "wide" => second[ThisSlot(u)] = seen[u]
          BY <1>2, <2>5, <3>3 DEF Knows
        <4>2. CASE Erases(t) /\ ThisSlot(t) = ThisSlot(u)
          <5>1. \A i \in Slot : first'[i] # ThisKey(u)
            BY <2>1, <4>1, <4>2 DEF Erases, Shape, TypeOK, UniqueKeys, Disciplined
          <5> QED BY <2>1, <4>2, <5>1 DEF Erases, Shape, TypeOK, Stored
        <4>3. CASE ~(Erases(t) /\ ThisSlot(t) = ThisSlot(u))
          <5>1. first'[ThisSlot(u)] = first[ThisSlot(u)]
            <6>1. UNCHANGED first \/ Erases(t) BY <3>1, TableSteps DEF InsertCalls
            <6> QED BY <2>1, <4>3, <6>1 DEF Erases, Shape, TypeOK
          <5>2. pc[t] \notin {"store", "assign", "cas"}
            BY <3>1, OneKernel DEF ThreadsKnow, Knows, Shape, WorkFitsCall, InsertCalls
          <5>3. pc[t] = "wipe" => first[ThisSlot(t)] = ErasedKey
            BY DEF ThreadsKnow, Knows
          <5>4. second'[ThisSlot(u)] = second[ThisSlot(u)]
            <6>1. \/ UNCHANGED second
                  \/ /\ second' = [second EXCEPT ![ThisSlot(t)] = EmptyVal]
                     /\ Erases(t) \/ pc[t] = "wipe"
              BY <5>2, TableSteps DEF Takes
            <6> QED BY <2>1, <3>3, <4>3, <5>3, <6>1 DEF Shape, TypeOK
          <5> QED BY <4>1, <5>1, <5>4
        <4> QED BY <4>2, <4>3
      <3> QED BY <3>2, <3>3
    <2>6. ASSUME pc[u] \in {"probe", "erase"}, Now \in LookupCalls, ~Noted(u)',
                 NEW q \in 1..(pos[u] - 1)
          PROVE  first'[Path[ThisKey(u)][q]] # ThisKey(u)
      <3>1. Noted(u)' <=> Noted(u)
        <4>1. CASE AtWork(t)
          <5>1. elt[u] # elt[t] BY <1>6, <4>1, OwnElements DEF ThreadsKnow
          <5>2. out'[Host][elt[u]] = out[Host][elt[u]]
            BY <2>1, <5>1, ElementsTyped, OtherEntriesStay
          <5> QED BY <1>1, <5>2 DEF Noted, Unset, Nothing
        <4>2. CASE ~AtWork(t)
          <5>1. UNCHANGED out \/ Now = "find"
            BY <1>3, <4>2
            DEF AtWork, Step, Fetch, ClearSlot, Leave, ProbeInsert, CasInsert, StorePayload,
                AssignPayload, WaitForPayload, LoadContent, ProbeAssign, ProbeErase,
                CasErase, WipePayload, ProbeFind, ProbeForEach, callVars
          <5> QED BY <1>1, <5>1 DEF Noted, Unset, Nothing
        <4> QED BY <4>1, <4>2
      <3>2. pos[u] \in Slot BY DEF Shape, TypeOK
      <3>3. Path[ThisKey(u)][q] \in Slot BY <2>1, <3>2, PrefixOfPath, PathIsAPermutation
      <3>4. first[Path[ThisKey(u)][q]] # ThisKey(u) BY <1>2, <2>6, <3>1 DEF Knows
      <3> QED BY <2>1, <2>6, <3>3, <3>4, LookupsUndisturbed
    <2> QED BY <1>1, <1>2, <1>4, <2>2, <2>4, <2>5, <2>6 DEF Knows
  <1> QED BY <1>5, <1>6

--------------------------------------------------------------------------------
(* The map that the slots spell. *)

\* A stored key has one slot.
LEMMA HolderHolds ==
    ASSUME Disciplined, TableInv
    PROVE  /\ \A k \in Stored : k \in Key /\ Holder(k) \in Slot /\ first[Holder(k)] = k
           /\ \A i \in Slot : first[i] \in Key => first[i] \in Stored /\ Holder(first[i]) = i
           /\ \A k \in Stored : LiveMap[k] = Content(Holder(k))
           /\ DOMAIN LiveMap = Stored
  <1>1. \A k \in Stored : k \in Key /\ \E i \in Slot : first[i] = k BY DEF Stored
  <1>2. \A k \in Stored : Holder(k) \in Slot /\ first[Holder(k)] = k BY <1>1 DEF Holder
  <1>3. ASSUME NEW i \in Slot, first[i] \in Key
        PROVE  first[i] \in Stored /\ Holder(first[i]) = i
    BY <1>2, <1>3 DEF Stored, TableInv, UniqueKeys
  <1> QED BY <1>1, <1>2, <1>3 DEF LiveMap

\* What a function takes a finite set to is finite, and no larger.
LEMMA ImageIsFinite ==
    ASSUME NEW S, IsFiniteSet(S), NEW f
    PROVE  /\ IsFiniteSet({f[x] : x \in S})
           /\ Cardinality({f[x] : x \in S}) <= Cardinality(S)
           /\ (\A x, y \in S : f[x] = f[y] => x = y) =>
                 Cardinality({f[x] : x \in S}) = Cardinality(S)
  <1> DEFINE T == {f[x] : x \in S}
             g == [x \in S |-> f[x]]
  <1>1. g \in [S -> T] /\ (\A y \in T : \E x \in S : g[x] = y) /\ \A x \in S : g[x] = f[x]
    OBVIOUS
  <1> HIDE DEF T, g
  <1>2. g \in Surjection(S, T) BY <1>1 DEF Surjection
  <1>3. IsFiniteSet(T) /\ Cardinality(T) <= Cardinality(S)
        /\ (Cardinality(T) = Cardinality(S) <=> g \in Injection(S, T))
    BY <1>2, FS_Surjection
  <1>4. (\A x, y \in S : f[x] = f[y] => x = y) => g \in Injection(S, T)
    BY <1>1 DEF Injection, IsInjective
  <1>5. /\ IsFiniteSet(T) /\ Cardinality(T) <= Cardinality(S)
        /\ (\A x, y \in S : f[x] = f[y] => x = y) => Cardinality(T) = Cardinality(S)
    BY <1>3, <1>4
  <1> QED BY ONLY <1>5, Zenon DEF T

\* The slots in use and the keys stored are finitely many.
LEMMA UsedIsFinite ==
    /\ IsFiniteSet(UsedSlots) /\ UsedSlots \subseteq Slot /\ IsFiniteSet(Slot)
    /\ IsFiniteSet(Stored) /\ Cardinality(Slot) = N
  <1>1. IsFiniteSet(Slot) /\ Cardinality(Slot) = N
    <2>1. 1 \in Int /\ N \in Int /\ N >= 1 BY TableAssumption DEF TableAssumption
    <2>2. IsFiniteSet(1..N) /\ Cardinality(1..N) = N - 1 + 1 BY <2>1, FS_Interval
    <2> QED BY <2>1, <2>2 DEF Slot
  <1>2. UsedSlots \subseteq Slot BY DEF UsedSlots
  <1>3. IsFiniteSet({first[i] : i \in Slot}) BY <1>1, ImageIsFinite
  <1>4. Stored \subseteq {first[i] : i \in Slot} BY DEF Stored
  <1> QED BY <1>1, <1>2, <1>3, <1>4, FS_Subset

\* A slot is taken: one key and one slot more.
LEMMA TakesAddsKey ==
    ASSUME Disciplined, TableInv, ~Clearing, NEW t \in Thread, Takes(t), TableInv'
    PROVE  /\ ThisKey(t) \notin Stored /\ Stored' = Stored \cup {ThisKey(t)}
           /\ ThisSlot(t) \notin UsedSlots /\ UsedSlots' = UsedSlots \cup {ThisSlot(t)}
           /\ \A k \in Stored : Holder(k)' = Holder(k) /\ Holder(k) # ThisSlot(t)
           /\ \A k \in Key : k = ThisKey(t) => Holder(k)' = ThisSlot(t)
  <1>0. PICK k0, i0 : k0 = ThisKey(t) /\ i0 = ThisSlot(t) OBVIOUS
  <1> USE <1>0
  <1>1. k0 \in Key /\ i0 \in Slot /\ EmptyKey \notin Key
    BY AtAnElement DEF Takes, AtWork, TableInv, Disciplined
  <1>2. \A i \in Slot : first[i] # k0 BY TakenIsNew DEF TableInv
  <1>3. first[i0] = EmptyKey /\ first' = [first EXCEPT ![i0] = k0] BY DEF Takes
  <1>4. first \in [Slot -> SlotKeys] BY DEF TableInv, Shape, TypeOK
  <1>5. k0 \notin Stored BY <1>2 DEF Stored
  <1>6. \A i \in Slot : first'[i] = IF i = i0 THEN k0 ELSE first[i] BY <1>1, <1>3, <1>4
  <1>7. Stored' = Stored \cup {k0}
    <2>1. Stored' = {first'[i] : i \in Slot} \cap Key BY DEF Stored
    <2> QED BY <1>1, <1>3, <1>6, <2>1 DEF Stored
  <1>8. i0 \notin UsedSlots BY <1>3 DEF UsedSlots
  <1>9. UsedSlots' = UsedSlots \cup {i0}
    <2>1. UsedSlots' = {i \in Slot : first'[i] # EmptyKey} BY DEF UsedSlots
    <2> QED BY <1>1, <1>6, <2>1 DEF UsedSlots
  <1>10. ASSUME NEW k \in Stored PROVE Holder(k)' = Holder(k) /\ Holder(k) # i0
    <2>1. Holder(k) \in Slot /\ first[Holder(k)] = k /\ k \in Key BY HolderHolds
    <2>2. Holder(k) # i0 BY <1>1, <1>3, <2>1
    <2>3. first'[Holder(k)] = k BY <1>6, <2>1, <2>2
    <2>4. Holder(k)' \in Slot /\ first'[Holder(k)'] = k
      <3>1. Holder(k)' = CHOOSE i \in Slot : first'[i] = k BY DEF Holder
      <3> QED BY <2>1, <2>3, <3>1
    <2>5. UniqueKeys' BY DEF TableInv
    <2> QED BY <2>1, <2>2, <2>3, <2>4, <2>5 DEF UniqueKeys
  <1>11. Holder(k0)' = i0
    <2>1. Holder(k0)' = CHOOSE i \in Slot : first'[i] = k0 BY DEF Holder
    <2> QED BY <1>1, <1>2, <1>6, <2>1
  <1> QED BY <1>5, <1>7, <1>8, <1>9, <1>10, <1>11

\* A key is erased: its slot stays in use.
LEMMA ErasesRemovesKey ==
    ASSUME Disciplined, TableInv, NEW t \in Thread, Erases(t), TableInv'
    PROVE  /\ ThisKey(t) \in Stored /\ Stored' = Stored \ {ThisKey(t)}
           /\ UsedSlots' = UsedSlots /\ Holder(ThisKey(t)) = ThisSlot(t)
           /\ \A k \in Stored' : Holder(k)' = Holder(k) /\ Holder(k) # ThisSlot(t)
  <1>0. PICK k0, i0 : k0 = ThisKey(t) /\ i0 = ThisSlot(t) OBVIOUS
  <1> USE <1>0
  <1>1. k0 \in Key /\ i0 \in Slot /\ "erase" \in Calls
    BY AtAnElement DEF Erases, AtWork, TableInv, Shape, WorkFitsCall
  <1>2. EmptyKey \notin Key /\ ErasedKey \notin Key /\ ErasedKey # EmptyKey
    BY <1>1 DEF Disciplined, HasTombstone
  <1>3. first[i0] = k0 /\ first' = [first EXCEPT ![i0] = ErasedKey] BY DEF Erases
  <1>4. first \in [Slot -> SlotKeys] BY DEF TableInv, Shape, TypeOK
  <1>5. \A i \in Slot : first'[i] = IF i = i0 THEN ErasedKey ELSE first[i] BY <1>1, <1>3, <1>4
  <1>6. k0 \in Stored /\ Holder(k0) = i0 BY <1>1, <1>3, HolderHolds
  <1>7. Stored' = Stored \ {k0}
    <2>1. Stored' = {first'[i] : i \in Slot} \cap Key BY DEF Stored
    <2>2. \A i \in Slot : first[i] = k0 => i = i0 BY <1>1, <1>3 DEF TableInv, UniqueKeys
    <2> QED BY <1>1, <1>2, <1>3, <1>5, <2>1, <2>2 DEF Stored
  <1>8. UsedSlots' = UsedSlots
    <2>1. UsedSlots' = {i \in Slot : first'[i] # EmptyKey} BY DEF UsedSlots
    <2> QED BY <1>1, <1>2, <1>3, <1>5, <2>1 DEF UsedSlots
  <1>9. ASSUME NEW k \in Stored' PROVE Holder(k)' = Holder(k) /\ Holder(k) # i0
    <2>1. k \in Stored /\ k # k0 BY <1>7
    <2>2. Holder(k) \in Slot /\ first[Holder(k)] = k /\ k \in Key BY <2>1, HolderHolds
    <2>3. Holder(k) # i0 BY <1>3, <2>1, <2>2
    <2>4. first'[Holder(k)] = k BY <1>5, <2>2, <2>3
    <2>5. Holder(k)' \in Slot /\ first'[Holder(k)'] = k
      <3>1. Holder(k)' = CHOOSE i \in Slot : first'[i] = k BY DEF Holder
      <3> QED BY <2>2, <2>4, <3>1
    <2>6. UniqueKeys' BY DEF TableInv
    <2> QED BY <2>2, <2>3, <2>4, <2>5, <2>6 DEF UniqueKeys
  <1> QED BY <1>6, <1>7, <1>8, <1>9

--------------------------------------------------------------------------------
(* What a step of a running kernel comes to. *)

\* Nothing but the thread's registers changes.
Silent == UNCHANGED <<first, second, out, counter, ioaCounter, localFailed, localAssigned>>
Found(t) == first[ThisSlot(t)] = ThisKey(t)
Writing(t) == pc[t] \in {"store", "assign", "wipe"}

\* On with the same element.
Proceeds(t) ==
    /\ UNCHANGED elt /\ Silent /\ Elem(t).pass /\ ~Writing(t)
    /\ \/ pc[t] = "fetch" /\ pc'[t] = "probe" /\ pos'[t] = 1
       \/ /\ pc[t] \in {"probe", "cas"} /\ pc'[t] = "probe"
          /\ pos'[t] = pos[t] + 1 /\ ~Found(t)
       \/ pc'[t] = "cas" /\ pos'[t] = pos[t] /\ Now \in InsertCalls
       \/ /\ pc'[t] \in {"assign", "wait", "load", "erase"}
          /\ pos'[t] = pos[t] /\ Found(t)
          /\ pc'[t] = "wait" => Now = "insertfind"
          /\ pc'[t] = "load" => Now \in {"insertfind", "find"}
          /\ pc'[t] = "erase" => /\ pc[t] = "probe"
                                 /\ Layout # "wide" => seen'[t] = second[ThisSlot(t)]

\* ForEach calls back and looks further.
CallsBack(t) ==
    /\ pc[t] = "probe" /\ pc'[t] = "probe" /\ UNCHANGED elt /\ pos'[t] = pos[t] + 1
    /\ Now = "foreach" /\ Found(t) /\ Answer(t, ThisKey(t), "yes")
    /\ UNCHANGED <<first, second, counter, ioaCounter, localFailed, localAssigned>>

\* A slot wider than a word changes hands, its payload comes later.
Wins(t) ==
    /\ pc'[t] = "store" /\ UNCHANGED <<elt, pos>> /\ Takes(t) /\ Now \in InsertCalls
    /\ UNCHANGED <<second, out, counter, ioaCounter, localFailed, localAssigned>>
Buries(t) ==
    /\ pc'[t] = "wipe" /\ UNCHANGED <<elt, pos>> /\ Erases(t) /\ Now = "erase"
    /\ UNCHANGED <<second, out, counter, ioaCounter, localFailed, localAssigned>>

\* The stencil rejects the element.
Rejects(t) ==
    /\ pc[t] = "fetch" /\ ~Elem(t).pass
    /\ IF Now = "find" THEN Answer(t, Nothing, "no") ELSE UNCHANGED out
    /\ UNCHANGED <<first, second, counter, ioaCounter, localFailed, localAssigned>>

\* No slot serves the key.
Missed(t) ==
    \/ ThisKey(t) \notin Stored /\ (Now \in InsertCalls => UsedSlots = Slot)
    \/ Noted(t) /\ Now = "foreach"
Fails(t) ==
    /\ AtWork(t) /\ ~Writing(t) /\ Missed(t)
    /\ IF Now \in {"insert", "upsert", "erase"} THEN AddFailed(t) ELSE NoCount
    /\ IF Now \in {"find", "insertfind"} THEN Answer(t, Nothing, "no") ELSE UNCHANGED out
    /\ UNCHANGED <<first, second, counter, ioaCounter>>

\* An Insert meets its key.
Meets(t) ==
    /\ AtWork(t) /\ ~Writing(t) /\ Now = "insert" /\ Found(t)
    /\ AddFailed(t)
    /\ UNCHANGED <<first, second, out, counter, ioaCounter>>

\* The element is in the table, with its payload.
Brings(t) ==
    /\ Now \in InsertCalls
    /\ \/ /\ Takes(t) /\ Layout # "wide"
          /\ \A i \in Slot : IF i = ThisSlot(t) THEN Content(i)' = Elem(t).val
                                               ELSE second'[i] = second[i]
       \/ /\ pc[t] = "store" /\ UNCHANGED first /\ HasPayload
          /\ second' = [second EXCEPT ![ThisSlot(t)] = Elem(t).val]
    /\ IF Now = "insertfind" THEN Answer(t, Elem(t).val, "yes") ELSE UNCHANGED out
    /\ UNCHANGED <<counter, ioaCounter, localFailed, localAssigned>>

\* The payload of a stored key is replaced.
Replaces(t) ==
    /\ pc[t] = "assign" /\ Found(t) /\ Now \in {"upsert", "assign"} /\ HasPayload
    /\ UNCHANGED <<first, out, counter, ioaCounter, localFailed>>
    /\ second' = [second EXCEPT ![ThisSlot(t)] = Elem(t).val]
    /\ localAssigned' = IF Now = "upsert" /\ Now \in Synchronous
                        THEN [localAssigned EXCEPT ![t] = @ + 1] ELSE localAssigned

\* The key is gone, its payload too.
Removes(t) ==
    /\ Now = "erase"
    /\ Erases(t) \/ (pc[t] = "wipe" /\ UNCHANGED first)
    /\ second' = [second EXCEPT ![ThisSlot(t)] = EmptyVal]
    /\ UNCHANGED <<out, counter, ioaCounter, localFailed, localAssigned>>

\* What the slot holds is the answer.
Reads(t) ==
    /\ AtWork(t) /\ ~Writing(t) /\ Found(t)
    /\ Now \in {"find", "insertfind"}
    /\ Answer(t, Content(ThisSlot(t)), IF Now = "find" THEN "yes" ELSE "no")
    /\ Now = "insertfind" => pc[t] = "load"
    /\ UNCHANGED <<first, second, counter, ioaCounter, localFailed, localAssigned>>

\* A Count hits; a ForEach calls back in the last slot.
Hits(t) ==
    /\ pc[t] = "probe" /\ Found(t) /\ Now = "count" /\ counter' = counter + 1
    /\ UNCHANGED <<first, second, out, ioaCounter, localFailed, localAssigned>>
CallsBackLast(t) ==
    /\ pc[t] = "probe" /\ Found(t) /\ Now = "foreach" /\ Answer(t, ThisKey(t), "yes")
    /\ UNCHANGED <<first, second, counter, ioaCounter, localFailed, localAssigned>>

Goes(t) == Proceeds(t) \/ CallsBack(t) \/ Wins(t) \/ Buries(t)
Ends(t) ==
    \/ Rejects(t) \/ Fails(t) \/ Meets(t) \/ Brings(t) \/ Replaces(t) \/ Removes(t)
    \/ Reads(t) \/ Hits(t) \/ CallsBackLast(t)

\* A lookup that comes to an empty slot, or to the end, has missed its key.
LEMMA MissedIt ==
    ASSUME SingleStream, Disciplined, TableInv, ThreadsKnow, Working, ~Clearing,
           NEW t \in Thread, pc[t] = "probe", Now \in LookupCalls,
           ~Found(t), first[ThisSlot(t)] = EmptyKey \/ ~(pos[t] < N)
    PROVE  Missed(t)
  <1> SUFFICES ASSUME ~Noted(t), ThisKey(t) \in Stored PROVE FALSE
    BY DEF Missed, LookupCalls, InsertCalls, Noted
  <1> DEFINE k == ThisKey(t)
  <1>1. k \in Key /\ pos[t] \in Slot /\ N \in Nat
    BY AtThisElement, TableAssumption DEF TableAssumption, TableInv, Shape, TypeOK, AtWork
  <1>2. PICK p \in Slot : first[Path[k][p]] = k
    <2>1. PICK i \in Slot : first[i] = k BY DEF Stored
    <2> QED BY <1>1, <2>1, PathIsAPermutation
  <1>3. p # pos[t] BY <1>2 DEF Found, ThisSlot
  <1>4. ~(p < pos[t])
    <2>1. \A q \in 1..(pos[t] - 1) : first[Path[k][q]] # k BY DEF ThreadsKnow, Knows
    <2> QED BY <1>1, <1>2, <2>1 DEF Slot
  <1>5. p > pos[t] /\ p <= N BY <1>1, <1>3, <1>4 DEF Slot
  <1>6. first[ThisSlot(t)] = EmptyKey BY <1>1, <1>5 DEF Slot
  <1>7. pos[t] \in 1..(p - 1) BY <1>1, <1>5 DEF Slot
  <1> QED BY <1>1, <1>2, <1>6, <1>7 DEF TableInv, Reachable, ThisSlot

\* An insertion that comes to the end has seen a full table without its key.
LEMMA MissedRoom ==
    ASSUME TableInv, NEW t \in Thread, Inserting(t), AtWork(t),
           ~(pos[t] < N), first[ThisSlot(t)] \notin {EmptyKey, ThisKey(t)}
    PROVE  Missed(t)
  <1>1. \A j \in Slot : first[j] \notin {EmptyKey, ThisKey(t)}
    BY PassedAll DEF TableInv
  <1> QED BY <1>1 DEF Missed, Stored, UsedSlots

\* The end of the search, for lookups and for insertions.
LEMMA GivesUp ==
    ASSUME SingleStream, NEW t \in Thread, GiveUp(t), AtWork(t), Missed(t),
           ~Writing(t), UNCHANGED <<first, second, ioaCounter>>
    PROVE  NextElement(t) /\ Ends(t)
  BY OneKernel DEF GiveUp, Fails, Ends

\* The load of an insertion.
LEMMA ProbeInsertIs ==
    ASSUME SingleStream, Disciplined, TableInv, ThreadsKnow, Working, ~Clearing,
           NEW t \in Thread, ProbeInsert(t)
    PROVE  Goes(t) \/ (NextElement(t) /\ Ends(t))
  <1> USE DEF TableInv
  <1>1. AtWork(t) /\ Op(t) = Now /\ Elem(t).pass /\ pc[t] = "probe"
        /\ Now \in InsertCalls /\ Inserting(t) /\ ~Writing(t)
    BY OneKernel DEF ProbeInsert, AtWork, Writing, ThreadsKnow, Knows, Inserting
  <1>2. UNCHANGED <<first, second, ioaCounter>> BY <1>1 DEF ProbeInsert
  <1>3. CASE Goto(t, "cas")
    BY <1>1, <1>2, <1>3
    DEF ProbeInsert, Goto, Goes, Proceeds, Silent, AlreadyThere, NextElement, KeepLooking,
        MoveOn, GiveUp, Shape, TypeOK
  <1>4. CASE AlreadyThere(t) /\ Found(t)
    <2>1. CASE Now = "insert"
      BY <1>1, <1>2, <1>4, <2>1 DEF AlreadyThere, Ends, Meets
    <2>2. CASE Now # "insert"
      BY <1>1, <1>2, <1>4, <2>2
      DEF AlreadyThere, Goto, Goes, Proceeds, Silent, Shape, TypeOK
    <2> QED BY <2>1, <2>2
  <1>5. CASE KeepLooking(t) /\ first[ThisSlot(t)] \notin {EmptyKey, ThisKey(t)}
    <2>1. CASE MoveOn(t)
      BY <1>1, <1>2, <1>5, <2>1 DEF MoveOn, Goes, Proceeds, Silent, Found, Shape, TypeOK
    <2>2. CASE ~(pos[t] < N) /\ GiveUp(t)
      BY <1>1, <1>2, <1>5, <2>2, MissedRoom, GivesUp
    <2> QED BY <1>5, <2>1, <2>2 DEF KeepLooking
  <1> QED BY <1>3, <1>4, <1>5 DEF ProbeInsert, Found

\* The compare-and-swap of an insertion.
LEMMA CasInsertIs ==
    ASSUME SingleStream, Disciplined, TableInv, ThreadsKnow, Working, ~Clearing,
           NEW t \in Thread, CasInsert(t)
    PROVE  Goes(t) \/ (NextElement(t) /\ Ends(t))
  <1> USE DEF TableInv
  <1>1. AtWork(t) /\ Op(t) = Now /\ Elem(t).pass /\ pc[t] = "cas"
        /\ Now \in InsertCalls /\ Inserting(t) /\ ~Writing(t) /\ UNCHANGED <<ioaCounter>>
    BY OneKernel DEF CasInsert, Writing, AtWork, ThreadsKnow, Knows, Inserting
  <1>2. ThisSlot(t) \in Slot /\ ThisKey(t) \in Key /\ Elem(t) \in Element BY <1>1, AtThisElement
  <1>3. CASE TakeSlot(t)
    <2>1. Takes(t) BY <1>1, <1>3 DEF TakeSlot, FreeAt, Takes
    <2>2. CASE Layout = "wide"
      BY <1>1, <1>3, <2>1, <2>2 DEF TakeSlot, Goto, Goes, Wins, Shape, TypeOK
    <2>3. CASE Layout # "wide"
      <3>1. NextElement(t) /\ UNCHANGED <<counter, localFailed, localAssigned>>
            /\ IF Now = "insertfind" THEN Answer(t, Elem(t).val, "yes") ELSE UNCHANGED out
        BY <1>1, <1>3, <2>3 DEF TakeSlot, NoCount
      <3>2. second' = [second EXCEPT ![ThisSlot(t)] = IF HasPayload THEN Elem(t).val ELSE @]
            /\ first' = [first EXCEPT ![ThisSlot(t)] = ThisKey(t)]
        BY <1>3, <2>3 DEF TakeSlot
      <3>3. \A i \in Slot \ {ThisSlot(t)} : second'[i] = second[i]
        BY <1>2, <3>2 DEF Shape, TypeOK
      <3>4. ASSUME NEW i \in Slot, i = ThisSlot(t) PROVE Content(i)' = Elem(t).val
        <4>1. HasPayload => second'[i] = Elem(t).val BY <1>2, <3>2, <3>4 DEF Shape, TypeOK
        <4>2. first'[i] = ThisKey(t) BY <1>2, <3>2, <3>4 DEF Shape, TypeOK
        <4>3. ~HasPayload => Elem(t).val = ThisKey(t) BY <1>2, ElementsCarry DEF ThisKey
        <4> QED BY <4>1, <4>2, <4>3 DEF Content
      <3> QED BY <1>1, <1>2, <2>1, <2>3, <3>1, <3>3, <3>4 DEF Ends, Brings
    <2> QED BY <2>2, <2>3
  <1>4. CASE ~TakeSlot(t)
    <2>1. UNCHANGED <<first, second>> /\ ~FreeAt(ThisSlot(t))
          /\ IF Found(t) THEN AlreadyThere(t) ELSE KeepLooking(t)
      BY <1>4 DEF CasInsert, tableVars, Found
    <2>2. first[ThisSlot(t)] # EmptyKey BY <1>2, <2>1 DEF FreeAt, FreeSlotsAreBlank
    <2>3. CASE Found(t) /\ Now = "insert"
      BY <1>1, <2>1, <2>3 DEF AlreadyThere, Ends, Meets
    <2>4. CASE Found(t) /\ Now # "insert"
      BY <1>1, <2>1, <2>4 DEF AlreadyThere, Goto, Goes, Proceeds, Silent, Shape, TypeOK
    <2>5. CASE ~Found(t) /\ MoveOn(t)
      BY <1>1, <2>1, <2>5 DEF MoveOn, Goes, Proceeds, Silent, Found, Shape, TypeOK
    <2>6. CASE ~Found(t) /\ ~(pos[t] < N) /\ GiveUp(t)
      BY <1>1, <2>1, <2>2, <2>6, MissedRoom, GivesUp DEF Found
    <2> QED BY <2>1, <2>3, <2>4, <2>5, <2>6 DEF KeepLooking
  <1> QED BY <1>3, <1>4

\* The loads of the lookups.
LEMMA ProbeLookupIs ==
    ASSUME SingleStream, Disciplined, TableInv, ThreadsKnow, Working, ~Clearing, NEW t \in Thread,
           ProbeAssign(t) \/ ProbeErase(t) \/ ProbeFind(t) \/ ProbeForEach(t)
    PROVE  Goes(t) \/ (NextElement(t) /\ Ends(t))
  <1> USE DEF TableInv
  <1>1. /\ AtWork(t) /\ Op(t) = Now /\ Elem(t).pass /\ pc[t] = "probe"
        /\ Now \in LookupCalls /\ ~Writing(t) /\ UNCHANGED <<first, second, ioaCounter>>
    BY OneKernel
    DEF Writing, ProbeAssign, ProbeErase, ProbeFind, ProbeForEach, AtWork, ThreadsKnow, Knows,
        LookupCalls
  <1>2. ThisKey(t) \in Key /\ Now \in Calls /\ ThisKey(t) # EmptyKey
    BY <1>1, AtThisElement DEF Disciplined
  <1>3. CASE MoveOn(t) /\ ~Found(t)
    BY <1>1, <1>3 DEF MoveOn, Goes, Proceeds, Silent, Shape, TypeOK
  <1>4. CASE GiveUp(t) /\ ~Found(t) /\ (first[ThisSlot(t)] = EmptyKey \/ ~(pos[t] < N))
    BY <1>1, <1>4, MissedIt, GivesUp
  <1>5. CASE KeepLooking(t) /\ first[ThisSlot(t)] # ThisKey(t)
    BY <1>3, <1>4, <1>5 DEF KeepLooking, Found
  <1>6. CASE Found(t) /\ ProbeAssign(t)
    BY <1>1, <1>2, <1>6
    DEF ProbeAssign, Found, Goto, Goes, Proceeds, Silent, Shape, TypeOK
  <1>7. CASE Found(t) /\ ProbeErase(t)
    BY <1>1, <1>2, <1>7
    DEF ProbeErase, Found, Goto, Goes, Proceeds, Silent, Shape, TypeOK
  <1>8. CASE Found(t) /\ ProbeFind(t)
    <2>1. CASE Now = "count"
      BY <1>1, <1>2, <1>8, <2>1 DEF ProbeFind, Found, Ends, Hits, NoCount
    <2>2. CASE Now = "find" /\ Layout = "wide"
      BY <1>1, <1>2, <1>8, <2>2
      DEF ProbeFind, Found, Goto, Goes, Proceeds, Silent, Shape, TypeOK
    <2>3. CASE Now = "find" /\ Layout # "wide"
      BY <1>1, <1>2, <1>8, <2>3 DEF ProbeFind, Found, Ends, Reads, NoCount
    <2> QED BY <1>1, <1>8, <2>1, <2>2, <2>3 DEF ProbeFind
  <1>9. CASE Found(t) /\ ProbeForEach(t)
    <2>1. Now = "foreach" /\ Answer(t, ThisKey(t), "yes") /\ UNCHANGED counter
      BY <1>1, <1>2, <1>9 DEF ProbeForEach, Found
    <2>2. CASE pos[t] < N
      BY <1>1, <1>2, <1>9, <2>1, <2>2 DEF ProbeForEach, Found, Goes, CallsBack, Shape, TypeOK
    <2>3. CASE ~(pos[t] < N)
      BY <1>1, <1>2, <1>9, <2>1, <2>3
      DEF ProbeForEach, Found, Ends, CallsBackLast, NoCount
    <2> QED BY <2>2, <2>3
  <1>10. CASE ~Found(t)
    <2>1. Now = "erase" => HasTombstone BY <1>2 DEF Disciplined
    <2> QED
      BY <1>1, <1>4, <1>5, <1>10, <2>1
      DEF ProbeAssign, ProbeErase, ProbeFind, ProbeForEach, Found
  <1> QED BY <1>6, <1>7, <1>8, <1>9, <1>10

\* The compare-and-swap of an erase: if it fails, the key has been erased.
LEMMA CasEraseIs ==
    ASSUME SingleStream, Disciplined, TableInv, ThreadsKnow, Working,
           NEW t \in Thread, CasErase(t)
    PROVE  Goes(t) \/ (NextElement(t) /\ Ends(t))
  <1> USE DEF TableInv
  <1>1. /\ AtWork(t) /\ Op(t) = Now /\ Elem(t).pass /\ pc[t] = "erase"
        /\ Now = "erase" /\ ~Writing(t) /\ UNCHANGED <<ioaCounter>>
    BY OneKernel DEF CasErase, Writing, AtWork, ThreadsKnow, Knows, Shape, WorkFitsCall
  <1>2. ThisKey(t) \in Key /\ ErasedKey \notin Key BY <1>1, AtThisElement DEF Disciplined
  <1>3. \/ first[ThisSlot(t)] = ErasedKey /\ ThisKey(t) \notin Stored
        \/ Found(t) /\ (Layout = "wide" \/ second[ThisSlot(t)] = seen[t])
    BY <1>1 DEF ThreadsKnow, Knows, Found
  <1>4. CASE Found(t) /\ (Layout = "wide" \/ second[ThisSlot(t)] = seen[t])
    <2>1. Erases(t) /\ UNCHANGED <<out, counter>>
      BY <1>1, <1>4 DEF CasErase, Erases, Found
    <2>2. CASE Layout = "wide"
      BY <1>1, <1>4, <2>1, <2>2
      DEF CasErase, Found, Goto, Goes, Buries, Shape, TypeOK
    <2>3. CASE Layout # "wide"
      BY <1>1, <1>4, <2>1, <2>3 DEF CasErase, Found, Ends, Removes, NoCount
    <2> QED BY <2>2, <2>3
  <1>5. CASE first[ThisSlot(t)] = ErasedKey /\ ThisKey(t) \notin Stored
    <2>1. GiveUp(t) /\ UNCHANGED <<first, second>>
      BY <1>2, <1>5 DEF CasErase, tableVars
    <2>2. Missed(t) BY <1>1, <1>5 DEF Missed, InsertCalls
    <2> QED BY <1>1, <2>1, <2>2, GivesUp
  <1> QED BY <1>3, <1>4, <1>5

\* Every step of a running kernel is one of the above.
LEMMA StepIs ==
    ASSUME SingleStream, Disciplined, TableInv, ThreadsKnow, Working, NEW t \in Thread, Step(t)
    PROVE  /\ pc[t] # "exit"
           /\ \/ Leave(t)
              \/ elt[t] \in DOMAIN Elements /\ Goes(t)
              \/ elt[t] \in DOMAIN Elements /\ NextElement(t) /\ Ends(t)
           /\ ~Leave(t) => UNCHANGED ioaCounter
  <1> USE DEF TableInv
  <1>1. ~Clearing /\ ~ClearSlot(t) /\ Op(t) = Now /\ StreamOf[t] = Host
    BY WorkingSteps, OneKernel
  <1>2. pc[t] # "exit"
    BY DEF Step, Fetch, ClearSlot, Leave, ProbeInsert, CasInsert, StorePayload,
           AssignPayload, WaitForPayload, LoadContent, ProbeAssign, ProbeErase,
           CasErase, WipePayload, ProbeFind, ProbeForEach
  <1>3. ~Leave(t) => UNCHANGED ioaCounter
    BY <1>1 DEF Step, Fetch, ClearSlot, ProbeInsert, CasInsert, StorePayload,
           AssignPayload, WaitForPayload, LoadContent, ProbeAssign, ProbeErase,
           CasErase, WipePayload, ProbeFind, ProbeForEach
  <1>4. ~Leave(t) => elt[t] \in DOMAIN Elements
    <2>1. CASE AtWork(t) BY <2>1, AtThisElement
    <2>2. CASE Fetch(t)
      <3>1. elt[t] <= Len(Elements) /\ elt[t] \in Nat \ {0}
        BY <1>1, <2>2 DEF Fetch, Limit, Working, Now, Elements, Shape, TypeOK
      <3> QED BY <3>1, ElementsTyped
    <2> QED BY <1>1, <2>1, <2>2
      DEF Step, AtWork, ProbeInsert, CasInsert, StorePayload, AssignPayload, WaitForPayload,
          LoadContent, ProbeAssign, ProbeErase, CasErase, WipePayload, ProbeFind, ProbeForEach
  <1> SUFFICES Leave(t) \/ Goes(t) \/ (NextElement(t) /\ Ends(t)) BY <1>2, <1>3, <1>4
  <1>5. CASE Fetch(t)
    <2>1. pos[t] = 1 /\ pc[t] = "fetch" BY <1>5 DEF Fetch, Shape, WorkFitsCall, AtWork
    <2>2. CASE Elem(t).pass
      BY <1>5, <2>1, <2>2 DEF Fetch, Writing, Goto, Goes, Proceeds, Silent, Shape, TypeOK
    <2>3. CASE ~Elem(t).pass
      BY <1>1, <1>5, <2>1, <2>3 DEF Fetch, Ends, Rejects, NoCount
    <2> QED BY <2>2, <2>3
  <1>6. CASE StorePayload(t)
    <2>1. Now \in InsertCalls /\ HasPayload
      BY <1>6 DEF StorePayload, ThreadsKnow, Knows, Shape, WorkFitsCall, HasPayload
    <2> QED BY <1>1, <1>6, <2>1 DEF StorePayload, Ends, Brings, NoCount
  <1>7. CASE AssignPayload(t)
    <2>1. AtWork(t) /\ pc[t] = "assign" /\ Found(t) /\ Now \in {"upsert", "assign"}
      BY <1>1, <1>7 DEF AssignPayload, AtWork, ThreadsKnow, Knows, Found, Shape, WorkFitsCall
    <2>2. UNCHANGED first
      BY <1>7, <2>1, AtThisElement DEF AssignPayload, Found, Shape, TypeOK
    <2>3. HasPayload
      BY <1>1, <2>1, AtAnElement, CallAssumption DEF CallAssumption
    <2> QED BY <1>1, <1>7, <2>1, <2>2, <2>3 DEF AssignPayload, Ends, Replaces, Counting
  <1>8. CASE WaitForPayload(t)
    <2>1. Found(t) /\ Now = "insertfind" /\ Elem(t).pass
      BY <1>8 DEF WaitForPayload, ThreadsKnow, Knows, Found, AtWork
    <2> QED BY <1>8, <2>1 DEF WaitForPayload, Writing, Goto, Goes, Proceeds, Silent, Shape, TypeOK
  <1>9. CASE LoadContent(t)
    <2>1. Found(t) /\ Now \in {"insertfind", "find"} /\ AtWork(t)
      BY <1>9 DEF LoadContent, ThreadsKnow, Knows, Found, AtWork
    <2> QED BY <1>1, <1>9, <2>1 DEF LoadContent, Writing, Ends, Reads, NoCount
  <1>10. CASE WipePayload(t)
    <2>1. Now = "erase" BY <1>10 DEF WipePayload, ThreadsKnow, Knows
    <2> QED BY <1>10, <2>1 DEF WipePayload, Ends, Removes, NoCount
  <1> QED
    BY <1>1, <1>5, <1>6, <1>7, <1>8, <1>9, <1>10, ProbeInsertIs, CasInsertIs, ProbeLookupIs,
       CasEraseIs
    DEF Step

\* The entry that a thread writes.
LEMMA AnswerIs ==
    ASSUME SingleStream, Shape, NEW t \in Thread, elt[t] \in DOMAIN Elements,
           NEW v, NEW f, Answer(t, v, f)
    PROVE  /\ out'[Host][elt[t]] = [val |-> v, flag |-> f]
           /\ \A i \in DOMAIN Elements : i # elt[t] => out'[Host][i] = out[Host][i]
  <1>1. /\ out \in [Stream -> Seq(Result)] /\ StreamOf[t] = Host /\ Host \in Stream
        /\ Len(out[Host]) = Len(Elements)
    BY OneKernel DEF Shape, TypeOK, Elements
  <1>2. DOMAIN out[Host] = DOMAIN Elements BY <1>1, ElementsTyped
  <1> QED BY <1>1, <1>2 DEF Answer

--------------------------------------------------------------------------------
(* The invariant of a running kernel, part by part. *)

\* The invariants the parts rest on.
Grounds == SingleStream /\ Disciplined /\ TableInv /\ TableInv' /\ ThreadsKnow /\ Working

\* The two ways to go on with the loop.
LEMMA GoesOn ==
    ASSUME Grounds, NEW t \in Thread, Step(t), Goes(t), elt[t] \in DOMAIN Elements
    PROVE  /\ Done' = Done /\ Strided' /\ \A u \in Thread : Share(u)' = Share(u)
           /\ UNCHANGED <<elt, counter, ioaCounter, localFailed, localAssigned>>
           /\ \A u \in Thread : pc'[u] = "exit" <=> pc[u] = "exit"
  <1>1. /\ pc[t] # "exit" /\ pc'[t] # "exit"
        /\ UNCHANGED <<elt, batch, counter, ioaCounter, localFailed, localAssigned>>
    BY OthersStay, StepIs
    DEF Grounds, TableInv, Goes, Proceeds, Silent, CallsBack, Wins, Buries
  <1>2. \A u \in Thread : pc'[u] = "exit" <=> pc[u] = "exit"
    BY <1>1, OthersStay DEF Grounds, TableInv
  <1> QED BY <1>1, <1>2, Continuing DEF Grounds, TableInv, ThreadsKnow

\* The loop body is over: its element is done.
LEMMA EndsElement ==
    ASSUME Grounds, NEW t \in Thread, Step(t), NextElement(t), elt[t] \in DOMAIN Elements
    PROVE  /\ Done' = Done \cup {elt[t]} /\ elt[t] \notin Done /\ elt[t] \in Share(t)
           /\ Strided' /\ \A u \in Thread : Share(u)' = Share(u)
           /\ \A u \in Thread : pc'[u] = "exit" <=> pc[u] = "exit"
           /\ pc[t] # "exit" /\ pc'[t] = "fetch"
  <1>1. pc[t] # "exit" /\ UNCHANGED batch
    BY OthersStay, StepIs DEF Grounds, TableInv
  <1>2. pc'[t] = "fetch" BY DEF NextElement, Grounds, TableInv, Shape, TypeOK
  <1> QED BY <1>1, <1>2, Finishing, DueUntilDone DEF Grounds, TableInv, ThreadsKnow

\* Every thread knows what its place in the program says.
LEMMA StepKeepsThreadsKnow ==
    ASSUME Grounds, NEW t \in Thread, Step(t)
    PROVE  ThreadsKnow'
  <1> USE DEF Grounds, TableInv
  <1>0. Now' = Now /\ batch' = batch /\ UNCHANGED op /\ StreamOf[t] = Host BY OthersStay, OneKernel
  <1>1. \A u \in Thread \ {t} : Knows(u)' BY OthersKnow
  <1>2. CASE Leave(t)
    <2>1. pc'[t] = "exit" BY <1>2 DEF Leave, Shape, TypeOK
    <2>2. Knows(t)' BY <2>1 DEF Knows, AtWork
    <2> QED BY <1>1, <1>2, <2>2, LeavingDone DEF ThreadsKnow
  <1>3. CASE NextElement(t) /\ elt[t] \in DOMAIN Elements
    <2>1. pc'[t] = "fetch" /\ Strided' BY <1>3, EndsElement
    <2>2. Knows(t)' BY <2>1 DEF Knows, AtWork
    <2> QED BY <1>1, <2>1, <2>2 DEF ThreadsKnow
  <1>4. CASE Goes(t) /\ elt[t] \in DOMAIN Elements
    <2>1. Strided' /\ UNCHANGED elt BY <1>4, GoesOn
    <2> SUFFICES Knows(t)' BY <1>1, <2>1 DEF ThreadsKnow
    <2>2. Elem(t)' = Elem(t) /\ ThisKey(t)' = ThisKey(t)
          /\ (pos'[t] = pos[t] => ThisSlot(t)' = ThisSlot(t))
      BY <1>0, <2>1 DEF Elem, ThisKey, ThisSlot
    <2>3. Shape' OBVIOUS
    <2>4. Knows(t) BY DEF ThreadsKnow
    <2>5. CASE Proceeds(t)
      <3>1. UNCHANGED <<first, second, out>> /\ Elem(t).pass BY <2>5 DEF Proceeds, Silent
      <3>2. CASE pc[t] = "fetch" /\ pc'[t] = "probe" /\ pos'[t] = 1
        <4>1. \A q \in 1..(pos'[t] - 1) : FALSE BY <3>2
        <4> QED BY <2>2, <3>1, <3>2, <4>1 DEF Knows, AtWork
      <3>3. CASE /\ pc[t] \in {"probe", "cas"} /\ pc'[t] = "probe"
                 /\ pos'[t] = pos[t] + 1 /\ ~Found(t)
        <4>1. CASE Now \in LookupCalls
          <5>1. pc[t] = "probe" BY <2>4, <3>3, <4>1 DEF Knows, InsertCalls, LookupCalls
          <5>2. Noted(t)' <=> Noted(t) BY <1>0, <2>1, <3>1 DEF Noted, Unset, Nothing
          <5>3. ASSUME ~Noted(t), NEW q \in 1..(pos'[t] - 1)
                PROVE  first[Path[ThisKey(t)][q]] # ThisKey(t)
            <6>1. pos[t] \in Nat BY DEF Shape, TypeOK, Slot
            <6>2. q \in 1..(pos[t] - 1) \/ q = pos[t] BY <3>3, <5>3, <6>1
            <6> QED BY <2>4, <3>3, <4>1, <5>1, <5>3, <6>2 DEF Knows, Found, ThisSlot
          <5> QED BY <2>2, <3>1, <3>3, <5>2, <5>3 DEF Knows, AtWork
        <4>2. CASE Now \notin LookupCalls
          BY <1>0, <2>2, <3>1, <3>3, <4>2 DEF Knows, AtWork, LookupCalls
        <4> QED BY <4>1, <4>2
      <3>4. CASE pc'[t] = "cas" /\ pos'[t] = pos[t] /\ Now \in InsertCalls
        BY <1>0, <2>2, <3>1, <3>4 DEF Knows, AtWork, LookupCalls, InsertCalls
      <3>5. CASE /\ pc'[t] \in {"assign", "wait", "load", "erase"}
                 /\ pos'[t] = pos[t] /\ Found(t)
                 /\ pc'[t] = "wait" => Now = "insertfind"
                 /\ pc'[t] = "load" => Now \in {"insertfind", "find"}
                 /\ pc'[t] = "erase" => /\ pc[t] = "probe"
                                        /\ Layout # "wide" => seen'[t] = second[ThisSlot(t)]
        <4>1. first'[ThisSlot(t)'] = ThisKey(t) /\ second'[ThisSlot(t)'] = second[ThisSlot(t)]
          BY <2>2, <3>1, <3>5 DEF Found
        <4>2. CASE pc'[t] # "erase"
          BY <1>0, <2>2, <3>1, <3>5, <4>1, <4>2 DEF Knows, AtWork
        <4>3. CASE pc'[t] = "erase"
          <5>1. Now = "erase" BY <1>0, <4>3, OneKernel DEF Shape, WorkFitsCall, Op
          <5>2. pc[t] = "probe"
            BY <3>5, <4>3
          <5>3. ~Noted(t) BY <5>1 DEF Noted
          <5>4. \A q \in 1..(pos[t] - 1) : first[Path[ThisKey(t)][q]] # ThisKey(t)
            BY <2>4, <5>1, <5>2, <5>3 DEF Knows, LookupCalls
          <5> QED BY <1>0, <2>2, <3>1, <3>5, <4>1, <4>3, <5>4 DEF Knows, AtWork
        <4> QED BY <4>2, <4>3
      <3> QED BY <2>5, <3>2, <3>3, <3>4, <3>5 DEF Proceeds
    <2>6. CASE CallsBack(t)
      <3>1. Noted(t)'
        <4>1. out'[Host][elt[t]] = [val |-> ThisKey(t), flag |-> "yes"]
          BY <1>4, <2>6, AnswerIs DEF CallsBack
        <4> QED BY <1>0, <2>1, <2>6, <4>1 DEF Noted, Unset, CallsBack
      <3> QED BY <1>0, <2>2, <2>4, <2>6, <3>1 DEF CallsBack, Knows, AtWork
    <2>7. CASE Wins(t)
      <3>1. ThisKey(t) \in Key /\ ThisSlot(t) \in Slot
        BY <2>7, AtThisElement DEF Wins, Takes, AtWork
      <3>2. first'[ThisSlot(t)'] = ThisKey(t)'
        BY <2>2, <2>7, <3>1 DEF Wins, Takes, Shape, TypeOK
      <3> QED BY <1>0, <2>2, <2>4, <2>7, <3>2 DEF Wins, Takes, Knows, AtWork
    <2>8. CASE Buries(t)
      <3>1. ThisKey(t) \in Key /\ ThisSlot(t) \in Slot
        BY <2>8, AtThisElement DEF Buries, Erases, AtWork
      <3>2. first'[ThisSlot(t)'] = ErasedKey /\ ThisKey(t)' \notin Stored'
        BY <2>2, <2>8, <3>1, ErasesRemovesKey, ZenonT(60) DEF Buries, Erases, Shape, TypeOK
      <3> QED BY <1>0, <2>2, <2>4, <2>8, <3>2 DEF Buries, Erases, Knows, AtWork
    <2> QED BY <1>4, <2>5, <2>6, <2>7, <2>8 DEF Goes
  <1> QED BY <1>2, <1>3, <1>4, StepIs

\* Who is about to store, or to wipe, after a step.
LEMMA StepToWrite ==
    ASSUME Grounds, NEW t \in Thread, Step(t)
    PROVE  pc'[t] \in {"store", "wipe"} =>
               elt'[t] = elt[t] /\ pos'[t] = pos[t] /\ (Wins(t) \/ Buries(t))
  <1> USE DEF Grounds, TableInv
  <1>1. CASE Leave(t) BY <1>1 DEF Leave, Shape, TypeOK
  <1>2. CASE NextElement(t) BY <1>2 DEF NextElement, Shape, TypeOK
  <1>3. CASE Goes(t) BY <1>3 DEF Goes, Proceeds, CallsBack, Wins, Buries
  <1> QED BY <1>1, <1>2, <1>3, StepIs

\* A slot that was won is stored to by its winner, and blank until then.
LEMMA StepKeepsStores ==
    ASSUME Grounds, OneStores, StoredIsBlank, NEW t \in Thread, Step(t)
    PROVE  OneStores' /\ StoredIsBlank'
  <1> USE DEF Grounds, TableInv
  <1>1. ASSUME NEW u \in Thread, pc'[u] = "store"
        PROVE  /\ ThisSlot(u)' = ThisSlot(u) /\ ThisSlot(u) \in Slot
               /\ \/ u # t /\ pc[u] = "store" /\ first[ThisSlot(u)] = ThisKey(u)
                     /\ ThisKey(u) \in Key
                  \/ u = t /\ Wins(t)
    <2>1. CASE u # t
      <3>1. pc[u] = "store" /\ ThisSlot(u)' = ThisSlot(u) BY <1>1, <2>1, OthersStay
      <3>2. ThisSlot(u) \in Slot /\ ThisKey(u) \in Key BY <3>1, AtThisElement DEF AtWork
      <3> QED BY <2>1, <3>1, <3>2 DEF ThreadsKnow, Knows
    <2>2. CASE u = t
      <3>1. Wins(t) /\ elt'[t] = elt[t] /\ pos'[t] = pos[t]
        BY <1>1, <2>2, StepToWrite DEF Buries
      <3>2. ThisSlot(t) \in Slot BY <3>1, AtThisElement DEF Wins, Takes, AtWork
      <3>3. UNCHANGED <<op, batch>> BY OthersStay
      <3> QED BY <2>2, <3>1, <3>2, <3>3 DEF ThisSlot, ThisKey, Elem
    <2> QED BY <2>1, <2>2
  <1>2. OneStores'
    <2> SUFFICES ASSUME NEW u \in Thread, NEW v \in Thread, pc'[u] = "store", pc'[v] = "store",
                        ThisSlot(u)' = ThisSlot(v)'
                 PROVE  u = v
      BY DEF OneStores
    <2>1. ThisSlot(u) = ThisSlot(v) BY <1>1
    <2>2. ~(u # t /\ v = t)
      BY <1>1, <2>1 DEF Wins, Takes, Disciplined
    <2>3. ~(u = t /\ v # t)
      BY <1>1, <2>1 DEF Wins, Takes, Disciplined
    <2> QED BY <1>1, <2>1, <2>2, <2>3 DEF OneStores
  <1>3. StoredIsBlank'
    <2> SUFFICES ASSUME NEW u \in Thread, pc'[u] = "store", Now # "upsert"
                 PROVE  second'[ThisSlot(u)] = EmptyVal
      BY <1>1, OthersStay DEF StoredIsBlank
    <2>1. CASE u = t
      BY <1>1, <2>1 DEF Wins, Takes, FreeSlotsAreBlank
    <2>2. CASE u # t
      <3>1. pc[u] = "store" /\ Now \in InsertCalls /\ Layout = "wide"
        BY <1>1, <2>2 DEF ThreadsKnow, Knows, Shape, WorkFitsCall
      <3>2. second[ThisSlot(u)] = EmptyVal BY <3>1 DEF StoredIsBlank
      <3>3. pc[t] = "assign" => Now \in {"upsert", "assign"}
        BY OneKernel DEF Shape, WorkFitsCall
      <3>4. pc[t] # "assign" BY <3>1, <3>3 DEF InsertCalls
      <3>5. pc[t] = "store" => ThisSlot(t) # ThisSlot(u) BY <2>2, <3>1 DEF OneStores
      <3>6. \/ UNCHANGED second
            \/ pc[t] = "store" /\ second' = [second EXCEPT ![ThisSlot(t)] = Elem(t).val]
            \/ second' = [second EXCEPT ![ThisSlot(t)] = EmptyVal]
        BY <3>1, <3>4, TableSteps
      <3> QED BY <1>1, <3>2, <3>5, <3>6 DEF Shape, TypeOK
    <2> QED BY <2>1, <2>2
  <1> QED BY <1>2, <1>3

\* What a step does to the keys stored and the slots in use.
LEMMA StoredSteps ==
    ASSUME Grounds, NEW t \in Thread, Step(t)
    PROVE  \/ UNCHANGED first /\ Stored' = Stored /\ UsedSlots' = UsedSlots
           \/ /\ Takes(t) /\ Now \in InsertCalls
              /\ ThisKey(t) \notin Stored /\ Stored' = Stored \cup {ThisKey(t)}
              /\ ThisSlot(t) \notin UsedSlots /\ UsedSlots' = UsedSlots \cup {ThisSlot(t)}
           \/ /\ Erases(t) /\ Now = "erase"
              /\ ThisKey(t) \in Stored /\ Stored' = Stored \ {ThisKey(t)}
              /\ UsedSlots' = UsedSlots
  <1> USE DEF Grounds
  <1>1. ~Clearing BY WorkingSteps DEF TableInv
  <1>2. CASE UNCHANGED first BY <1>2 DEF Stored, UsedSlots
  <1>3. CASE Takes(t) /\ Now \in InsertCalls BY <1>1, <1>3, TakesAddsKey
  <1>4. CASE Erases(t) /\ Now = "erase" BY <1>4, ErasesRemovesKey
  <1> QED BY <1>2, <1>3, <1>4, TableSteps

\* What a step does to the payload of a key that is stored before and after.
LEMMA LiveSteps ==
    ASSUME Grounds, NEW t \in Thread, Step(t), NEW k \in Stored, k \in Stored'
    PROVE  /\ LiveMap[k]' = LiveMap[k] \/ (pc[t] \in {"store", "assign"} /\ k = ThisKey(t))
           /\ k = ThisKey(t) /\ (Brings(t) \/ Replaces(t)) => LiveMap[k]' = Elem(t).val
  <1> USE DEF Grounds, TableInv
  <1>1. PICK h \in Slot :
            h = Holder(k) /\ first[h] = k /\ k \in Key /\ LiveMap[k] = Content(h)
    BY HolderHolds
  <1>2. Holder(k)' = h /\ (Takes(t) \/ Erases(t) => h # ThisSlot(t))
    <2>1. ~Clearing BY WorkingSteps
    <2>2. CASE UNCHANGED first /\ ~Takes(t) /\ ~Erases(t) BY <1>1, <2>2 DEF Holder
    <2>3. CASE Takes(t) BY <1>1, <2>1, <2>3, TakesAddsKey DEF Takes, Erases
    <2>4. CASE Erases(t) BY <1>1, <2>4, ErasesRemovesKey DEF Takes, Erases
    <2> QED BY <2>2, <2>3, <2>4, TableSteps
  <1>3. first'[h] = first[h]
    <2>1. \/ UNCHANGED first
          \/ Takes(t) /\ h # ThisSlot(t)
          \/ Erases(t) /\ h # ThisSlot(t)
      BY <1>2, TableSteps
    <2> QED BY <1>1, <2>1 DEF Takes, Erases, Shape, TypeOK
  <1>4. LiveMap[k]' = Content(h)'
    <2>1. k \in Stored' OBVIOUS
    <2>2. LiveMap[k]' = (Content(Holder(k)))' BY <2>1 DEF LiveMap
    <2> QED BY <1>2, <2>2 DEF Content
  <1>5. pc[t] \in {"store", "assign"} =>
            /\ ThisSlot(t) \in Slot /\ ThisKey(t) \in Key /\ first[ThisSlot(t)] = ThisKey(t)
            /\ (h = ThisSlot(t) <=> k = ThisKey(t))
    <2> SUFFICES ASSUME pc[t] \in {"store", "assign"}
                 PROVE  /\ ThisSlot(t) \in Slot /\ ThisKey(t) \in Key
                        /\ first[ThisSlot(t)] = ThisKey(t)
                        /\ (h = ThisSlot(t) <=> k = ThisKey(t))
      OBVIOUS
    <2>1. ThisSlot(t) \in Slot /\ ThisKey(t) \in Key BY AtThisElement DEF AtWork
    <2>2. first[ThisSlot(t)] = ThisKey(t) BY DEF ThreadsKnow, Knows
    <2> QED BY <1>1, <2>1, <2>2 DEF UniqueKeys
  <1>6. Takes(t) => k # ThisKey(t)
    <2>1. ~Clearing BY WorkingSteps
    <2> QED BY <2>1, TakesAddsKey
  <1>7. CASE ~HasPayload BY <1>1, <1>3, <1>4, <1>6, <1>7 DEF Content, Brings, Replaces
  <1>8. CASE HasPayload
    <2>1. LiveMap[k] = second[h] /\ LiveMap[k]' = second'[h] BY <1>1, <1>4, <1>8 DEF Content
    <2>2. CASE pc[t] \in {"store", "assign"} /\ k = ThisKey(t)
      <3>1. Brings(t) \/ Replaces(t) => second' = [second EXCEPT ![ThisSlot(t)] = Elem(t).val]
        BY <2>2 DEF Brings, Replaces, Takes
      <3> QED BY <1>1, <1>5, <2>1, <2>2, <3>1 DEF Shape, TypeOK
    <2>3. CASE ~(pc[t] \in {"store", "assign"} /\ k = ThisKey(t))
      <3>1. second'[h] = second[h]
        <4>1. CASE UNCHANGED second BY <4>1
        <4>2. CASE second' = [second EXCEPT ![ThisSlot(t)] = Elem(t).val]
                   /\ (Takes(t) \/ pc[t] \in {"store", "assign"})
          <5>1. h # ThisSlot(t) BY <1>2, <1>5, <2>3, <4>2
          <5> QED BY <1>1, <4>2, <5>1 DEF Shape, TypeOK
        <4>3. CASE second' = [second EXCEPT ![ThisSlot(t)] = EmptyVal]
                   /\ (Erases(t) \/ pc[t] = "wipe")
          <5>1. pc[t] = "wipe" => first[ThisSlot(t)] = ErasedKey BY DEF ThreadsKnow, Knows
          <5>2. h # ThisSlot(t) BY <1>1, <1>2, <4>3, <5>1 DEF Disciplined
          <5> QED BY <1>1, <4>3, <5>2 DEF Shape, TypeOK
        <4> QED BY <4>1, <4>2, <4>3, TableSteps
      <3>2. k = ThisKey(t) => ~Brings(t) /\ ~Replaces(t)
        <4> SUFFICES ASSUME k = ThisKey(t), Brings(t) \/ Replaces(t) PROVE FALSE OBVIOUS
        <4>1. Takes(t) BY <2>3 DEF Brings, Replaces
        <4> QED BY <1>6, <4>1
      <3> QED BY <2>1, <3>1, <3>2
    <2> QED BY <2>2, <2>3
  <1> QED BY <1>7, <1>8

\* A key that was brought is there with the payload of its element.
LEMMA BroughtIsThere ==
    ASSUME Grounds, NEW t \in Thread, Step(t), Brings(t), NEW k, k = ThisKey(t)
    PROVE  k \in Stored' /\ LiveMap[k]' = Elem(t).val
  <1> USE DEF Grounds, TableInv
  <1>1. AtWork(t) BY DEF Brings, Takes, AtWork
  <1>2. k \in Key /\ ThisSlot(t) \in Slot BY <1>1, AtThisElement
  <1>3. CASE Takes(t)
    <2>1. ~Clearing BY WorkingSteps
    <2>2. k \in Stored' /\ Holder(k)' = ThisSlot(t) BY <1>2, <1>3, <2>1, TakesAddsKey
    <2>3. PICK i \in Slot : i = ThisSlot(t) BY <1>2
    <2>4. Content(i)' = Elem(t).val BY <1>3, <2>3 DEF Brings, Takes
    <2>5. LiveMap[k]' = (Content(Holder(k)))' BY <2>2 DEF LiveMap
    <2>6. (Content(Holder(k)))' = Content(i)' BY <2>2, <2>3 DEF Content
    <2> QED BY <2>2, <2>4, <2>5, <2>6
  <1>4. CASE pc[t] = "store"
    <2>1. first[ThisSlot(t)] = k /\ UNCHANGED first
      BY <1>4 DEF ThreadsKnow, Knows, Brings, Takes
    <2>2. k \in Stored /\ k \in Stored' BY <1>2, <2>1 DEF Stored
    <2> QED BY <2>2, LiveSteps
  <1> QED BY <1>3, <1>4 DEF Brings

\* The keys brought and taken away.
LEMMA StepKeepsKeysMoved ==
    ASSUME Grounds, KeysMoved, snap.used \in Nat, UNCHANGED snap, NEW t \in Thread, Step(t)
    PROVE  KeysMoved'
  <1> USE DEF Grounds, TableInv
  <1>1. Now' = Now /\ Before' = Before /\ Passing' = Passing
        /\ \A i \in Nat : KeyAt(i)' = KeyAt(i)
    BY OthersStay DEF Before
  <1>2. Passing \subseteq Nat BY ElementsTyped
  <1>3. (Now \in InsertCalls => Before \subseteq Stored')
        /\ (Now = "erase" => Stored' \subseteq Before)
        /\ (Now \notin InsertCalls \cup {"erase"} => Stored' = Before)
    BY StoredSteps DEF KeysMoved, InsertCalls
  <1>4. Cardinality(UsedSlots') = snap.used + Cardinality(Stored' \ Before)
    <2>1. Cardinality(UsedSlots) = snap.used + Cardinality(Stored \ Before)
      BY DEF KeysMoved
    <2>2. IsFiniteSet(UsedSlots) /\ IsFiniteSet(Stored \ Before)
          /\ Cardinality(Stored \ Before) \in Nat
      <3>1. IsFiniteSet(Stored \ Before) BY UsedIsFinite, FS_Difference
      <3> QED BY <3>1, UsedIsFinite, FS_CardinalityType
    <2>3. CASE Stored' = Stored /\ UsedSlots' = UsedSlots BY <2>1, <2>3
    <2>4. CASE /\ Now \in InsertCalls
               /\ ThisKey(t) \notin Stored /\ Stored' = Stored \cup {ThisKey(t)}
               /\ ThisSlot(t) \notin UsedSlots /\ UsedSlots' = UsedSlots \cup {ThisSlot(t)}
      <3>1. Stored' \ Before = (Stored \ Before) \cup {ThisKey(t)}
        BY <2>4 DEF KeysMoved
      <3>2. Cardinality(UsedSlots') = Cardinality(UsedSlots) + 1
        BY <2>2, <2>4, FS_AddElement
      <3>3. Cardinality(Stored' \ Before) = Cardinality(Stored \ Before) + 1
        BY <2>2, <2>4, <3>1, FS_AddElement
      <3> QED BY <2>1, <2>2, <3>2, <3>3
    <2>5. CASE Now = "erase" /\ Stored' = Stored \ {ThisKey(t)} /\ UsedSlots' = UsedSlots
      <3>1. Stored' \ Before = Stored \ Before BY <2>5 DEF KeysMoved
      <3> QED BY <2>1, <2>5, <3>1
    <2> QED BY <2>3, <2>4, <2>5, StoredSteps
  <1>5. ASSUME NEW i \in Done \cap Passing
        PROVE  /\ Now \in InsertCalls => KeyAt(i) \in Stored' \/ UsedSlots' = Slot
               /\ Now = "erase" => KeyAt(i) \notin Stored'
    <2>1. UsedSlots \subseteq UsedSlots' /\ UsedSlots' \subseteq Slot
      BY StoredSteps DEF UsedSlots
    <2>2. Now \in InsertCalls => Stored \subseteq Stored' BY StoredSteps DEF InsertCalls
    <2>3. Now = "erase" => Stored' \subseteq Stored BY StoredSteps DEF InsertCalls
    <2> QED BY <2>1, <2>2, <2>3 DEF KeysMoved
  <1>6. ASSUME NextElement(t), Ends(t), elt[t] \in Passing
        PROVE  /\ Now \in InsertCalls => KeyAt(elt[t]) \in Stored' \/ UsedSlots' = Slot
               /\ Now = "erase" => KeyAt(elt[t]) \notin Stored'
    <2>1. ThisKey(t) = KeyAt(elt[t]) /\ Elem(t).pass
      BY <1>6, OneKernel DEF Passing, KeyAt, ThisKey
    <2>2. AtWork(t) => ThisKey(t) \in Key /\ ThisSlot(t) \in Slot BY AtThisElement
    <2>3. Found(t) /\ AtWork(t) => ThisKey(t) \in Stored BY <2>2 DEF Found, Stored
    <2>4. CASE Now \in InsertCalls
      <3>1. CASE Fails(t)
        <4>1. UsedSlots = Slot BY <2>4, <3>1 DEF Fails, Missed, InsertCalls
        <4> QED BY <2>4, <3>1, <4>1, StoredSteps DEF Fails, UsedSlots, InsertCalls
      <3>2. CASE Brings(t) BY <2>1, <2>4, <3>2, BroughtIsThere DEF InsertCalls
      <3>3. CASE Meets(t) \/ Replaces(t) \/ Reads(t)
        <4>1. ThisKey(t) \in Stored
          BY <2>3, <3>3 DEF Meets, Replaces, Reads, AtWork
        <4>2. ThisKey(t) \in Stored' BY <2>4, <4>1, StoredSteps DEF InsertCalls
        <4> QED BY <2>1, <2>4, <4>2 DEF InsertCalls
      <3> QED BY <1>6, <2>1, <2>4, <3>1, <3>2, <3>3
        DEF Ends, Rejects, Removes, Hits, CallsBackLast, InsertCalls
    <2>5. CASE Now = "erase"
      <3>1. CASE Fails(t)
        <4>1. ThisKey(t) \notin Stored BY <2>5, <3>1 DEF Fails, Missed
        <4> QED BY <2>1, <2>5, <3>1, <4>1 DEF Fails, Stored, InsertCalls
      <3>2. CASE Removes(t) /\ Erases(t)
        BY <2>1, <2>5, <3>2, ErasesRemovesKey DEF InsertCalls
      <3>3. CASE Removes(t) /\ pc[t] = "wipe"
        <4>1. ThisKey(t) \notin Stored /\ UNCHANGED first
          BY <3>3 DEF Removes, Erases, ThreadsKnow, Knows
        <4> QED BY <2>1, <2>5, <4>1 DEF Stored, InsertCalls
      <3> QED BY <1>6, <2>1, <2>5, <3>1, <3>2, <3>3
        DEF Ends, Rejects, Meets, Brings, Replaces, Removes, Reads, Hits, CallsBackLast,
            InsertCalls
    <2> QED BY <2>4, <2>5
  <1>7. ASSUME NEW i \in Done' \cap Passing
        PROVE  /\ Now \in InsertCalls => KeyAt(i) \in Stored' \/ UsedSlots' = Slot
               /\ Now = "erase" => KeyAt(i) \notin Stored'
    <2>1. CASE Leave(t) BY <1>5, <1>7, <2>1, LeavingDone DEF ThreadsKnow
    <2>2. CASE Goes(t) /\ elt[t] \in DOMAIN Elements BY <1>5, <1>7, <2>2, GoesOn
    <2>3. CASE NextElement(t) /\ Ends(t) /\ elt[t] \in DOMAIN Elements
      BY <1>5, <1>6, <1>7, <2>3, EndsElement
    <2> QED BY <2>1, <2>2, <2>3, StepIs
  <1> QED BY <1>1, <1>2, <1>3, <1>4, <1>7 DEF KeysMoved, Working

\* A thread's element is one of those that passed, and offers its payload.
LEMMA OwnOffer ==
    ASSUME Grounds, NEW t \in Thread, AtWork(t)
    PROVE  elt[t] \in Passing /\ Elem(t).val \in Offered(ThisKey(t))
  <1>1. elt[t] \in DOMAIN Elements /\ Elements[elt[t]] = Elem(t) /\ Elem(t).pass
        /\ KeyAt(elt[t]) = ThisKey(t)
    BY AtThisElement DEF Grounds, TableInv, ThreadsKnow, Knows
  <1> QED BY <1>1 DEF Passing, Offered

\* A won slot's key is a new one.
LEMMA StoresAreNew ==
    ASSUME Grounds, NEW movers, Account(movers), NEW t \in Thread, pc[t] = "store"
    PROVE  ThisKey(t) \in Stored \ Before
  <1>1. ThisKey(t) \in Key /\ ThisSlot(t) \in Slot /\ KeyAt(elt[t]) = ThisKey(t)
    BY AtThisElement DEF Grounds, TableInv, AtWork
  <1>2. ThisKey(t) \in Stored BY <1>1 DEF Grounds, ThreadsKnow, Knows, Stored
  <1>3. elt[t] \in movers BY DEF Account
  <1>4. KeyAt(elt[t]) \in (Stored \ Before) \cup (Before \ Stored) BY <1>3 DEF Account
  <1> QED BY <1>1, <1>2, <1>4

\* The payloads that were there, and those that the call brings.
LEMMA StepKeepsPayloadsMoved ==
    ASSUME Grounds, KeysMoved, PayloadsMoved, UNCHANGED snap,
           NEW movers, Account(movers), NEW t \in Thread, Step(t)
    PROVE  PayloadsMoved'
  <1> USE DEF Grounds, TableInv
  <1>1. /\ Now' = Now /\ Before' = Before /\ Passing' = Passing /\ Overwrites' = Overwrites
        /\ \A i \in Nat : KeyAt(i)' = KeyAt(i)
        /\ \A k : Offered(k)' = Offered(k)
    BY OthersStay DEF Before, Overwrites, Offered, Passing, Elements, KeyAt
  <1>2. Passing \subseteq Nat BY ElementsTyped
  <1>3. ASSUME NEW k \in Stored, k \in Stored'
        PROVE  \/ LiveMap[k]' = LiveMap[k]
               \/ LiveMap[k]' \in Offered(k) /\ (Overwrites \/ k \notin Before)
    <2>1. CASE LiveMap[k]' = LiveMap[k] BY <2>1
    <2>2. CASE pc[t] \in {"store", "assign"} /\ k = ThisKey(t) /\ LiveMap[k]' # LiveMap[k]
      <3>1. AtWork(t) BY <2>2 DEF AtWork
      <3>2. Elem(t).val \in Offered(k) BY <2>2, <3>1, OwnOffer
      <3>3. Brings(t) \/ Replaces(t)
        BY <2>2, StepIs
        DEF Leave, Goes, Proceeds, CallsBack, Wins, Buries, Takes, Erases, Ends, Rejects, Fails,
            Meets, Removes, Reads, Hits, CallsBackLast, Writing
      <3>4. LiveMap[k]' = Elem(t).val BY <1>3, <2>2, <3>3, LiveSteps
      <3>5. pc[t] = "assign" => Overwrites
        BY OneKernel DEF Shape, WorkFitsCall, Overwrites
      <3>6. pc[t] = "store" => k \notin Before BY <2>2, StoresAreNew
      <3> QED BY <2>2, <3>2, <3>4, <3>5, <3>6
    <2> QED BY <1>3, <2>1, <2>2, LiveSteps
  <1>4. ASSUME NEW k \in Stored', k \in Before
        PROVE  LiveMap[k]' = snap.map[k] \/ (Overwrites /\ LiveMap[k]' \in Offered(k))
    <2>1. k \in Stored BY <1>4, StoredSteps DEF KeysMoved, InsertCalls
    <2>2. LiveMap[k] = snap.map[k] \/ (Overwrites /\ LiveMap[k] \in Offered(k))
      BY <1>4, <2>1 DEF PayloadsMoved
    <2> QED BY <1>3, <1>4, <2>1, <2>2
  <1>5. ASSUME Overwrites, NEW i \in Done \cap Passing, NEW k, k = KeyAt(i), k \in Stored'
        PROVE  LiveMap[k]' \in Offered(k)
    <2>1. k \in Stored
      <3> SUFFICES ASSUME k \notin Stored PROVE FALSE OBVIOUS
      <3>1. ThisSlot(t) \notin UsedSlots /\ Now \in InsertCalls /\ Takes(t)
        BY <1>5, StoredSteps
      <3>2. UsedSlots = Slot BY <1>5, <3>1 DEF KeysMoved
      <3> QED BY <3>1, <3>2, AtThisElement DEF Takes, AtWork
    <2>2. LiveMap[k] \in Offered(k) BY <1>5, <2>1 DEF PayloadsMoved
    <2> QED BY <1>3, <1>5, <2>1, <2>2
  <1>6. ASSUME Overwrites, NextElement(t), Ends(t), elt[t] \in Passing, NEW k, k = KeyAt(elt[t]),
               k \in Stored'
        PROVE  LiveMap[k]' \in Offered(k)
    <2>1. ThisKey(t) = k /\ Elem(t).pass
      BY <1>6, OneKernel DEF Passing, KeyAt, ThisKey
    <2>2. Elem(t).val \in Offered(k) BY <1>6, <2>1, OneKernel DEF Offered
    <2>3. CASE Fails(t) BY <1>6, <2>1, <2>3 DEF Fails, Missed, Stored, Overwrites
    <2>4. CASE Brings(t) BY <2>1, <2>2, <2>4, BroughtIsThere
    <2>5. CASE Replaces(t)
      <3>1. k \in Stored BY <1>6, <2>5 DEF Replaces, Stored
      <3> QED BY <1>6, <2>1, <2>2, <2>5, <3>1, LiveSteps
    <2> QED BY <1>6, <2>1, <2>3, <2>4, <2>5
      DEF Ends, Rejects, Meets, Removes, Reads, Hits, CallsBackLast, Overwrites
  <1>7. ASSUME Overwrites, NEW i \in Done' \cap Passing, NEW k, k = KeyAt(i), k \in Stored'
        PROVE  LiveMap[k]' \in Offered(k)
    <2>1. CASE Leave(t) BY <1>5, <1>7, <2>1, LeavingDone DEF ThreadsKnow
    <2>2. CASE Goes(t) /\ elt[t] \in DOMAIN Elements BY <1>5, <1>7, <2>2, GoesOn
    <2>3. CASE NextElement(t) /\ Ends(t) /\ elt[t] \in DOMAIN Elements
      BY <1>5, <1>6, <1>7, <2>3, EndsElement
    <2> QED BY <2>1, <2>2, <2>3, StepIs
  <1> QED BY <1>1, <1>2, <1>4, <1>7 DEF PayloadsMoved, Working

\* Some lookups only read.
LEMMA ReadersOnlyRead ==
    ASSUME Grounds, NEW t \in Thread, Step(t), Now \in {"find", "foreach", "count"}
    PROVE  UNCHANGED <<first, second>> /\ Stored' = Stored /\ LiveMap' = LiveMap
  <1> USE DEF Grounds, TableInv
  <1>1. UNCHANGED first BY TableSteps DEF InsertCalls
  <1>2. pc[t] \notin {"store", "assign", "wipe", "cas"}
    BY OneKernel DEF ThreadsKnow, Knows, Shape, WorkFitsCall, InsertCalls
  <1>3. UNCHANGED second
    BY <1>2, TableSteps, OneKernel DEF Takes, Erases, Shape, WorkFitsCall
  <1> QED BY <1>1, <1>3 DEF Stored, LiveMap, Holder, Content

\* The entries of the elements that are done stay.
LEMMA DoneEntriesStay ==
    ASSUME Grounds, NEW t \in Thread, Step(t), NEW i \in Done
    PROVE  out'[Host][i] = out[Host][i]
  <1> USE DEF Grounds, TableInv
  <1>1. i \in Nat BY ElementsTyped DEF Done
  <1>2. CASE Leave(t) BY <1>2 DEF Leave
  <1>3. CASE ~Leave(t)
    <2>1. pc[t] # "exit" /\ elt[t] \in DOMAIN Elements BY <1>3, StepIs
    <2>2. elt[t] \notin Done BY <2>1, DueUntilDone DEF ThreadsKnow
    <2>3. i # elt[t] BY <2>2
    <2> QED BY <1>1, <2>3, OtherEntriesStay
  <1> QED BY <1>2, <1>3

\* What lookups answer.
LEMMA StepKeepsLookups ==
    ASSUME Grounds, HostKnows, LookupsAnswered, NEW t \in Thread, Step(t)
    PROVE  LookupsAnswered'
  <1> USE DEF Grounds, TableInv
  <1>1. /\ Now' = Now /\ Elements' = Elements /\ Passing' = Passing
        /\ \A i \in Nat : KeyAt(i)' = KeyAt(i)
    BY OthersStay
  <1>2. DOMAIN Elements \subseteq Nat /\ Done \subseteq DOMAIN Elements
        /\ Done' \subseteq DOMAIN Elements
    BY <1>1, ElementsTyped DEF Done
  <1>3. Nothing' = Nothing /\ Unset' = Unset BY DEF Nothing, Unset
  <1>4. ASSUME AtWork(t) PROVE KeyAt(elt[t]) = ThisKey(t) /\ elt[t] \in Passing
    BY <1>4, AtThisElement, OwnOffer
  <1>5. ASSUME AtWork(t), Found(t)
        PROVE  ThisKey(t) \in Stored /\ LiveMap[ThisKey(t)] = Content(ThisSlot(t))
    BY <1>5, AtThisElement, HolderHolds DEF Found
  <1>6. ASSUME Now = "find", NEW i \in Done'
        PROVE  out'[Host][i] = IF i \in Passing /\ KeyAt(i) \in Stored
                               THEN [val |-> LiveMap[KeyAt(i)], flag |-> "yes"]
                               ELSE [val |-> Nothing, flag |-> "no"]
    <2>1. CASE i \in Done BY <1>6, <2>1, DoneEntriesStay DEF LookupsAnswered
    <2>2. CASE i \notin Done
      <3>1. NextElement(t) /\ Ends(t) /\ elt[t] \in DOMAIN Elements /\ i = elt[t]
        BY <1>6, <2>2, StepIs, LeavingDone, GoesOn, EndsElement DEF ThreadsKnow
      <3>2. ASSUME NEW v, NEW f, Answer(t, v, f)
            PROVE  out'[Host][i] = [val |-> v, flag |-> f]
        BY <3>1, <3>2, AnswerIs
      <3>3. CASE Rejects(t)
        <4>1. i \notin Passing BY <3>1, <3>3, OneKernel DEF Rejects, Passing
        <4> QED BY <1>6, <3>2, <3>3, <4>1 DEF Rejects
      <3>4. CASE Fails(t)
        <4>1. KeyAt(i) \notin Stored BY <1>4, <1>6, <3>1, <3>4 DEF Fails, Missed
        <4> QED BY <1>6, <3>2, <3>4, <4>1 DEF Fails
      <3>5. CASE Reads(t)
        BY <1>4, <1>5, <1>6, <3>1, <3>2, <3>5 DEF Reads
      <3> QED BY <1>6, <3>1, <3>3, <3>4, <3>5
        DEF Ends, Meets, Brings, Replaces, Removes, Hits, CallsBackLast, InsertCalls
    <2> QED BY <2>1, <2>2
  <1>7. ASSUME Now = "foreach", NEW i \in DOMAIN Elements
        PROVE  \/ out'[Host][i] = out[Host][i]
               \/ /\ out'[Host][i] = [val |-> KeyAt(i), flag |-> "yes"]
                  /\ KeyAt(i) \in Stored
    <2>1. CASE i # elt[t] BY <1>2, <2>1, OtherEntriesStay
    <2>2. CASE UNCHANGED out BY <2>2
    <2>3. CASE CallsBack(t) \/ CallsBackLast(t)
      <3>1. AtWork(t) /\ Found(t) /\ Answer(t, ThisKey(t), "yes")
        BY <2>3 DEF CallsBack, CallsBackLast, AtWork
      <3>2. elt[t] \in DOMAIN Elements BY <3>1, AtThisElement
      <3>3. out'[Host][elt[t]] = [val |-> ThisKey(t), flag |-> "yes"]
        BY <3>1, <3>2, AnswerIs
      <3>4. CASE i = elt[t] BY <1>4, <1>5, <3>1, <3>3, <3>4
      <3> QED BY <2>1, <3>4
    <2> QED BY <1>7, <2>1, <2>2, <2>3, StepIs
      DEF Leave, Goes, Proceeds, Silent, Wins, Buries, Ends, Rejects, Fails, Meets, Brings,
          Replaces, Removes, Reads, Hits, InsertCalls
  <1>8. ASSUME Now = "foreach", NEW i \in Done', KeyAt(i) \in Stored
        PROVE  out'[Host][i] # Unset
    <2>1. CASE i \in Done BY <1>8, <2>1, DoneEntriesStay DEF LookupsAnswered
    <2>2. CASE i \notin Done
      <3>1. NextElement(t) /\ Ends(t) /\ elt[t] \in DOMAIN Elements /\ i = elt[t]
        BY <1>8, <2>2, StepIs, LeavingDone, GoesOn, EndsElement DEF ThreadsKnow
      <3>2. Elem(t).pass
        BY <1>8, <3>1, OneKernel DEF HostKnows, StencilCalls, Passing
      <3>3. CASE Fails(t)
        <4>1. Noted(t) BY <1>4, <1>8, <3>1, <3>3 DEF Fails, Missed
        <4> QED BY <1>8, <3>1, <3>3, <4>1 DEF Fails, Noted
      <3>4. CASE CallsBackLast(t)
        <4>1. out'[Host][i] = [val |-> ThisKey(t), flag |-> "yes"]
          BY <3>1, <3>4, AnswerIs DEF CallsBackLast
        <4> QED BY <4>1 DEF Unset
      <3> QED BY <1>8, <3>1, <3>2, <3>3, <3>4
        DEF Ends, Rejects, Meets, Brings, Replaces, Removes, Reads, Hits, InsertCalls
    <2> QED BY <2>1, <2>2
  <1>9. Now \notin {"find", "foreach", "insertfind"} => UNCHANGED out
    BY StepIs
    DEF Leave, Goes, Proceeds, Silent, CallsBack, Wins, Buries, Ends, Rejects, Fails, Meets,
        Brings, Replaces, Removes, Reads, Hits, CallsBackLast
  <1>10. Now \in {"find", "foreach"} => Stored' = Stored /\ LiveMap' = LiveMap
    BY ReadersOnlyRead
  <1>11. (Now = "find" => \A i \in Done :
        out[Host][i] = IF i \in Passing /\ KeyAt(i) \in Stored
                       THEN [val |-> LiveMap[KeyAt(i)], flag |-> "yes"]
                       ELSE [val |-> Nothing, flag |-> "no"])'
    BY <1>1, <1>2, <1>3, <1>6, <1>10
  <1>12. Now = "foreach" => \A i \in DOMAIN Elements :
            \/ out'[Host][i] = Unset
            \/ out'[Host][i] = [val |-> KeyAt(i), flag |-> "yes"] /\ KeyAt(i) \in Stored
    BY <1>7 DEF LookupsAnswered
  <1>13. (Now = "foreach" =>
        /\ \A i \in DOMAIN Elements : \/ out[Host][i] = Unset
                                      \/ /\ out[Host][i] = [val |-> KeyAt(i), flag |-> "yes"]
                                         /\ KeyAt(i) \in Stored
        /\ \A i \in Done : KeyAt(i) \in Stored => out[Host][i] # Unset)'
    BY <1>1, <1>2, <1>3, <1>8, <1>10, <1>12
  <1>14. (Working /\ Now \notin {"find", "foreach", "insertfind"} =>
        \A i \in DOMAIN Elements : out[Host][i] = Unset)'
    BY <1>1, <1>3, <1>9 DEF LookupsAnswered, Working
  <1> QED BY <1>11, <1>13, <1>14 DEF LookupsAnswered

\* Elements are finitely many, and so are those that are done.
LEMMA ElementsFinite ==
    ASSUME SingleStream, Shape, NEW X, X \subseteq DOMAIN Elements
    PROVE  IsFiniteSet(X) /\ Cardinality(X) \in Nat
  <1>1. DOMAIN Elements = 1..Len(Elements) /\ Len(Elements) \in Nat BY ElementsTyped
  <1>2. IsFiniteSet(1..Len(Elements)) BY <1>1, FS_Interval
  <1> QED BY <1>1, <1>2, FS_Subset, FS_CardinalityType

\* The keys of done elements have found their place, or never will.
LEMMA DoneKeysSettle ==
    ASSUME Grounds, KeysMoved, NEW t \in Thread, Step(t), Now # "erase", NEW i \in Done \cap Passing
    PROVE  KeyAt(i) \in Stored' <=> KeyAt(i) \in Stored
  <1> USE DEF Grounds, TableInv
  <1>1. CASE Stored' = Stored BY <1>1
  <1>2. CASE /\ Takes(t) /\ Now \in InsertCalls
             /\ Stored' = Stored \cup {ThisKey(t)} /\ ThisSlot(t) \notin UsedSlots
    <2>1. KeyAt(i) \in Stored
      BY <1>2, AtThisElement DEF KeysMoved, Takes, AtWork
    <2> QED BY <1>2, <2>1
  <1> QED BY <1>1, <1>2, StoredSteps

\* An element that was done without a slot gets none later.
LEMMA HousedSteps ==
    ASSUME Grounds, KeysMoved, NEW t \in Thread, Step(t), Now # "erase"
    PROVE  /\ Done' = Done => Housed' = Housed
           /\ Done' = Done \cup {elt[t]} =>
                Housed' = Housed \cup {i \in {elt[t]} : i \in Passing /\ KeyAt(i) \in Stored'}
  <1> USE DEF Grounds, TableInv
  <1>1. Passing' = Passing /\ \A i \in Nat : KeyAt(i)' = KeyAt(i) BY OthersStay
  <1>2. Passing \subseteq Nat BY ElementsTyped
  <1>3. \A i \in Done \cap Passing : KeyAt(i) \in Stored' <=> KeyAt(i) \in Stored
    BY DoneKeysSettle
  <1>4. Housed' = {i \in Done' \cap Passing : KeyAt(i) \in Stored'}
    BY <1>1, <1>2 DEF Housed
  <1> QED BY <1>3, <1>4 DEF Housed

\* The hits of a Count.
LEMMA StepKeepsHits ==
    ASSUME Grounds, KeysMoved, HitsCounted, NEW t \in Thread, Step(t)
    PROVE  HitsCounted'
  <1> USE DEF Grounds, TableInv
  <1> SUFFICES ASSUME Now = "count"
               PROVE  counter' = Cardinality(Housed') /\ \A u \in Thread : localFailed'[u] = 0
    BY OthersStay DEF HitsCounted
  <1>1. counter = Cardinality(Housed) /\ (\A u \in Thread : localFailed[u] = 0)
        /\ counter \in Nat /\ localFailed \in [Thread -> Nat]
    BY DEF HitsCounted, Shape, TypeOK
  <1>2. \A u \in Thread \ {t} : localFailed'[u] = localFailed[u] BY OthersStay
  <1>3. Stored' = Stored BY ReadersOnlyRead
  <1>4. CASE Leave(t)
    <2>1. Housed' = Housed BY <1>4, HousedSteps, LeavingDone DEF ThreadsKnow
    <2>2. counter' = counter + localFailed[t] /\ localFailed'[t] = 0
      BY <1>1, <1>4, OneKernel DEF Leave
    <2> QED BY <1>1, <1>2, <2>1, <2>2
  <1>5. CASE Goes(t) /\ elt[t] \in DOMAIN Elements
    BY <1>1, <1>5, HousedSteps, GoesOn
  <1>6. CASE NextElement(t) /\ Ends(t) /\ elt[t] \in DOMAIN Elements
    <2>1. Done' = Done \cup {elt[t]} /\ elt[t] \notin Done BY <1>6, EndsElement
    <2>2. Housed' = Housed \cup {i \in {elt[t]} : i \in Passing /\ KeyAt(i) \in Stored}
      BY <1>3, <2>1, HousedSteps
    <2>3. elt[t] \notin Housed /\ IsFiniteSet(Housed)
      <3>1. Housed \subseteq DOMAIN Elements BY DEF Housed, Done
      <3> QED BY <2>1, <3>1, ElementsFinite DEF Housed
    <2>4. AtWork(t) => ThisSlot(t) \in Slot /\ ThisKey(t) \in Key /\ KeyAt(elt[t]) = ThisKey(t)
      BY AtThisElement
    <2>5. CASE Hits(t)
      <3>1. elt[t] \in Passing /\ KeyAt(elt[t]) \in Stored
        BY <2>4, <2>5, OwnOffer DEF Hits, AtWork, Found, Stored
      <3>2. Housed' = Housed \cup {elt[t]} BY <2>2, <3>1
      <3>3. Cardinality(Housed') = Cardinality(Housed) + 1 BY <2>3, <3>2, FS_AddElement
      <3> QED BY <1>1, <2>5, <3>3 DEF Hits
    <2>6. CASE Fails(t)
      <3>1. KeyAt(elt[t]) \notin Stored BY <2>4, <2>6 DEF Fails, Missed
      <3>2. Housed' = Housed BY <2>2, <3>1
      <3> QED BY <1>1, <2>6, <3>2 DEF Fails, NoCount
    <2>7. CASE Rejects(t)
      <3>1. elt[t] \notin Passing BY <2>7, OneKernel DEF Rejects, Passing
      <3>2. Housed' = Housed BY <2>2, <3>1
      <3> QED BY <1>1, <2>7, <3>2 DEF Rejects
    <2> QED BY <1>6, <2>5, <2>6, <2>7
      DEF Ends, Meets, Brings, Replaces, Removes, Reads, CallsBackLast, InsertCalls
  <1> QED BY <1>4, <1>5, <1>6, StepIs

--------------------------------------------------------------------------------
(* The elements that moved their keys. *)

\* The elements that have moved their key after a step.
After(movers, t) == IF Stored' = Stored THEN movers ELSE movers \cup {elt[t]}

\* Account's part about keys and threads.
Moving(movers) ==
    /\ \A i, j \in movers : KeyAt(i) = KeyAt(j) => i = j
    /\ {KeyAt(i) : i \in movers} = (Stored \ Before) \cup (Before \ Stored)
    /\ \A t \in Thread : pc[t] \in {"store", "wipe"} => elt[t] \in movers
    /\ \A i \in movers \ Done : \E t \in Thread : i = elt[t] /\ pc[t] \in {"store", "wipe"}

\* A thread that is not about to write has not moved the key of its element.
LEMMA MoversWrite ==
    ASSUME Grounds, NEW movers, movers \subseteq Passing, Moving(movers),
           NEW t \in Thread, pc[t] # "exit", elt[t] \in DOMAIN Elements, elt[t] \in movers
    PROVE  pc[t] \in {"store", "wipe"}
  <1> USE DEF Grounds, TableInv
  <1>1. elt[t] \in Share(t) /\ elt[t] \notin Done BY DueUntilDone DEF ThreadsKnow
  <1>2. PICK u \in Thread : elt[t] = elt[u] /\ pc[u] \in {"store", "wipe"}
    BY <1>1 DEF Moving
  <1>3. elt[u] \in Share(u) BY <1>2, DueUntilDone DEF ThreadsKnow
  <1>4. u = t BY <1>1, <1>2, <1>3, OwnersOfElements
  <1> QED BY <1>2, <1>4

\* The loop body ends, and the keys stay as they are.
LeavesKeys(t) ==
    Rejects(t) \/ Fails(t) \/ Meets(t) \/ Replaces(t) \/ Reads(t) \/ Hits(t) \/ CallsBackLast(t)

\* When the loop body ends, its element has moved its key just if the key or its
\* payload was written.
LEMMA MoversAtEnd ==
    ASSUME Grounds, NEW movers, movers \subseteq Passing, Moving(movers),
           NEW t \in Thread, Step(t), NextElement(t), Ends(t), elt[t] \in DOMAIN Elements
    PROVE  /\ Brings(t) \/ Removes(t) => elt[t] \in After(movers, t)
           /\ LeavesKeys(t) => elt[t] \notin After(movers, t) /\ Stored' = Stored
           /\ Brings(t) \/ Removes(t) \/ LeavesKeys(t)
  <1> USE DEF Grounds, TableInv
  <1>1. pc[t] # "exit" BY StepIs
  <1>2. elt[t] \in movers => pc[t] \in {"store", "wipe"} BY <1>1, MoversWrite
  <1>3. ~Clearing BY WorkingSteps
  <1>4. ASSUME Brings(t) \/ Removes(t) PROVE elt[t] \in After(movers, t)
    <2>1. CASE Takes(t) \/ Erases(t)
      <3>1. Stored' # Stored BY <1>3, <2>1, TakesAddsKey, ErasesRemovesKey
      <3> QED BY <1>4, <3>1 DEF After
    <2>2. CASE ~(Takes(t) \/ Erases(t))
      <3>1. pc[t] \in {"store", "wipe"} BY <1>4, <2>2 DEF Brings, Removes
      <3>2. elt[t] \in movers BY <3>1 DEF Moving
      <3> QED BY <1>4, <3>2 DEF After
    <2> QED BY <2>1, <2>2
  <1>5. ASSUME LeavesKeys(t) PROVE elt[t] \notin After(movers, t) /\ Stored' = Stored
    <2>1. UNCHANGED first
      BY <1>5 DEF LeavesKeys, Rejects, Fails, Meets, Replaces, Reads, Hits, CallsBackLast
    <2>2. Stored' = Stored BY <2>1 DEF Stored
    <2>3. pc[t] \notin {"store", "wipe"}
      BY <1>5 DEF LeavesKeys, Rejects, Fails, Meets, Replaces, Reads, Hits, CallsBackLast, Writing
    <2> QED BY <1>2, <1>5, <2>2, <2>3 DEF After
  <1> QED BY <1>4, <1>5 DEF Ends, LeavesKeys

\* The movers after a step.
LEMMA StepKeepsMoving ==
    ASSUME Grounds, KeysMoved, UNCHANGED snap, NEW movers, movers \subseteq Passing, Moving(movers),
           NEW t \in Thread, Step(t), NEW after, after = After(movers, t)
    PROVE  /\ after \subseteq Passing' /\ Moving(after)'
           /\ Done \cap after = Done \cap movers
  <1> USE DEF Grounds, TableInv
  <1>1. /\ Passing' = Passing /\ Before' = Before /\ Passing \subseteq Nat
        /\ \A i \in Nat : KeyAt(i)' = KeyAt(i)
    BY OthersStay, ElementsTyped DEF Before
  <1>2. \/ Stored' = Stored /\ after = movers
        \/ /\ Takes(t) \/ Erases(t)
           /\ AtWork(t) /\ elt[t] \in Passing /\ KeyAt(elt[t]) = ThisKey(t)
           /\ elt[t] \notin Done
           /\ after = movers \cup {elt[t]}
           /\ ThisKey(t) \notin (Stored \ Before) \cup (Before \ Stored)
           /\ (Stored' \ Before) \cup (Before \ Stored') =
                (Stored \ Before) \cup (Before \ Stored) \cup {ThisKey(t)}
    <2>1. CASE Stored' = Stored BY <2>1 DEF After
    <2>2. CASE Stored' # Stored
      <3>1. AtWork(t) /\ (Takes(t) \/ Erases(t))
        BY <2>2, StoredSteps DEF Takes, Erases, AtWork
      <3>2. elt[t] \in Passing /\ KeyAt(elt[t]) = ThisKey(t) /\ elt[t] \in DOMAIN Elements
        BY <3>1, OwnOffer, AtThisElement
      <3>3. elt[t] \notin Done BY <3>1, <3>2, DueUntilDone DEF AtWork, ThreadsKnow
      <3>4. /\ ThisKey(t) \notin (Stored \ Before) \cup (Before \ Stored)
            /\ (Stored' \ Before) \cup (Before \ Stored') =
                 (Stored \ Before) \cup (Before \ Stored) \cup {ThisKey(t)}
        BY <2>2, StoredSteps DEF KeysMoved
      <3> QED BY <2>2, <3>1, <3>2, <3>3, <3>4 DEF After
    <2> QED BY <2>1, <2>2
  <1>3. after \subseteq Passing BY <1>2
  <1>4. \A i, j \in after : KeyAt(i) = KeyAt(j) => i = j
    <2>1. \A i \in movers : KeyAt(i) \in (Stored \ Before) \cup (Before \ Stored)
      BY DEF Moving
    <2> QED BY <1>2, <2>1 DEF Moving
  <1>5. {KeyAt(i) : i \in after} = (Stored' \ Before) \cup (Before \ Stored')
    <2>1. CASE Stored' = Stored /\ after = movers BY <2>1 DEF Moving
    <2>2. CASE /\ after = movers \cup {elt[t]} /\ KeyAt(elt[t]) = ThisKey(t)
               /\ (Stored' \ Before) \cup (Before \ Stored') =
                    (Stored \ Before) \cup (Before \ Stored) \cup {ThisKey(t)}
      <3>1. {KeyAt(i) : i \in after} = {KeyAt(i) : i \in movers} \cup {ThisKey(t)}
        BY <2>2
      <3> QED BY <2>2, <3>1 DEF Moving
    <2> QED BY <1>2, <2>1, <2>2
  <1>6. ASSUME NEW u \in Thread, pc'[u] \in {"store", "wipe"} PROVE elt'[u] \in after
    <2>1. CASE u # t BY <1>2, <1>6, <2>1, OthersStay DEF Moving
    <2>2. CASE u = t
      <3>1. elt'[t] = elt[t] /\ (Wins(t) \/ Buries(t)) BY <1>6, <2>2, StepToWrite
      <3>2. Stored' # Stored
        <4>1. ~Clearing BY WorkingSteps
        <4> QED BY <3>1, <4>1, TakesAddsKey, ErasesRemovesKey DEF Wins, Buries
      <3> QED BY <1>2, <2>2, <3>1, <3>2
    <2> QED BY <2>1, <2>2
  <1>7. ASSUME NEW i \in after \ Done'
        PROVE  \E u \in Thread : i = elt'[u] /\ pc'[u] \in {"store", "wipe"}
    <2>1. Done \subseteq Done'
      BY StepIs, LeavingDone, GoesOn, EndsElement DEF ThreadsKnow
    <2>2. ASSUME i = elt[t], pc[t] # "exit", i \in DOMAIN Elements
          PROVE  Wins(t) \/ Buries(t) \/ (pc[t] \notin {"store", "wipe"} /\ Stored' = Stored)
      <3>1. CASE Leave(t) BY <3>1 DEF Leave, Stored
      <3>2. CASE NextElement(t) BY <1>7, <2>2, <3>2, EndsElement
      <3>3. CASE Goes(t)
        <4>1. CASE Proceeds(t) BY <4>1 DEF Proceeds, Silent, Writing, Stored
        <4>2. CASE CallsBack(t) BY <4>2 DEF CallsBack, Stored
        <4> QED BY <3>3, <4>1, <4>2 DEF Goes
      <3> QED BY <3>1, <3>2, <3>3, StepIs
    <2>3. ASSUME i = elt[t], Wins(t) \/ Buries(t)
          PROVE  i = elt'[t] /\ pc'[t] \in {"store", "wipe"}
      BY <2>3 DEF Wins, Buries
    <2>4. CASE i \in movers
      <3>1. PICK u \in Thread : i = elt[u] /\ pc[u] \in {"store", "wipe"}
        BY <1>7, <2>1, <2>4 DEF Moving
      <3>2. CASE u # t BY <3>1, <3>2, OthersStay
      <3>3. CASE u = t
        <4>1. i \in DOMAIN Elements BY <1>3, <1>7, ElementsTyped
        <4> QED BY <2>2, <2>3, <3>1, <3>3, <4>1
      <3> QED BY <3>2, <3>3
    <2>5. CASE i \notin movers
      <3>1. i = elt[t] /\ Stored' # Stored /\ AtWork(t) /\ i \in Passing
        BY <1>2, <1>7, <2>5 DEF After
      <3>2. Wins(t) \/ Buries(t) BY <2>2, <3>1, ElementsTyped DEF AtWork
      <3> QED BY <2>3, <3>1, <3>2
    <2> QED BY <2>4, <2>5
  <1>8. Moving(after)'
    <2>1. \A i \in after : KeyAt(i)' = KeyAt(i) BY <1>1, <1>3
    <2>2. (\A i, j \in after : KeyAt(i) = KeyAt(j) => i = j)' BY <1>4, <2>1
    <2>3. {KeyAt(i)' : i \in after} = {KeyAt(i) : i \in after} BY <2>1
    <2>4. ({KeyAt(i) : i \in after} = (Stored \ Before) \cup (Before \ Stored))'
      BY <1>1, <1>5, <2>3
    <2> QED BY <1>6, <1>7, <2>2, <2>4 DEF Moving
  <1>9. Done \cap after = Done \cap movers BY <1>2
  <1> QED BY <1>1, <1>3, <1>8, <1>9

\* The payload that an element brought stays.
LEMMA StepKeepsBrought ==
    ASSUME Grounds, KeysMoved, UNCHANGED snap, NEW movers, movers \subseteq Passing, Moving(movers),
           Now \in {"insert", "insertfind"},
           \A i \in movers \cap Done : LiveMap[KeyAt(i)] = Elements[i].val,
           NEW t \in Thread, Step(t), NEW after, after = After(movers, t),
           NEW i \in after \cap Done', NEW k, k = KeyAt(i)
    PROVE  k \in Stored' /\ LiveMap[k]' = Elements[i].val
  <1> USE DEF Grounds, TableInv
  <1>1. after \subseteq Passing /\ Done \cap after = Done \cap movers
    BY StepKeepsMoving, OthersStay
  <1>2. CASE i \in Done
    <2>1. i \in movers \cap Done BY <1>1, <1>2
    <2>2. k \in (Stored \ Before) \cup (Before \ Stored) BY <2>1 DEF Moving
    <2>3. k \in Stored BY <2>2 DEF KeysMoved, InsertCalls
    <2>4. k \in Stored' BY <2>3, StoredSteps
    <2>5. ~(pc[t] \in {"store", "assign"} /\ k = ThisKey(t))
      <3> SUFFICES ASSUME pc[t] \in {"store", "assign"}, k = ThisKey(t) PROVE FALSE OBVIOUS
      <3>1. pc[t] = "store" BY OneKernel DEF Shape, WorkFitsCall
      <3>2. elt[t] \in movers /\ elt[t] \in DOMAIN Elements /\ KeyAt(elt[t]) = k
        BY <3>1, AtThisElement DEF Moving, AtWork
      <3>3. elt[t] = i BY <2>1, <3>2 DEF Moving
      <3>4. elt[t] \notin Done BY <3>1, <3>2, DueUntilDone DEF ThreadsKnow
      <3> QED BY <1>2, <3>3, <3>4
    <2>6. LiveMap[k]' = LiveMap[k] BY <2>3, <2>4, <2>5, LiveSteps
    <2> QED BY <2>1, <2>4, <2>6
  <1>3. CASE i \notin Done
    <2>1. NextElement(t) /\ Ends(t) /\ elt[t] \in DOMAIN Elements /\ i = elt[t]
      BY <1>3, StepIs, LeavingDone, GoesOn, EndsElement DEF ThreadsKnow
    <2>2. Brings(t) BY <2>1, MoversAtEnd DEF Removes
    <2>3. AtWork(t) BY <2>2 DEF Brings, Takes, AtWork
    <2>4. k = ThisKey(t) /\ Elements[i] = Elem(t) BY <2>1, <2>3, AtThisElement
    <2> QED BY <2>2, <2>4, BroughtIsThere
  <1> QED BY <1>2, <1>3

--------------------------------------------------------------------------------
(* The counters. *)

\* Tally, with what it reads of the state named.
TallyOf(local, total, X, share, left) ==
    /\ \A t \in Thread : local[t] = IF t \in left THEN 0 ELSE Cardinality(X \cap share[t])
    /\ total = Cardinality({i \in X : \E t \in left : i \in share[t]})

\* A thread counts one more of its elements.
LEMMA TallyAdds ==
    ASSUME NEW X, IsFiniteSet(X), NEW local \in [Thread -> Nat], NEW total, NEW share, NEW left,
           TallyOf(local, total, X, share, left),
           NEW t \in Thread, t \notin left, NEW e \in share[t], e \notin X,
           \A u \in Thread : e \in share[u] => u = t, left \subseteq Thread
    PROVE  TallyOf([local EXCEPT ![t] = @ + 1], total, X \cup {e}, share, left)
  <1>1. {i \in X \cup {e} : \E u \in left : i \in share[u]}
            = {i \in X : \E u \in left : i \in share[u]}
    OBVIOUS
  <1>2. ASSUME NEW u \in Thread, u # t PROVE (X \cup {e}) \cap share[u] = X \cap share[u]
    BY <1>2
  <1>3. (X \cup {e}) \cap share[t] = (X \cap share[t]) \cup {e} OBVIOUS
  <1>4. IsFiniteSet(X \cap share[t]) BY FS_Subset
  <1>5. Cardinality((X \cup {e}) \cap share[t]) = Cardinality(X \cap share[t]) + 1
    BY <1>3, <1>4, FS_AddElement
  <1> QED BY <1>1, <1>2, <1>5 DEF TallyOf

\* A thread that leaves hands over what it has counted.
LEMMA TallyLeaves ==
    ASSUME NEW X, IsFiniteSet(X), NEW local \in [Thread -> Nat], NEW total, NEW share, NEW left,
           TallyOf(local, total, X, share, left), left \subseteq Thread,
           NEW t \in Thread, t \notin left,
           \A u, v \in Thread : \A i \in share[u] \cap share[v] : u = v
    PROVE  TallyOf([local EXCEPT ![t] = 0], total + local[t], X, share, left \cup {t})
  <1> DEFINE old == {i \in X : \E u \in left : i \in share[u]}
             own == X \cap share[t]
  <1>1. {i \in X : \E u \in left \cup {t} : i \in share[u]} = old \cup own OBVIOUS
  <1>2. old \cap own = {} OBVIOUS
  <1>3. IsFiniteSet(old) /\ IsFiniteSet(own) BY FS_Subset
  <1>4. Cardinality(old \cup own) = Cardinality(old) + Cardinality(own)
    <2>1. Cardinality(old) \in Nat /\ Cardinality(own) \in Nat BY <1>3, FS_CardinalityType
    <2>2. Cardinality(old \cap own) = 0 BY <1>2, FS_EmptySet
    <2>3. Cardinality(old \cup own)
            = Cardinality(old) + Cardinality(own) - Cardinality(old \cap own)
      BY <1>3, FS_Union
    <2> HIDE DEF old, own
    <2> QED BY <2>1, <2>2, <2>3
  <1>5. total = Cardinality(old) /\ local[t] = Cardinality(own) BY DEF TallyOf
  <1>6. \A u \in Thread : [local EXCEPT ![t] = 0][u] =
            IF u \in left \cup {t} THEN 0 ELSE Cardinality(X \cap share[u])
    BY DEF TallyOf
  <1> QED BY <1>1, <1>4, <1>5, <1>6 DEF TallyOf

\* Tally after a step.
TallyAfter(local, total, X) ==
    /\ \A t \in Thread : local[t] = IF pc'[t] = "exit" THEN 0 ELSE Cardinality(X \cap Share(t)')
    /\ total = Cardinality({i \in X : \E t \in Thread : i \in Share(t)' /\ pc'[t] = "exit"})

\* A tally follows the steps of a kernel.
LEMMA StepKeepsTally ==
    ASSUME Grounds, NEW t \in Thread, Step(t), NEW X, X \subseteq DOMAIN Elements,
           NEW local \in [Thread -> Nat], NEW total, Tally(local, total, X),
           NEW X1, NEW local1, NEW total1,
           \/ Leave(t) /\ X1 = X /\ local1 = [local EXCEPT ![t] = 0] /\ total1 = total + local[t]
           \/ ~Leave(t) /\ X1 = X /\ local1 = local /\ total1 = total
           \/ /\ ~Leave(t) /\ elt[t] \notin X /\ X1 = X \cup {elt[t]}
              /\ local1 = [local EXCEPT ![t] = @ + 1] /\ total1 = total
    PROVE  TallyAfter(local1, total1, X1)
  <1> USE DEF Grounds, TableInv
  <1> DEFINE share == [u \in Thread |-> Share(u)]
             left == {u \in Thread : pc[u] = "exit"}
             left1 == {u \in Thread : pc'[u] = "exit"}
  <1>1. TallyOf(local, total, X, share, left)
    <2>1. {i \in X : \E u \in Thread : i \in Share(u) /\ pc[u] = "exit"}
            = {i \in X : \E u \in left : i \in share[u]}
      OBVIOUS
    <2> QED BY <2>1 DEF TallyOf, Tally
  <1>2. IsFiniteSet(X) /\ left \subseteq Thread BY ElementsFinite
  <1>3. \A u, v \in Thread : \A i \in share[u] \cap share[v] : u = v
    <2>1. \A u \in Thread : Share(u) \subseteq DOMAIN Elements BY DEF Share
    <2> QED BY <2>1, OwnersOfElements
  <1>4. pc[t] # "exit" /\ t \notin left BY StepIs
  <1>5. \A u \in Thread : Share(u)' = Share(u)
    BY StepIs, LeavingDone, GoesOn, EndsElement DEF ThreadsKnow
  <1>6. IF Leave(t) THEN left1 = left \cup {t} ELSE left1 = left
    <2>1. CASE Leave(t)
      <3>1. pc'[t] = "exit" /\ \A u \in Thread \ {t} : pc'[u] = pc[u]
        BY <2>1, OthersStay DEF Leave, Shape, TypeOK
      <3> QED BY <2>1, <3>1
    <2>2. CASE ~Leave(t)
      <3>1. \A u \in Thread : pc'[u] = "exit" <=> pc[u] = "exit"
        BY <2>2, StepIs, GoesOn, EndsElement
      <3> QED BY <2>2, <3>1
    <2> QED BY <2>1, <2>2
  <1>7. TallyOf(local1, total1, X1, share, left1)
    <2> HIDE DEF share, left, left1
    <2>1. CASE Leave(t) BY <1>1, <1>2, <1>3, <1>4, <1>6, <2>1, TallyLeaves
    <2>2. CASE ~Leave(t) /\ X1 = X /\ local1 = local /\ total1 = total
      BY <1>1, <1>6, <2>2
    <2>3. CASE /\ ~Leave(t) /\ elt[t] \notin X /\ X1 = X \cup {elt[t]}
               /\ local1 = [local EXCEPT ![t] = @ + 1] /\ total1 = total
      <3>1. elt[t] \in share[t]
        <4>1. elt[t] \in DOMAIN Elements BY <2>3, StepIs
        <4> QED BY <1>4, <4>1, DueUntilDone DEF ThreadsKnow, share
      <3>2. \A u \in Thread : elt[t] \in share[u] => u = t BY <1>3, <3>1
      <3> QED BY <1>1, <1>2, <1>4, <1>6, <2>3, <3>1, <3>2, TallyAdds
    <2> QED BY <2>1, <2>2, <2>3
  <1> QED
    <2>1. {i \in X1 : \E u \in Thread : i \in Share(u)' /\ pc'[u] = "exit"}
            = {i \in X1 : \E u \in left1 : i \in share[u]}
      BY <1>5
    <2>2. \A u \in Thread : u \in left1 <=> pc'[u] = "exit" OBVIOUS
    <2> QED BY <1>5, <1>7, <2>1, <2>2 DEF TallyOf, TallyAfter

\* What a step adds to the elements that an Insert or an Erase fails for.
LEMMA StepCountsFailures ==
    ASSUME Grounds, KeysMoved, UNCHANGED snap, NEW movers, movers \subseteq Passing, Moving(movers),
           Now \in {"insert", "erase"} \cap Synchronous,
           Tally(localFailed, counter, (Done \cap Passing) \ movers),
           NEW t \in Thread, Step(t), NEW after, after = After(movers, t)
    PROVE  TallyAfter(localFailed', counter', (Done' \cap Passing) \ after)
  <1> USE DEF Grounds, TableInv
  <1> DEFINE X == (Done \cap Passing) \ movers
             X1 == (Done' \cap Passing) \ after
  <1>1. Done \cap after = Done \cap movers BY StepKeepsMoving
  <1>2. X \subseteq DOMAIN Elements BY DEF Done
  <1>3. localFailed \in [Thread -> Nat] /\ Now \in Synchronous /\ Op(t) = Now
    BY OneKernel DEF Shape, TypeOK
  <1>4. CASE Leave(t)
    <2>1. X1 = X BY <1>1, <1>4, LeavingDone DEF ThreadsKnow
    <2>2. localFailed' = [localFailed EXCEPT ![t] = 0] /\ counter' = counter + localFailed[t]
      BY <1>3, <1>4 DEF Leave
    <2> HIDE DEF X, X1
    <2>3. Tally(localFailed, counter, X) BY DEF X
    <2>4. TallyAfter(localFailed', counter', X1)
      BY <1>2, <1>3, <1>4, <2>1, <2>2, <2>3, StepKeepsTally
    <2> QED BY <2>4 DEF X1
  <1>5. CASE ~Leave(t)
    <2>1. \/ X1 = X /\ localFailed' = localFailed /\ counter' = counter
          \/ /\ elt[t] \notin X /\ X1 = X \cup {elt[t]}
             /\ localFailed' = [localFailed EXCEPT ![t] = @ + 1] /\ counter' = counter
      <3>1. CASE Goes(t) /\ elt[t] \in DOMAIN Elements BY <1>1, <3>1, GoesOn
      <3>2. CASE NextElement(t) /\ Ends(t) /\ elt[t] \in DOMAIN Elements
        <4>1. Done' = Done \cup {elt[t]} /\ elt[t] \notin Done BY <3>2, EndsElement
        <4>2. CASE Rejects(t)
          <5>1. elt[t] \notin Passing BY <4>2, OneKernel DEF Rejects, Passing
          <5> QED BY <1>1, <4>1, <4>2, <5>1 DEF Rejects
        <4>3. CASE Fails(t) \/ Meets(t)
          <5>1. AtWork(t) /\ AddFailed(t) /\ counter' = counter BY <1>3, <4>3 DEF Fails, Meets
          <5>2. elt[t] \in Passing BY <5>1, OwnOffer
          <5>3. elt[t] \notin after BY <3>2, <4>3, MoversAtEnd DEF LeavesKeys
          <5>4. localFailed' = [localFailed EXCEPT ![t] = @ + 1]
            BY <1>3, <5>1 DEF AddFailed, Counting
          <5> QED BY <1>1, <4>1, <5>1, <5>2, <5>3, <5>4
        <4>4. CASE Brings(t) \/ Removes(t)
          <5>1. elt[t] \in after BY <3>2, <4>4, MoversAtEnd
          <5>2. localFailed' = localFailed /\ counter' = counter BY <4>4 DEF Brings, Removes
          <5> QED BY <1>1, <4>1, <5>1, <5>2
        <4> QED BY <3>2, <4>2, <4>3, <4>4 DEF Ends, Replaces, Reads, Hits, CallsBackLast
      <3> QED BY <1>5, <3>1, <3>2, StepIs
    <2> HIDE DEF X, X1
    <2>2. Tally(localFailed, counter, X) BY DEF X
    <2>3. TallyAfter(localFailed', counter', X1)
      BY <1>2, <1>3, <1>5, <2>1, <2>2, StepKeepsTally
    <2> QED BY <2>3 DEF X1
  <1> QED BY <1>4, <1>5

\* ... and to those that an InsertOrAssign fails for, or assigns.
LEMMA StepCountsAssignments ==
    ASSUME Grounds, KeysMoved, UNCHANGED snap, NEW movers, movers \subseteq Passing, Moving(movers),
           Now = "upsert", Now \in Synchronous,
           Tally(localFailed, ioaCounter.count, (Done \cap Passing) \ Housed),
           Tally(localAssigned, ioaCounter.assigned, Housed \ movers),
           NEW t \in Thread, Step(t), NEW after, after = After(movers, t)
    PROVE  /\ TallyAfter(localFailed', ioaCounter'.count, (Done' \cap Passing) \ Housed')
           /\ TallyAfter(localAssigned', ioaCounter'.assigned, Housed' \ after)
  <1> USE DEF Grounds, TableInv
  <1> DEFINE F == (Done \cap Passing) \ Housed
             F1 == (Done' \cap Passing) \ Housed'
             A == Housed \ movers
             A1 == Housed' \ after
  <1>1. Done \cap after = Done \cap movers BY StepKeepsMoving
  <1>2. F \subseteq DOMAIN Elements /\ A \subseteq DOMAIN Elements /\ Housed \subseteq Done
    BY DEF Done, Housed
  <1>3. /\ localFailed \in [Thread -> Nat] /\ localAssigned \in [Thread -> Nat]
        /\ Op(t) = Now
    BY OneKernel DEF Shape, TypeOK
  <1>4. CASE Leave(t)
    <2>1. Done' = Done BY <1>4, LeavingDone DEF ThreadsKnow
    <2>2. F1 = F /\ A1 = A BY <1>1, <1>2, <2>1, HousedSteps
    <2>3. /\ localFailed' = [localFailed EXCEPT ![t] = 0]
          /\ localAssigned' = [localAssigned EXCEPT ![t] = 0]
          /\ ioaCounter'.count = ioaCounter.count + localFailed[t]
          /\ ioaCounter'.assigned = ioaCounter.assigned + localAssigned[t]
      BY <1>3, <1>4 DEF Leave
    <2> HIDE DEF F, F1, A, A1
    <2>4. Tally(localFailed, ioaCounter.count, F) /\ Tally(localAssigned, ioaCounter.assigned, A)
      BY DEF F, A
    <2>5. TallyAfter(localFailed', ioaCounter'.count, F1)
      BY <1>2, <1>3, <1>4, <2>2, <2>3, <2>4, StepKeepsTally
    <2>6. TallyAfter(localAssigned', ioaCounter'.assigned, A1)
      BY <1>2, <1>3, <1>4, <2>2, <2>3, <2>4, StepKeepsTally
    <2> QED BY <2>5, <2>6 DEF F1, A1
  <1>5. CASE ~Leave(t)
    <2>0. ioaCounter' = ioaCounter BY <1>5, StepIs
    <2>1. /\ \/ F1 = F /\ localFailed' = localFailed
             \/ /\ elt[t] \notin F /\ F1 = F \cup {elt[t]}
                /\ localFailed' = [localFailed EXCEPT ![t] = @ + 1]
          /\ \/ A1 = A /\ localAssigned' = localAssigned
             \/ /\ elt[t] \notin A /\ A1 = A \cup {elt[t]}
                /\ localAssigned' = [localAssigned EXCEPT ![t] = @ + 1]
      <3>1. CASE Goes(t) /\ elt[t] \in DOMAIN Elements
        <4>1. Done' = Done /\ localFailed' = localFailed /\ localAssigned' = localAssigned
          BY <3>1, GoesOn
        <4> QED BY <1>1, <1>2, <4>1, HousedSteps
      <3>2. CASE NextElement(t) /\ Ends(t) /\ elt[t] \in DOMAIN Elements
        <4>1. Done' = Done \cup {elt[t]} /\ elt[t] \notin Done BY <3>2, EndsElement
        <4>2. Housed' = Housed \cup {i \in {elt[t]} : i \in Passing /\ KeyAt(i) \in Stored'}
          BY <4>1, HousedSteps
        <4>3. CASE Rejects(t)
          <5>1. elt[t] \notin Passing BY <4>3, OneKernel DEF Rejects, Passing
          <5> QED BY <1>1, <1>2, <4>1, <4>2, <4>3, <5>1 DEF Rejects
        <4>4. CASE AtWork(t)
          <5>1. elt[t] \in Passing /\ KeyAt(elt[t]) = ThisKey(t) /\ ThisKey(t) \in Key
                /\ ThisSlot(t) \in Slot
            BY <4>4, OwnOffer, AtThisElement
          <5>2. CASE Fails(t)
            <6>1. KeyAt(elt[t]) \notin Stored' /\ AddFailed(t)
              BY <5>1, <5>2 DEF Fails, Missed, Stored
            <6>2. localFailed' = [localFailed EXCEPT ![t] = @ + 1] /\ localAssigned' = localAssigned
              BY <1>3, <6>1 DEF AddFailed, Counting
            <6> QED BY <1>1, <1>2, <4>1, <4>2, <5>1, <6>1, <6>2
          <5>3. CASE Brings(t)
            <6>1. elt[t] \in after BY <3>2, <5>3, MoversAtEnd
            <6>2. KeyAt(elt[t]) \in Stored' BY <5>1, <5>3, BroughtIsThere
            <6> QED BY <1>1, <1>2, <4>1, <4>2, <5>1, <5>3, <6>1, <6>2 DEF Brings
          <5>4. CASE Replaces(t)
            <6>1. elt[t] \notin after BY <3>2, <5>4, MoversAtEnd DEF LeavesKeys
            <6>2. KeyAt(elt[t]) \in Stored' BY <5>1, <5>4 DEF Replaces, Found, Stored
            <6>3. localFailed' = localFailed
                  /\ localAssigned' = [localAssigned EXCEPT ![t] = @ + 1]
              BY <5>4 DEF Replaces
            <6> QED BY <1>1, <1>2, <4>1, <4>2, <5>1, <6>1, <6>2, <6>3
          <5> QED BY <3>2, <4>4, <5>2, <5>3, <5>4
            DEF Ends, Rejects, Meets, Removes, Reads, Hits, CallsBackLast, AtWork
        <4> QED BY <3>2, <4>3, <4>4
          DEF Ends, Fails, Meets, Brings, Replaces, Removes, Reads, Hits, CallsBackLast, AtWork,
              Takes, Erases
      <3> QED BY <1>5, <3>1, <3>2, StepIs
    <2> HIDE DEF F, F1, A, A1
    <2>2. Tally(localFailed, ioaCounter.count, F) /\ Tally(localAssigned, ioaCounter.assigned, A)
      BY DEF F, A
    <2>3. TallyAfter(localFailed', ioaCounter'.count, F1)
      BY <1>2, <1>3, <1>5, <2>0, <2>1, <2>2, StepKeepsTally
    <2>4. TallyAfter(localAssigned', ioaCounter'.assigned, A1)
      BY <1>2, <1>3, <1>5, <2>0, <2>1, <2>2, StepKeepsTally
    <2> QED BY <2>3, <2>4 DEF F1, A1
  <1> QED BY <1>4, <1>5

--------------------------------------------------------------------------------
(* The answers of an InsertAndFind. *)

\* What a done element answers.
Answered(i, movers) ==
    /\ out[Host][i] = [val  |-> IF KeyAt(i) \in Stored THEN LiveMap[KeyAt(i)] ELSE Nothing,
                       flag |-> IF i \in movers THEN "yes" ELSE "no"]
    /\ KeyAt(i) \in Stored => LiveMap[KeyAt(i)] # Nothing

\* The answers of an InsertAndFind stay right.
LEMMA StepKeepsAnswered ==
    ASSUME Grounds, PayloadsLast, AnswersInv, HostKnows, StoredIsBlank, KeysMoved, UNCHANGED snap,
           NEW movers, movers \subseteq Passing, Moving(movers), Now = "insertfind",
           \A i \in Done : Answered(i, movers),
           NEW t \in Thread, Step(t), NEW after, after = After(movers, t),
           NEW i \in Done', NEW k, k = KeyAt(i)
    PROVE  /\ out'[Host][i] = [val  |-> IF k \in Stored' THEN LiveMap[k]' ELSE Nothing,
                               flag |-> IF i \in after THEN "yes" ELSE "no"]
           /\ k \in Stored' => LiveMap[k]' # Nothing
  <1> USE DEF Grounds, TableInv
  <1>1. Passing = DOMAIN Elements /\ Done \subseteq Passing
    BY DEF HostKnows, Done, StencilCalls
  <1>2. Done \cap after = Done \cap movers BY StepKeepsMoving
  <1>3. CASE i \in Done
    <2>1. out'[Host][i] = out[Host][i] BY <1>3, DoneEntriesStay
    <2>2. k \in Stored' <=> k \in Stored BY <1>1, <1>3, DoneKeysSettle
    <2>3. Answered(i, movers) BY <1>3
    <2>4. ASSUME k \in Stored PROVE LiveMap[k]' = LiveMap[k]
      <3>1. ~(pc[t] \in {"store", "assign"} /\ k = ThisKey(t))
        <4> SUFFICES ASSUME pc[t] \in {"store", "assign"}, k = ThisKey(t) PROVE FALSE OBVIOUS
        <4>1. pc[t] = "store" BY OneKernel DEF Shape, WorkFitsCall
        <4>2. ThisSlot(t) \in Slot /\ k \in Key BY <4>1, AtThisElement DEF AtWork
        <4>3. first[ThisSlot(t)] = k /\ second[ThisSlot(t)] = EmptyVal
          BY <4>1 DEF ThreadsKnow, Knows, StoredIsBlank
        <4>4. Holder(k) = ThisSlot(t) BY <4>2, <4>3, HolderHolds
        <4>5. LiveMap[k] = Nothing
          BY <2>4, <4>1, <4>3, <4>4, HolderHolds
          DEF Content, Nothing, HasPayload, Shape, WorkFitsCall
        <4> QED BY <2>3, <2>4, <4>5 DEF Answered
      <3> QED BY <2>2, <2>4, <3>1, LiveSteps
    <2> QED BY <1>2, <1>3, <2>1, <2>2, <2>3, <2>4 DEF Answered
  <1>4. CASE i \notin Done
    <2>1. NextElement(t) /\ Ends(t) /\ elt[t] \in DOMAIN Elements /\ i = elt[t]
      BY <1>4, StepIs, LeavingDone, GoesOn, EndsElement DEF ThreadsKnow
    <2>2. ASSUME NEW v, NEW f, Answer(t, v, f)
          PROVE  out'[Host][i] = [val |-> v, flag |-> f]
      BY <2>1, <2>2, AnswerIs
    <2>3. ~Rejects(t) BY <1>1, <2>1, OneKernel DEF Rejects, Passing
    <2>4. AtWork(t)
      BY <2>1, <2>3
      DEF Ends, Fails, Meets, Brings, Replaces, Removes, Reads, Hits, CallsBackLast, AtWork,
          Takes, Erases
    <2>5. k = ThisKey(t) /\ k \in Key /\ ThisSlot(t) \in Slot /\ Elem(t) \in Element
      BY <2>1, <2>4, AtThisElement
    <2>6. CASE Fails(t)
      <3>1. k \notin Stored' BY <2>5, <2>6 DEF Fails, Missed, Stored
      <3>2. i \notin after BY <2>1, <2>6, MoversAtEnd DEF LeavesKeys
      <3>3. Answer(t, Nothing, "no") BY <2>6 DEF Fails
      <3> QED BY <2>2, <3>1, <3>2, <3>3
    <2>7. CASE Brings(t)
      <3>1. k \in Stored' /\ LiveMap[k]' = Elem(t).val BY <2>5, <2>7, BroughtIsThere
      <3>2. i \in after BY <2>1, <2>7, MoversAtEnd
      <3>3. Answer(t, Elem(t).val, "yes") BY <2>7 DEF Brings
      <3>4. Elem(t).val # Nothing
        BY <2>5, ElementsCarry DEF Nothing, PayloadsLast, Disciplined, ThisKey
      <3> QED BY <2>2, <3>1, <3>2, <3>3, <3>4
    <2>8. CASE Reads(t)
      <3>1. pc[t] = "load" /\ Found(t) /\ UNCHANGED <<first, second>>
            /\ Answer(t, Content(ThisSlot(t)), "no")
        BY <2>8 DEF Reads
      <3>2. Stored' = Stored /\ k \in Stored
        BY <2>5, <3>1 DEF Stored, Found
      <3>3. LiveMap[k] = Content(ThisSlot(t))
        BY <2>5, <3>1, HolderHolds DEF Found
      <3>4. Content(ThisSlot(t)) # Nothing
        BY <3>1, OneKernel DEF AnswersInv, LoadedIsThere
      <3>5. LiveMap[k]' = LiveMap[k] BY <3>1, <3>2, LiveSteps
      <3>6. i \notin after BY <2>1, <2>8, MoversAtEnd DEF LeavesKeys
      <3> QED BY <2>2, <3>1, <3>2, <3>3, <3>4, <3>5, <3>6
    <2> QED BY <2>1, <2>3, <2>6, <2>7, <2>8
      DEF Ends, Meets, Replaces, Removes, Hits, CallsBackLast
  <1> QED BY <1>3, <1>4

--------------------------------------------------------------------------------
(* The invariant as a whole. *)

\* The account of the movers, after a step.
LEMMA StepKeepsAccount ==
    ASSUME Grounds, PayloadsLast, AnswersInv, HostKnows, StoredIsBlank, KeysMoved, UNCHANGED snap,
           NEW movers, movers \subseteq Passing, Account(movers),
           NEW t \in Thread, Step(t), NEW after, after = After(movers, t)
    PROVE  after \subseteq Passing' /\ Account(after)'
  <1> USE DEF Grounds, TableInv
  <1>1. /\ Now' = Now /\ Elements' = Elements /\ Passing' = Passing
        /\ \A i \in Nat : KeyAt(i)' = KeyAt(i)
    BY OthersStay
  <1>2. Moving(movers) BY DEF Moving, Account
  <1>3. after \subseteq Passing' /\ Moving(after)' BY <1>2, StepKeepsMoving
  <1>4. after \subseteq Nat /\ Done' \subseteq Nat
    BY <1>1, <1>3, ElementsTyped DEF Done
  <1>5. ASSUME Now \in {"insert", "insertfind"}, NEW i \in after \cap Done'
        PROVE  LiveMap[KeyAt(i)]' = Elements[i].val
    <2>1. PICK k : k = KeyAt(i) OBVIOUS
    <2>2. KeyAt(i)' = k BY <1>1, <1>4, <2>1
    <2>3. \A j \in movers \cap Done : LiveMap[KeyAt(j)] = Elements[j].val BY <1>5 DEF Account
    <2>4. LiveMap[k]' = Elements[i].val BY <1>2, <1>5, <2>1, <2>3, StepKeepsBrought
    <2> QED BY <2>2, <2>4
  <1>6. Now \in {"insert", "erase"} \cap Synchronous =>
            TallyAfter(localFailed', counter', (Done' \cap Passing) \ after)
    BY <1>2, StepCountsFailures DEF Account
  <1>7. Now \in {"upsert"} \cap Synchronous =>
            /\ TallyAfter(localFailed', ioaCounter'.count, (Done' \cap Passing) \ Housed')
            /\ TallyAfter(localAssigned', ioaCounter'.assigned, Housed' \ after)
    BY <1>2, StepCountsAssignments DEF Account
  <1>8. ASSUME Now = "insertfind", NEW i \in Done' PROVE Answered(i, after)'
    <2>1. PICK k : k = KeyAt(i) OBVIOUS
    <2>2. KeyAt(i)' = k BY <1>1, <1>4, <2>1
    <2>3. \A j \in Done : Answered(j, movers) BY <1>8 DEF Account, Answered
    <2>4. /\ out'[Host][i] = [val  |-> IF k \in Stored' THEN LiveMap[k]' ELSE Nothing,
                              flag |-> IF i \in after THEN "yes" ELSE "no"]
          /\ k \in Stored' => LiveMap[k]' # Nothing
      BY <1>2, <1>8, <2>1, <2>3, StepKeepsAnswered
    <2> QED BY <2>2, <2>4 DEF Answered, Nothing
  <1>9. (Now \in {"insert", "insertfind"} =>
            \A i \in after \cap Done : LiveMap[KeyAt(i)] = Elements[i].val)'
    BY <1>1, <1>5
  <1>10. (Now \in {"insert", "erase"} \cap Synchronous =>
            Tally(localFailed, counter, (Done \cap Passing) \ after))'
    BY <1>1, <1>6 DEF Tally, TallyAfter
  <1>11. (Now \in {"upsert"} \cap Synchronous =>
            /\ Tally(localFailed, ioaCounter.count, (Done \cap Passing) \ Housed)
            /\ Tally(localAssigned, ioaCounter.assigned, Housed \ after))'
    BY <1>1, <1>7 DEF Tally, TallyAfter
  <1>12. (Now = "insertfind" => \A i \in Done : Answered(i, after))' BY <1>1, <1>8
  <1> QED BY <1>3, <1>9, <1>10, <1>11, <1>12 DEF Account, Moving, Answered

\* The call of a running kernel stays.
LEMMA StepKeepsHostKnows ==
    ASSUME SingleStream, Disciplined, TableInv, HostKnows, UNCHANGED snap,
           NEW t \in Thread, Step(t)
    PROVE  HostKnows'
  <1> USE DEF TableInv
  <1>1. UNCHANGED <<op, batch, answer>> BY OthersStay
  <1>2. ~Idle /\ ~Idle'
    <2>1. op[StreamOf[t]] # "none" BY StepsOfKernels DEF Op
    <2>2. StreamOf[t] \in Stream BY ThreadAssumption DEF ThreadAssumption
    <2> QED BY <1>1, <2>1, <2>2 DEF Idle
  <1> QED BY <1>1, <1>2 DEF HostKnows, Now, Working, Elements, Passing, Before

\* A step of a kernel that has elements keeps the invariant.
LEMMA StepKeepsBulkInv ==
    ASSUME SingleStream, Disciplined, PayloadsLast, TableInv, AnswersInv, BulkInv, TableInv',
           Working, UNCHANGED snap, NEW t \in Thread, Step(t)
    PROVE  BulkInv'
  <1>1. Grounds BY DEF Grounds, BulkInv
  <1>2. HostKnows /\ KeysMoved /\ OneStores /\ StoredIsBlank /\ PayloadsMoved
        /\ LookupsAnswered /\ HitsCounted /\ snap.used \in Nat
    BY DEF BulkInv, HostKnows
  <1>3. PICK movers \in SUBSET Passing : Account(movers) BY DEF BulkInv
  <1>4. \E m \in SUBSET Passing' : Account(m)'
    <2>1. PICK after : after = After(movers, t) OBVIOUS
    <2>2. after \in SUBSET Passing' /\ Account(after)'
      BY <1>1, <1>2, <1>3, <2>1, StepKeepsAccount
    <2> QED BY <2>2
  <1>5. HostKnows' BY <1>2, StepKeepsHostKnows
  <1>6. ThreadsKnow' BY <1>1, StepKeepsThreadsKnow
  <1>7. OneStores' /\ StoredIsBlank' BY <1>1, <1>2, StepKeepsStores
  <1>8. KeysMoved' BY <1>1, <1>2, StepKeepsKeysMoved
  <1>9. PayloadsMoved' BY <1>1, <1>2, <1>3, StepKeepsPayloadsMoved
  <1>10. LookupsAnswered' BY <1>1, <1>2, StepKeepsLookups
  <1>11. HitsCounted' BY <1>1, <1>2, StepKeepsHits
  <1> QED BY <1>4, <1>5, <1>6, <1>7, <1>8, <1>9, <1>10, <1>11 DEF BulkInv

\* While the table is cleared, or nothing runs, most of it says nothing.
LEMMA NothingMoves ==
    ASSUME HostKnows, ThreadsKnow, ~Working, \A t \in Thread : ~AtWork(t)
    PROVE  BulkInv
  <1>1. Now \in {"none", "clear"} BY DEF Working
  <1>2. OneStores /\ StoredIsBlank BY DEF OneStores, StoredIsBlank, AtWork
  <1>3. KeysMoved /\ PayloadsMoved
    BY <1>1 DEF KeysMoved, PayloadsMoved, InsertCalls, Working
  <1>4. LookupsAnswered /\ HitsCounted BY <1>1 DEF LookupsAnswered, HitsCounted, Working
  <1> QED BY <1>2, <1>3, <1>4 DEF BulkInv

\* No thread is at work then.
LEMMA NobodyWorks ==
    ASSUME SingleStream, Shape, ~Working, NEW t \in Thread
    PROVE  ~AtWork(t)
  BY AtThisElement, OneKernel DEF Working, Shape, WorkFitsCall, IdleThreadsRest, AtWork

\* ... nor after a step.
LEMMA NothingMovesAfter ==
    SingleStream /\ Shape' /\ HostKnows' /\ ThreadsKnow' /\ ~Working' => BulkInv'
  <1>1. SingleStream /\ Shape /\ HostKnows /\ ThreadsKnow /\ ~Working => BulkInv
    BY NothingMoves, NobodyWorks
  <1>2. SingleStream' <=> SingleStream BY DEF SingleStream, Host
  <1> QED BY <1>1, <1>2, PTL

\* A step of a Clear.
LEMMA ClearKeepsBulkInv ==
    ASSUME SingleStream, Disciplined, TableInv, BulkInv, TableInv',
           ~Working, UNCHANGED snap, NEW t \in Thread, Step(t)
    PROVE  BulkInv'
  <1> USE DEF TableInv
  <1>1. ~Working' BY OthersStay DEF Working
  <1>2. HostKnows' BY StepKeepsHostKnows DEF BulkInv
  <1>3. \A u \in Thread : ~AtWork(u) BY NobodyWorks
  <1>4. UNCHANGED <<op, batch>> BY OthersStay
  <1>5. /\ pc'[t] # "exit" => pc[t] # "exit" /\ elt'[t] = elt[t] + TotalThreads
        /\ pc'[t] \in {"fetch", "exit"}
    <2>1. Op(t) = "clear" BY OneKernel, StepsOfKernels DEF Working
    <2>2. ClearSlot(t) \/ Leave(t)
      BY <1>3, <2>1
      DEF Step, Fetch, ProbeInsert, CasInsert, StorePayload, AssignPayload, WaitForPayload,
          LoadContent, ProbeAssign, ProbeErase, CasErase, WipePayload, ProbeFind, ProbeForEach,
          AtWork
    <2>3. CASE ClearSlot(t) BY <2>3 DEF ClearSlot, NextElement, Shape, TypeOK
    <2>4. CASE Leave(t) BY <2>4 DEF Leave, Shape, TypeOK
    <2> QED BY <2>2, <2>3, <2>4
  <1>6. Strided'
    <2> SUFFICES ASSUME NEW u \in Thread, pc'[u] # "exit"
                 PROVE  (elt'[u] - 1) % TotalThreads = Rank[u] - 1
      BY DEF Strided
    <2>1. CASE u # t BY <2>1, OthersStay DEF BulkInv, ThreadsKnow, Strided
    <2>2. CASE u = t
      <3>1. elt[t] \in Nat \ {0} /\ TotalThreads \in Nat \ {0}
        BY ThreadAssumption DEF ThreadAssumption, Shape, TypeOK
      <3>2. (elt[t] - 1) % TotalThreads = Rank[t] - 1
        BY <1>5, <2>2 DEF BulkInv, ThreadsKnow, Strided
      <3> QED BY <1>5, <2>2, <3>1, <3>2, StrideSameShare
    <2> QED BY <2>1, <2>2
  <1>7. ASSUME NEW u \in Thread PROVE ~AtWork(u)'
    BY <1>3, <1>5, OthersStay DEF AtWork
  <1>8. ThreadsKnow' BY <1>6, <1>7 DEF ThreadsKnow, Knows, AtWork
  <1> QED BY <1>1, <1>2, <1>8, NothingMovesAfter

\* The kernel has ended, or its answer is taken.
LEMMA HostKeepsBulkInv ==
    ASSUME SingleStream, Disciplined, TableInv, BulkInv, TableInv',
           NEW s \in Stream, Complete(s) \/ TakeAnswer(s), Remember
    PROVE  BulkInv'
  <1> USE DEF TableInv
  <1>1. s = Host /\ Host \in Stream /\ (Idle <=> Now = "none") BY OneKernel
  <1>2. /\ op'[Host] = "none" /\ UNCHANGED <<first, second, pc, elt>>
        /\ op' \in [Stream -> Calls \cup {"none"}]
    BY <1>1 DEF Complete, TakeAnswer, threadVars, Shape, TypeOK
  <1>3. Idle' /\ ~Working' /\ Now' = "none"
    BY <1>1, <1>2 DEF SingleStream, Idle, Working, Now
  <1>4. snap' = [map |-> LiveMap', used |-> Cardinality(UsedSlots')]
    BY <1>3 DEF Remember
  <1>5. \A t \in Thread : pc'[t] = "exit"
    <2>1. \A t \in Thread : StreamOf[t] = s BY <1>1, OneKernel
    <2>2. CASE Complete(s) BY <1>2, <2>1, <2>2 DEF Complete
    <2>3. CASE TakeAnswer(s)
      BY <1>1, <1>2, <2>1, <2>3 DEF TakeAnswer, Shape, IdleThreadsRest, Op
    <2> QED BY <2>2, <2>3
  <1>6. ThreadsKnow' BY <1>5 DEF ThreadsKnow, Strided, Knows, AtWork
  <1>7. Before' \subseteq Key /\ snap'.used \in Nat
    <2>1. Before' = Stored' BY <1>4 DEF Before, LiveMap
    <2>2. UsedSlots' = UsedSlots BY <1>2 DEF UsedSlots
    <2>3. Cardinality(UsedSlots) \in Nat BY UsedIsFinite, FS_CardinalityType
    <2> QED BY <1>4, <2>1, <2>2, <2>3 DEF Stored
  <1>8. Elements' = <<>> => answer'[Host] = Zero
    <2>1. CASE TakeAnswer(s) BY <1>1, <2>1 DEF TakeAnswer, Shape, TypeOK
    <2>2. CASE Complete(s)
      <3>1. UNCHANGED batch /\ Now # "none" BY <1>1, <2>2 DEF Complete, Now
      <3>2. Elements = <<>> => Now = "clear"
        BY <3>1 DEF Elements, BulkInv, HostKnows, Working
      <3>3. "clear" \notin Synchronous
        BY CallAssumption DEF CallAssumption, CountedCalls
      <3> QED BY <1>1, <2>2, <3>1, <3>2, <3>3
        DEF Complete, Elements, Now, BulkInv, HostKnows
    <2> QED BY <2>1, <2>2
  <1>9. snap'.map = [k \in Before' |-> snap'.map[k]] BY <1>4 DEF Before, LiveMap
  <1>10. HostKnows' BY <1>3, <1>4, <1>7, <1>8, <1>9 DEF HostKnows
  <1> QED BY <1>3, <1>6, <1>10, NothingMovesAfter

\* A number below the divisor is its own remainder, and no remainder is larger
\* than the number.
LEMMA SmallRemainder ==
    ASSUME NEW a \in Nat, NEW T \in Nat \ {0}
    PROVE  a % T <= a /\ (a < T => a % T = a)
  <1>1. PICK p \in Nat, x \in 0..(T - 1) : a = T * p + x /\ a % T = x BY DivisionParts
  <1>2. T * p >= 0 BY ONLY T \in Nat, p \in Nat
  <1>3. a % T <= a BY <1>1, <1>2
  <1>4. ASSUME a < T PROVE a % T = a
    <2>1. p = 0
      <3> SUFFICES ASSUME p >= 1 PROVE FALSE OBVIOUS
      <3>1. T * (p - 1) >= 0 BY ONLY T \in Nat, p \in Nat, p >= 1
      <3>2. T * p = T * (p - 1) + T BY ONLY T \in Nat, p \in Nat
      <3> QED BY <1>1, <1>4, <3>1, <3>2
    <2>2. T * p = 0 BY <2>1
    <2> QED BY <1>1, <2>2
  <1> QED BY <1>3, <1>4

\* Every element is some thread's ...
Owned ==
    /\ DOMAIN Elements = 1..Len(Elements)
    /\ \A i \in DOMAIN Elements : \E t \in Thread : i \in Share(t)

\* ... after a launch, too.
LEMMA OwnersAfter == SingleStream /\ Shape' => Owned'
  <1>1. SingleStream /\ Shape => Owned BY OwnersOfElements, ElementsTyped DEF Owned
  <1>2. SingleStream' <=> SingleStream BY DEF SingleStream, Host
  <1> QED BY <1>1, <1>2, PTL

\* A launch: nothing is done, nothing has moved.
LEMMA LaunchKeepsBulkInv ==
    ASSUME SingleStream, Disciplined, TableInv, BulkInv, TableInv',
           NEW s \in Stream, NEW o \in Calls, NEW b \in Batches(o), Launch(s, o, b), Remember
    PROVE  BulkInv'
  <1> USE DEF TableInv
  <1>1. /\ s = Host /\ Host \in Stream /\ Idle /\ Now = "none" /\ Elements = <<>>
        /\ \A t \in Thread : StreamOf[t] = s
    BY OneKernel DEF Launch, Now, Elements
  <1>2. /\ op'[Host] = o /\ batch'[Host] = b /\ UNCHANGED <<first, second, answer>>
        /\ out'[Host] = [i \in 1..Len(b) |-> Unset]
        /\ \A t \in Thread : pc'[t] = "fetch" /\ elt'[t] = Rank[t]
                             /\ localFailed'[t] = 0 /\ localAssigned'[t] = 0
    BY <1>1 DEF Launch, Shape, TypeOK
  <1>3. o # "none" /\ ~Idle' /\ Now' = o /\ Elements' = b
    BY <1>1, <1>2, CallAssumption DEF CallAssumption, Ops, InsertCalls, Idle, Now, Elements
  <1>4. snap' = snap /\ snap = [map |-> LiveMap, used |-> Cardinality(UsedSlots)]
        /\ Before' = Stored /\ snap.used \in Nat
    BY <1>1, <1>3 DEF Remember, BulkInv, HostKnows, Before, LiveMap
  <1>5. LiveMap' = LiveMap /\ Stored' = Stored /\ UsedSlots' = UsedSlots
    BY <1>2 DEF LiveMap, Stored, UsedSlots, Holder, Content
  <1>6. /\ o = "clear" => b = <<>>
        /\ o # "clear" => b # <<>> /\ (o \notin StencilCalls => \A i \in DOMAIN b : b[i].pass)
    <2>1. CASE o = "clear" BY <2>1 DEF Batches
    <2>2. CASE o # "clear"
      <3>1. PICK n \in 1..MaxBatch :
                b \in [1..n -> {e \in Element : o \notin StencilCalls => e.pass}]
        BY <2>2 DEF Batches
      <3>2. DOMAIN b = 1..n /\ 1 \in 1..n
        BY <3>1, CallAssumption DEF CallAssumption
      <3>3. DOMAIN <<>> = {} OBVIOUS
      <3> QED BY <2>2, <3>1, <3>2, <3>3
    <2> QED BY <2>1, <2>2
  <1>7. HostKnows'
    BY <1>1, <1>2, <1>3, <1>4, <1>6
    DEF BulkInv, HostKnows, Working, Passing, Elements, Before
  <1>8. ThreadsKnow'
    <2>1. Strided'
      <3> SUFFICES ASSUME NEW t \in Thread PROVE (Rank[t] - 1) % TotalThreads = Rank[t] - 1
        BY <1>2 DEF Strided
      <3>1. Rank[t] - 1 \in Nat /\ Rank[t] - 1 < TotalThreads /\ TotalThreads \in Nat \ {0}
        BY ThreadAssumption DEF ThreadAssumption
      <3> QED BY <3>1, SmallRemainder
    <2> QED BY <1>2, <2>1 DEF ThreadsKnow, Knows, AtWork
  <1>9. CASE o = "clear"
    BY <1>3, <1>7, <1>8, <1>9, NothingMovesAfter DEF Working
  <1>10. CASE o # "clear"
    <2>1. Done' = {}
      <3> SUFFICES ASSUME NEW i \in DOMAIN Elements'
                   PROVE  \E t \in Thread : i \in Due(t)'
        BY DEF Done
      <3>1. PICK t \in Thread : i \in Share(t)' BY OwnersAfter DEF Owned
      <3>2. i \in Nat \ {0} /\ (i - 1) % TotalThreads = Rank[t] - 1
        BY <3>1, OwnersAfter DEF Owned, Share
      <3>3. (i - 1) % TotalThreads <= i - 1 /\ Rank[t] \in Nat
        BY <3>2, SmallRemainder, ThreadAssumption DEF ThreadAssumption
      <3>4. i >= Rank[t] BY <3>2, <3>3
      <3> QED BY <1>2, <3>1, <3>4 DEF Due
    <2>2. OneStores' /\ StoredIsBlank' BY <1>2 DEF OneStores, StoredIsBlank
    <2>3. Cardinality({}) = 0 /\ Cardinality(Stored' \ Before') = 0
      <3>1. Stored' \ Before' = {} BY <1>4, <1>5
      <3> QED BY <3>1, FS_EmptySet
    <2>4. KeysMoved'
      <3>1. Cardinality(UsedSlots') = snap'.used + Cardinality(Stored' \ Before')
        BY <1>4, <1>5, <2>3
      <3> QED BY <1>4, <1>5, <2>1, <3>1 DEF KeysMoved
    <2>5. PayloadsMoved' BY <1>4, <1>5, <2>1 DEF PayloadsMoved
    <2>6. DOMAIN Elements' = 1..Len(b) BY <1>3, OwnersAfter DEF Owned
    <2>7. \A i \in DOMAIN Elements' : out'[Host][i] = Unset BY <1>2, <2>6
    <2>8. LookupsAnswered' BY <2>1, <2>7 DEF LookupsAnswered, Unset, Nothing
    <2>9. HitsCounted'
      <3>1. o = "count" => counter' = 0
        BY CallAssumption DEF CallAssumption, Launch, CountedCalls
      <3>2. Housed' = {} BY <2>1 DEF Housed
      <3> QED BY <1>2, <1>3, <2>3, <3>1, <3>2 DEF HitsCounted
    <2>10. Account({})'
      <3>1. \A t \in Thread : pc'[t] = "fetch" BY <1>2
      <3>2. {} = (Stored' \ Before') \cup (Before' \ Stored') BY <1>4, <1>5
      <3>3. (Done' \cap Passing') \ {} = {} /\ (Done' \cap Passing') \ Housed' = {}
            /\ Housed' \ {} = {}
        BY <2>1 DEF Housed
      <3>4. \A t \in Thread : Cardinality({} \cap Share(t)') = 0
        <4>1. \A t \in Thread : {} \cap Share(t)' = {} OBVIOUS
        <4> QED BY <2>3, <4>1
      <3>5. Cardinality({i \in {} : \E t \in Thread : i \in Share(t)' /\ pc'[t] = "exit"}) = 0
        <4>1. {i \in {} : \E t \in Thread : i \in Share(t)' /\ pc'[t] = "exit"} = {} OBVIOUS
        <4> QED BY <2>3, <4>1
      <3>6. o \in {"insert", "erase"} \cap Synchronous => Tally(localFailed, counter, {})'
        <4>1. o \in {"insert", "erase"} \cap Synchronous => counter' = 0
          BY DEF Launch, CountedCalls
        <4> QED BY <1>2, <3>1, <3>4, <3>5, <4>1 DEF Tally
      <3>7. o \in {"upsert"} \cap Synchronous =>
                /\ Tally(localFailed, ioaCounter.count, {})'
                /\ Tally(localAssigned, ioaCounter.assigned, {})'
        <4>1. o \in {"upsert"} \cap Synchronous =>
                  ioaCounter'.count = 0 /\ ioaCounter'.assigned = 0
          BY DEF Launch, Zero
        <4> QED BY <1>2, <3>1, <3>4, <3>5, <4>1 DEF Tally
      <3>8. {KeyAt(i)' : i \in {}} = {} OBVIOUS
      <3> QED BY <1>3, <2>1, <3>1, <3>2, <3>3, <3>6, <3>7, <3>8 DEF Account
    <2>11. \E m \in SUBSET Passing' : Account(m)' BY <2>10
    <2> QED BY <1>7, <1>8, <2>2, <2>4, <2>5, <2>8, <2>9, <2>11 DEF BulkInv
  <1> QED BY <1>9, <1>10

\* Nothing happens.
LEMMA StutterKeepsBulkInv ==
    ASSUME BulkInv, UNCHANGED <<vars, snap>>
    PROVE  BulkInv'
  <1> USE DEF vars
  <1>1. /\ Now' = Now /\ Elements' = Elements /\ Passing' = Passing /\ Working' = Working
        /\ \A i : KeyAt(i)' = KeyAt(i)
        /\ \A k : Offered(k)' = Offered(k)
        /\ Before' = Before /\ Overwrites' = Overwrites /\ Idle' = Idle
    BY DEF Now, Elements, Passing, Working, KeyAt, Offered, Before, Overwrites, Idle
  <1>2. Stored' = Stored /\ LiveMap' = LiveMap /\ UsedSlots' = UsedSlots
    BY DEF Stored, LiveMap, UsedSlots, Holder, Content
  <1>3. /\ \A t \in Thread : Share(t)' = Share(t) /\ Due(t)' = Due(t)
        /\ Done' = Done /\ Housed' = Housed
    <2>1. \A t \in Thread : Share(t)' = Share(t) /\ Due(t)' = Due(t)
      BY <1>1 DEF Share, Due
    <2>2. Done' = Done BY <1>1, <2>1 DEF Done
    <2> QED BY <1>1, <1>2, <2>1, <2>2 DEF Housed
  <1>4. HostKnows' BY <1>1, <1>2, Zenon DEF BulkInv, HostKnows
  <1>5. ThreadsKnow'
    BY <1>1, <1>2, ZenonT(60)
    DEF BulkInv, ThreadsKnow, Strided, Knows, AtWork, Elem, ThisKey, ThisSlot, Noted, Unset, Nothing
  <1>6. OneStores' /\ StoredIsBlank'
    BY <1>1 DEF BulkInv, OneStores, StoredIsBlank, ThisSlot, ThisKey, Elem
  <1>7. KeysMoved' BY <1>1, <1>2, <1>3 DEF BulkInv, KeysMoved
  <1>8. PayloadsMoved' BY <1>1, <1>2, <1>3 DEF BulkInv, PayloadsMoved
  <1>9. LookupsAnswered' BY <1>1, <1>2, <1>3 DEF BulkInv, LookupsAnswered, Unset, Nothing
  <1>10. HitsCounted' BY <1>1, <1>3 DEF BulkInv, HitsCounted
  <1>11. ASSUME NEW m, Account(m) PROVE Account(m)'
    <2>1. {KeyAt(i)' : i \in m} = {KeyAt(i) : i \in m} BY <1>1
    <2>2. ASSUME NEW local, NEW total, NEW X, Tally(local, total, X)
          PROVE  TallyAfter(local, total, X)
      BY <1>3, <2>2 DEF Tally, TallyAfter
    <2>3. Now \in {"insert", "erase"} \cap Synchronous =>
            TallyAfter(localFailed', counter', (Done' \cap Passing') \ m)
      BY <1>1, <1>3, <1>11, <2>2 DEF Account
    <2>4. Now \in {"upsert"} \cap Synchronous =>
            /\ TallyAfter(localFailed', ioaCounter'.count, (Done' \cap Passing') \ Housed')
            /\ TallyAfter(localAssigned', ioaCounter'.assigned, Housed' \ m)
      BY <1>1, <1>3, <1>11, <2>2 DEF Account
    <2>5. (Now \in {"insert", "erase"} \cap Synchronous =>
            Tally(localFailed, counter, (Done \cap Passing) \ m))'
      BY <1>1, <2>3 DEF Tally, TallyAfter
    <2>6. (Now \in {"upsert"} \cap Synchronous =>
            /\ Tally(localFailed, ioaCounter.count, (Done \cap Passing) \ Housed)
            /\ Tally(localAssigned, ioaCounter.assigned, Housed \ m))'
      BY <1>1, <2>4 DEF Tally, TallyAfter
    <2> QED BY <1>1, <1>2, <1>3, <1>11, <2>1, <2>5, <2>6 DEF Account, Nothing
  <1> QED BY <1>1, <1>4, <1>5, <1>6, <1>7, <1>8, <1>9, <1>10, <1>11 DEF BulkInv

\* The invariant of a table that is driven by one stream.
RunInv == TableInv /\ AnswersInv /\ BulkInv

\* It holds at first ...
LEMMA InitHasRunInv == SingleStream /\ Disciplined /\ BulkInit => RunInv
  <1> SUFFICES ASSUME SingleStream, Disciplined, BulkInit PROVE RunInv OBVIOUS
  <1>1. TableInv /\ AnswersInv BY InitHasInv, InitHasAnswers DEF BulkInit
  <1>2. Host \in Stream BY OneKernel
  <1>3. Now = "none" /\ Elements = <<>> /\ answer[Host] = Zero
        /\ \A t \in Thread : pc[t] = "exit"
    BY <1>2 DEF BulkInit, Init, Now, Elements
  <1>4. ThreadsKnow BY <1>3 DEF ThreadsKnow, Strided, Knows, AtWork
  <1>5. HostKnows
    <2>1. Cardinality(UsedSlots) \in Nat BY UsedIsFinite, FS_CardinalityType
    <2>2. Before = Stored BY DEF BulkInit, Before, LiveMap
    <2>3. snap.map = [k \in Before |-> snap.map[k]] BY DEF BulkInit, Before, LiveMap
    <2> QED BY <1>3, <2>1, <2>2, <2>3 DEF HostKnows, BulkInit, Working, Stored
  <1> QED BY <1>1, <1>3, <1>4, <1>5, NothingMoves DEF RunInv, Working, AtWork

\* ... and every step keeps it.
LEMMA NextKeepsRunInv ==
    SingleStream /\ Disciplined /\ PayloadsLast /\ RunInv /\ [BulkNext]_<<vars, snap>> => RunInv'
  <1> SUFFICES ASSUME SingleStream, Disciplined, PayloadsLast, RunInv, [BulkNext]_<<vars, snap>>
               PROVE  RunInv'
    OBVIOUS
  <1>1. [Next]_vars BY DEF BulkNext
  <1>2. TableInv' /\ AnswersInv' BY <1>1, NextKeepsInv, NextKeepsAnswers DEF RunInv
  <1>3. CASE UNCHANGED <<vars, snap>>
    BY <1>2, <1>3, StutterKeepsBulkInv DEF RunInv
  <1>4. ASSUME NEW t \in Thread, Step(t), Remember PROVE BulkInv'
    <2>1. Op(t) # "none" /\ UNCHANGED op
      BY <1>4, OthersStay, StepsOfKernels DEF RunInv, TableInv
    <2>2. ~Idle'
      <3>1. StreamOf[t] \in Stream BY ThreadAssumption DEF ThreadAssumption
      <3> QED BY <2>1, <3>1 DEF Idle, Op
    <2>3. UNCHANGED snap BY <1>4, <2>2 DEF Remember
    <2> QED BY <1>2, <1>4, <2>3, StepKeepsBulkInv, ClearKeepsBulkInv DEF RunInv
  <1>5. ASSUME NEW s \in Stream, NEW o \in Calls, NEW b \in Batches(o), Launch(s, o, b), Remember
        PROVE  BulkInv'
    BY <1>2, <1>5, LaunchKeepsBulkInv DEF RunInv
  <1>6. ASSUME NEW s \in Stream, Complete(s) \/ TakeAnswer(s), Remember PROVE BulkInv'
    BY <1>2, <1>6, HostKeepsBulkInv DEF RunInv
  <1>7. BulkNext => BulkInv' BY <1>4, <1>5, <1>6 DEF BulkNext, Next
  <1> QED BY <1>2, <1>3, <1>7 DEF RunInv

--------------------------------------------------------------------------------
(* The kernel as one step of the map. *)

\* The abstract module counts as this one does.
LEMMA PromiseCounts == \A S : Promise!Cardinality(S) = Cardinality(S)
  BY DEF Promise!Cardinality, Cardinality

\* What the map sees of a running call.
LEMMA PromiseSees ==
    ASSUME ~Idle
    PROVE  /\ Promise!Elements = Elements /\ Promise!Accepted = Passing
           /\ Promise!Live = Before
           /\ Promise!Asked = {KeyAt(i) : i \in Passing}
           /\ \A k : Promise!Offers(k) = Offered(k)
           /\ \A keys : Promise!AskedIn(keys) = {i \in Passing : KeyAt(i) \in keys}
  <1>1. Promise!Elements = Elements BY DEF Promise!Elements, Elements
  <1>2. Promise!Accepted = Passing BY <1>1 DEF Promise!Accepted, Passing
  <1>3. Promise!Live = Before BY DEF Promise!Live, Before
  <1>4. Promise!Asked = {KeyAt(i) : i \in Passing} BY <1>1, <1>2 DEF Promise!Asked, KeyAt
  <1>5. \A k : Promise!Offers(k) = Offered(k)
    BY <1>1, <1>2 DEF Promise!Offers, Offered, KeyAt
  <1>6. \A keys : Promise!AskedIn(keys) = {i \in Passing : KeyAt(i) \in keys}
    BY <1>1, <1>2 DEF Promise!AskedIn, KeyAt
  <1> QED BY <1>1, <1>2, <1>3, <1>4, <1>5, <1>6

\* When all threads have left, every element is done, and the totals are whole.
LEMMA AllDone ==
    ASSUME SingleStream, Shape, \A t \in Thread : pc[t] = "exit"
    PROVE  /\ Done = DOMAIN Elements
           /\ \A local, total : \A X \in SUBSET DOMAIN Elements :
                Tally(local, total, X) => total = Cardinality(X)
  <1>1. Done = DOMAIN Elements BY DEF Done, Due
  <1>2. ASSUME NEW local, NEW total, NEW X \in SUBSET DOMAIN Elements, Tally(local, total, X)
        PROVE  total = Cardinality(X)
    <2>1. {i \in X : \E t \in Thread : i \in Share(t) /\ pc[t] = "exit"} = X
      BY OwnersOfElements
    <2> QED BY <1>2, <2>1 DEF Tally
  <1> QED BY <1>1, <1>2

\* The entries of the output array, as a function of the elements.
LEMMA OutputIs ==
    ASSUME SingleStream, Shape, NEW g, \A i \in DOMAIN Elements : out[Host][i] = g[i]
    PROVE  out[Host] = [i \in DOMAIN Elements |-> g[i]]
  <1>1. out[Host] \in Seq(Result) /\ Len(out[Host]) = Len(Elements)
    BY OneKernel DEF Shape, TypeOK, Elements
  <1>2. DOMAIN out[Host] = DOMAIN Elements BY <1>1, ElementsTyped
  <1>3. out[Host] = [i \in DOMAIN out[Host] |-> out[Host][i]] BY <1>1
  <1> QED BY <1>2, <1>3

\* How a call returns, and what a synchronous one loads.
Returning == \E s \in Stream : Complete(s) /\ Remember
Loaded == IF Now = "upsert" THEN ioaCounter ELSE [count |-> counter, assigned |-> 0]

\* A call returns when all threads have left; it changes neither table nor output.
LEMMA ReturnIs ==
    ASSUME SingleStream, Disciplined, RunInv, Returning
    PROVE  /\ Host \in Stream /\ Now \in Calls /\ ~Idle /\ Idle'
           /\ \A t \in Thread : pc[t] = "exit"
           /\ snap'.map = LiveMap /\ snap'.used = Cardinality(UsedSlots)
           /\ UNCHANGED <<batch, out>>
           /\ answer'[Host] = IF Now \in Synchronous THEN Loaded ELSE Zero
  <1> USE DEF RunInv, TableInv
  <1>1. Host \in Stream /\ Complete(Host) /\ Remember
    BY OneKernel DEF Returning
  <1>2. Now # "none" /\ Now \in Calls /\ ~Idle
    BY <1>1, OneKernel DEF Complete, Now, Shape, TypeOK
  <1>3. Idle'
    BY <1>1 DEF Complete, Idle, SingleStream, Shape, TypeOK
  <1>4. \A t \in Thread : pc[t] = "exit" BY <1>1, OneKernel DEF Complete
  <1>5. UNCHANGED <<first, second, batch, out>> BY <1>1 DEF Complete
  <1>6. LiveMap' = LiveMap /\ UsedSlots' = UsedSlots
    BY <1>5 DEF LiveMap, Stored, UsedSlots, Holder, Content
  <1>7. answer'[Host] = IF Now \in Synchronous THEN Loaded ELSE Zero
    <2>1. answer[Host] = Zero /\ answer \in [Stream -> Counts]
      BY <1>2 DEF BulkInv, HostKnows, Shape, TypeOK
    <2> QED BY <1>1, <2>1 DEF Complete, Now, Loaded
  <1> QED BY <1>1, <1>2, <1>3, <1>4, <1>5, <1>6, <1>7 DEF Remember

\* What the caller gets.
LEMMA ResultIs ==
    ASSUME SingleStream, Disciplined, RunInv, Returning, NEW count, NEW assigned, NEW entries,
           entries = out[Host], Elements # <<>>,
           Now \in Synchronous => Loaded = [count |-> count, assigned |-> assigned]
    PROVE  Promise!End(count, assigned, entries)
  <1>1. /\ ~Idle /\ Idle' /\ UNCHANGED <<batch, out>>
        /\ answer'[Host] = IF Now \in Synchronous THEN Loaded ELSE Zero
    BY ReturnIs
  <1>2. batch'[Host] # <<>> BY <1>1 DEF Elements
  <1>3. CASE Now \in Synchronous BY <1>1, <1>2, <1>3 DEF Promise!End, Now
  <1>4. CASE Now \notin Synchronous BY <1>1, <1>2, <1>4 DEF Promise!End, Now, Zero
  <1> QED BY <1>3, <1>4

\* What the map becomes.
LEMMA MapIs ==
    ASSUME SingleStream, Disciplined, RunInv, Returning, NEW live, NEW fresh, live = Stored,
           \A k \in Stored : IF k \in fresh THEN LiveMap[k] \in Offered(k)
                             ELSE k \in Before /\ LiveMap[k] = snap.map[k]
    PROVE  Promise!MapBecomes(live, fresh)
  <1>1. ~Idle /\ snap'.map = LiveMap BY ReturnIs
  <1>2. Promise!Live = Before /\ \A k : Promise!Offers(k) = Offered(k) BY <1>1, PromiseSees
  <1> DEFINE offers == UNION {Promise!Offers(k) : k \in fresh}
             kept == {snap.map[k] : k \in Promise!Live}
  <1>3. ASSUME NEW j \in Stored PROVE LiveMap[j] \in offers \cup kept
    <2>1. CASE j \in fresh
      <3>1. LiveMap[j] \in Promise!Offers(j) BY <1>2, <2>1
      <3>2. LiveMap[j] \in offers BY <2>1, <3>1
      <3> QED BY <3>2
    <2>2. CASE j \notin fresh
      <3>1. j \in Promise!Live /\ LiveMap[j] = snap.map[j] BY <1>2, <2>2
      <3>2. LiveMap[j] \in kept BY <3>1
      <3> HIDE DEF kept, offers
      <3> QED BY <3>2
    <2> QED BY <2>1, <2>2
  <1>4. LiveMap = [k \in Stored |-> LiveMap[k]] BY DEF LiveMap
  <1>5. LiveMap \in [live -> offers \cup kept]
    <2> HIDE DEF kept, offers
    <2> QED BY <1>3, <1>4
  <1>6. \A k \in live : IF k \in fresh THEN LiveMap[k] \in Promise!Offers(k)
                        ELSE LiveMap[k] = snap.map[k]
    BY <1>2
  <1>7. LiveMap \in {m \in [live -> offers \cup kept] :
                        \A k \in live : IF k \in fresh THEN m[k] \in Promise!Offers(k)
                                         ELSE m[k] = snap.map[k]}
    <2> HIDE DEF offers, kept
    <2> QED BY <1>5, <1>6
  <1> QED BY ONLY <1>1, <1>7 DEF Promise!MapBecomes

\* The keys an insertion has brought are as many as there was room for.
LEMMA NewcomersFit ==
    ASSUME SingleStream, Disciplined, RunInv, Returning, Now \in InsertCalls, NEW n,
           n = Stored \ Before
    PROVE  n \in Promise!Newcomers
  <1> USE DEF RunInv, TableInv
  <1>1. ~Idle /\ Working /\ \A t \in Thread : pc[t] = "exit"
    BY ReturnIs DEF Working, InsertCalls
  <1>2. Done = DOMAIN Elements /\ Passing \subseteq Done
    BY <1>1, AllDone, ElementsTyped
  <1>3. Promise!Asked = {KeyAt(i) : i \in Passing} /\ Promise!Live = Before
    BY <1>1, PromiseSees
  <1>4. PICK movers \in SUBSET Passing : Account(movers) BY <1>1 DEF BulkInv
  <1> DEFINE missing == Promise!Asked \ Promise!Live
             room == N - snap.used
  <1>5. n \in SUBSET missing
    <2>1. {KeyAt(i) : i \in movers} = (Stored \ Before) \cup (Before \ Stored)
      BY <1>4 DEF Account
    <2> QED BY <1>3, <2>1
  <1>6. IsFiniteSet(missing)
    <2>1. IsFiniteSet(Passing) BY ElementsFinite, ElementsTyped
    <2> DEFINE f == [i \in Passing |-> KeyAt(i)]
    <2>2. IsFiniteSet({f[i] : i \in Passing})
      <3> HIDE DEF f
      <3> QED BY <2>1, ImageIsFinite
    <2>3. {f[i] : i \in Passing} = {KeyAt(i) : i \in Passing} OBVIOUS
    <2>4. IsFiniteSet(Promise!Asked) BY <1>3, <2>2, <2>3
    <2> QED BY <2>4, FS_Difference
  <1>7. /\ Cardinality(n) <= Cardinality(missing) /\ IsFiniteSet(n)
        /\ Cardinality(n) \in Nat /\ Cardinality(missing) \in Nat
    BY <1>5, <1>6, FS_Subset, FS_CardinalityType
  <1>8. /\ Cardinality(UsedSlots) = snap.used + Cardinality(n)
        /\ snap.used \in Nat /\ N \in Nat /\ Cardinality(UsedSlots) \in Nat
        /\ Cardinality(UsedSlots) <= N
    <2>1. Cardinality(UsedSlots) <= Cardinality(Slot) BY UsedIsFinite, FS_Subset
    <2>2. Cardinality(UsedSlots) \in Nat BY UsedIsFinite, FS_CardinalityType
    <2> QED BY <1>1, <2>1, <2>2, UsedIsFinite, TableAssumption
        DEF BulkInv, HostKnows, KeysMoved, TableAssumption
  <1>9. n # missing => Cardinality(n) = room
    <2> SUFFICES ASSUME n # missing PROVE Cardinality(n) = room OBVIOUS
    <2>1. PICK i \in Passing : KeyAt(i) \notin Before /\ KeyAt(i) \notin n BY <1>3, <1>5
    <2>2. KeyAt(i) \in Stored \/ UsedSlots = Slot
      BY <1>2, <2>1 DEF BulkInv, KeysMoved
    <2>3. UsedSlots = Slot BY <2>1, <2>2
    <2> QED BY <1>7, <1>8, <2>3, UsedIsFinite
  <1>10. Cardinality(n) =
            IF Cardinality(missing) < room THEN Cardinality(missing) ELSE room
    <2>1. n = missing => Cardinality(n) = Cardinality(missing) OBVIOUS
    <2> DEFINE a == Cardinality(n)
               b == Cardinality(missing)
               c == Cardinality(UsedSlots)
    <2>2. a \in Nat /\ b \in Nat /\ c \in Nat /\ snap.used \in Nat /\ N \in Nat
      BY <1>7, <1>8
    <2>3. a <= b /\ c = snap.used + a /\ c <= N BY <1>7, <1>8
    <2>4. a = b \/ a = N - snap.used BY <1>9, <2>1
    <2> HIDE DEF a, b, c
    <2>5. a = IF b < N - snap.used THEN b ELSE N - snap.used BY ONLY <2>2, <2>3, <2>4
    <2> QED BY <2>5 DEF a, b
  <1>11. n \in {m \in SUBSET missing :
                  Cardinality(m) = IF Cardinality(missing) < room
                                   THEN Cardinality(missing) ELSE room}
    <2> HIDE DEF missing, room
    <2> QED BY ONLY <1>5, <1>10
  <1> QED BY ONLY <1>11, PromiseCounts DEF Promise!Newcomers

\* How many they are.
LEMMA MoversCounted ==
    ASSUME SingleStream, Shape, NEW movers \in SUBSET Passing, Account(movers), NEW keys,
           keys = (Stored \ Before) \cup (Before \ Stored)
    PROVE  /\ Cardinality(movers) = Cardinality(keys) /\ Cardinality(keys) \in Nat
           /\ \A X \in SUBSET DOMAIN Elements : movers \subseteq X =>
                Cardinality(X \ movers) = Cardinality(X) - Cardinality(keys)
  <1>1. movers \subseteq DOMAIN Elements BY ElementsTyped
  <1>2. IsFiniteSet(movers) /\ Cardinality(movers) \in Nat BY <1>1, ElementsFinite
  <1> DEFINE f == [i \in movers |-> KeyAt(i)]
  <1>3. Cardinality({f[i] : i \in movers}) = Cardinality(movers)
    <2>1. \A i, j \in movers : f[i] = f[j] => i = j BY DEF Account
    <2> HIDE DEF f
    <2> QED BY <1>2, <2>1, ImageIsFinite
  <1>4. {f[i] : i \in movers} = keys
    <2>1. {f[i] : i \in movers} = {KeyAt(i) : i \in movers} OBVIOUS
    <2> QED BY <2>1 DEF Account
  <1>5. Cardinality(movers) = Cardinality(keys) BY <1>3, <1>4
  <1>6. ASSUME NEW X \in SUBSET DOMAIN Elements, movers \subseteq X
        PROVE  Cardinality(X \ movers) = Cardinality(X) - Cardinality(keys)
    <2>1. IsFiniteSet(X) BY ElementsFinite
    <2>2. X \cap movers = movers BY <1>6
    <2>3. Cardinality(X \ movers) = Cardinality(X) - Cardinality(X \cap movers)
      BY <2>1, FS_Difference
    <2> QED BY <1>5, <2>2, <2>3
  <1> QED BY <1>2, <1>5, <1>6

\* The common ground of the calls that bring elements.
LEMMA ReturnsWorking ==
    ASSUME SingleStream, Disciplined, RunInv, Returning, Now # "clear"
    PROVE  /\ Working /\ ~Idle /\ Elements # <<>> /\ Passing \subseteq DOMAIN Elements
           /\ Done = DOMAIN Elements /\ Shape
           /\ \E movers \in SUBSET Passing : Account(movers)
           /\ snap'.used = snap.used + Cardinality(Stored \ Before)
           /\ (Now \notin {"find", "foreach", "insertfind"} => out[Host] = Promise!NoOutput)
  <1> USE DEF RunInv, TableInv
  <1>1. /\ ~Idle /\ \A t \in Thread : pc[t] = "exit"
        /\ snap'.used = Cardinality(UsedSlots)
    BY ReturnIs
  <1>2. Working BY <1>1, OneKernel DEF Working
  <1>3. Promise!NoOutput = [i \in DOMAIN Elements |-> Unset]
    BY <1>1, PromiseSees DEF Promise!NoOutput, Unset
  <1>4. Now \notin {"find", "foreach", "insertfind"} => out[Host] = Promise!NoOutput
    <2> SUFFICES ASSUME Now \notin {"find", "foreach", "insertfind"}
                 PROVE  out[Host] = Promise!NoOutput
      OBVIOUS
    <2> DEFINE g == [i \in DOMAIN Elements |-> Unset]
    <2>1. \A i \in DOMAIN Elements : out[Host][i] = g[i]
      BY <1>2 DEF BulkInv, LookupsAnswered
    <2>2. out[Host] = [i \in DOMAIN Elements |-> g[i]]
      <3> HIDE DEF g
      <3> QED BY <2>1, OutputIs
    <2> QED BY <1>3, <2>2
  <1> QED BY <1>1, <1>2, <1>4, AllDone, ElementsTyped DEF BulkInv, HostKnows, KeysMoved

\* Insert: one element per new key has not failed.
LEMMA InsertReturns ==
    ASSUME SingleStream, Disciplined, RunInv, Returning, Now = "insert"
    PROVE  Promise!Insert
  <1> DEFINE n == Stored \ Before
             count == Cardinality(Passing) - Cardinality(n)
  <1>1. /\ Working /\ ~Idle /\ Elements # <<>> /\ Passing \subseteq DOMAIN Elements
        /\ Done = DOMAIN Elements /\ Shape
        /\ snap'.used = snap.used + Cardinality(n) /\ out[Host] = Promise!NoOutput
    BY ReturnsWorking
  <1>2. PICK movers \in SUBSET Passing : Account(movers) BY ReturnsWorking
  <1>3. n \in Promise!Newcomers BY NewcomersFit DEF InsertCalls
  <1>4. Promise!Live = Before /\ Promise!Accepted = Passing BY <1>1, PromiseSees
  <1>5. Before \subseteq Stored /\ Promise!Live \cup n = Stored
    BY <1>4 DEF RunInv, BulkInv, KeysMoved, InsertCalls
  <1>6. \A k \in Stored : IF k \in n THEN LiveMap[k] \in Offered(k)
                          ELSE k \in Before /\ LiveMap[k] = snap.map[k]
    <2>1. ASSUME NEW k \in n PROVE LiveMap[k] \in Offered(k)
      <3>1. PICK i \in movers : KeyAt(i) = k BY <1>2 DEF Account
      <3>2. LiveMap[k] = Elements[i].val BY <1>1, <1>2, <3>1 DEF Account
      <3> QED BY <3>1, <3>2 DEF Offered
    <2>2. ASSUME NEW k \in Stored \cap Before PROVE LiveMap[k] = snap.map[k]
      BY <1>1 DEF RunInv, BulkInv, PayloadsMoved, Overwrites
    <2> QED BY <2>1, <2>2
  <1>7. Promise!MapBecomes(Promise!Live \cup n, n)
    <2> HIDE DEF n
    <2> QED BY <1>5, <1>6, MapIs
  <1>8. Now \in Synchronous => Loaded = [count |-> count, assigned |-> 0]
    <2> SUFFICES ASSUME Now \in Synchronous PROVE counter = count BY DEF Loaded
    <2>1. (Done \cap Passing) \ movers = Passing \ movers BY <1>1
    <2>2. Tally(localFailed, counter, Passing \ movers) BY <1>2, <2>1 DEF Account
    <2>3. counter = Cardinality(Passing \ movers)
      <3>1. \A t \in Thread : pc[t] = "exit" BY ReturnIs
      <3> QED BY <1>1, <2>2, <3>1, AllDone
    <2>4. (Stored \ Before) \cup (Before \ Stored) = n BY <1>5
    <2>5. Cardinality(Passing \ movers) = Cardinality(Passing) - Cardinality(n)
      <3> HIDE DEF n
      <3> QED BY <1>1, <1>2, <2>4, MoversCounted
    <2> QED BY <2>3, <2>5
  <1>9. Promise!End(count, 0, Promise!NoOutput)
    <2> HIDE DEF count
    <2> QED BY <1>1, <1>8, ResultIs
  <1> HIDE DEF n
  <1> QED BY <1>1, <1>3, <1>4, <1>7, <1>9, PromiseCounts DEF Promise!Insert, Now

\* InsertOrAssign: an element that housed its key and brought no new key has
\* assigned.
LEMMA UpsertReturns ==
    ASSUME SingleStream, Disciplined, RunInv, Returning, Now = "upsert"
    PROVE  Promise!Upsert
  <1> DEFINE n == Stored \ Before
             count == Cardinality(Passing \ Housed)
             assigned == Cardinality(Housed) - Cardinality(n)
             fresh == Promise!Asked \cap Stored
  <1>1. /\ Working /\ ~Idle /\ Elements # <<>> /\ Passing \subseteq DOMAIN Elements
        /\ Done = DOMAIN Elements /\ Shape
        /\ snap'.used = snap.used + Cardinality(n) /\ out[Host] = Promise!NoOutput
    BY ReturnsWorking
  <1>2. PICK movers \in SUBSET Passing : Account(movers) BY ReturnsWorking
  <1>3. n \in Promise!Newcomers BY NewcomersFit DEF InsertCalls
  <1>4. /\ Promise!Live = Before /\ Promise!Accepted = Passing
        /\ Promise!Asked = {KeyAt(i) : i \in Passing}
        /\ \A keys : Promise!AskedIn(keys) = {i \in Passing : KeyAt(i) \in keys}
    BY <1>1, PromiseSees
  <1>5. Before \subseteq Stored /\ Promise!Live \cup n = Stored
    BY <1>4 DEF RunInv, BulkInv, KeysMoved, InsertCalls
  <1>6. Promise!AskedIn(Stored) = Housed BY <1>1, <1>4 DEF Housed
  <1>7. movers \subseteq Housed
    <2>1. {KeyAt(i) : i \in movers} = n BY <1>2, <1>5 DEF Account
    <2> QED BY <1>1, <2>1 DEF Housed
  <1>8. \A k \in Stored : IF k \in fresh THEN LiveMap[k] \in Offered(k)
                          ELSE k \in Before /\ LiveMap[k] = snap.map[k]
    <2>1. ASSUME NEW k \in fresh PROVE LiveMap[k] \in Offered(k)
      <3>1. PICK i \in Passing : KeyAt(i) = k BY <1>4
      <3> QED BY <1>1, <3>1 DEF RunInv, BulkInv, PayloadsMoved, Overwrites
    <2>2. ASSUME NEW k \in Stored, k \notin fresh
          PROVE  k \in Before /\ LiveMap[k] = snap.map[k]
      <3>1. \A i \in Passing : KeyAt(i) # k BY <1>4, <2>2
      <3>2. k \in Before BY <1>2, <2>2, <3>1 DEF Account
      <3>3. Offered(k) = {} BY <3>1 DEF Offered
      <3> QED BY <1>1, <3>2, <3>3 DEF RunInv, BulkInv, PayloadsMoved
    <2> QED BY <2>1, <2>2
  <1>9. Promise!MapBecomes(Promise!Live \cup n, fresh)
    <2> HIDE DEF n, fresh
    <2> QED BY <1>5, <1>8, MapIs
  <1>10. Now \in Synchronous => Loaded = [count |-> count, assigned |-> assigned]
    <2> SUFFICES ASSUME Now \in Synchronous
                 PROVE  ioaCounter = [count |-> count, assigned |-> assigned]
      BY DEF Loaded
    <2>1. Done \cap Passing = Passing BY <1>1
    <2>2. /\ Tally(localFailed, ioaCounter.count, Passing \ Housed)
          /\ Tally(localAssigned, ioaCounter.assigned, Housed \ movers)
      BY <1>2, <2>1 DEF Account
    <2>3. Housed \subseteq DOMAIN Elements BY <1>1 DEF Housed
    <2>4. /\ ioaCounter.count = Cardinality(Passing \ Housed)
          /\ ioaCounter.assigned = Cardinality(Housed \ movers)
      <3>1. \A t \in Thread : pc[t] = "exit" BY ReturnIs
      <3> QED BY <1>1, <2>2, <2>3, <3>1, AllDone
    <2>5. (Stored \ Before) \cup (Before \ Stored) = n BY <1>5
    <2>6. Cardinality(Housed \ movers) = Cardinality(Housed) - Cardinality(n)
      <3> HIDE DEF n
      <3> QED BY <1>1, <1>2, <1>7, <2>3, <2>5, MoversCounted
    <2>7. ioaCounter \in Counts BY <1>1 DEF Shape, TypeOK
    <2> HIDE DEF count, assigned
    <2>8. ioaCounter.count = count /\ ioaCounter.assigned = assigned
      BY <2>4, <2>6 DEF count, assigned
    <2> QED BY <2>7, <2>8 DEF Counts
  <1>11. Promise!End(count, assigned, Promise!NoOutput)
    <2> HIDE DEF count, assigned
    <2> QED BY <1>1, <1>10, ResultIs
  <1>12. Promise!Live \cup n = Stored /\ Promise!AskedIn(Promise!Live \cup n) = Housed
    BY <1>5, <1>6
  <1> HIDE DEF n, fresh
  <1> QED BY <1>1, <1>3, <1>4, <1>9, <1>11, <1>12, PromiseCounts
      DEF Promise!Upsert, Now, fresh

\* InsertAndFind: every element has read what is stored for its key, and of a
\* new key one element is told that it inserted it.
LEMMA InsertAndFindReturns ==
    ASSUME SingleStream, Disciplined, RunInv, Returning, Now = "insertfind"
    PROVE  Promise!InsertAndFind
  <1> DEFINE n == Stored \ Before
  <1>1. /\ Working /\ ~Idle /\ Elements # <<>> /\ Passing \subseteq DOMAIN Elements
        /\ Done = DOMAIN Elements /\ Shape
        /\ snap'.used = snap.used + Cardinality(n) /\ snap'.map = LiveMap
    BY ReturnsWorking, ReturnIs
  <1>2. PICK movers \in SUBSET Passing : Account(movers) BY ReturnsWorking
  <1>3. n \in Promise!Newcomers BY NewcomersFit DEF InsertCalls
  <1>4. /\ Promise!Live = Before /\ Promise!Accepted = Passing
        /\ Promise!Elements = Elements
    BY <1>1, PromiseSees
  <1>5. Before \subseteq Stored /\ Promise!Live \cup n = Stored
    BY <1>4 DEF RunInv, BulkInv, KeysMoved, InsertCalls
  <1> DEFINE inserter == [k \in n |-> CHOOSE i \in movers : KeyAt(i) = k]
  <1>6. \A k \in n : inserter[k] \in movers /\ KeyAt(inserter[k]) = k
    BY <1>2 DEF Account
  <1>7. \A k \in n : LiveMap[k] = Elements[inserter[k]].val
    <2> HIDE DEF inserter, n
    <2> QED BY <1>1, <1>2, <1>6 DEF Account
  <1>8. \A k \in Stored : IF k \in n THEN LiveMap[k] \in Offered(k)
                          ELSE k \in Before /\ LiveMap[k] = snap.map[k]
    <2>1. ASSUME NEW k \in n PROVE LiveMap[k] \in Offered(k)
      <3> HIDE DEF inserter
      <3> QED BY <1>6, <1>7 DEF Offered
    <2>2. ASSUME NEW k \in Stored \cap Before PROVE LiveMap[k] = snap.map[k]
      BY <1>1 DEF RunInv, BulkInv, PayloadsMoved, Overwrites
    <2> QED BY <2>1, <2>2
  <1>9. Promise!MapBecomes(Promise!Live \cup n, n)
    <2> HIDE DEF n
    <2> QED BY <1>5, <1>8, MapIs
  <1> DEFINE answered == [i \in DOMAIN Elements |->
                    [val  |-> IF KeyAt(i) \in Stored THEN LiveMap[KeyAt(i)] ELSE Nothing,
                     flag |-> IF KeyAt(i) \in n /\ inserter[KeyAt(i)] = i
                              THEN "yes" ELSE "no"]]
  <1>10. \A i \in DOMAIN Elements :
            i \in movers <=> KeyAt(i) \in n /\ inserter[KeyAt(i)] = i
    <2> HIDE DEF inserter
    <2>1. \A i \in movers : KeyAt(i) \in n BY <1>2, <1>5 DEF Account
    <2> HIDE DEF n
    <2> QED BY <1>2, <1>6, <2>1 DEF Account
  <1>11. out[Host] = answered
    <2> HIDE DEF inserter, n
    <2>1. \A i \in DOMAIN Elements : out[Host][i] = answered[i]
      BY <1>1, <1>2, <1>10 DEF Account
    <2>2. out[Host] = [i \in DOMAIN Elements |-> answered[i]]
      <3> HIDE DEF answered
      <3> QED BY <1>1, <2>1, OutputIs
    <2> QED BY <2>2
  <1>12. Now \notin Synchronous BY CallAssumption DEF CallAssumption, CountedCalls
  <1>13. Promise!End(0, 0, answered)
    <2> HIDE DEF answered
    <2> QED BY <1>1, <1>11, <1>12, ResultIs
  <1>14. inserter \in {f \in [n -> Promise!Accepted] :
                          \A k \in n : Promise!Elements[f[k]].key = k}
    <2>1. inserter \in [n -> Passing] BY <1>6
    <2> HIDE DEF inserter, n
    <2> QED BY <1>4, <1>6, <2>1 DEF KeyAt
  <1>15. \A k \in n : snap'.map[k] = Promise!Elements[inserter[k]].val
    BY <1>1, <1>4, <1>7
  <1>16. answered = [i \in DOMAIN Promise!Elements |->
                    LET k == Promise!Elements[i].key IN
                    [val  |-> IF k \in Promise!Live \cup n THEN snap'.map[k] ELSE Nothing,
                     flag |-> IF k \in n /\ inserter[k] = i THEN "yes" ELSE "no"]]
    <2> HIDE DEF inserter, n
    <2> QED BY <1>1, <1>4, <1>5 DEF KeyAt
  <1> HIDE DEF inserter, answered, n
  <1>17. Now = op[Host] /\ ~Idle BY <1>1 DEF Now
  <1>18. snap'.used = snap.used + Promise!Cardinality(n) BY <1>1, PromiseCounts
  <1>19. \E f \in {f \in [n -> Promise!Accepted] :
                          \A k \in n : Promise!Elements[f[k]].key = k} :
            /\ \A k \in n : snap'.map[k] = Promise!Elements[f[k]].val
            /\ Promise!End(0, 0, [i \in DOMAIN Promise!Elements |->
                    LET k == Promise!Elements[i].key IN
                    [val  |-> IF k \in Promise!Live \cup n THEN snap'.map[k] ELSE Nothing,
                     flag |-> IF k \in n /\ f[k] = i THEN "yes" ELSE "no"]])
    BY <1>13, <1>14, <1>15, <1>16
  <1> QED BY ONLY <1>3, <1>9, <1>17, <1>18, <1>19, Now = "insertfind"
      DEF Promise!InsertAndFind

\* The calls that leave the keys alone.
LEMMA KeysStay ==
    ASSUME SingleStream, Disciplined, RunInv, Returning,
           Now \in {"assign", "find", "count", "foreach"}
    PROVE  /\ Stored = Before /\ Promise!Live = Stored /\ snap'.used = snap.used
           /\ Housed = {i \in Passing : KeyAt(i) \in Stored}
           /\ Promise!AskedIn(Promise!Live) = Housed
  <1>1. /\ Working /\ ~Idle /\ Passing \subseteq DOMAIN Elements /\ Done = DOMAIN Elements
        /\ snap'.used = snap.used + Cardinality(Stored \ Before)
    BY ReturnsWorking
  <1>2. Stored = Before
    BY <1>1 DEF RunInv, BulkInv, KeysMoved, InsertCalls
  <1>3. snap.used \in Nat BY DEF RunInv, BulkInv, HostKnows
  <1>4. Cardinality(Stored \ Before) = 0 BY <1>2, FS_EmptySet
  <1>5. Housed = {i \in Passing : KeyAt(i) \in Stored} BY <1>1 DEF Housed
  <1> QED BY <1>1, <1>2, <1>3, <1>4, <1>5, PromiseSees

\* Of them, those that leave the payloads alone too.
LEMMA MapStays ==
    ASSUME SingleStream, Disciplined, RunInv, Returning, Now \in {"find", "count", "foreach"}
    PROVE  LiveMap = snap.map /\ snap'.map = snap.map
  <1>1. Stored = Before /\ Working BY KeysStay, ReturnsWorking
  <1>2. \A k \in Stored : LiveMap[k] = snap.map[k]
    BY <1>1 DEF RunInv, BulkInv, PayloadsMoved, Overwrites
  <1>3. LiveMap = [k \in Stored |-> LiveMap[k]] BY DEF LiveMap
  <1>4. snap.map = [k \in Stored |-> snap.map[k]] BY <1>1 DEF RunInv, BulkInv, HostKnows
  <1>5. LiveMap = snap.map BY <1>2, <1>3, <1>4
  <1> QED BY <1>5, ReturnIs

\* Assign.
LEMMA AssignReturns ==
    ASSUME SingleStream, Disciplined, RunInv, Returning, Now = "assign"
    PROVE  Promise!Assign
  <1> DEFINE fresh == Promise!Asked \cap Stored
  <1>1. /\ Working /\ ~Idle /\ Elements # <<>> /\ Passing \subseteq DOMAIN Elements
        /\ Done = DOMAIN Elements /\ out[Host] = Promise!NoOutput
    BY ReturnsWorking
  <1>2. Stored = Before /\ Promise!Live = Stored /\ snap'.used = snap.used
    BY KeysStay
  <1>3. Promise!Asked = {KeyAt(i) : i \in Passing} BY <1>1, PromiseSees
  <1>4. \A k \in Stored : IF k \in fresh THEN LiveMap[k] \in Offered(k)
                          ELSE k \in Before /\ LiveMap[k] = snap.map[k]
    <2>1. ASSUME NEW k \in fresh PROVE LiveMap[k] \in Offered(k)
      <3>1. PICK i \in Passing : KeyAt(i) = k BY <1>3
      <3> QED BY <1>1, <3>1 DEF RunInv, BulkInv, PayloadsMoved, Overwrites
    <2>2. ASSUME NEW k \in Stored, k \notin fresh
          PROVE  k \in Before /\ LiveMap[k] = snap.map[k]
      <3>1. \A i \in Passing : KeyAt(i) # k BY <1>3, <2>2
      <3>2. Offered(k) = {} BY <3>1 DEF Offered
      <3> QED BY <1>1, <1>2, <3>2 DEF RunInv, BulkInv, PayloadsMoved
    <2> QED BY <2>1, <2>2
  <1>5. Promise!MapBecomes(Promise!Live, fresh)
    <2> HIDE DEF fresh
    <2> QED BY <1>2, <1>4, MapIs
  <1>6. Now \notin Synchronous BY CallAssumption DEF CallAssumption, CountedCalls
  <1>7. Promise!End(0, 0, Promise!NoOutput) BY <1>1, <1>6, ResultIs
  <1> QED BY <1>1, <1>2, <1>5, <1>7 DEF Promise!Assign, Now

\* Erase: one element per key that was there has not failed.
LEMMA EraseReturns ==
    ASSUME SingleStream, Disciplined, RunInv, Returning, Now = "erase"
    PROVE  Promise!Erase
  <1> DEFINE n == Promise!Asked \cap Promise!Live
             count == Cardinality(Passing) - Cardinality(n)
  <1>1. /\ Working /\ ~Idle /\ Elements # <<>> /\ Passing \subseteq DOMAIN Elements
        /\ Done = DOMAIN Elements /\ Shape /\ out[Host] = Promise!NoOutput
        /\ snap'.used = snap.used + Cardinality(Stored \ Before) /\ snap'.map = LiveMap
    BY ReturnsWorking, ReturnIs
  <1>2. PICK movers \in SUBSET Passing : Account(movers) BY ReturnsWorking
  <1>3. /\ Promise!Live = Before /\ Promise!Accepted = Passing
        /\ Promise!Asked = {KeyAt(i) : i \in Passing}
    BY <1>1, PromiseSees
  <1>4. Stored \subseteq Before BY DEF RunInv, BulkInv, KeysMoved
  <1>5. snap'.used = snap.used
    <2>1. Stored \ Before = {} BY <1>4
    <2>2. snap.used \in Nat BY DEF RunInv, BulkInv, HostKnows
    <2>3. Cardinality(Stored \ Before) = 0 BY <2>1, FS_EmptySet
    <2> QED BY <1>1, <2>2, <2>3
  <1>6. n = Before \ Stored
    <2>1. \A i \in Passing : KeyAt(i) \notin Stored
      BY <1>1 DEF RunInv, BulkInv, KeysMoved
    <2>2. {KeyAt(i) : i \in movers} = Before \ Stored BY <1>2, <1>4 DEF Account
    <2> QED BY <1>3, <2>1, <2>2
  <1>7. Stored = Promise!Live \ Promise!Asked BY <1>3, <1>4, <1>6
  <1>8. snap'.map = [k \in Promise!Live \ Promise!Asked |-> snap.map[k]]
    <2>1. \A k \in Stored : LiveMap[k] = snap.map[k]
      BY <1>1, <1>4 DEF RunInv, BulkInv, PayloadsMoved, Overwrites
    <2>2. LiveMap = [k \in Stored |-> LiveMap[k]] BY DEF LiveMap
    <2>3. LiveMap = [k \in Stored |-> snap.map[k]] BY <2>1, <2>2
    <2> QED BY <1>1, <1>7, <2>3
  <1>9. Now \in Synchronous => Loaded = [count |-> count, assigned |-> 0]
    <2> SUFFICES ASSUME Now \in Synchronous PROVE counter = count BY DEF Loaded
    <2>1. (Done \cap Passing) \ movers = Passing \ movers BY <1>1
    <2>2. Tally(localFailed, counter, Passing \ movers) BY <1>2, <2>1 DEF Account
    <2>3. counter = Cardinality(Passing \ movers)
      <3>1. \A t \in Thread : pc[t] = "exit" BY ReturnIs
      <3> QED BY <1>1, <2>2, <3>1, AllDone
    <2>4. (Stored \ Before) \cup (Before \ Stored) = n BY <1>4, <1>6
    <2>5. Cardinality(Passing \ movers) = Cardinality(Passing) - Cardinality(n)
      <3> HIDE DEF n
      <3> QED BY <1>1, <1>2, <2>4, MoversCounted
    <2> QED BY <2>3, <2>5
  <1>10. Promise!End(count, 0, Promise!NoOutput)
    <2> HIDE DEF count
    <2> QED BY <1>1, <1>9, ResultIs
  <1>11. Promise!End(Promise!Cardinality(Promise!Accepted)
                     - Promise!Cardinality(Promise!Asked \cap Promise!Live),
                     0, Promise!NoOutput)
    BY <1>3, <1>10, PromiseCounts
  <1>12. Now = op[Host] /\ ~Idle BY <1>1 DEF Now
  <1> QED BY ONLY <1>5, <1>8, <1>11, <1>12, Now = "erase" DEF Promise!Erase

\* Find.
LEMMA FindReturns ==
    ASSUME SingleStream, Disciplined, RunInv, Returning, Now = "find"
    PROVE  Promise!Find
  <1>1. /\ Working /\ ~Idle /\ Elements # <<>> /\ Passing \subseteq DOMAIN Elements
        /\ Done = DOMAIN Elements /\ Shape
    BY ReturnsWorking
  <1>2. /\ Promise!AskedIn(Promise!Live) = Housed /\ snap'.used = snap.used
        /\ Housed = {i \in Passing : KeyAt(i) \in Stored}
    BY KeysStay
  <1>3. LiveMap = snap.map /\ snap'.map = snap.map BY MapStays
  <1> DEFINE answered == [i \in DOMAIN Elements |->
                    [val  |-> IF i \in Housed THEN snap.map[KeyAt(i)] ELSE Nothing,
                     flag |-> IF i \in Housed THEN "yes" ELSE "no"]]
  <1>4. out[Host] = answered
    <2>1. \A i \in DOMAIN Elements : out[Host][i] = answered[i]
      BY <1>1, <1>2, <1>3 DEF RunInv, BulkInv, LookupsAnswered
    <2>2. out[Host] = [i \in DOMAIN Elements |-> answered[i]]
      <3> HIDE DEF answered
      <3> QED BY <1>1, <2>1, OutputIs
    <2> QED BY <2>2
  <1>5. Now \notin Synchronous BY CallAssumption DEF CallAssumption, CountedCalls
  <1>6. Promise!End(0, 0, answered)
    <2> HIDE DEF answered
    <2> QED BY <1>1, <1>4, <1>5, ResultIs
  <1>7. Promise!Elements = Elements BY <1>1, PromiseSees
  <1>8. answered = [i \in DOMAIN Promise!Elements |->
            LET hit == i \in Promise!AskedIn(Promise!Live) IN
            [val  |-> IF hit THEN snap.map[Promise!Elements[i].key] ELSE Nothing,
             flag |-> IF hit THEN "yes" ELSE "no"]]
    BY <1>2, <1>7 DEF KeyAt
  <1> HIDE DEF answered
  <1>9. Now = op[Host] /\ ~Idle BY <1>1 DEF Now
  <1> QED BY ONLY <1>2, <1>3, <1>6, <1>8, <1>9, Now = "find" DEF Promise!Find

\* Count.
LEMMA CountReturns ==
    ASSUME SingleStream, Disciplined, RunInv, Returning, Now = "count"
    PROVE  Promise!Count
  <1> DEFINE count == Cardinality(Housed)
  <1>1. ~Idle /\ Elements # <<>> /\ out[Host] = Promise!NoOutput BY ReturnsWorking
  <1>2. Promise!AskedIn(Promise!Live) = Housed /\ snap'.used = snap.used BY KeysStay
  <1>3. snap'.map = snap.map BY MapStays
  <1>4. Loaded = [count |-> count, assigned |-> 0]
    BY DEF RunInv, BulkInv, HitsCounted, Loaded
  <1>5. Promise!End(count, 0, Promise!NoOutput)
    <2> HIDE DEF count
    <2> QED BY <1>1, <1>4, ResultIs
  <1> QED BY <1>1, <1>2, <1>3, <1>5, PromiseCounts DEF Promise!Count, Now

\* ForEach.
LEMMA ForEachReturns ==
    ASSUME SingleStream, Disciplined, RunInv, Returning, Now = "foreach"
    PROVE  Promise!ForEach
  <1>1. /\ Working /\ ~Idle /\ Elements # <<>> /\ Passing \subseteq DOMAIN Elements
        /\ Done = DOMAIN Elements /\ Shape
    BY ReturnsWorking
  <1>2. /\ Promise!AskedIn(Promise!Live) = Housed /\ snap'.used = snap.used
        /\ Housed = {i \in Passing : KeyAt(i) \in Stored}
    BY KeysStay
  <1>3. snap'.map = snap.map BY MapStays
  <1> DEFINE answered == [i \in DOMAIN Elements |->
                    IF i \in Housed THEN [val |-> KeyAt(i), flag |-> "yes"] ELSE Unset]
  <1>4. out[Host] = answered
    <2>1. Passing = DOMAIN Elements
      BY <1>1 DEF RunInv, BulkInv, HostKnows, StencilCalls
    <2>2. \A i \in DOMAIN Elements : out[Host][i] = answered[i]
      BY <1>1, <1>2, <2>1 DEF RunInv, BulkInv, LookupsAnswered
    <2>3. out[Host] = [i \in DOMAIN Elements |-> answered[i]]
      <3> HIDE DEF answered
      <3> QED BY <1>1, <2>2, OutputIs
    <2> QED BY <2>3
  <1>5. Now \notin Synchronous BY CallAssumption DEF CallAssumption, CountedCalls
  <1>6. Promise!End(0, 0, answered)
    <2> HIDE DEF answered
    <2> QED BY <1>1, <1>4, <1>5, ResultIs
  <1>7. Promise!Elements = Elements BY <1>1, PromiseSees
  <1>8. answered = [i \in DOMAIN Promise!Elements |->
            IF i \in Promise!AskedIn(Promise!Live)
            THEN [val |-> Promise!Elements[i].key, flag |-> "yes"]
            ELSE [val |-> Nothing, flag |-> "unset"]]
    BY <1>2, <1>7 DEF KeyAt, Unset
  <1> HIDE DEF answered
  <1>9. Now = op[Host] /\ ~Idle BY <1>1 DEF Now
  <1> QED BY ONLY <1>2, <1>3, <1>6, <1>8, <1>9, Now = "foreach" DEF Promise!ForEach

\* Clear.
LEMMA ClearReturns ==
    ASSUME SingleStream, Disciplined, RunInv, Returning, Now = "clear"
    PROVE  Promise!Clear
  <1> USE DEF RunInv, TableInv
  <1>1. /\ ~Idle /\ Idle' /\ Host \in Stream /\ \A t \in Thread : pc[t] = "exit"
        /\ snap'.map = LiveMap /\ snap'.used = Cardinality(UsedSlots)
        /\ UNCHANGED <<batch, out>>
    BY ReturnIs
  <1>2. \A i \in Slot : first[i] = EmptyKey BY <1>1 DEF ClearLeavesNone, Now
  <1>3. Stored = {} BY <1>2 DEF Stored, Disciplined
  <1>4. UsedSlots = {} BY <1>2 DEF UsedSlots
  <1>5. snap'.map = <<>>
    <2>1. LiveMap = [k \in {} |-> Content(Holder(k))] BY <1>3 DEF LiveMap
    <2>2. [k \in {} |-> Content(Holder(k))] = <<>> OBVIOUS
    <2> QED BY <1>1, <2>1, <2>2
  <1>6. snap'.used = 0 BY <1>1, <1>4, FS_EmptySet
  <1>7. Elements = <<>> BY DEF BulkInv, HostKnows
  <1>8. Now \notin Synchronous BY CallAssumption DEF CallAssumption, CountedCalls
  <1>9. batch'[Host] = <<>> BY <1>1, <1>7 DEF Elements
  <1>10. Promise!NoOutput = <<>>
    <2>1. Promise!NoOutput = [i \in {} |-> Unset]
      BY <1>1, <1>7, PromiseSees DEF Promise!NoOutput, Unset
    <2>2. [i \in {} |-> Unset] = <<>> OBVIOUS
    <2> QED BY <2>1, <2>2
  <1>11. Now = op[Host] BY DEF Now
  <1>12. Promise!End(0, 0, Promise!NoOutput)
    BY <1>1, <1>8, <1>9, <1>10, <1>11 DEF Promise!End
  <1> QED BY ONLY <1>1, <1>5, <1>6, <1>11, <1>12, Now = "clear" DEF Promise!Clear

\* A kernel that returns is one step of the map.
LEMMA ReturnsAsPromised ==
    ASSUME SingleStream, Disciplined, RunInv, Returning
    PROVE  Promise!Return
  <1>1. /\ Promise!Insert \/ Promise!Upsert \/ Promise!InsertAndFind \/ Promise!Assign
           \/ Promise!Erase \/ Promise!Find \/ Promise!Count \/ Promise!ForEach
           \/ Promise!Clear
        /\ ~Idle /\ Idle' /\ Now # "none"
    <2>1. Now \in Calls /\ ~Idle /\ Idle' BY ReturnIs
    <2>2. Now \in InsertCalls \cup {"assign", "erase", "find", "count", "foreach", "clear"}
      BY <2>1, CallAssumption DEF CallAssumption, Ops
    <2> QED BY <2>1, <2>2, InsertReturns, UpsertReturns, InsertAndFindReturns, AssignReturns,
               EraseReturns, FindReturns, CountReturns, ForEachReturns, ClearReturns
            DEF InsertCalls
  <1>2. Now = op[Host] BY DEF Now
  <1> QED BY ONLY <1>1, <1>2 DEF Promise!Return, Promise!NoCall

\* A launch is the beginning of the call.
LEMMA LaunchesAsPromised ==
    ASSUME SingleStream, Disciplined, RunInv, NEW s \in Stream, NEW o \in Calls,
           NEW b \in Batches(o), Launch(s, o, b), Remember
    PROVE  Promise!Begin(o)
  <1> USE DEF RunInv, TableInv
  <1>1. s = Host /\ Idle /\ op[Host] = "none" /\ batch[Host] = <<>>
    BY OneKernel DEF Launch, Now
  <1>2. op'[Host] = o /\ batch'[Host] = b BY <1>1 DEF Launch, Shape, TypeOK
  <1>3. ~Idle'
    <2>1. o # "none" BY CallAssumption DEF CallAssumption, Ops, InsertCalls
    <2> QED BY <1>1, <1>2, <2>1 DEF Idle
  <1>4. snap' = snap BY <1>3 DEF Remember
  <1>5. [op |-> o, batch |-> b] \in [op : {o}, batch : Batches(o)] OBVIOUS
  <1> QED BY ONLY <1>1, <1>2, <1>3, <1>4, <1>5
          DEF Promise!Begin, Promise!NoCall, Promise!NoResult

\* What a thread does inside is no step of the map.
LEMMA StepsStutter ==
    ASSUME SingleStream, Disciplined, RunInv, NEW t \in Thread, Step(t), Remember
    PROVE  UNCHANGED Promise!vars
  <1>1. Op(t) # "none" /\ UNCHANGED <<op, batch>>
    BY OthersStay, StepsOfKernels DEF RunInv, TableInv
  <1>2. ~Idle /\ ~Idle'
    <2>1. StreamOf[t] \in Stream BY ThreadAssumption DEF ThreadAssumption
    <2> QED BY <1>1, <2>1 DEF Idle, Op
  <1>3. UNCHANGED snap BY <1>2 DEF Remember
  <1> QED BY ONLY <1>1, <1>2, <1>3 DEF Promise!vars

\* The caller takes the answer.
LEMMA TakesAsPromised ==
    ASSUME SingleStream, Disciplined, RunInv, NEW s \in Stream, TakeAnswer(s), Remember
    PROVE  Promise!Take
  <1> USE DEF RunInv, TableInv
  <1>1. /\ s = Host /\ Host \in Stream /\ Idle /\ op[Host] = "none" /\ batch[Host] # <<>>
        /\ UNCHANGED <<op, first, second>>
    BY OneKernel DEF TakeAnswer, Now
  <1>2. batch'[Host] = <<>> BY <1>1 DEF TakeAnswer, Shape, TypeOK
  <1>3. Idle' BY <1>1 DEF Idle
  <1>4. snap' = snap
    <2>1. LiveMap' = LiveMap /\ UsedSlots' = UsedSlots
      BY <1>1 DEF LiveMap, Stored, UsedSlots, Holder, Content
    <2> QED BY <1>1, <1>3, <2>1 DEF Remember, BulkInv, HostKnows
  <1>5. out[Host] # <<>>
    <2>1. batch[Host] \in Seq(Element) /\ out[Host] \in Seq(Result)
          /\ Len(out[Host]) = Len(batch[Host])
      BY <1>1 DEF Shape, TypeOK
    <2> QED BY <1>1, <2>1
  <1> QED BY ONLY <1>1, <1>2, <1>3, <1>4, <1>5 DEF Promise!Take, Promise!NoResult

\* Nothing is no step of the map.
LEMMA StutterStutters ==
    ASSUME UNCHANGED <<vars, snap>>
    PROVE  UNCHANGED Promise!vars
  <1>1. UNCHANGED <<op, batch, answer, out, snap>> BY DEF vars
  <1>2. Idle' = Idle BY <1>1 DEF Idle
  <1> QED BY ONLY <1>1, <1>2 DEF Promise!vars

\* Every step of the table is a step of the map or none.
LEMMA NextAsPromised ==
    SingleStream /\ Disciplined /\ RunInv /\ [BulkNext]_<<vars, snap>>
        => [Promise!Next]_(Promise!vars)
  <1> SUFFICES ASSUME SingleStream, Disciplined, RunInv, [BulkNext]_<<vars, snap>>
               PROVE  [Promise!Next]_(Promise!vars)
    OBVIOUS
  <1>1. UNCHANGED <<vars, snap>> => UNCHANGED Promise!vars BY StutterStutters
  <1>2. ASSUME NEW t \in Thread, Step(t), Remember PROVE UNCHANGED Promise!vars
    BY <1>2, StepsStutter
  <1>3. ASSUME NEW s \in Stream, NEW o \in Calls, NEW b \in Batches(o), Launch(s, o, b), Remember
        PROVE  Promise!Next
    <2>1. Promise!Begin(o) BY <1>3, LaunchesAsPromised
    <2> QED BY ONLY <2>1, o \in Calls DEF Promise!Next
  <1>4. ASSUME NEW s \in Stream, Complete(s), Remember PROVE Promise!Next
    <2>1. Returning BY <1>4 DEF Returning
    <2>2. Promise!Return BY <2>1, ReturnsAsPromised
    <2> QED BY ONLY <2>2 DEF Promise!Next
  <1>5. ASSUME NEW s \in Stream, TakeAnswer(s), Remember PROVE Promise!Next
    <2>1. Promise!Take BY <1>5, TakesAsPromised
    <2> QED BY ONLY <2>1 DEF Promise!Next
  <1>6. BulkNext => Promise!Next \/ UNCHANGED Promise!vars
    BY <1>2, <1>3, <1>4, <1>5 DEF BulkNext, Next
  <1> QED BY <1>1, <1>6

\* The empty table is the empty map.
LEMMA InitAsPromised == SingleStream /\ Disciplined /\ BulkInit => Promise!Init
  <1> SUFFICES ASSUME SingleStream, Disciplined, BulkInit PROVE Promise!Init OBVIOUS
  <1>1. Host \in Stream /\ Idle /\ batch[Host] = <<>>
    <2>1. Host \in Stream BY OneKernel
    <2> QED BY <2>1 DEF BulkInit, Init, Idle
  <1>2. \A i \in Slot : first[i] = EmptyKey BY DEF BulkInit, Init
  <1>3. Stored = {} BY <1>2 DEF Stored, Disciplined
  <1>4. UsedSlots = {} BY <1>2 DEF UsedSlots
  <1>5. snap.map = <<>>
    <2>1. LiveMap = [k \in {} |-> Content(Holder(k))] BY <1>3 DEF LiveMap
    <2>2. [k \in {} |-> Content(Holder(k))] = <<>> OBVIOUS
    <2> QED BY <2>1, <2>2 DEF BulkInit
  <1>6. snap.used = 0 BY <1>4, FS_EmptySet DEF BulkInit
  <1> QED BY ONLY <1>1, <1>5, <1>6 DEF Promise!Init, Promise!NoCall, Promise!NoResult

\* For one stream and callers that keep the discipline, every kernel is one
\* atomic operation of a map: however the threads' loads, stores and
\* compare-and-swaps interleave, and with any number of slots, threads,
\* elements and duplicates, the counters the host reads back, the outputs and
\* the table afterwards are those of BulkMap.
THEOREM KernelsAreMapOperations ==
    ASSUME SingleStream, Disciplined, PayloadsLast
    PROVE  BulkSpec => IsBulkMap
  <1>1. BulkInit => RunInv /\ Promise!Init BY InitHasRunInv, InitAsPromised
  <1>2. RunInv /\ [BulkNext]_<<vars, snap>> => RunInv' BY NextKeepsRunInv
  <1>3. RunInv /\ [BulkNext]_<<vars, snap>> => [Promise!Next]_(Promise!vars)
    BY NextAsPromised
  <1> QED BY <1>1, <1>2, <1>3, PTL DEF BulkSpec, IsBulkMap

\* The invariant of the running kernel holds throughout.
THEOREM KernelsKeepBooks ==
    ASSUME SingleStream, Disciplined, PayloadsLast
    PROVE  BulkSpec => []BulkInv
  <1>1. BulkInit => RunInv BY InitHasRunInv
  <1>2. RunInv /\ [BulkNext]_<<vars, snap>> => RunInv' BY NextKeepsRunInv
  <1>3. RunInv => BulkInv BY DEF RunInv
  <1> QED BY <1>1, <1>2, <1>3, PTL DEF BulkSpec
================================================================================
