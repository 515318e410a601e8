------------------------------- MODULE HostCalls -------------------------------
(***************************************************************************)
(* OpenAddressingImpl: what a call does on the host (open_addressing_impl.h, *)
(* arg_storage.h, bucket_storage.inl).  A call queues its kernel on the    *)
(* stream; a synchronous one then waits for the stream and reads back a    *)
(* counter that it has reset before.  Any of these steps may fail.         *)
(*                                                                         *)
(* A host is a record: device (module BulkKernels); queue, the jobs of the *)
(* stream that have not run; outs, the outputs of the kernels that the     *)
(* last call, or the device on its own, has let run; reply, how the last   *)
(* call ended.  A call is the sequence of its steps.                       *)
(***************************************************************************)
EXTENDS Integers, Sequences, SequencesExt

CONSTANTS IsPair, EmptyKey, EmptyVal, N, Path

K == INSTANCE BulkKernels

Kernels == {"InsertIf", "InsertIfAsync", "InsertOrAssign", "InsertOrAssignAsync",
            "AssignIfAsync", "InsertAndFindAsync", "Erase", "EraseAsync", "FindIf",
            "ContainsIf", "ForEach", "Count", "Clear"}

\* A table that the constructor has cleared; nothing is erased with a tombstone
\* before one is configured.
NewDevice ==
    [tab |-> [i \in 1..N |-> K!EmptySlot], erased |-> K!EmptySlot,
     counter |-> 0, failed |-> 0, assigned |-> 0]
Returned(value, assigned) == [kind |-> "returned", value |-> value, assigned |-> assigned]
NewHost == [device |-> NewDevice, queue |-> <<>>, outs |-> <<>>, reply |-> Returned(0, 0)]

--------------------------------------------------------------------------------
(* The stream. *)

Execute(d, job) ==
    CASE job.kernel = "memset"              -> [device |-> [d EXCEPT !.counter = 0], out |-> <<>>]
      [] job.kernel = "InsertIf"            -> K!InsertIf(d, job.batch)
      [] job.kernel = "InsertIfAsync"       -> K!InsertIfAsync(d, job.batch)
      [] job.kernel = "InsertOrAssign"      -> K!InsertOrAssign(d, job.batch)
      [] job.kernel = "InsertOrAssignAsync" -> K!InsertOrAssignAsync(d, job.batch)
      [] job.kernel = "AssignIfAsync"       -> K!AssignIfAsync(d, job.batch)
      [] job.kernel = "InsertAndFindAsync"  -> K!InsertAndFindAsync(d, job.batch)
      [] job.kernel = "Erase"               -> K!Erase(d, job.batch)
      [] job.kernel = "EraseAsync"          -> K!EraseAsync(d, job.batch)
      [] job.kernel = "FindIf"              -> K!FindIf(d, job.batch)
      [] job.kernel = "ContainsIf"          -> K!ContainsIf(d, job.batch)
      [] job.kernel = "ForEach"             -> K!ForEach(d, job.batch)
      [] job.kernel = "Count"               -> K!Count(d, job.batch)
      [] job.kernel = "Clear"               -> K!Clear(d, job.batch)

\* The device runs the oldest job, or all of them.
Ran(h, job, run) ==
    [h EXCEPT !.device = run.device, !.queue = Tail(@),
              !.outs = IF job.kernel \in Kernels THEN Append(@, run.out) ELSE @]
Advance(h, job) == Ran(h, job, Execute(h.device, job))
Drain(h) == FoldLeft(Advance, h, h.queue)

--------------------------------------------------------------------------------
(* The steps a call consists of. *)

Launch(kernel, batch) == [does |-> "launch", kernel |-> kernel, batch |-> batch]
InitializeZeroAsync == [does |-> "InitializeZeroAsync"]
LoadToHost == [does |-> "LoadToHost"]
InitializeCounter == [does |-> "InitializeCounter"]
LoadCounter == [does |-> "LoadCounter"]
SetErasedValue(slot) == [does |-> "SetErasedValue", slot |-> slot]
SynchronizeOrThrow == [does |-> "SynchronizeOrThrow"]
Synchronize == [does |-> "Synchronize"]
Answer(value) == [does |-> "answer", value |-> value]

Throw(h) == [h EXCEPT !.reply = [kind |-> "threw", value |-> 0, assigned |-> 0]]
Return(h, value, assigned) == [h EXCEPT !.reply = Returned(value, assigned)]
CheckRetOrThrow(ok, done, h) == IF ok THEN done ELSE Throw(h)
Enqueue(h, kernel, batch) == [h EXCEPT !.queue = Append(@, [kernel |-> kernel, batch |-> batch])]

\* (Variant with a bug: the counter is reset by a copy that does not wait its turn.)
ZeroedAtOnce(h, ok) == CheckRetOrThrow(ok, [h EXCEPT !.device.counter = 0], h)
Zeroed(h, ok) == CheckRetOrThrow(ok, Enqueue(h, "memset", <<>>), h)

\* One step, which succeeds or not.  A failed wait leaves the jobs queued; a
\* blocking copy goes past whatever is queued, and that it fails is only logged.
Do(h, step, ok) ==
    CASE step.does = "launch"              -> Enqueue(h, step.kernel, step.batch)
      [] step.does = "InitializeZeroAsync" -> Zeroed(h, ok)
      [] step.does = "LoadToHost"          ->
            CheckRetOrThrow(ok, Return(h, h.device.counter, 0), h)
      [] step.does = "InitializeCounter"   ->
            IF ok THEN [h EXCEPT !.device.failed = 0, !.device.assigned = 0] ELSE h
      [] step.does = "LoadCounter"         ->
            CheckRetOrThrow(ok, Return(h, h.device.failed, h.device.assigned), h)
      [] step.does = "SetErasedValue"      ->
            IF ok THEN [h EXCEPT !.device.erased = step.slot] ELSE h
      [] step.does = "SynchronizeOrThrow"  -> IF ok THEN Drain(h) ELSE Throw(h)
      [] step.does = "Synchronize"         -> IF ok THEN Drain(h) ELSE h
      [] step.does = "answer"              -> Return(h, step.value, 0)

\* The steps that can fail; a kernel launch reports nothing.
MayFail(steps) == {i \in DOMAIN steps : steps[i].does \notin {"launch", "answer"}}

\* The call in which step number failing does; after a step that throws, the
\* others do not happen.
Perform(h, steps, failing) ==
    LET next(x, i) == IF x.reply.kind = "threw" THEN x ELSE Do(x, steps[i], i # failing)
    IN  FoldLeft(next, h, [i \in DOMAIN steps |-> i])

--------------------------------------------------------------------------------
(* The calls.  b.elems is what the arrays hold, b.null tells that one of *)
(* them is a null pointer.                                                 *)

NothingToDo(b) == b.elems = <<>> \/ b.null

\* Reset, launch, wait, read back.
Counted(kernel, b) ==
    <<InitializeZeroAsync, Launch(kernel, b.elems), SynchronizeOrThrow, LoadToHost>>

\* A call that does not wait.
Queued(kernel, b) == IF NothingToDo(b) THEN <<>> ELSE <<Launch(kernel, b.elems)>>

InsertIf(b) ==
    IF NothingToDo(b) THEN <<Answer(Len(b.elems))>> ELSE Counted("InsertIf", b)
InsertIfAsync(b) == Queued("InsertIfAsync", b)

\* AlwaysTrue in place of the stencil.
Unconditional(b) == [b EXCEPT !.elems = [i \in DOMAIN @ |-> [@[i] EXCEPT !.pass = TRUE]]]
Insert(b) == InsertIf(Unconditional(b))
InsertAsync(b) == InsertIfAsync(Unconditional(b))

InsertOrAssign(b) ==
    IF NothingToDo(b) THEN <<Answer(Len(b.elems))>>
    ELSE <<InitializeCounter, Launch("InsertOrAssign", b.elems), SynchronizeOrThrow, LoadCounter>>
InsertOrAssignAsync(b) == Queued("InsertOrAssignAsync", b)
AssignIfAsync(b) == Queued("AssignIfAsync", b)
InsertAndFindAsync(b) == Queued("InsertAndFindAsync", b)

Erase(b) ==
    IF NothingToDo(b) THEN <<Answer(Len(b.elems))>> ELSE Counted("Erase", b)
EraseAsync(b) == Queued("EraseAsync", b)

FindIfAsync(b) == Queued("FindIf", b)
FindAsync(b) == FindIfAsync(Unconditional(b))
ContainsIfAsync(b) == Queued("ContainsIf", b)
ContainsAsync(b) == ContainsIfAsync(Unconditional(b))
ForEachAsync(b) == Queued("ForEach", b)
Count(b) == IF NothingToDo(b) THEN <<Answer(0)>> ELSE Counted("Count", b)

\* Initialize and InitializeAsync of the storage, or ClearSimd; the result of
\* the wait goes nowhere.
ClearAsync == <<Launch("Clear", <<>>)>>
Clear == ClearAsync \o <<Synchronize>>
================================================================================
