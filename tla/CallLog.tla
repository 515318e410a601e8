-------------------------------- MODULE CallLog --------------------------------
(***************************************************************************)
(* A program that calls a StaticMap or a StaticSet on one stream, what it  *)
(* is told, and what it should be told: as if every call had been performed *)
(* when it was made, however far the device is behind and whichever waits  *)
(* and copies have failed since.                                           *)
(***************************************************************************)
EXTENDS Integers, Sequences
LOCAL INSTANCE SequencesExt

CONSTANTS
    IsPair, EmptyKey, EmptyVal, N, Path,
    ErasedKey,      \* the tombstone that SetErasedKey configures
    Batches,        \* what callers pass: [elems : Seq(Element), null : BOOLEAN]
    MaxQueue,       \* bound: kernels of the stream that have not run
    MaxStale        \* bound: what failed resets may leave in the counter

VARIABLES
    host,           \* module HostCalls
    content,        \* the map as of the last call made
    used,           \* slots with a key or a tombstone, as of the last call made
    expected,       \* what the kernels still queued should output
    inOrder,        \* whether the kernels that ran last output what they should
    ownCount        \* whether the last call returned its own counts

logVars == <<host, content, used, expected, inOrder, ownCount>>

Host == INSTANCE HostCalls

Nothing == IF IsPair THEN EmptyVal ELSE EmptyKey
PayloadOf(e) == IF IsPair THEN e.val ELSE e.key

--------------------------------------------------------------------------------
(* What a call promises, one element after the other: p is the map with    *)
(* the slots in use, the outputs and the counts so far.                    *)

Stored(p, e) == e.key \in DOMAIN p.content
Put(p, e) == [p EXCEPT !.content = [k \in DOMAIN @ \cup {e.key} |->
                                       IF k = e.key THEN PayloadOf(e) ELSE @[k]]]
Add(p, e) == [Put(p, e) EXCEPT !.used = @ + 1]
Miss(p) == [p EXCEPT !.count = @ + 1]
Tell(p, x) == [p EXCEPT !.out = Append(@, x)]

Inserted(p, e) ==
    IF ~e.pass THEN p
    ELSE IF Stored(p, e) \/ p.used = N THEN Miss(p) ELSE Add(p, e)
Upserted(p, e) ==
    IF Stored(p, e) THEN [Put(p, e) EXCEPT !.assigned = @ + 1]
    ELSE IF p.used = N THEN Miss(p) ELSE Add(p, e)
Assigned(p, e) == IF e.pass /\ Stored(p, e) THEN Put(p, e) ELSE p
InsertedAndFound(p, e) ==
    IF Stored(p, e) THEN Tell(p, [val |-> p.content[e.key], flag |-> FALSE])
    ELSE IF p.used = N THEN Tell(p, [val |-> Nothing, flag |-> FALSE])
    ELSE Tell(Add(p, e), [val |-> PayloadOf(e), flag |-> TRUE])
Erased(p, e) ==
    IF Stored(p, e) THEN [p EXCEPT !.content = [k \in DOMAIN @ \ {e.key} |-> @[k]]] ELSE Miss(p)
Found(p, e) == Tell(p, IF e.pass /\ Stored(p, e) THEN p.content[e.key] ELSE Nothing)
Contained(p, e) == Tell(p, e.pass /\ Stored(p, e))
Visited(p, e) ==
    Tell(p, IF Stored(p, e) THEN <<[key |-> e.key, val |-> p.content[e.key]]>> ELSE <<>>)
Counted(p, e) == IF Stored(p, e) THEN Miss(p) ELSE p

Promise(Step(_, _), elems) ==
    FoldLeft(Step, [content |-> content, used |-> used, out |-> <<>>, count |-> 0, assigned |-> 0],
             elems)
PromiseOfClear == [content |-> <<>>, used |-> 0, out |-> <<>>, count |-> 0, assigned |-> 0]

--------------------------------------------------------------------------------
NoCounts == [count |-> 0, assigned |-> 0]

LogInit ==
    /\ host = Host!NewHost
    /\ content = <<>> /\ used = 0
    /\ expected = <<>>
    /\ inOrder = TRUE /\ ownCount = TRUE

KernelsIn(queue) == SelectSeq(queue, LAMBDA job : job.kernel \in Host!Kernels)

\* The host has come to h, and its kernels have been told to output all: the
\* outputs and the reply are looked at once and not kept.
Heard(h, all) ==
    /\ host' = [h EXCEPT !.outs = <<>>, !.reply = Host!Returned(0, 0)]
    /\ inOrder' = (h.outs = SubSeq(all, 1, Len(h.outs)))
    /\ expected' = SubSeq(all, Len(h.outs) + 1, Len(all))

\* The forms of a call: without an answer, with a count of what had no effect,
\* with a count of what was there, with two counts.
CountsOf(p) == [count |-> p.count, assigned |-> p.assigned]
RefusedOf(p, b) ==
    IF Host!NothingToDo(b) THEN [count |-> Len(b.elems), assigned |-> 0] ELSE CountsOf(p)
Silent(steps, p) == [steps |-> steps, says |-> p, counts |-> NoCounts, twice |-> FALSE]
Counting(steps, p, b) ==
    [steps |-> steps, says |-> p, counts |-> RefusedOf(p, b), twice |-> FALSE]
CountingPresent(steps, p, b) ==
    [steps |-> steps, says |-> p, twice |-> FALSE,
     counts |-> IF Host!NothingToDo(b) THEN NoCounts ELSE CountsOf(p)]
CountingTwice(steps, p, b) ==
    [steps |-> steps, says |-> p, counts |-> RefusedOf(p, b), twice |-> ~Host!NothingToDo(b)]

\* The call is made and at most one of its steps fails: if it gets as far as to
\* launch its kernel, what it says holds from now on.  The two counters of
\* InsertOrAssign are not reset in the order of the stream: a reset that fails,
\* or a kernel that a failed wait has left behind, may still leave their counts
\* in this call's.
CalledFailing(call, failing) ==
    \E h \in {Host!Perform(host, call.steps, failing)} :
        /\ Len(KernelsIn(h.queue)) <= MaxQueue
        /\ h.device.failed + h.device.assigned <= MaxStale
        /\ IF Len(KernelsIn(h.queue)) + Len(h.outs) > Len(expected)
           THEN /\ Heard(h, Append(expected, call.says.out))
                /\ content' = call.says.content
                /\ used' = call.says.used
           ELSE /\ Heard(h, expected)
                /\ UNCHANGED <<content, used>>
        /\ ownCount' =
              \/ h.reply = Host!Returned(call.counts.count, call.counts.assigned)
              \/ h.reply.kind = "threw"
              \/ /\ call.twice
                 /\ \/ failing = 1
                    \/ \E i \in DOMAIN host.queue : host.queue[i].kernel = "InsertOrAssign"

Called(call) == \E failing \in {0} \cup Host!MayFail(call.steps) : CalledFailing(call, failing)
Made(calls) ==
    \E made \in {calls} : \E i \in DOMAIN made : \E call \in {made[i]} : Called(call)

\* The device goes on by itself.
DeviceStep ==
    /\ host.queue # <<>>
    /\ \E h \in {Host!Advance(host, Head(host.queue))} : Heard(h, expected)
    /\ ownCount' = TRUE
    /\ UNCHANGED <<content, used>>

LogTypeOK ==
    /\ host.device.erased.key \in {EmptyKey, ErasedKey}
    /\ Len(KernelsIn(host.queue)) = Len(expected)
    /\ used \in 0..N
    /\ {inOrder, ownCount} \subseteq BOOLEAN

--------------------------------------------------------------------------------
\* Outputs are those of the map as it was when the call was made: whatever was
\* queued before, abandoned by a failed wait or not, has happened by then, and
\* nothing that was queued later has.
AnswersComeInOrder == inOrder

\* The counters belong to the table and outlive a call that throws: what a
\* later call returns is its own count all the same.
CountsAreOwn == ownCount
================================================================================
