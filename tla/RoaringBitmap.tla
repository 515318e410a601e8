---------------------------- MODULE RoaringBitmap ----------------------------
(***************************************************************************)
(* RoaringBitmap (roaring_bitmap.h, detail/roaring_bitmap): objects that   *)
(* own a copy of a serialised bitmap in device memory.  A constructor      *)
(* parses the image on the host, allocates, queues the copies of the image *)
(* and of what the parser found, and waits for the stream; a query is a    *)
(* kernel on a stream.  A submission or a wait may fail at any point, and  *)
(* an allocation may be refused; the constructor then throws, when nothing *)
(* may be left behind and nothing queued may meet freed memory.  Moves     *)
(* hand the memory from object to object.                                  *)
(*                                                                         *)
(* The caller destroys or assigns to an object only when no queued work    *)
(* uses it, as the header demands.  A wait that fails has not necessarily  *)
(* waited; the second wait, in the handler, is taken to succeed.           *)
(***************************************************************************)
EXTENDS RoaringFormat

CONSTANTS
    Images,     \* what is serialised, see ImagesOK
    Object,     \* the objects of the program
    Stream,
    Threads,    \* of a query's kernel
    Bases,      \* addresses an allocation may have, modulo 4
    Foreign,    \* bytes that may lie behind an image
    MetadataBytes, BucketBytes, Alignment,  \* of the descriptors
    MaxQueries, \* bound: queries in a behaviour
    MaxFailures \* bound: failed calls of the runtime in a behaviour

VARIABLES
    image,      \* the image the program works with
    object,     \* [Object -> handle, or Absent]
    memory,     \* [Address -> allocated memory, or Free]
    queue,      \* [Stream -> work submitted and not done]
    call,       \* the constructor in progress, or Idle
    found,      \* [thread -> [done, positive]]: what it has answered
    queries, failures

vars == <<image, object, memory, queue, call, found, queries, failures>>

Thread == 0 .. Threads - 1
Address == 1 .. Cardinality(Object)
Null == 0

Absent == [exists |-> FALSE]
Idle == [pc |-> "idle"]
Free == [allocated |-> FALSE]
Silent == [t \in Thread |-> [done |-> FALSE, positive |-> {}]]

\* A handle that owns nothing: default members, and what Reset leaves.
Empty == [exists |-> TRUE, allocation |-> Null, metadataOffset |-> 0, bucketsOffset |-> 0,
          serializedBytes |-> 0, numKeys |-> 0, loadAlignment |-> {}]

\* An image: its bytes; whether it has 64-bit keys; "intact" with its members,
\* "prefix" for the beginning of one, or "damaged"; the keys that are asked; the
\* objects and streams of a program that works with it.
ImagesOK ==
    \A i \in Images :
        /\ i.kind \in {"intact", "prefix", "damaged"}
        /\ i.members \subseteq Nat
        /\ \A n \in DOMAIN i.bytes : i.bytes[n] \in 0 .. ByteSize - 1
        /\ \A n \in DOMAIN i.keys : i.keys[n] \in Nat
        /\ i.objects \subseteq Object /\ i.streams \subseteq Stream

OnHost(beyond) == [bytes |-> image.bytes, beyond |-> beyond, base |-> 0]

-----------------------------------------------------------------------------
(* Device memory: the pieces that have been copied into an allocation.     *)

\* `parsed` is what the parser found in the image; it is the content of the
\* pieces "metadata" and "buckets".
Piece(from, size, name, parsed) ==
    [from |-> from, size |-> size, name |-> name, parsed |-> parsed]

\* aclrtMemcpyAsync: what it overwrites is gone.
Write(m, piece) ==
    [m EXCEPT !.pieces =
        {p \in @ : p.from + p.size <= piece.from \/ piece.from + piece.size <= p.from}
            \cup {piece}]

AlignUp(value, alignment) ==
    IF value % alignment = 0 THEN value ELSE value + (alignment - (value % alignment))

\* Initialize up to the allocation: the handle of an image that was parsed.
Layout(parsed) ==
    LET metadataOffset == AlignUp(parsed.sizeBytes, Alignment)
    IN  [exists |-> TRUE, allocation |-> Null,
         metadataOffset |-> metadataOffset,
         bucketsOffset |-> AlignUp(metadataOffset + MetadataBytes, Alignment),
         serializedBytes |-> parsed.sizeBytes,
         numKeys |-> parsed.numKeys,
         loadAlignment |-> {}]

\* The flags that choose the kernel; only for 32-bit keys.
\* (Variant with a bug: looks at the address of the image alone.)
AlignmentFlagsOfBase(parsed, base) ==
    {width \in {16, 32} :
        /\ ~image.wide
        /\ width = 16 => base % 2 = 0
        /\ width = 32 => parsed.offsetsInSerializedData /\ base % 4 = 0}

AlignmentFlags(parsed, base) ==
    {width \in {16, 32} :
        /\ ~image.wide
        /\ width = 16 => (base + parsed.keyCards) % 2 = 0
        /\ width = 32 => /\ parsed.offsetsInSerializedData
                         /\ (base + parsed.containerOffsets) % 4 = 0}

\* The copies that the constructor submits.
Copies(handle, parsed) ==
    <<Piece(0, handle.serializedBytes, "image", parsed),
      Piece(handle.metadataOffset, MetadataBytes, "metadata", parsed)>>
    \o (IF image.wide /\ parsed.buckets # << >>
        THEN <<Piece(handle.bucketsOffset, BucketBytes * Len(parsed.buckets), "buckets",
                     parsed)>>
        ELSE << >>)

Uses(a) == \E s \in Stream : \E n \in DOMAIN queue[s] : queue[s][n].allocation = a

-----------------------------------------------------------------------------
(* Construction. *)

TypeOK ==
    /\ \A o \in Object : object[o].exists => object[o].allocation \in Address \cup {Null}
    /\ \A a \in Address : memory[a].allocated \in BOOLEAN
    /\ \A s \in Stream : \A n \in DOMAIN queue[s] : queue[s][n].allocation \in Address
    /\ call.pc \in {"idle", "parsed", "rejected", "copying", "waiting", "unwinding"}
    /\ queries \in 0 .. MaxQueries /\ failures \in 0 .. MaxFailures

Init ==
    /\ image \in Images
    /\ object = [o \in Object |-> Absent]
    /\ memory = [a \in Address |-> Free]
    /\ queue = [s \in Stream |-> << >>]
    /\ call = Idle /\ found = Silent
    /\ queries = 0 /\ failures = 0

\* A constructor, up to the end of the parser.  The form without a size is for
\* images that are complete.
Parse(o, s) ==
    /\ call = Idle /\ ~object[o].exists
    /\ \E size \in {Len(image.bytes), Unbounded}, beyond \in Foreign :
        /\ size = Unbounded => image.kind = "intact"
        /\ LET parsed == ParseRoaringBitmap(image.wide, OnHost(beyond), size)
           IN  call' = [pc |-> IF parsed.valid THEN "parsed" ELSE "rejected",
                        object |-> o, stream |-> s, size |-> size, parsed |-> parsed]
    /\ UNCHANGED <<image, object, memory, queue, found, queries, failures>>

\* The exception has left the constructor.
Catch ==
    /\ call.pc = "rejected"
    /\ call' = Idle
    /\ UNCHANGED <<image, object, memory, queue, found, queries, failures>>

Allocate ==
    /\ call.pc = "parsed"
    /\ \E a \in Address, base \in Bases :
        /\ ~memory[a].allocated
        /\ \A lower \in 1 .. a - 1 : memory[lower].allocated
        /\ memory' = [memory EXCEPT ![a] = [allocated |-> TRUE, base |-> base, pieces |-> {}]]
        /\ LET handle == [Layout(call.parsed) EXCEPT
                            !.allocation = a,
                            !.loadAlignment = AlignmentFlags(call.parsed, base)]
           IN  call' = [pc |-> "copying", object |-> call.object, stream |-> call.stream,
                        handle |-> handle, parsed |-> call.parsed,
                        copies |-> Copies(handle, call.parsed)]
    /\ UNCHANGED <<image, object, queue, found, queries, failures>>

\* The allocator returns null, and the constructor throws std::bad_alloc.
AllocationFails ==
    /\ call.pc = "parsed" /\ failures < MaxFailures
    /\ call' = Idle /\ failures' = failures + 1
    /\ UNCHANGED <<image, object, memory, queue, found, queries>>

SubmitCopy ==
    /\ call.pc = "copying"
    /\ queue' = [queue EXCEPT ![call.stream] =
                    Append(@, [kind |-> "copy", allocation |-> call.handle.allocation,
                               piece |-> Head(call.copies)])]
    /\ call' = [call EXCEPT !.copies = Tail(@),
                            !.pc = IF Len(call.copies) = 1 THEN "waiting" ELSE @]
    /\ UNCHANGED <<image, object, memory, found, queries, failures>>

\* A submission or the wait fails, and the handler is entered.
RuntimeFails ==
    /\ call.pc \in {"copying", "waiting"} /\ failures < MaxFailures
    /\ call' = [call EXCEPT !.pc = "unwinding"]
    /\ failures' = failures + 1
    /\ UNCHANGED <<image, object, memory, queue, found, queries>>

\* The wait returns, and with it the constructor.
Constructed ==
    /\ call.pc = "waiting" /\ queue[call.stream] = << >>
    /\ object' = [object EXCEPT ![call.object] = call.handle]
    /\ call' = Idle
    /\ UNCHANGED <<image, memory, queue, found, queries, failures>>

\* The handler: waits for what was submitted, then Reset, then throws again.
\* (Variant with a bug: it does not wait.)
UnwindAtOnce ==
    /\ call.pc = "unwinding"
    /\ memory' = [memory EXCEPT ![call.handle.allocation] = Free]
    /\ call' = Idle
    /\ UNCHANGED <<image, object, queue, found, queries, failures>>

Unwind ==
    /\ call.pc = "unwinding" /\ queue[call.stream] = << >>
    /\ memory' = [memory EXCEPT ![call.handle.allocation] = Free]
    /\ call' = Idle
    /\ UNCHANGED <<image, object, queue, found, queries, failures>>

-----------------------------------------------------------------------------
(* Moves and the end of an object. *)

\* Whether the caller may let go of what the object owns.
Quiet(o) == object[o].exists /\ ~Uses(object[o].allocation)

Released(o) ==
    IF object[o].allocation = Null THEN memory
    ELSE [memory EXCEPT ![object[o].allocation] = Free]

\* MoveFrom: the other object owns nothing any more.
MoveFrom(o, other) == object' = [object EXCEPT ![o] = object[other], ![other] = Empty]

\* RoaringBitmap(RoaringBitmap&&).
MoveConstruct(o, other) ==
    /\ call = Idle /\ ~object[o].exists /\ object[other].exists
    /\ MoveFrom(o, other)
    /\ UNCHANGED <<image, memory, queue, call, found, queries, failures>>

\* operator=(RoaringBitmap&&), of an object to another or to itself.
MoveAssign(o, other) ==
    /\ call = Idle /\ object[other].exists
    /\ Quiet(o)
    /\ IF o = other THEN UNCHANGED <<memory, object>>
       ELSE memory' = Released(o) /\ MoveFrom(o, other)
    /\ UNCHANGED <<image, queue, call, found, queries, failures>>

Destroy(o) ==
    /\ call = Idle /\ Quiet(o)
    /\ memory' = Released(o)
    /\ object' = [object EXCEPT ![o] = Absent]
    /\ UNCHANGED <<image, queue, call, found, queries, failures>>

-----------------------------------------------------------------------------
(* Queries. *)

\* Bound: one kernel at a time.
Launch(s, handle) ==
    /\ queries < MaxQueries
    /\ \A r \in Stream : \A n \in DOMAIN queue[r] : queue[r][n].kind = "copy"
    /\ queue' = [queue EXCEPT ![s] =
                    Append(@, [kind |-> "kernel", allocation |-> handle.allocation,
                               handle |-> handle])]
    /\ queries' = queries + 1
    /\ UNCHANGED <<image, object, memory, call, found, failures>>

\* ContainsAsync; an object that owns nothing makes it throw.
ContainsAsync(o, s) ==
    /\ call = Idle
    /\ object[o].exists /\ object[o].allocation # Null
    /\ Launch(s, object[o])

\* Ref, and a kernel of the program's own that asks the view: what the view knows
\* does not tell how the image is aligned.
Ref(o) == [object[o] EXCEPT !.loadAlignment = {}]
ContainsByRef(o, s) ==
    /\ call = Idle
    /\ object[o].exists /\ object[o].allocation # Null
    /\ Launch(s, Ref(o))

\* The grid-stride loop: the queries of a thread.
Share(t) == {n \in DOMAIN image.keys : (n - 1) % Threads = t}

\* The kernels RoaringBitmapContains32... and RoaringBitmapContains64Kernel: what
\* a thread answers in memory where these bytes are behind the image.
Answer(t, m, handle, beyond) ==
    LET mem == [bytes |-> image.bytes, beyond |-> beyond, base |-> m.base]
        descriptor == CHOOSE p \in m.pieces : p.from = handle.metadataOffset
        aligned16 == 16 \in handle.loadAlignment
        aligned32 == handle.loadAlignment = {16, 32}
    IN  {n \in Share(t) :
            IF image.wide
            THEN Contains64(mem, descriptor.parsed.buckets, image.keys[n])
            ELSE Contains32(aligned16, aligned32, mem, descriptor.parsed, image.keys[n])}

\* Whether the kernel finds in the memory what the constructor puts there.
Intact(kernel) ==
    LET m == memory[kernel.allocation]
        holds(from, name) == \E p \in m.pieces : p.from = from /\ p.name = name
    IN  /\ m.allocated
        /\ holds(0, "image") /\ holds(kernel.handle.metadataOffset, "metadata")
        /\ (image.wide /\ kernel.handle.numKeys # 0) =>
             holds(kernel.handle.bucketsOffset, "buckets")

\* A thread of the kernel at the head of a stream.  In memory that holds
\* something else it may find anything, here an answer for no query (0).
ContainsSimt(s, t) ==
    /\ queue[s] # << >> /\ Head(queue[s]).kind = "kernel" /\ ~found[t].done
    /\ LET kernel == Head(queue[s])
           m == memory[kernel.allocation]
       IN  \E beyond \in Foreign :
            found' = [found EXCEPT ![t] =
                [done |-> TRUE,
                 positive |-> IF Intact(kernel) THEN Answer(t, m, kernel.handle, beyond)
                              ELSE {0}]]
    /\ UNCHANGED <<image, object, memory, queue, call, queries, failures>>

\* The work at the head of a stream is complete.
Retire(s) ==
    /\ queue[s] # << >>
    /\ \/ /\ Head(queue[s]).kind = "copy"
          /\ LET work == Head(queue[s])
             IN  memory' = IF memory[work.allocation].allocated
                           THEN [memory EXCEPT ![work.allocation] = Write(@, work.piece)]
                           ELSE memory
          /\ UNCHANGED found
       \/ /\ Head(queue[s]).kind = "kernel" /\ \A t \in Thread : found[t].done
          /\ found' = Silent
          /\ UNCHANGED memory
    /\ queue' = [queue EXCEPT ![s] = Tail(@)]
    /\ UNCHANGED <<image, object, call, queries, failures>>

Next ==
    \/ \E o \in image.objects, s \in image.streams : 
          Parse(o, s) \/ ContainsAsync(o, s) \/ ContainsByRef(o, s)
    \/ Catch \/ Allocate \/ AllocationFails \/ SubmitCopy \/ RuntimeFails
    \/ Constructed \/ Unwind
    \/ \E o, other \in image.objects : MoveConstruct(o, other) \/ MoveAssign(o, other)
    \/ \E o \in image.objects : Destroy(o)
    \/ \E s \in Stream : Retire(s) \/ \E t \in Thread : ContainsSimt(s, t)

Spec == Init /\ [][Next]_vars

-----------------------------------------------------------------------------
(* Properties. *)

\* The parser accepts a complete image and finds its length and its number of
\* keys, throws on one that is cut off anywhere, and what it does never depends
\* on bytes behind the image, also where the image is damaged.
ParserIsExact ==
    call.pc \in {"parsed", "rejected"} =>
        /\ image.kind = "intact" =>
             /\ call.pc = "parsed"
             /\ call.parsed.sizeBytes = Len(image.bytes)
             /\ call.parsed.numKeys = Cardinality(image.members)
        /\ image.kind = "prefix" => call.pc = "rejected"
        /\ \A beyond \in Foreign :
             ParseRoaringBitmap(image.wide, OnHost(beyond), call.size) = call.parsed

\* A query finds the keys that are in the bitmap and no others, whichever
\* containers hold them, whatever the kernel's way of loading, in whichever
\* object the memory is by now and on whichever stream; in a damaged image that
\* was accepted, what it finds does not depend on bytes behind the image.
LookupsAreExact ==
    \A s \in Stream, t \in Thread :
        (queue[s] # << >> /\ Head(queue[s]).kind = "kernel" /\ found[t].done) =>
            /\ image.kind = "intact" =>
                 found[t].positive = {n \in Share(t) : image.keys[n] \in image.members}
            /\ image.kind = "damaged" =>
                 \A beyond \in Foreign :
                    found[t].positive = Answer(t, memory[Head(queue[s]).allocation],
                                               Head(queue[s]).handle, beyond)

\* Memory has one owner, an object or the constructor in progress: nothing is
\* lost or given back twice by moves and exceptions.  And no copy or kernel is
\* queued whose memory has been given back, also when a constructor throws
\* between its copies.
OneOwner ==
    LET inProgress == {a \in Address : /\ call.pc \in {"copying", "waiting", "unwinding"}
                                       /\ call.handle.allocation = a}
        owners(a) == {o \in Object : object[o].exists /\ object[o].allocation = a}
    IN  /\ \A a \in Address :
            IF memory[a].allocated
            THEN Cardinality(owners(a)) + Cardinality(inProgress \cap {a}) = 1
            ELSE owners(a) = {} /\ a \notin inProgress
        /\ \A s \in Stream : \A n \in DOMAIN queue[s] : memory[queue[s][n].allocation].allocated
==============================================================================
