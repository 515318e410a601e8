---------------------------- MODULE RoaringFormat ----------------------------
(***************************************************************************)
(* The serialised Roaring bitmap as RoaringBitmap reads it: the parser of  *)
(* the host (detail/roaring_bitmap/format.h) and the search of a device    *)
(* thread (roaring_bitmap_ref.h).  An image is a sequence of bytes; a byte *)
(* has ByteBits bits, and every width of the format follows: a 16-bit      *)
(* value is two bytes, a container covers as many keys as there are 16-bit *)
(* values, a bitset container has a bit for each, an array container is at *)
(* most half as long.  With ByteBits = 8 these are the numbers of the      *)
(* code.                                                                   *)
(*                                                                         *)
(* `mem` is memory that begins with an image: [bytes, beyond, base], where *)
(* every byte that is not of the image reads as `beyond`, and the image    *)
(* begins at an address that is congruent to `base`.  `size` is the number *)
(* of bytes the caller vouches for, or Unbounded.                          *)
(***************************************************************************)
EXTENDS Naturals, Integers, Sequences, FiniteSets, FiniteSetsExt, SequencesExt

CONSTANTS
    ByteBits,               \* 8
    SerialCookieNoRun,      \* 12346
    SerialCookie,           \* 12347
    NoOffsetThreshold,      \* 4
    BinarySearchThreshold   \* 8

ByteSize == 2 ^ ByteBits
HalfSize == 2 ^ (2 * ByteBits)
WordSize == 2 ^ (4 * ByteBits)

MaxContainers == HalfSize
BitsetContainerBytes == HalfSize \div ByteBits
MaxArrayCardinality == BitsetContainerBytes \div 2

Unbounded == -1

-----------------------------------------------------------------------------
(* Memory. *)

Byte(mem, p) == IF p \in 0 .. Len(mem.bytes) - 1 THEN mem.bytes[p + 1] ELSE mem.beyond

Read16(mem, p) == Byte(mem, p) + (ByteSize * Byte(mem, p + 1))
Read32(mem, p) == Read16(mem, p) + (HalfSize * Read16(mem, p + 2))
Read64(mem, p) == Read32(mem, p) + (WordSize * Read32(mem, p + 4))

\* The memory from p on.
From(mem, p) ==
    [mem EXCEPT !.bytes = SubSeq(@, p + 1, Len(@)), !.base = @ + p]

\* RoaringBitmapReader::Require: whether it returns.
\* (Variant with a bug: the end of the read may be one beyond the image.)
RequireOneMore(size, offset, bytes) ==
    \/ size = Unbounded
    \/ offset <= size /\ bytes <= (size - offset) + 1

Require(size, offset, bytes) ==
    \/ size = Unbounded
    \/ offset <= size /\ bytes <= size - offset

CheckBit(mem, p, index) ==
    (Byte(mem, p + (index \div ByteBits)) \div 2 ^ (index % ByteBits)) % 2 = 1

-----------------------------------------------------------------------------
(* The parser.  An image it throws on is Malformed. *)

Malformed == [valid |-> FALSE]

Keys(mem, h) == [i \in 0 .. h.numContainers - 1 |-> Read16(mem, h.keyCards + (4 * i))]

Cardinalities(mem, h) ==
    [i \in 0 .. h.numContainers - 1 |-> Read16(mem, h.keyCards + (4 * i) + 2) + 1]

\* ParseRoaringBitmap32 up to the keys and cardinalities.
HeaderOf(mem, size, cookie) ==
    LET described(hasRun, numContainers, keyCards) ==
            IF /\ numContainers <= MaxContainers
               /\ Require(size, keyCards, 4 * numContainers)
            THEN [valid |-> TRUE, hasRun |-> hasRun, numContainers |-> numContainers,
                  runContainerBitmap |-> 4, keyCards |-> keyCards]
            ELSE Malformed
        runFlagBytes(n) == (n + (ByteBits - 1)) \div ByteBits
    IN  CASE ~Require(size, 0, 4) -> Malformed
          [] Require(size, 0, 4) /\ cookie % HalfSize = SerialCookie ->
                described(TRUE, (cookie \div HalfSize) + 1,
                          4 + runFlagBytes((cookie \div HalfSize) + 1))
          [] Require(size, 4, 4) /\ cookie = SerialCookieNoRun ->
                described(FALSE, Read32(mem, 4), 8)
          [] OTHER -> Malformed

RunContainerAt(mem, h, index) ==
    h.hasRun /\ CheckBit(mem, h.runContainerBitmap, index)

\* RoaringContainerEnd; -1 where it throws.
ContainerEnd(mem, size, offset, isRun, cardinality) ==
    LET endAfter(containerBytes) ==
            IF Require(size, offset, containerBytes) THEN offset + containerBytes ELSE -1
    IN  CASE isRun ->
               IF Require(size, offset, 2) THEN endAfter(2 + (4 * Read16(mem, offset))) ELSE -1
          [] ~isRun /\ cardinality <= MaxArrayCardinality -> endAfter(2 * cardinality)
          [] OTHER -> endAfter(BitsetContainerBytes)

\* The loop over the containers: where each begins, and where the last ends,
\* or -1.  `cursor` is the end of the tables before them.
Containers(mem, size, h, cards, serialized, tables, cursor) ==
    LET placed(found, i, offset) ==
            IF found.end = -1 \/ offset < cursor \/ offset < found.end
            THEN [found EXCEPT !.end = -1]
            ELSE [offsets |-> Append(found.offsets, offset),
                  end |-> ContainerEnd(mem, size, offset, RunContainerAt(mem, h, i), cards[i])]
    IN  FoldLeft(LAMBDA found, i :
                    placed(found, i, IF serialized THEN Read32(mem, tables + (4 * i))
                                     ELSE found.end),
                 [offsets |-> << >>, end |-> cursor],
                 [i \in 1 .. h.numContainers |-> i - 1])

\* RoaringBitmapMetadata32, without the alignment that Initialize adds.
Metadata32(mem, size, h, keys, cards, serialized) ==
    LET tables == h.keyCards + (4 * h.numContainers)
        described(found) ==
            IF found.end = -1 THEN Malformed
            ELSE [valid |-> TRUE, hasRun |-> h.hasRun, numContainers |-> h.numContainers,
                  runContainerBitmap |-> h.runContainerBitmap, keyCards |-> h.keyCards,
                  offsetsInSerializedData |-> serialized,
                  containerOffsets |-> IF serialized THEN tables ELSE 0,
                  computedOffsets |-> IF serialized THEN << >> ELSE found.offsets,
                  numKeys |-> MapThenSumSet(LAMBDA i : cards[i], DOMAIN cards),
                  sizeBytes |-> found.end]
    IN  IF /\ \A i \in 1 .. h.numContainers - 1 : keys[i - 1] < keys[i]
           /\ serialized => Require(size, tables, 4 * h.numContainers)
        THEN described(Containers(mem, size, h, cards, serialized, tables,
                                  IF serialized THEN tables + (4 * h.numContainers)
                                  ELSE tables))
        ELSE Malformed

ParseRoaringBitmap32(mem, size) ==
    LET after(h) ==
            IF h.valid
            THEN Metadata32(mem, size, h, Keys(mem, h), Cardinalities(mem, h),
                            ~h.hasRun \/ h.numContainers >= NoOffsetThreshold)
            ELSE Malformed
    IN  after(HeaderOf(mem, size, Read32(mem, 0)))

\* One iteration of the loop over the high halves; metadata is that of the
\* 32-bit bitmap that follows the key.
AddBucket(size, parsed, key, metadata) ==
    IF \/ ~parsed.valid
       \/ ~Require(size, parsed.sizeBytes, 4)
       \/ parsed.buckets # << >> /\ key <= Last(parsed.buckets).key
       \/ ~metadata.valid
    THEN [parsed EXCEPT !.valid = FALSE]
    ELSE [valid |-> TRUE,
          buckets |-> Append(parsed.buckets,
                             [key |-> key, byteOffset |-> parsed.sizeBytes + 4,
                              metadata |-> metadata]),
          numKeys |-> parsed.numKeys + metadata.numKeys,
          sizeBytes |-> parsed.sizeBytes + 4 + metadata.sizeBytes]

\* ParseRoaringBitmap64.
ParseRoaringBitmap64(mem, size) ==
    LET remaining(cursor) == IF size = Unbounded THEN Unbounded ELSE size - cursor
        add(parsed, i) ==
            AddBucket(size, parsed, Read32(mem, parsed.sizeBytes),
                      ParseRoaringBitmap32(From(mem, parsed.sizeBytes + 4),
                                           remaining(parsed.sizeBytes + 4)))
        checked(parsed) == IF parsed.valid THEN parsed ELSE Malformed
        buckets(numBuckets) ==
            IF size = Unbounded \/ numBuckets <= (size - 8) \div 12
            THEN checked(FoldLeft(add,
                            [valid |-> TRUE, buckets |-> << >>, numKeys |-> 0, sizeBytes |-> 8],
                            [i \in 1 .. numBuckets |-> i]))
            ELSE Malformed
    IN  IF Require(size, 0, 8) THEN buckets(Read64(mem, 0)) ELSE Malformed

\* ParseRoaringBitmap<Key>; `wide` for 64-bit keys.
ParseRoaringBitmap(wide, mem, size) ==
    IF wide THEN ParseRoaringBitmap64(mem, size) ELSE ParseRoaringBitmap32(mem, size)

-----------------------------------------------------------------------------
(* The search of a thread.  A load that the kernel takes for aligned, and  *)
(* that is not, comes from the aligned address below. *)

Load16(aligned, mem, p) ==
    Read16(mem, IF aligned THEN p - ((mem.base + p) % 2) ELSE p)

Load32(aligned, mem, p) ==
    Read32(mem, IF aligned THEN p - ((mem.base + p) % 4) ELSE p)

\* The index of key among the ascending keys[0 .. n - 1], or -1.
BinarySearch(keys, n, key) ==
    LET search[left \in 0 .. n, right \in 0 .. n] ==
            LET split(mid) ==
                    CASE keys[mid] = key -> mid
                      [] keys[mid] < key -> search[mid + 1, right]
                      [] OTHER -> search[left, mid]
            IN  IF left < right THEN split(left + ((right - left) \div 2)) ELSE -1
    IN  search[0, n]

ContainsArray(aligned, mem, container, lower, cardinality) ==
    LET element == [i \in 0 .. cardinality - 1 |-> Load16(aligned, mem, container + (2 * i))]
    IN  IF cardinality < BinarySearchThreshold
        THEN \E i \in DOMAIN element : element[i] = lower
        ELSE BinarySearch(element, cardinality, lower) # -1

\* The loop ends at the first run that has the value or begins after it.
ContainsRun(aligned, mem, container, lower) ==
    LET start(i) == Load16(aligned, mem, container + (4 * i) + 2)
        end(i) == start(i) + Load16(aligned, mem, container + (4 * i) + 4)
        ends == {i \in 0 .. Load16(aligned, mem, container) - 1 :
                    start(i) > lower \/ lower <= end(i)}
    IN  ends # {} /\ start(Min(ends)) <= lower

ContainsContainer(aligned16, aligned32, mem, metadata, lower, index) ==
    LET inside(container, isRun, cardinality) ==
            CASE isRun -> ContainsRun(aligned16, mem, container, lower)
              [] ~isRun /\ cardinality <= MaxArrayCardinality ->
                    ContainsArray(aligned16, mem, container, lower, cardinality)
              [] OTHER -> CheckBit(mem, container, lower)
    IN  inside(IF metadata.offsetsInSerializedData
               THEN Load32(aligned32, mem, metadata.containerOffsets + (4 * index))
               ELSE metadata.computedOffsets[index + 1],
               RunContainerAt(mem, metadata, index),
               Load16(aligned16, mem, metadata.keyCards + (4 * index) + 2) + 1)

\* The linear search ends at the first key that is not smaller.
ContainerOf(key, n, upper) ==
    LET ends == {i \in 0 .. n - 1 : key[i] >= upper}
    IN  CASE n >= BinarySearchThreshold -> BinarySearch(key, n, upper)
          [] n < BinarySearchThreshold /\ ends # {} ->
                IF key[Min(ends)] = upper THEN Min(ends) ELSE -1
          [] OTHER -> -1

Contains32(aligned16, aligned32, mem, metadata, value) ==
    LET inside(index) ==
            /\ index # -1
            /\ ContainsContainer(aligned16, aligned32, mem, metadata, value % HalfSize, index)
    IN  /\ metadata.numKeys # 0
        /\ inside(ContainerOf([i \in 0 .. metadata.numContainers - 1 |->
                                  Load16(aligned16, mem, metadata.keyCards + (4 * i))],
                              metadata.numContainers, value \div HalfSize))

\* RoaringBitmapRef<uint64_t>::Contains.
Contains64(mem, buckets, value) ==
    LET inside(index) ==
            /\ index # -1
            /\ Contains32(FALSE, FALSE, From(mem, buckets[index + 1].byteOffset),
                          buckets[index + 1].metadata, value % WordSize)
    IN  inside(BinarySearch([i \in 0 .. Len(buckets) - 1 |-> buckets[i + 1].key],
                            Len(buckets), value \div WordSize))
==============================================================================
