---------------------------- MODULE RoaringImages ----------------------------
(***************************************************************************)
(* The images for RoaringBitmap's instance, written by the specification   *)
(* of the format: bytes of two bits, so that a container has 16 keys, a    *)
(* bitset 8 bytes and an array at most 4 elements.                         *)
(***************************************************************************)
EXTENDS RoaringFormat

CONSTANTS r1, r2, s1, s2

\* Little-endian numbers.
Put16(v) == <<v % ByteSize, v \div ByteSize>>
Put32(v) == Put16(v % HalfSize) \o Put16(v \div HalfSize)

Ascending(S) ==
    IF S = {} THEN << >> ELSE SelectSeq([i \in 1 .. Max(S) + 1 |-> i - 1], LAMBDA e : e \in S)

\* A container as the program that wrote the image has it: the high half of its
\* keys, the low halves, and whether it is one of runs.
Container(upper, lower, isRun) == [upper |-> upper, lower |-> lower, isRun |-> isRun]

Content(c) ==
    LET starts == Ascending({e \in c.lower : e - 1 \notin c.lower})
        length(e) == Max({f \in c.lower : e .. f \subseteq c.lower}) - e
        bit(n) == IF n \in c.lower THEN 1 ELSE 0
    IN  CASE c.isRun ->
               Put16(Len(starts))
               \o FlattenSeq([i \in DOMAIN starts |->
                                Put16(starts[i]) \o Put16(length(starts[i]))])
          [] ~c.isRun /\ Cardinality(c.lower) <= MaxArrayCardinality ->
               FlattenSeq([i \in 1 .. Cardinality(c.lower) |-> Put16(Ascending(c.lower)[i])])
          [] OTHER ->
               [i \in 1 .. BitsetContainerBytes |-> bit((2 * i) - 2) + (2 * bit((2 * i) - 1))]

\* The portable serialisation of a sequence of containers.
Serialized(cs) ==
    LET n == Len(cs)
        hasRun == \E i \in 1 .. n : cs[i].isRun
        flag(i) == IF i \in 1 .. n /\ cs[i].isRun THEN 1 ELSE 0
        header == IF hasRun
                  THEN Put16(SerialCookie) \o Put16(n - 1)
                       \o [j \in 1 .. (n + 1) \div 2 |-> flag((2 * j) - 1) + (2 * flag(2 * j))]
                  ELSE Put32(SerialCookieNoRun) \o Put32(n)
        keyCards == FlattenSeq([i \in 1 .. n |->
                        Put16(cs[i].upper) \o Put16(Cardinality(cs[i].lower) - 1)])
        serialized == ~hasRun \/ n >= NoOffsetThreshold
        first == Len(header) + Len(keyCards) + (IF serialized THEN 4 * n ELSE 0)
        offset(i) == first + FoldLeft(LAMBDA sum, c : sum + Len(Content(c)), 0, SubSeq(cs, 1, i - 1))
    IN  header \o keyCards
        \o (IF serialized THEN FlattenSeq([i \in 1 .. n |-> Put32(offset(i))]) ELSE << >>)
        \o FlattenSeq([i \in 1 .. n |-> Content(cs[i])])

Members(cs) ==
    UNION {{(cs[i].upper * HalfSize) + e : e \in cs[i].lower} : i \in DOMAIN cs}

\* Every key with the high half of a container or with that of none.
Asked(cs) ==
    Ascending({(u * HalfSize) + e : u \in {cs[i].upper : i \in DOMAIN cs} \cup {7},
                                    e \in 0 .. HalfSize - 1})

Image(cs) == [wide |-> FALSE, kind |-> "intact", bytes |-> Serialized(cs),
              members |-> Members(cs), keys |-> Asked(cs), objects |-> {r1}, streams |-> {s1}]

Array(u, S) == Container(u, S, FALSE)
Runs(u, S) == Container(u, S, TRUE)

Narrow ==
    {<< >>,
     <<Array(0, {0, 15})>>,
     <<Array(15, {1, 4, 7, 15})>>,
     <<Array(3, 0 .. 4), Array(8, 0 .. 15)>>,
     <<Runs(2, {0, 1, 2, 5, 9, 14, 15})>>,
     <<Array(1, {3, 6, 12}), Runs(5, 3 .. 12), Array(6, {0, 1})>>,
     <<Runs(0, {0, 15}), Array(6, {8}), Array(8, 2 .. 7), Runs(14, 0 .. 15)>>,
     <<Array(0, {15}), Array(2, {0, 1}), Array(4, 9 .. 15), Array(9, {0, 4, 5}),
       Array(12, {11, 12})>>}

\* Portable 64-bit bitmaps: pairs of a high half and a 32-bit bitmap.
Bucket(high, cs) == [high |-> high, cs |-> cs]

WideImage(bs) ==
    LET shift(S, high) == {(high * WordSize) + v : v \in S}
        highs == {bs[i].high : i \in DOMAIN bs} \cup {5}
    IN  [wide |-> TRUE, kind |-> "intact",
         bytes |-> Put32(Len(bs) % WordSize) \o Put32(0)
                   \o FlattenSeq([i \in DOMAIN bs |->
                                    Put32(bs[i].high) \o Serialized(bs[i].cs)]),
         members |-> UNION {shift(Members(bs[i].cs), bs[i].high) : i \in DOMAIN bs},
         keys |-> Ascending({(h * WordSize) + (u * HalfSize) + e :
                                h \in highs, u \in {0, 3, 7}, e \in 0 .. HalfSize - 1}),
         objects |-> {r1}, streams |-> {s1}]

Wide ==
    {<< >>,
     <<Bucket(0, <<Array(0, {2, 5})>>), Bucket(3, <<Runs(3, 4 .. 11)>>),
       Bucket(255, <<Array(0, {1}), Array(3, 0 .. 9), Array(7, {0, 15})>>)>>,
     <<Bucket(4, << >>), Bucket(5, <<Array(7, {3})>>)>>}

Whole == {Image(cs) : cs \in Narrow} \cup {WideImage(bs) : bs \in Wide}

CutOff ==
    UNION {{[i EXCEPT !.kind = "prefix", !.bytes = SubSeq(@, 1, n)] :
              n \in 0 .. Len(i.bytes) - 1} : i \in Whole}

\* One bit is not what it was.
Flipped(byte, bit) == IF (byte \div 2 ^ bit) % 2 = 1 THEN byte - 2 ^ bit ELSE byte + 2 ^ bit
Damages ==
    UNION {{[i EXCEPT !.kind = "damaged", !.bytes = [@ EXCEPT ![n] = Flipped(@, bit)]] :
              n \in DOMAIN i.bytes, bit \in 0 .. ByteBits - 1} :
           i \in {Image(<<Array(1, {3, 6, 12}), Runs(5, 3 .. 12)>>),
                  Image(<<Array(2, 3 .. 7), Array(15, {1, 7})>>)}}

\* The two that programs with several objects work with.
Shared ==
    {[i EXCEPT !.objects = {r1, r2}, !.streams = {s1, s2}] :
        i \in {Image(<<Runs(2, {0, 1, 5})>>), WideImage(<<Bucket(3, <<Array(0, {2, 5})>>)>>)}}

ImagesChecked == Whole \cup Shared \cup CutOff \cup Damages
==============================================================================
