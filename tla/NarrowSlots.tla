------------------------------ MODULE NarrowSlots ------------------------------
(***************************************************************************)
(* Sets of two-byte keys (StaticSet of int16_t, uint16_t or a 16-bit       *)
(* float).  The device swaps words of four bytes, so two slots share a     *)
(* word and AtomicCas2Byte swaps the word around the slot it is asked for, *)
(* again and again while the neighbour changes.  OpenAddressing takes the  *)
(* whole of AttemptInsert for one step; this module shows that for a slot  *)
(* of two bytes it is one.                                                 *)
(***************************************************************************)
EXTENDS Integers, Sequences, FiniteSetsExt

CONSTANTS
    Threads,
    Words,          \* the 32-bit words that hold the table
    ByteBits,       \* the width of a byte: 8
    UsedKeys, Empty     \* the keys used, which are signed, and the empty one

VARIABLES
    words,          \* the table
    call            \* what each thread is in the middle of

vars == <<words, call>>

CellBits == 2 * ByteBits
Cells == 2^CellBits
Values == (-(Cells \div 2)) .. (Cells \div 2 - 1)
KeysOK ==
    /\ UsedKeys \subseteq Values /\ Empty \in Values \ UsedKeys
    /\ Cardinality(Words) \in Nat \ {0} /\ Words = 0 .. (Cardinality(Words) - 1)
\* A byte has values, an even number of them, and a key that many times as many
\* (the laws of powers, as far as they matter here).
WidthOK ==
    LET byte == 2^ByteBits IN
    /\ ByteBits \in Nat /\ byte \in Nat \ {0} /\ byte % 2 = 0
    /\ Cells = byte * byte /\ 2^(2 * CellBits) = Cells * Cells /\ 2^0 = 1
Slots == 0 .. (2 * Cardinality(Words) - 1)

--------------------------------------------------------------------------------
(* A key in its half of a word, and keys compared bit by bit. *)

WordOf(slot) == slot \div 2
Shift(slot) == (slot % 2) * CellBits

\* A conversion to the narrow type: the low bits, as a signed number.
Narrowed(wide) ==
    LET low == wide % Cells IN IF low >= Cells \div 2 THEN low - Cells ELSE low
CurrentNarrow(wide, slot) == Narrowed(wide \div 2^Shift(slot))

\* The word with another key in the slot; the sign of the key must not reach
\* the neighbour.
DesiredWide(wide, slot, desired) ==
    wide - ((wide \div 2^Shift(slot)) % Cells) * 2^Shift(slot)
        + (desired % Cells) * 2^Shift(slot)

\* An object of two bytes is neither 4 nor 8 bytes long: it is compared byte by
\* byte, up to the first that differs.
Bytes(key) == LET u == key % Cells IN <<u % 2^ByteBits, u \div 2^ByteBits>>
Memcmp(l, r) ==
    LET different == {i \in DOMAIN l : l[i] # r[i]}
    IN  CASE different = {} -> 0
          [] different # {} /\ l[Min(different)] < r[Min(different)] -> -1
          [] OTHER -> 1
BitWiseCompare(l, r) == Memcmp(Bytes(l), Bytes(r)) = 0
IsSentinelValue(value, sentinel) == BitWiseCompare(value, sentinel)
EqualTo(l, r) == l = r

--------------------------------------------------------------------------------
(* The calls. *)

None == [at |-> "none", slot |-> 0, expected |-> Empty, desired |-> Empty, wide |-> 0,
         verdict |-> "none"]

\* NarrowCas: what the old key tells the caller.
Verdict(c, old) ==
    CASE IsSentinelValue(c.expected, old) -> "success"
      [] EqualTo(c.desired, old) -> "duplicate"
      [] OTHER -> "failed"
NarrowCas(t, old) ==
    call' = [call EXCEPT ![t] = [None EXCEPT !.verdict = Verdict(call[t], old)]]

\* An insertion expects the slot empty, an erasure expects the key it has read
\* there and leaves the slot empty.
Begin(t) ==
    /\ call[t].at = "none"
    /\ \E slot \in Slots, key \in UsedKeys :
         \E change \in {<<Empty, key>>, <<key, Empty>>} :
            call' = [call EXCEPT ![t] = [None EXCEPT !.at = "read", !.slot = slot,
                                                     !.expected = change[1],
                                                     !.desired = change[2]]]
    /\ UNCHANGED words

\* AtomicCas2Byte: reads the word, answers at once if the key is another, else
\* tries to swap the word, and begins again if any part of it has changed.
Read(t) ==
    LET c == call[t]
        currentWide == words[WordOf(c.slot)]
        currentNarrow == CurrentNarrow(currentWide, c.slot)
    IN  /\ c.at = "read"
        /\ IF currentNarrow # c.expected THEN NarrowCas(t, currentNarrow)
           ELSE call' = [call EXCEPT ![t].at = "swap", ![t].wide = currentWide]
        /\ UNCHANGED words

\* (Variant with a bug: the swap is thought done if the slot had the key, although
\* the other half of the word made it fail.)
SwappedSlot(c, oldWide) == CurrentNarrow(oldWide, c.slot) = c.expected
Swapped(c, oldWide) == oldWide = c.wide

Swap(t) ==
    LET c == call[t]
        oldWide == words[WordOf(c.slot)]
    IN  /\ c.at = "swap"
        /\ words' = IF oldWide # c.wide THEN words
                    ELSE [words EXCEPT ![WordOf(c.slot)] =
                                DesiredWide(c.wide, c.slot, c.desired)]
        /\ IF Swapped(c, oldWide) THEN NarrowCas(t, c.expected)
           ELSE call' = [call EXCEPT ![t].at = "read"]

Init ==
    /\ words = [w \in Words |-> DesiredWide(DesiredWide(0, 0, Empty), 1, Empty)]
    /\ call = [t \in Threads |-> None]

Next == \E t \in Threads : Begin(t) \/ Read(t) \/ Swap(t)

Spec == Init /\ [][Next]_vars

--------------------------------------------------------------------------------
TypeOK ==
    /\ words \in [Words -> 0 .. (2^(2 * CellBits) - 1)]
    /\ \A t \in Threads : /\ call[t].at \in {"none", "read", "swap"}
                          /\ call[t].slot \in Slots
                          /\ {call[t].expected, call[t].desired} \subseteq Values

Table == [slot \in Slots |-> CurrentNarrow(words[WordOf(slot)], slot)]

\* A call of NarrowCas is one swap of its slot and of no other: nothing in the
\* table changes until the call returns, and it returns what the slot holds then,
\* having replaced it if that is what it expected, whatever becomes of the slot
\* that shares the word.
SlotSwapped ==
    \A t \in Threads :
        LET c == call[t]
            old == Table[c.slot]
            returns == c.at # "none" /\ call'[t].at = "none"
            verdict == CASE old = c.expected -> "success"
                         [] old = c.desired -> "duplicate"
                         [] OTHER -> "failed"
        IN  call'[t] # c =>
              /\ returns => call'[t].verdict = verdict
              /\ Table' = IF returns /\ old = c.expected
                          THEN [Table EXCEPT ![c.slot] = c.desired] ELSE Table
SlotsAreAtomic == [][SlotSwapped]_vars
================================================================================
