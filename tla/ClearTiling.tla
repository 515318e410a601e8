------------------------------ MODULE ClearTiling ------------------------------
(***************************************************************************)
(* How Clear empties a large table: the host cuts the table into blocks,   *)
(* deals the blocks to the vector cores and hands each core the number and *)
(* size of its tiles (ClearSimd in open_addressing_impl.h); every core     *)
(* fills one tile-sized buffer with the sentinel and copies it over its    *)
(* share, tile by tile (ClearSIMD in kernels.h).  Small tables, and those  *)
(* whose sentinel is not one repeated word, go to the ClearSimt kernel,    *)
(* whose threads OpenAddressing models.                                    *)
(*                                                                         *)
(* The table is seen as the elements the copies see: words of the key's    *)
(* size, one or two per slot.                                              *)
(***************************************************************************)
EXTENDS Integers

CONSTANTS
    Cores,         \* GetCoreNumAiv()
    UBSize,        \* GetCoreMemSize(UB), in bytes
    BLOCK_SIZE,
    BUFFER_NUM,
    Capacities,    \* storage_.Capacity()
    SlotTypes      \* sizes of a slot's parts, payload 0 for sets

PlatformOK == {Cores, UBSize, BLOCK_SIZE, BUFFER_NUM} \subseteq Nat \ {0}
TableOK ==
    /\ Capacities \subseteq Nat \ {0}
    /\ SlotTypes \subseteq [key : Nat \ {0}, payload : Nat, sameSentinels : BOOLEAN]

Core == 0..(Cores - 1)

VARIABLES
    slot,        \* the type of the table's slots
    capacity,    \* and their number
    phase,       \* "used", or "clearing" on the cores, or "cleared"
    dirty,       \* elements that do not hold the sentinel
    written,     \* written[c]: elements core c has copied to since the launch
    tile         \* tile[c]: loop index i of core c

vars == <<slot, capacity, phase, dirty, written, tile>>

--------------------------------------------------------------------------------
(* The host's tiling. *)

SlotSize == slot.key + slot.payload
CanClearSimd ==
    SlotSize <= 8 /\ (slot.payload = 0 \/ (slot.key = slot.payload /\ slot.sameSentinels))
UsesSimd == CanClearSimd /\ capacity > Cores * BLOCK_SIZE * SlotSize

Elements == (capacity * SlotSize) \div slot.key
TileBlocks ==
    LET tb == ((UBSize \div BLOCK_SIZE) \div BUFFER_NUM) \div slot.key
    IN  IF tb = 0 THEN 1 ELSE tb
TileData == TileBlocks * BLOCK_SIZE
TotalBlocks == (Elements + BLOCK_SIZE - 1) \div BLOCK_SIZE
ActualCores == IF Cores > TotalBlocks THEN TotalBlocks ELSE Cores
CoresWithExtra == TotalBlocks % Cores

\* Blocks, tiles, and elements of the last tile of a core's share.
Blocks(c) == (TotalBlocks \div ActualCores) + (IF c < CoresWithExtra THEN 1 ELSE 0)
Tiles(c) == (Blocks(c) \div TileBlocks) + (IF Blocks(c) % TileBlocks > 0 THEN 1 ELSE 0)
TailData(c) == (Blocks(c) % TileBlocks) * BLOCK_SIZE

\* Where core c's share begins: after those of the cores with an extra block.
Offset(c) ==
    LET common == (TotalBlocks \div ActualCores) * BLOCK_SIZE
        extra == common + BLOCK_SIZE
    IN  IF c < CoresWithExtra THEN extra * c
        ELSE extra * CoresWithExtra + (c - CoresWithExtra) * common

--------------------------------------------------------------------------------
AllElements == 0..(Elements - 1)

TypeOK ==
    /\ slot \in SlotTypes /\ capacity \in Capacities
    /\ phase \in {"used", "clearing", "cleared"}
    /\ dirty \subseteq AllElements
    /\ written \in [Core -> SUBSET Nat]
    /\ \A c \in Core : tile[c] \in 0..(IF UsesSimd THEN Tiles(c) ELSE 0)

\* Freshly allocated memory, or a table in use: the constructor clears too.
Init ==
    /\ slot \in SlotTypes /\ capacity \in Capacities
    /\ phase = "used" /\ dirty = AllElements
    /\ written = [c \in Core |-> {}]
    /\ tile = [c \in Core |-> 0]

ClearSimt ==
    /\ phase = "used" /\ ~UsesSimd
    /\ phase' = "cleared" /\ dirty' = {}
    /\ UNCHANGED <<slot, capacity, written, tile>>

ClearSimd ==
    /\ phase = "used" /\ UsesSimd
    /\ phase' = "clearing"
    /\ written' = [c \in Core |-> {}]
    /\ tile' = [c \in Core |-> 0]
    /\ UNCHANGED <<slot, capacity, dirty>>

\* One DataCopy of the loop of ClearSIMD; the last one is the tail, which
\* is of no element where the share is whole tiles.
CopyTile(c) ==
    LET n == IF tile[c] = Tiles(c) - 1 THEN TailData(c) ELSE TileData
        from == Offset(c) + tile[c] * TileData
        copied == from..(from + n - 1)
    IN  /\ phase = "clearing" /\ tile[c] < Tiles(c)
        /\ dirty' = dirty \ copied
        /\ written' = [written EXCEPT ![c] = @ \cup copied]
        /\ tile' = [tile EXCEPT ![c] = @ + 1]
        /\ UNCHANGED <<slot, capacity, phase>>

\* aclrtSynchronizeStream, or the stream's next operation.
Synchronize ==
    /\ phase = "clearing" /\ \A c \in Core : tile[c] = Tiles(c)
    /\ phase' = "cleared"
    /\ UNCHANGED <<slot, capacity, dirty, written, tile>>

\* The table fills up again.
Use ==
    /\ phase = "cleared"
    /\ phase' = "used" /\ dirty' = AllElements
    /\ UNCHANGED <<slot, capacity, written, tile>>

Next == ClearSimt \/ ClearSimd \/ (\E c \in Core : CopyTile(c)) \/ Synchronize \/ Use

Spec == Init /\ [][Next]_vars

--------------------------------------------------------------------------------
\* Two cores never copy over the same element, whatever the remainders, and
\* the last one runs over the table's end by less than a block.
SharesAreDisjoint ==
    /\ \A c, d \in Core : c # d => written[c] \cap written[d] = {}
    /\ \A c \in Core : \A e \in written[c] : e < Elements + BLOCK_SIZE - 1

\* A Clear whose shares all end in a tile that is not full leaves no element
\* with its old content.
EmptiedUnlessTilesAreFull ==
    phase = "cleared" /\ (UsesSimd => \A c \in Core : TailData(c) > 0) => dirty = {}

\* What the documentation says of Clear, for every capacity: it empties the
\* container.
ClearEmpties == phase = "cleared" => dirty = {}
================================================================================
