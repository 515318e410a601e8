------------------------------- MODULE MCMapOrSet -------------------------------
(* A map with the constants of the configuration and, in the same variables,  *)
(* a set of three colliding keys.  A set never has a tombstone, so it keeps   *)
(* the promise as long as nothing is erased from it.                          *)
EXTENDS MCOpenAddressing, OpenAddressingBulk

SetKeys == {a, b, c}
SetCalls == {"insert", "insertfind", "find", "count", "foreach", "clear"}
SetPath == PathIn(SetKeys, 3)
SetSynchronous == {"insert", "count"}

Set == INSTANCE OpenAddressingBulk WITH
    Key <- SetKeys, Val <- {}, ErasedKey <- EmptyKey, N <- 3, Path <- SetPath,
    Layout <- "set", Calls <- SetCalls, Synchronous <- SetSynchronous

VARIABLE container

MapsAndSets ==
    /\ container \in {"map", "set"}
    /\ \/ container = "map" /\ BulkInit
       \/ container = "set" /\ Set!BulkInit

NextOfMapOrSet ==
    /\ UNCHANGED container
    /\ \/ container = "map" /\ BulkNext
       \/ container = "set" /\ Set!BulkNext

MapOrSet == MapsAndSets /\ [][NextOfMapOrSet]_<<vars, snap, container>>

\* The map alone, with its fairness.
MapAlone ==
    /\ container = "map" /\ BulkInit
    /\ [][BulkNext /\ UNCHANGED container]_<<vars, snap, container>>
    /\ KernelsRun

\* The theorems of OpenAddressingBulk_proofs are about these instances.
ASSUME InstancesAreDisciplined ==
    /\ SingleStream /\ Disciplined /\ PayloadsLast
    /\ Set!Disciplined /\ Set!PayloadsLast

\* Whatever the threads of a kernel interleave, the kernel is one step of a map,
\* or of a set: counters, outputs and table are those of BulkMap.
BothAreBulkMaps ==
    /\ container = "map" => Promise!Init
    /\ container = "set" => Set!Promise!Init
    /\ [][container = "map" => Promise!Next]_(Promise!vars)
    /\ [][container = "set" => Set!Promise!Next]_(Set!Promise!vars)
================================================================================
