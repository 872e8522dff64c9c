---------------------------- MODULE MCZoneAlloc ----------------------------
(***************************************************************************)
(* ZoneAlloc for TLC: named threads, interchangeable within their kind.    *)
(***************************************************************************)
EXTENDS ZoneAlloc, TLC

CONSTANTS a, b, x, y

ThreadSymmetry == Permutations(IOThreads) \cup Permutations(WALThreads)
=============================================================================
