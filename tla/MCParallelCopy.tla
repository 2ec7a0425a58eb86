--------------------------- MODULE MCParallelCopy ---------------------------
(***************************************************************************)
(* Every request over four registers and one value in memory: two disjoint *)
(* swaps, cycles of three and four, chains hanging off a cycle, one source *)
(* read by several copies, and reloads from memory.                        *)
(***************************************************************************)
EXTENDS ParallelCopy
=============================================================================
