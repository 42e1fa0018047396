------------------------------ MODULE MCMalloc ------------------------------
(***************************************************************************)
(* Malloc on a small memory: an address space of 32 cells, the image at    *)
(* 16..19, 8 cells for blocks below it and 8 above it.                     *)
(***************************************************************************)
EXTENDS Malloc

CONSTANTS
  MaxDemand,  \* bound: a zone that asked for more is not asked again
  MaxCalls    \* bound: allocations

ASSUME PowersOfTwo == Aligns \subseteq {2^k : k \in 0 .. 16}

MCSizes == {0, 2, 5, 20}
MCAligns == {1, 4}

MCNext ==
  /\ \A z \in Zones : demand[z] <= MaxDemand
  /\ calls < MaxCalls
  /\ MallocNext

MCSpec == MallocInit /\ [][MCNext]_mallocVars
=============================================================================
