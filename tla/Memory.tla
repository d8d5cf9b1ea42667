------------------------------- MODULE Memory --------------------------------
(***************************************************************************)
(* Guest memory: the map of the address space (VmMap) and the allocator of *)
(* direct memory (Dmem).  A behaviour changes one of them, chosen at the   *)
(* start; what DmemFree does to the map is VmMap's ReleaseDirect.          *)
(***************************************************************************)
EXTENDS VmMap

CONSTANTS Total, Base, Lens, Aligns, Windows, Types      \* Dmem

VARIABLES
  used,      \* "map" or "pool"
  regions    \* Dmem

D == INSTANCE Dmem

ASSUME PoolAssumption == D!DmemAssumptions

AllInit == used \in {"map", "pool"} /\ Init /\ D!Init

AllNext == \/ used = "map" /\ Next /\ UNCHANGED <<regions, used>>
           \/ used = "pool" /\ D!Next /\ UNCHANGED <<vars, used>>

AllSpec == AllInit /\ [][AllNext]_<<vars, regions, used>>

-----------------------------------------------------------------------------
\* Dmem: sorted, disjoint reservations, and two searches that answer what a
\* search of every free page would.
DmemInv == used = "pool" => D!DmemInv

\* Dmem: the list implements the pool of pages (FramePool).
KeepsFramePool ==
  D!Abstract!PoolInit /\ [][used = "pool" => D!Abstract!PoolNext \/ UNCHANGED D!Owner]_regions
=============================================================================
