-------------------------------- MODULE MCGpu --------------------------------
(***************************************************************************)
(* Model-checking instance of Gpu.                                         *)
(*   PS5: the graphics queue and one ring queue, one label, two writes of  *)
(*     it (a release and a reset, in either order) and one compute batch.  *)
(*   PS4: a ring of two commands, one draw slot, one guest range; sessions *)
(*     of six commands and no write, which is three frames, or of three    *)
(*     commands with two writes between them.                              *)
(***************************************************************************)
EXTENDS Gpu

MCBudgets == {[push |-> 6, writes |-> 0], [push |-> 3, writes |-> 2]}
=============================================================================
