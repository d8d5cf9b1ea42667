------------------------------- MODULE MCUcond -------------------------------
(***************************************************************************)
(* Model-checking instance of Ucond: three threads for two waiters and a   *)
(* signaller, on a ucond that is only signalled and on one that is also    *)
(* broadcast, whose bucket is not the mutex's.                             *)
(***************************************************************************)
EXTENDS Ucond

CONSTANTS t1, t2, t3

MCThreads == {t1, t2, t3}
MCUses == {[same |-> TRUE, wakes |-> {"signal"}],
           [same |-> FALSE, wakes |-> {"signal", "broadcast"}]}
=============================================================================
