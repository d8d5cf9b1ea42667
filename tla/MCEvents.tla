------------------------------ MODULE MCEvents -------------------------------
(***************************************************************************)
(* Model-checking instance of Events.                                      *)
(*   Events: two guest threads and one queue, the five kinds of knote in   *)
(*     three groups, one interrupt and one flip.                           *)
(*   Flips: two callers of either console, with and without emulated       *)
(*     timing; flip rates 0 and 1, so intervals of one and two vblanks;    *)
(*     three flips outstanding, one more than the queue takes.             *)
(***************************************************************************)
EXTENDS Events

CONSTANTS t1, t2, q1

MCThreads == {t1, t2}
MCQueues == {q1}
MCKeySets == {{"gnm"}, {"flip", "vblank"}, {"user", "read"}}
=============================================================================
