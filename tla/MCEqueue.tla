------------------------------ MODULE MCEqueue ------------------------------
(***************************************************************************)
(* Event queues with a socket: two threads, two queues, so that one can be *)
(* closed while the other is waited on.                                    *)
(***************************************************************************)
EXTENDS Equeue

CONSTANTS t1, t2, q1, q2

MCThreads == {t1, t2}
MCLockKeys == {{"vblank", "read"}}
MCTwoQueues == {q1, q2}
=============================================================================
