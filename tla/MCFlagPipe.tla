----------------------------- MODULE MCFlagPipe ------------------------------
(***************************************************************************)
(* Model-checking instance of FlagPipe.                                    *)
(*   Event flag: two guest threads, so that two waits can be queued while  *)
(*     the host sets and clears, or one while the other thread does; two   *)
(*     bits and every wait mode.                                           *)
(*   Pipe: two threads, which may both be blocked on the same end; lengths *)
(*     of nothing, of kAtomicWrite and one more, which is the capacity; as *)
(*     many bytes as fill the pipe twice.                                  *)
(***************************************************************************)
EXTENDS FlagPipe

CONSTANTS t1, t2

MCThreads == {t1, t2}
MCPatterns == {{0}, {0, 1}}
MCModes == [or : BOOLEAN, clear : {"none", "all", "pat"}]
=============================================================================
