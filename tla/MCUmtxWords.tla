----------------------------- MODULE MCUmtxWords -----------------------------
(***************************************************************************)
(* Model-checking instance of UmtxWords.                                   *)
(*   Wait queues: three threads, so that two can be parked while one wakes,*)
(*     two words that NWAKE wakes in turn, and WAKE counts on each side of *)
(*     the narrowing to a 3-bit int: 0, 2, one that turns negative and one *)
(*     that wraps to 2.                                                    *)
(*   Mutexes: three threads, so that a release can find two sleepers (the  *)
(*     case in which CONTESTED must stay) or one sleeper and one barging   *)
(*     thread; all three protocols.                                        *)
(*   Reader/writer locks: four threads, for a holder, parked threads of    *)
(*     both kinds and one more that arrives.                               *)
(*   Semaphores: three threads, two of them asleep when one posts, and two *)
(*     units, so that a post may find one it need not wake for.            *)
(***************************************************************************)
EXTENDS UmtxWords

CONSTANTS t1, t2, t3, t4, a1, a2

MCThreads == {t1, t2, t3}
MCRwThreads == {t1, t2, t3, t4}
MCAddrLists == {<<a1, a2>>}
=============================================================================
