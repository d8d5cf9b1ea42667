----------------------------- MODULE MCSessions ------------------------------
(***************************************************************************)
(* Model-checking instance of Sessions.                                    *)
(*   Threads: two, so that one can make another while it is stopped, and a *)
(*     user who pauses, uses the menu and closes the window.               *)
(*   SCE: two threads, two semaphores at a time that share a name, a table *)
(*     that starts with one slot and grows, 4-bit ints and amounts on both *)
(*     sides of zero and of the ceilings.                                  *)
(*   Flags: the same threads, objects, name and table.                     *)
(*   POSIX: three threads (a sleeper, a poster and one that destroys), two *)
(*     semaphores and one name.                                            *)
(***************************************************************************)
EXTENDS Sessions

CONSTANTS t1, t2, t3, o1, o2, n1

MCThreads == {t1, t2}
MCObjs == {o1, o2}
MCNames == {n1}
MCAmounts == {-1, 1, 2}
MCShapes == {<<0, 2>>}
MCNoNames == {}
MCKThreads == {t1, t2, t3}
=============================================================================
