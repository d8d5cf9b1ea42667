------------------------------ MODULE MCMemory -------------------------------
(***************************************************************************)
(* Model-checking instance of Memory.                                      *)
(*   Map: two threads, and three pages, so that a mapping can have a head, *)
(*     a hole and a tail.  Protections are PROT_NONE and one other:        *)
(*     sys_munmap only asks whether it is zero.                            *)
(*   Allocator: a pool of five pages with a floor above page 0, room for   *)
(*     two or three reservations with holes between them.  The alignments  *)
(*     are one, two and an invalid three; the windows are the whole pool   *)
(*     (which means no window), parts of it at its bottom, middle and top, *)
(*     and an empty one.                                                   *)
(***************************************************************************)
EXTENDS Memory, TLC

CONSTANTS t1, t2

MCThreads == {t1, t2}
MCWindows == {<<0, 0>>, <<0, 3>>, <<1, 4>>, <<2, 0>>, <<3, 5>>, <<4, 2>>}
Symm == Permutations(MCThreads)
=============================================================================
