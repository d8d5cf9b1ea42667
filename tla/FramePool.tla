----------------------------- MODULE FramePool -----------------------------
(***************************************************************************)
(* What a title may assume of direct memory: every page of the pool is     *)
(* free or owned with the memory type it was allocated with.  Allocation   *)
(* claims free pages only, release frees the pages named, and neither      *)
(* touches any other page.                                                 *)
(***************************************************************************)
EXTENDS Integers

CONSTANTS Total, Types, NoType

VARIABLE owner      \* owner[p]: the memory type of page p, or NoType

Pool == 0 .. Total - 1

PoolInit == owner = [p \in Pool |-> NoType]

Claim(S, ty) ==
    /\ \A p \in S : owner[p] = NoType
    /\ owner' = [p \in Pool |-> IF p \in S THEN ty ELSE owner[p]]

Release(S) == owner' = [p \in Pool |-> IF p \in S THEN NoType ELSE owner[p]]

PoolNext ==
    \E lo, hi \in 0 .. Total :
        \/ \E ty \in Types : Claim(lo .. hi - 1, ty)
        \/ Release(lo .. hi - 1)

PoolSpec == PoolInit /\ [][PoolNext]_owner
=============================================================================
