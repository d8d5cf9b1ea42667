-------------------------------- MODULE Usem --------------------------------
(***************************************************************************)
(* The semaphore word of sys_umtx_op, struct _usem                         *)
(* (delta/kern/lv2/sys_thread.cc): UMTX_OP_SEM_WAIT and UMTX_OP_SEM_WAKE,  *)
(* ops 19 and 20, with libthr's userland half, which is not part of the    *)
(* repository.                                                             *)
(*                                                                         *)
(* A section under the bucket mutex is one action.  SEM_WAIT raises        *)
(* _has_waiters and reads _count one after the other while userland may    *)
(* post in between; the post then comes before the whole section, because  *)
(* its poster sees the flag raised and wakes.  A sleeper tests its loop    *)
(* condition again when notified or at the 2 ms re-poll tick.              *)
(***************************************************************************)
EXTENDS Naturals

CONSTANTS
  Threads,    \* guest threads
  MaxCount    \* bound: units the guest posts ahead

UsemAssumptions == MaxCount \in Nat

VARIABLES
  hasWaiters,  \* _has_waiters
  count,       \* _count
  pc,          \* where each thread is
  moved,       \* ch.gen is no longer the g0 of the sleeper
  notified,    \* a NotifyAll reached the sleeper
  stopping     \* guest::Stopping()

vars == <<hasWaiters, count, pc, moved, notified, stopping>>

Init ==
  /\ hasWaiters = FALSE /\ count = 0
  /\ pc = [t \in Threads |-> "idle"]
  /\ moved = [t \in Threads |-> FALSE]
  /\ notified = [t \in Threads |-> FALSE]
  /\ stopping = FALSE

Goto(t, l) == pc' = [pc EXCEPT ![t] = l]

-----------------------------------------------------------------------------
(* libthr, external.                                                       *)

\* sem_wait: take a unit, or go to the kernel when there is none.
UserWant(t) ==
  /\ pc[t] = "idle"
  /\ Goto(t, "try")
  /\ UNCHANGED <<hasWaiters, count, moved, notified, stopping>>

UserTake(t) ==
  /\ pc[t] = "try" /\ count > 0
  /\ count' = count - 1
  /\ Goto(t, "idle")
  /\ UNCHANGED <<hasWaiters, moved, notified, stopping>>

UserEnter(t) ==
  /\ pc[t] = "try" /\ count = 0
  /\ Goto(t, "enter")
  /\ UNCHANGED <<hasWaiters, count, moved, notified, stopping>>

\* sem_post: add a unit, then wake if somebody said he waits.
UserPost(t) ==
  /\ pc[t] = "idle" /\ count < MaxCount
  /\ count' = count + 1
  /\ Goto(t, "posted")
  /\ UNCHANGED <<hasWaiters, moved, notified, stopping>>

UserPosted(t) ==
  /\ pc[t] = "posted"
  /\ Goto(t, IF hasWaiters THEN "wake" ELSE "idle")
  /\ UNCHANGED <<hasWaiters, count, moved, notified, stopping>>

-----------------------------------------------------------------------------
(* The kernel.                                                             *)

KeepsWaiting(t) == ~stopping /\ count = 0 /\ ~moved[t]

\* Mutant of SemWait: the flag is left to the next caller.
SemWait_NoFlag(t) ==
  /\ pc[t] = "enter"
  /\ moved' = [moved EXCEPT ![t] = FALSE]
  /\ notified' = [notified EXCEPT ![t] = FALSE]
  /\ Goto(t, IF stopping \/ count > 0 THEN "try" ELSE "asleep")
  /\ UNCHANGED <<hasWaiters, count, stopping>>

\* SEM_WAIT up to its first test: announce, take g0, sleep if there is no unit.
SemWait(t) ==
  /\ pc[t] = "enter"
  /\ hasWaiters' = TRUE
  /\ moved' = [moved EXCEPT ![t] = FALSE]
  /\ notified' = [notified EXCEPT ![t] = FALSE]
  /\ Goto(t, IF stopping \/ count > 0 THEN "try" ELSE "asleep")
  /\ UNCHANGED <<count, stopping>>

\* Another round of the loop; back in userland the caller tries again.
SemAgain(t) ==
  /\ pc[t] = "asleep"
  /\ Goto(t, IF KeepsWaiting(t) THEN "asleep" ELSE "try")
  /\ notified' = [notified EXCEPT ![t] = FALSE]
  /\ UNCHANGED <<hasWaiters, count, moved, stopping>>

\* The deadline of a sem_timedwait, looked at only when the loop would go on:
\* ETIMEDOUT.  The flag stays raised for the others.
SemTimeout(t) ==
  /\ \/ pc[t] = "enter" /\ ~stopping /\ count = 0
     \/ pc[t] = "asleep" /\ KeepsWaiting(t)
  /\ hasWaiters' = TRUE
  /\ Goto(t, "idle")
  /\ UNCHANGED <<count, moved, notified, stopping>>

\* SEM_WAKE: a new generation, and everybody is told.
SemWake(t) ==
  /\ pc[t] = "wake"
  /\ moved' = [u \in Threads |-> moved[u] \/ pc[u] = "asleep"]
  /\ notified' = [u \in Threads |-> notified[u] \/ pc[u] = "asleep"]
  /\ Goto(t, "idle")
  /\ UNCHANGED <<hasWaiters, count, stopping>>

\* guest::RequestStop.
Stop == ~stopping /\ stopping' = TRUE /\ UNCHANGED <<hasWaiters, count, pc, moved, notified>>

-----------------------------------------------------------------------------
\* What a thread goes on to do by itself, its wakeup by a notify included.
Running(t) == \/ UserTake(t) \/ UserEnter(t) \/ UserPosted(t)
              \/ SemWait(t) \/ SemWake(t)
              \/ notified[t] /\ SemAgain(t)

Next == \/ Stop
        \/ \E t \in Threads :
             UserWant(t) \/ UserPost(t) \/ Running(t) \/ SemAgain(t) \/ SemTimeout(t)

\* A thread that can run does.  Nothing is assumed of tick and deadline.
Spec == Init /\ [][Next]_vars /\ \A t \in Threads : WF_vars(Running(t))

-----------------------------------------------------------------------------
TypeOK ==
  /\ hasWaiters \in BOOLEAN /\ count \in 0 .. MaxCount /\ stopping \in BOOLEAN
  /\ pc \in [Threads -> {"idle", "try", "enter", "asleep", "posted", "wake"}]
  /\ moved \in [Threads -> BOOLEAN] /\ notified \in [Threads -> BOOLEAN]

\* Nobody sleeps past a unit without being told: there is a post on its way to
\* wake, whatever waits timed out meanwhile.
NoPostMissed ==
  \A t \in Threads : pc[t] = "asleep" /\ count > 0 /\ ~notified[t] =>
    \/ stopping \/ \E u \in Threads : pc[u] = "wake" \/ (pc[u] = "posted" /\ hasWaiters)

\* The semaphore word and its sleepers agree.
UsemInv == TypeOK /\ NoPostMissed

\* A sleeper does not stay asleep while there is a unit, without the help of
\* the re-poll tick.
PostsServed == \A t \in Threads : []<>~(pc[t] = "asleep" /\ count > 0)
=============================================================================
