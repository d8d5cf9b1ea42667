------------------------------- MODULE Urwlock -------------------------------
(***************************************************************************)
(* The reader/writer lock of sys_umtx_op on one struct urwlock             *)
(* (delta/kern/lv2/sys_thread.cc):                                         *)
(*   UMTX_OP_RW_RDLOCK, RW_WRLOCK   ops 12, 13                             *)
(*   UMTX_OP_RW_UNLOCK              op 14                                  *)
(* with libthr's userland fast paths, which are not part of the repository.*)
(*                                                                         *)
(* A section under the bucket mutex is one action: every change of the     *)
(* word is a compare-and-swap that is retried until the decision and the   *)
(* word agree.  A parked thread is in bk.cv.WaitFor; it runs another round *)
(* of its loop when notified or at the 2 ms re-poll tick.                  *)
(***************************************************************************)
EXTENDS Integers, FiniteSets

CONSTANTS
  Threads,        \* guest threads
  MaxReaders      \* URWLOCK_MAX_READERS

UrwlockAssumptions ==
  /\ IsFiniteSet(Threads)
  /\ MaxReaders \in Nat \ {0}

VARIABLES
  prefer,     \* URWLOCK_PREFER_READER in rw_flags, set when the lock is made
  st,         \* the word: WRITE_OWNER, WRITE_WAITERS, READ_WAITERS, readers
  blockedR,   \* rw_blocked_readers
  blockedW,   \* rw_blocked_writers
  pc,         \* where each thread is
  notified,   \* a NotifyAll reached the parked thread
  stopping    \* guest::Stopping()

vars == <<prefer, st, blockedR, blockedW, pc, notified, stopping>>

Idle == [writer |-> FALSE, ww |-> FALSE, rw |-> FALSE, readers |-> 0]

Init ==
  /\ prefer \in BOOLEAN
  /\ st = Idle
  /\ blockedR = 0
  /\ blockedW = 0
  /\ pc = [t \in Threads |-> "idle"]
  /\ notified = [t \in Threads |-> FALSE]
  /\ stopping = FALSE

Goto(t, l) == pc' = [pc EXCEPT ![t] = l]
Parked == {"parkedRd", "parkedWr"}

-----------------------------------------------------------------------------
(* libthr, external.                                                       *)

\* A thread wants the lock, for reading or for writing.
UserWant(t) ==
  /\ pc[t] = "idle"
  /\ Goto(t, "tryRd") \/ Goto(t, "tryWr")
  /\ UNCHANGED <<st, blockedR, blockedW, notified, stopping, prefer>>

UserMayRead == ~st.writer /\ (prefer \/ ~st.ww) /\ st.readers < MaxReaders
UserMayWrite == ~st.writer /\ st.readers = 0

UserLock(t) ==
  /\ \/ /\ pc[t] = "tryRd" /\ UserMayRead
        /\ st' = [st EXCEPT !.readers = @ + 1]
        /\ Goto(t, "rd")
     \/ /\ pc[t] = "tryWr" /\ UserMayWrite
        /\ st' = [st EXCEPT !.writer = TRUE]
        /\ Goto(t, "wr")
  /\ UNCHANGED <<blockedR, blockedW, notified, stopping, prefer>>

\* The fast path does not apply: op 12 or op 13.
UserEnter(t) ==
  /\ \/ pc[t] = "tryRd" /\ ~UserMayRead /\ Goto(t, "kernRd")
     \/ pc[t] = "tryWr" /\ ~UserMayWrite /\ Goto(t, "kernWr")
  /\ UNCHANGED <<st, blockedR, blockedW, notified, stopping, prefer>>

\* A writer without waiters, or a reader that is not the last one in front of
\* waiters, lets go in userland; everybody else calls op 14.
UserUnlock(t) ==
  /\ pc[t] \in {"rd", "wr"}
  /\ \/ /\ pc[t] = "wr" /\ ~st.ww /\ ~st.rw
        /\ st' = [st EXCEPT !.writer = FALSE]
        /\ Goto(t, "idle")
     \/ /\ pc[t] = "wr" /\ (st.ww \/ st.rw)
        /\ Goto(t, "unlock") /\ UNCHANGED st
     \/ /\ pc[t] = "rd" /\ ~((st.ww \/ st.rw) /\ st.readers = 1)
        /\ st' = [st EXCEPT !.readers = @ - 1]
        /\ Goto(t, "idle")
     \/ /\ pc[t] = "rd" /\ (st.ww \/ st.rw) /\ st.readers = 1
        /\ Goto(t, "unlock") /\ UNCHANGED st
  /\ UNCHANGED <<blockedR, blockedW, notified, stopping, prefer>>

-----------------------------------------------------------------------------
(* Ops 12 and 13.  blocked is the caller's counter as the round finds it:  *)
(* a thread back from WaitFor has left it before it looks at the word.     *)

\* A reader yields to a queued writer unless the lock prefers readers or a
\* reader is already in.
MayRead == ~st.writer /\ ~(st.ww /\ ~prefer /\ st.readers = 0)
MayWrite == ~st.writer /\ st.readers = 0

RdRound(t, blocked) ==
  /\ notified' = [notified EXCEPT ![t] = FALSE]
  /\ \/ /\ stopping                                     \* EINTR
        /\ blockedR' = blocked /\ Goto(t, "idle") /\ UNCHANGED st
     \/ /\ ~stopping /\ MayRead /\ st.readers = MaxReaders   \* EAGAIN
        /\ blockedR' = blocked /\ Goto(t, "idle") /\ UNCHANGED st
     \/ /\ ~stopping /\ MayRead /\ st.readers < MaxReaders
        /\ st' = [st EXCEPT !.readers = @ + 1]
        /\ blockedR' = blocked /\ Goto(t, "rd")
     \/ /\ ~stopping /\ ~MayRead
        /\ st' = [st EXCEPT !.rw = TRUE]
        /\ blockedR' = blocked + 1 /\ Goto(t, "parkedRd")
  /\ UNCHANGED <<blockedW, stopping, prefer>>

WrRound(t, blocked) ==
  /\ notified' = [notified EXCEPT ![t] = FALSE]
  /\ \/ /\ stopping                                     \* EINTR
        /\ blockedW' = blocked /\ Goto(t, "idle") /\ UNCHANGED st
     \/ /\ ~stopping /\ MayWrite
        /\ st' = [st EXCEPT !.writer = TRUE]
        /\ blockedW' = blocked /\ Goto(t, "wr")
     \/ /\ ~stopping /\ ~MayWrite
        /\ st' = [st EXCEPT !.ww = TRUE]
        /\ blockedW' = blocked + 1 /\ Goto(t, "parkedWr")
  /\ UNCHANGED <<blockedR, stopping, prefer>>

RwLock(t) ==
  \/ pc[t] = "kernRd" /\ RdRound(t, blockedR)
  \/ pc[t] = "kernWr" /\ WrRound(t, blockedW)

RwLockAgain(t) ==
  \/ pc[t] = "parkedRd" /\ RdRound(t, blockedR - 1)
  \/ pc[t] = "parkedWr" /\ WrRound(t, blockedW - 1)

-----------------------------------------------------------------------------
(* Op 14.                                                                  *)

\* Mutant of Unlocked: the waiter bits are always retired.
Unlocked_ClearsBits ==
  [st EXCEPT !.writer = FALSE, !.readers = IF st.writer THEN @ ELSE @ - 1,
             !.ww = FALSE, !.rw = FALSE]
\* The word after a release: a waiter bit nobody is behind is retired.
Unlocked ==
  [st EXCEPT !.writer = FALSE,
             !.readers = IF st.writer THEN @ ELSE @ - 1,
             !.ww = @ /\ blockedW # 0,
             !.rw = @ /\ blockedR # 0]

\* EINTR when stopping leaves the lock as it is; EPERM if nobody holds it.
RwUnlock(t) ==
  /\ pc[t] = "unlock"
  /\ \/ /\ stopping \/ (~st.writer /\ st.readers = 0)
        /\ Goto(t, "idle") /\ UNCHANGED st
     \/ /\ ~stopping /\ (st.writer \/ st.readers # 0)
        /\ st' = Unlocked
        /\ Goto(t, "notify")
  /\ UNCHANGED <<blockedR, blockedW, notified, stopping, prefer>>

\* Mutant of Notify: the notification is forgotten.
Notify_Nobody(t) ==
  /\ pc[t] = "notify"
  /\ Goto(t, "idle")
  /\ UNCHANGED <<st, blockedR, blockedW, notified, stopping, prefer>>

\* bk.cv.NotifyAll() after the bucket is unlocked.
Notify(t) ==
  /\ pc[t] = "notify"
  /\ notified' = [u \in Threads |-> notified[u] \/ pc[u] \in Parked]
  /\ Goto(t, "idle")
  /\ UNCHANGED <<st, blockedR, blockedW, stopping, prefer>>

Stop ==
  /\ ~stopping
  /\ stopping' = TRUE
  /\ UNCHANGED <<st, blockedR, blockedW, pc, notified, prefer>>

Running(t) ==
  UserLock(t) \/ UserEnter(t) \/ UserUnlock(t) \/ RwLock(t) \/ RwUnlock(t) \/ Notify(t)
Woken(t) == notified[t] /\ RwLockAgain(t)

Next == Stop \/ \E t \in Threads : UserWant(t) \/ Running(t) \/ RwLockAgain(t)

\* Threads that run are scheduled, a holder lets go, a notified sleeper wakes
\* up; nothing is assumed of the re-poll tick.
Fairness == \A t \in Threads : WF_vars(Running(t)) /\ WF_vars(Woken(t))

Spec == Init /\ [][Next]_vars /\ Fairness

-----------------------------------------------------------------------------
Readers == {t \in Threads : pc[t] = "rd"}
Writers == {t \in Threads : pc[t] = "wr"}

\* The type invariant; the reader count stays within URWLOCK_MAX_READERS.
TypeOK ==
  /\ prefer \in BOOLEAN
  /\ st \in [writer : BOOLEAN, ww : BOOLEAN, rw : BOOLEAN, readers : 0 .. MaxReaders]
  /\ blockedR \in Nat
  /\ blockedW \in Nat
  /\ pc \in [Threads -> {"idle", "tryRd", "tryWr", "kernRd", "kernWr", "parkedRd",
                         "parkedWr", "rd", "wr", "unlock", "notify"}]
  /\ notified \in [Threads -> BOOLEAN]
  /\ stopping \in BOOLEAN

\* A writer excludes readers and other writers, whichever mixture of userland
\* swaps and system calls let them in.
RwExclusion ==
  /\ Cardinality(Writers) <= 1
  /\ Writers # {} => Readers = {}

\* A parked thread is visible in the word, so that the release it waits for
\* enters the kernel instead of staying in userland.
WaiterBitPublished ==
  /\ (\E t \in Threads : pc[t] = "parkedWr") => st.ww
  /\ (\E t \in Threads : pc[t] = "parkedRd") => st.rw

\* "A stale WRITE_WAITERS starves readers forever": a lock nobody holds shows
\* WRITE_WAITERS only while a writer really is parked.
NoStaleWriteWaiters ==
  ~stopping /\ ~st.writer /\ st.readers = 0 /\ st.ww
     => \E t \in Threads : pc[t] = "parkedWr"

\* The state of the lock: well typed, exclusive, and its word shows the parked
\* threads and no others.
RwInv == TypeOK /\ RwExclusion /\ WaiterBitPublished /\ NoStaleWriteWaiters

\* A lock that nobody holds does not stay wanted, also without the re-poll tick:
\* yielding readers and parked writers never wait for each other.
Progress ==
  []<>(\/ stopping \/ Readers # {} \/ Writers # {}
       \/ \A t \in Threads :
            pc[t] \notin {"tryRd", "tryWr", "kernRd", "kernWr"} \cup Parked)
=============================================================================
