------------------------------- MODULE Umutex --------------------------------
(***************************************************************************)
(* The umutex operations of sys_umtx_op (delta/kern/lv2/sys_thread.cc) on  *)
(* one mutex word:                                                         *)
(*   UMTX_OP_MUTEX_TRYLOCK, MUTEX_LOCK   ops 4, 5    (kernel arbitrated)   *)
(*   UMTX_OP_MUTEX_UNLOCK                op 6                              *)
(*   UMTX_OP_MUTEX_WAIT                  op 17                             *)
(*   UMTX_OP_MUTEX_WAKE, MUTEX_WAKE2     ops 18, 23                        *)
(* and libthr's userland half of the protocol, which is not part of the    *)
(* repository: lock and unlock by compare-and-swap, the kernel entered     *)
(* only when the swap fails or the word was contested.                     *)
(*                                                                         *)
(* A section under the bucket mutex is one action, except where the code   *)
(* loads the word and swaps it later: userland swaps may come between, so  *)
(* ops 17 and 18 keep the bucket locked across two actions.                *)
(* A parked thread is in bk.cv.WaitFor.  NotifyAll marks it notified, and  *)
(* it evaluates its loop condition again when it is notified (Woken) or at *)
(* the 2 ms re-poll tick (Tick).                                           *)
(***************************************************************************)
EXTENDS Integers, FiniteSets

CONSTANTS
  Threads,    \* guest threads (tids)
  Protocols   \* the ways libthr uses a mutex, see protocol

ASSUME ThreadsAssumption == IsFiniteSet(Threads)
ASSUME ProtocolAssumption == Protocols \subseteq {"normal", "unlock2", "pi"}

Free == "free"
ASSUME FreeAssumption == Free \notin Threads

VARIABLES
  m,          \* the umutex word: [owner, contested]
  bucket,     \* who holds the bucket's mutex across two actions
  mwaiters,   \* WaitChan::mutex_waiters
  pc,         \* where each thread is
  moved,      \* ch.gen != g0: WaitChan::gen moved since op 17's snapshot
  seen,       \* the word op 17 loaded before its swap
  queued,     \* op 5: this call is counted in mutex_waiters
  notified,   \* a NotifyAll reached the parked thread
  stopping,   \* guest::Stopping()
  protocol    \* how libthr uses this mutex: "normal", "unlock2" (PS5) or "pi"
              \* (kernel arbitrated).  Never changes.

mutexVars == <<m, bucket, mwaiters, moved, seen, queued, notified>>
vars == <<mutexVars, pc, stopping, protocol>>

Word(o, c) == [owner |-> o, contested |-> c]
Unowned == Word(Free, FALSE)
Held == m.owner # Free

Init ==
  /\ m = Unowned
  /\ bucket = Free
  /\ mwaiters = 0
  /\ pc = [t \in Threads |-> "idle"]
  /\ moved = [t \in Threads |-> FALSE]
  /\ seen = [t \in Threads |-> Unowned]
  /\ queued = [t \in Threads |-> FALSE]
  /\ notified = [t \in Threads |-> FALSE]
  /\ stopping = FALSE
  /\ protocol \in Protocols

Goto(t, l) == pc' = [pc EXCEPT ![t] = l]

\* ch.gen++.  The counter is only ever compared with a snapshot of itself, so
\* it is kept as one flag per sleeper: did it move since its snapshot?
NextGen == moved' = [u \in Threads |-> moved[u] \/ pc[u] = "parkedWait"]

Parked == {"parkedWait", "parkedLock"}

-----------------------------------------------------------------------------
(* libthr, external.                                                       *)

\* A thread outside the mutex wants it.
UserWant(t) ==
  /\ pc[t] = "idle"
  /\ Goto(t, "try")
  /\ UNCHANGED <<mutexVars, stopping, protocol>>

\* The swap that takes a free word.  A normal mutex keeps the contested bit;
\* a PI mutex is taken in userland only from 0.
UserLock(t) ==
  /\ pc[t] = "try"
  /\ ~Held
  /\ protocol = "pi" => ~m.contested
  /\ m' = Word(t, m.contested)
  /\ Goto(t, "cs")
  /\ UNCHANGED <<bucket, mwaiters, moved, seen, queued, notified, stopping, protocol>>

\* The swap failed: enter the kernel, op 17 or, for a PI mutex, op 5.
UserEnter(t) ==
  /\ pc[t] = "try"
  /\ Held \/ (protocol = "pi" /\ m.contested)
  /\ Goto(t, IF protocol = "pi" THEN "lock" ELSE "wait")
  /\ UNCHANGED <<mutexVars, stopping, protocol>>

\* Release in userland.  An uncontested word goes to 0.  A contested one goes
\* to CONTESTED (normal) or to 0 (_thr_umutex_unlock2), then op 18 or 23.
UserUnlock(t) ==
  /\ pc[t] = "cs"
  /\ protocol = "pi" => ~m.contested
  /\ m' = Word(Free, m.contested /\ protocol = "normal")
  /\ Goto(t, IF m.contested THEN "wake" ELSE "idle")
  /\ UNCHANGED <<bucket, mwaiters, moved, seen, queued, notified, stopping, protocol>>

-----------------------------------------------------------------------------
(* Op 17, MUTEX_WAIT.                                                      *)

\* The check without the bucket lock: a free word returns at once.
MutexWaitFast(t) ==
  /\ pc[t] = "wait"
  /\ Goto(t, IF Held THEN "waitLoad" ELSE "try")
  /\ UNCHANGED <<mutexVars, stopping, protocol>>

\* Take the bucket and load the word (the generation is noted here as well;
\* nobody moves it before the swap, which is under the same lock).
MutexWaitLoad(t) ==
  /\ pc[t] = "waitLoad"
  /\ bucket = Free
  /\ IF Held
     THEN /\ bucket' = t
          /\ seen' = [seen EXCEPT ![t] = m]
          /\ Goto(t, "waitSwap")
     ELSE /\ Goto(t, "try")
          /\ UNCHANGED <<bucket, seen>>
  /\ UNCHANGED <<m, mwaiters, moved, queued, notified, stopping, protocol>>

\* Publish CONTESTED with a swap and park; a lost swap returns to libthr.  The
\* loop condition is tested before the first sleep.
MutexWaitSwap(t) ==
  /\ pc[t] = "waitSwap"
  /\ bucket' = Free
  /\ seen' = [seen EXCEPT ![t] = Unowned]
  /\ IF m = seen[t]
     THEN /\ m' = [m EXCEPT !.contested = TRUE]
          /\ IF stopping
             THEN Goto(t, "try") /\ UNCHANGED <<mwaiters, notified>>
             ELSE /\ mwaiters' = mwaiters + 1
                  /\ notified' = [notified EXCEPT ![t] = FALSE]
                  /\ Goto(t, "parkedWait")
     ELSE /\ Goto(t, "try")
          /\ UNCHANGED <<m, mwaiters, notified>>
  /\ UNCHANGED <<moved, queued, stopping, protocol>>

\* The loop condition of a MUTEX_WAIT sleeper.
KeepsWaiting(t) == ~stopping /\ Held /\ ~moved[t]

\* Back from WaitFor: sleep on, or leave the count and return 0.
MutexWaitAgain(t) ==
  /\ pc[t] = "parkedWait"
  /\ bucket = Free
  /\ notified' = [notified EXCEPT ![t] = FALSE]
  /\ IF KeepsWaiting(t)
     THEN UNCHANGED <<mwaiters, moved, pc>>
     ELSE /\ mwaiters' = mwaiters - 1
          /\ moved' = [moved EXCEPT ![t] = FALSE]
          /\ Goto(t, "try")
  /\ UNCHANGED <<m, bucket, seen, queued, stopping, protocol>>

-----------------------------------------------------------------------------
(* Ops 18 and 23, MUTEX_WAKE and MUTEX_WAKE2.                              *)

\* The check without the bucket lock: still held wakes nobody.
MutexWakeFast(t) ==
  /\ pc[t] = "wake"
  /\ Goto(t, IF Held THEN "idle" ELSE "wakeLoad")
  /\ UNCHANGED <<mutexVars, stopping, protocol>>

\* The same check under the bucket lock.
MutexWakeLoad(t) ==
  /\ pc[t] = "wakeLoad"
  /\ bucket = Free
  /\ IF Held
     THEN Goto(t, "idle") /\ UNCHANGED bucket
     ELSE Goto(t, "wakeSwap") /\ bucket' = t
  /\ UNCHANGED <<m, mwaiters, moved, seen, queued, notified, stopping, protocol>>

\* Mutant of MutexWakeSwap: CONTESTED retired with a plain store instead of a
\* swap.
MutexWakeSwap_Store(t) ==
  /\ pc[t] = "wakeSwap"
  /\ m' = IF mwaiters <= 1 THEN Unowned ELSE m
  /\ IF mwaiters # 0 THEN NextGen ELSE UNCHANGED moved
  /\ bucket' = Free
  /\ Goto(t, "notify")
  /\ UNCHANGED <<mwaiters, seen, queued, notified, stopping, protocol>>
\* Retire CONTESTED when at most one sleeper is left (the swap fails if the
\* word was taken since the load), move the generation for the sleepers.
MutexWakeSwap(t) ==
  /\ pc[t] = "wakeSwap"
  /\ m' = IF mwaiters <= 1 /\ m = Word(Free, TRUE) THEN Unowned ELSE m
  /\ IF mwaiters # 0 THEN NextGen ELSE UNCHANGED moved
  /\ bucket' = Free
  /\ Goto(t, "notify")
  /\ UNCHANGED <<mwaiters, seen, queued, notified, stopping, protocol>>

\* Mutant of Notify: the notification is forgotten.
Notify_Nobody(t) ==
  /\ pc[t] = "notify"
  /\ Goto(t, "idle")
  /\ UNCHANGED <<mutexVars, stopping, protocol>>

\* bk.cv.NotifyAll() after the bucket is unlocked, in ops 6, 18 and 23.
Notify(t) ==
  /\ pc[t] = "notify"
  /\ notified' = [u \in Threads |-> notified[u] \/ pc[u] \in Parked]
  /\ Goto(t, "idle")
  /\ UNCHANGED <<m, bucket, mwaiters, moved, seen, queued, stopping, protocol>>

-----------------------------------------------------------------------------
(* Ops 4, 5 and 6, the kernel arbitrated mutex.                            *)

\* ~Dequeue: leave the count if this call had entered it.
Dequeue(t) ==
  /\ mwaiters' = IF queued[t] THEN mwaiters - 1 ELSE mwaiters
  /\ queued' = [queued EXCEPT ![t] = FALSE]

\* One round of the MUTEX_LOCK loop: EINTR when stopping, claim a free word
\* keeping its contested bit, otherwise publish CONTESTED, enter the count
\* once and sleep.
LockRound(t) ==
  /\ bucket = Free
  /\ notified' = [notified EXCEPT ![t] = FALSE]
  /\ \/ /\ stopping
        /\ Dequeue(t)
        /\ Goto(t, "idle")
        /\ UNCHANGED m
     \/ /\ ~stopping /\ ~Held
        /\ m' = Word(t, m.contested)
        /\ Dequeue(t)
        /\ Goto(t, "cs")
     \/ /\ ~stopping /\ Held
        /\ m' = [m EXCEPT !.contested = TRUE]
        /\ mwaiters' = IF queued[t] THEN mwaiters ELSE mwaiters + 1
        /\ queued' = [queued EXCEPT ![t] = TRUE]
        /\ Goto(t, "parkedLock")
  /\ UNCHANGED <<bucket, moved, seen, stopping, protocol>>

MutexLock(t) == pc[t] = "lock" /\ LockRound(t)
MutexLockAgain(t) == pc[t] = "parkedLock" /\ LockRound(t)

\* MUTEX_TRYLOCK: claim a free word, EBUSY (EINTR when stopping) otherwise.
MutexTryLock(t) ==
  /\ protocol = "pi"
  /\ pc[t] = "idle"
  /\ bucket = Free
  /\ ~stopping /\ ~Held
  /\ m' = Word(t, m.contested)
  /\ Goto(t, "cs")
  /\ UNCHANGED <<bucket, mwaiters, moved, seen, queued, notified, stopping, protocol>>

\* The word a kernel release leaves behind: UNOWNED at <= 1 sleeper.
ReleasedWord == Word(Free, mwaiters > 1)

\* MUTEX_UNLOCK by the owner (libthr calls it on a contested PI mutex).
MutexUnlock(t) ==
  /\ protocol = "pi"
  /\ pc[t] = "cs"
  /\ m.contested
  /\ bucket = Free
  /\ m' = ReleasedWord
  /\ NextGen
  /\ Goto(t, "notify")
  /\ UNCHANGED <<bucket, mwaiters, seen, queued, notified, stopping, protocol>>

-----------------------------------------------------------------------------
\* A parked thread back in its loop, because it was notified or at the tick.
Again(t) == MutexWaitAgain(t) \/ MutexLockAgain(t)
Woken(t) == notified[t] /\ Again(t)

\* guest::RequestStop.
Stop ==
  /\ ~stopping
  /\ stopping' = TRUE
  /\ UNCHANGED <<mutexVars, pc, protocol>>

\* The steps of a thread that is in a call or in libthr's lock loop.
Kernel(t) ==
  \/ MutexWaitFast(t) \/ MutexWaitLoad(t) \/ MutexWaitSwap(t)
  \/ MutexWakeFast(t) \/ MutexWakeLoad(t) \/ MutexWakeSwap(t)
  \/ Notify(t) \/ MutexLock(t)
User(t) == UserLock(t) \/ UserEnter(t)
Release(t) == UserUnlock(t) \/ MutexUnlock(t)

Next ==
  \/ Stop
  \/ \E t \in Threads :
       UserWant(t) \/ MutexTryLock(t) \/ User(t) \/ Release(t) \/ Kernel(t) \/ Again(t)

\* Threads that run are scheduled, the owner releases the mutex, a notified
\* sleeper wakes up.  Nothing is assumed of the re-poll tick.
Fairness ==
  \A t \in Threads : /\ WF_vars(Kernel(t)) /\ WF_vars(User(t))
                     /\ WF_vars(Release(t)) /\ WF_vars(Woken(t))

Spec == Init /\ [][Next]_vars /\ Fairness

-----------------------------------------------------------------------------
Labels ==
  {"idle", "try", "cs", "wait", "waitLoad", "waitSwap", "parkedWait", "wake",
   "wakeLoad", "wakeSwap", "notify", "lock", "parkedLock"}
WordType == [owner : Threads \cup {Free}, contested : BOOLEAN]

\* The type invariant; mutex_waiters never goes below zero.
TypeOK ==
  /\ m \in WordType
  /\ bucket \in Threads \cup {Free}
  /\ mwaiters \in Nat
  /\ moved \in [Threads -> BOOLEAN]
  /\ pc \in [Threads -> Labels]
  /\ seen \in [Threads -> WordType]
  /\ queued \in [Threads -> BOOLEAN]
  /\ notified \in [Threads -> BOOLEAN]
  /\ stopping \in BOOLEAN
  /\ protocol \in Protocols

\* Mutual exclusion over both halves of the protocol: a thread is inside
\* exactly when the word names it, whichever of the userland swap, op 4 and
\* op 5 let it in.
MutualExclusion == \A t \in Threads : pc[t] = "cs" <=> m.owner = t

Sleepers == {t \in Threads : pc[t] \in Parked}

\* mutex_waiters is the number of parked threads on every exit path, so the
\* UNOWNED/CONTESTED decision of a release is never taken on a wrong count.
WaiterCountExact == mwaiters = Cardinality(Sleepers)

\* The contested handshake: while somebody else owns the word, a parked
\* thread is either announced by the CONTESTED bit, so that the owner's
\* release enters the kernel, or it has already been told to look again.  The
\* PS5 release drops the bit, so that there only the re-poll tick remains.
ContestedChain ==
  protocol # "unlock2" =>
    \A t \in Sleepers :
      Held => \/ m.contested
              \/ moved[t]
              \/ notified[t]
              \/ \E u \in Threads : pc[u] = "notify"

\* The state of the mutex: well typed, exclusive, its sleepers counted and
\* announced.
MutexInv == TypeOK /\ MutualExclusion /\ WaiterCountExact /\ ContestedChain

\* A mutex that nobody holds does not stay wanted: without the re-poll tick a
\* thread that wants it is followed by one that has it (with the PS5 release
\* the tick is needed).
Progress ==
  []<>(\/ stopping \/ protocol = "unlock2"
       \/ \E t \in Threads : pc[t] = "cs"
       \/ \A t \in Threads :
            pc[t] \notin {"try", "wait", "waitLoad", "waitSwap", "lock"} \cup Parked)
=============================================================================
