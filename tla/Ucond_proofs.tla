---------------------------- MODULE Ucond_proofs -----------------------------
(***************************************************************************)
(* Proofs about Umutex and Ucond for any finite set of threads and any     *)
(* bound on the waiters.                                                   *)
(*                                                                         *)
(* First the mutex: typing, mutual exclusion, the exactness of             *)
(* mutex_waiters and the contested handshake.  Its lemmas let a thread     *)
(* also be in CV_WAIT, where no action of Umutex takes it.  Then the       *)
(* condition variable over it: CV_WAIT keeps the mutex exclusive,          *)
(* c_has_waiters and the waiter count follow the sleepers, and on a ucond  *)
(* that is never broadcast a pending signal always has a waiter that may   *)
(* take it.                                                                *)
(***************************************************************************)
EXTENDS Ucond, FiniteSetTheorems, TLAPS

-----------------------------------------------------------------------------
(* The mutex                                                               *)

\* Where a thread is: in Umutex's operations or in CV_WAIT.
Places == Labels \cup {"cvRelease", "parkedCv"}

\* Everything TypeOK says but for mutex_waiters, which the waiter count bounds.
Typed ==
  /\ m \in WordType
  /\ bucket \in Threads \cup {Free}
  /\ moved \in [Threads -> BOOLEAN]
  /\ pc \in [Threads -> Places]
  /\ seen \in [Threads -> WordType]
  /\ queued \in [Threads -> BOOLEAN]
  /\ notified \in [Threads -> BOOLEAN]
  /\ stopping \in BOOLEAN
  /\ protocol \in Protocols

\* The Dequeue guard of MUTEX_LOCK knows exactly the threads parked there.
QueuedIsParked == \A t \in Threads : queued[t] <=> pc[t] = "parkedLock"

\* MutualExclusion, for a thread that may also be inside CV_WAIT with the mutex
\* still to be released.
Owned == \A t \in Threads : pc[t] \in {"cs", "cvRelease"} <=> m.owner = t

IInv == Typed /\ Owned /\ QueuedIsParked /\ WaiterCountExact
-----------------------------------------------------------------------------
(* Words and counting.                                                      *)

\* The words an action writes are words.
LEMMA WordTyped ==
  ASSUME NEW o \in Threads \cup {Free}, NEW c \in BOOLEAN
  PROVE  /\ Word(o, c) \in WordType
         /\ Word(o, c).owner = o /\ Word(o, c).contested = c
  BY DEF Word, WordType

\* Raising CONTESTED, as ops 5 and 17 do, leaves a word with the same owner.
LEMMA ContestedWord ==
  ASSUME NEW w \in WordType
  PROVE  /\ [w EXCEPT !.contested = TRUE] \in WordType
         /\ [w EXCEPT !.contested = TRUE].owner = w.owner
         /\ [w EXCEPT !.contested = TRUE].contested
  BY DEF WordType

\* There are finitely many sleepers, so that counting them makes sense.
LEMMA SleepersFinite == IsFiniteSet(Sleepers) /\ Cardinality(Sleepers) \in Nat
  <1>1. Sleepers \subseteq Threads
    BY DEF Sleepers
  <1>2. QED
    BY <1>1, ThreadsAssumption, FS_Subset, FS_CardinalityType

\* mutex_waiters moves with the one thread that parks or leaves.
LEMMA CountMoves ==
  ASSUME Typed, WaiterCountExact, NEW t \in Threads, NEW l, Goto(t, l),
         mwaiters' = (mwaiters + (IF l \in Parked THEN 1 ELSE 0))
                        - (IF pc[t] \in Parked THEN 1 ELSE 0)
  PROVE  WaiterCountExact'
  <1>1. IsFiniteSet(Sleepers) /\ Cardinality(Sleepers) \in Nat
    BY SleepersFinite
  <1>2. Sleepers' = IF l \in Parked THEN Sleepers \cup {t} ELSE Sleepers \ {t}
    BY DEF Sleepers, Goto, Typed
  <1>3. t \in Sleepers <=> pc[t] \in Parked
    BY DEF Sleepers
  <1>4. CASE l \in Parked
    <2>1. Cardinality(Sleepers \cup {t}) =
            IF t \in Sleepers THEN Cardinality(Sleepers) ELSE Cardinality(Sleepers) + 1
      BY <1>1, FS_AddElement
    <2>2. QED
      BY <1>1, <1>2, <1>3, <1>4, <2>1 DEF WaiterCountExact
  <1>5. CASE l \notin Parked
    <2>1. Cardinality(Sleepers \ {t}) =
            IF t \in Sleepers THEN Cardinality(Sleepers) - 1 ELSE Cardinality(Sleepers)
      BY <1>1, FS_RemoveElement
    <2>2. QED
      BY <1>1, <1>2, <1>3, <1>5, <2>1 DEF WaiterCountExact
  <1>6. QED
    BY <1>4, <1>5

\* The idle mutex satisfies the invariant.
LEMMA InitIInv == Init => IInv
  <1> SUFFICES ASSUME Init PROVE IInv
    OBVIOUS
  <1>1. Unowned \in WordType /\ Unowned.owner = Free
    BY DEF Unowned, Word, WordType
  <1>2. stopping \in BOOLEAN /\ protocol \in Protocols
    BY DEF Init
  <1>3. Typed
    BY <1>1, <1>2 DEF Init, Typed, Places, Labels
  <1>4. Owned
    BY <1>1, FreeAssumption DEF Init, Owned
  <1>5. Sleepers = {}
    BY DEF Init, Sleepers, Parked
  <1>6. WaiterCountExact
    BY <1>5, FS_EmptySet DEF Init, WaiterCountExact
  <1>7. QueuedIsParked
    BY DEF Init, QueuedIsParked
  <1>8. QED
    BY <1>3, <1>4, <1>6, <1>7 DEF IInv
-----------------------------------------------------------------------------
(* One lemma per action; the count moves only where a thread parks or leaves. *)

\* A thread that starts to want the mutex changes nothing the invariant reads.
LEMMA UserWantInv == ASSUME IInv, NEW t \in Threads, UserWant(t) PROVE IInv'
  <1> DEFINE l == "try"
  <1>1. Goto(t, l) /\ mwaiters' = mwaiters /\ pc[t] \notin Parked /\ l \notin Parked
    BY DEF UserWant, mutexVars, Parked
  <1>2. mwaiters \in Nat
    BY SleepersFinite DEF IInv, WaiterCountExact
  <1>3. WaiterCountExact'
    BY <1>1, <1>2, CountMoves DEF IInv
  <1>4. Typed'
    BY <1>1 DEF IInv, Typed, UserWant, mutexVars, Goto, Places, Labels
  <1>5. Owned'
    BY <1>1, FreeAssumption DEF IInv, Typed, Owned, UserWant, mutexVars, Goto
  <1>6. QueuedIsParked'
    BY <1>1 DEF IInv, Typed, QueuedIsParked, UserWant, mutexVars, Goto, Parked
  <1>7. QED
    BY <1>3, <1>4, <1>5, <1>6 DEF IInv

\* The userland swap takes a free word only: the owner is unique.
LEMMA UserLockInv == ASSUME IInv, NEW t \in Threads, UserLock(t) PROVE IInv'
  <1> DEFINE l == "cs"
  <1>1. Goto(t, l) /\ mwaiters' = mwaiters /\ pc[t] \notin Parked /\ l \notin Parked
    BY DEF UserLock, mutexVars, Parked
  <1>2. mwaiters \in Nat
    BY SleepersFinite DEF IInv, WaiterCountExact
  <1>3. WaiterCountExact'
    BY <1>1, <1>2, CountMoves DEF IInv
  <1>4. Typed'
    BY <1>1, WordTyped DEF IInv, Typed, UserLock, mutexVars, Goto, Places, Labels, Held, WordType
  <1>5. Owned'
    BY <1>1, WordTyped, FreeAssumption DEF IInv, Typed, Owned, UserLock, mutexVars, Goto, Held, WordType
  <1>6. QueuedIsParked'
    BY <1>1 DEF IInv, Typed, QueuedIsParked, UserLock, mutexVars, Goto, Parked
  <1>7. QED
    BY <1>3, <1>4, <1>5, <1>6 DEF IInv

\* Entering op 17 or op 5 changes no shared state.
LEMMA UserEnterInv == ASSUME IInv, NEW t \in Threads, UserEnter(t) PROVE IInv'
  <1> DEFINE l == IF protocol = "pi" THEN "lock" ELSE "wait"
  <1>1. Goto(t, l) /\ mwaiters' = mwaiters /\ pc[t] \notin Parked /\ l \notin Parked
    BY DEF UserEnter, mutexVars, Parked
  <1>2. mwaiters \in Nat
    BY SleepersFinite DEF IInv, WaiterCountExact
  <1>3. WaiterCountExact'
    BY <1>1, <1>2, CountMoves DEF IInv
  <1>4. Typed'
    BY <1>1 DEF IInv, Typed, UserEnter, mutexVars, Goto, Places, Labels
  <1>5. Owned'
    BY <1>1, FreeAssumption DEF IInv, Typed, Owned, UserEnter, mutexVars, Goto
  <1>6. QueuedIsParked'
    BY <1>1 DEF IInv, Typed, QueuedIsParked, UserEnter, mutexVars, Goto, Parked
  <1>7. QED
    BY <1>3, <1>4, <1>5, <1>6 DEF IInv

\* The userland release gives up the word and leaves the mutex together.
LEMMA UserUnlockInv == ASSUME IInv, NEW t \in Threads, UserUnlock(t) PROVE IInv'
  <1> DEFINE l == IF m.contested THEN "wake" ELSE "idle"
  <1>1. Goto(t, l) /\ mwaiters' = mwaiters /\ pc[t] \notin Parked /\ l \notin Parked
    BY DEF UserUnlock, mutexVars, Parked
  <1>2. mwaiters \in Nat
    BY SleepersFinite DEF IInv, WaiterCountExact
  <1>3. WaiterCountExact'
    BY <1>1, <1>2, CountMoves DEF IInv
  <1>4. m' \in WordType /\ m'.owner = Free
    BY WordTyped DEF UserUnlock, IInv, Typed, WordType
  <1>5. Typed'
    BY <1>1, <1>4 DEF IInv, Typed, UserUnlock, mutexVars, Goto, Places, Labels, WordType
  <1>6. Owned'
    BY <1>1, <1>4, FreeAssumption DEF IInv, Typed, Owned, UserUnlock, mutexVars, Goto, WordType
  <1>7. QueuedIsParked'
    BY <1>1 DEF IInv, Typed, QueuedIsParked, UserUnlock, mutexVars, Goto, Parked
  <1>8. QED
    BY <1>3, <1>5, <1>6, <1>7 DEF IInv

\* Op 17's check without the lock only moves the caller.
LEMMA MutexWaitFastInv == ASSUME IInv, NEW t \in Threads, MutexWaitFast(t) PROVE IInv'
  <1> DEFINE l == IF Held THEN "waitLoad" ELSE "try"
  <1>1. Goto(t, l) /\ mwaiters' = mwaiters /\ pc[t] \notin Parked /\ l \notin Parked
    BY DEF MutexWaitFast, mutexVars, Parked
  <1>2. mwaiters \in Nat
    BY SleepersFinite DEF IInv, WaiterCountExact
  <1>3. WaiterCountExact'
    BY <1>1, <1>2, CountMoves DEF IInv
  <1>4. Typed'
    BY <1>1 DEF IInv, Typed, MutexWaitFast, mutexVars, Goto, Places, Labels
  <1>5. Owned'
    BY <1>1, FreeAssumption DEF IInv, Typed, Owned, MutexWaitFast, mutexVars, Goto
  <1>6. QueuedIsParked'
    BY <1>1 DEF IInv, Typed, QueuedIsParked, MutexWaitFast, mutexVars, Goto, Parked
  <1>7. QED
    BY <1>3, <1>4, <1>5, <1>6 DEF IInv

\* Op 17 takes the bucket and remembers the word; nobody parks yet.
LEMMA MutexWaitLoadInv == ASSUME IInv, NEW t \in Threads, MutexWaitLoad(t) PROVE IInv'
  <1> DEFINE l == IF Held THEN "waitSwap" ELSE "try"
  <1>1. Goto(t, l) /\ mwaiters' = mwaiters /\ pc[t] \notin Parked /\ l \notin Parked
    BY DEF MutexWaitLoad, mutexVars, Parked
  <1>2. mwaiters \in Nat
    BY SleepersFinite DEF IInv, WaiterCountExact
  <1>3. WaiterCountExact'
    BY <1>1, <1>2, CountMoves DEF IInv
  <1>4. Typed'
    BY <1>1 DEF IInv, Typed, MutexWaitLoad, mutexVars, Goto, Places, Labels
  <1>5. Owned'
    BY <1>1, FreeAssumption DEF IInv, Typed, Owned, MutexWaitLoad, mutexVars, Goto
  <1>6. QueuedIsParked'
    BY <1>1 DEF IInv, Typed, QueuedIsParked, MutexWaitLoad, mutexVars, Goto, Parked
  <1>7. QED
    BY <1>3, <1>4, <1>5, <1>6 DEF IInv

\* Op 18's check without the lock only moves the caller.
LEMMA MutexWakeFastInv == ASSUME IInv, NEW t \in Threads, MutexWakeFast(t) PROVE IInv'
  <1> DEFINE l == IF Held THEN "idle" ELSE "wakeLoad"
  <1>1. Goto(t, l) /\ mwaiters' = mwaiters /\ pc[t] \notin Parked /\ l \notin Parked
    BY DEF MutexWakeFast, mutexVars, Parked
  <1>2. mwaiters \in Nat
    BY SleepersFinite DEF IInv, WaiterCountExact
  <1>3. WaiterCountExact'
    BY <1>1, <1>2, CountMoves DEF IInv
  <1>4. Typed'
    BY <1>1 DEF IInv, Typed, MutexWakeFast, mutexVars, Goto, Places, Labels
  <1>5. Owned'
    BY <1>1, FreeAssumption DEF IInv, Typed, Owned, MutexWakeFast, mutexVars, Goto
  <1>6. QueuedIsParked'
    BY <1>1 DEF IInv, Typed, QueuedIsParked, MutexWakeFast, mutexVars, Goto, Parked
  <1>7. QED
    BY <1>3, <1>4, <1>5, <1>6 DEF IInv

\* Op 18 takes the bucket or gives up.
LEMMA MutexWakeLoadInv == ASSUME IInv, NEW t \in Threads, MutexWakeLoad(t) PROVE IInv'
  <1> DEFINE l == IF Held THEN "idle" ELSE "wakeSwap"
  <1>1. Goto(t, l) /\ mwaiters' = mwaiters /\ pc[t] \notin Parked /\ l \notin Parked
    BY DEF MutexWakeLoad, mutexVars, Parked
  <1>2. mwaiters \in Nat
    BY SleepersFinite DEF IInv, WaiterCountExact
  <1>3. WaiterCountExact'
    BY <1>1, <1>2, CountMoves DEF IInv
  <1>4. Typed'
    BY <1>1 DEF IInv, Typed, MutexWakeLoad, mutexVars, Goto, Places, Labels
  <1>5. Owned'
    BY <1>1, FreeAssumption DEF IInv, Typed, Owned, MutexWakeLoad, mutexVars, Goto
  <1>6. QueuedIsParked'
    BY <1>1 DEF IInv, Typed, QueuedIsParked, MutexWakeLoad, mutexVars, Goto, Parked
  <1>7. QED
    BY <1>3, <1>4, <1>5, <1>6 DEF IInv

\* The swap of op 18 retires CONTESTED on a word nobody owns, so that no owner is
\* lost (a plain store would lose one).
LEMMA MutexWakeSwapInv == ASSUME IInv, NEW t \in Threads, MutexWakeSwap(t) PROVE IInv'
  <1> DEFINE l == "notify"
  <1>1. Goto(t, l) /\ mwaiters' = mwaiters /\ pc[t] \notin Parked /\ l \notin Parked
    BY DEF MutexWakeSwap, mutexVars, Parked
  <1>2. mwaiters \in Nat
    BY SleepersFinite DEF IInv, WaiterCountExact
  <1>3. WaiterCountExact'
    BY <1>1, <1>2, CountMoves DEF IInv
  <1>4. m' \in WordType /\ m'.owner = m.owner
    <2>1. Unowned \in WordType /\ Unowned.owner = Free
      BY WordTyped DEF Unowned
    <2>2. m = Word(Free, TRUE) => m.owner = Free
      BY WordTyped
    <2>3. QED
      BY <2>1, <2>2 DEF MutexWakeSwap, IInv, Typed
  <1>5. Typed'
    BY <1>1, <1>4 DEF IInv, Typed, MutexWakeSwap, mutexVars, Goto, Places, Labels, NextGen, Unowned
  <1>6. Owned'
    BY <1>1, <1>4, FreeAssumption DEF IInv, Typed, Owned, MutexWakeSwap, mutexVars, Goto, NextGen, Unowned
  <1>7. QueuedIsParked'
    BY <1>1 DEF IInv, Typed, QueuedIsParked, MutexWakeSwap, mutexVars, Goto, Parked
  <1>8. QED
    BY <1>3, <1>5, <1>6, <1>7 DEF IInv

\* NotifyAll changes no word and no count.
LEMMA NotifyInv == ASSUME IInv, NEW t \in Threads, Notify(t) PROVE IInv'
  <1> DEFINE l == "idle"
  <1>1. Goto(t, l) /\ mwaiters' = mwaiters /\ pc[t] \notin Parked /\ l \notin Parked
    BY DEF Notify, mutexVars, Parked
  <1>2. mwaiters \in Nat
    BY SleepersFinite DEF IInv, WaiterCountExact
  <1>3. WaiterCountExact'
    BY <1>1, <1>2, CountMoves DEF IInv
  <1>4. Typed'
    BY <1>1 DEF IInv, Typed, Notify, mutexVars, Goto, Places, Labels
  <1>5. Owned'
    BY <1>1, FreeAssumption DEF IInv, Typed, Owned, Notify, mutexVars, Goto
  <1>6. QueuedIsParked'
    BY <1>1 DEF IInv, Typed, QueuedIsParked, Notify, mutexVars, Goto, Parked
  <1>7. QED
    BY <1>3, <1>4, <1>5, <1>6 DEF IInv

\* Op 4 takes a free word only.
LEMMA MutexTryLockInv == ASSUME IInv, NEW t \in Threads, MutexTryLock(t) PROVE IInv'
  <1> DEFINE l == "cs"
  <1>1. Goto(t, l) /\ mwaiters' = mwaiters /\ pc[t] \notin Parked /\ l \notin Parked
    BY DEF MutexTryLock, mutexVars, Parked
  <1>2. mwaiters \in Nat
    BY SleepersFinite DEF IInv, WaiterCountExact
  <1>3. WaiterCountExact'
    BY <1>1, <1>2, CountMoves DEF IInv
  <1>4. Typed'
    BY <1>1, WordTyped DEF IInv, Typed, MutexTryLock, mutexVars, Goto, Places, Labels, Held, WordType
  <1>5. Owned'
    BY <1>1, WordTyped, FreeAssumption DEF IInv, Typed, Owned, MutexTryLock, mutexVars, Goto, Held, WordType
  <1>6. QueuedIsParked'
    BY <1>1 DEF IInv, Typed, QueuedIsParked, MutexTryLock, mutexVars, Goto, Parked
  <1>7. QED
    BY <1>3, <1>4, <1>5, <1>6 DEF IInv

\* Op 6 gives up the word and leaves the mutex together.
LEMMA MutexUnlockInv == ASSUME IInv, NEW t \in Threads, MutexUnlock(t) PROVE IInv'
  <1> DEFINE l == "notify"
  <1>1. Goto(t, l) /\ mwaiters' = mwaiters /\ pc[t] \notin Parked /\ l \notin Parked
    BY DEF MutexUnlock, mutexVars, Parked
  <1>2. mwaiters \in Nat
    BY SleepersFinite DEF IInv, WaiterCountExact
  <1>3. WaiterCountExact'
    BY <1>1, <1>2, CountMoves DEF IInv
  <1>4. m' \in WordType /\ m'.owner = Free
    <2>1. (mwaiters > 1) \in BOOLEAN
      OBVIOUS
    <2>2. QED
      BY <2>1, WordTyped DEF MutexUnlock, ReleasedWord
  <1>5. Typed'
    BY <1>1, <1>4 DEF IInv, Typed, MutexUnlock, mutexVars, Goto, Places, Labels, NextGen
  <1>6. Owned'
    BY <1>1, <1>4, FreeAssumption DEF IInv, Typed, Owned, MutexUnlock, mutexVars, Goto, NextGen
  <1>7. QueuedIsParked'
    BY <1>1 DEF IInv, Typed, QueuedIsParked, MutexUnlock, mutexVars, Goto, Parked
  <1>8. QED
    BY <1>3, <1>5, <1>6, <1>7 DEF IInv

\* MUTEX_WAIT parks with the count raised, or returns with nothing changed
\* but perhaps the contested bit.
LEMMA MutexWaitSwapInv == ASSUME IInv, NEW t \in Threads, MutexWaitSwap(t) PROVE IInv'
  <1>1. pc[t] = "waitSwap" /\ queued' = queued /\ moved' = moved /\ stopping' = stopping /\ protocol' = protocol
    BY DEF MutexWaitSwap
  <1>2. mwaiters \in Nat
    BY SleepersFinite DEF IInv, WaiterCountExact
  <1>3. \/ Goto(t, "try") /\ mwaiters' = mwaiters
        \/ Goto(t, "parkedWait") /\ mwaiters' = mwaiters + 1
    BY DEF MutexWaitSwap
  <1>4. WaiterCountExact'
    <2>1. "parkedWait" \in Parked /\ "try" \notin Parked /\ "waitSwap" \notin Parked
      BY DEF Parked
    <2>2. CASE Goto(t, "try") /\ mwaiters' = mwaiters
      BY <1>1, <1>2, <2>1, <2>2, CountMoves DEF IInv
    <2>3. CASE Goto(t, "parkedWait") /\ mwaiters' = mwaiters + 1
      BY <1>1, <1>2, <2>1, <2>3, CountMoves DEF IInv
    <2>4. QED
      BY <1>3, <2>2, <2>3
  <1>5. m' \in WordType /\ m'.owner = m.owner
    BY ContestedWord DEF MutexWaitSwap, IInv, Typed
  <1>6. Typed'
    <2>1. Unowned \in WordType
      BY WordTyped DEF Unowned
    <2>2. seen' \in [Threads -> WordType] /\ bucket' \in Threads \cup {Free}
      BY <2>1 DEF MutexWaitSwap, IInv, Typed
    <2>3. notified' \in [Threads -> BOOLEAN]
      BY DEF MutexWaitSwap, IInv, Typed
    <2>4. pc' \in [Threads -> Places]
      BY <1>3 DEF Goto, IInv, Typed, Places, Labels
    <2>5. QED
      BY <1>1, <1>5, <2>2, <2>3, <2>4 DEF IInv, Typed
  <1>7. Owned'
    BY <1>1, <1>3, <1>5 DEF IInv, Typed, Owned, Goto
  <1>8. QueuedIsParked'
    BY <1>1, <1>3 DEF IInv, Typed, QueuedIsParked, Goto
  <1>9. QED
    BY <1>4, <1>6, <1>7, <1>8 DEF IInv

\* A MUTEX_WAIT sleeper sleeps on, or leaves the count on its way out.
LEMMA MutexWaitAgainInv == ASSUME IInv, NEW t \in Threads, MutexWaitAgain(t) PROVE IInv'
  <1>1. /\ pc[t] = "parkedWait" /\ m' = m /\ bucket' = bucket /\ seen' = seen
        /\ queued' = queued /\ stopping' = stopping /\ protocol' = protocol
    BY DEF MutexWaitAgain
  <1>2. mwaiters \in Nat
    BY SleepersFinite DEF IInv, WaiterCountExact
  <1>3. \/ pc' = pc /\ mwaiters' = mwaiters
        \/ Goto(t, "try") /\ mwaiters' = mwaiters - 1
    BY DEF MutexWaitAgain
  <1>4. WaiterCountExact'
    <2>1. "parkedWait" \in Parked /\ "try" \notin Parked
      BY DEF Parked
    <2>2. CASE pc' = pc /\ mwaiters' = mwaiters
      BY <2>2 DEF IInv, WaiterCountExact, Sleepers
    <2>3. CASE Goto(t, "try") /\ mwaiters' = mwaiters - 1
      BY <1>1, <1>2, <2>1, <2>3, CountMoves DEF IInv
    <2>4. QED
      BY <1>3, <2>2, <2>3
  <1>5. Typed'
    <2>1. pc' \in [Threads -> Places]
      BY <1>3 DEF Goto, IInv, Typed, Places, Labels
    <2>2. notified' \in [Threads -> BOOLEAN] /\ moved' \in [Threads -> BOOLEAN]
      BY DEF MutexWaitAgain, IInv, Typed
    <2>3. QED
      BY <1>1, <2>1, <2>2 DEF IInv, Typed
  <1>6. Owned' /\ QueuedIsParked'
    BY <1>1, <1>3 DEF IInv, Typed, Owned, QueuedIsParked, Goto
  <1>7. QED
    BY <1>4, <1>5, <1>6 DEF IInv

\* MUTEX_LOCK: interrupted, claimed, or parked and counted once.
LEMMA LockRoundInv ==
  ASSUME IInv, NEW t \in Threads, pc[t] \in {"lock", "parkedLock"}, LockRound(t)
  PROVE  IInv'
  <1>1. bucket' = bucket /\ moved' = moved /\ seen' = seen /\ stopping' = stopping /\ protocol' = protocol
    BY DEF LockRound
  <1>2. mwaiters \in Nat
    BY SleepersFinite DEF IInv, WaiterCountExact
  <1>3. queued[t] <=> pc[t] \in Parked
    BY DEF IInv, QueuedIsParked, Parked
  <1>4. \/ /\ Goto(t, "idle") /\ m' = m /\ Dequeue(t)
        \/ /\ Goto(t, "cs") /\ ~Held /\ m' = Word(t, m.contested) /\ Dequeue(t)
        \/ /\ Goto(t, "parkedLock") /\ m' = [m EXCEPT !.contested = TRUE]
           /\ mwaiters' = (IF queued[t] THEN mwaiters ELSE mwaiters + 1)
           /\ queued' = [queued EXCEPT ![t] = TRUE]
    BY DEF LockRound
  <1>5. "idle" \notin Parked /\ "cs" \notin Parked /\ "parkedLock" \in Parked
    BY DEF Parked
  <1>6. notified' \in [Threads -> BOOLEAN]
    BY DEF LockRound, IInv, Typed
  <1>7. CASE Goto(t, "idle") /\ m' = m /\ Dequeue(t)
    <2>1. WaiterCountExact'
      BY <1>2, <1>3, <1>5, <1>7, CountMoves DEF IInv, Dequeue
    <2>2. QED
      BY <1>1, <1>6, <1>7, <2>1
         DEF IInv, Typed, Owned, QueuedIsParked, Goto, Dequeue, Places, Labels
  <1>8. CASE Goto(t, "cs") /\ ~Held /\ m' = Word(t, m.contested) /\ Dequeue(t)
    <2>1. WaiterCountExact'
      BY <1>2, <1>3, <1>5, <1>8, CountMoves DEF IInv, Dequeue
    <2>2. m' \in WordType /\ m'.owner = t
      BY <1>8, WordTyped DEF IInv, Typed, WordType
    <2>3. Typed' /\ QueuedIsParked'
      BY <1>1, <1>6, <1>8, <2>2 DEF IInv, Typed, QueuedIsParked, Goto, Dequeue, Places, Labels
    <2>4. Owned'
      BY <1>8, <2>2, FreeAssumption DEF IInv, Typed, Owned, Goto, Held
    <2>5. QED
      BY <2>1, <2>3, <2>4 DEF IInv
  <1>9. CASE /\ Goto(t, "parkedLock") /\ m' = [m EXCEPT !.contested = TRUE]
             /\ mwaiters' = (IF queued[t] THEN mwaiters ELSE mwaiters + 1)
             /\ queued' = [queued EXCEPT ![t] = TRUE]
    <2>1. WaiterCountExact'
      BY <1>2, <1>3, <1>5, <1>9, CountMoves DEF IInv
    <2>2. m' \in WordType /\ m'.owner = m.owner
      BY <1>9, ContestedWord DEF IInv, Typed
    <2>3. Typed' /\ QueuedIsParked'
      BY <1>1, <1>6, <1>9, <2>2 DEF IInv, Typed, QueuedIsParked, Goto, Places, Labels
    <2>4. Owned'
      BY <1>9, <2>2 DEF IInv, Typed, Owned, Goto
    <2>5. QED
      BY <2>1, <2>3, <2>4 DEF IInv
  <1>10. QED
    BY <1>4, <1>7, <1>8, <1>9

\* Every step of every thread, and stuttering, keeps the invariant.
LEMMA NextIInv == IInv /\ [Next]_vars => IInv'
  <1> SUFFICES ASSUME IInv, [Next]_vars PROVE IInv'
    OBVIOUS
  <1>1. CASE Stop \/ UNCHANGED vars
    <2>1. UNCHANGED <<mutexVars, pc, protocol>> /\ stopping' \in BOOLEAN
      BY <1>1 DEF Stop, vars, IInv, Typed
    <2>2. QED
      BY <2>1 DEF mutexVars, IInv, Typed, Owned, QueuedIsParked,
                  WaiterCountExact, Sleepers
  <1>2. ASSUME NEW t \in Threads,
               UserWant(t) \/ MutexTryLock(t) \/ User(t) \/ Release(t)
        PROVE  IInv'
    BY <1>2, UserWantInv, MutexTryLockInv, UserLockInv, UserEnterInv, UserUnlockInv,
       MutexUnlockInv DEF User, Release
  <1>3. ASSUME NEW t \in Threads, Kernel(t)
        PROVE  IInv'
    BY <1>3, MutexWaitFastInv, MutexWaitLoadInv, MutexWaitSwapInv, MutexWakeFastInv,
       MutexWakeLoadInv, MutexWakeSwapInv, NotifyInv, LockRoundInv DEF Kernel, MutexLock
  <1>4. ASSUME NEW t \in Threads, Again(t)
        PROVE  IInv'
    BY <1>4, MutexWaitAgainInv, LockRoundInv DEF Again, MutexLockAgain
  <1>5. QED
    BY <1>1, <1>2, <1>3, <1>4 DEF Next

\* An action of Umutex moves one thread, between places of Umutex.
LEMMA NextGoes ==
  ASSUME [Next]_vars
  PROVE  \/ pc' = pc
         \/ \E t \in Threads, l \in Labels : pc[t] \in Labels /\ Goto(t, l)
  BY DEF Next, vars, Stop, UserWant, MutexTryLock, User, UserLock, UserEnter, Release,
         UserUnlock, MutexUnlock, Kernel, MutexWaitFast, MutexWaitLoad, MutexWaitSwap,
         MutexWakeFast, MutexWakeLoad, MutexWakeSwap, Notify, MutexLock, Again,
         MutexWaitAgain, MutexLockAgain, LockRound, Labels

\* Umutex's own actions send nobody into CV_WAIT.
LEMMA NextLabels ==
  ASSUME pc \in [Threads -> Labels], [Next]_vars
  PROVE  pc' \in [Threads -> Labels]
  BY NextGoes DEF Goto

\* The idle threads are not in CV_WAIT.
LEMMA InitLabels == Init => pc \in [Threads -> Labels]
  BY DEF Init, Labels

\* The word, the bucket, the count and the threads' positions stay in range:
\* in particular mutex_waiters never goes below zero.
THEOREM MutexTyped == Spec => []TypeOK
  <1> DEFINE InLabels == pc \in [Threads -> Labels]
  <1>1. IInv /\ InLabels => TypeOK
    BY SleepersFinite DEF IInv, Typed, TypeOK, WaiterCountExact
  <1>2. InLabels /\ [Next]_vars => InLabels'
    BY NextLabels
  <1>3. QED
    BY InitIInv, NextIInv, InitLabels, <1>1, <1>2, PTL DEF Spec

\* Any number of threads, any of the three protocols: the userland swaps and
\* the kernel's ops 4, 5 and 6 never let two threads in.
THEOREM MutexExcludes == Spec => []MutualExclusion
  <1>1. TypeOK /\ IInv => MutualExclusion
    BY DEF IInv, Owned, MutualExclusion, TypeOK, Labels
  <1>2. QED
    BY InitIInv, NextIInv, MutexTyped, <1>1, PTL DEF Spec

\* mutex_waiters is exact on every exit path of ops 5 and 17.
THEOREM MutexCountsWaiters == Spec => []WaiterCountExact
  <1>1. IInv => WaiterCountExact
    BY DEF IInv
  <1>2. QED
    BY InitIInv, NextIInv, <1>1, PTL DEF Spec
-----------------------------------------------------------------------------
(* The contested handshake.  ContestedChain is not inductive: it must also  *)
(* hold while the word is free, and a MUTEX_WAIT sleeper that was notified  *)
(* but not released sleeps on, so for it the notification does not count.   *)

Announced ==
  \A t \in Threads :
    /\ pc[t] = "parkedWait" => m.contested \/ moved[t]
    /\ pc[t] = "parkedLock" => \/ m.contested
                               \/ notified[t]
                               \/ \E u \in Threads : pc[u] = "notify"

\* A step that keeps the announcing bit, or sets it, and parks nobody.
LEMMA BitKept ==
  ASSUME IInv, Announced, NEW t \in Threads, NEW l \in Places \ Parked, Goto(t, l),
         m.contested => m'.contested, moved' = moved, notified' = notified,
         pc[t] # "notify"
  PROVE  Announced'
  BY DEF IInv, Typed, Announced, Goto, Parked

\* The steps that only move the caller keep every sleeper announced.
LEMMA QuietAnnounced ==
  ASSUME IInv, Announced, NEW t \in Threads,
         UserWant(t) \/ UserEnter(t) \/ MutexWaitFast(t) \/ MutexWaitLoad(t)
           \/ MutexWakeFast(t) \/ MutexWakeLoad(t)
  PROVE  Announced'
  <1>1. m' = m /\ moved' = moved /\ notified' = notified /\ pc[t] # "notify"
    BY DEF UserWant, UserEnter, MutexWaitFast, MutexWaitLoad, MutexWakeFast,
           MutexWakeLoad, mutexVars
  <1>2. \E l \in Places \ Parked : Goto(t, l)
    BY DEF UserWant, UserEnter, MutexWaitFast, MutexWaitLoad, MutexWakeFast,
           MutexWakeLoad, Places, Labels, Parked
  <1>3. QED
    BY <1>1, <1>2, BitKept

\* Every way to take a free word keeps its contested bit.
LEMMA TakeAnnounced ==
  ASSUME IInv, Announced, NEW t \in Threads, UserLock(t) \/ MutexTryLock(t)
  PROVE  Announced'
  <1>1. /\ m' = Word(t, m.contested) /\ moved' = moved /\ notified' = notified
        /\ pc[t] # "notify" /\ Goto(t, "cs")
    BY DEF UserLock, MutexTryLock
  <1>2. m'.contested = m.contested
    BY <1>1, WordTyped DEF IInv, Typed, WordType
  <1>3. "cs" \in Places \ Parked
    BY DEF Places, Labels, Parked
  <1>4. QED
    BY <1>1, <1>2, <1>3, BitKept

\* libthr's release keeps the bit, unless it is _thr_umutex_unlock2.
LEMMA UserUnlockAnnounced ==
  ASSUME protocol # "unlock2", IInv, Announced, NEW t \in Threads, UserUnlock(t)
  PROVE  Announced'
  <1>1. /\ moved' = moved /\ notified' = notified /\ pc[t] # "notify"
        /\ m' = Word(Free, m.contested /\ protocol = "normal")
        /\ protocol = "pi" => ~m.contested
    BY DEF UserUnlock
  <1>2. m'.contested = (m.contested /\ protocol = "normal")
    BY <1>1, WordTyped DEF IInv, Typed, WordType
  <1>3. m.contested => m'.contested
    BY <1>1, <1>2, ProtocolAssumption DEF IInv, Typed
  <1>4. \E l \in Places \ Parked : Goto(t, l)
    BY DEF UserUnlock, Places, Labels, Parked
  <1>5. QED
    BY <1>1, <1>3, <1>4, BitKept

\* A thread parks on a word it has just marked, or leaves.
LEMMA MutexWaitSwapAnnounced ==
  ASSUME IInv, Announced, NEW t \in Threads, MutexWaitSwap(t)
  PROVE  Announced'
  <1>1. pc[t] = "waitSwap" /\ moved' = moved
    BY DEF MutexWaitSwap
  <1>2. CASE Goto(t, "parkedWait") /\ m' = [m EXCEPT !.contested = TRUE]
    <2>1. m'.contested
      BY <1>2, ContestedWord DEF IInv, Typed
    <2>2. QED
      BY <2>1 DEF Announced
  <1>3. CASE Goto(t, "try") /\ notified' = notified
             /\ (m' = m \/ m' = [m EXCEPT !.contested = TRUE])
    <2>1. m.contested => m'.contested
      BY <1>3, ContestedWord DEF IInv, Typed
    <2>2. "try" \in Places \ Parked
      BY DEF Places, Labels, Parked
    <2>3. QED
      BY <1>1, <1>3, <2>1, <2>2, BitKept
  <1>4. QED
    BY <1>2, <1>3 DEF MutexWaitSwap

\* A sleeper that sleeps on was not released, so the word is still marked.
LEMMA MutexWaitAgainAnnounced ==
  ASSUME IInv, Announced, NEW t \in Threads, MutexWaitAgain(t)
  PROVE  Announced'
  <1>1. /\ pc[t] = "parkedWait" /\ m' = m
        /\ notified' = [notified EXCEPT ![t] = FALSE]
        /\ \/ pc' = pc /\ moved' = moved
           \/ Goto(t, "try") /\ moved' = [moved EXCEPT ![t] = FALSE]
    BY DEF MutexWaitAgain
  <1>2. QED
    BY <1>1 DEF IInv, Typed, Announced, Goto

\* MUTEX_WAKE retires the bit only together with a move of the generation,
\* and goes on to notify.
LEMMA MutexWakeSwapAnnounced ==
  ASSUME IInv, Announced, NEW t \in Threads, MutexWakeSwap(t)
  PROVE  Announced'
  <1>1. Goto(t, "notify") /\ mwaiters' = mwaiters /\ "notify" \notin Parked
    BY DEF MutexWakeSwap, Parked
  <1>2. pc' \in [Threads -> Places] /\ pc'[t] = "notify"
    BY <1>1 DEF Goto, IInv, Typed, Places, Labels
  <1>3. CASE mwaiters # 0
    <2>1. \A u \in Threads : moved'[u] <=> (moved[u] \/ pc[u] = "parkedWait")
      BY <1>3 DEF MutexWakeSwap, NextGen, IInv, Typed
    <2>2. QED
      BY <1>1, <1>2, <2>1 DEF Announced, Goto, IInv, Typed
  <1>4. CASE mwaiters = 0
    <2>1. Sleepers = {}
      BY <1>4, SleepersFinite, FS_EmptySet DEF IInv, WaiterCountExact
    <2>2. \A u \in Threads : pc[u] \notin Parked
      BY <2>1 DEF Sleepers
    <2>3. QED
      BY <1>1, <1>2, <2>2 DEF Announced, Goto, Parked, IInv, Typed
  <1>5. QED
    BY <1>3, <1>4

\* NotifyAll hands the announcement from the waker to the sleepers themselves.
LEMMA NotifyAnnounced ==
  ASSUME IInv, Announced, NEW t \in Threads, Notify(t)
  PROVE  Announced'
  <1>1. m' = m /\ moved' = moved /\ Goto(t, "idle")
    BY DEF Notify
  <1>2. \A u \in Threads : pc[u] \in Parked => notified'[u]
    BY DEF Notify
  <1>3. QED
    BY <1>1, <1>2 DEF IInv, Typed, Announced, Goto, Parked

\* MUTEX_UNLOCK moves the generation and goes on to notify.
LEMMA MutexUnlockAnnounced ==
  ASSUME IInv, Announced, NEW t \in Threads, MutexUnlock(t)
  PROVE  Announced'
  <1>1. Goto(t, "notify")
    BY DEF MutexUnlock
  <1>2. pc'[t] = "notify"
    BY <1>1 DEF Goto, IInv, Typed
  <1>3. \A u \in Threads : moved'[u] <=> (moved[u] \/ pc[u] = "parkedWait")
    BY DEF MutexUnlock, NextGen, IInv, Typed
  <1>4. QED
    BY <1>1, <1>2, <1>3 DEF Announced, Goto, IInv, Typed

\* MUTEX_LOCK parks on a word it has marked and claims one as it is.
LEMMA LockRoundAnnounced ==
  ASSUME IInv, Announced, NEW t \in Threads, pc[t] \in {"lock", "parkedLock"}, LockRound(t)
  PROVE  Announced'
  <1>1. moved' = moved /\ notified' = [notified EXCEPT ![t] = FALSE]
    BY DEF LockRound
  <1>2. CASE Goto(t, "idle") /\ m' = m
    BY <1>1, <1>2 DEF IInv, Typed, Announced, Goto
  <1>3. CASE Goto(t, "cs") /\ m' = Word(t, m.contested)
    <2>1. m'.contested = m.contested
      BY <1>3, WordTyped DEF IInv, Typed, WordType
    <2>2. QED
      BY <1>1, <1>3, <2>1 DEF IInv, Typed, Announced, Goto
  <1>4. CASE m' = [m EXCEPT !.contested = TRUE]
    <2>1. m'.contested
      BY <1>4, ContestedWord DEF IInv, Typed
    <2>2. QED
      BY <2>1 DEF Announced
  <1>5. QED
    BY <1>2, <1>3, <1>4 DEF LockRound

\* The way libthr uses the mutex never changes.
LEMMA ProtocolFixed == [Next]_vars => protocol' = protocol
  BY DEF Next, vars, Stop, UserWant, MutexTryLock, User, UserLock, UserEnter, Release,
         UserUnlock, MutexUnlock, Kernel, MutexWaitFast, MutexWaitLoad, MutexWaitSwap,
         MutexWakeFast, MutexWakeLoad, MutexWakeSwap, Notify, MutexLock, Again,
         MutexWaitAgain, MutexLockAgain, LockRound

\* Every step of the protocols "normal" and "pi" keeps every sleeper announced.
LEMMA NextAnnounced ==
  ASSUME protocol # "unlock2", IInv, Announced, [Next]_vars
  PROVE  Announced'
  <1>1. CASE Stop \/ UNCHANGED vars
    BY <1>1 DEF Stop, vars, mutexVars, Announced
  <1>2. ASSUME NEW t \in Threads,
               UserWant(t) \/ MutexTryLock(t) \/ User(t) \/ Release(t)
        PROVE  Announced'
    BY <1>2, QuietAnnounced, TakeAnnounced, UserUnlockAnnounced, MutexUnlockAnnounced
       DEF User, Release
  <1>3. ASSUME NEW t \in Threads, Kernel(t)
        PROVE  Announced'
    BY <1>3, QuietAnnounced, MutexWaitSwapAnnounced, MutexWakeSwapAnnounced,
       NotifyAnnounced, LockRoundAnnounced DEF Kernel, MutexLock
  <1>4. ASSUME NEW t \in Threads, Again(t)
        PROVE  Announced'
    BY <1>4, MutexWaitAgainAnnounced, LockRoundAnnounced DEF Again, MutexLockAgain
  <1>5. QED
    BY <1>1, <1>2, <1>3, <1>4 DEF Next

\* With libthr's own release, or the kernel's, no number of threads breaks the
\* contested chain: a sleeper under a held word is always announced.
THEOREM MutexChain == Spec => []ContestedChain
  <1> DEFINE Chain == protocol # "unlock2" => Announced
  <1>1. Init => Chain
    BY DEF Init, Announced
  <1>2. Chain => ContestedChain
    BY DEF Announced, ContestedChain, Sleepers, Parked
  <1>3. IInv /\ Chain /\ [Next]_vars => Chain'
    BY NextAnnounced, ProtocolFixed
  <1>4. QED
    BY InitIInv, NextIInv, <1>1, <1>2, <1>3, PTL DEF Spec

\* Whatever the protocol and however many threads run it, ops 4, 5, 6, 17, 18
\* and 23 exclude, count their waiters exactly and keep contested words contested.
THEOREM MutexSafe == Spec => []MutexInv
  BY MutexTyped, MutexExcludes, MutexCountsWaiters, MutexChain, PTL DEF MutexInv

-----------------------------------------------------------------------------
(* The condition variable                                                  *)

\* The condition variable's own variables are well typed.
CondTyped ==
  /\ hasWaiters \in BOOLEAN
  /\ waiters \in Nat
  /\ signals \in Nat
  /\ covered \in [Threads -> BOOLEAN]
  /\ cmoved \in [Threads -> BOOLEAN]
  /\ use \in Uses

\* Only a broadcast moves the generation of the ucond's channel.
NoBroadcastSeen ==
  "broadcast" \notin use.wakes => \A t \in Threads : ~cmoved[t]

CondInv ==
  CondTyped /\ HasWaitersUp /\ CvWaitersExact /\ PendingSignalHasTaker /\ NoBroadcastSeen

CvIInv == IInv /\ CondInv

\* The sleepers that a pending signal may release.
CoveredSleepers == {t \in CvSleepers : covered[t]}
-----------------------------------------------------------------------------
(* The mutex half.                                                          *)

\* The two places of CV_WAIT are places, and no mutex operation parks there.
LEMMA CvPlaces ==
  /\ CvParked \subseteq Places /\ CvParked \cap Parked = {} /\ CvParked \cap Labels = {}
  /\ {"cs", "try", "idle"} \subseteq Places
  /\ "cs" \notin Parked /\ "try" \notin Parked
  BY DEF CvParked, Parked, Places, Labels

\* CV_WAIT's release of the mutex gives up the word on the way to the sleep.
LEMMA ReleaseMutexInv ==
  ASSUME IInv, NEW t \in Threads, pc[t] \in {"cs", "cvRelease"},
         ReleaseMutex(t), Goto(t, "parkedCv"),
         UNCHANGED <<bucket, mwaiters, seen, queued, stopping, protocol>>
  PROVE  IInv'
  <1>1. pc[t] \notin Parked /\ "parkedCv" \notin Parked /\ "parkedCv" \in Places
    BY DEF Parked, Places
  <1>2. mwaiters \in Nat
    BY SleepersFinite DEF IInv, WaiterCountExact
  <1>3. WaiterCountExact'
    BY <1>1, <1>2, CountMoves DEF IInv
  <1>4. m' \in WordType /\ m'.owner = Free
    <2>1. (mwaiters > 1) \in BOOLEAN
      OBVIOUS
    <2>2. QED
      BY <2>1, WordTyped DEF ReleaseMutex, ReleasedWord
  <1>5. moved' \in [Threads -> BOOLEAN] /\ notified' \in [Threads -> BOOLEAN]
    <2>1. \A u \in Threads : (moved[u] \/ pc[u] = "parkedWait") \in BOOLEAN
      OBVIOUS
    <2>2. \A u \in Threads : (notified[u] \/ pc[u] \in Parked \/ u = t) \in BOOLEAN
      OBVIOUS
    <2>3. QED
      BY <2>1, <2>2 DEF ReleaseMutex, NextGen
  <1>6. Typed'
    BY <1>1, <1>4, <1>5 DEF IInv, Typed, Goto
  <1>7. Owned'
    BY <1>4, FreeAssumption DEF IInv, Typed, Owned, Goto
  <1>8. QueuedIsParked'
    BY DEF IInv, Typed, QueuedIsParked, Goto
  <1>9. QED
    BY <1>3, <1>6, <1>7, <1>8 DEF IInv

\* A step that at most moves one thread between "cs" and "cvRelease", or out
\* of its sleep, leaves the mutex alone.
LEMMA MutexKept ==
  ASSUME IInv, NEW t \in Threads,
         UNCHANGED <<m, bucket, mwaiters, moved, seen, queued, stopping, protocol>>,
         notified' \in [Threads -> BOOLEAN],
         \/ pc' = pc
         \/ pc[t] = "cs" /\ Goto(t, "cvRelease")
         \/ pc[t] = "parkedCv" /\ Goto(t, "try")
  PROVE  IInv'
  <1>1. Typed'
    BY DEF IInv, Typed, Goto, Places, Labels
  <1>2. Owned' /\ QueuedIsParked'
    BY DEF IInv, Typed, Owned, QueuedIsParked, Goto
  <1>3. Sleepers' = Sleepers
    BY DEF Sleepers, IInv, Typed, Goto, Parked
  <1>4. WaiterCountExact'
    BY <1>3 DEF IInv, WaiterCountExact
  <1>5. QED
    BY <1>1, <1>2, <1>4 DEF IInv

\* CvNotifyAll leaves a flag per thread.
LEMMA CvNotifyAllTyped == CvNotifyAll => notified' \in [Threads -> BOOLEAN]
  <1>1. \A u \in Threads : (notified[u] \/ pc[u] = "parkedCv") \in BOOLEAN
    OBVIOUS
  <1>2. QED
    BY <1>1 DEF CvNotifyAll

\* Every operation of the ucond keeps the invariant of the mutex.
LEMMA CvStepIInv ==
  ASSUME IInv, NEW t \in Threads, CvStep(t)
  PROVE  IInv'
  <1>1. CASE CvWait(t)
    <2>1. CASE use.same
      BY <1>1, <2>1, ReleaseMutexInv DEF CvWait
    <2>2. CASE ~use.same
      <3>1. /\ UNCHANGED <<m, bucket, mwaiters, moved, seen, queued, stopping, protocol>>
            /\ notified' = notified /\ pc[t] = "cs" /\ Goto(t, "cvRelease")
        BY <1>1, <2>2 DEF CvWait
      <3>2. QED
        BY <3>1, MutexKept DEF IInv, Typed
    <2>3. QED
      BY <2>1, <2>2
  <1>2. CASE CvRelease(t)
    BY <1>2, ReleaseMutexInv DEF CvRelease
  <1>3. CASE CvAgain(t) \/ CvTimeout(t)
    <2>1. /\ UNCHANGED <<m, bucket, mwaiters, moved, seen, queued, stopping, protocol>>
          /\ notified' = [notified EXCEPT ![t] = FALSE] /\ pc[t] = "parkedCv"
          /\ pc' = pc \/ Goto(t, "try")
      BY <1>3 DEF CvAgain, CvTimeout, CvLeave
    <2>2. notified' \in [Threads -> BOOLEAN]
      BY <2>1 DEF IInv, Typed
    <2>3. QED
      BY <2>1, <2>2, MutexKept
  <1>4. CASE CvSignal(t) \/ CvBroadcast(t)
    <2>1. /\ UNCHANGED <<m, bucket, mwaiters, moved, seen, queued, stopping, protocol>>
          /\ CvNotifyAll /\ pc' = pc
      BY <1>4 DEF CvSignal, CvBroadcast
    <2>2. QED
      BY <2>1, CvNotifyAllTyped, MutexKept
  <1>5. QED
    BY <1>1, <1>2, <1>3, <1>4 DEF CvStep
-----------------------------------------------------------------------------
(* Counting the sleepers of the ucond.                                      *)

\* There are finitely many of them.
LEMMA CvSleepersFinite ==
  /\ IsFiniteSet(CvSleepers) /\ Cardinality(CvSleepers) \in Nat
  /\ IsFiniteSet(CoveredSleepers) /\ Cardinality(CoveredSleepers) \in Nat
  <1>1. CvSleepers \subseteq Threads /\ CoveredSleepers \subseteq Threads
    BY DEF CvSleepers, CoveredSleepers
  <1>2. QED
    BY <1>1, ThreadsAssumption, FS_Subset, FS_CardinalityType

\* A thread that enters CV_WAIT is one sleeper more; its ticket is past every
\* pending signal, so that none of them counts for it.
LEMMA SleeperEnters ==
  ASSUME IInv, CondTyped, NEW t \in Threads, NEW l \in CvParked, Goto(t, l),
         pc[t] \notin CvParked, covered' = [covered EXCEPT ![t] = FALSE]
  PROVE  /\ Cardinality(CvSleepers') = Cardinality(CvSleepers) + 1
         /\ CoveredSleepers' = CoveredSleepers
  <1>1. CvSleepers' = CvSleepers \cup {t} /\ t \notin CvSleepers
    BY DEF CvSleepers, Goto, IInv, Typed
  <1>2. Cardinality(CvSleepers \cup {t}) = Cardinality(CvSleepers) + 1
    BY <1>1, CvSleepersFinite, FS_AddElement
  <1>3. CoveredSleepers' = CoveredSleepers
    BY <1>1 DEF CoveredSleepers, CondTyped, CvSleepers
  <1>4. QED
    BY <1>1, <1>2, <1>3

\* A thread that leaves is one sleeper less, and one covered sleeper less if
\* it was covered.
LEMMA SleeperLeaves ==
  ASSUME IInv, CondTyped, NEW t \in Threads, Goto(t, "try"), pc[t] = "parkedCv",
         covered' = [covered EXCEPT ![t] = FALSE]
  PROVE  /\ CvSleepers' = CvSleepers \ {t} /\ t \in CvSleepers
         /\ Cardinality(CvSleepers') = Cardinality(CvSleepers) - 1
         /\ Cardinality(CoveredSleepers') =
              IF covered[t] THEN Cardinality(CoveredSleepers) - 1
                            ELSE Cardinality(CoveredSleepers)
  <1>1. CvSleepers' = CvSleepers \ {t} /\ t \in CvSleepers
    BY DEF CvSleepers, CvParked, Goto, IInv, Typed
  <1>2. Cardinality(CvSleepers \ {t}) = Cardinality(CvSleepers) - 1
    BY <1>1, CvSleepersFinite, FS_RemoveElement
  <1>3. CoveredSleepers' = CoveredSleepers \ {t} /\ (t \in CoveredSleepers <=> covered[t])
    BY <1>1 DEF CoveredSleepers, CondTyped, CvSleepers
  <1>4. Cardinality(CoveredSleepers \ {t}) =
          IF t \in CoveredSleepers THEN Cardinality(CoveredSleepers) - 1
                                   ELSE Cardinality(CoveredSleepers)
    BY CvSleepersFinite, FS_RemoveElement
  <1>5. QED
    BY <1>1, <1>2, <1>3, <1>4

\* The mutex operations move nobody in or out of the ucond, and a stop is final.
LEMMA NextKeepsSleepers ==
  ASSUME IInv, [Next]_vars
  PROVE  CvSleepers' = CvSleepers /\ (stopping => stopping')
  <1>1. CvSleepers' = CvSleepers
    <2>1. CASE pc' = pc
      BY <2>1 DEF CvSleepers
    <2>2. ASSUME NEW t \in Threads, NEW l \in Labels, pc[t] \in Labels, Goto(t, l)
          PROVE  CvSleepers' = CvSleepers
      <3>1. pc[t] \notin CvParked /\ l \notin CvParked
        BY <2>2, CvPlaces
      <3>2. QED
        BY <2>2, <3>1 DEF CvSleepers, Goto, IInv, Typed
    <2>3. QED
      BY <2>1, <2>2, NextGoes
  <1>2. stopping => stopping'
    BY DEF Next, vars, Stop, UserWant, MutexTryLock, User, UserLock, UserEnter, Release,
           UserUnlock, MutexUnlock, Kernel, MutexWaitFast, MutexWaitLoad, MutexWaitSwap,
           MutexWakeFast, MutexWakeLoad, MutexWakeSwap, Notify, MutexLock, Again,
           MutexWaitAgain, MutexLockAgain, LockRound
  <1>3. QED
    BY <1>1, <1>2
-----------------------------------------------------------------------------
(* The condition variable's half.                                           *)

\* What a leaving waiter leaves behind: it is the last one exactly when the
\* count was one, and a signal it did not take is left to a covered sleeper.
LEMMA LeaveInv ==
  ASSUME CvIInv, ~stopping, NEW t \in Threads, pc[t] = "parkedCv", stopping' = stopping,
         NEW left, CvLeave(t, left),
         left \in Nat,
         "broadcast" \notin use.wakes =>
           left <= (IF covered[t] THEN Cardinality(CoveredSleepers) - 1
                                  ELSE Cardinality(CoveredSleepers))
  PROVE  CondInv'
  <1>1. IInv /\ CondTyped /\ waiters = Cardinality(CvSleepers)
    BY DEF CvIInv, CondInv, CvWaitersExact
  <1>2. /\ CvSleepers' = CvSleepers \ {t} /\ t \in CvSleepers
        /\ Cardinality(CvSleepers') = Cardinality(CvSleepers) - 1
        /\ Cardinality(CoveredSleepers') =
             IF covered[t] THEN Cardinality(CoveredSleepers) - 1
                           ELSE Cardinality(CoveredSleepers)
    BY <1>1, SleeperLeaves DEF CvLeave
  <1>3. /\ IsFiniteSet(CvSleepers) /\ waiters \in Nat
        /\ IsFiniteSet(CvSleepers') /\ Cardinality(CvSleepers') \in Nat
        /\ Cardinality(CoveredSleepers) \in Nat
        /\ Cardinality(CoveredSleepers') \in Nat
    <2>1. IsFiniteSet(CvSleepers') /\ Cardinality(CvSleepers') \in Nat
      BY <1>2, CvSleepersFinite, FS_Subset, FS_CardinalityType
    <2>2. covered[t] => Cardinality(CoveredSleepers) >= 1
      <3>1. covered[t] => t \in CoveredSleepers
        BY <1>2 DEF CoveredSleepers
      <3>2. covered[t] => CoveredSleepers # {}
        BY <3>1
      <3>3. QED
        BY <3>2, CvSleepersFinite, FS_EmptySet
    <2>3. QED
      BY <1>1, <1>2, <2>1, <2>2, CvSleepersFinite DEF CondTyped
  <1>4. CondTyped'
    <2>1. waiters' \in Nat /\ signals' \in Nat
      BY <1>1, <1>2, <1>3 DEF CvLeave
    <2>2. QED
      BY <1>1, <2>1 DEF CvLeave, CondTyped
  <1>5. CvWaitersExact'
    BY <1>1, <1>2, <1>3 DEF CvLeave, CvWaitersExact
  <1>6. HasWaitersUp'
    <2>1. CvSleepers' # {} => Cardinality(CvSleepers') # 0
      BY <1>3, FS_EmptySet
    <2>2. CvSleepers' # {} => waiters # 1
      BY <1>1, <1>2, <1>3, <2>1
    <2>3. hasWaiters' = (waiters # 1)
      BY DEF CvLeave
    <2>4. QED
      BY <2>2, <2>3, Zenon DEF HasWaitersUp
  <1>7. PendingSignalHasTaker'
    BY <1>2, <1>3 DEF CvLeave, PendingSignalHasTaker, CoveredSleepers
  <1>8. NoBroadcastSeen'
    BY <1>1 DEF CvLeave, NoBroadcastSeen, CvIInv, CondInv, CondTyped
  <1>9. QED
    BY <1>4, <1>5, <1>6, <1>7, <1>8 DEF CondInv

\* CV_WAIT raises c_has_waiters and the count together with the new sleeper.
LEMMA CvWaitCond ==
  ASSUME CvIInv, NEW t \in Threads, CvWait(t)
  PROVE  CondInv'
  <1>1. IInv /\ CondTyped /\ pc[t] = "cs" /\ pc[t] \notin CvParked
    BY DEF CvIInv, CondInv, CvWait, CvParked
  <1>2. \E l \in CvParked : Goto(t, l)
    BY DEF CvWait, CvParked
  <1>3. /\ Cardinality(CvSleepers') = Cardinality(CvSleepers) + 1
        /\ CoveredSleepers' = CoveredSleepers
    BY <1>1, <1>2, SleeperEnters DEF CvWait
  <1>4. CondTyped'
    BY <1>1 DEF CvWait, CondTyped
  <1>5. HasWaitersUp'
    BY DEF CvWait, HasWaitersUp
  <1>6. CvWaitersExact'
    BY <1>3 DEF CvWait, CvWaitersExact, CvIInv, CondInv
  <1>7. PendingSignalHasTaker'
    BY <1>3 DEF CvWait, PendingSignalHasTaker, CoveredSleepers, CvIInv, CondInv
  <1>8. NoBroadcastSeen'
    BY <1>1 DEF CvWait, NoBroadcastSeen, CvIInv, CondInv, CondTyped
  <1>9. QED
    BY <1>4, <1>5, <1>6, <1>7, <1>8 DEF CondInv

\* A step that keeps the sleepers and the ucond's variables keeps the half.
LEMMA CondKept ==
  ASSUME CondInv, UNCHANGED condVars, CvSleepers' = CvSleepers, stopping => stopping'
  PROVE  CondInv'
  <1>1. CondTyped'
    BY DEF CondInv, CondTyped, condVars
  <1>2. HasWaitersUp'
    BY DEF CondInv, HasWaitersUp, condVars
  <1>3. CvWaitersExact'
    BY DEF CondInv, CvWaitersExact, condVars
  <1>4. PendingSignalHasTaker'
    BY DEF CondInv, PendingSignalHasTaker, condVars
  <1>5. NoBroadcastSeen'
    BY DEF CondInv, NoBroadcastSeen, condVars
  <1>6. QED
    BY <1>1, <1>2, <1>3, <1>4, <1>5 DEF CondInv

\* The second half of CV_WAIT only moves a sleeper on.
LEMMA CvReleaseCond ==
  ASSUME CvIInv, NEW t \in Threads, CvRelease(t)
  PROVE  CondInv'
  <1>1. CvSleepers' = CvSleepers
    BY DEF CvRelease, Goto, CvSleepers, CvParked, CvIInv, IInv, Typed
  <1>2. QED
    BY <1>1, CondKept DEF CvRelease, CvIInv

\* One round of the CV_WAIT loop.
LEMMA CvAgainCond ==
  ASSUME CvIInv, NEW t \in Threads, CvAgain(t)
  PROVE  CondInv'
  <1>1. pc[t] = "parkedCv" /\ stopping' = stopping /\ CondTyped
    BY DEF CvAgain, CvIInv, CondInv
  <1>2. CASE stopping /\ Goto(t, "try") /\ UNCHANGED condVars
    <2>1. CvSleepers' \subseteq CvSleepers
      BY <1>2 DEF Goto, CvSleepers, CvParked, CvIInv, IInv, Typed
    <2>2. stopping'
      BY <1>1, <1>2
    <2>3. CondTyped' /\ NoBroadcastSeen'
      BY <1>2 DEF CvIInv, CondInv, CondTyped, NoBroadcastSeen, condVars
    <2>4. HasWaitersUp'
      BY <1>2, <2>1 DEF CvIInv, CondInv, HasWaitersUp, condVars
    <2>5. CvWaitersExact' /\ PendingSignalHasTaker'
      BY <2>2 DEF CvWaitersExact, PendingSignalHasTaker
    <2>6. QED
      BY <2>3, <2>4, <2>5 DEF CondInv
  <1>3. CASE ~stopping /\ cmoved[t] /\ CvLeave(t, signals)
    <2>1. "broadcast" \in use.wakes
      BY <1>3 DEF CvIInv, CondInv, NoBroadcastSeen
    <2>2. QED
      BY <1>1, <1>3, <2>1, LeaveInv DEF CondTyped
  <1>4. CASE ~stopping /\ MayTake(t) /\ CvLeave(t, signals - 1)
    <2>1. /\ signals - 1 \in Nat /\ covered[t]
          /\ "broadcast" \notin use.wakes => signals <= Cardinality(CoveredSleepers)
      BY <1>1, <1>4 DEF MayTake, CondTyped, CvIInv, CondInv, PendingSignalHasTaker,
                        CoveredSleepers
    <2>2. "broadcast" \notin use.wakes => signals - 1 <= Cardinality(CoveredSleepers) - 1
      BY <1>1, <2>1, CvSleepersFinite DEF CondTyped
    <2>3. QED
      BY <1>1, <1>4, <2>1, <2>2, LeaveInv
  <1>5. CASE UNCHANGED <<pc, condVars>>
    BY <1>1, <1>5, CondKept DEF CvSleepers, CvIInv
  <1>6. QED
    BY <1>2, <1>3, <1>4, <1>5 DEF CvAgain

\* A timed out waiter leaves no signal behind that only it could have taken.
LEMMA CvTimeoutCond ==
  ASSUME CvIInv, NEW t \in Threads, CvTimeout(t)
  PROVE  CondInv'
  <1>1. /\ pc[t] = "parkedCv" /\ stopping' = stopping /\ ~stopping /\ ~MayTake(t)
        /\ CvLeave(t, signals) /\ CondTyped
    BY DEF CvTimeout, CvIInv, CondInv
  <1>2. CASE ~covered[t]
    <2>1. "broadcast" \notin use.wakes => signals <= Cardinality(CoveredSleepers)
      BY <1>1 DEF CvIInv, CondInv, PendingSignalHasTaker, CoveredSleepers
    <2>2. QED
      BY <1>1, <1>2, <2>1, LeaveInv DEF CondTyped
  <1>3. CASE covered[t]
    <2>1. signals = 0
      BY <1>1, <1>3 DEF MayTake, CondTyped
    <2>2. t \in CoveredSleepers
      BY <1>1, <1>3 DEF CoveredSleepers, CvSleepers, CvParked
    <2>3. Cardinality(CoveredSleepers) >= 1
      BY <2>2, CvSleepersFinite, FS_EmptySet
    <2>4. signals <= Cardinality(CoveredSleepers) - 1
      BY <2>1, <2>3, CvSleepersFinite
    <2>5. QED
      BY <1>1, <1>3, <2>4, LeaveInv DEF CondTyped
  <1>4. QED
    BY <1>2, <1>3

\* A signal that counts finds more sleepers than pending signals, and covers
\* all of them.
LEMMA CvSignalCond ==
  ASSUME CvIInv, NEW t \in Threads, CvSignal(t)
  PROVE  CondInv'
  <1>1. /\ CondTyped /\ pc' = pc /\ stopping' = stopping
        /\ UNCHANGED <<hasWaiters, waiters, cmoved, use>>
    BY DEF CvSignal, CvIInv, CondInv
  <1>2. CvSleepers' = CvSleepers
    BY <1>1 DEF CvSleepers
  <1>3. CASE ~SignalCounts
    BY <1>1, <1>2, <1>3, CondKept DEF CvSignal, CvIInv, condVars
  <1>4. CASE SignalCounts
    <2>1. signals' = signals + 1 /\ covered' = [u \in Threads |-> u \in CvSleepers]
      BY <1>4 DEF CvSignal
    <2>2. CondTyped'
      <3>1. covered' \in [Threads -> BOOLEAN]
        <4>1. \A u \in Threads : (u \in CvSleepers) \in BOOLEAN
          OBVIOUS
        <4>2. QED
          BY <2>1, <4>1
      <3>2. QED
        BY <1>1, <2>1, <3>1 DEF CondTyped
    <2>3. CoveredSleepers' = CvSleepers
      BY <1>2, <2>1 DEF CoveredSleepers, CvSleepers
    <2>4. PendingSignalHasTaker'
      <3>1. ~stopping => signals + 1 <= Cardinality(CvSleepers)
        BY <1>1, <1>4 DEF SignalCounts, CvIInv, CondInv, CvWaitersExact, CondTyped
      <3>2. QED
        BY <1>1, <2>1, <2>3, <3>1 DEF PendingSignalHasTaker, CoveredSleepers
    <2>5. HasWaitersUp' /\ CvWaitersExact'
      BY <1>1, <1>2 DEF CvIInv, CondInv, HasWaitersUp, CvWaitersExact
    <2>6. NoBroadcastSeen'
      BY <1>1 DEF CvIInv, CondInv, NoBroadcastSeen
    <2>7. QED
      BY <2>2, <2>4, <2>5, <2>6 DEF CondInv
  <1>5. QED
    BY <1>3, <1>4

\* A broadcast changes the generation and nothing else.
LEMMA CvBroadcastCond ==
  ASSUME CvIInv, NEW t \in Threads, CvBroadcast(t)
  PROVE  CondInv'
  <1>1. /\ pc' = pc /\ stopping' = stopping /\ "broadcast" \in use.wakes
        /\ UNCHANGED <<hasWaiters, waiters, signals, covered, use>>
        /\ cmoved' = [u \in Threads |-> u \in CvSleepers]
    BY DEF CvBroadcast
  <1>2. CvSleepers' = CvSleepers
    BY <1>1 DEF CvSleepers
  <1>3. CondTyped'
    <2>1. cmoved' \in [Threads -> BOOLEAN]
      <3>1. \A u \in Threads : (u \in CvSleepers) \in BOOLEAN
        OBVIOUS
      <3>2. QED
        BY <1>1, <3>1
    <2>2. QED
      BY <1>1, <2>1 DEF CondTyped, CvIInv, CondInv
  <1>4. HasWaitersUp' /\ CvWaitersExact'
    BY <1>1, <1>2 DEF CvIInv, CondInv, HasWaitersUp, CvWaitersExact
  <1>5. PendingSignalHasTaker' /\ NoBroadcastSeen'
    BY <1>1 DEF PendingSignalHasTaker, NoBroadcastSeen
  <1>6. QED
    BY <1>3, <1>4, <1>5 DEF CondInv

\* Every step of the composition keeps both halves.
LEMMA CvNextInv == CvIInv /\ [CvNext]_cvVars => CvIInv'
  <1> SUFFICES ASSUME CvIInv, [CvNext]_cvVars PROVE CvIInv'
    OBVIOUS
  <1>1. CASE (Next /\ UNCHANGED condVars) \/ UNCHANGED cvVars
    <2>1. IInv /\ CondInv /\ [Next]_vars /\ UNCHANGED condVars
      BY <1>1 DEF cvVars, CvIInv
    <2>2. IInv'
      BY <2>1, NextIInv
    <2>3. CondInv'
      BY <2>1, NextKeepsSleepers, CondKept
    <2>4. QED
      BY <2>2, <2>3 DEF CvIInv
  <1>2. ASSUME NEW t \in Threads, CvStep(t)
        PROVE  CvIInv'
    <2>1. IInv'
      BY <1>2, CvStepIInv DEF CvIInv
    <2>2. CondInv'
      BY <1>2, CvWaitCond, CvReleaseCond, CvAgainCond, CvTimeoutCond, CvSignalCond,
         CvBroadcastCond DEF CvStep
    <2>3. QED
      BY <2>1, <2>2 DEF CvIInv
  <1>3. QED
    BY <1>1, <1>2 DEF CvNext

\* Nobody waits at first.
LEMMA CvInitInv == CvInit => CvIInv
  <1> SUFFICES ASSUME CvInit PROVE CvIInv
    OBVIOUS
  <1>1. IInv
    BY InitIInv DEF CvInit
  <1>2. CvSleepers = {} /\ Cardinality(CvSleepers) = 0
    <2>1. CvSleepers = {}
      BY DEF CvInit, Init, CvSleepers, CvParked
    <2>2. QED
      BY <2>1, FS_EmptySet
  <1>3. CondTyped
    BY DEF CvInit, CondTyped
  <1>4. HasWaitersUp /\ CvWaitersExact /\ NoBroadcastSeen
    BY <1>2 DEF CvInit, HasWaitersUp, CvWaitersExact, NoBroadcastSeen
  <1>5. PendingSignalHasTaker
    BY CvSleepersFinite DEF CvInit, PendingSignalHasTaker, CoveredSleepers
  <1>6. QED
    BY <1>1, <1>3, <1>4, <1>5 DEF CvIInv, CondInv

\* For any number of threads: through CV_WAIT, its time-outs, CV_SIGNAL,
\* CV_BROADCAST and a stop, the mutex stays exclusive, c_has_waiters is up
\* while anybody sleeps, the waiters are counted exactly until the stop, and
\* without broadcasts no pending signal is left without a taker.
THEOREM CvSafe == CvSpec => []CvInv
  <1>1. CvIInv => CvInv
    <2> SUFFICES ASSUME CvIInv PROVE CvInv
      OBVIOUS
    <2>1. mwaiters \in Nat
      BY SleepersFinite DEF CvIInv, IInv, WaiterCountExact
    <2>2. CvTypeOK
      BY <2>1 DEF CvIInv, IInv, Typed, CondInv, CondTyped, CvTypeOK, Places, CvParked
    <2>3. CvMutualExclusion
      BY DEF CvIInv, IInv, Owned, CvMutualExclusion
    <2>4. QED
      BY <2>2, <2>3 DEF CvIInv, CondInv, CvInv
  <1>2. QED
    BY CvInitInv, CvNextInv, <1>1, PTL DEF CvSpec

\* "Release one waiter" holds of every CV_SIGNAL on a ucond that the guest
\* never broadcasts: the signal counts and covers every sleeper, or it is
\* dropped because the signals already pending have takers.  (With broadcasts
\* it does not hold: run ucond_lost_signal.)
THEOREM SignalReleasesOneUnlessBroadcast ==
  CvSpec => [][ /\ "broadcast" \notin use.wakes
                /\ \E t \in Threads : CvSignal(t)
                /\ CvSleepers # {} /\ ~stopping
                => \E t \in CvSleepers : Releasable(t)' ]_cvVars
  <1> DEFINE Sends == /\ "broadcast" \notin use.wakes
                      /\ \E t \in Threads : CvSignal(t)
                      /\ CvSleepers # {} /\ ~stopping
             Releases == \E t \in CvSleepers : Releasable(t)'
  <1>1. ASSUME CvIInv, Sends PROVE Releases
    <2>1. PICK t \in Threads : CvSignal(t)
      BY <1>1
    <2>2. CondTyped /\ waiters = Cardinality(CvSleepers) /\ waiters # 0
      BY <1>1, CvSleepersFinite, FS_EmptySet DEF CvIInv, CondInv, CvWaitersExact
    <2>3. CASE SignalCounts
      <3>1. signals' = signals + 1 /\ covered' = [u \in Threads |-> u \in CvSleepers]
        BY <2>1, <2>3 DEF CvSignal
      <3>2. signals' > 0
        BY <2>2, <3>1 DEF CondTyped
      <3>3. \A u \in CvSleepers : covered'[u]
        BY <3>1, Zenon DEF CvSleepers
      <3>4. QED
        BY <1>1, <3>2, <3>3 DEF Releasable
    <2>4. CASE ~SignalCounts
      <3>1. signals' = signals /\ covered' = covered /\ signals > 0
        BY <2>1, <2>2, <2>4 DEF CvSignal, SignalCounts, CondTyped
      <3>2. signals <= Cardinality(CoveredSleepers)
        BY <1>1 DEF CvIInv, CondInv, PendingSignalHasTaker, CoveredSleepers
      <3>3. CoveredSleepers # {}
        BY <2>2, <3>1, <3>2, FS_EmptySet DEF CondTyped
      <3>4. QED
        BY <3>1, <3>3 DEF CoveredSleepers, Releasable
    <2>5. QED
      BY <2>3, <2>4
  <1>2. CvIInv => [Sends => Releases]_cvVars
    BY <1>1
  <1>3. QED
    BY CvInitInv, CvNextInv, <1>2, PTL DEF CvSpec
=============================================================================
