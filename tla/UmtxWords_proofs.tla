-------------------------- MODULE UmtxWords_proofs ---------------------------
(***************************************************************************)
(* Proofs about reader/writer locks, semaphores and the simple wait queues *)
(* as UmtxWords composes them, for any threads (finitely many of them at a *)
(* lock) and any limits.  Mutexes are proved in Ucond_proofs.              *)
(***************************************************************************)
EXTENDS UmtxWords, FiniteSetTheorems, SequenceTheorems, TLAPS

-----------------------------------------------------------------------------
(* Reader/writer locks: exclusion, and a word that shows the parked threads *)
(* and no others.                                                           *)
(*                                                                          *)
(* RwInv is not inductive.  What a release leaves in the word depends on    *)
(* the counters rw_blocked_*, so they must be exact; who may enter depends  *)
(* on the word, so it must account for everybody inside, also for a thread  *)
(* on its way to op 14.  A stop makes op 14 leave the word as it is, so     *)
(* that it may then show more readers than there are, never fewer.          *)

Places == {"idle", "tryRd", "tryWr", "kernRd", "kernWr", "parkedRd",
           "parkedWr", "rd", "wr", "unlock", "notify"}

\* Everything TypeOK says but for the counters, which the counts bound.
Typed ==
  /\ prefer \in BOOLEAN
  /\ st \in [writer : BOOLEAN, ww : BOOLEAN, rw : BOOLEAN, readers : 0 .. MaxReaders]
  /\ rwpc \in [RwThreads -> Places]
  /\ rwNotified \in [RwThreads -> BOOLEAN]
  /\ stopping \in BOOLEAN

At(S) == {t \in RwThreads : rwpc[t] \in S}
Count(S) == Cardinality(At(S))

\* rw_blocked_readers and rw_blocked_writers count the parked threads.
BlockedExact == blockedR = Count({"parkedRd"}) /\ blockedW = Count({"parkedWr"})

\* The word accounts for everybody inside.
Accounted ==
  IF st.writer
  THEN /\ st.readers = 0
       /\ \A t \in RwThreads : rwpc[t] # "rd"
       /\ \A t, u \in RwThreads :
            rwpc[t] \in {"wr", "unlock"} /\ rwpc[u] \in {"wr", "unlock"} => t = u
  ELSE /\ \A t \in RwThreads : rwpc[t] # "wr"
       /\ Count({"rd", "unlock"}) <= st.readers

RwIInv == Typed /\ BlockedExact /\ Accounted /\ Rw!WaiterBitPublished /\ Rw!NoStaleWriteWaiters
-----------------------------------------------------------------------------
(* Counting.                                                                *)

\* There are finitely many threads anywhere.
LEMMA Finite ==
  ASSUME Rw!UrwlockAssumptions, NEW A \in SUBSET RwThreads
  PROVE  IsFiniteSet(A) /\ Cardinality(A) \in Nat /\ (Cardinality(A) = 0 <=> A = {})
  <1>1. IsFiniteSet(RwThreads)
    BY DEF Rw!UrwlockAssumptions, IsFiniteSet, Rw!IsFiniteSet
  <1>2. QED
    BY <1>1, FS_Subset, FS_CardinalityType, FS_EmptySet

\* One thread that goes elsewhere moves the counts by one.
LEMMA CountMoves ==
  ASSUME Rw!UrwlockAssumptions, Typed, NEW t \in RwThreads, NEW l, Rw!Goto(t, l), NEW CONSTANT S
  PROVE  Count(S)' = (Count(S) + (IF l \in S THEN 1 ELSE 0))
                        - (IF rwpc[t] \in S THEN 1 ELSE 0)
  <1>1. IsFiniteSet(At(S)) /\ Count(S) \in Nat
    BY Finite DEF At, Count
  <1>2. At(S)' = IF l \in S THEN At(S) \cup {t} ELSE At(S) \ {t}
    BY DEF At, Rw!Goto, Typed
  <1>3. t \in At(S) <=> rwpc[t] \in S
    BY DEF At
  <1>4. CASE l \in S
    <2>1. Cardinality(At(S) \cup {t}) = IF t \in At(S) THEN Count(S) ELSE Count(S) + 1
      BY <1>1, FS_AddElement DEF Count
    <2>2. QED
      BY <1>1, <1>2, <1>3, <1>4, <2>1 DEF Count
  <1>5. CASE l \notin S
    <2>1. Cardinality(At(S) \ {t}) = IF t \in At(S) THEN Count(S) - 1 ELSE Count(S)
      BY <1>1, FS_RemoveElement DEF Count
    <2>2. QED
      BY <1>1, <1>2, <1>3, <1>5, <2>1 DEF Count
  <1>6. QED
    BY <1>4, <1>5

\* What the counts the invariant speaks of are after one thread's move.
LEMMA Moves ==
  ASSUME Rw!UrwlockAssumptions, Typed, NEW t \in RwThreads, NEW l \in Places, Rw!Goto(t, l)
  PROVE  /\ Count({"parkedRd"})' = (Count({"parkedRd"}) + (IF l = "parkedRd" THEN 1 ELSE 0))
                                     - (IF rwpc[t] = "parkedRd" THEN 1 ELSE 0)
         /\ Count({"parkedWr"})' = (Count({"parkedWr"}) + (IF l = "parkedWr" THEN 1 ELSE 0))
                                     - (IF rwpc[t] = "parkedWr" THEN 1 ELSE 0)
         /\ Count({"rd", "unlock"})' =
              (Count({"rd", "unlock"}) + (IF l \in {"rd", "unlock"} THEN 1 ELSE 0))
                - (IF rwpc[t] \in {"rd", "unlock"} THEN 1 ELSE 0)
         /\ Count({"parkedRd"}) \in Nat /\ Count({"parkedWr"}) \in Nat
         /\ Count({"rd", "unlock"}) \in Nat
         /\ rwpc' \in [RwThreads -> Places] /\ rwpc'[t] = l
         /\ \A u \in RwThreads \ {t} : rwpc'[u] = rwpc[u]
  <1>1. \A S : Count(S) \in Nat
    BY Finite DEF At, Count
  <1>2. Count({"parkedRd"})' = (Count({"parkedRd"}) + (IF l \in {"parkedRd"} THEN 1 ELSE 0))
                                 - (IF rwpc[t] \in {"parkedRd"} THEN 1 ELSE 0)
    BY CountMoves
  <1>3. Count({"parkedWr"})' = (Count({"parkedWr"}) + (IF l \in {"parkedWr"} THEN 1 ELSE 0))
                                 - (IF rwpc[t] \in {"parkedWr"} THEN 1 ELSE 0)
    BY CountMoves
  <1>4. Count({"rd", "unlock"})' =
              (Count({"rd", "unlock"}) + (IF l \in {"rd", "unlock"} THEN 1 ELSE 0))
                - (IF rwpc[t] \in {"rd", "unlock"} THEN 1 ELSE 0)
    BY CountMoves
  <1>5. rwpc' \in [RwThreads -> Places] /\ rwpc'[t] = l /\ \A u \in RwThreads \ {t} : rwpc'[u] = rwpc[u]
    BY DEF Typed, Rw!Goto
  <1>6. QED
    BY <1>1, <1>2, <1>3, <1>4, <1>5

\* Nobody is inside a free lock, and a parked thread makes its counter positive.
LEMMA Empty ==
  ASSUME Rw!UrwlockAssumptions
  PROVE  /\ Count({"rd", "unlock"}) = 0 <=> \A t \in RwThreads : rwpc[t] \notin {"rd", "unlock"}
         /\ Count({"parkedRd"}) = 0 <=> \A t \in RwThreads : rwpc[t] # "parkedRd"
         /\ Count({"parkedWr"}) = 0 <=> \A t \in RwThreads : rwpc[t] # "parkedWr"
         /\ Count({"rd", "unlock"})' = 0 <=> \A t \in RwThreads : rwpc'[t] \notin {"rd", "unlock"}
  <1>1. \A S : Count(S) = 0 <=> \A t \in RwThreads : rwpc[t] \notin S
    BY Finite DEF At, Count
  <1>2. (\A S : Count(S) = 0 <=> \A t \in RwThreads : rwpc[t] \notin S)'
    BY Finite DEF At, Count
  <1>3. QED
    BY <1>1, <1>2
-----------------------------------------------------------------------------
(* One lemma per action.                                                    *)

\* A thread that starts to want the lock, or enters the kernel for it, changes
\* nothing the invariant reads.
LEMMA QuietInv ==
  ASSUME Rw!UrwlockAssumptions, RwIInv, NEW t \in RwThreads, Rw!UserWant(t) \/ Rw!UserEnter(t)
  PROVE  RwIInv'
  <1>1. PICK l \in {"tryRd", "tryWr", "kernRd", "kernWr"} : Rw!Goto(t, l)
    BY DEF Rw!UserWant, Rw!UserEnter
  <1>2. /\ UNCHANGED <<st, blockedR, blockedW, rwNotified, stopping, prefer>>
        /\ rwpc[t] \in {"idle", "tryRd", "tryWr"} /\ l \in Places
    BY DEF Rw!UserWant, Rw!UserEnter, Places
  <1> USE <1>1, <1>2, Moves DEF RwIInv
  <1>3. Typed'
    BY DEF Typed
  <1>4. BlockedExact'
    BY DEF BlockedExact
  <1>5. Accounted'
    BY DEF Accounted, Typed
  <1>6. Rw!WaiterBitPublished' /\ Rw!NoStaleWriteWaiters'
    BY DEF Rw!WaiterBitPublished, Rw!NoStaleWriteWaiters
  <1>7. QED
    BY <1>3, <1>4, <1>5, <1>6

\* The userland swap lets a reader in beside readers, a writer into a free lock.
LEMMA UserLockInv ==
  ASSUME Rw!UrwlockAssumptions, RwIInv, NEW t \in RwThreads, Rw!UserLock(t)
  PROVE  RwIInv'
  <1>1. CASE rwpc[t] = "tryRd"
    <2>1. /\ Rw!Goto(t, "rd") /\ Rw!UserMayRead /\ st' = [st EXCEPT !.readers = @ + 1]
          /\ UNCHANGED <<blockedR, blockedW, rwNotified, stopping, prefer>>
          /\ "rd" \in Places
      BY <1>1 DEF Rw!UserLock, Places
    <2> USE <1>1, <2>1, Moves DEF RwIInv
    <2>2. Typed'
      BY DEF Typed, Rw!UserMayRead, Rw!UrwlockAssumptions
    <2>3. BlockedExact'
      BY DEF BlockedExact
    <2>4. Accounted'
      BY DEF Accounted, Typed, Rw!UserMayRead
    <2>5. Rw!WaiterBitPublished' /\ Rw!NoStaleWriteWaiters'
      BY DEF Rw!WaiterBitPublished, Rw!NoStaleWriteWaiters, Typed
    <2>6. QED
      BY <2>2, <2>3, <2>4, <2>5
  <1>2. CASE rwpc[t] = "tryWr"
    <2>1. /\ Rw!Goto(t, "wr") /\ Rw!UserMayWrite /\ st' = [st EXCEPT !.writer = TRUE]
          /\ UNCHANGED <<blockedR, blockedW, rwNotified, stopping, prefer>>
          /\ "wr" \in Places
      BY <1>2 DEF Rw!UserLock, Places
    <2> USE <1>2, <2>1, Moves DEF RwIInv
    <2>2. Typed'
      BY DEF Typed
    <2>3. BlockedExact'
      BY DEF BlockedExact
    <2>4. Accounted'
      BY Empty DEF Accounted, Typed, Rw!UserMayWrite
    <2>5. Rw!WaiterBitPublished' /\ Rw!NoStaleWriteWaiters'
      BY DEF Rw!WaiterBitPublished, Rw!NoStaleWriteWaiters, Typed
    <2>6. QED
      BY <2>2, <2>3, <2>4, <2>5
  <1>3. QED
    BY <1>1, <1>2 DEF Rw!UserLock

\* A release in userland leaves no waiter bit on a free lock.
LEMMA UserUnlockInv ==
  ASSUME Rw!UrwlockAssumptions, RwIInv, NEW t \in RwThreads, Rw!UserUnlock(t)
  PROVE  RwIInv'
  <1>1. CASE Rw!Goto(t, "unlock") /\ UNCHANGED st
    <2>1. /\ UNCHANGED <<blockedR, blockedW, rwNotified, stopping, prefer>>
          /\ rwpc[t] \in {"rd", "wr"} /\ "unlock" \in Places
      BY DEF Rw!UserUnlock, Places
    <2> USE <1>1, <2>1, Moves DEF RwIInv
    <2>2. Typed'
      BY DEF Typed
    <2>3. BlockedExact'
      BY DEF BlockedExact
    <2>4. Accounted'
      BY DEF Accounted, Typed
    <2>5. Rw!WaiterBitPublished' /\ Rw!NoStaleWriteWaiters'
      BY DEF Rw!WaiterBitPublished, Rw!NoStaleWriteWaiters
    <2>6. QED
      BY <2>2, <2>3, <2>4, <2>5
  <1>2. CASE /\ rwpc[t] = "wr" /\ ~st.ww /\ ~st.rw
             /\ st' = [st EXCEPT !.writer = FALSE] /\ Rw!Goto(t, "idle")
    <2>1. UNCHANGED <<blockedR, blockedW, rwNotified, stopping, prefer>> /\ "idle" \in Places
      BY DEF Rw!UserUnlock, Places
    <2> USE <1>2, <2>1, Moves DEF RwIInv
    <2>2. Typed'
      BY DEF Typed
    <2>3. BlockedExact'
      BY DEF BlockedExact
    <2>4. st.writer /\ st.readers = 0 /\ \A u \in RwThreads : rwpc'[u] \notin {"rd", "wr", "unlock"}
      BY DEF Accounted, Typed
    <2>5. Accounted'
      BY <2>4, Empty DEF Accounted, Typed
    <2>6. Rw!WaiterBitPublished' /\ Rw!NoStaleWriteWaiters'
      BY DEF Rw!WaiterBitPublished, Rw!NoStaleWriteWaiters, Typed
    <2>7. QED
      BY <2>2, <2>3, <2>5, <2>6
  <1>3. CASE /\ rwpc[t] = "rd" /\ ~((st.ww \/ st.rw) /\ st.readers = 1)
             /\ st' = [st EXCEPT !.readers = @ - 1] /\ Rw!Goto(t, "idle")
    <2>1. UNCHANGED <<blockedR, blockedW, rwNotified, stopping, prefer>> /\ "idle" \in Places
      BY DEF Rw!UserUnlock, Places
    <2> USE <1>3, <2>1, Moves DEF RwIInv
    <2>2. ~st.writer /\ 1 <= st.readers /\ Count({"rd", "unlock"}) <= st.readers
      BY Empty DEF Accounted, Typed
    <2>3. Typed'
      BY <2>2 DEF Typed, Rw!UrwlockAssumptions
    <2>4. BlockedExact'
      BY DEF BlockedExact
    <2>5. Accounted'
      BY <2>2 DEF Accounted, Typed
    <2>6. Rw!WaiterBitPublished' /\ Rw!NoStaleWriteWaiters'
      BY <2>2 DEF Rw!WaiterBitPublished, Rw!NoStaleWriteWaiters, Typed
    <2>7. QED
      BY <2>3, <2>4, <2>5, <2>6
  <1>4. QED
    BY <1>1, <1>2, <1>3 DEF Rw!UserUnlock

\* A round of op 12: refused, let in beside readers, or parked and visible.
LEMMA RdRoundInv ==
  ASSUME Rw!UrwlockAssumptions, RwIInv, NEW t \in RwThreads, NEW b,
         \/ rwpc[t] = "kernRd" /\ b = blockedR
         \/ rwpc[t] = "parkedRd" /\ b = blockedR - 1,
         Rw!RdRound(t, b)
  PROVE  RwIInv'
  <1>1. /\ rwNotified' = [rwNotified EXCEPT ![t] = FALSE] /\ UNCHANGED <<blockedW, stopping, prefer>>
        /\ {"idle", "rd", "parkedRd"} \subseteq Places
    BY DEF Rw!RdRound, Places
  <1>2. CASE blockedR' = b /\ Rw!Goto(t, "idle") /\ UNCHANGED st
    <2>1. "idle" \in Places
      BY <1>1
    <2> USE <1>1, <1>2, <2>1, Moves DEF RwIInv
    <2>2. Typed'
      BY DEF Typed
    <2>3. BlockedExact'
      BY DEF BlockedExact
    <2>4. Accounted'
      BY DEF Accounted, Typed
    <2>5. Rw!WaiterBitPublished' /\ Rw!NoStaleWriteWaiters'
      BY DEF Rw!WaiterBitPublished, Rw!NoStaleWriteWaiters
    <2>6. QED
      BY <2>2, <2>3, <2>4, <2>5
  <1>3. CASE /\ Rw!MayRead /\ st.readers < MaxReaders /\ st' = [st EXCEPT !.readers = @ + 1]
             /\ blockedR' = b /\ Rw!Goto(t, "rd")
    <2>1. "rd" \in Places
      BY <1>1
    <2> USE <1>1, <1>3, <2>1, Moves DEF RwIInv
    <2>2. Typed'
      BY DEF Typed, Rw!UrwlockAssumptions
    <2>3. BlockedExact'
      BY DEF BlockedExact
    <2>4. Accounted'
      BY DEF Accounted, Typed, Rw!MayRead
    <2>5. Rw!WaiterBitPublished' /\ Rw!NoStaleWriteWaiters'
      BY DEF Rw!WaiterBitPublished, Rw!NoStaleWriteWaiters, Typed
    <2>6. QED
      BY <2>2, <2>3, <2>4, <2>5
  <1>4. CASE /\ st' = [st EXCEPT !.rw = TRUE]
             /\ blockedR' = b + 1 /\ Rw!Goto(t, "parkedRd")
    <2>1. "parkedRd" \in Places
      BY <1>1
    <2> USE <1>1, <1>4, <2>1, Moves DEF RwIInv
    <2>2. Typed'
      BY DEF Typed
    <2>3. BlockedExact'
      BY DEF BlockedExact
    <2>4. Accounted'
      BY DEF Accounted, Typed
    <2>5. Rw!WaiterBitPublished' /\ Rw!NoStaleWriteWaiters'
      BY DEF Rw!WaiterBitPublished, Rw!NoStaleWriteWaiters, Typed
    <2>6. QED
      BY <2>2, <2>3, <2>4, <2>5
  <1>5. QED
    BY <1>2, <1>3, <1>4 DEF Rw!RdRound

\* A round of op 13: a writer that gives up parking does so with the lock, or
\* when the session stops.
LEMMA WrRoundInv ==
  ASSUME Rw!UrwlockAssumptions, RwIInv, NEW t \in RwThreads, NEW b,
         \/ rwpc[t] = "kernWr" /\ b = blockedW
         \/ rwpc[t] = "parkedWr" /\ b = blockedW - 1,
         Rw!WrRound(t, b)
  PROVE  RwIInv'
  <1>1. /\ rwNotified' = [rwNotified EXCEPT ![t] = FALSE] /\ UNCHANGED <<blockedR, stopping, prefer>>
        /\ {"idle", "wr", "parkedWr"} \subseteq Places
    BY DEF Rw!WrRound, Places
  <1>2. CASE stopping /\ blockedW' = b /\ Rw!Goto(t, "idle") /\ UNCHANGED st
    <2>1. "idle" \in Places
      BY <1>1
    <2> USE <1>1, <1>2, <2>1, Moves DEF RwIInv
    <2>2. Typed'
      BY DEF Typed
    <2>3. BlockedExact'
      BY DEF BlockedExact
    <2>4. Accounted'
      BY DEF Accounted, Typed
    <2>5. Rw!WaiterBitPublished' /\ Rw!NoStaleWriteWaiters'
      BY DEF Rw!WaiterBitPublished, Rw!NoStaleWriteWaiters
    <2>6. QED
      BY <2>2, <2>3, <2>4, <2>5
  <1>3. CASE Rw!MayWrite /\ st' = [st EXCEPT !.writer = TRUE] /\ blockedW' = b /\ Rw!Goto(t, "wr")
    <2>1. "wr" \in Places
      BY <1>1
    <2> USE <1>1, <1>3, <2>1, Moves DEF RwIInv
    <2>2. Typed'
      BY DEF Typed
    <2>3. BlockedExact'
      BY DEF BlockedExact
    <2>4. Accounted'
      BY Empty DEF Accounted, Typed, Rw!MayWrite
    <2>5. Rw!WaiterBitPublished' /\ Rw!NoStaleWriteWaiters'
      BY DEF Rw!WaiterBitPublished, Rw!NoStaleWriteWaiters, Typed
    <2>6. QED
      BY <2>2, <2>3, <2>4, <2>5
  <1>4. CASE st' = [st EXCEPT !.ww = TRUE] /\ blockedW' = b + 1 /\ Rw!Goto(t, "parkedWr")
    <2>1. "parkedWr" \in Places
      BY <1>1
    <2> USE <1>1, <1>4, <2>1, Moves DEF RwIInv
    <2>2. Typed'
      BY DEF Typed
    <2>3. BlockedExact'
      BY DEF BlockedExact
    <2>4. Accounted'
      BY DEF Accounted, Typed
    <2>5. Rw!WaiterBitPublished' /\ Rw!NoStaleWriteWaiters'
      BY DEF Rw!WaiterBitPublished, Rw!NoStaleWriteWaiters, Typed
    <2>6. QED
      BY <2>2, <2>3, <2>4, <2>5
  <1>5. QED
    BY <1>2, <1>3, <1>4 DEF Rw!WrRound

\* Op 14 retires a waiter bit exactly when the counter says nobody is behind it.
LEMMA RwUnlockInv ==
  ASSUME Rw!UrwlockAssumptions, RwIInv, NEW t \in RwThreads, Rw!RwUnlock(t)
  PROVE  RwIInv'
  <1>1. /\ rwpc[t] = "unlock" /\ UNCHANGED <<blockedR, blockedW, rwNotified, stopping, prefer>>
        /\ {"idle", "notify"} \subseteq Places
    BY DEF Rw!RwUnlock, Places
  <1>2. CASE Rw!Goto(t, "idle") /\ UNCHANGED st
    <2>1. "idle" \in Places
      BY <1>1
    <2> USE <1>1, <1>2, <2>1, Moves DEF RwIInv
    <2>2. Typed'
      BY DEF Typed
    <2>3. BlockedExact'
      BY DEF BlockedExact
    <2>4. Accounted'
      BY DEF Accounted, Typed
    <2>5. Rw!WaiterBitPublished' /\ Rw!NoStaleWriteWaiters'
      BY DEF Rw!WaiterBitPublished, Rw!NoStaleWriteWaiters
    <2>6. QED
      BY <2>2, <2>3, <2>4, <2>5
  <1>3. CASE st' = Rw!Unlocked /\ Rw!Goto(t, "notify")
    <2>1. "notify" \in Places
      BY <1>1
    <2> USE <1>1, <1>3, <2>1, Moves DEF RwIInv
    <2>2. ~st.writer => 1 <= st.readers /\ Count({"rd", "unlock"}) <= st.readers
      BY Empty DEF Accounted, Typed
    <2>3. /\ st'.writer = FALSE
          /\ st'.readers = IF st.writer THEN st.readers ELSE st.readers - 1
          /\ st'.ww <=> st.ww /\ blockedW # 0
          /\ st'.rw <=> st.rw /\ blockedR # 0
      BY DEF Typed, Rw!Unlocked
    <2>4. Typed'
      <3>1. (IF st.writer THEN st.readers ELSE st.readers - 1) \in 0 .. MaxReaders
        BY <2>2 DEF Typed, Rw!UrwlockAssumptions
      <3>2. /\ (st.ww /\ blockedW # 0) \in BOOLEAN
            /\ (st.rw /\ blockedR # 0) \in BOOLEAN
        OBVIOUS
      <3>3. Rw!Unlocked \in [writer : BOOLEAN, ww : BOOLEAN, rw : BOOLEAN, readers : 0 .. MaxReaders]
        BY <3>1, <3>2 DEF Typed, Rw!Unlocked
      <3>4. QED
        BY <3>3 DEF Typed
    <2>5. BlockedExact'
      BY DEF BlockedExact
    <2>6. Accounted'
      <3>1. CASE st.writer
        <4>1. st.readers = 0 /\ \A u \in RwThreads : rwpc'[u] \notin {"rd", "wr", "unlock"}
          BY <3>1 DEF Accounted, Typed
        <4>2. QED
          BY <3>1, <4>1, <2>3, Empty DEF Accounted, Typed
      <3>2. CASE ~st.writer
        BY <3>2, <2>2, <2>3 DEF Accounted, Typed
      <3>3. QED
        BY <3>1, <3>2
    <2>7. Rw!WaiterBitPublished'
      BY <2>3, Empty DEF Rw!WaiterBitPublished, BlockedExact
    <2>8. Rw!NoStaleWriteWaiters'
      BY <2>3, Empty DEF Rw!NoStaleWriteWaiters, BlockedExact
    <2>9. QED
      BY <2>4, <2>5, <2>6, <2>7, <2>8
  <1>4. QED
    BY <1>2, <1>3 DEF Rw!RwUnlock

\* A notification and a stop touch no lock.
LEMMA OtherInv ==
  ASSUME Rw!UrwlockAssumptions, RwIInv, Rw!Stop \/ (\E t \in RwThreads : Rw!Notify(t)) \/ UNCHANGED Rw!vars
  PROVE  RwIInv'
  <1>1. CASE Rw!Stop \/ UNCHANGED Rw!vars
    <2>1. UNCHANGED <<prefer, st, blockedR, blockedW, rwpc, rwNotified>> /\ stopping' \in {stopping, TRUE}
      BY <1>1 DEF Rw!Stop, Rw!vars
    <2>2. \A S : Count(S)' = Count(S)
      BY <2>1 DEF Count, At
    <2>3. Typed' /\ BlockedExact' /\ Accounted'
      BY <2>1, <2>2 DEF RwIInv, Typed, BlockedExact, Accounted
    <2>4. Rw!WaiterBitPublished' /\ Rw!NoStaleWriteWaiters'
      BY <2>1 DEF RwIInv, Rw!WaiterBitPublished, Rw!NoStaleWriteWaiters
    <2>5. QED
      BY <2>3, <2>4 DEF RwIInv
  <1>2. ASSUME NEW t \in RwThreads, Rw!Notify(t)
        PROVE  RwIInv'
    <2>1. /\ rwpc[t] = "notify" /\ UNCHANGED <<st, blockedR, blockedW, stopping, prefer>>
          /\ rwNotified' = [u \in RwThreads |-> rwNotified[u] \/ rwpc[u] \in Rw!Parked]
          /\ Rw!Goto(t, "idle") /\ "idle" \in Places
      BY <1>2 DEF Rw!Notify, Places
    <2> USE <2>1, Moves DEF RwIInv
    <2>2. Typed'
      BY DEF Typed
    <2>3. BlockedExact'
      BY DEF BlockedExact
    <2>4. Accounted'
      BY DEF Accounted, Typed
    <2>5. Rw!WaiterBitPublished' /\ Rw!NoStaleWriteWaiters'
      BY DEF Rw!WaiterBitPublished, Rw!NoStaleWriteWaiters
    <2>6. QED
      BY <2>2, <2>3, <2>4, <2>5
  <1>3. QED
    BY <1>1, <1>2

\* The initial states satisfy the invariant.
LEMMA RwInitInv ==
  ASSUME Rw!UrwlockAssumptions, Rw!Init
  PROVE  RwIInv
  <1>1. Typed
    <2>1. st \in [writer : BOOLEAN, ww : BOOLEAN, rw : BOOLEAN, readers : 0 .. MaxReaders]
      BY DEF Rw!Init, Rw!Idle, Rw!UrwlockAssumptions
    <2>2. rwpc \in [RwThreads -> Places] /\ rwNotified \in [RwThreads -> BOOLEAN]
      BY DEF Rw!Init, Places
    <2>3. QED
      BY <2>1, <2>2 DEF Rw!Init, Typed
  <1>2. /\ Count({"rd", "unlock"}) = 0 /\ Count({"parkedRd"}) = 0 /\ Count({"parkedWr"}) = 0
    BY Empty DEF Rw!Init
  <1>3. BlockedExact /\ Accounted
    BY <1>2 DEF Rw!Init, BlockedExact, Accounted, Rw!Idle
  <1>4. Rw!WaiterBitPublished /\ Rw!NoStaleWriteWaiters
    BY DEF Rw!Init, Rw!WaiterBitPublished, Rw!NoStaleWriteWaiters, Rw!Idle
  <1>5. QED
    BY <1>1, <1>3, <1>4 DEF RwIInv

\* The invariant gives the one the runs check.
LEMMA InvSafe ==
  ASSUME Rw!UrwlockAssumptions, RwIInv
  PROVE  Rw!RwInv
  <1>1. Rw!TypeOK
    <2>1. \A S : Count(S) \in Nat
      BY Finite DEF At, Count
    <2>2. QED
      BY <2>1 DEF RwIInv, Typed, BlockedExact, Rw!TypeOK, Places
  <1>2. Rw!RwExclusion
    <2>1. \A t, u \in Rw!Writers : t = u
      BY DEF RwIInv, Accounted, Rw!Writers
    <2>2. Rw!Writers # {} => Rw!Readers = {}
      BY DEF RwIInv, Accounted, Rw!Writers, Rw!Readers
    <2>3. Cardinality(Rw!Writers) <= 1
      <3>1. CASE Rw!Writers = {}
        BY <3>1, FS_EmptySet
      <3>2. ASSUME NEW w \in Rw!Writers
            PROVE  Cardinality(Rw!Writers) <= 1
        <4>1. Rw!Writers = {w}
          BY <2>1
        <4>2. Cardinality({w}) = 1
          BY FS_Singleton
        <4>3. QED
          BY <4>1, <4>2
      <3>3. QED
        BY <3>1, <3>2
    <2>4. QED
      BY <2>2, <2>3 DEF Rw!RwExclusion, Cardinality, Rw!Cardinality
  <1>3. QED
    BY <1>1, <1>2 DEF RwIInv, Rw!RwInv

LEMMA RwStep ==
  ASSUME Rw!UrwlockAssumptions, RwIInv, [Rw!Next]_(Rw!vars)
  PROVE  RwIInv'
  <1>1. CASE Rw!Stop \/ UNCHANGED Rw!vars
    BY <1>1, OtherInv
  <1>2. ASSUME NEW t \in RwThreads, Rw!UserWant(t) \/ Rw!Running(t) \/ Rw!RwLockAgain(t)
        PROVE  RwIInv'
    <2>1. CASE Rw!UserWant(t) \/ Rw!UserEnter(t)
      BY <2>1, QuietInv
    <2>2. CASE Rw!UserLock(t)
      BY <2>2, UserLockInv
    <2>3. CASE Rw!UserUnlock(t)
      BY <2>3, UserUnlockInv
    <2>4. CASE Rw!RwLock(t) \/ Rw!RwLockAgain(t)
      <3>1. CASE rwpc[t] = "kernRd" /\ Rw!RdRound(t, blockedR)
        BY <3>1, RdRoundInv
      <3>2. CASE rwpc[t] = "parkedRd" /\ Rw!RdRound(t, blockedR - 1)
        BY <3>2, RdRoundInv
      <3>3. CASE rwpc[t] = "kernWr" /\ Rw!WrRound(t, blockedW)
        BY <3>3, WrRoundInv
      <3>4. CASE rwpc[t] = "parkedWr" /\ Rw!WrRound(t, blockedW - 1)
        BY <3>4, WrRoundInv
      <3>5. QED
        BY <2>4, <3>1, <3>2, <3>3, <3>4 DEF Rw!RwLock, Rw!RwLockAgain
    <2>5. CASE Rw!RwUnlock(t)
      BY <2>5, RwUnlockInv
    <2>6. CASE Rw!Notify(t)
      BY <2>6, OtherInv
    <2>7. QED
      BY <1>2, <2>1, <2>2, <2>3, <2>4, <2>5, <2>6 DEF Rw!Running
  <1>3. QED
    BY <1>1, <1>2 DEF Rw!Next

LEMMA RwAlways ==
  /\ Rw!Spec => []RwIInv
  /\ AllSpec => [](used = "rwlock" => RwIInv)
  <1>1. Rw!Init => RwIInv
    BY WordsAssumption, RwInitInv
  <1>2. RwIInv /\ [Rw!Next]_(Rw!vars) => RwIInv'
    BY WordsAssumption, RwStep
  <1> DEFINE I == used = "rwlock" => RwIInv
  <1>3. AllInit => I
    BY <1>1 DEF AllInit
  <1>4. I /\ [AllNext]_allVars => I'
    <2>1. SUFFICES ASSUME I, [AllNext]_allVars, used' = "rwlock" PROVE RwIInv'
      OBVIOUS
    <2>2. used = "rwlock" /\ [Rw!Next]_(Rw!vars)
      <3>1. CASE AllNext
        BY <2>1, <3>1 DEF AllNext, InMutex, InQueue, InRw, InSem
      <3>2. CASE UNCHANGED allVars
        BY <2>1, <3>2 DEF allVars, rwOnly, Rw!vars
      <3>3. QED
        BY <2>1, <3>1, <3>2
    <2>3. QED
      BY <1>2, <2>1, <2>2
  <1> HIDE DEF I
  <1>5. AllSpec => []I
    BY <1>3, <1>4, PTL DEF AllSpec
  <1>6. Rw!Spec => []RwIInv
    BY <1>1, <1>2, PTL DEF Rw!Spec
  <1>7. QED
    BY <1>5, <1>6 DEF I

\* A writer excludes everybody else, the word shows every parked thread, and a
\* free lock shows WRITE_WAITERS only in front of a parked writer (ops 12 to 14
\* and libthr's fast paths together), for any threads and any reader limit.
THEOREM RwSafe ==
  /\ Rw!Spec => []Rw!RwInv
  /\ AllSpec => []RwInv
  <1>1. RwIInv => Rw!RwInv
    BY WordsAssumption, InvSafe
  <1>2. (used = "rwlock" => RwIInv) => RwInv
    BY <1>1 DEF RwInv
  <1>3. QED
    BY <1>1, <1>2, RwAlways, PTL

-----------------------------------------------------------------------------
(* Semaphores: no sleeper misses a post.  The invariant is not inductive    *)
(* alone: that a poster finds _has_waiters raised when somebody sleeps is a *)
(* fact about every step that can put a thread to sleep, and nothing lowers *)
(* the flag.                                                                *)

\* Who sleeps has announced it.
SleepersAnnounced == \A t \in Threads : spc[t] = "asleep" => hasWaiters

SemIInv == Sems!TypeOK /\ SleepersAnnounced /\ Sems!NoPostMissed

LEMMA SemInitInv == Sems!UsemAssumptions /\ Sems!Init => SemIInv
<1> SUFFICES ASSUME Sems!UsemAssumptions, Sems!Init PROVE SemIInv
  OBVIOUS
<1>1. Sems!TypeOK
  <2>1. count \in 0 .. MaxCount
    BY DEF Sems!Init, Sems!UsemAssumptions
  <2>2. /\ spc \in [Threads -> {"idle", "try", "enter", "asleep", "posted", "wake"}]
        /\ smoved \in [Threads -> BOOLEAN] /\ sNotified \in [Threads -> BOOLEAN]
        /\ hasWaiters \in BOOLEAN /\ stopping \in BOOLEAN
    BY Zenon DEF Sems!Init
  <2> QED
    BY <2>1, <2>2, Zenon DEF Sems!TypeOK
<1>2. SleepersAnnounced /\ Sems!NoPostMissed
  BY DEF Sems!Init, SleepersAnnounced, Sems!NoPostMissed
<1> QED
  BY <1>1, <1>2 DEF SemIInv

LEMMA SemStepInv == Sems!UsemAssumptions /\ SemIInv /\ [Sems!Next]_(Sems!vars) => SemIInv'
<1> SUFFICES ASSUME Sems!UsemAssumptions, SemIInv, [Sems!Next]_(Sems!vars) PROVE SemIInv'
  OBVIOUS
<1> USE DEF SemIInv, Sems!TypeOK, SleepersAnnounced, Sems!NoPostMissed, Sems!UsemAssumptions, Sems!Goto
<1>1. CASE Sems!Stop
  BY <1>1 DEF Sems!Stop
<1>2. ASSUME NEW t \in Threads, Sems!UserWant(t) PROVE SemIInv'
  BY <1>2 DEF Sems!UserWant
<1>3. ASSUME NEW t \in Threads, Sems!UserPost(t) PROVE SemIInv'
  BY <1>3 DEF Sems!UserPost
<1>4. ASSUME NEW t \in Threads, Sems!UserTake(t) PROVE SemIInv'
  BY <1>4 DEF Sems!UserTake
<1>5. ASSUME NEW t \in Threads, Sems!UserEnter(t) PROVE SemIInv'
  BY <1>5 DEF Sems!UserEnter
<1>6. ASSUME NEW t \in Threads, Sems!UserPosted(t) PROVE SemIInv'
  BY <1>6 DEF Sems!UserPosted
<1>7. ASSUME NEW t \in Threads, Sems!SemWait(t) PROVE SemIInv'
  BY <1>7 DEF Sems!SemWait
<1>8. ASSUME NEW t \in Threads, Sems!SemAgain(t) PROVE SemIInv'
  BY <1>8 DEF Sems!SemAgain, Sems!KeepsWaiting
<1>9. ASSUME NEW t \in Threads, Sems!SemTimeout(t) PROVE SemIInv'
  BY <1>9 DEF Sems!SemTimeout, Sems!KeepsWaiting
<1>10. ASSUME NEW t \in Threads, Sems!SemWake(t) PROVE SemIInv'
  BY <1>10 DEF Sems!SemWake
<1>11. CASE UNCHANGED Sems!vars
  BY <1>11 DEF Sems!vars
<1> QED
  BY <1>1, <1>2, <1>3, <1>4, <1>5, <1>6, <1>7, <1>8, <1>9, <1>10, <1>11 DEF Sems!Next, Sems!Running

LEMMA SemAlways ==
  /\ Sems!Spec => []SemIInv
  /\ AllSpec => [](used = "sem" => SemIInv)
  <1>1. Sems!Init => SemIInv
    BY WordsAssumption, SemInitInv
  <1>2. SemIInv /\ [Sems!Next]_(Sems!vars) => SemIInv'
    BY WordsAssumption, SemStepInv
  <1> DEFINE I == used = "sem" => SemIInv
  <1>3. AllInit => I
    BY <1>1 DEF AllInit
  <1>4. I /\ [AllNext]_allVars => I'
    <2>1. SUFFICES ASSUME I, [AllNext]_allVars, used' = "sem" PROVE SemIInv'
      OBVIOUS
    <2>2. used = "sem" /\ [Sems!Next]_(Sems!vars)
      <3>1. CASE AllNext
        BY <2>1, <3>1 DEF AllNext, InMutex, InQueue, InRw, InSem
      <3>2. CASE UNCHANGED allVars
        BY <2>1, <3>2 DEF allVars, semOnly, Sems!vars
      <3>3. QED
        BY <2>1, <3>1, <3>2
    <2>3. QED
      BY <1>2, <2>1, <2>2
  <1> HIDE DEF I
  <1>5. AllSpec => []I
    BY <1>3, <1>4, PTL DEF AllSpec
  <1>6. Sems!Spec => []SemIInv
    BY <1>1, <1>2, PTL DEF Sems!Spec
  <1>7. QED
    BY <1>5, <1>6 DEF I

\* SEM_WAIT and SEM_WAKE: whoever sleeps while there is a unit has been notified,
\* or a post is on its way to do so, also when other waits time out and leave
\* _has_waiters raised.
THEOREM UsemSafe ==
  /\ Sems!Spec => []Sems!UsemInv
  /\ AllSpec => []UsemInv
  <1>1. SemIInv => Sems!UsemInv
    BY DEF SemIInv, Sems!UsemInv
  <1>2. (used = "sem" => SemIInv) => UsemInv
    BY <1>1 DEF UsemInv
  <1>3. QED
    BY <1>1, <1>2, SemAlways, PTL

-----------------------------------------------------------------------------
(* Wait queues: no dangling SimpleWaiter, and wakes that go to the longest  *)
(* waiting threads.                                                         *)

\* Nobody is twice in a queue.
Once(s) == \A i, j \in DOMAIN s : s[i] = s[j] => i = j

\* Erasing the entry of t at place i moves the later ones up.
LEMMA ErasedAt ==
  ASSUME NEW S, NEW s \in Seq(S), NEW i \in 1 .. Len(s)
  PROVE  /\ Queues!RemoveAt(s, i) \in Seq(S) /\ Len(Queues!RemoveAt(s, i)) = Len(s) - 1
         /\ \A k \in 1 .. Len(s) - 1 : Queues!RemoveAt(s, i)[k] = IF k < i THEN s[k] ELSE s[k + 1]
  <1> DEFINE n == Len(s)
             a == SubSeq(s, 1, i - 1)
             z == SubSeq(s, i + 1, n)
  <1>1. n \in Nat /\ i \in Nat /\ 1 <= i /\ i <= n /\ \A k \in 1 .. n : s[k] \in S
    BY LenProperties, ElementOfSeq
  <1>2. a \in Seq(S) /\ Len(a) = i - 1 /\ \A k \in 1 .. i - 1 : a[k] = s[k]
    <2>1. \A k \in 1 .. i - 1 : s[k] \in S
      BY <1>1
    <2>2. /\ a \in Seq(S) /\ Len(a) = IF 1 <= i - 1 THEN i - 1 - 1 + 1 ELSE 0
          /\ \A k \in 1 .. i - 1 - 1 + 1 : a[k] = s[1 + k - 1]
      BY <1>1, <2>1, SubSeqProperties
    <2>3. i - 1 - 1 + 1 = i - 1 /\ (~(1 <= i - 1) => i - 1 = 0)
      BY <1>1
    <2>4. \A k \in 1 .. i - 1 : 1 + k - 1 = k
      BY <1>1
    <2>5. QED
      BY <2>2, <2>3, <2>4
  <1>3. z \in Seq(S) /\ Len(z) = n - i /\ \A k \in 1 .. n - i : z[k] = s[i + k]
    <2>1. \A k \in i + 1 .. n : s[k] \in S
      BY <1>1
    <2>2. /\ z \in Seq(S) /\ Len(z) = IF i + 1 <= n THEN n - (i + 1) + 1 ELSE 0
          /\ \A k \in 1 .. n - (i + 1) + 1 : z[k] = s[(i + 1) + k - 1]
      BY <1>1, <2>1, SubSeqProperties
    <2>3. n - (i + 1) + 1 = n - i /\ (~(i + 1 <= n) => n - i = 0)
      BY <1>1
    <2>4. \A k \in 1 .. n - i : (i + 1) + k - 1 = i + k
      BY <1>1
    <2>5. QED
      BY <2>2, <2>3, <2>4
  <1> HIDE DEF a, z, n
  <1>4. /\ a \o z \in Seq(S) /\ Len(a \o z) = Len(a) + Len(z)
        /\ \A k \in 1 .. Len(a) + Len(z) : (a \o z)[k] = IF k <= Len(a) THEN a[k] ELSE z[k - Len(a)]
    BY <1>2, <1>3, ConcatProperties
  <1>5. Queues!RemoveAt(s, i) = a \o z
    BY DEF Queues!RemoveAt, a, z, n
  <1>6. ASSUME NEW k \in 1 .. n - 1
        PROVE  (a \o z)[k] = IF k < i THEN s[k] ELSE s[k + 1]
    <2>1. Len(a) + Len(z) = n - 1
      BY <1>1, <1>2, <1>3
    <2>2. CASE k < i
      BY <1>1, <1>2, <1>4, <2>1, <2>2
    <2>3. CASE ~(k < i)
      <3>1. ~(k <= Len(a)) /\ k - Len(a) \in 1 .. n - i /\ i + (k - Len(a)) = k + 1
        BY <1>1, <1>2, <2>3
      <3>2. QED
        BY <1>2, <1>3, <1>4, <2>1, <2>3, <3>1
    <2>4. QED
      BY <2>2, <2>3
  <1>7. Len(a \o z) = n - 1
    BY <1>1, <1>2, <1>3, <1>4
  <1>8. QED
    BY <1>4, <1>5, <1>6, <1>7 DEF n

\* RemoveSimple takes the one entry of t out and leaves the others in order.
LEMMA Erased ==
  ASSUME NEW S, NEW s \in Seq(S), Once(s), NEW t
  PROVE  LET r == Queues!RemoveFirst(s, t)
         IN  r \in Seq(S) /\ Once(r) /\ Queues!ToSet(r) = Queues!ToSet(s) \ {t}
  <1> DEFINE n == Len(s)
             r == Queues!RemoveFirst(s, t)
  <1>1. n \in Nat /\ DOMAIN s = 1 .. n /\ \A k \in 1 .. n : s[k] \in S
    BY LenProperties, ElementOfSeq
  <1>2. CASE ~\E i \in 1 .. n : s[i] = t
    <2>1. r = s
      BY <1>2 DEF Queues!RemoveFirst
    <2>2. t \notin Queues!ToSet(s)
      BY <1>1, <1>2 DEF Queues!ToSet
    <2>3. QED
      BY <2>1, <2>2
  <1>3. CASE \E i \in 1 .. n : s[i] = t
    <2>1. PICK i \in 1 .. n : s[i] = t
      BY <1>3
    <2>2. {k \in 1 .. n : s[k] = t} = {i}
      BY <1>1, <2>1 DEF Once
    <2>3. Queues!Min({i}) = i
      BY <1>1, <2>1 DEF Queues!Min
    <2>4. Queues!SelectInSeq(s, LAMBDA v : v = t) = i
      BY <2>2, <2>3 DEF Queues!SelectInSeq
    <2>5. r = Queues!RemoveAt(s, i)
      BY <1>3, <2>4 DEF Queues!RemoveFirst
    <2> HIDE DEF r
    <2>6. /\ r \in Seq(S) /\ Len(r) = n - 1
          /\ \A k \in 1 .. n - 1 : r[k] = IF k < i THEN s[k] ELSE s[k + 1]
      BY <2>5, ErasedAt
    <2>7. DOMAIN r = 1 .. n - 1
      BY <2>6, LenProperties
    <2>8. Once(r)
      <3>1. SUFFICES ASSUME NEW j \in 1 .. n - 1, NEW k \in 1 .. n - 1, r[j] = r[k]
                     PROVE  j = k
        BY <2>7 DEF Once
      <3> DEFINE up(x) == IF x < i THEN x ELSE x + 1
      <3>2. up(j) \in 1 .. n /\ up(k) \in 1 .. n /\ (up(j) = up(k) => j = k)
        BY <1>1, <2>1
      <3>3. r[j] = s[up(j)] /\ r[k] = s[up(k)]
        BY <2>6
      <3> HIDE DEF up
      <3>4. QED
        BY <1>1, <3>1, <3>2, <3>3 DEF Once
    <2>9. Queues!ToSet(r) = Queues!ToSet(s) \ {t}
      <3>1. ASSUME NEW k \in 1 .. n - 1 PROVE r[k] \in Queues!ToSet(s) \ {t}
        <4>1. CASE k < i
          <5>1. k \in 1 .. n /\ k # i /\ r[k] = s[k]
            BY <1>1, <2>1, <2>6, <4>1
          <5>2. QED
            BY <1>1, <2>1, <5>1 DEF Queues!ToSet, Once
        <4>2. CASE ~(k < i)
          <5>1. k + 1 \in 1 .. n /\ k + 1 # i /\ r[k] = s[k + 1]
            BY <1>1, <2>1, <2>6, <4>2
          <5>2. QED
            BY <1>1, <2>1, <5>1 DEF Queues!ToSet, Once
        <4>3. QED
          BY <4>1, <4>2
      <3>2. ASSUME NEW k \in 1 .. n, s[k] # t PROVE s[k] \in Queues!ToSet(r)
        <4>1. CASE k < i
          <5>1. k \in 1 .. n - 1 /\ r[k] = s[k]
            BY <1>1, <2>1, <2>6, <4>1
          <5>2. QED
            BY <2>7, <5>1 DEF Queues!ToSet
        <4>2. CASE k > i
          <5>1. k - 1 \in 1 .. n - 1 /\ ~(k - 1 < i) /\ (k - 1) + 1 = k
            BY <1>1, <2>1, <4>2
          <5>2. r[k - 1] = s[k]
            BY <2>6, <5>1
          <5>3. QED
            BY <2>7, <5>1, <5>2 DEF Queues!ToSet
        <4>3. QED
          BY <1>1, <2>1, <3>2, <4>1, <4>2
      <3>3. Queues!ToSet(r) \subseteq Queues!ToSet(s) \ {t}
        BY <2>7, <3>1 DEF Queues!ToSet
      <3>4. Queues!ToSet(s) \ {t} \subseteq Queues!ToSet(r)
        <4>1. SUFFICES ASSUME NEW x \in Queues!ToSet(s), x # t PROVE x \in Queues!ToSet(r)
          OBVIOUS
        <4>2. PICK k \in 1 .. n : x = s[k]
          BY <1>1, <4>1 DEF Queues!ToSet
        <4>3. QED
          BY <3>2, <4>1, <4>2
      <3>5. QED
        BY <3>3, <3>4
    <2>10. QED
      BY <2>6, <2>8, <2>9 DEF r
  <1>4. QED
    BY <1>2, <1>3

\* A wake cuts the queue s after its first n entries.
LEMMA CutAt ==
  ASSUME NEW S, NEW s \in Seq(S), Once(s), NEW n \in Nat, n < Len(s)
  PROVE  LET h == SubSeq(s, 1, n)
             r == SubSeq(s, n + 1, Len(s))
         IN  /\ r \in Seq(S) /\ Once(r)
             /\ Queues!ToSet(h) = {s[k] : k \in 1 .. n}
             /\ Queues!ToSet(r) = Queues!ToSet(s) \ Queues!ToSet(h)
  <1> DEFINE z == Len(s)
             h == SubSeq(s, 1, n)
             r == SubSeq(s, n + 1, z)
  <1>1. z \in Nat /\ DOMAIN s = 1 .. z /\ n < z /\ \A k \in 1 .. z : s[k] \in S
    BY LenProperties, ElementOfSeq
  <1>2. h \in Seq(S) /\ DOMAIN h = 1 .. n /\ \A k \in 1 .. n : h[k] = s[k]
    <2>1. \A k \in 1 .. n : s[k] \in S
      BY <1>1
    <2>2. /\ h \in Seq(S) /\ Len(h) = IF 1 <= n THEN n - 1 + 1 ELSE 0
          /\ \A k \in 1 .. n - 1 + 1 : h[k] = s[1 + k - 1]
      BY <2>1, SubSeqProperties
    <2>3. n - 1 + 1 = n /\ (~(1 <= n) => n = 0) /\ \A k \in 1 .. n : 1 + k - 1 = k
      OBVIOUS
    <2>4. Len(h) = n /\ \A k \in 1 .. n : h[k] = s[k]
      BY <2>2, <2>3
    <2>5. QED
      BY <2>2, <2>4, LenProperties
  <1>3. r \in Seq(S) /\ DOMAIN r = 1 .. z - n /\ \A k \in 1 .. z - n : r[k] = s[n + k]
    <2>1. \A k \in n + 1 .. z : s[k] \in S
      BY <1>1
    <2>2. /\ r \in Seq(S) /\ Len(r) = IF n + 1 <= z THEN z - (n + 1) + 1 ELSE 0
          /\ \A k \in 1 .. z - (n + 1) + 1 : r[k] = s[(n + 1) + k - 1]
      BY <1>1, <2>1, SubSeqProperties
    <2>3. z - (n + 1) + 1 = z - n /\ n + 1 <= z /\ \A k \in 1 .. z - n : (n + 1) + k - 1 = n + k
      BY <1>1
    <2>4. Len(r) = z - n /\ \A k \in 1 .. z - n : r[k] = s[n + k]
      BY <2>2, <2>3
    <2>5. QED
      BY <2>2, <2>4, LenProperties
  <1> HIDE DEF h, r, z
  <1>4. Queues!ToSet(h) = {s[k] : k \in 1 .. n}
    BY <1>2 DEF Queues!ToSet
  <1>5. \A k \in 1 .. z - n : n + k \in 1 .. z /\ n + k \notin 1 .. n
    BY <1>1
  <1>6. Once(r)
    <2>1. SUFFICES ASSUME NEW j \in 1 .. z - n, NEW k \in 1 .. z - n, r[j] = r[k] PROVE j = k
      BY <1>3 DEF Once
    <2>2. s[n + j] = s[n + k]
      BY <1>3, <2>1
    <2>3. n + j = n + k
      BY <1>1, <1>5, <2>2 DEF Once
    <2>4. QED
      BY <1>1, <2>3
  <1>7. ASSUME NEW x \in Queues!ToSet(r) PROVE x \in Queues!ToSet(s) \ Queues!ToSet(h)
    <2>1. PICK k \in 1 .. z - n : x = s[n + k]
      BY <1>3, <1>7 DEF Queues!ToSet
    <2>2. \A j \in 1 .. n : j \in 1 .. z /\ j # n + k
      BY <1>1, <1>5
    <2>3. QED
      BY <1>1, <1>4, <1>5, <2>1, <2>2 DEF Queues!ToSet, Once
  <1>8. ASSUME NEW x \in Queues!ToSet(s) \ Queues!ToSet(h) PROVE x \in Queues!ToSet(r)
    <2>1. PICK k \in 1 .. z : x = s[k]
      BY <1>1, <1>8 DEF Queues!ToSet
    <2>2. k \notin 1 .. n
      BY <1>4, <1>8, <2>1
    <2>3. k - n \in 1 .. z - n /\ n + (k - n) = k
      BY <1>1, <2>1, <2>2
    <2>4. QED
      BY <1>3, <2>1, <2>3 DEF Queues!ToSet
  <1>9. QED
    BY <1>3, <1>4, <1>6, <1>7, <1>8 DEF h, r, z

\* Every WAKE, whatever count it passes, has a budget of at least one.
LEMMA Budgets ==
  ASSUME NEW v \in Nat
  PROVE  Queues!Budget(v) \in Nat \ {0}
  <1>1. IntHalf \in Nat \ {0}
    BY WordsAssumption DEF Queues!UmtxQueueAssumptions
  <1>2. v % (2 * IntHalf) \in Nat
    BY <1>1
  <1>3. Queues!Narrow(v) \in Int
    BY <1>1, <1>2 DEF Queues!Narrow
  <1>4. QED
    BY <1>3 DEF Queues!Budget

\* Besides what is to be shown: a thread inside WAIT waits for a word, and one
\* outside has no record a wake could have selected.
Watches == \A t \in Threads : qpc[t] = "wait" => at[t] \in Addrs
Fresh == \A t \in Threads : qpc[t] # "wait" => ~selected[t]

WaitIInv == Queues!TypeOK /\ Queues!QueueHoldsLiveWaiters /\ Watches /\ Fresh

\* QueueSimple links a waiter once, behind the others.
LEMMA Linked ==
  ASSUME NEW S, NEW s \in Seq(S), Once(s), NEW t \in S, t \notin Queues!ToSet(s)
  PROVE  LET r == Append(s, t)
         IN  r \in Seq(S) /\ Once(r) /\ Queues!ToSet(r) = Queues!ToSet(s) \cup {t}
  <1> DEFINE n == Len(s)
             r == Append(s, t)
  <1>1. /\ n \in Nat /\ DOMAIN s = 1 .. n /\ r \in Seq(S) /\ DOMAIN r = 1 .. n + 1
        /\ r[n + 1] = t /\ \A i \in 1 .. n : r[i] = s[i]
    BY LenProperties, AppendProperties
  <1>2. (\A i \in 1 .. n + 1 : i \in 1 .. n \/ i = n + 1) /\ (\A i \in 1 .. n : i \in 1 .. n + 1)
        /\ n + 1 \in 1 .. n + 1
    BY <1>1
  <1> HIDE DEF n, r
  <1>3. ASSUME NEW u \in Queues!ToSet(r) PROVE u \in Queues!ToSet(s) \cup {t}
    <2>1. PICK i \in 1 .. n + 1 : r[i] = u
      BY <1>1, <1>3 DEF Queues!ToSet
    <2>2. QED
      BY <1>1, <1>2, <2>1 DEF Queues!ToSet
  <1>4. ASSUME NEW u \in Queues!ToSet(s) PROVE u \in Queues!ToSet(r)
    <2>1. PICK i \in 1 .. n : s[i] = u
      BY <1>1, <1>4 DEF Queues!ToSet
    <2>2. QED
      BY <1>1, <1>2, <2>1 DEF Queues!ToSet
  <1>5. t \in Queues!ToSet(r)
    BY <1>1, <1>2 DEF Queues!ToSet
  <1>6. Once(r)
    <2>1. \A i \in 1 .. n : s[i] # t
      BY <1>1 DEF Queues!ToSet
    <2>2. QED
      BY <1>1, <1>2, <2>1 DEF Once
  <1>7. QED
    BY <1>1, <1>3, <1>4, <1>5, <1>6 DEF r

\* The parts of the invariant that speak of the queues, in the terms the lemmas
\* use.
LEMMA QueueFacts ==
  ASSUME WaitIInv
  PROVE  /\ word \in [Addrs -> Words] /\ queue \in [Addrs -> Seq(Threads)]
         /\ selected \in [Threads -> BOOLEAN] /\ qpc \in [Threads -> {"run", "wait", "nwake"}]
         /\ at \in [Threads -> Addrs \cup {Queues!NoAddr}]
         /\ \A a \in Addrs :
              /\ Once(queue[a])
              /\ Queues!ToSet(queue[a]) = {t \in Threads : qpc[t] = "wait" /\ at[t] = a /\ ~selected[t]}
  BY DEF WaitIInv, Queues!TypeOK, Queues!QueueHoldsLiveWaiters, Once

\* Before the first call.
LEMMA QueueInit == Queues!Init => WaitIInv
  <1> SUFFICES ASSUME Queues!Init PROVE WaitIInv
    OBVIOUS
  <1>1. /\ queue = [a \in Addrs |-> <<>>] /\ qpc = [t \in Threads |-> "run"]
        /\ todo = [t \in Threads |-> <<>>] /\ stores = 0 /\ MaxStores \in Nat
    BY WordsAssumption DEF Queues!Init, Queues!UmtxQueueAssumptions
  <1>2. queue \in [Addrs -> Seq(Threads)] /\ todo \in [Threads -> Seq(Addrs)] /\ stores \in 0 .. MaxStores
    BY <1>1
  <1>3. Queues!TypeOK
    BY <1>2 DEF Queues!Init, Queues!TypeOK
  <1>4. \A a \in Addrs : DOMAIN queue[a] = {} /\ Queues!ToSet(queue[a]) = {}
    BY <1>1 DEF Queues!ToSet
  <1>5. \A t \in Threads : qpc[t] = "run" /\ ~selected[t]
    BY <1>1 DEF Queues!Init
  <1>6. QED
    BY <1>3, <1>4, <1>5 DEF WaitIInv, Queues!QueueHoldsLiveWaiters, Watches, Fresh

\* Whom a WakeSimple with budget n releases, and what it leaves in the queue.
LEMMA WakeCut ==
  ASSUME WaitIInv, NEW a \in Addrs, NEW n \in Nat \ {0}, Queues!WakeSimple(a, n)
  PROVE  /\ queue' \in [Addrs -> Seq(Threads)] /\ Once(queue'[a])
         /\ \A b \in Addrs \ {a} : queue'[b] = queue[b]
         /\ Queues!ToSet(queue'[a]) = Queues!ToSet(queue[a]) \ Queues!Released(a, n)
         /\ Queues!Released(a, n) \subseteq Queues!ToSet(queue[a])
         /\ selected' = [t \in Threads |-> selected[t] \/ t \in Queues!Released(a, n)]
  <1> DEFINE q == queue[a]
             R == Queues!Released(a, n)
  <1>1. queue \in [Addrs -> Seq(Threads)] /\ Once(q)
    BY QueueFacts
  <1>2. queue' = [queue EXCEPT ![a] = IF n >= Len(q) THEN <<>> ELSE SubSeq(q, n + 1, Len(q))]
    BY DEF Queues!WakeSimple
  <1>3. q \in Seq(Threads) /\ Len(q) \in Nat
    BY <1>1, LenProperties
  <1>4. \A b \in Addrs \ {a} : queue'[b] = queue[b]
    BY <1>1, <1>2
  <1>5. CASE n >= Len(q)
    <2>1. queue'[a] = <<>> /\ R = Queues!ToSet(q)
      BY <1>1, <1>2, <1>5 DEF Queues!Released
    <2>2. Once(<<>>) /\ Queues!ToSet(<<>>) = {} /\ <<>> \in Seq(Threads)
      BY DEF Once, Queues!ToSet
    <2>3. queue' \in [Addrs -> Seq(Threads)]
      BY <1>1, <1>2, <1>5, <2>2
    <2>4. QED
      BY <1>4, <2>1, <2>2, <2>3 DEF Queues!WakeSimple
  <1>6. CASE ~(n >= Len(q))
    <2> DEFINE r == SubSeq(q, n + 1, Len(q))
    <2>1. n < Len(q) /\ queue'[a] = r /\ R = Queues!ToSet(SubSeq(q, 1, n))
      BY <1>1, <1>2, <1>3, <1>6 DEF Queues!Released
    <2>2. r \in Seq(Threads) /\ Once(r) /\ Queues!ToSet(r) = Queues!ToSet(q) \ R /\ R = {q[k] : k \in 1 .. n}
      BY <1>1, <1>3, <2>1, CutAt
    <2>3. queue' \in [Addrs -> Seq(Threads)]
      BY <1>1, <1>2, <1>6, <2>2
    <2>4. R \subseteq Queues!ToSet(q)
      <3>1. DOMAIN q = 1 .. Len(q) /\ \A k \in 1 .. n : k \in 1 .. Len(q)
        BY <1>3, <2>1, LenProperties
      <3>2. QED
        BY <2>2, <3>1 DEF Queues!ToSet
    <2>5. QED
      BY <1>4, <2>1, <2>2, <2>3, <2>4 DEF Queues!WakeSimple
  <1>7. QED
    BY <1>5, <1>6

\* A wake keeps the queues right.
LEMMA WakeKeeps ==
  ASSUME WaitIInv, NEW a \in Addrs, NEW n \in Nat \ {0}, Queues!WakeSimple(a, n),
         qpc' \in [Threads -> {"run", "wait", "nwake"}],
         \A t \in Threads : (qpc'[t] = "wait") <=> (qpc[t] = "wait"),
         UNCHANGED <<word, at, expect, ret, stopping, stores>>, todo' \in [Threads -> Seq(Addrs)]
  PROVE  WaitIInv'
  <1> DEFINE R == Queues!Released(a, n)
  <1>1. /\ selected \in [Threads -> BOOLEAN]
        /\ \A b \in Addrs :
             /\ Once(queue[b])
             /\ Queues!ToSet(queue[b]) = {t \in Threads : qpc[t] = "wait" /\ at[t] = b /\ ~selected[t]}
    BY QueueFacts
  <1>2. /\ queue' \in [Addrs -> Seq(Threads)] /\ Once(queue'[a])
        /\ \A b \in Addrs \ {a} : queue'[b] = queue[b]
        /\ Queues!ToSet(queue'[a]) = Queues!ToSet(queue[a]) \ R
        /\ R \subseteq Queues!ToSet(queue[a])
        /\ selected' = [t \in Threads |-> selected[t] \/ t \in R]
    BY WakeCut
  <1> HIDE DEF R
  <1>3. selected' \in [Threads -> BOOLEAN] /\ \A t \in Threads : selected'[t] <=> (selected[t] \/ t \in R)
    <2>1. \A t \in Threads : (selected[t] \/ t \in R) \in BOOLEAN
      BY <1>1
    <2>2. QED
      BY <1>2, <2>1
  <1>4. Queues!TypeOK'
    BY <1>2, <1>3 DEF WaitIInv, Queues!TypeOK
  <1>5. ASSUME NEW b \in Addrs
        PROVE  /\ Once(queue'[b])
               /\ Queues!ToSet(queue'[b]) = {t \in Threads : qpc'[t] = "wait" /\ at[t] = b /\ ~selected'[t]}
    <2>1. CASE b = a
      BY <1>1, <1>2, <1>3, <2>1
    <2>2. CASE b # a
      <3>1. queue'[b] = queue[b]
        BY <1>2, <2>2
      <3>2. \A t \in Threads : at[t] = b => t \notin R
        BY <1>1, <1>2, <2>2
      <3>3. QED
        BY <1>1, <1>3, <3>1, <3>2
    <2>3. QED
      BY <2>1, <2>2
  <1>6. Queues!QueueHoldsLiveWaiters'
    BY <1>5 DEF Queues!QueueHoldsLiveWaiters, Once
  <1>7. Watches' /\ Fresh'
    BY <1>1, <1>2, <1>3 DEF WaitIInv, Watches, Fresh
  <1>8. QED
    BY <1>4, <1>6, <1>7 DEF WaitIInv

\* A waiter leaves WAIT, whatever it returns.
LEMMA LeaveKeeps ==
  ASSUME WaitIInv, NEW x \in Threads, qpc[x] = "wait", NEW r \in {"ok", "timedout"}, Queues!Leave(x, r)
  PROVE  WaitIInv'
  <1>1. /\ queue \in [Addrs -> Seq(Threads)] /\ selected \in [Threads -> BOOLEAN]
        /\ qpc \in [Threads -> {"run", "wait", "nwake"}]
        /\ at \in [Threads -> Addrs \cup {Queues!NoAddr}]
        /\ \A b \in Addrs :
             /\ Once(queue[b])
             /\ Queues!ToSet(queue[b]) = {t \in Threads : qpc[t] = "wait" /\ at[t] = b /\ ~selected[t]}
    BY QueueFacts
  <1>2. /\ queue' = [queue EXCEPT ![at[x]] = Queues!RemoveFirst(@, x)]
        /\ qpc' = [qpc EXCEPT ![x] = "run"] /\ ret' = [ret EXCEPT ![x] = r]
        /\ selected' = [selected EXCEPT ![x] = FALSE] /\ at' = [at EXCEPT ![x] = Queues!NoAddr]
        /\ expect' = [expect EXCEPT ![x] = Queues!NoWord] /\ UNCHANGED <<word, todo, stopping, stores>>
    BY DEF Queues!Leave, Queues!RemoveSimple
  <1>3. at[x] \in Addrs
    BY DEF WaitIInv, Watches
  <1>4. /\ Queues!RemoveFirst(queue[at[x]], x) \in Seq(Threads)
        /\ Once(Queues!RemoveFirst(queue[at[x]], x))
        /\ Queues!ToSet(Queues!RemoveFirst(queue[at[x]], x)) = Queues!ToSet(queue[at[x]]) \ {x}
    BY <1>1, <1>3, Erased
  <1>5. queue' \in [Addrs -> Seq(Threads)]
    BY <1>1, <1>2, <1>4
  <1>6. Queues!TypeOK'
    <2>1. selected' \in [Threads -> BOOLEAN] /\ qpc' \in [Threads -> {"run", "wait", "nwake"}]
          /\ at' \in [Threads -> Addrs \cup {Queues!NoAddr}]
      BY <1>1, <1>2
    <2>2. expect' \in [Threads -> Words \cup {Queues!NoWord}] /\ ret' \in [Threads -> {"ok", "timedout"}]
      BY <1>2 DEF WaitIInv, Queues!TypeOK
    <2>3. QED
      BY <1>2, <1>5, <2>1, <2>2 DEF WaitIInv, Queues!TypeOK
  <1>7. /\ qpc'[x] = "run" /\ selected'[x] = FALSE
        /\ \A t \in Threads : t # x => qpc'[t] = qpc[t] /\ at'[t] = at[t] /\ selected'[t] = selected[t]
    BY <1>1, <1>2
  <1>8. ASSUME NEW b \in Addrs
        PROVE  /\ Once(queue'[b])
               /\ Queues!ToSet(queue'[b]) = {t \in Threads : qpc'[t] = "wait" /\ at'[t] = b /\ ~selected'[t]}
    <2>1. Once(queue'[b]) /\ Queues!ToSet(queue'[b]) = Queues!ToSet(queue[b]) \ {x}
      <3>1. CASE b = at[x]
        BY <1>1, <1>2, <1>4, <3>1
      <3>2. CASE b # at[x]
        <4>1. queue'[b] = queue[b] /\ x \notin Queues!ToSet(queue[b])
          BY <1>1, <1>2, <3>2
        <4>2. QED
          BY <1>1, <4>1
      <3>3. QED
        BY <3>1, <3>2
    <2>2. QED
      BY <1>1, <1>7, <2>1
  <1>9. Queues!QueueHoldsLiveWaiters'
    BY <1>8 DEF Queues!QueueHoldsLiveWaiters, Once
  <1>10. Watches' /\ Fresh'
    BY <1>7 DEF WaitIInv, Watches, Fresh
  <1>11. QED
    BY <1>6, <1>9, <1>10 DEF WaitIInv

\* A waiter parks: it is queued, once, behind the others.
LEMMA ParkKeeps ==
  ASSUME WaitIInv, NEW x \in Threads, NEW a \in Addrs, NEW v \in Words, Queues!WaitBegin(x, a, v)
  PROVE  WaitIInv'
  <1>1. /\ queue \in [Addrs -> Seq(Threads)] /\ selected \in [Threads -> BOOLEAN]
        /\ qpc \in [Threads -> {"run", "wait", "nwake"}]
        /\ at \in [Threads -> Addrs \cup {Queues!NoAddr}]
        /\ \A b \in Addrs :
             /\ Once(queue[b])
             /\ Queues!ToSet(queue[b]) = {t \in Threads : qpc[t] = "wait" /\ at[t] = b /\ ~selected[t]}
    BY QueueFacts
  <1>2. qpc[x] = "run" /\ UNCHANGED <<word, selected, todo, stopping, stores>>
    BY DEF Queues!WaitBegin
  <1>3. CASE stopping \/ word[a] # v
    <2>1. ret' = [ret EXCEPT ![x] = "ok"] /\ UNCHANGED <<queue, qpc, at, expect>>
      BY <1>3 DEF Queues!WaitBegin
    <2>2. Queues!TypeOK'
      BY <1>2, <2>1 DEF WaitIInv, Queues!TypeOK
    <2>3. QED
      BY <1>2, <2>1, <2>2 DEF WaitIInv, Queues!QueueHoldsLiveWaiters, Watches, Fresh
  <1>4. CASE ~(stopping \/ word[a] # v)
    <2>1. /\ ret' = ret /\ queue' = [queue EXCEPT ![a] = Append(@, x)]
          /\ qpc' = [qpc EXCEPT ![x] = "wait"] /\ at' = [at EXCEPT ![x] = a]
          /\ expect' = [expect EXCEPT ![x] = v]
      BY <1>4 DEF Queues!WaitBegin
    <2>2. /\ qpc'[x] = "wait" /\ at'[x] = a /\ selected'[x] = selected[x]
          /\ \A t \in Threads : t # x => qpc'[t] = qpc[t] /\ at'[t] = at[t] /\ selected'[t] = selected[t]
      BY <1>1, <1>2, <2>1
    <2>3. ~selected[x]
      BY <1>2 DEF WaitIInv, Fresh
    <2>4. x \notin Queues!ToSet(queue[a])
      BY <1>1, <1>2
    <2>5. /\ queue'[a] \in Seq(Threads) /\ Once(queue'[a])
          /\ Queues!ToSet(queue'[a]) = Queues!ToSet(queue[a]) \cup {x}
      BY <1>1, <2>1, <2>4, Linked
    <2>6. queue' \in [Addrs -> Seq(Threads)]
      BY <1>1, <2>1, <2>5
    <2>7. Queues!TypeOK'
      <3>1. qpc' \in [Threads -> {"run", "wait", "nwake"}] /\ at' \in [Threads -> Addrs \cup {Queues!NoAddr}]
        BY <1>1, <2>1
      <3>2. expect' \in [Threads -> Words \cup {Queues!NoWord}]
        BY <2>1 DEF WaitIInv, Queues!TypeOK
      <3>3. QED
        BY <1>2, <2>1, <2>6, <3>1, <3>2 DEF WaitIInv, Queues!TypeOK
    <2>8. ASSUME NEW b \in Addrs
          PROVE  /\ Once(queue'[b])
                 /\ Queues!ToSet(queue'[b]) = {t \in Threads : qpc'[t] = "wait" /\ at'[t] = b /\ ~selected'[t]}
      <3>1. CASE b = a
        BY <1>1, <2>2, <2>3, <2>5, <3>1
      <3>2. CASE b # a
        <4>1. queue'[b] = queue[b]
          BY <1>1, <2>1, <3>2
        <4>2. QED
          BY <1>1, <1>2, <2>2, <3>2, <4>1
      <3>3. QED
        BY <3>1, <3>2
    <2>9. Queues!QueueHoldsLiveWaiters'
      BY <2>8 DEF Queues!QueueHoldsLiveWaiters, Once
    <2>10. Watches' /\ Fresh'
      BY <2>2 DEF WaitIInv, Watches, Fresh
    <2>11. QED
      BY <2>7, <2>9, <2>10 DEF WaitIInv
  <1>5. QED
    BY <1>3, <1>4

\* Every step of the wait queues.
LEMMA QueueStep == WaitIInv /\ [Queues!Next]_(Queues!vars) => WaitIInv'
  <1> SUFFICES ASSUME WaitIInv, [Queues!Next]_(Queues!vars) PROVE WaitIInv'
    OBVIOUS
  <1>1. /\ qpc \in [Threads -> {"run", "wait", "nwake"}] /\ todo \in [Threads -> Seq(Addrs)]
        /\ word \in [Addrs -> Words] /\ stores \in 0 .. MaxStores
    BY DEF WaitIInv, Queues!TypeOK
  <1>2. /\ WakeVals \subseteq Nat /\ AddrLists \subseteq Seq(Addrs) /\ MaxStores \in Nat
        /\ IntHalf - 1 \in Nat
    BY WordsAssumption DEF Queues!UmtxQueueAssumptions
  <1>3. ASSUME NEW t \in Threads, NEW a \in Addrs, NEW v \in WakeVals, Queues!Wake(t, a, v)
        PROVE  WaitIInv'
    <2>1. Queues!Budget(v) \in Nat \ {0}
      BY <1>2, Budgets
    <2>2. Queues!WakeSimple(a, Queues!Budget(v)) /\ UNCHANGED <<word, qpc, at, expect, todo, ret, stopping, stores>>
      BY <1>3 DEF Queues!Wake
    <2>3. QED
      BY <1>1, <2>1, <2>2, WakeKeeps
  <1>4. ASSUME NEW t \in Threads, NEW s \in AddrLists, Queues!NWakeBegin(t, s) PROVE WaitIInv'
    <2>1. /\ qpc[t] = "run" /\ qpc' = [qpc EXCEPT ![t] = "nwake"] /\ todo' = [todo EXCEPT ![t] = s]
          /\ UNCHANGED <<word, queue, selected, at, expect, ret, stopping, stores>>
      BY <1>4 DEF Queues!NWakeBegin
    <2>2. /\ qpc' \in [Threads -> {"run", "wait", "nwake"}] /\ todo' \in [Threads -> Seq(Addrs)]
          /\ \A u \in Threads : (qpc'[u] = "wait") <=> (qpc[u] = "wait")
      BY <1>1, <1>2, <2>1
    <2>3. Queues!TypeOK'
      BY <2>1, <2>2 DEF WaitIInv, Queues!TypeOK
    <2>4. QED
      BY <2>1, <2>2, <2>3 DEF WaitIInv, Queues!QueueHoldsLiveWaiters, Watches, Fresh
  <1>5. ASSUME NEW t \in Threads, Queues!NWakeStep(t) PROVE WaitIInv'
    <2>1. CASE todo[t] = <<>>
      <3>1. /\ qpc[t] = "nwake" /\ qpc' = [qpc EXCEPT ![t] = "run"]
            /\ UNCHANGED <<word, queue, selected, todo, at, expect, ret, stopping, stores>>
        BY <1>5, <2>1 DEF Queues!NWakeStep
      <3>2. /\ qpc' \in [Threads -> {"run", "wait", "nwake"}]
            /\ \A u \in Threads : (qpc'[u] = "wait") <=> (qpc[u] = "wait")
        BY <1>1, <3>1
      <3>3. Queues!TypeOK'
        BY <3>1, <3>2 DEF WaitIInv, Queues!TypeOK
      <3>4. QED
        BY <3>1, <3>2, <3>3 DEF WaitIInv, Queues!QueueHoldsLiveWaiters, Watches, Fresh
    <2>2. CASE todo[t] # <<>>
      <3>1. /\ Queues!WakeSimple(Head(todo[t]), Queues!Budget(IntHalf - 1))
            /\ todo' = [todo EXCEPT ![t] = Tail(@)]
            /\ UNCHANGED <<qpc, word, at, expect, ret, stopping, stores>>
        BY <1>5, <2>2 DEF Queues!NWakeStep
      <3>2. Head(todo[t]) \in Addrs /\ Tail(todo[t]) \in Seq(Addrs)
        BY <1>1, <2>2, HeadTailProperties
      <3>3. todo' \in [Threads -> Seq(Addrs)] /\ Queues!Budget(IntHalf - 1) \in Nat \ {0}
        BY <1>1, <1>2, <3>1, <3>2, Budgets
      <3>4. QED
        BY <1>1, <3>1, <3>2, <3>3, WakeKeeps
    <2>3. QED
      BY <2>1, <2>2
  <1>6. ASSUME NEW t \in Threads, Queues!WaitAgain(t) \/ Queues!WaitTimeout(t) PROVE WaitIInv'
    <2>1. qpc[t] = "wait" /\ (Queues!Leave(t, "ok") \/ Queues!Leave(t, "timedout"))
      BY <1>6 DEF Queues!WaitAgain, Queues!WaitTimeout
    <2>2. QED
      BY <2>1, LeaveKeeps
  <1>7. ASSUME NEW t \in Threads, NEW a \in Addrs, NEW v \in Words, Queues!Store(t, a, v) PROVE WaitIInv'
    <2>1. /\ stores < MaxStores /\ word' = [word EXCEPT ![a] = v] /\ stores' = stores + 1
          /\ UNCHANGED <<queue, selected, qpc, at, expect, todo, ret, stopping>>
      BY <1>7 DEF Queues!Store
    <2>2. word' \in [Addrs -> Words] /\ stores' \in 0 .. MaxStores
      BY <1>1, <1>2, <2>1
    <2>3. Queues!TypeOK'
      BY <2>1, <2>2 DEF WaitIInv, Queues!TypeOK
    <2>4. QED
      BY <2>1, <2>3 DEF WaitIInv, Queues!QueueHoldsLiveWaiters, Watches, Fresh
  <1>8. CASE Queues!Stop
    <2>1. stopping' = TRUE /\ UNCHANGED <<word, queue, selected, qpc, at, expect, todo, ret, stores>>
      BY <1>8 DEF Queues!Stop
    <2>2. Queues!TypeOK'
      BY <2>1 DEF WaitIInv, Queues!TypeOK
    <2>3. QED
      BY <2>1, <2>2 DEF WaitIInv, Queues!QueueHoldsLiveWaiters, Watches, Fresh
  <1>9. CASE UNCHANGED Queues!vars
    BY <1>9 DEF Queues!vars, WaitIInv, Queues!TypeOK, Queues!QueueHoldsLiveWaiters, Watches, Fresh
  <1>10. QED
    BY <1>3, <1>4, <1>5, <1>6, <1>7, <1>8, <1>9, ParkKeeps DEF Queues!Next

\* A step of a behaviour about wait queues is theirs; any other leaves them alone.
LEMMA QueueMoves ==
  ASSUME [AllNext]_allVars
  PROVE  /\ used' = used
         /\ used = "queue" => [Queues!Next]_(Queues!vars)
         /\ used # "queue" => UNCHANGED queueOnly
  <1>1. CASE InMutex(Next)
    BY <1>1 DEF InMutex
  <1>2. CASE InQueue(Queues!Next)
    BY <1>2 DEF InQueue
  <1>3. CASE InRw(Rw!Next)
    BY <1>3 DEF InRw
  <1>4. CASE InSem(Sems!Next)
    BY <1>4 DEF InSem
  <1>5. CASE UNCHANGED allVars
    BY <1>5 DEF allVars, queueOnly, Queues!vars
  <1>6. QED
    BY <1>1, <1>2, <1>3, <1>4, <1>5 DEF AllNext

LEMMA QueueAlways ==
  /\ Queues!Spec => []WaitIInv
  /\ AllSpec => [](used = "queue" => WaitIInv)
  <1> DEFINE I == used = "queue" => WaitIInv
  <1>1. AllInit => I
    BY QueueInit DEF AllInit
  <1>2. I /\ [AllNext]_allVars => I'
    <2>1. SUFFICES ASSUME I, [AllNext]_allVars, used' = "queue" PROVE WaitIInv'
      OBVIOUS
    <2>2. used = "queue" /\ [Queues!Next]_(Queues!vars)
      BY <2>1, QueueMoves
    <2>3. QED
      BY <2>1, <2>2, QueueStep
  <1> HIDE DEF I
  <1>3. AllSpec => []I
    BY <1>1, <1>2, PTL DEF AllSpec
  <1>4. Queues!Spec => []WaitIInv
    BY QueueInit, QueueStep, PTL DEF Queues!Spec
  <1>5. QED
    BY <1>3, <1>4 DEF I

\* Whatever its count, a WAKE reaches the head of the queue.
LEMMA HeadReleased == WaitIInv => Queues!WakeReleasesOne
  <1> SUFFICES ASSUME WaitIInv, NEW a \in Addrs, NEW v \in WakeVals, queue[a] # <<>>
               PROVE  Head(queue[a]) \in Queues!Released(a, Queues!Budget(v))
    BY DEF Queues!WakeReleasesOne
  <1> DEFINE q == queue[a]
             n == Queues!Budget(v)
  <1>1. q \in Seq(Threads) /\ Once(q) /\ n \in Nat \ {0}
    BY QueueFacts, Budgets, WordsAssumption DEF Queues!UmtxQueueAssumptions
  <1>2. Len(q) \in Nat \ {0} /\ DOMAIN q = 1 .. Len(q) /\ Head(q) = q[1]
    BY <1>1, LenProperties, EmptySeq
  <1> HIDE DEF n
  <1>3. CASE n >= Len(q)
    <2>1. 1 \in DOMAIN q
      BY <1>2
    <2>2. QED
      BY <1>2, <1>3, <2>1 DEF Queues!Released, Queues!ToSet, n
  <1>4. CASE ~(n >= Len(q))
    <2>1. n < Len(q) /\ 1 \in 1 .. n
      BY <1>1, <1>2, <1>4
    <2>2. Queues!ToSet(SubSeq(q, 1, n)) = {q[k] : k \in 1 .. n}
      BY <1>1, <2>1, CutAt
    <2>3. QED
      BY <1>2, <1>4, <2>1, <2>2 DEF Queues!Released, n
  <1>5. QED
    BY <1>3, <1>4

\* The queues of sys_umtx_op link exactly the waiters inside WAIT that no wake has
\* selected, each once, so no exit path leaves a dangling SimpleWaiter; and a WAKE
\* of any count, narrowed to int or not, releases the longest waiting thread.
THEOREM WaitQueueSafe ==
  /\ Queues!Spec => []Queues!QueueInv
  /\ AllSpec => []WaitQueueInv
  <1>1. WaitIInv => Queues!QueueInv
    BY HeadReleased DEF WaitIInv, Queues!QueueInv
  <1>2. (used = "queue" => WaitIInv) => WaitQueueInv
    BY <1>1 DEF WaitQueueInv
  <1>3. QED
    BY <1>1, <1>2, QueueAlways, PTL

\* What WakeDiscipline says of one step.
Disciplined ==
  /\ \A t \in Threads : Queues!SelectedNeverTimesOut(t)
  /\ \A a \in Addrs : Queues!WakeInArrivalOrder(a)

\* A wake takes a prefix of the queue.
LEMMA WakesPrefix ==
  ASSUME WaitIInv, NEW a \in Addrs, NEW n \in Nat \ {0}, Queues!WakeSimple(a, n), NEW b \in Addrs
  PROVE  Queues!WakeInArrivalOrder(b)
  <1> DEFINE q == queue[b]
             R == Queues!Released(a, n)
  <1>1. /\ queue \in [Addrs -> Seq(Threads)] /\ selected \in [Threads -> BOOLEAN]
        /\ \A c \in Addrs :
             /\ Once(queue[c])
             /\ Queues!ToSet(queue[c]) = {t \in Threads : qpc[t] = "wait" /\ at[t] = c /\ ~selected[t]}
    BY QueueFacts
  <1>2. /\ R \subseteq Queues!ToSet(queue[a])
        /\ selected' = [t \in Threads |-> selected[t] \/ t \in R]
    BY WakeCut
  <1>3. Len(q) \in Nat /\ DOMAIN q = 1 .. Len(q) /\ \A k \in DOMAIN q : q[k] \in Queues!ToSet(q)
    BY <1>1, LenProperties DEF Queues!ToSet
  <1>4. SUFFICES ASSUME NEW i \in DOMAIN q, NEW j \in DOMAIN q, i < j, ~selected[q[j]], selected'[q[j]]
                 PROVE  ~selected[q[i]] /\ selected'[q[i]]
    BY DEF Queues!WakeInArrivalOrder
  <1>5. q[i] \in Threads /\ q[j] \in Threads /\ ~selected[q[i]] /\ q[j] \in R
    BY <1>1, <1>2, <1>3, <1>4
  <1>6. a = b
    BY <1>1, <1>2, <1>3, <1>5
  <1>7. q[i] \in R
    <2>1. CASE n >= Len(q)
      BY <1>3, <1>6, <2>1 DEF Queues!Released
    <2>2. CASE ~(n >= Len(q))
      <3>1. n < Len(q)
        BY <1>3, <2>2
      <3>2. R = {q[k] : k \in 1 .. n}
        BY <1>1, <1>6, <2>2, <3>1, CutAt DEF Queues!Released
      <3>3. PICK k \in 1 .. n : q[j] = q[k]
        BY <1>5, <3>2
      <3>4. k \in DOMAIN q /\ k = j
        BY <1>1, <1>3, <3>1, <3>3 DEF Once
      <3>5. i \in 1 .. n
        BY <1>3, <1>4, <3>3, <3>4
      <3>6. QED
        BY <3>2, <3>5
    <2>3. QED
      BY <2>1, <2>2
  <1>8. QED
    BY <1>2, <1>5, <1>7

\* A step that selects nobody.
LEMMA SelectsNobody ==
  ASSUME WaitIInv, \A t \in Threads : selected'[t] => selected[t], NEW a \in Addrs
  PROVE  Queues!WakeInArrivalOrder(a)
  <1>1. queue[a] \in Seq(Threads)
    BY QueueFacts
  <1>2. \A j \in DOMAIN queue[a] : queue[a][j] \in Threads
    BY <1>1, LenProperties, ElementOfSeq
  <1>3. QED
    BY <1>2 DEF Queues!WakeInArrivalOrder

LEMMA DisciplinedStep ==
  ASSUME WaitIInv, [Queues!Next]_(Queues!vars)
  PROVE  Disciplined
  <1>1. qpc \in [Threads -> {"run", "wait", "nwake"}] /\ selected \in [Threads -> BOOLEAN]
    BY QueueFacts
  <1>2. /\ WakeVals \subseteq Nat /\ AddrLists \subseteq Seq(Addrs) /\ IntHalf - 1 \in Nat
        /\ todo \in [Threads -> Seq(Addrs)] /\ ret \in [Threads -> {"ok", "timedout"}]
    BY WordsAssumption DEF Queues!UmtxQueueAssumptions, WaitIInv, Queues!TypeOK
  <1>3. ASSUME NEW a \in Addrs, NEW n \in Nat \ {0}, Queues!WakeSimple(a, n), qpc' = qpc
        PROVE  Disciplined
    BY <1>3, WakesPrefix DEF Disciplined, Queues!SelectedNeverTimesOut
  <1>4. ASSUME \A t \in Threads : selected'[t] => selected[t],
               \A t \in Threads : qpc[t] = "wait" => qpc'[t] = "wait"
        PROVE  Disciplined
    BY <1>4, SelectsNobody DEF Disciplined, Queues!SelectedNeverTimesOut
  <1>5. ASSUME NEW t \in Threads, NEW a \in Addrs, NEW v \in WakeVals, Queues!Wake(t, a, v)
        PROVE  Disciplined
    BY <1>2, <1>3, <1>5, Budgets DEF Queues!Wake
  <1>6. ASSUME NEW t \in Threads, NEW s \in AddrLists, Queues!NWakeBegin(t, s) PROVE Disciplined
    BY <1>1, <1>4, <1>6 DEF Queues!NWakeBegin
  <1>7. ASSUME NEW t \in Threads, Queues!NWakeStep(t) PROVE Disciplined
    <2>1. CASE todo[t] = <<>>
      BY <1>1, <1>4, <1>7, <2>1 DEF Queues!NWakeStep
    <2>2. CASE todo[t] # <<>>
      <3>1. Queues!WakeSimple(Head(todo[t]), Queues!Budget(IntHalf - 1)) /\ qpc' = qpc
        BY <1>7, <2>2 DEF Queues!NWakeStep
      <3>2. Head(todo[t]) \in Addrs /\ Queues!Budget(IntHalf - 1) \in Nat \ {0}
        BY <1>2, <2>2, HeadTailProperties, Budgets
      <3>3. QED
        BY <1>3, <3>1, <3>2
    <2>3. QED
      BY <2>1, <2>2
  <1>8. ASSUME NEW x \in Threads, Queues!WaitAgain(x) \/ Queues!WaitTimeout(x) PROVE Disciplined
    <2>1. /\ selected' = [selected EXCEPT ![x] = FALSE] /\ qpc' = [qpc EXCEPT ![x] = "run"]
          /\ selected[x] => ret' = [ret EXCEPT ![x] = "ok"]
      BY <1>8 DEF Queues!WaitAgain, Queues!WaitTimeout, Queues!Leave
    <2>2. \A t \in Threads : selected'[t] => selected[t]
      BY <1>1, <2>1
    <2>3. \A t \in Threads : Queues!SelectedNeverTimesOut(t)
      BY <1>1, <1>2, <2>1 DEF Queues!SelectedNeverTimesOut
    <2>4. QED
      BY <2>2, <2>3, SelectsNobody DEF Disciplined
  <1>9. ASSUME NEW t \in Threads, NEW a \in Addrs, NEW v \in Words,
               Queues!WaitBegin(t, a, v) \/ Queues!Store(t, a, v)
        PROVE  Disciplined
    BY <1>1, <1>4, <1>9 DEF Queues!WaitBegin, Queues!Store
  <1>10. CASE Queues!Stop
    BY <1>4, <1>10 DEF Queues!Stop
  <1>11. CASE UNCHANGED Queues!vars
    BY <1>4, <1>11 DEF Queues!vars
  <1>12. QED
    BY <1>5, <1>6, <1>7, <1>8, <1>9, <1>10, <1>11 DEF Queues!Next

\* Wakes go to the longest waiting threads of their address, and one that was
\* spent on a waiter is reported as such, also when its deadline passes first.
THEOREM WakesInOrder ==
  /\ Queues!Spec => Queues!WakeDiscipline
  /\ AllSpec => WakeDiscipline
  <1> DEFINE I == used = "queue" => WaitIInv
  <1>1. WaitIInv /\ [Queues!Next]_(Queues!vars) => [Disciplined]_(Queues!vars)
    BY DisciplinedStep
  <1>2. I /\ [AllNext]_allVars => [Disciplined]_(Queues!vars)
    <2>1. SUFFICES ASSUME I, [AllNext]_allVars PROVE [Disciplined]_(Queues!vars)
      OBVIOUS
    <2>2. CASE used = "queue"
      BY <1>1, <2>1, <2>2, QueueMoves
    <2>3. CASE used # "queue"
      <3>1. qpc' = qpc /\ selected' = selected
        BY <2>1, <2>3, QueueMoves DEF queueOnly
      <3>2. QED
        BY <3>1 DEF Disciplined, Queues!SelectedNeverTimesOut, Queues!WakeInArrivalOrder
    <2>4. QED
      BY <2>2, <2>3
  <1> HIDE DEF I
  <1>3. AllSpec => []I
    BY QueueAlways DEF I
  <1>4. AllSpec => [][Disciplined]_(Queues!vars)
    BY <1>2, <1>3, PTL DEF AllSpec
  <1>5. Queues!Spec => [][Disciplined]_(Queues!vars)
    BY <1>1, QueueAlways, PTL DEF Queues!Spec
  <1>6. QED
    BY <1>4, <1>5 DEF Disciplined, WakeDiscipline, Queues!WakeDiscipline
=============================================================================
