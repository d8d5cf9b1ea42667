-------------------------------- MODULE Ucond --------------------------------
(***************************************************************************)
(* The condition variable operations of sys_umtx_op on one ucond and the   *)
(* umutex that goes with it (delta/kern/lv2/sys_thread.cc):                *)
(*   UMTX_OP_CV_WAIT               op 8                                    *)
(*   UMTX_OP_CV_SIGNAL, SIGNALTO   ops 9, 22                               *)
(*   UMTX_OP_CV_BROADCAST          op 10                                   *)
(* composed with all of Umutex: a waiter enters CV_WAIT holding the mutex, *)
(* CV_WAIT releases it, and libthr takes it again after the call.          *)
(*                                                                         *)
(* A section under the ucond's bucket mutex is one action.  When ucond and *)
(* umutex hash to different buckets CV_WAIT drops the first lock to take   *)
(* the second, so its release of the mutex is an action of its own.        *)
(***************************************************************************)
EXTENDS Umutex

CONSTANTS
  MaxWaiters,   \* bound: WaitChan::waiters, which a stop no longer lowers
  Uses          \* how a guest places and uses a ucond, see use

ASSUME UcondAssumptions ==
  /\ Uses \subseteq [same : BOOLEAN, wakes : SUBSET {"signal", "broadcast"}]
  /\ MaxWaiters \in Nat /\ MaxWaiters >= Cardinality(Threads)

VARIABLES
  hasWaiters,   \* ucond::c_has_waiters, read by libthr before it signals
  waiters,      \* WaitChan::waiters
  signals,      \* WaitChan::signals
  covered,      \* my_ticket < signal_cutoff
  cmoved,       \* ch.gen != g0 for the ucond's channel
  use           \* .same: ucond and umutex hash to the same bucket; .wakes:
                \* what the guest uses on this ucond.  Never changes.

condVars == <<hasWaiters, waiters, signals, covered, cmoved, use>>
cvVars == <<vars, condVars>>

CvInit ==
  /\ Init
  /\ hasWaiters = FALSE
  /\ waiters = 0
  /\ signals = 0
  /\ covered = [t \in Threads |-> FALSE]
  /\ cmoved = [t \in Threads |-> FALSE]
  /\ use \in Uses

CvParked == {"cvRelease", "parkedCv"}
CvSleepers == {t \in Threads : pc[t] \in CvParked}

\* Mutant of CvNotifyAll: nobody is notified.
CvNotifyAll_Skipped == UNCHANGED notified

\* bk.cv.NotifyAll() of the ucond's bucket, inside the lock.
CvNotifyAll == notified' = [u \in Threads |-> notified[u] \/ pc[u] = "parkedCv"]

-----------------------------------------------------------------------------
\* The mutex half of CV_WAIT: the release rule of op 6, then NotifyAll.  The
\* waiter itself goes on to its loop, as if notified.
ReleaseMutex(t) ==
  /\ bucket = Free
  /\ m' = ReleasedWord
  /\ NextGen
  /\ notified' = [u \in Threads |-> notified[u] \/ pc[u] \in Parked \/ u = t]

\* CV_WAIT enters: count the waiter, give it a ticket past the last cutoff,
\* raise c_has_waiters, note the generation; only then drop the mutex.
CvWait(t) ==
  /\ pc[t] = "cs"
  /\ waiters < MaxWaiters
  /\ waiters' = waiters + 1
  /\ hasWaiters' = TRUE
  /\ covered' = [covered EXCEPT ![t] = FALSE]
  /\ cmoved' = [cmoved EXCEPT ![t] = FALSE]
  /\ IF use.same
     THEN ReleaseMutex(t) /\ Goto(t, "parkedCv")
     ELSE Goto(t, "cvRelease") /\ UNCHANGED <<m, moved, notified>>
  /\ UNCHANGED <<signals, use, bucket, mwaiters, seen, queued, stopping, protocol>>

\* ... under the mutex's own bucket lock when the buckets differ.
CvRelease(t) ==
  /\ pc[t] = "cvRelease"
  /\ ReleaseMutex(t)
  /\ Goto(t, "parkedCv")
  /\ UNCHANGED <<condVars, bucket, mwaiters, seen, queued, stopping, protocol>>

\* Mutant of CvLeave: the first waiter out lowers c_has_waiters.
CvLeave_LowersFlag(t, left) ==
  /\ waiters' = waiters - 1
  /\ hasWaiters' = FALSE
  /\ signals' = IF waiters = 1 THEN 0 ELSE left
  /\ covered' = [covered EXCEPT ![t] = FALSE]
  /\ cmoved' = [cmoved EXCEPT ![t] = FALSE]
  /\ UNCHANGED use
  /\ Goto(t, "try")

\* The exit of CV_WAIT; the last waiter out lowers c_has_waiters and drops
\* what is left of the signals.
CvLeave(t, left) ==
  /\ waiters' = waiters - 1
  /\ hasWaiters' = (waiters # 1)
  /\ signals' = IF waiters = 1 THEN 0 ELSE left
  /\ covered' = [covered EXCEPT ![t] = FALSE]
  /\ cmoved' = [cmoved EXCEPT ![t] = FALSE]
  /\ UNCHANGED use
  /\ Goto(t, "try")

\* A pending signal that was sent after this waiter took its ticket.
MayTake(t) == signals > 0 /\ covered[t]

\* One round of the CV_WAIT loop: stop, broadcast, signal, else sleep again.
\* A stopped waiter returns EINTR and stays counted.
CvAgain(t) ==
  /\ pc[t] = "parkedCv"
  /\ use.same => bucket = Free
  /\ notified' = [notified EXCEPT ![t] = FALSE]
  /\ \/ /\ stopping
        /\ Goto(t, "try")
        /\ UNCHANGED condVars
     \/ /\ ~stopping /\ cmoved[t]
        /\ CvLeave(t, signals)
     \/ /\ ~stopping /\ ~cmoved[t] /\ MayTake(t)
        /\ CvLeave(t, signals - 1)
     \/ /\ ~stopping /\ ~cmoved[t] /\ ~MayTake(t)
        /\ UNCHANGED <<pc, condVars>>
  /\ UNCHANGED <<m, bucket, mwaiters, moved, seen, queued, stopping, protocol>>

\* The deadline of a timed wait has passed and nothing releases the waiter.
CvTimeout(t) ==
  /\ pc[t] = "parkedCv"
  /\ use.same => bucket = Free
  /\ ~stopping /\ ~cmoved[t] /\ ~MayTake(t)
  /\ notified' = [notified EXCEPT ![t] = FALSE]
  /\ CvLeave(t, signals)
  /\ UNCHANGED <<m, bucket, mwaiters, moved, seen, queued, stopping, protocol>>

\* A signal is counted only while waiters outnumber the pending signals.
SignalCounts == waiters > signals

\* CV_SIGNAL and CV_SIGNALTO: counted only while waiters outnumber signals;
\* every waiter that has its ticket by now may take it.
CvSignal(t) ==
  /\ "signal" \in use.wakes
  /\ pc[t] \in {"idle", "cs"}
  /\ hasWaiters                        \* libthr's test before the system call
  /\ use.same => bucket = Free
  /\ IF SignalCounts
     THEN /\ signals' = signals + 1
          /\ covered' = [u \in Threads |-> u \in CvSleepers]
     ELSE UNCHANGED <<signals, covered>>
  /\ CvNotifyAll
  /\ UNCHANGED <<hasWaiters, waiters, cmoved, use>>
  /\ UNCHANGED <<m, bucket, mwaiters, moved, pc, seen, queued, stopping, protocol>>

\* CV_BROADCAST: a new generation.
CvBroadcast(t) ==
  /\ "broadcast" \in use.wakes
  /\ pc[t] \in {"idle", "cs"}
  /\ hasWaiters
  /\ use.same => bucket = Free
  /\ cmoved' = [u \in Threads |-> u \in CvSleepers]
  /\ CvNotifyAll
  /\ UNCHANGED <<hasWaiters, waiters, signals, covered, use>>
  /\ UNCHANGED <<m, bucket, mwaiters, moved, pc, seen, queued, stopping, protocol>>

CvStep(t) == CvWait(t) \/ CvRelease(t) \/ CvAgain(t) \/ CvTimeout(t)
                \/ CvSignal(t) \/ CvBroadcast(t)

CvNext == (Next /\ UNCHANGED condVars) \/ \E t \in Threads : CvStep(t)

CvWoken(t) == notified[t] /\ CvAgain(t)

\* The fairness of Umutex's Spec.  CvRelease and CvWoken compete for a bucket
\* mutex that others take and release again and again: a host mutex does not
\* starve them, hence strong fairness.
CvSpec ==
  /\ CvInit /\ [][CvNext]_cvVars
  /\ \A t \in Threads : /\ WF_cvVars(Kernel(t) /\ UNCHANGED condVars)
                        /\ WF_cvVars(User(t) /\ UNCHANGED condVars)
                        /\ WF_cvVars(Release(t) /\ UNCHANGED condVars)
                        /\ WF_cvVars(Woken(t) /\ UNCHANGED condVars)
                        /\ SF_cvVars(CvRelease(t)) /\ SF_cvVars(CvWoken(t))

-----------------------------------------------------------------------------
\* The type invariant; the counts of waiters and of signals stay natural.
CvTypeOK ==
  /\ m \in WordType
  /\ bucket \in Threads \cup {Free}
  /\ mwaiters \in Nat
  /\ moved \in [Threads -> BOOLEAN]
  /\ pc \in [Threads -> Labels \cup CvParked]
  /\ seen \in [Threads -> WordType]
  /\ queued \in [Threads -> BOOLEAN]
  /\ notified \in [Threads -> BOOLEAN]
  /\ stopping \in BOOLEAN
  /\ protocol \in Protocols
  /\ hasWaiters \in BOOLEAN
  /\ waiters \in Nat
  /\ signals \in Nat
  /\ covered \in [Threads -> BOOLEAN]
  /\ cmoved \in [Threads -> BOOLEAN]
  /\ use \in Uses

\* A waiter keeps the mutex until it is registered: the word names a thread
\* exactly while it is inside the mutex or has not reached the release yet.
CvMutualExclusion ==
  \A t \in Threads : pc[t] \in {"cs", "cvRelease"} <=> m.owner = t

\* "c_has_waiters must rise BEFORE the mutex drops": as long as a waiter is in
\* CV_WAIT, also while it is still releasing the mutex and also after other
\* waiters timed out, libthr's signal sees the flag and enters the kernel.
HasWaitersUp == CvSleepers # {} => hasWaiters

\* The counter that lowers the flag and decides whether a signal counts is
\* exact until a stop, which leaves without counting down.
CvWaitersExact == ~stopping => waiters = Cardinality(CvSleepers)

\* Without broadcasts a pending signal always has a waiter that may take it,
\* so none is left over to swallow a later signal.
PendingSignalHasTaker ==
  ~stopping /\ "broadcast" \notin use.wakes => signals <= Cardinality({t \in CvSleepers : covered[t]})

\* The state of the condition variable and its mutex: well typed, exclusive,
\* c_has_waiters, waiters and signals as the sleepers need them.
CvInv ==
  CvTypeOK /\ CvMutualExclusion /\ HasWaitersUp /\ CvWaitersExact /\ PendingSignalHasTaker

\* What can release a sleeper now.
Releasable(t) == cmoved[t] \/ (signals > 0 /\ covered[t])

\* "Release one waiter": a CV_SIGNAL sent while somebody sleeps leaves at
\* least one sleeper that the signal, or an earlier wake, lets go.
SignalReleasesOne ==
  [][(\E t \in Threads : CvSignal(t)) /\ CvSleepers # {} /\ ~stopping
       => \E t \in CvSleepers : Releasable(t)']_cvVars

\* As long as a signal is pending for a sleeper that may take it, sleepers
\* keep leaving, without the help of the re-poll tick.
SignalIsTaken ==
  <>[](~stopping /\ \E t \in CvSleepers : signals > 0 /\ covered[t])
    => []<><<\E t \in Threads : pc[t] = "parkedCv" /\ pc'[t] = "try">>_cvVars

\* A broadcast empties the condition variable of everybody it met.
BroadcastReleases ==
  \A t \in Threads : []<>~(pc[t] \in CvParked /\ cmoved[t])

\* A wake that counted for a sleeper gets it out of the system call.
WakesReachSleepers == SignalIsTaken /\ BroadcastReleases
=============================================================================
