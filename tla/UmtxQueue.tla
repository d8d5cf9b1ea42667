------------------------------ MODULE UmtxQueue ------------------------------
(***************************************************************************)
(* The simple wait queues of sys_umtx_op (delta/kern/lv2/sys_thread.cc):   *)
(*   UMTX_OP_WAIT, WAIT_UINT, WAIT_UINT_PRIVATE   ops 2, 11, 15            *)
(*   UMTX_OP_WAKE, WAKE_PRIVATE                   ops 3, 16                *)
(*   UMTX_OP_NWAKE_PRIVATE                        op 21                    *)
(*                                                                         *)
(* Everything a thread does between taking and releasing a bucket's mutex  *)
(* is one action.  The guest stores to the watched word without a lock.    *)
(* bk.cv.WaitFor releases the mutex and comes back on a notification, on a *)
(* collision in the bucket or at the 2 ms re-poll tick, so a parked waiter *)
(* evaluates its loop condition again at any time; NotifyAll only shortens *)
(* that time and has no state of its own here.                             *)
(***************************************************************************)
EXTENDS Integers, Sequences, SequencesExt

CONSTANTS
  Threads,     \* guest threads
  Addrs,       \* watched words; each one has its WaitChan
  Words,       \* values the guest stores in a watched word
  WakeVals,    \* the u64 counts passed to WAKE
  AddrLists,   \* the address arrays passed to NWAKE
  IntHalf,     \* 2^31, half the range of the i32 WakeSimple narrows its count to
  MaxStores    \* bound: stores to watched words in one behaviour

UmtxQueueAssumptions ==
  /\ IntHalf \in Nat \ {0}
  /\ WakeVals \subseteq Nat
  /\ AddrLists \subseteq Seq(Addrs)
  /\ MaxStores \in Nat

VARIABLES
  word,      \* [Addrs -> Words], guest memory
  queue,     \* WaitChan::simple_head .. simple_tail, a FIFO per address
  selected,  \* SimpleWaiter::selected
  pc,        \* "run": outside the call; "wait": in the WAIT loop; "nwake"
  at,        \* the ptr argument of WAIT
  expect,    \* the val argument of WAIT
  todo,      \* the addresses NWAKE has still to wake
  ret,       \* what the last WAIT returned
  stopping,  \* guest::Stopping()
  stores     \* stores done so far, at most MaxStores

vars == <<word, queue, selected, pc, at, expect, todo, ret, stopping, stores>>

NoAddr == "none"   \* outside WAIT its arguments do not exist
NoWord == "none"

Init ==
  /\ word \in [Addrs -> Words]
  /\ queue = [a \in Addrs |-> <<>>]
  /\ selected = [t \in Threads |-> FALSE]
  /\ pc = [t \in Threads |-> "run"]
  /\ at = [t \in Threads |-> NoAddr]
  /\ expect = [t \in Threads |-> NoWord]
  /\ todo = [t \in Threads |-> <<>>]
  /\ ret = [t \in Threads |-> "ok"]
  /\ stopping = FALSE
  /\ stores = 0

-----------------------------------------------------------------------------
\* static_cast<i32>(requested): two's complement narrowing.
Narrow(v) ==
  LET m == v % (2 * IntHalf) IN IF m >= IntHalf THEN m - 2 * IntHalf ELSE m

\* How many waiters one WAKE may release: a count <= 1 still releases one.
Budget(v) == IF Narrow(v) > 1 THEN Narrow(v) ELSE 1

\* Mutant of Released: the latest waiters are taken first.
Released_Tail(a, n) ==
  IF n >= Len(queue[a]) THEN ToSet(queue[a])
  ELSE ToSet(SubSeq(queue[a], Len(queue[a]) - n + 1, Len(queue[a])))

\* The waiters WakeSimple takes off the head of the queue of a.
Released(a, n) ==
  IF n >= Len(queue[a]) THEN ToSet(queue[a]) ELSE ToSet(SubSeq(queue[a], 1, n))

\* WakeSimple with a budget of n: unlink from the head and mark as selected.
WakeSimple(a, n) ==
  /\ selected' = [t \in Threads |-> selected[t] \/ t \in Released(a, n)]
  /\ queue' = [queue EXCEPT
                 ![a] = IF n >= Len(@) THEN <<>> ELSE SubSeq(@, n + 1, Len(@))]

\* Mutant of RemoveSimple: the exit path forgets to unlink the waiter.
RemoveSimple_Skipped(t) == t \in Threads /\ UNCHANGED queue

\* RemoveSimple: unlink a waiter that is still queued; nothing otherwise.
RemoveSimple(t) ==
  queue' = [queue EXCEPT ![at[t]] = RemoveFirst(@, t)]

Changed(t) == pc[t] = "wait" /\ word[at[t]] # expect[t]

\* WAIT returns r.  The waiter record is on the stack of the call.
Leave(t, r) ==
  /\ RemoveSimple(t)
  /\ pc' = [pc EXCEPT ![t] = "run"]
  /\ ret' = [ret EXCEPT ![t] = r]
  /\ selected' = [selected EXCEPT ![t] = FALSE]
  /\ at' = [at EXCEPT ![t] = NoAddr]
  /\ expect' = [expect EXCEPT ![t] = NoWord]
  /\ UNCHANGED <<word, todo, stopping, stores>>

-----------------------------------------------------------------------------
\* WAIT enters: under the bucket lock a fresh waiter is queued and the loop
\* condition tested.  If it is false at once the waiter is unlinked again
\* before the lock is released; otherwise the thread parks.
WaitBegin(t, a, v) ==
  /\ pc[t] = "run"
  /\ IF stopping \/ word[a] # v
     THEN /\ ret' = [ret EXCEPT ![t] = "ok"]
          /\ UNCHANGED <<queue, pc, at, expect>>
     ELSE /\ UNCHANGED ret
          /\ queue' = [queue EXCEPT ![a] = Append(@, t)]
          /\ pc' = [pc EXCEPT ![t] = "wait"]
          /\ at' = [at EXCEPT ![t] = a]
          /\ expect' = [expect EXCEPT ![t] = v]
  /\ UNCHANGED <<word, selected, todo, stopping, stores>>

\* The loop condition is false: leave with 0.
WaitAgain(t) ==
  /\ pc[t] = "wait"
  /\ stopping \/ Changed(t) \/ selected[t]
  /\ Leave(t, "ok")

\* The loop condition is true and the deadline has passed: ETIMEDOUT.
WaitTimeout(t) ==
  /\ pc[t] = "wait"
  /\ ~stopping /\ ~Changed(t) /\ ~selected[t]
  /\ Leave(t, "timedout")

\* WAKE(ptr = a, val = v).
Wake(t, a, v) ==
  /\ pc[t] = "run"
  /\ WakeSimple(a, Budget(v))
  /\ UNCHANGED <<word, pc, at, expect, todo, ret, stopping, stores>>

\* NWAKE enters with an array of addresses ...
NWakeBegin(t, s) ==
  /\ pc[t] = "run"
  /\ pc' = [pc EXCEPT ![t] = "nwake"]
  /\ todo' = [todo EXCEPT ![t] = s]
  /\ UNCHANGED <<word, queue, selected, at, expect, ret, stopping, stores>>

\* ... and wakes all waiters of one address per acquisition of its bucket.
NWakeStep(t) ==
  /\ pc[t] = "nwake"
  /\ IF todo[t] = <<>>
     THEN /\ pc' = [pc EXCEPT ![t] = "run"]
          /\ UNCHANGED <<queue, selected, todo>>
     ELSE /\ WakeSimple(Head(todo[t]), Budget(IntHalf - 1))
          /\ todo' = [todo EXCEPT ![t] = Tail(@)]
          /\ UNCHANGED pc
  /\ UNCHANGED <<word, at, expect, ret, stopping, stores>>

\* The guest stores to a watched word; no system call.
Store(t, a, v) ==
  /\ pc[t] = "run"
  /\ stores < MaxStores
  /\ word' = [word EXCEPT ![a] = v]
  /\ stores' = stores + 1
  /\ UNCHANGED <<queue, selected, pc, at, expect, todo, ret, stopping>>

\* guest::RequestStop.
Stop ==
  /\ ~stopping
  /\ stopping' = TRUE
  /\ UNCHANGED <<word, queue, selected, pc, at, expect, todo, ret, stores>>

Next ==
  \/ Stop
  \/ \E t \in Threads :
       \/ \E a \in Addrs, v \in Words : WaitBegin(t, a, v) \/ Store(t, a, v)
       \/ \E a \in Addrs, v \in WakeVals : Wake(t, a, v)
       \/ \E s \in AddrLists : NWakeBegin(t, s)
       \/ NWakeStep(t)
       \/ WaitAgain(t)
       \/ WaitTimeout(t)

\* The re-poll tick brings every parked waiter back to its loop condition and
\* a thread inside NWAKE is never blocked.
Fairness == \A t \in Threads : WF_vars(WaitAgain(t)) /\ WF_vars(NWakeStep(t))

Spec == Init /\ [][Next]_vars /\ Fairness

-----------------------------------------------------------------------------
\* The type invariant; in particular WAIT returns 0 or ETIMEDOUT only, also
\* when a stop ends it.
TypeOK ==
  /\ word \in [Addrs -> Words]
  /\ queue \in [Addrs -> Seq(Threads)]
  /\ selected \in [Threads -> BOOLEAN]
  /\ pc \in [Threads -> {"run", "wait", "nwake"}]
  /\ at \in [Threads -> Addrs \cup {NoAddr}]
  /\ expect \in [Threads -> Words \cup {NoWord}]
  /\ todo \in [Threads -> Seq(Addrs)]
  /\ ret \in [Threads -> {"ok", "timedout"}]
  /\ stopping \in BOOLEAN
  /\ stores \in 0 .. MaxStores

\* A queue links exactly the waiters that are inside WAIT on its address and
\* not selected, each once: the SimpleWaiter is a local of sys_umtx_op, so a
\* node left behind by any exit path would be a dangling pointer.
QueueHoldsLiveWaiters ==
  \A a \in Addrs :
    /\ \A i, j \in DOMAIN queue[a] : queue[a][i] = queue[a][j] => i = j
    /\ ToSet(queue[a]) =
         {t \in Threads : pc[t] = "wait" /\ at[t] = a /\ ~selected[t]}

\* A WAKE of any count, also one that the narrowing to int turns into zero or
\* a negative number, would release the longest waiting thread: no count is
\* lost on an address somebody sleeps on.
WakeReleasesOne ==
  \A a \in Addrs, v \in WakeVals :
    queue[a] # <<>> => Head(queue[a]) \in Released(a, Budget(v))

\* The state of the queues: well typed, no dangling SimpleWaiter, and no WAKE
\* that would pass a sleeper by.
QueueInv == TypeOK /\ QueueHoldsLiveWaiters /\ WakeReleasesOne

\* A wake that was spent on a waiter is reported as a wake: a waiter selected
\* before its deadline test returns 0, never ETIMEDOUT.
SelectedNeverTimesOut(t) ==
  pc[t] = "wait" /\ pc'[t] = "run" /\ selected[t] => ret'[t] = "ok"

\* No wake, single or by NWAKE, passes over an earlier waiter of the address:
\* who is selected together with a later waiter, or before it, came first.
WakeInArrivalOrder(a) ==
  LET q == queue[a]
      New(i) == ~selected[q[i]] /\ selected'[q[i]]
  IN \A i, j \in DOMAIN q : i < j /\ New(j) => New(i)

\* No wake is lost on the way to its waiter: it goes to the longest waiting
\* threads, and a deadline that passes afterwards does not turn it into
\* ETIMEDOUT.
WakeDiscipline ==
  [][/\ \A t \in Threads : SelectedNeverTimesOut(t)
     /\ \A a \in Addrs : WakeInArrivalOrder(a)]_vars

\* A waiter that may leave (its word changed, it was selected, the session is
\* stopping) does not stay in the call for ever, wake system call or not.
ReleasedWaiterLeaves ==
  \A t \in Threads :
    []<>~(pc[t] = "wait" /\ (stopping \/ Changed(t) \/ selected[t]))
=============================================================================
