------------------------------ MODULE EventFlag ------------------------------
(***************************************************************************)
(* One SCE event flag (delta/kern/lv2/sys_event_flag.{h,cc}): the class    *)
(* EventFlag and the system calls evf_wait, evf_trywait, evf_set, evf_clear*)
(* and evf_cancel on it.                                                   *)
(*                                                                         *)
(* The 64-bit pattern is a set of bit numbers.  Everything done under m_ is*)
(* one action.  guest::Wait and guest::WaitFor come back to their test at  *)
(* least every 20 ms, notified or not, so NotifyAll has no state here.     *)
(***************************************************************************)
EXTENDS Integers, Sequences, SequencesExt

CONSTANTS
  Threads,    \* guest threads
  Bits,       \* bit numbers of the pattern
  Patterns,   \* patterns threads wait for and set
  Modes,      \* wait modes: [or, clear], clear is "none", "all" or "pat"
  InitBits,   \* init_pattern
  Sticky      \* bits of a system flag that Take asserts again

ASSUME EventFlagAssumptions ==
  /\ Patterns \subseteq (SUBSET Bits) \ {{}}
  /\ Modes \subseteq [or : BOOLEAN, clear : {"none", "all", "pat"}]
  /\ InitBits \subseteq Bits
  /\ Sticky \subseteq InitBits

VARIABLES
  bits,      \* bits_
  waiters,   \* waiters_, in queue order
  w,         \* the Waiter record on each thread's stack, and its arguments
  pc,        \* "run", "wait": inside EventFlag::Wait, "grace": see TryWait
  out,       \* what the last step returned to a waiting caller, if anything
  lastSet,   \* last_set_tid
  stopping   \* guest::Stopping()

vars == <<bits, waiters, w, pc, out, lastSet, stopping>>

NoThread == "none"
NoMode == [or |-> FALSE, clear |-> "none"]
Blank == [pat |-> {}, mode |-> NoMode, timed |-> FALSE, poll |-> FALSE,
          result |-> {}, done |-> FALSE, cancelled |-> FALSE]
Out(t, r, b) == [t |-> t, r |-> r, bits |-> b]
NoOut == Out(NoThread, "none", {})

Init ==
  /\ bits = InitBits
  /\ waiters = <<>>
  /\ w = [t \in Threads |-> Blank]
  /\ pc = [t \in Threads |-> "run"]
  /\ out = NoOut
  /\ lastSet = NoThread
  /\ stopping = FALSE

-----------------------------------------------------------------------------
\* EventFlag::Satisfied for a flag whose bits are b.
Satisfied(b, pat, mode) ==
  IF mode.or THEN b \cap pat # {} ELSE pat \subseteq b

\* What EventFlag::Take leaves of the bits b.
Taken(b, pat, mode) ==
  (CASE mode.clear = "all" -> {}
     [] mode.clear = "pat" -> b \ pat
     [] OTHER -> b) \cup Sticky

\* Mutant of CommitOne: the bits are not taken.
CommitOne_NoTake(s, t) ==
  IF w[t].done \/ ~Satisfied(s.bits, w[t].pat, w[t].mode) THEN s
  ELSE [s EXCEPT !.rec[t].result = s.bits, !.rec[t].done = TRUE]

\* EventFlag::Set's loop over the queue: each waiter that is satisfied by what
\* the waiters before it left takes its result now.  The state of the loop is
\* the bits and, by thread, the results committed so far.
CommitOne(s, t) ==
  IF w[t].done \/ ~Satisfied(s.bits, w[t].pat, w[t].mode) THEN s
  ELSE [bits |-> Taken(s.bits, w[t].pat, w[t].mode),
        rec |-> [s.rec EXCEPT ![t].result = s.bits, ![t].done = TRUE]]

\* The state of the loop after each waiter.
CommitLoop(b) ==
  LET after[i \in 0 .. Len(waiters)] ==
        IF i = 0 THEN [bits |-> b, rec |-> w] ELSE CommitOne(after[i - 1], waiters[i])
  IN  after

\* Mutant of Commit: only the head of the queue is looked at.
Commit_HeadOnly(b) == CommitLoop(b)[IF waiters = <<>> THEN 0 ELSE 1]

Commit(b) == CommitLoop(b)[Len(waiters)]

\* EventFlag::Wait returns to the system call.
Return(t, r, b) ==
  /\ pc' = [pc EXCEPT ![t] = "run"]
  /\ out' = Out(t, r, b)

\* RemoveWaiter, and the record goes out of scope.
RemoveWaiter(t) ==
  /\ waiters' = RemoveFirst(waiters, t)
  /\ w' = [w EXCEPT ![t] = Blank]

\* The entry of EventFlag::Wait: take at once, or queue a waiter and sleep.
WaitEntry(t, pat, mode, timed, poll) ==
  IF Satisfied(bits, pat, mode)
  THEN /\ bits' = Taken(bits, pat, mode)
       /\ Return(t, "ok", bits)
       /\ w' = [w EXCEPT ![t] = Blank]
       /\ UNCHANGED waiters
  ELSE /\ waiters' = Append(waiters, t)
       /\ w' = [w EXCEPT ![t] = [Blank EXCEPT !.pat = pat, !.mode = mode,
                                               !.timed = timed, !.poll = poll]]
       /\ pc' = [pc EXCEPT ![t] = "wait"]
       /\ out' = NoOut
       /\ UNCHANGED bits

-----------------------------------------------------------------------------
\* sys_evf_wait, with or without a timeout.
EvfWait(t, pat, mode, timed) ==
  /\ pc[t] = "run"
  /\ WaitEntry(t, pat, mode, timed, FALSE)
  /\ UNCHANGED <<lastSet, stopping>>

\* Mutant of WaitDone: a cancelled sleeper is not let go.
WaitDone_NotCancelled(t) ==
  /\ pc[t] = "wait"
  /\ w[t].done /\ ~w[t].cancelled
  /\ Return(t, "ok", w[t].result)
  /\ RemoveWaiter(t)
  /\ UNCHANGED <<bits, lastSet, stopping>>

\* The sleeper finds its record done: a cancelled wait is ECANCELED, any
\* other returns what set committed for it.
WaitDone(t) ==
  /\ pc[t] = "wait"
  /\ w[t].done
  /\ IF w[t].cancelled
     THEN Return(t, "canceled", {})
     ELSE Return(t, "ok", w[t].result)
  /\ RemoveWaiter(t)
  /\ UNCHANGED <<bits, lastSet, stopping>>

\* The deadline has passed, or the session stops, before the record is done:
\* ETIMEDOUT, which the grace period of a poll turns into EBUSY.
WaitTimeout(t) ==
  /\ pc[t] = "wait"
  /\ w[t].timed /\ ~w[t].done
  /\ Return(t, IF w[t].poll THEN "busy" ELSE "timedout", {})
  /\ RemoveWaiter(t)
  /\ UNCHANGED <<bits, lastSet, stopping>>

\* An untimed wait that the stop ends returns 0 with an empty result.
WaitStopped(t) ==
  /\ pc[t] = "wait"
  /\ stopping /\ ~w[t].timed /\ ~w[t].done
  /\ Return(t, "ok", {})
  /\ RemoveWaiter(t)
  /\ UNCHANGED <<bits, lastSet, stopping>>

\* sys_evf_trywait: take or EBUSY.  A poll by the thread that made the last
\* set gets a bounded wait for the answer instead; the lock is not held in
\* between.
TryWait(t, pat, mode) ==
  /\ pc[t] = "run"
  /\ IF Satisfied(bits, pat, mode)
     THEN /\ bits' = Taken(bits, pat, mode)
          /\ Return(t, "ok", bits)
          /\ UNCHANGED w
     ELSE /\ UNCHANGED bits
          /\ IF lastSet = t
             THEN /\ pc' = [pc EXCEPT ![t] = "grace"]
                  /\ w' = [w EXCEPT ![t] = [Blank EXCEPT !.pat = pat, !.mode = mode]]
                  /\ out' = NoOut
             ELSE Return(t, "busy", {}) /\ UNCHANGED w
  /\ UNCHANGED <<waiters, lastSet, stopping>>

Grace(t) ==
  /\ pc[t] = "grace"
  /\ WaitEntry(t, w[t].pat, w[t].mode, TRUE, TRUE)
  /\ UNCHANGED <<lastSet, stopping>>

\* sys_evf_set: the satisfied waits are committed inside the call.
Set(t, b) ==
  /\ pc[t] = "run"
  /\ bits' = Commit(bits \cup b).bits
  /\ w' = Commit(bits \cup b).rec
  /\ lastSet' = t
  /\ out' = NoOut
  /\ UNCHANGED <<waiters, pc, stopping>>

\* sys_evf_clear keeps the bits in b.
Clear(t, b) ==
  /\ pc[t] = "run"
  /\ bits' = bits \cap b
  /\ out' = NoOut
  /\ UNCHANGED <<waiters, w, pc, lastSet, stopping>>

\* EvfSetByNameSubstr and EvfClearByNameSubstr: a host thread, such as the
\* stand-in for the audio daemon, sets or clears a flag by its name.
HostSet(b) ==
  /\ bits' = Commit(bits \cup b).bits
  /\ w' = Commit(bits \cup b).rec
  /\ lastSet' = NoThread
  /\ out' = NoOut
  /\ UNCHANGED <<waiters, pc, stopping>>

HostClear(b) ==
  /\ bits' = bits \cap b
  /\ out' = NoOut
  /\ UNCHANGED <<waiters, w, pc, lastSet, stopping>>

\* Mutant of Cancel: waits that set has committed are cancelled as well.
Cancel_All(t) ==
  /\ pc[t] = "run"
  /\ w' = [u \in Threads |->
             IF u \in ToSet(waiters)
             THEN [w[u] EXCEPT !.cancelled = TRUE, !.done = TRUE] ELSE w[u]]
  /\ out' = NoOut
  /\ UNCHANGED <<bits, waiters, pc, lastSet, stopping>>

\* sys_evf_cancel marks every waiter that set has not committed yet.
Cancel(t) ==
  /\ pc[t] = "run"
  /\ w' = [u \in Threads |->
             IF u \in ToSet(waiters) /\ ~w[u].done
             THEN [w[u] EXCEPT !.cancelled = TRUE, !.done = TRUE] ELSE w[u]]
  /\ out' = NoOut
  /\ UNCHANGED <<bits, waiters, pc, lastSet, stopping>>

Stop ==
  /\ ~stopping
  /\ stopping' = TRUE
  /\ out' = NoOut
  /\ UNCHANGED <<bits, waiters, w, pc, lastSet>>

Next ==
  \/ Stop
  \/ \E p \in Patterns : HostSet(p) \/ HostClear(Bits \ p)
  \/ \E t \in Threads :
       \/ \E p \in Patterns, md \in Modes :
            TryWait(t, p, md) \/ \E timed \in BOOLEAN : EvfWait(t, p, md, timed)
       \/ \E p \in Patterns : Set(t, p) \/ Clear(t, Bits \ p)
       \/ Cancel(t) \/ Grace(t)
       \/ WaitDone(t) \/ WaitTimeout(t) \/ WaitStopped(t)

\* A sleeper re-tests at least every 20 ms; deadlines are not urgent.
Fairness ==
  \A t \in Threads :
    /\ WF_vars(WaitDone(t)) /\ WF_vars(WaitStopped(t)) /\ WF_vars(Grace(t))
    /\ WF_vars(stopping /\ WaitTimeout(t))

Spec == Init /\ [][Next]_vars /\ Fairness

-----------------------------------------------------------------------------
\* The type invariant; a wait returns 0, ETIMEDOUT, EBUSY or ECANCELED, and
\* never EINTR.
TypeOK ==
  /\ bits \in SUBSET Bits
  /\ waiters \in Seq(Threads)
  /\ w \in [Threads -> [pat : SUBSET Bits, mode : Modes \cup {NoMode}, timed : BOOLEAN,
                        poll : BOOLEAN, result : SUBSET Bits, done : BOOLEAN,
                        cancelled : BOOLEAN]]
  /\ pc \in [Threads -> {"run", "wait", "grace"}]
  /\ out \in [t : Threads \cup {NoThread}, bits : SUBSET Bits,
              r : {"none", "ok", "timedout", "busy", "canceled"}]
  /\ lastSet \in Threads \cup {NoThread}
  /\ stopping \in BOOLEAN

\* waiters_ points to exactly the records of the threads inside Wait, each
\* once: the records live on those threads' stacks.
WaitersAreLive ==
  /\ \A i, j \in DOMAIN waiters : waiters[i] = waiters[j] => i = j
  /\ ToSet(waiters) = {t \in Threads : pc[t] = "wait"}

\* No wait sleeps through a pattern that holds: the bits never satisfy a
\* queued wait that is not committed, whatever the order of set, clear and
\* the takes of other waiters.  (For a flag without sticky bits.)
NoMissedWake ==
  \A t \in ToSet(waiters) : ~w[t].done => ~Satisfied(bits, w[t].pat, w[t].mode)

\* The state of the flag: well typed, no dangling Waiter, nobody asleep on bits
\* that are there.
QueueInv == TypeOK /\ WaitersAreLive /\ NoMissedWake

\* A committed wait is never revoked: neither a clear, a cancel nor a deadline
\* that comes before the host thread runs changes what it returns.
CommitStands(t) ==
  pc[t] = "wait" /\ w[t].done /\ ~w[t].cancelled
    => \/ pc'[t] = "wait" /\ w'[t] = w[t]
       \/ pc'[t] = "run" /\ out' = Out(t, "ok", w[t].result)

\* A wait returns 0 only with bits that match its pattern, except that a
\* stopping session ends untimed waits with 0.
OkMeansMatch(t) ==
  pc[t] = "wait" /\ pc'[t] = "run" /\ out'.r = "ok" /\ ~stopping
    => Satisfied(out'.bits, w[t].pat, w[t].mode)

\* What a wait returns is what was committed to it, and it matches: the bits a
\* set handed over reach the caller whatever happens before its thread runs.
WaitsReturnTheirCommit == [][\A t \in Threads : CommitStands(t) /\ OkMeansMatch(t)]_vars

\* Two waits that clear what they take are never both given the same bit by
\* one set.
ClearedBitTakenOnce ==
  [][\A t, u \in Threads :
       /\ t # u /\ ~w[t].done /\ ~w[u].done
       /\ w'[t].done /\ w'[u].done /\ ~w'[t].cancelled /\ ~w'[u].cancelled
       /\ w[t].mode.clear # "none" /\ w[u].mode.clear # "none"
       => w[t].pat \cap w[u].pat \cap w'[t].result \cap w'[u].result \subseteq Sticky]_vars

\* Every wait that was committed or cancelled returns, and a stop leaves
\* nobody inside Wait.
WaitsEnd ==
  /\ \A t \in Threads : []<>~(pc[t] = "wait" /\ w[t].done)
  /\ \A t \in Threads : []<>~(stopping /\ pc[t] # "run")
=============================================================================
