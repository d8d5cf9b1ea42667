------------------------------ MODULE Display -------------------------------
(***************************************************************************)
(* Paced flips (shared/guest/display.cc): QueueFlip, the display thread's  *)
(* Run, WaitFlip and SetFlipRate, with what the two consoles make of them: *)
(* DceSubmitFlip and DceCompleteGpuFlips (ps4/dev/dce_dev.cc) queue flips  *)
(* and count them, the flip ioctl of ps5/dev/dce_dev.cc waits for its own. *)
(*                                                                         *)
(* Vblank counts are kept relative to the current one, and the current one *)
(* modulo Phases: flips are aimed at multiples of rate + 1.  guest::Wait    *)
(* comes back on a notification or after 20 ms.  Of a flip its mode and,   *)
(* on PS5, its caller are kept; buffers, arguments and time stamps are     *)
(* passed through.                                                         *)
(***************************************************************************)
EXTENDS Integers, Sequences, FiniteSets

CONSTANTS
  Threads,     \* guest threads
  Consoles,    \* "ps4", "ps5"
  Rates,       \* flip rates a title sets, each in 0 .. 2
  Phases,      \* the clock is kept modulo this, a multiple of every rate + 1
  MaxSubmits   \* bound: flips a PS4 title has outstanding

DisplayAssumptions ==
  /\ IsFiniteSet(Threads)
  /\ Consoles \subseteq {"ps4", "ps5"}
  /\ Rates \subseteq 0 .. 2 /\ 0 \in Rates
  /\ Phases \in Nat \ {0} /\ \A r \in Rates : Phases % (r + 1) = 0
  /\ MaxSubmits \in Nat

VARIABLES
  console,    \* the machine, for the whole behaviour
  timing,     \* kEmulateTiming, for the whole behaviour
  now,        \* VblankCount() % Phases
  rate,       \* State::rate
  last,       \* State::last_flip - VblankCount(), not below -3
  aimed,      \* the last vblank a flip of mode 1 was aimed at, the same way
  pending,    \* State::pending
  flips,      \* State::flips
  wpc,        \* the display thread
  busy,       \* the flip it has taken, if any
  pc,         \* of a guest thread
  hand,       \* the flips it has still to queue
  submits,    \* g_dce_submit_count - g_dce_flip_count
  gpu,        \* g_dce_gpu_flips
  ready,      \* Completion::ready, per PS5 caller
  cancelled,  \* Completion::cancelled
  label,      \* the label on the caller's stack was written
  stopping    \* guest::Stopping()

fixed == <<console, timing>>
clock == <<now, rate, last, aimed>>
queue == <<pending, flips>>
worker == <<wpc, busy>>
counts == <<submits, gpu>>
completion == <<ready, cancelled, label>>
vars == <<fixed, clock, queue, worker, pc, hand, counts, completion, stopping>>

\* A flip: the vblank it is aimed at, its mode, and on PS5 the call it is of.
Flip(t, due, vsync) ==
  [due |-> due, vsync |-> vsync, who |-> IF console = "ps5" THEN t ELSE "any"]

Init ==
  /\ console \in Consoles /\ timing \in BOOLEAN
  /\ now = 0 /\ rate = 0 /\ last = 0 /\ aimed = 0
  /\ pending = 0 /\ flips = <<>>
  /\ wpc = "none" /\ busy = <<>>
  /\ pc = [t \in Threads |-> "run"]
  /\ hand = [t \in Threads |-> <<>>]
  /\ submits = 0 /\ gpu = <<>>
  /\ ready = [t \in Threads |-> FALSE]
  /\ cancelled = [t \in Threads |-> FALSE]
  /\ label = [t \in Threads |-> FALSE]
  /\ stopping = FALSE

-----------------------------------------------------------------------------
(* The clock                                                               *)

Later(n, m) == IF n > m THEN n ELSE m

Nearer(fs) == [i \in DOMAIN fs |-> [fs[i] EXCEPT !.due = Later(@ - 1, 0)]]

\* A vblank; with the flips emulated at once nothing looks at the clock.
Tick ==
  /\ timing
  /\ now' = (now + 1) % Phases
  /\ last' = Later(last - 1, -3)
  /\ aimed' = Later(aimed - 1, 0)
  /\ flips' = Nearer(flips) /\ busy' = Nearer(busy)
  /\ UNCHANGED <<fixed, rate, pending, wpc, pc, hand, counts, completion, stopping>>

SetFlipRate(r) ==
  /\ timing /\ rate # r
  /\ rate' = r
  /\ UNCHANGED <<fixed, now, last, aimed, queue, worker, pc, hand, counts,
                 completion, stopping>>

\* Mutant of Due: the last flip is not looked at.
Due_NoLast(vsync) ==
  IF ~vsync THEN 0 ELSE CHOOSE d \in 1 .. 1 + rate : (now + d) % (rate + 1) = 0

\* The vblank a flip is aimed at: mode 2 at the current one, mode 1 at the next
\* multiple of the interval that is an interval after the last flip.
Due(vsync) ==
  LET interval == rate + 1
      next == Later(1, last + interval)
  IN IF ~vsync THEN 0
     ELSE CHOOSE d \in next .. next + rate : (now + d) % interval = 0

-----------------------------------------------------------------------------
(* Completions                                                             *)

\* The function a flip carries.  PS4: the flip is counted.  PS5: the lambda of
\* WaitFlip, which does nothing for a caller that has given up.
Complete(f) ==
  /\ submits' = IF console = "ps4" THEN submits - 1 ELSE submits
  /\ IF console = "ps5"
     THEN /\ label' = [label EXCEPT ![f.who] = @ \/ ~cancelled[f.who]]
          /\ ready' = [ready EXCEPT ![f.who] = TRUE]
     ELSE UNCHANGED <<label, ready>>

-----------------------------------------------------------------------------
(* The calls                                                               *)

To(t, next) == pc' = [pc EXCEPT ![t] = next]
Calling(t, c) == console = c /\ pc[t] = "run" /\ ~stopping

\* DceSubmitFlip without wait_for_gpu, up to QueueFlip.
Submit(t, vsync) ==
  /\ Calling(t, "ps4") /\ submits < MaxSubmits
  /\ submits' = submits + 1
  /\ hand' = [hand EXCEPT ![t] = <<vsync>>]
  /\ To(t, "queue")
  /\ UNCHANGED <<fixed, clock, queue, worker, gpu, completion, stopping>>

\* DceSubmitFlip with wait_for_gpu: counted first, then left for the GPU.
SubmitGpu(t, vsync) ==
  /\ Calling(t, "ps4") /\ submits < MaxSubmits
  /\ submits' = submits + 1
  /\ hand' = [hand EXCEPT ![t] = <<vsync>>]
  /\ To(t, "push")
  /\ UNCHANGED <<fixed, clock, queue, worker, gpu, completion, stopping>>

PushGpu(t) ==
  /\ pc[t] = "push"
  /\ gpu' = gpu \o hand[t]
  /\ hand' = [hand EXCEPT ![t] = <<>>]
  /\ To(t, "run")
  /\ UNCHANGED <<fixed, clock, queue, worker, submits, completion, stopping>>

\* DceCompleteGpuFlips takes what is there and queues it flip by flip.
CompleteGpu(t) ==
  /\ Calling(t, "ps4") /\ gpu # <<>>
  /\ hand' = [hand EXCEPT ![t] = gpu]
  /\ gpu' = <<>>
  /\ To(t, "queue")
  /\ UNCHANGED <<fixed, clock, queue, worker, submits, completion, stopping>>

\* The PS5 ioctl: WaitFlip with a fresh Completion, and a label on the stack.
WaitFlip(t, vsync) ==
  /\ Calling(t, "ps5")
  /\ hand' = [hand EXCEPT ![t] = <<vsync>>]
  /\ ready' = [ready EXCEPT ![t] = FALSE]
  /\ cancelled' = [cancelled EXCEPT ![t] = FALSE]
  /\ To(t, "queue")
  /\ UNCHANGED <<fixed, clock, queue, worker, counts, label, stopping>>

\* Where a call goes on when QueueFlip has accepted a flip.
Accepted(t) ==
  /\ hand' = [hand EXCEPT ![t] = Tail(@)]
  /\ To(t, IF console = "ps5" THEN "wait"
           ELSE IF Len(hand[t]) > 1 THEN "queue" ELSE "run")

\* QueueFlip without emulated timing: complete at once.
QueueNow(t) ==
  /\ pc[t] = "queue" /\ ~stopping /\ ~timing
  /\ Complete(Flip(t, 0, Head(hand[t])))
  /\ Accepted(t)
  /\ UNCHANGED <<fixed, clock, queue, worker, gpu, cancelled, stopping>>

\* "Bound outstanding frames even when the guest does not wait on flip events."
Room == pending < 2

\* QueueFlip: the first flip starts the display thread.
QueueFlip(t) ==
  /\ pc[t] = "queue" /\ ~stopping /\ timing /\ Room
  /\ wpc' = IF wpc = "none" THEN "idle" ELSE wpc
  /\ LET vsync == Head(hand[t])
         due == Due(vsync)
     IN /\ last' = due
        /\ aimed' = IF vsync THEN due ELSE aimed
        /\ flips' = Append(flips, Flip(t, due, vsync))
  /\ pending' = pending + 1
  /\ Accepted(t)
  /\ UNCHANGED <<fixed, now, rate, busy, counts, completion, stopping>>

\* QueueFlip refuses: the session stops, or the thread cannot be made.  What was
\* counted and not queued is taken back.
Refused(t) ==
  /\ pc[t] = "queue" /\ (stopping \/ (timing /\ wpc = "none"))
  /\ submits' = IF console = "ps4" THEN submits - Len(hand[t]) ELSE submits
  /\ hand' = [hand EXCEPT ![t] = <<>>]
  /\ To(t, "run")
  /\ UNCHANGED <<fixed, clock, queue, worker, gpu, completion, stopping>>

\* WaitFlip comes back; the caller's stack is its own again.
WaitDone(t) ==
  /\ pc[t] = "wait" /\ ready[t]
  /\ label' = [label EXCEPT ![t] = FALSE]
  /\ ready' = [ready EXCEPT ![t] = FALSE]
  /\ To(t, "run")
  /\ UNCHANGED <<fixed, clock, queue, worker, hand, counts, cancelled, stopping>>

\* Mutant of WaitStopped: the completion is not told.
WaitStopped_NotTold(t) ==
  /\ pc[t] = "wait" /\ ~ready[t] /\ stopping
  /\ To(t, "run")
  /\ UNCHANGED <<fixed, clock, queue, worker, hand, counts, completion, stopping>>

WaitStopped(t) ==
  /\ pc[t] = "wait" /\ ~ready[t] /\ stopping
  /\ cancelled' = [cancelled EXCEPT ![t] = TRUE]
  /\ To(t, "run")
  /\ UNCHANGED <<fixed, clock, queue, worker, hand, counts, ready, label, stopping>>

-----------------------------------------------------------------------------
(* The display thread                                                      *)

Work(from, next) == wpc = from /\ wpc' = next
Quiet == UNCHANGED <<fixed, clock, pc, hand, stopping>>

Take ==
  /\ flips # <<>> /\ Work("idle", "until")
  /\ busy' = <<Head(flips)>> /\ flips' = Tail(flips)
  /\ UNCHANGED <<pending, counts, completion>> /\ Quiet

\* WaitUntil the flip's vblank, then the test for the stop.
Until ==
  /\ Work("until", IF stopping THEN "done" ELSE "complete")
  /\ stopping \/ busy[1].due = 0
  /\ UNCHANGED <<busy, queue, counts, completion>> /\ Quiet

Run ==
  /\ Work("complete", "count")
  /\ Complete(busy[1])
  /\ UNCHANGED <<busy, queue, gpu, cancelled>> /\ Quiet

Count ==
  /\ Work("count", IF stopping THEN "done" ELSE "idle")
  /\ pending' = pending - 1 /\ busy' = <<>>
  /\ UNCHANGED <<flips, counts, completion>> /\ Quiet

IdleStopped ==
  /\ stopping /\ flips = <<>> /\ Work("idle", "done")
  /\ UNCHANGED <<busy, queue, counts, completion>> /\ Quiet

-----------------------------------------------------------------------------
(* The session                                                             *)

\* guest::RequestStop.
Stop ==
  /\ ~stopping
  /\ stopping' = TRUE
  /\ UNCHANGED <<fixed, clock, queue, worker, pc, hand, counts, completion>>

\* The threads are joined, display and port are reset, the next title starts.
NextSession ==
  /\ stopping /\ wpc \in {"none", "done"} /\ \A t \in Threads : pc[t] = "run"
  /\ stopping' = FALSE
  /\ now' = 0 /\ rate' = 0 /\ last' = 0 /\ aimed' = 0
  /\ pending' = 0 /\ flips' = <<>> /\ wpc' = "none" /\ busy' = <<>>
  /\ submits' = 0 /\ gpu' = <<>>
  /\ ready' = [t \in Threads |-> FALSE] /\ cancelled' = ready'
  /\ UNCHANGED <<fixed, pc, hand, label>>

-----------------------------------------------------------------------------
Display == Take \/ Until \/ Run \/ Count \/ IdleStopped

\* What a call under way does next.
Go(t) == \/ PushGpu(t) \/ QueueNow(t) \/ QueueFlip(t) \/ WaitDone(t)
         \/ WaitStopped(t) \/ (stopping /\ Refused(t))

Next ==
  \/ Tick \/ (\E r \in Rates : SetFlipRate(r)) \/ Display \/ Stop \/ NextSession
  \/ \E t \in Threads :
       \/ \E vsync \in BOOLEAN :
            Submit(t, vsync) \/ SubmitGpu(t, vsync) \/ WaitFlip(t, vsync)
       \/ CompleteGpu(t) \/ Go(t) \/ Refused(t)

\* Time passes, host threads are scheduled; room in the queue is competed for,
\* and a host mutex does not starve a waiter.
Spec ==
  /\ Init /\ [][Next]_vars
  /\ WF_vars(Tick) /\ WF_vars(Display)
  /\ \A t \in Threads : SF_vars(Go(t))

-----------------------------------------------------------------------------
TypeOK ==
  /\ console \in Consoles /\ timing \in BOOLEAN /\ stopping \in BOOLEAN
  /\ now \in 0 .. Phases - 1 /\ rate \in Rates
  /\ last \in Int /\ aimed \in Nat /\ pending \in 0 .. 2
  /\ wpc \in {"none", "idle", "until", "complete", "count", "done"}
  /\ pc \in [Threads -> {"run", "queue", "push", "wait"}]
  /\ submits \in Nat
  /\ ready \in [Threads -> BOOLEAN] /\ cancelled \in [Threads -> BOOLEAN]
  /\ label \in [Threads -> BOOLEAN]

\* pending bounds the flips between QueueFlip and their completion, and only them.
PendingExact == pending = Len(flips) + Len(busy)

\* The flips calls have still to queue.
InHand == UNION {{t} \X DOMAIN hand[t] : t \in Threads}

\* What the flip status reports as pending (submitted, not flipped, not with the
\* GPU) is what is queued or on its way there; it never wraps below zero.
StatusExact ==
  console = "ps4" =>
    submits = Len(flips) + Len(gpu)
              + (IF wpc = "count" THEN 0 ELSE Len(busy))
              + Cardinality(InHand)

\* "AGC passes a stack label, so completion must precede returning": no label is
\* written when its caller has left, also when a stop makes it leave first.
LabelOnStack == \A t \in Threads : label[t] => pc[t] = "wait"

FlipInv == TypeOK /\ PendingExact /\ StatusExact /\ LabelOnStack

\* Two flips of mode 1 are never aimed at the same vblank, whatever flips of
\* mode 2 and changes of the rate come between them.
FlipsPaced ==
  [][Len(flips') > Len(flips) /\ flips'[Len(flips')].vsync
       => flips'[Len(flips')].due > aimed]_vars

\* Every flip completes and every call returns, in a session or by its stop.
FlipsEnd ==
  /\ \A t \in Threads : []<>(pc[t] = "run")
  /\ []<>(pending < 2 \/ stopping)
=============================================================================
