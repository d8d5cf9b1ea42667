---------------------------- MODULE RenderQueue ----------------------------
(***************************************************************************)
(* The PS4 renderer's own thread (src/delta/gpu/ps4/render_queue.cc).  The *)
(* guest thread that walks PM4 (one at a time: g_mutex) builds draws into  *)
(* slots and pushes commands on a ring; the render thread runs them in     *)
(* order.  The walk may touch the renderer itself only after Drain, and    *)
(* must not read guest memory a queued command still has to write.         *)
(*                                                                         *)
(* One action stands for what a thread does between two touches of shared  *)
(* state.  The walk's sleeps (guest::Wait) look again at least every 20 ms *)
(* so they are guards; the render thread's sleep on render_wake_ is not    *)
(* timed, and is modelled with its lock: "presleep" holds wake_mutex_    *)
(* between the check and the sleep.                                        *)
(***************************************************************************)
EXTENDS Presenter, FiniteSets, Sequences

CONSTANTS Commands,     \* kCommands
          DrawSlots,    \* kDrawSlots
          Addrs,        \* guest ranges commands write and the walk reads
          Budgets       \* bounds of a session: commands pushed, writes per range

RingAssumption == /\ Commands \in Nat \ {0} /\ DrawSlots \in Nat \ {0}
                  /\ Budgets \subseteq [push : Nat, writes : Nat]

VARIABLES
  w,           \* the walk's own: [pc, todo: commands its operation has yet to push,
               \*   target, next: what its WaitDone waits for and where it goes on,
               \*   addr: the range its operation is about, frameActive,
               \*   drawHead, lastEnd, pending: draw_head_, last_end_frame_,
               \*   pending_writes_]
  head,        \* head_
  cmds,        \* commands_
  draws,       \* draws_: the number of the draw each slot describes
  r,           \* the render thread's own: [pc, tail, slotIdx]; pc is "off" before
               \*   Start and after Stop, slotIdx is g_frame.slot_idx
  done,        \* done_
  drawsDone,   \* draws_done_
  submitted,   \* the slots the GPU may be writing
  mem,         \* the version of each range in guest memory
  dirty,       \* the version a dispatch left on the GPU, 0 when none
  issued,      \* the version the last write walked past makes of the range
  option,      \* frozen: [cs: kCsOnRenderThread, push, writes: the Budget kept to]
  qstop,       \* stop_
  stopping,    \* guest::Stopping()
  lpc          \* where the launcher is

qvars == <<head, cmds, draws>>
rvars == <<r, done, drawsDone, submitted>>
mvars == <<mem, dirty, issued>>
lvars == <<qstop, stopping, lpc>>
vars == <<pvars, w, qvars, rvars, mvars, option, lvars>>
notWalk == <<pvars, qvars, rvars, mvars, option, lvars>>
notRender == <<pvars, w, qvars, mvars, option, lvars>>

MaxPush == CHOOSE n \in {b.push : b \in Budgets} : \A b \in Budgets : b.push <= n
Kinds == {"draw", "begin", "end", "dma", "cs"}      \* dma and cs are kCall
NewCmd(kind, arg, ver) == [kind |-> kind, arg |-> arg, ver |-> ver, n |-> 0]

NewWalk == [pc |-> "idle", todo |-> <<>>, target |-> 0, next |-> "idle", addr |-> None,
            frameActive |-> FALSE, drawHead |-> 0, lastEnd |-> 0, pending |-> {}]
NewRender == [pc |-> "off", tail |-> 0, slotIdx |-> 0]
Unwritten == [a \in Addrs |-> 0]

Init == /\ PInit
        /\ w = NewWalk /\ r = NewRender
        /\ head = 0 /\ done = 0 /\ drawsDone = 0 /\ submitted = {}
        /\ cmds = [i \in 0..(Commands - 1) |-> NewCmd("dma", 0, 0)]
        /\ draws = [i \in 0..(DrawSlots - 1) |-> 0]
        /\ mem = Unwritten /\ dirty = Unwritten /\ issued = Unwritten
        /\ \E b \in Budgets : \E cs \in IF b.writes = 0 THEN {FALSE} ELSE BOOLEAN :
             option = [cs |-> cs, push |-> b.push, writes |-> b.writes]
        /\ qstop = FALSE /\ stopping = FALSE /\ lpc = "run"

-----------------------------------------------------------------------------
(* The walk: a guest thread inside Submit, under g_mutex.                   *)

Walking == w.pc = "idle" /\ r.pc # "off"
Fits(k) == head + k <= option.push

\* StartRendererOnce, at the first submission: Start makes the thread.
Start == /\ w.pc = "idle" /\ r.pc = "off" /\ ~stopping
         /\ r' = [r EXCEPT !.pc = "top"]
         /\ UNCHANGED <<done, drawsDone, submitted, notRender>>

\* WaitDone(counter, n): guest::Wait gives up when the session stops.
Reached(counter, n) == counter >= n \/ stopping

\* A draw packet: NextDraw waits for its slot, BuildDrawInfo fills it, and what
\* follows is pushed; a draw that is not renderable leaves the slot for the next.
BeginDraw == /\ Walking /\ Fits(2)
             /\ w' = [w EXCEPT !.pc = "slot"]
             /\ UNCHANGED notWalk

SlotFree == w.drawHead >= DrawSlots => Reached(drawsDone, w.drawHead - DrawSlots + 1)

NextDraw ==
  /\ w.pc = "slot" /\ SlotFree
  /\ draws' = [draws EXCEPT ![w.drawHead % DrawSlots] = w.drawHead + 1]
  /\ \E renderable \in BOOLEAN :
       LET todo == (IF w.frameActive THEN <<>> ELSE <<NewCmd("begin", 0, 0)>>)
                   \o (IF renderable THEN <<NewCmd("draw", w.drawHead, 0)>> ELSE <<>>)
       IN  w' = [w EXCEPT !.todo = todo, !.frameActive = TRUE,
                          !.pc = IF todo = <<>> THEN "idle" ELSE "push"]
  /\ UNCHANGED <<head, cmds, pvars, rvars, mvars, option, lvars>>

\* Mutant of ClaimReady: a slot is claimed one command early.
ClaimReady_Early == head >= Commands => Reached(done, head - Commands)

\* Claim waits for the ring slot; the command is filled in and published.
\* PushEndFrame then waits for the end of the frame before.
ClaimReady == head >= Commands => Reached(done, head - Commands + 1)

Push ==
  /\ w.pc = "push" /\ ClaimReady
  /\ LET c == Head(w.todo) IN
       /\ cmds' = [cmds EXCEPT ![head % Commands] = [c EXCEPT !.n = head]]
       /\ w' = [w EXCEPT !.pc = "lock", !.todo = Tail(@),
                         !.drawHead = IF c.kind = "draw" THEN @ + 1 ELSE @,
                         !.target = IF c.kind = "end" THEN w.lastEnd ELSE @,
                         !.lastEnd = IF c.kind = "end" THEN head + 1 ELSE @]
  /\ head' = head + 1
  /\ UNCHANGED <<draws, pvars, rvars, mvars, option, lvars>>

\* Wake(render_wake_): through wake_mutex_, which a render thread between its
\* check and its sleep holds, then NotifyAll.
WakeFree == r.pc # "presleep"

Woken == IF r.pc = "asleep" THEN [r EXCEPT !.pc = "look"] ELSE r

\* Mutant of WakeLock: the notify is sent without taking the lock.
WakeLock_NoLock == /\ w.pc = "lock"
                   /\ w' = [w EXCEPT !.pc = "notify"]
                   /\ UNCHANGED notWalk

WakeLock == /\ w.pc = "lock" /\ WakeFree
            /\ w' = [w EXCEPT !.pc = "notify"]
            /\ UNCHANGED notWalk

WakeNotify == /\ w.pc = "notify"
              /\ r' = Woken
              /\ w' = [w EXCEPT !.pc = IF w.todo # <<>> THEN "push"
                                       ELSE IF w.target # 0 THEN "wait" ELSE "idle"]
              /\ UNCHANGED <<done, drawsDone, submitted, pvars, qvars, mvars, option, lvars>>

WaitDone == /\ w.pc = "wait" /\ Reached(done, w.target)
            /\ w' = [w EXCEPT !.pc = w.next, !.next = "idle", !.target = 0]
            /\ UNCHANGED notWalk

\* Drain: wait for everything pushed so far, then go on at next.
Drain(walk, next) == [walk EXCEPT !.pc = "wait", !.target = head, !.next = next]

EndFrame == /\ Walking /\ Fits(1) /\ w.frameActive
            /\ w' = [w EXCEPT !.frameActive = FALSE, !.pc = "push", !.todo = <<NewCmd("end", 0, 0)>>]
            /\ UNCHANGED notWalk

\* A queued write of a range: NotePendingWrite names the command that will be
\* pushed next, then PushCall.  QueueDmaData and InOrder push a "dma", a
\* dispatch under DELTA_GPU_CS_RENDER_THREAD a "cs".
QueueWrite(a, kind) ==
  /\ issued' = [issued EXCEPT ![a] = @ + 1]
  /\ w' = [w EXCEPT !.pending = @ \cup {[command |-> head, addr |-> a]}, !.pc = "push",
                    !.todo = <<NewCmd(kind, a, issued[a] + 1)>>]

Dma(a) == /\ Walking /\ Fits(1) /\ issued[a] < option.writes
          /\ QueueWrite(a, "dma")
          /\ UNCHANGED <<mem, dirty, pvars, qvars, rvars, option, lvars>>

\* A compute dispatch: queued, or run by the walk once it owns the renderer.
Dispatch(a) == /\ Walking /\ Fits(1) /\ issued[a] < option.writes
               /\ IF option.cs
                    THEN QueueWrite(a, "cs")
                    ELSE w' = Drain([w EXCEPT !.addr = a], "dispatch") /\ UNCHANGED issued
               /\ UNCHANGED <<mem, dirty, pvars, qvars, rvars, option, lvars>>

\* Its results stay on the GPU and mark the range dirty.
RunDispatch == /\ w.pc = "dispatch"
               /\ dirty' = [dirty EXCEPT ![w.addr] = issued[w.addr] + 1]
               /\ issued' = [issued EXCEPT ![w.addr] = @ + 1]
               /\ w' = [w EXCEPT !.pc = "idle", !.addr = None]
               /\ UNCHANGED <<mem, pvars, qvars, rvars, option, lvars>>

\* Mutant of StillPending: the write that is running is dropped with the ones that have run.
StillPending_Pruned == {p \in w.pending : p.command > done}

\* PendingWriteOverlaps drops the writes that have run and looks at the others.
StillPending == {p \in w.pending : p.command >= done}

\* FlushForWalkRead: wait for a queued write over the range, then bring back
\* what a dispatch left on the GPU, which takes the renderer.
Read(a) == /\ Walking
           /\ LET walk == [w EXCEPT !.pending = StillPending, !.addr = a]
              IN  w' = IF \E p \in StillPending : p.addr = a
                         THEN Drain(walk, "dirty")
                         ELSE [walk EXCEPT !.pc = "dirty"]
           /\ UNCHANGED notWalk

CsRangeMaybeDirty == /\ w.pc = "dirty"
                     /\ w' = IF dirty[w.addr] = 0 THEN [w EXCEPT !.pc = "see"] ELSE Drain(w, "flush")
                     /\ UNCHANGED notWalk

FlushCsWrites == /\ w.pc = "flush"
                 /\ mem' = [mem EXCEPT ![w.addr] = dirty[w.addr]]
                 /\ dirty' = [dirty EXCEPT ![w.addr] = 0]
                 /\ w' = [w EXCEPT !.pc = "see"]
                 /\ UNCHANGED <<issued, pvars, qvars, rvars, option, lvars>>

\* The walk reads the range and goes on.
See == /\ w.pc = "see"
       /\ w' = [w EXCEPT !.pc = "idle", !.addr = None]
       /\ UNCHANGED notWalk

\* The guest thread returns to its gate and ends there when the session stops.
WalkEnds == /\ w.pc = "idle" /\ stopping
            /\ w' = [w EXCEPT !.pc = "gone"]
            /\ UNCHANGED notWalk

-----------------------------------------------------------------------------
(* The render thread: Run.                                                  *)

NoWork == head = r.tail
Current == cmds[r.tail % Commands]
GoTo(pc) == r' = [r EXCEPT !.pc = pc] /\ UNCHANGED <<done, drawsDone, submitted, notRender>>

Top == r.pc = "top" /\ GoTo(IF NoWork THEN "look" ELSE "exec")

\* Under wake_mutex_: the predicate of render_wake_.Wait, and the second look
\* at head_ that tells a stop from work.
Look == r.pc = "look" /\ GoTo(IF ~NoWork THEN "exec" ELSE IF qstop THEN "gone" ELSE "presleep")

Sleep == r.pc = "presleep" /\ GoTo("asleep")

\* render::BeginFrame, which the switch enters once, waits for the presenter
\* before this frame's slot is written.
CallBegin == r.pc = "exec" /\ Current.kind = "begin" /\ GoTo("begin")

BeginFrame == r.pc = "begin" /\ Released /\ GoTo("done")

\* render::EndFrame hands the GPU this frame's slot, waits for the other one and
\* lends its readback (or gives a converted copy, or shows none).
ExecEnd == /\ Current.kind = "end"
           /\ submitted' = (submitted \cup {r.slotIdx}) \ {1 - r.slotIdx}
           /\ \/ UNCHANGED pvars
              \/ /\ 1 - r.slotIdx \in submitted
                 /\ \E what \in {1 - r.slotIdx, Owned} : Present(what, stopping)
           /\ UNCHANGED <<drawsDone, mem, dirty>>

ExecDraw == /\ Current.kind = "draw"
            /\ drawsDone' = drawsDone + 1
            /\ UNCHANGED <<pvars, submitted, mem, dirty>>

\* HandleDmaData flushes what is dirty under its destination before it copies.
ExecCall == /\ Current.kind \in {"dma", "cs"}
            /\ mem' = IF Current.kind = "dma" THEN [mem EXCEPT ![Current.arg] = Current.ver] ELSE mem
            /\ dirty' = [dirty EXCEPT ![Current.arg] = IF Current.kind = "dma" THEN 0 ELSE Current.ver]
            /\ UNCHANGED <<pvars, drawsDone, submitted>>

RunCommand == /\ ExecEnd \/ ExecDraw \/ ExecCall
              /\ r' = [r EXCEPT !.pc = "done",
                                !.slotIdx = IF Current.kind = "end" THEN 1 - @ ELSE @]

\* A command runs, and is counted in done_ only then.
Exec == /\ r.pc = "exec"
        /\ RunCommand
        /\ UNCHANGED <<done, w, qvars, issued, option, lvars>>

Done == /\ r.pc = "done"
        /\ done' = r.tail + 1
        /\ r' = [r EXCEPT !.pc = "top", !.tail = @ + 1]
        /\ UNCHANGED <<drawsDone, submitted, notRender>>

-----------------------------------------------------------------------------
(* The launcher's Stop: RequestStop, StopPresentation, JoinThreads, then    *)
(* RenderQueue::Stop and the session's resets.                              *)

AtLauncher(from, to) == lpc = from /\ lpc' = to
notLauncher == <<w, qvars, rvars, mvars, option>>

RequestStop == /\ AtLauncher("run", "present")
               /\ stopping' = TRUE
               /\ UNCHANGED <<qstop, pvars, notLauncher>>

StopPresent == /\ AtLauncher("present", "pjoin")
               /\ StopPresentation
               /\ UNCHANGED <<qstop, stopping, notLauncher>>

JoinPresenter == /\ AtLauncher("pjoin", "join") /\ pthread # "run"
                 /\ UNCHANGED <<qstop, stopping, pvars, notLauncher>>

\* RenderQueue::Stop returns at once when the queue was never started.
JoinThreads == /\ AtLauncher("join", IF r.pc = "off" THEN "reset" ELSE "lock") /\ w.pc = "gone"
               /\ qstop' = (r.pc # "off")
               /\ UNCHANGED <<stopping, pvars, notLauncher>>

StopWakeLock == /\ AtLauncher("lock", "notify") /\ WakeFree
                /\ UNCHANGED <<qstop, stopping, pvars, notLauncher>>

StopWakeNotify == /\ AtLauncher("notify", "qjoin")
                  /\ r' = Woken
                  /\ UNCHANGED <<done, drawsDone, submitted, w, qvars, mvars, option, qstop, stopping, pvars>>

\* What Stop clears once the thread has been joined.
QueueReset == /\ head' = 0 /\ done' = 0 /\ drawsDone' = 0 /\ qstop' = FALSE
              /\ w' = [w EXCEPT !.drawHead = 0, !.lastEnd = 0, !.pending = {}]

JoinRender == /\ AtLauncher("qjoin", "reset") /\ r.pc = "gone"
              /\ QueueReset
              /\ r' = [r EXCEPT !.pc = "off", !.tail = 0]
              /\ cmds' = [i \in DOMAIN cmds |-> NewCmd("dma", 0, 0)]
              /\ draws' = [i \in DOMAIN draws |-> 0]
              /\ UNCHANGED <<submitted, pvars, mvars, option, stopping>>

\* ResetSession makes a new BackendState (its presenter and frame slots), the
\* registered resets clear the walk's globals, and BeginSession follows.
SessionReset == /\ AtLauncher("reset", "run")
                /\ psrc' = None /\ pend' = FALSE /\ showing' = None
                /\ pstop' = FALSE /\ pthread' = "none"
                /\ w' = [w EXCEPT !.pc = "idle", !.frameActive = FALSE]
                /\ r' = [r EXCEPT !.slotIdx = 0] /\ submitted' = {}
                /\ mem' = Unwritten /\ dirty' = Unwritten /\ issued' = Unwritten
                /\ stopping' = FALSE
                /\ UNCHANGED <<qvars, done, drawsDone, option, qstop>>

-----------------------------------------------------------------------------
WalkStep == \/ NextDraw \/ Push \/ WakeLock \/ WakeNotify \/ WaitDone
            \/ RunDispatch \/ CsRangeMaybeDirty \/ FlushCsWrites \/ See
WalkBegin == \/ Start \/ BeginDraw \/ EndFrame
             \/ \E a \in Addrs : Dma(a) \/ Dispatch(a) \/ Read(a)
RenderStep == Top \/ Look \/ Sleep \/ CallBegin \/ BeginFrame \/ Exec \/ Done
ShowStep == PresenterStep /\ UNCHANGED <<notLauncher, lvars>>
LauncherStep == \/ StopPresent \/ JoinPresenter \/ JoinThreads \/ StopWakeLock
                \/ StopWakeNotify \/ JoinRender \/ SessionReset

Next == WalkBegin \/ WalkStep \/ WalkEnds \/ RenderStep \/ ShowStep \/ RequestStop \/ LauncherStep

\* Every thread keeps running; a command buffer is finite, so a guest thread
\* comes back to its gate (SF); nobody has to submit work or to ask for a stop.
Spec == /\ Init /\ [][Next]_vars
        /\ WF_vars(WalkStep) /\ WF_vars(RenderStep) /\ WF_vars(ShowStep)
        /\ WF_vars(LauncherStep) /\ SF_vars(WalkEnds)

-----------------------------------------------------------------------------
TypeOK ==
  /\ PTypeOK
  /\ w.pc \in {"idle", "slot", "push", "lock", "notify", "wait", "dispatch", "dirty",
               "flush", "see", "gone"}
  /\ Len(w.todo) <= 2 /\ \A i \in DOMAIN w.todo : w.todo[i].kind \in Kinds
  /\ w.next \in {"idle", "dispatch", "dirty", "flush"} /\ w.addr \in Addrs \cup {None}
  /\ w.target <= head /\ w.lastEnd <= head /\ w.drawHead <= head /\ head <= option.push
  /\ \A p \in w.pending : p.command <= head /\ p.addr \in Addrs
  /\ r.tail <= head /\ done <= r.tail + 1 /\ drawsDone <= head
  /\ r.pc \in {"off", "top", "look", "presleep", "asleep", "exec", "begin", "done", "gone"}
  /\ submitted \subseteq Slots /\ r.slotIdx \in Slots
  /\ lpc \in {"run", "present", "pjoin", "join", "lock", "notify", "qjoin", "reset"}

\* A command the render thread runs is the next one pushed, and a draw's slot
\* still describes that draw (Claim and NextDraw hand out no slot too early).
RunsInOrder ==
  r.pc \in {"exec", "begin"} /\ ~stopping =>
    /\ Current.n = r.tail
    /\ Current.kind = "draw" => draws[Current.arg % DrawSlots] = Current.arg + 1

\* Between packets at most one ended frame has not been run: PushEndFrame waits
\* for the frame before ("the walk runs at most one frame ahead").
FrameAhead ==
  w.pc = "idle" /\ ~stopping =>
    Cardinality({i \in done..(head - 1) : cmds[i % Commands].kind = "end"}) <= 1

\* While the walk acts on the renderer after a Drain (a dispatch it runs, a
\* write-back), the render thread is between commands and has none left to run:
\* "Renderer state belongs to one thread at a time" (render_queue.h).
OwnsRenderer == w.pc \in {"dispatch", "flush"} => r.pc \notin {"exec", "begin", "done"} /\ done = head

\* The promise as the code keeps it: a WaitDone cut short by the end of the
\* session makes no such claim.
OwnExclusive == stopping \/ OwnsRenderer

\* The ring, the draw slots, the frame pacing and the ownership of the renderer
\* together.
RingInv == TypeOK /\ RunsInOrder /\ FrameAhead /\ OwnExclusive

\* What the walk reads after FlushForWalkRead is what the last write it walked
\* past makes of the range, whether that write was a queued copy, a queued
\* dispatch or a dispatch of its own whose result was still on the GPU.
ReadsCurrent == w.pc = "see" /\ ~stopping => mem[w.addr] = issued[w.addr] /\ dirty[w.addr] = 0

\* The GPU never writes the readback buffer the presenter is showing or is about
\* to show (the loan BeginFrame waits for), until the session stops: then Claim
\* no longer waits, the ring may wrap over a "begin" that has not run, and an
\* "end" runs without its wait.
BorrowSafe == ~stopping => /\ showing \notin submitted
                           /\ pend => psrc \notin submitted

\* Every command pushed is run, or the session ends: the render thread's sleep
\* has no timeout, so a missed notify would stop it for good.
PushedRuns == \A n \in 1..MaxPush : []<>(head >= n => done >= n \/ r.pc = "off")

\* No wait of the walk is for ever (ring slot, draw slot, previous frame, drain),
\* in any session: what Stop leaves behind must not hang the next one.
WalkReturns == []<>(w.pc \in {"idle", "gone"})

\* A stop requested at any moment, with the render thread waiting for a lent
\* frame or asleep, gets through to the next session.
StopEnds == []<>(lpc = "run")

\* Neither a command, nor the walk, nor the launcher waits for ever, over any
\* number of sessions.
NothingHangs == PushedRuns /\ WalkReturns /\ StopEnds
=============================================================================
