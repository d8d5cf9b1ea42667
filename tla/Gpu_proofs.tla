----------------------------- MODULE Gpu_proofs ------------------------------
(***************************************************************************)
(* Proofs about the render queue and its presenter, as Gpu composes them,  *)
(* for any ring, draw slots, ranges and budgets: commands run in order     *)
(* from slots nobody overwrites, the walk is at most a frame ahead and     *)
(* owns the renderer after a Drain, what it reads is current, and the GPU  *)
(* leaves a lent buffer alone.                                             *)
(*                                                                         *)
(* The invariant has two halves.  Control holds always: where each thread  *)
(* is and what that says of the counters.  Live is what the waits keep,    *)
(* and a stop cuts them short: it holds while the session is not stopping, *)
(* and SessionReset, which finds the queue empty, establishes it again.    *)
(*                                                                         *)
(* The PS5's half of Gpu is proved in AgcLabels_proofs.                    *)
(***************************************************************************)
EXTENDS Gpu, Integers, SequenceTheorems, FiniteSetTheorems, TLAPS

\* The first command that has not been executed; "done" is between executing a
\* command and counting it.
First == IF r.pc = "done" THEN r.tail + 1 ELSE r.tail
Unrun == First .. head - 1
At(i) == cmds[i % Commands]
IsWrite(c) == c.kind \in {"dma", "cs"}

\* Records and arrays keep their fields.
Shapes ==
  /\ w = [pc |-> w.pc, todo |-> w.todo, target |-> w.target, next |-> w.next, addr |-> w.addr,
          frameActive |-> w.frameActive, drawHead |-> w.drawHead, lastEnd |-> w.lastEnd,
          pending |-> w.pending]
  /\ r = [pc |-> r.pc, tail |-> r.tail, slotIdx |-> r.slotIdx]
  /\ cmds = [i \in 0..(Commands - 1) |-> cmds[i]]
  /\ draws = [i \in 0..(DrawSlots - 1) |-> draws[i]]
  /\ option.push \in Nat /\ w.frameActive \in BOOLEAN /\ rissued \in [Addrs -> Nat]
  /\ stopping \in BOOLEAN /\ qstop \in BOOLEAN

\* What an operation of the walk still has to push.
Todo ==
  \/ w.todo = <<>>
  \/ w.todo = <<RQ!NewCmd("begin", 0, 0)>>
  \/ w.todo = <<RQ!NewCmd("draw", w.drawHead, 0)>>
  \/ w.todo = <<RQ!NewCmd("begin", 0, 0), RQ!NewCmd("draw", w.drawHead, 0)>>
  \/ w.todo = <<RQ!NewCmd("end", 0, 0)>>
  \/ \E a \in Addrs, k \in {"dma", "cs"}, v \in Nat \ {0} : w.todo = <<RQ!NewCmd(k, a, v)>>

\* The counters: done_ is the render thread's tail, and nothing runs ahead of head_.
Counters ==
  /\ head \in Nat /\ done \in Nat /\ drawsDone \in Nat /\ r.tail \in Nat
  /\ w.target \in Nat /\ w.lastEnd \in Nat /\ w.drawHead \in Nat
  /\ done = r.tail /\ r.tail <= head /\ drawsDone <= First
  /\ w.target <= head /\ w.lastEnd <= head /\ w.drawHead <= head
  /\ r.pc \in {"exec", "begin", "done"} => r.tail < head
  /\ \A p \in w.pending : p.command \in Nat /\ p.command <= head /\ p.addr \in Addrs

\* What is left to push was counted when the operation began.
Budgeted == head + (IF w.pc = "slot" THEN 2 ELSE Len(w.todo)) <= option.push

\* Where the walk is.
WalkAt ==
  /\ w.pc \in {"idle", "slot", "push", "lock", "notify", "wait", "dispatch", "dirty",
               "flush", "see", "gone"}
  /\ w.next \in {"idle", "dispatch", "dirty", "flush"} /\ w.addr \in Addrs \cup {RQ!None}
  /\ w.pc = "push" => w.todo # <<>>
  /\ w.todo # <<>> => w.pc \in {"push", "lock", "notify"}
  /\ w.pc \notin {"lock", "notify", "wait"} => w.target = 0
  /\ w.target # 0 => w.todo = <<>>
  /\ w.pc # "wait" => w.next = "idle"
  /\ w.pc \in {"dispatch", "dirty", "flush", "see"} \/ w.next # "idle" => w.addr \in Addrs

\* Before Start and after Stop the queue is empty.
OffEmpty ==
  r.pc = "off" => /\ head = 0 /\ w.drawHead = 0 /\ w.lastEnd = 0 /\ w.pending = {}
                  /\ w.pc \in {"idle", "gone"}

\* Where the launcher and the render thread are.
LauncherAt ==
  /\ lpc \in {"run", "present", "pjoin", "join", "lock", "notify", "qjoin", "reset"}
  /\ r.pc \in {"off", "top", "look", "presleep", "asleep", "exec", "begin", "done", "gone"}
  /\ stopping <=> lpc # "run"
  /\ w.pc = "gone" => stopping
  /\ lpc \in {"lock", "notify", "qjoin", "reset"} => w.pc = "gone"
  /\ lpc = "reset" => r.pc = "off"
  /\ qstop <=> lpc \in {"lock", "notify", "qjoin"}
  /\ r.pc = "gone" => qstop
  /\ pstop => stopping

\* The presenter and the frame slots.
SlotsTyped == RQ!PTypeOK /\ rsubmitted \subseteq RQ!Slots /\ r.slotIdx \in RQ!Slots

Control == /\ Shapes /\ Todo /\ Counters /\ Budgeted /\ WalkAt /\ OffEmpty /\ LauncherAt
           /\ SlotsTyped

-----------------------------------------------------------------------------
\* The ring holds the commands from tail_ to head_, each in its place.
Ring ==
  /\ head - r.tail <= Commands
  /\ \A i \in r.tail .. head - 1 : At(i).n = i
  /\ r.pc = "begin" => At(r.tail).kind = "begin"

\* Draws are queued in their order, and a slot is kept until its draw has run.
DrawsKept ==
  /\ \A i \in Unrun : At(i).kind = "draw" =>
       /\ At(i).arg \in Nat /\ drawsDone <= At(i).arg /\ At(i).arg < w.drawHead
       /\ draws[At(i).arg % DrawSlots] = At(i).arg + 1
  /\ \A i, j \in Unrun : i < j /\ At(i).kind = "draw" /\ At(j).kind = "draw" => At(i).arg < At(j).arg
  /\ drawsDone <= w.drawHead
  /\ (\E i \in DOMAIN w.todo : w.todo[i].kind = "draw") => draws[w.drawHead % DrawSlots] = w.drawHead + 1

\* A frame's end that has not run is the last one, or the walk waits for it.
EndsPaced ==
  \A i \in r.tail .. head - 1 : At(i).kind = "end" => i + 1 = w.lastEnd \/ i + 1 <= w.target

\* A drained queue stays drained while the walk acts on the renderer.
Drained ==
  /\ w.pc \in {"dispatch", "flush"} => done = head
  /\ w.next # "idle" => w.target = head

\* The writes of a range still to be executed, and one still to be pushed.
Writes(a) == {i \in Unrun : IsWrite(At(i)) /\ At(i).arg = a}
ToWrite(a) == \E i \in DOMAIN w.todo : IsWrite(w.todo[i]) /\ w.todo[i].arg = a

\* pending_writes_ names every write that has not been executed.
Pending ==
  /\ \A i \in Unrun : IsWrite(At(i)) =>
       /\ At(i).arg \in Addrs /\ At(i).ver \in Nat \ {0}
       /\ \E p \in w.pending : p.command = i /\ p.addr = At(i).arg
  /\ \A i \in DOMAIN w.todo : IsWrite(w.todo[i]) =>
       /\ w.todo[i].ver = rissued[w.todo[i].arg]
       /\ \E p \in w.pending : p.command = head /\ p.addr = w.todo[i].arg

\* The last write of a range makes the version that was issued last; with none to
\* come that version is in memory, or on the GPU and dirty.
LastIssued(a) ==
  /\ \A i \in Writes(a) : (\A j \in Writes(a) : j <= i) => At(i).ver = rissued[a]
  /\ Writes(a) = {} => IF dirty[a] = 0 THEN rmem[a] = rissued[a] ELSE dirty[a] = rissued[a]

Versions ==
  /\ rmem \in [Addrs -> Nat] /\ dirty \in [Addrs -> Nat] /\ rissued \in [Addrs -> Nat]
  /\ \A a \in Addrs : ToWrite(a) \/ LastIssued(a)

\* What FlushForWalkRead has made sure of so far.
ReadReady ==
  /\ w.pc \in {"dirty", "flush", "see"} \/ w.next = "flush" => Writes(w.addr) = {}
  /\ w.pc = "flush" \/ w.next = "flush" => dirty[w.addr] # 0
  /\ w.pc = "see" => dirty[w.addr] = 0

\* The slot lent is the one the next frame goes to; the GPU may have the other.
Loan ==
  /\ psrc = RQ!None \/ psrc = r.slotIdx
  /\ rsubmitted \subseteq {1 - r.slotIdx}
  /\ showing \in RQ!Slots => psrc = showing

\* The last frame walked has begun and not ended.
Open ==
  \/ \E j \in Unrun : At(j).kind = "begin" /\ \A k \in Unrun : At(k).kind = "end" => k < j
  \/ psrc = RQ!None /\ \A k \in Unrun : At(k).kind # "end"

\* Frames begin before they end, so an "end" runs when no buffer is lent.
Frames ==
  /\ \A i \in Unrun : At(i).kind = "end" =>
       psrc = RQ!None \/ \E j \in Unrun : j < i /\ At(j).kind = "begin"
  /\ \A i, k \in Unrun : i < k /\ At(i).kind = "end" /\ At(k).kind = "end" =>
       \E j \in Unrun : i < j /\ j < k /\ At(j).kind = "begin"
  /\ w.todo = <<>> /\ w.frameActive => Open
  /\ w.todo # <<>> /\ Head(w.todo).kind # "begin" /\ (w.frameActive \/ Head(w.todo).kind = "end") => Open
  /\ w.todo # <<>> /\ Head(w.todo).kind = "end" => ~w.frameActive

Live == /\ Ring /\ DrawsKept /\ EndsPaced /\ Drained /\ Pending /\ Versions /\ ReadReady
        /\ Loan /\ Frames

IInv == Control /\ (~stopping => Live)

-----------------------------------------------------------------------------
(* Arithmetic of the ring, and sequences of at most two commands.           *)

\* Two numbers less than c apart have different remainders.
LEMMA ModApart ==
  ASSUME NEW c \in Nat \ {0}, NEW a \in Nat, NEW b \in Nat, a < b, b - a < c
  PROVE  a % c # b % c
  <1> DEFINE qa == a \div c
             qb == b \div c
  <1>1. qa \in Int /\ qb \in Int /\ a % c \in Int /\ b % c \in Int
    OBVIOUS
  <1>2. a = c * qa + (a % c) /\ b = c * qb + (b % c)
    OBVIOUS
  <1> HIDE DEF qa, qb
  <1>3. SUFFICES ASSUME a % c = b % c PROVE FALSE
    OBVIOUS
  <1> DEFINE k == qb - qa
  <1>4. k \in Int /\ c * k = b - a
    BY <1>1, <1>2, <1>3
  <1> HIDE DEF k
  <1>5. CASE k <= 0
    <2>1. c * k <= 0
      BY <1>4, <1>5
    <2>2. QED
      BY <1>4, <2>1
  <1>6. CASE k >= 1
    <2>1. c * k >= c
      BY <1>4, <1>6
    <2>2. QED
      BY <1>4, <2>1
  <1>7. QED
    BY <1>4, <1>5, <1>6

LEMMA ModRange ==
  ASSUME NEW c \in Nat \ {0}, NEW a \in Nat
  PROVE  a % c \in 0 .. c - 1
  OBVIOUS

\* Head, Tail and length of what the walk may have to push.
LEMMA Short ==
  ASSUME NEW c, NEW d
  PROVE  /\ Head(<<c>>) = c /\ Tail(<<c>>) = <<>> /\ Len(<<c>>) = 1 /\ DOMAIN <<c>> = {1}
         /\ <<c>>[1] = c /\ <<c>> # <<>>
         /\ Head(<<c, d>>) = c /\ Tail(<<c, d>>) = <<d>> /\ Len(<<c, d>>) = 2
         /\ DOMAIN <<c, d>> = {1, 2} /\ <<c, d>>[1] = c /\ <<c, d>>[2] = d /\ <<c, d>> # <<>>
         /\ Len(<<>>) = 0
         /\ ~\E i \in DOMAIN (<<>>) : TRUE
  OBVIOUS

LEMMA Joined ==
  ASSUME NEW b, NEW d
  PROVE  <<>> \o <<>> = <<>> /\ <<>> \o <<d>> = <<d>> /\ <<b>> \o <<>> = <<b>> /\ <<b>> \o <<d>> = <<b, d>>
  <1> DEFINE s == <<b>> \o <<d>>
             t == <<b, d>>
  <1>1. /\ <<d>> \in Seq({b, d}) /\ <<b>> \in Seq({b, d})
        /\ t \in Seq({b, d}) /\ Len(t) = 2 /\ t[1] = b /\ t[2] = d
    OBVIOUS
  <1>2. /\ s \in Seq({b, d}) /\ Len(s) = 2
        /\ \A i \in 1 .. 2 : s[i] = IF i <= 1 THEN <<b>>[i] ELSE <<d>>[i - 1]
    <2>1. Len(<<b>>) = 1 /\ Len(<<d>>) = 1
      OBVIOUS
    <2>2. QED
      BY <1>1, <2>1, ConcatProperties
  <1>3. s[1] = b /\ s[2] = d
    BY <1>2
  <1>4. \A i \in 1 .. Len(s) : s[i] = t[i]
    BY <1>1, <1>2, <1>3
  <1> HIDE DEF s, t
  <1>5. s = t
    BY <1>1, <1>2, <1>4, SeqEqual
  <1>6. <<>> \o <<>> = <<>> /\ <<>> \o <<d>> = <<d>> /\ <<b>> \o <<>> = <<b>>
    OBVIOUS
  <1>7. QED
    BY <1>5, <1>6 DEF s, t

-----------------------------------------------------------------------------
(* What a step leaves alone.                                                *)

QueueSame == head' = head /\ cmds' = cmds /\ r'.tail = r.tail /\ First' = First

LEMMA SameQueue ==
  ASSUME QueueSame
  PROVE  /\ Unrun' = Unrun
         /\ \A i : At(i)' = At(i)
         /\ \A a : Writes(a)' = Writes(a)
  <1>1. Unrun' = Unrun
    BY DEF QueueSame, Unrun
  <1>2. \A i : At(i)' = At(i)
    BY DEF QueueSame, At
  <1>3. QED
    BY <1>1, <1>2 DEF Writes

LEMMA KeepsRing ==
  ASSUME Ring, QueueSame, r'.pc = "begin" => r.pc = "begin" \/ At(r.tail).kind = "begin"
  PROVE  Ring'
  BY SameQueue DEF Ring, QueueSame

LEMMA KeepsDraws ==
  ASSUME DrawsKept, QueueSame, draws' = draws, drawsDone' = drawsDone,
         w'.drawHead = w.drawHead, w'.todo = w.todo
  PROVE  DrawsKept'
  BY SameQueue DEF DrawsKept

LEMMA KeepsPending ==
  ASSUME Pending, QueueSame, rissued' = rissued, w'.todo = w.todo, w'.pending = w.pending
  PROVE  Pending'
  BY SameQueue DEF Pending, QueueSame

LEMMA KeepsVersions ==
  ASSUME Versions, QueueSame, rmem' = rmem, dirty' = dirty, rissued' = rissued, w'.todo = w.todo
  PROVE  Versions'
  <1>1. \A a : ToWrite(a)' <=> ToWrite(a)
    BY DEF ToWrite
  <1>2. \A a : LastIssued(a) => LastIssued(a)'
    BY SameQueue DEF LastIssued
  <1>3. QED
    BY <1>1, <1>2 DEF Versions

LEMMA KeepsFrames ==
  ASSUME Frames, QueueSame, w'.todo = w.todo, w'.frameActive = w.frameActive,
         psrc' = psrc \/ psrc' = RQ!None
  PROVE  Frames'
  <1>1. Open => Open'
    BY SameQueue DEF Open
  <1>2. QED
    BY <1>1, SameQueue DEF Frames

LEMMA KeepsEnds ==
  ASSUME EndsPaced, QueueSame, w'.lastEnd = w.lastEnd, w'.target = w.target
  PROVE  EndsPaced'
  BY SameQueue DEF EndsPaced, QueueSame

LEMMA KeepsLoan ==
  ASSUME Loan, psrc' = psrc, showing' = showing, rsubmitted' = rsubmitted, r'.slotIdx = r.slotIdx
  PROVE  Loan'
  BY DEF Loan

-----------------------------------------------------------------------------
(* Control, action by action.                                               *)

\* The tuples of variables an action leaves alone.
USE DEF RQ!notWalk, RQ!notRender, RQ!notLauncher, RQ!qvars, RQ!rvars, RQ!mvars, RQ!lvars, RQ!pvars

\* StartRendererOnce.
LEMMA StartCtl ==
  ASSUME Control, RQ!Start
  PROVE  Control'
  <1>1. /\ r'.pc = "top" /\ r'.tail = r.tail /\ r'.slotIdx = r.slotIdx /\ w' = w
    BY DEF RQ!Start, Control, Shapes
  <1>2. Shapes'
    BY DEF RQ!Start, Control, Shapes
  <1>3. QED
    BY <1>1, <1>2 DEF RQ!Start, Control, Todo, Counters, Budgeted, WalkAt, OffEmpty, LauncherAt,
       SlotsTyped, RQ!PTypeOK, First

\* A draw packet arrives.
LEMMA BeginDrawCtl ==
  ASSUME Control, RQ!BeginDraw
  PROVE  Control'
  <1>1. /\ w'.pc = "slot" /\ w'.todo = w.todo /\ w'.target = w.target /\ w'.next = w.next
        /\ w'.addr = w.addr /\ w'.frameActive = w.frameActive /\ w'.drawHead = w.drawHead
        /\ w'.lastEnd = w.lastEnd /\ w'.pending = w.pending /\ r' = r
    BY DEF RQ!BeginDraw, RQ!Walking, RQ!Fits, Control, Shapes
  <1>2. Shapes'
    BY DEF RQ!BeginDraw, RQ!Walking, RQ!Fits, Control, Shapes
  <1>3. QED
    BY <1>1, <1>2 DEF RQ!BeginDraw, RQ!Walking, RQ!Fits, Control, Todo, Counters, Budgeted, WalkAt,
       OffEmpty, LauncherAt, SlotsTyped, RQ!PTypeOK, First

\* Wake takes its lock ...
LEMMA WakeLockCtl ==
  ASSUME Control, RQ!WakeLock
  PROVE  Control'
  <1>1. /\ w'.pc = "notify" /\ w'.todo = w.todo /\ w'.target = w.target /\ w'.next = w.next
        /\ w'.addr = w.addr /\ w'.frameActive = w.frameActive /\ w'.drawHead = w.drawHead
        /\ w'.lastEnd = w.lastEnd /\ w'.pending = w.pending /\ r' = r
    BY DEF RQ!WakeLock, Control, Shapes
  <1>2. Shapes'
    BY DEF RQ!WakeLock, Control, Shapes
  <1>3. QED
    BY <1>1, <1>2 DEF RQ!WakeLock, Control, Todo, Counters, Budgeted, WalkAt, OffEmpty, LauncherAt,
       SlotsTyped, RQ!PTypeOK, First

\* ... and notifies.
LEMMA WakeNotifyCtl ==
  ASSUME Control, RQ!WakeNotify
  PROVE  Control'
  <1>1. /\ w'.pc = (IF w.todo # <<>> THEN "push" ELSE IF w.target # 0 THEN "wait" ELSE "idle")
        /\ w'.todo = w.todo /\ w'.target = w.target /\ w'.next = w.next /\ w'.addr = w.addr
        /\ w'.frameActive = w.frameActive /\ w'.drawHead = w.drawHead /\ w'.lastEnd = w.lastEnd
        /\ w'.pending = w.pending
    BY DEF RQ!WakeNotify, Control, Shapes
  <1>2. /\ r'.pc = (IF r.pc = "asleep" THEN "look" ELSE r.pc) /\ r'.tail = r.tail
        /\ r'.slotIdx = r.slotIdx
    BY DEF RQ!WakeNotify, RQ!Woken, Control, Shapes
  <1>3. Shapes'
    BY DEF RQ!WakeNotify, RQ!Woken, Control, Shapes
  <1>4. First' = First
    BY <1>2 DEF First
  <1>5. Todo' /\ Counters' /\ Budgeted'
    BY <1>1, <1>2, <1>4 DEF RQ!WakeNotify, Control, Todo, Counters, Budgeted
  <1>6. WalkAt' /\ OffEmpty'
    <2>1. w.pc = "notify" /\ w.next = "idle" /\ r.pc # "off" /\ r'.pc # "off"
      BY <1>2 DEF RQ!WakeNotify, Control, WalkAt, OffEmpty
    <2>2. OffEmpty'
      BY <2>1 DEF OffEmpty
    <2>3. \/ w'.pc = "push" /\ w.todo # <<>>
          \/ w'.pc = "wait" /\ w.todo = <<>>
          \/ w'.pc = "idle" /\ w.todo = <<>> /\ w.target = 0
      BY <1>1
    <2>4. WalkAt /\ w'.todo = w.todo /\ w'.target = w.target /\ w'.next = w.next /\ w'.addr = w.addr
      BY <1>1 DEF Control
    <2>5. WalkAt'
      <3>1. w'.pc \in {"push", "wait", "idle"}
        BY <2>3
      <3>2. w'.pc = "push" <=> w'.todo # <<>>
        BY <2>3, <2>4
      <3>3. w'.pc \notin {"lock", "notify", "wait"} => w'.target = 0
        BY <2>3, <2>4 DEF WalkAt
      <3>4. QED
        BY <2>1, <2>4, <3>1, <3>2, <3>3 DEF WalkAt
    <2>6. QED
      BY <2>2, <2>5
  <1>7. LauncherAt' /\ SlotsTyped'
    BY <1>1, <1>2 DEF RQ!WakeNotify, Control, LauncherAt, SlotsTyped, RQ!PTypeOK
  <1>8. QED
    BY <1>3, <1>5, <1>6, <1>7 DEF Control

\* WaitDone returns.
LEMMA WaitDoneCtl ==
  ASSUME Control, RQ!WaitDone
  PROVE  Control'
  <1>1. /\ w'.pc = w.next /\ w'.todo = w.todo /\ w'.target = 0 /\ w'.next = "idle"
        /\ w'.addr = w.addr /\ w'.frameActive = w.frameActive /\ w'.drawHead = w.drawHead
        /\ w'.lastEnd = w.lastEnd /\ w'.pending = w.pending /\ r' = r
    BY DEF RQ!WaitDone, Control, Shapes
  <1>2. Shapes'
    BY DEF RQ!WaitDone, Control, Shapes
  <1>3. QED
    BY <1>1, <1>2 DEF RQ!WaitDone, Control, Todo, Counters, Budgeted, WalkAt, OffEmpty, LauncherAt,
       SlotsTyped, RQ!PTypeOK, First

\* A frame ends.
LEMMA EndFrameCtl ==
  ASSUME Control, RQ!EndFrame
  PROVE  Control'
  <1>1. /\ w'.pc = "push" /\ w'.todo = <<RQ!NewCmd("end", 0, 0)>> /\ w'.target = w.target
        /\ w'.next = w.next /\ w'.addr = w.addr /\ w'.frameActive = FALSE
        /\ w'.drawHead = w.drawHead /\ w'.lastEnd = w.lastEnd /\ w'.pending = w.pending
        /\ r' = r
    BY DEF RQ!EndFrame, RQ!Walking, RQ!Fits, Control, Shapes
  <1>2. Shapes'
    BY DEF RQ!EndFrame, RQ!Walking, RQ!Fits, Control, Shapes
  <1>3. QED
    BY <1>1, <1>2, Short DEF RQ!EndFrame, RQ!Walking, RQ!Fits, Control, Todo, Counters, Budgeted, WalkAt,
       OffEmpty, LauncherAt, SlotsTyped, RQ!PTypeOK, First

\* The walk runs a dispatch.
LEMMA RunDispatchCtl ==
  ASSUME Control, RQ!RunDispatch
  PROVE  Control'
  <1>1. /\ w'.pc = "idle" /\ w'.todo = w.todo /\ w'.target = w.target /\ w'.next = w.next
        /\ w'.addr = RQ!None /\ w'.frameActive = w.frameActive /\ w'.drawHead = w.drawHead
        /\ w'.lastEnd = w.lastEnd /\ w'.pending = w.pending /\ r' = r
    BY DEF RQ!RunDispatch, Control, Shapes
  <1>2. Shapes'
    <2>1. w.addr \in Addrs /\ rissued[w.addr] + 1 \in Nat
      BY DEF RQ!RunDispatch, Control, Shapes, WalkAt
    <2>2. QED
      BY <2>1 DEF RQ!RunDispatch, Control, Shapes
  <1>3. QED
    BY <1>1, <1>2 DEF RQ!RunDispatch, Control, Todo, Counters, Budgeted, WalkAt, OffEmpty,
       LauncherAt, SlotsTyped, RQ!PTypeOK, First

\* FlushForWalkRead looks at the dirty ranges ...
LEMMA DirtyCtl ==
  ASSUME Control, RQ!CsRangeMaybeDirty
  PROVE  Control'
  <1>1. /\ w'.todo = w.todo /\ w'.addr = w.addr /\ w'.frameActive = w.frameActive
        /\ w'.drawHead = w.drawHead /\ w'.lastEnd = w.lastEnd /\ w'.pending = w.pending
        /\ r' = r
    BY DEF RQ!CsRangeMaybeDirty, RQ!Drain, Control, Shapes
  <1>2. Shapes'
    BY DEF RQ!CsRangeMaybeDirty, RQ!Drain, Control, Shapes
  <1>3. QED
    BY <1>1, <1>2 DEF RQ!CsRangeMaybeDirty, RQ!Drain, Control, Todo, Counters, Budgeted, WalkAt,
       OffEmpty, LauncherAt, SlotsTyped, RQ!PTypeOK, First

\* ... and writes one back.
LEMMA FlushCtl ==
  ASSUME Control, RQ!FlushCsWrites
  PROVE  Control'
  <1>1. /\ w'.pc = "see" /\ w'.todo = w.todo /\ w'.target = w.target /\ w'.next = w.next
        /\ w'.addr = w.addr /\ w'.frameActive = w.frameActive /\ w'.drawHead = w.drawHead
        /\ w'.lastEnd = w.lastEnd /\ w'.pending = w.pending /\ r' = r
    BY DEF RQ!FlushCsWrites, Control, Shapes
  <1>2. Shapes'
    BY DEF RQ!FlushCsWrites, Control, Shapes
  <1>3. QED
    BY <1>1, <1>2 DEF RQ!FlushCsWrites, Control, Todo, Counters, Budgeted, WalkAt, OffEmpty,
       LauncherAt, SlotsTyped, RQ!PTypeOK, First

\* The walk reads.
LEMMA SeeCtl ==
  ASSUME Control, RQ!See
  PROVE  Control'
  <1>1. /\ w'.pc = "idle" /\ w'.todo = w.todo /\ w'.target = w.target /\ w'.next = w.next
        /\ w'.addr = RQ!None /\ w'.frameActive = w.frameActive /\ w'.drawHead = w.drawHead
        /\ w'.lastEnd = w.lastEnd /\ w'.pending = w.pending /\ r' = r
    BY DEF RQ!See, Control, Shapes
  <1>2. Shapes'
    BY DEF RQ!See, Control, Shapes
  <1>3. QED
    BY <1>1, <1>2 DEF RQ!See, Control, Todo, Counters, Budgeted, WalkAt, OffEmpty, LauncherAt,
       SlotsTyped, RQ!PTypeOK, First

\* The guest thread ends.
LEMMA WalkEndsCtl ==
  ASSUME Control, RQ!WalkEnds
  PROVE  Control'
  <1>1. /\ w'.pc = "gone" /\ w'.todo = w.todo /\ w'.target = w.target /\ w'.next = w.next
        /\ w'.addr = w.addr /\ w'.frameActive = w.frameActive /\ w'.drawHead = w.drawHead
        /\ w'.lastEnd = w.lastEnd /\ w'.pending = w.pending /\ r' = r
    BY DEF RQ!WalkEnds, Control, Shapes
  <1>2. Shapes'
    BY DEF RQ!WalkEnds, Control, Shapes
  <1>3. QED
    BY <1>1, <1>2 DEF RQ!WalkEnds, Control, Todo, Counters, Budgeted, WalkAt, OffEmpty, LauncherAt,
       SlotsTyped, RQ!PTypeOK, First

\* The render thread looks for work ...
LEMMA TopCtl ==
  ASSUME Control, RQ!Top
  PROVE  Control'
  <1>1. PICK to : to = (IF RQ!NoWork THEN "look" ELSE "exec") /\ RQ!GoTo(to)
    BY DEF RQ!Top
  <1>2. r'.pc = to /\ r'.tail = r.tail /\ r'.slotIdx = r.slotIdx /\ w' = w
    BY <1>1 DEF RQ!GoTo, Control, Shapes
  <1>3. Shapes'
    BY <1>1 DEF RQ!GoTo, Control, Shapes
  <1>4. QED
    BY <1>1, <1>2, <1>3 DEF RQ!Top, RQ!GoTo, RQ!NoWork, Control, Todo, Counters, Budgeted, WalkAt,
       OffEmpty,
       LauncherAt, SlotsTyped, RQ!PTypeOK, First

\* ... looks again under the lock ...
LEMMA LookCtl ==
  ASSUME Control, RQ!Look
  PROVE  Control'
  <1>1. /\ r'.pc = IF ~RQ!NoWork THEN "exec" ELSE IF qstop THEN "gone" ELSE "presleep"
        /\ r'.tail = r.tail /\ r'.slotIdx = r.slotIdx /\ w' = w
    BY DEF RQ!Look, RQ!GoTo, RQ!NoWork, Control, Shapes
  <1>2. Shapes'
    BY DEF RQ!Look, RQ!GoTo, RQ!NoWork, Control, Shapes
  <1>3. QED
    BY <1>1, <1>2 DEF RQ!Look, RQ!GoTo, RQ!NoWork, Control, Todo, Counters, Budgeted, WalkAt, OffEmpty,
       LauncherAt, SlotsTyped, RQ!PTypeOK, First

\* ... and sleeps.
LEMMA SleepCtl ==
  ASSUME Control, RQ!Sleep
  PROVE  Control'
  <1>1. /\ r'.pc = "asleep" /\ r'.tail = r.tail /\ r'.slotIdx = r.slotIdx /\ w' = w
    BY DEF RQ!Sleep, RQ!GoTo, Control, Shapes
  <1>2. Shapes'
    BY DEF RQ!Sleep, RQ!GoTo, Control, Shapes
  <1>3. QED
    BY <1>1, <1>2 DEF RQ!Sleep, RQ!GoTo, Control, Todo, Counters, Budgeted, WalkAt, OffEmpty,
       LauncherAt, SlotsTyped, RQ!PTypeOK, First

\* It enters render::BeginFrame ...
LEMMA CallBeginCtl ==
  ASSUME Control, RQ!CallBegin
  PROVE  Control'
  <1>1. /\ r'.pc = "begin" /\ r'.tail = r.tail /\ r'.slotIdx = r.slotIdx /\ w' = w
    BY DEF RQ!CallBegin, RQ!GoTo, Control, Shapes
  <1>2. Shapes'
    BY DEF RQ!CallBegin, RQ!GoTo, Control, Shapes
  <1>3. QED
    BY <1>1, <1>2 DEF RQ!CallBegin, RQ!GoTo, Control, Todo, Counters, Budgeted, WalkAt, OffEmpty,
       LauncherAt, SlotsTyped, RQ!PTypeOK, First

\* ... and returns from it.
LEMMA BeginFrameCtl ==
  ASSUME Control, RQ!BeginFrame
  PROVE  Control'
  <1>1. /\ r'.pc = "done" /\ r'.tail = r.tail /\ r'.slotIdx = r.slotIdx /\ w' = w
    BY DEF RQ!BeginFrame, RQ!GoTo, Control, Shapes
  <1>2. Shapes'
    BY DEF RQ!BeginFrame, RQ!GoTo, Control, Shapes
  <1>3. QED
    BY <1>1, <1>2 DEF RQ!BeginFrame, RQ!GoTo, Control, Todo, Counters, Budgeted, WalkAt, OffEmpty,
       LauncherAt, SlotsTyped, RQ!PTypeOK, First

\* It counts the command.
LEMMA DoneCtl ==
  ASSUME Control, RQ!Done
  PROVE  Control'
  <1>1. /\ r'.pc = "top" /\ r'.tail = r.tail + 1 /\ r'.slotIdx = r.slotIdx /\ w' = w
    BY DEF RQ!Done, Control, Shapes
  <1>2. Shapes'
    BY DEF RQ!Done, Control, Shapes
  <1>3. QED
    BY <1>1, <1>2 DEF RQ!Done, Control, Todo, Counters, Budgeted, WalkAt, OffEmpty, LauncherAt,
       SlotsTyped, RQ!PTypeOK, First

\* The launcher asks for a stop ...
LEMMA StopCtl ==
  ASSUME Control, RQ!RequestStop
  PROVE  Control'
  <1>1. /\ w' = w /\ r' = r
    BY DEF RQ!RequestStop, RQ!AtLauncher, Control, Shapes
  <1>2. Shapes'
    BY DEF RQ!RequestStop, RQ!AtLauncher, Control, Shapes
  <1>3. QED
    BY <1>1, <1>2 DEF RQ!RequestStop, RQ!AtLauncher, Control, Todo, Counters, Budgeted, WalkAt,
       OffEmpty, LauncherAt, SlotsTyped, RQ!PTypeOK, First

\* ... stops the presenter ...
LEMMA StopPresentCtl ==
  ASSUME Control, RQ!StopPresent
  PROVE  Control'
  <1>1. Shapes' /\ Todo' /\ Counters' /\ Budgeted' /\ WalkAt' /\ OffEmpty'
    BY DEF RQ!StopPresent, Control, Shapes, Todo, Counters, Budgeted, WalkAt, OffEmpty, First
  <1>2. LauncherAt'
    BY DEF RQ!StopPresent, RQ!AtLauncher, RQ!StopPresentation, Control, LauncherAt
  <1>3. SlotsTyped'
    BY DEF RQ!StopPresent, RQ!StopPresentation, Control, SlotsTyped, RQ!PTypeOK
  <1>4. QED
    BY <1>1, <1>2, <1>3 DEF Control

\* ... joins it ...
LEMMA JoinPresenterCtl ==
  ASSUME Control, RQ!JoinPresenter
  PROVE  Control'
  <1>1. /\ w' = w /\ r' = r
    BY DEF RQ!JoinPresenter, RQ!AtLauncher, Control, Shapes
  <1>2. Shapes'
    BY DEF RQ!JoinPresenter, RQ!AtLauncher, Control, Shapes
  <1>3. QED
    BY <1>1, <1>2 DEF RQ!JoinPresenter, RQ!AtLauncher, Control, Todo, Counters, Budgeted, WalkAt,
       OffEmpty, LauncherAt, SlotsTyped, RQ!PTypeOK, First

\* ... joins the guest threads ...
LEMMA JoinThreadsCtl ==
  ASSUME Control, RQ!JoinThreads
  PROVE  Control'
  <1>1. Todo' /\ Counters' /\ Budgeted' /\ WalkAt' /\ OffEmpty' /\ SlotsTyped'
    BY DEF RQ!JoinThreads, Control, Todo, Counters, Budgeted, WalkAt, OffEmpty, First, SlotsTyped,
       RQ!PTypeOK
  <1>2. Shapes'
    BY DEF RQ!JoinThreads, RQ!AtLauncher, Control, Shapes
  <1>3. LauncherAt'
    <2>1. CASE r.pc = "off"
      BY <2>1 DEF RQ!JoinThreads, RQ!AtLauncher, Control, LauncherAt
    <2>2. CASE r.pc # "off"
      BY <2>2 DEF RQ!JoinThreads, RQ!AtLauncher, Control, LauncherAt
    <2>3. QED
      BY <2>1, <2>2
  <1>4. QED
    BY <1>1, <1>2, <1>3 DEF Control

\* ... wakes the render thread ...
LEMMA StopWakeLockCtl ==
  ASSUME Control, RQ!StopWakeLock
  PROVE  Control'
  <1>1. /\ w' = w /\ r' = r
    BY DEF RQ!StopWakeLock, RQ!AtLauncher, Control, Shapes
  <1>2. Shapes'
    BY DEF RQ!StopWakeLock, RQ!AtLauncher, Control, Shapes
  <1>3. QED
    BY <1>1, <1>2 DEF RQ!StopWakeLock, RQ!AtLauncher, Control, Todo, Counters, Budgeted, WalkAt,
       OffEmpty, LauncherAt, SlotsTyped, RQ!PTypeOK, First

\* ... which was asleep or about to look ...
LEMMA StopWakeNotifyCtl ==
  ASSUME Control, RQ!StopWakeNotify
  PROVE  Control'
  <1>1. /\ r'.pc = (IF r.pc = "asleep" THEN "look" ELSE r.pc) /\ r'.tail = r.tail
        /\ r'.slotIdx = r.slotIdx
    BY DEF RQ!StopWakeNotify, RQ!Woken, Control, Shapes
  <1>2. Shapes'
    BY DEF RQ!StopWakeNotify, RQ!Woken, Control, Shapes
  <1>3. QED
    BY <1>1, <1>2 DEF RQ!StopWakeNotify, RQ!AtLauncher, Control, Todo, Counters, Budgeted, WalkAt,
       OffEmpty,
       LauncherAt, SlotsTyped, RQ!PTypeOK, First

\* ... joins it and clears the queue ...
LEMMA JoinRenderCtl ==
  ASSUME Control, RQ!JoinRender
  PROVE  Control'
  <1>1. /\ w'.pc = w.pc /\ w'.todo = w.todo /\ w'.target = w.target /\ w'.next = w.next
        /\ w'.addr = w.addr /\ w'.frameActive = w.frameActive /\ w'.drawHead = 0 /\ w'.lastEnd = 0
        /\ w'.pending = {} /\ r'.pc = "off" /\ r'.tail = 0 /\ r'.slotIdx = r.slotIdx
        /\ head' = 0 /\ done' = 0 /\ drawsDone' = 0
    BY DEF RQ!JoinRender, RQ!QueueReset, Control, Shapes
  <1>2. Shapes'
    BY DEF RQ!JoinRender, RQ!QueueReset, Control, Shapes
  <1>3. w.pc = "gone" /\ w.todo = <<>> /\ w.target = 0
    BY DEF RQ!JoinRender, RQ!AtLauncher, Control, LauncherAt, WalkAt
  <1>4. Todo' /\ Counters'
    BY <1>1, <1>3 DEF Todo, Counters, First
  <1>5. Budgeted'
    BY <1>1, <1>2, <1>3, Short DEF Budgeted, RQ!JoinRender, Shapes
  <1>6. WalkAt' /\ OffEmpty'
    BY <1>1, <1>3 DEF Control, WalkAt, OffEmpty
  <1>7. LauncherAt' /\ SlotsTyped'
    BY <1>1, <1>3 DEF RQ!JoinRender, RQ!AtLauncher, RQ!QueueReset, Control, LauncherAt, SlotsTyped, RQ!PTypeOK
  <1>8. QED
    BY <1>2, <1>4, <1>5, <1>6, <1>7 DEF Control

\* ... and makes the next session.
LEMMA SessionResetCtl ==
  ASSUME Control, RQ!SessionReset
  PROVE  Control'
  <1>1. /\ w'.pc = "idle" /\ w'.todo = w.todo /\ w'.target = w.target /\ w'.next = w.next
        /\ w'.addr = w.addr /\ w'.frameActive = FALSE /\ w'.drawHead = w.drawHead
        /\ w'.lastEnd = w.lastEnd /\ w'.pending = w.pending /\ r'.pc = r.pc /\ r'.tail = r.tail
        /\ r'.slotIdx = 0
    BY DEF RQ!SessionReset, RQ!AtLauncher, RQ!Slots, Control, Shapes
  <1>2. Shapes'
    BY DEF RQ!SessionReset, RQ!AtLauncher, RQ!Slots, Control, Shapes, RQ!Unwritten
  <1>3. QED
    BY <1>1, <1>2 DEF RQ!SessionReset, RQ!AtLauncher, RQ!Slots, Control, Todo, Counters, Budgeted, WalkAt,
       OffEmpty, LauncherAt, SlotsTyped, RQ!PTypeOK, First

\* The presenter.
LEMMA ShowCtl ==
  ASSUME Control, RQ!ShowStep
  PROVE  Control'
  <1>1. /\ w' = w /\ r' = r /\ head' = head /\ cmds' = cmds /\ draws' = draws /\ done' = done
        /\ drawsDone' = drawsDone /\ rsubmitted' = rsubmitted /\ option' = option /\ qstop' = qstop
        /\ stopping' = stopping /\ lpc' = lpc /\ rissued' = rissued
    BY DEF RQ!ShowStep
  <1>2. Shapes' /\ Todo' /\ Counters' /\ Budgeted' /\ WalkAt' /\ OffEmpty'
    BY <1>1 DEF Control, Shapes, Todo, Counters, Budgeted, WalkAt, OffEmpty, First
  <1>3. pstop' = pstop
    BY DEF RQ!ShowStep, RQ!PresenterStep, RQ!Take, RQ!Shown, RQ!Leave
  <1>4. LauncherAt'
    BY <1>1, <1>3 DEF Control, LauncherAt
  <1>5. RQ!PTypeOK'
    <2>1. CASE RQ!Take
      BY <2>1 DEF RQ!Take, Control, SlotsTyped, RQ!PTypeOK
    <2>2. CASE RQ!Shown
      BY <2>2 DEF RQ!Shown, Control, SlotsTyped, RQ!PTypeOK
    <2>3. CASE RQ!Leave
      BY <2>3 DEF RQ!Leave, Control, SlotsTyped, RQ!PTypeOK
    <2>4. QED
      BY <2>1, <2>2, <2>3 DEF RQ!ShowStep, RQ!PresenterStep
  <1>6. QED
    BY <1>1, <1>2, <1>4, <1>5 DEF Control, SlotsTyped

\* NextDraw fills the draw slot and makes what is to be pushed.
LEMMA NextDrawTodo ==
  ASSUME Control, RQ!NextDraw
  PROVE  /\ w.todo = <<>> /\ w'.frameActive = TRUE /\ w'.target = w.target /\ w'.next = w.next
         /\ w'.addr = w.addr /\ w'.drawHead = w.drawHead /\ w'.lastEnd = w.lastEnd
         /\ w'.pending = w.pending
         /\ w'.pc = (IF w'.todo = <<>> THEN "idle" ELSE "push")
         /\ \/ w.frameActive /\ w'.todo = <<>>
            \/ w.frameActive /\ w'.todo = <<RQ!NewCmd("draw", w.drawHead, 0)>>
            \/ ~w.frameActive /\ w'.todo = <<RQ!NewCmd("begin", 0, 0)>>
            \/ ~w.frameActive /\ w'.todo = <<RQ!NewCmd("begin", 0, 0), RQ!NewCmd("draw", w.drawHead, 0)>>
         /\ Shapes'
  <1> DEFINE b == RQ!NewCmd("begin", 0, 0)
             d == RQ!NewCmd("draw", w.drawHead, 0)
             todo(re) == (IF w.frameActive THEN <<>> ELSE <<b>>) \o (IF re THEN <<d>> ELSE <<>>)
  <1>1. PICK re \in BOOLEAN :
          w' = [w EXCEPT !.todo = todo(re), !.frameActive = TRUE,
                         !.pc = IF todo(re) = <<>> THEN "idle" ELSE "push"]
    BY DEF RQ!NextDraw
  <1>2. /\ w.frameActive /\ ~re => todo(re) = <<>>
        /\ w.frameActive /\ re => todo(re) = <<d>>
        /\ ~w.frameActive /\ ~re => todo(re) = <<b>>
        /\ ~w.frameActive /\ re => todo(re) = <<b, d>>
    BY Joined
  <1>3. w.todo = <<>>
    BY DEF RQ!NextDraw, Control, WalkAt
  <1> HIDE DEF todo
  <1>4. /\ w'.todo = todo(re) /\ w'.frameActive = TRUE /\ w'.target = w.target /\ w'.next = w.next
        /\ w'.addr = w.addr /\ w'.drawHead = w.drawHead /\ w'.lastEnd = w.lastEnd
        /\ w'.pending = w.pending
        /\ w'.pc = (IF todo(re) = <<>> THEN "idle" ELSE "push")
    BY <1>1 DEF Control, Shapes
  <1>5. Shapes'
    BY <1>1 DEF RQ!NextDraw, Control, Shapes
  <1>6. QED
    BY <1>1, <1>2, <1>3, <1>4, <1>5

LEMMA NextDrawCtl ==
  ASSUME Control, RQ!NextDraw
  PROVE  Control'
  <1>1. UNCHANGED <<head, cmds, RQ!pvars, RQ!rvars, RQ!mvars, option, RQ!lvars>> /\ w.pc = "slot"
    BY DEF RQ!NextDraw
  <1>2. Todo'
    BY NextDrawTodo DEF Todo
  <1>3. Counters'
    BY <1>1, NextDrawTodo DEF Control, Counters, First
  <1>4. w'.pc \in {"idle", "push"} /\ (w'.pc = "push" <=> w'.todo # <<>>) /\ r.pc # "off"
    BY <1>1, NextDrawTodo DEF Control, OffEmpty
  <1>5. OffEmpty' /\ LauncherAt' /\ SlotsTyped'
    BY <1>1, <1>4 DEF Control, OffEmpty, LauncherAt, SlotsTyped, RQ!PTypeOK
  <1>6. Budgeted'
    <2>1. Len(w'.todo) \in 0 .. 2
      <3>1. w'.todo = <<>> \/ (\E c : w'.todo = <<c>>) \/ \E c, d : w'.todo = <<c, d>>
        BY NextDrawTodo
      <3>2. ASSUME NEW c, w'.todo = <<c>> PROVE Len(w'.todo) = 1
        BY <3>2, Short
      <3>3. ASSUME NEW c, NEW d, w'.todo = <<c, d>> PROVE Len(w'.todo) = 2
        BY <3>3, Short
      <3>4. w'.todo = <<>> => Len(w'.todo) = 0
        BY Short
      <3>5. QED
        BY <3>1, <3>2, <3>3, <3>4
    <2>2. QED
      <3>1. head + 2 <= option.push /\ head \in Nat /\ option.push \in Nat
        BY <1>1 DEF Control, Budgeted, Counters, Shapes
      <3>2. \A n \in 0 .. 2 : head + n <= option.push
        BY <3>1
      <3>3. QED
        BY <1>1, <1>4, <2>1, <3>2 DEF Budgeted
  <1>7. WalkAt'
    BY <1>1, <1>4, NextDrawTodo DEF Control, WalkAt
  <1>8. Shapes'
    BY NextDrawTodo
  <1>9. QED
    BY <1>2, <1>3, <1>5, <1>6, <1>7, <1>8 DEF Control

\* What a push does to the walk, by the kind of the command.
LEMMA PushWalk ==
  ASSUME Control, RQ!Push, NEW c, c = Head(w.todo)
  PROVE  /\ w.pc = "push" /\ w'.pc = "lock" /\ w'.todo = Tail(w.todo) /\ w'.next = w.next
         /\ w'.addr = w.addr /\ w'.frameActive = w.frameActive /\ w'.pending = w.pending
         /\ w'.drawHead = (IF c.kind = "draw" THEN w.drawHead + 1 ELSE w.drawHead)
         /\ w'.target = (IF c.kind = "end" THEN w.lastEnd ELSE w.target)
         /\ w'.lastEnd = (IF c.kind = "end" THEN head + 1 ELSE w.lastEnd)
         /\ head' = head + 1 /\ cmds' = [cmds EXCEPT ![head % Commands] = [c EXCEPT !.n = head]]
         /\ UNCHANGED <<draws, RQ!pvars, RQ!rvars, RQ!mvars, option, RQ!lvars>>
         /\ Shapes'
  <1>1. /\ w' = [w EXCEPT !.pc = "lock", !.todo = Tail(@),
                         !.drawHead = IF c.kind = "draw" THEN @ + 1 ELSE @,
                         !.target = IF c.kind = "end" THEN w.lastEnd ELSE @,
                         !.lastEnd = IF c.kind = "end" THEN head + 1 ELSE @]
        /\ w.pc = "push" /\ head' = head + 1
        /\ cmds' = [cmds EXCEPT ![head % Commands] = [c EXCEPT !.n = head]]
        /\ UNCHANGED <<draws, RQ!pvars, RQ!rvars, RQ!mvars, option, RQ!lvars>>
    BY DEF RQ!Push
  <1>2. /\ w'.pc = "lock" /\ w'.todo = Tail(w.todo) /\ w'.next = w.next
        /\ w'.addr = w.addr /\ w'.frameActive = w.frameActive /\ w'.pending = w.pending
        /\ w'.drawHead = (IF c.kind = "draw" THEN w.drawHead + 1 ELSE w.drawHead)
        /\ w'.target = (IF c.kind = "end" THEN w.lastEnd ELSE w.target)
        /\ w'.lastEnd = (IF c.kind = "end" THEN head + 1 ELSE w.lastEnd)
    BY <1>1 DEF Control, Shapes
  <1>3. Shapes'
    BY <1>1 DEF Control, Shapes
  <1>4. QED
    BY <1>1, <1>2, <1>3

\* The command pushed and what is left after it.
LEMMA PushCmd ==
  ASSUME Control, w.pc = "push", NEW c, c = Head(w.todo)
  PROVE  /\ \/ Tail(w.todo) = <<>> /\ c = RQ!NewCmd("begin", 0, 0)
            \/ Tail(w.todo) = <<RQ!NewCmd("draw", w.drawHead, 0)>> /\ c = RQ!NewCmd("begin", 0, 0)
               /\ w.todo = <<c, RQ!NewCmd("draw", w.drawHead, 0)>>
            \/ Tail(w.todo) = <<>> /\ c = RQ!NewCmd("draw", w.drawHead, 0) /\ w.todo = <<c>>
            \/ Tail(w.todo) = <<>> /\ c = RQ!NewCmd("end", 0, 0) /\ w.todo = <<c>>
            \/ \E a \in Addrs, k \in {"dma", "cs"}, v \in Nat \ {0} :
                 Tail(w.todo) = <<>> /\ c = RQ!NewCmd(k, a, v) /\ w.todo = <<c>>
         /\ Len(Tail(w.todo)) = Len(w.todo) - 1 /\ Len(w.todo) \in {1, 2} /\ w.todo # <<>>
  <1>1. w.todo # <<>> /\ Todo
    BY DEF Control, WalkAt
  <1>2. CASE w.todo = <<RQ!NewCmd("begin", 0, 0)>>
    BY <1>2, Short
  <1>3. CASE w.todo = <<RQ!NewCmd("draw", w.drawHead, 0)>>
    BY <1>3, Short
  <1>4. CASE w.todo = <<RQ!NewCmd("begin", 0, 0), RQ!NewCmd("draw", w.drawHead, 0)>>
    BY <1>4, Short
  <1>5. CASE w.todo = <<RQ!NewCmd("end", 0, 0)>>
    BY <1>5, Short
  <1>6. ASSUME NEW a \in Addrs, NEW k \in {"dma", "cs"}, NEW v \in Nat \ {0}, w.todo = <<RQ!NewCmd(k, a, v)>>
        PROVE  /\ Tail(w.todo) = <<>> /\ c = RQ!NewCmd(k, a, v) /\ w.todo = <<c>> /\ Len(w.todo) = 1
               /\ Len(Tail(w.todo)) = 0
    BY <1>6, Short
  <1>7. QED
    BY <1>1, <1>2, <1>3, <1>4, <1>5, <1>6 DEF Todo

LEMMA PushCtl ==
  ASSUME Control, RQ!Push
  PROVE  Control'
  <1> DEFINE c == Head(w.todo)
  <1>1. c = Head(w.todo)
    OBVIOUS
  <1> HIDE DEF c
  <1>2. Todo'
    <2>1. CASE Tail(w.todo) = <<>>
      BY <1>1, <2>1, PushWalk DEF Todo
    <2>2. CASE Tail(w.todo) = <<RQ!NewCmd("draw", w.drawHead, 0)>> /\ c = RQ!NewCmd("begin", 0, 0)
      <3>1. c.kind # "draw"
        BY <2>2 DEF RQ!NewCmd
      <3>2. w'.drawHead = w.drawHead /\ w'.todo = <<RQ!NewCmd("draw", w.drawHead, 0)>>
        BY <1>1, <2>2, <3>1, PushWalk
      <3>3. QED
        BY <3>2 DEF Todo
    <2>3. QED
      BY <1>1, <2>1, <2>2, PushCmd, PushWalk
  <1>3. Counters'
    <2>1. /\ head' = head + 1 /\ done' = done /\ drawsDone' = drawsDone /\ r' = r /\ First' = First
          /\ w'.pending = w.pending
      BY <1>1, PushWalk DEF First
    <2>2. /\ w'.drawHead \in {w.drawHead, w.drawHead + 1} /\ w'.target \in {w.target, w.lastEnd}
          /\ w'.lastEnd \in {w.lastEnd, head + 1}
      BY <1>1, PushWalk
    <2>3. QED
      BY <2>1, <2>2 DEF Control, Counters
  <1>4. /\ w.pc = "push" /\ w'.pc = "lock" /\ w'.todo = Tail(w.todo) /\ w'.next = w.next
        /\ w'.addr = w.addr /\ head' = head + 1 /\ UNCHANGED <<RQ!pvars, RQ!rvars, option, RQ!lvars>>
    BY <1>1, PushWalk
  <1>5. Len(Tail(w.todo)) = Len(w.todo) - 1 /\ Len(w.todo) \in {1, 2}
    BY <1>1, <1>4, PushCmd
  <1>6. Budgeted'
    <2>1. head + Len(w.todo) <= option.push /\ head \in Nat /\ option.push \in Nat
      BY <1>4 DEF Control, Budgeted, Counters, Shapes
    <2>2. \A m, n \in Nat : head + n <= option.push /\ m = n - 1 => (head + 1) + m <= option.push
      BY <2>1
    <2>3. Len(Tail(w.todo)) \in Nat /\ Len(w.todo) \in Nat
      BY <1>5
    <2>4. head' + Len(w'.todo) <= option.push
      BY <1>4, <1>5, <2>1, <2>2, <2>3
    <2>5. QED
      BY <1>4, <2>4 DEF Budgeted
  <1>7. /\ OffEmpty' /\ LauncherAt' /\ SlotsTyped'
        /\ WalkAt'
    <2>1. OffEmpty' /\ LauncherAt' /\ SlotsTyped'
      BY <1>4 DEF Control, WalkAt, OffEmpty, LauncherAt, SlotsTyped, RQ!PTypeOK
    <2>2. w'.target # 0 => w'.todo = <<>>
      <3>1. w.target = 0
        BY <1>4 DEF Control, WalkAt
      <3>2. c.kind = "end" => Tail(w.todo) = <<>>
        BY <1>1, <1>4, PushCmd DEF RQ!NewCmd
      <3>3. QED
        BY <1>1, <1>4, <3>1, <3>2, PushWalk
    <2>3. QED
      BY <1>4, <2>1, <2>2 DEF Control, WalkAt
  <1>8. Shapes'
    BY <1>1, PushWalk
  <1>9. QED
    BY <1>2, <1>3, <1>6, <1>7, <1>8 DEF Control

\* NotePendingWrite and PushCall.
LEMMA QueueWriteCtl ==
  ASSUME Control, NEW a \in Addrs, NEW kind \in {"dma", "cs"}, RQ!QueueWrite(a, kind), RQ!Walking, RQ!Fits(1),
         rissued[a] \in Nat, UNCHANGED <<rmem, dirty, RQ!pvars, RQ!qvars, RQ!rvars, option, RQ!lvars>>
  PROVE  Control'
  <1>1. /\ w'.pc = "push" /\ w'.todo = <<RQ!NewCmd(kind, a, rissued[a] + 1)>> /\ w'.target = w.target
        /\ w'.next = w.next /\ w'.addr = w.addr /\ w'.frameActive = w.frameActive
        /\ w'.drawHead = w.drawHead /\ w'.lastEnd = w.lastEnd
        /\ w'.pending = w.pending \cup {[command |-> head, addr |-> a]}
    BY DEF RQ!QueueWrite, Control, Shapes
  <1>2. Shapes'
    <2>1. rissued' \in [Addrs -> Nat]
      BY DEF RQ!QueueWrite, Control, Shapes
    <2>2. QED
      BY <2>1 DEF RQ!QueueWrite, Control, Shapes
  <1>3. rissued[a] + 1 \in Nat \ {0}
    OBVIOUS
  <1>4. Todo'
    BY <1>1, <1>3 DEF Todo
  <1>5. Counters' /\ OffEmpty'
    BY <1>1 DEF Control, Counters, OffEmpty, First, RQ!Walking
  <1>6. Budgeted'
    BY <1>1, Short DEF RQ!Fits, Budgeted
  <1>7. WalkAt' /\ LauncherAt' /\ SlotsTyped'
    BY <1>1, Short DEF Control, WalkAt, LauncherAt, SlotsTyped, RQ!PTypeOK, RQ!Walking
  <1>8. QED
    BY <1>2, <1>4, <1>5, <1>6, <1>7 DEF Control

\* A dispatch or a read that waits for the queue.
LEMMA DrainCtl ==
  ASSUME Control, NEW a \in Addrs, NEW next \in {"dispatch", "dirty"}, NEW P \in SUBSET w.pending,
         w' = RQ!Drain([w EXCEPT !.pending = P, !.addr = a], next), RQ!Walking, 
         UNCHANGED <<RQ!pvars, RQ!qvars, RQ!rvars, rissued, option, RQ!lvars>>
  PROVE  Control'
  <1>1. /\ w'.pc = "wait" /\ w'.todo = w.todo /\ w'.target = head /\ w'.next = next /\ w'.addr = a
        /\ w'.frameActive = w.frameActive /\ w'.drawHead = w.drawHead /\ w'.lastEnd = w.lastEnd
        /\ w'.pending = P
    BY DEF RQ!Drain, Control, Shapes
  <1>2. Shapes'
    BY DEF RQ!Drain, Control, Shapes
  <1>3. QED
    BY <1>1, <1>2 DEF RQ!Walking, Control, Todo, Counters, Budgeted, WalkAt, OffEmpty, LauncherAt,
       SlotsTyped, RQ!PTypeOK, First

\* QueueDmaData, InOrder and a queued dispatch.
LEMMA DmaCtl ==
  ASSUME Control, NEW a \in Addrs, RQ!Dma(a)
  PROVE  Control'
  <1>1. rissued[a] \in Nat /\ "dma" \in {"dma", "cs"}
    BY DEF Control, Shapes
  <1>2. QED
    BY <1>1, QueueWriteCtl DEF RQ!Dma

\* A compute dispatch, queued or drained for.
LEMMA DispatchCtl ==
  ASSUME Control, NEW a \in Addrs, RQ!Dispatch(a)
  PROVE  Control'
  <1>1. rissued[a] \in Nat /\ "cs" \in {"dma", "cs"}
    BY DEF Control, Shapes
  <1>2. CASE option.cs
    BY <1>1, <1>2, QueueWriteCtl DEF RQ!Dispatch
  <1>3. CASE ~option.cs
    <2>1. /\ w' = RQ!Drain([w EXCEPT !.addr = a], "dispatch") /\ rissued' = rissued
          /\ UNCHANGED <<RQ!pvars, RQ!qvars, RQ!rvars, rissued, option, RQ!lvars>>
      BY <1>3 DEF RQ!Dispatch
    <2>2. [w EXCEPT !.addr = a] = [w EXCEPT !.pending = w.pending, !.addr = a]
      BY DEF Control, Shapes
    <2>3. QED
      BY <2>1, <2>2, DrainCtl DEF RQ!Dispatch
  <1>4. QED
    BY <1>2, <1>3

\* FlushForWalkRead.
LEMMA ReadCtl ==
  ASSUME Control, NEW a \in Addrs, RQ!Read(a)
  PROVE  Control'
  <1> DEFINE P == RQ!StillPending
  <1>1. P \in SUBSET w.pending /\ RQ!Walking /\ UNCHANGED RQ!notWalk
    BY DEF RQ!StillPending, RQ!Read
  <1> HIDE DEF P
  <1>2. CASE w' = RQ!Drain([w EXCEPT !.pending = P, !.addr = a], "dirty")
    BY <1>1, <1>2, DrainCtl
  <1>3. CASE w' = [w EXCEPT !.pending = P, !.addr = a, !.pc = "dirty"]
    <2>1. /\ w'.pc = "dirty" /\ w'.todo = w.todo /\ w'.target = w.target /\ w'.next = w.next
          /\ w'.addr = a /\ w'.frameActive = w.frameActive /\ w'.drawHead = w.drawHead
          /\ w'.lastEnd = w.lastEnd /\ w'.pending = P
      BY <1>3 DEF Control, Shapes
    <2>2. Shapes'
      BY <1>1, <1>3 DEF Control, Shapes
    <2>3. QED
      BY <1>1, <2>1, <2>2 DEF RQ!Walking, Control, Todo, Counters, Budgeted, WalkAt, OffEmpty, LauncherAt,
         SlotsTyped, RQ!PTypeOK, First
  <1>4. w' = RQ!Drain([w EXCEPT !.pending = P, !.addr = a], "dirty")
        \/ w' = [w EXCEPT !.pending = P, !.addr = a, !.pc = "dirty"]
    BY DEF RQ!Read, P
  <1>5. QED
    BY <1>2, <1>3, <1>4

\* What executing a command does to the render thread.
LEMMA ExecRender ==
  ASSUME Control, RQ!Exec
  PROVE  /\ r.pc = "exec" /\ r'.pc = "done" /\ r'.tail = r.tail
         /\ r'.slotIdx = (IF RQ!Current.kind = "end" THEN 1 - r.slotIdx ELSE r.slotIdx)
         /\ First = r.tail /\ First' = r.tail + 1
         /\ UNCHANGED <<done, w, RQ!qvars, rissued, option, RQ!lvars>>
         /\ Shapes'
  <1>1. /\ r' = [r EXCEPT !.pc = "done", !.slotIdx = IF RQ!Current.kind = "end" THEN 1 - @ ELSE @]
        /\ r.pc = "exec" /\ UNCHANGED <<done, w, RQ!qvars, rissued, option, RQ!lvars>>
    BY DEF RQ!Exec, RQ!RunCommand
  <1>2. /\ r'.pc = "done" /\ r'.tail = r.tail
        /\ r'.slotIdx = (IF RQ!Current.kind = "end" THEN 1 - r.slotIdx ELSE r.slotIdx)
    BY <1>1 DEF Control, Shapes
  <1>3. Shapes'
    BY <1>1 DEF Control, Shapes
  <1>4. QED
    BY <1>1, <1>2, <1>3 DEF First

\* It runs a command.
LEMMA ExecCtl ==
  ASSUME Control, RQ!Exec
  PROVE  Control'
  <1>1. drawsDone' = drawsDone \/ drawsDone' = drawsDone + 1
    BY DEF RQ!Exec, RQ!RunCommand, RQ!ExecEnd, RQ!ExecDraw, RQ!ExecCall
  <1>2. Todo' /\ Budgeted' /\ WalkAt' /\ OffEmpty'
    BY ExecRender DEF Control, Todo, Budgeted, WalkAt, OffEmpty
  <1>9. Counters'
    BY <1>1, ExecRender DEF Control, Counters
  <1>3. pstop' = pstop
    BY DEF RQ!Exec, RQ!RunCommand, RQ!ExecEnd, RQ!ExecDraw, RQ!ExecCall, RQ!Present
  <1>4. LauncherAt'
    BY <1>3, ExecRender DEF Control, LauncherAt
  <1>5. r.slotIdx \in RQ!Slots /\ 1 - r.slotIdx \in RQ!Slots /\ rsubmitted \subseteq RQ!Slots /\ RQ!PTypeOK
    BY DEF Control, SlotsTyped, RQ!Slots
  <1>6. r'.slotIdx \in RQ!Slots
    BY <1>5, ExecRender
  <1>7. rsubmitted' \subseteq RQ!Slots /\ RQ!PTypeOK'
    <2>1. CASE UNCHANGED <<RQ!pvars, rsubmitted>>
      BY <1>5, <2>1 DEF RQ!PTypeOK
    <2>2. CASE RQ!ExecEnd
      <3>1. rsubmitted' \subseteq RQ!Slots
        BY <1>5, <2>2 DEF RQ!ExecEnd
      <3>2. UNCHANGED RQ!pvars \/ \E what \in RQ!Slots \cup {RQ!Owned} : RQ!Present(what, stopping)
        BY <1>5, <2>2 DEF RQ!ExecEnd
      <3>3. ASSUME NEW what \in RQ!Slots \cup {RQ!Owned}, RQ!Present(what, stopping) PROVE RQ!PTypeOK'
        <4>1. CASE pstop \/ stopping
          BY <1>5, <3>3, <4>1 DEF RQ!Present, RQ!PTypeOK
        <4>2. CASE ~(pstop \/ stopping)
          BY <1>5, <3>3, <4>2 DEF RQ!Present, RQ!PTypeOK, RQ!Slots, RQ!Owned, RQ!None
        <4>3. QED
          BY <4>1, <4>2
      <3>4. UNCHANGED RQ!pvars => RQ!PTypeOK'
        BY <1>5 DEF RQ!PTypeOK
      <3>5. QED
        BY <3>1, <3>2, <3>3, <3>4
    <2>3. QED
      BY <2>1, <2>2 DEF RQ!Exec, RQ!RunCommand, RQ!ExecDraw, RQ!ExecCall
  <1>8. QED
    BY <1>2, <1>9, <1>4, <1>6, <1>7, ExecRender DEF Control, SlotsTyped

-----------------------------------------------------------------------------
(* Live, for the steps that leave the queue and the memory alone.           *)

Still ==
  /\ QueueSame /\ draws' = draws /\ drawsDone' = drawsDone /\ done' = done
  /\ rmem' = rmem /\ dirty' = dirty /\ rissued' = rissued
  /\ psrc' = psrc /\ showing' = showing /\ rsubmitted' = rsubmitted /\ r'.slotIdx = r.slotIdx
  /\ r'.pc = "begin" => r.pc = "begin" \/ At(r.tail).kind = "begin"

WalkKeeps == /\ w'.todo = w.todo /\ w'.frameActive = w.frameActive /\ w'.drawHead = w.drawHead
             /\ w'.lastEnd = w.lastEnd

LEMMA Moves ==
  ASSUME Live, Still, WalkKeeps, Pending', EndsPaced', Drained', ReadReady'
  PROVE  Live'
  <1>1. Ring' /\ DrawsKept'
    BY KeepsRing, KeepsDraws DEF Live, Still, WalkKeeps
  <1>2. Versions' /\ Frames' /\ Loan'
    BY KeepsVersions, KeepsFrames, KeepsLoan DEF Live, Still, WalkKeeps
  <1>3. QED
    BY <1>1, <1>2 DEF Live

\* The render thread moves and the walk does not.
LEMMA RenderMoves ==
  ASSUME Live, Still, w' = w
  PROVE  Live'
  <1>1. WalkKeeps /\ Pending' /\ EndsPaced'
    BY KeepsPending, KeepsEnds DEF Live, Still, WalkKeeps
  <1>2. Drained'
    BY DEF Live, Still, Drained, QueueSame
  <1>3. ReadReady'
    BY SameQueue DEF Live, Still, ReadReady
  <1>4. QED
    BY <1>1, <1>2, <1>3, Moves

\* The walk moves to a place where it claims nothing.
LEMMA WalkMoves ==
  ASSUME Live, Still, WalkKeeps, w'.pending = w.pending, w'.target = w.target, w'.next = "idle",
         w'.pc \notin {"dispatch", "dirty", "flush", "see"}
  PROVE  Live'
  <1>1. Pending' /\ EndsPaced'
    BY KeepsPending, KeepsEnds DEF Live, Still, WalkKeeps
  <1>2. Drained' /\ ReadReady'
    BY DEF Drained, ReadReady
  <1>3. QED
    BY <1>1, <1>2, Moves

LEMMA StartLive ==
  ASSUME Control, Live, RQ!Start
  PROVE  Live'
  <1>1. r'.pc = "top" /\ r'.tail = r.tail /\ r'.slotIdx = r.slotIdx /\ r.pc = "off"
    BY DEF RQ!Start, Control, Shapes
  <1>2. Still /\ w' = w
    BY <1>1 DEF RQ!Start, Still, QueueSame, First
  <1>3. QED
    BY <1>2, RenderMoves

LEMMA GoToLive ==
  ASSUME Control, Live, NEW pc, RQ!GoTo(pc), pc # "done", r.pc # "done",
         pc = "begin" => At(r.tail).kind = "begin"
  PROVE  Live'
  <1>1. r'.pc = pc /\ r'.tail = r.tail /\ r'.slotIdx = r.slotIdx
    BY DEF RQ!GoTo, Control, Shapes
  <1>2. Still /\ w' = w
    BY <1>1 DEF RQ!GoTo, Still, QueueSame, First
  <1>3. QED
    BY <1>2, RenderMoves

LEMMA BeginDrawLive ==
  ASSUME Control, Live, RQ!BeginDraw
  PROVE  Live'
  <1>1. /\ w'.pc = "slot" /\ w'.todo = w.todo /\ w'.target = w.target /\ w'.next = w.next
        /\ w'.frameActive = w.frameActive /\ w'.drawHead = w.drawHead
        /\ w'.lastEnd = w.lastEnd /\ w'.pending = w.pending /\ w.pc = "idle"
    BY DEF RQ!BeginDraw, Control, Shapes, RQ!Walking
  <1>2. Still /\ WalkKeeps
    BY <1>1 DEF RQ!BeginDraw, Still, QueueSame, First, WalkKeeps
  <1>3. w'.next = "idle"
    BY <1>1 DEF Control, WalkAt
  <1>4. QED
    BY <1>1, <1>2, <1>3, WalkMoves

LEMMA WakeLockLive ==
  ASSUME Control, Live, RQ!WakeLock
  PROVE  Live'
  <1>1. /\ w'.pc = "notify" /\ w'.todo = w.todo /\ w'.target = w.target /\ w'.next = w.next
        /\ w'.frameActive = w.frameActive /\ w'.drawHead = w.drawHead
        /\ w'.lastEnd = w.lastEnd /\ w'.pending = w.pending /\ w.pc = "lock"
    BY DEF RQ!WakeLock, Control, Shapes
  <1>2. Still /\ WalkKeeps
    BY <1>1 DEF RQ!WakeLock, Still, QueueSame, First, WalkKeeps
  <1>3. w'.next = "idle"
    BY <1>1 DEF Control, WalkAt
  <1>4. QED
    BY <1>1, <1>2, <1>3, WalkMoves

LEMMA WakeNotifyLive ==
  ASSUME Control, Live, RQ!WakeNotify
  PROVE  Live'
  <1>1. /\ w'.pc = (IF w.todo # <<>> THEN "push" ELSE IF w.target # 0 THEN "wait" ELSE "idle")
        /\ w'.todo = w.todo /\ w'.target = w.target /\ w'.next = w.next
        /\ w'.frameActive = w.frameActive /\ w'.drawHead = w.drawHead
        /\ w'.lastEnd = w.lastEnd /\ w'.pending = w.pending /\ w.pc = "notify"
    BY DEF RQ!WakeNotify, Control, Shapes
  <1>2. /\ r'.pc = (IF r.pc = "asleep" THEN "look" ELSE r.pc) /\ r'.tail = r.tail
        /\ r'.slotIdx = r.slotIdx
    BY DEF RQ!WakeNotify, RQ!Woken, Control, Shapes
  <1>3. First' = First
    BY <1>2 DEF First
  <1>4. Still /\ WalkKeeps
    BY <1>1, <1>2, <1>3 DEF RQ!WakeNotify, Still, QueueSame, WalkKeeps
  <1>5. w'.next = "idle" /\ w'.pc \in {"push", "wait", "idle"}
    BY <1>1 DEF Control, WalkAt
  <1>6. QED
    BY <1>1, <1>4, <1>5, WalkMoves

LEMMA SeeLive ==
  ASSUME Control, Live, RQ!See
  PROVE  Live'
  <1>1. /\ w'.pc = "idle" /\ w'.todo = w.todo /\ w'.target = w.target /\ w'.next = w.next
        /\ w'.frameActive = w.frameActive /\ w'.drawHead = w.drawHead
        /\ w'.lastEnd = w.lastEnd /\ w'.pending = w.pending /\ w.pc = "see"
    BY DEF RQ!See, Control, Shapes
  <1>2. Still /\ WalkKeeps
    BY <1>1 DEF RQ!See, Still, QueueSame, First, WalkKeeps
  <1>3. w'.next = "idle"
    BY <1>1 DEF Control, WalkAt
  <1>4. QED
    BY <1>1, <1>2, <1>3, WalkMoves

\* With everything pushed counted as done, no write is left to execute.
LEMMA AllRun ==
  ASSUME Control, done = head
  PROVE  Unrun = {} /\ \A a : Writes(a) = {}
  <1>1. First >= head /\ First \in Nat /\ head \in Nat
    BY DEF Control, Counters, First
  <1>2. Unrun = {}
    BY <1>1 DEF Unrun
  <1>3. QED
    BY <1>2 DEF Writes

\* The wait is over: what it was for has run.
LEMMA WaitDoneLive ==
  ASSUME Control, Live, RQ!WaitDone, ~stopping
  PROVE  Live'
  <1>1. /\ w'.pc = w.next /\ w'.todo = w.todo /\ w'.target = 0 /\ w'.next = "idle"
        /\ w'.addr = w.addr /\ w'.frameActive = w.frameActive /\ w'.drawHead = w.drawHead
        /\ w'.lastEnd = w.lastEnd /\ w'.pending = w.pending
    BY DEF RQ!WaitDone, Control, Shapes
  <1>2. Still /\ WalkKeeps /\ Pending'
    <2>1. Still /\ WalkKeeps
      BY <1>1 DEF RQ!WaitDone, Still, QueueSame, First, WalkKeeps
    <2>2. QED
      BY <1>1, <2>1, KeepsPending DEF Live, Still
  <1>3. done >= w.target
    BY DEF RQ!WaitDone, RQ!Reached
  <1>4. EndsPaced'
    <2>1. SUFFICES ASSUME NEW i \in r.tail .. head - 1, At(i).kind = "end" PROVE i + 1 = w.lastEnd
      BY <1>1, <1>2, SameQueue DEF EndsPaced, Still, QueueSame
    <2>2. i + 1 = w.lastEnd \/ i + 1 <= w.target
      BY <2>1 DEF Live, EndsPaced
    <2>3. QED
      BY <1>3, <2>1, <2>2 DEF Control, Counters
  <1>5. w.next # "idle" => done = head
    BY <1>3 DEF Live, Drained, Control, Counters
  <1>6. Drained'
    BY <1>1, <1>2, <1>5 DEF Drained, Still, QueueSame
  <1>7. ReadReady'
    <2>1. w.next \in {"idle", "dispatch", "dirty", "flush"}
      BY DEF Control, WalkAt
    <2>2. w.next \in {"dirty", "flush"} => Writes(w.addr) = {}
      BY <1>5, AllRun
    <2>3. w.next = "flush" => dirty[w.addr] # 0
      BY DEF Live, ReadReady
    <2>4. QED
      BY <1>1, <1>2, <2>1, <2>2, <2>3, SameQueue DEF ReadReady, Still
  <1>8. QED
    BY <1>2, <1>4, <1>6, <1>7, Moves

\* Drain before a dispatch or a read.
LEMMA DrainLive ==
  ASSUME Control, Live, NEW a, NEW next \in {"dispatch", "dirty"}, NEW P, w.pc = "idle",
         w' = RQ!Drain([w EXCEPT !.pending = P, !.addr = a], next),
         UNCHANGED <<RQ!pvars, RQ!qvars, RQ!rvars, RQ!mvars>>, Pending'
  PROVE  Live'
  <1>1. /\ w'.pc = "wait" /\ w'.todo = w.todo /\ w'.target = head /\ w'.next = next
        /\ w'.frameActive = w.frameActive /\ w'.drawHead = w.drawHead /\ w'.lastEnd = w.lastEnd
    BY DEF RQ!Drain, Control, Shapes
  <1>2. Still /\ WalkKeeps
    BY <1>1 DEF Still, QueueSame, First, WalkKeeps
  <1>3. EndsPaced'
    <2>1. w.target = 0
      BY DEF Control, WalkAt
    <2>2. QED
      BY <1>1, <1>2, <2>1, SameQueue DEF EndsPaced, Live, Still, QueueSame, Control, Counters
  <1>4. Drained' /\ ReadReady'
    BY <1>1, <1>2 DEF Drained, ReadReady, Still, QueueSame
  <1>5. QED
    BY <1>2, <1>3, <1>4, Moves

\* FlushForWalkRead finds no queued write of the range, or waits.
LEMMA ReadLive ==
  ASSUME Control, Live, NEW a \in Addrs, RQ!Read(a)
  PROVE  Live'
  <1> DEFINE P == RQ!StillPending
  <1>1. w.pc = "idle" /\ w.todo = <<>> /\ w.next = "idle" /\ w.target = 0
    BY DEF RQ!Read, RQ!Walking, Control, WalkAt
  <1>2. \A p \in w.pending : p.command >= First => p \in P
    BY DEF RQ!StillPending, Control, Counters, First
  <1>3. /\ \/ w' = RQ!Drain([w EXCEPT !.pending = P, !.addr = a], "dirty")
           \/ (~\E p \in P : p.addr = a) /\ w' = [w EXCEPT !.pending = P, !.addr = a, !.pc = "dirty"]
        /\ UNCHANGED <<RQ!pvars, RQ!qvars, RQ!rvars, RQ!mvars>>
    BY DEF RQ!Read
  <1> HIDE DEF P
  <1>4. w'.todo = w.todo /\ w'.pending = P
    BY <1>3 DEF RQ!Drain, Control, Shapes
  <1>5. QueueSame
    BY <1>3 DEF QueueSame, First
  <1>6. \A i \in Unrun : i >= First
    BY DEF Unrun, Control, Counters, First
  <1>7. Pending'
    <2>1. \A i \in Unrun : IsWrite(At(i)) => \E p \in P : p.command = i /\ p.addr = At(i).arg
      BY <1>2, <1>6 DEF Live, Pending
    <2>2. DOMAIN w.todo = {}
      BY <1>1
    <2>3. QED
      BY <1>4, <1>5, <2>1, <2>2, SameQueue DEF Live, Pending
  <1>8. CASE w' = RQ!Drain([w EXCEPT !.pending = P, !.addr = a], "dirty")
    BY <1>1, <1>3, <1>7, <1>8, DrainLive
  <1>9. CASE (~\E p \in P : p.addr = a) /\ w' = [w EXCEPT !.pending = P, !.addr = a, !.pc = "dirty"]
    <2>1. /\ w'.pc = "dirty" /\ w'.addr = a /\ w'.next = "idle" /\ w'.target = w.target
          /\ w'.frameActive = w.frameActive /\ w'.drawHead = w.drawHead /\ w'.lastEnd = w.lastEnd
      BY <1>1, <1>9 DEF Control, Shapes
    <2>2. Still /\ WalkKeeps /\ EndsPaced'
      <3>1. Still /\ WalkKeeps
        BY <1>3, <1>4, <1>5, <2>1 DEF Still, WalkKeeps
      <3>2. QED
        BY <1>5, <2>1, <3>1, KeepsEnds DEF Live
    <2>3. Writes(a) = {}
      BY <1>2, <1>6, <1>9 DEF Writes, Live, Pending
    <2>4. Drained' /\ ReadReady'
      BY <1>5, <2>1, <2>3, SameQueue DEF Drained, ReadReady
    <2>5. QED
      BY <1>7, <2>2, <2>4, Moves
  <1>10. QED
    BY <1>3, <1>8, <1>9

\* The range is clean, or the walk waits for the renderer to write it back.
LEMMA DirtyLive ==
  ASSUME Control, Live, RQ!CsRangeMaybeDirty
  PROVE  Live'
  <1>1. /\ w.pc = "dirty" /\ w.next = "idle" /\ w.target = 0 /\ UNCHANGED RQ!notWalk
        /\ Writes(w.addr) = {}
    BY DEF RQ!CsRangeMaybeDirty, Control, WalkAt, Live, ReadReady
  <1>2. /\ w'.todo = w.todo /\ w'.addr = w.addr /\ w'.pending = w.pending
        /\ w'.frameActive = w.frameActive /\ w'.drawHead = w.drawHead /\ w'.lastEnd = w.lastEnd
        /\ \/ dirty[w.addr] = 0 /\ w'.pc = "see" /\ w'.next = w.next /\ w'.target = w.target
           \/ dirty[w.addr] # 0 /\ w'.pc = "wait" /\ w'.next = "flush" /\ w'.target = head
    BY DEF RQ!CsRangeMaybeDirty, RQ!Drain, Control, Shapes
  <1>3. Still /\ WalkKeeps /\ Pending'
    <2>1. Still /\ WalkKeeps
      BY <1>1, <1>2 DEF Still, QueueSame, First, WalkKeeps
    <2>2. QED
      BY <1>2, <2>1, KeepsPending DEF Live, Still
  <1>4. EndsPaced'
    <2>1. SUFFICES ASSUME NEW i \in r.tail .. head - 1, At(i).kind = "end" PROVE i + 1 = w.lastEnd
      BY <1>2, <1>3, SameQueue DEF EndsPaced, Still, QueueSame
    <2>2. QED
      BY <1>1, <2>1 DEF Live, EndsPaced, Control, Counters
  <1>5. Drained' /\ ReadReady'
    BY <1>1, <1>2, <1>3, SameQueue DEF Drained, ReadReady, Still, QueueSame
  <1>6. QED
    BY <1>3, <1>4, <1>5, Moves

-----------------------------------------------------------------------------
(* Live, for the steps of the walk that make work or change memory.         *)

\* Nothing but what is to be pushed changes, and what is to be pushed writes
\* nothing.
LEMMA TodoLive ==
  ASSUME Control, Live, QueueSame, w.todo = <<>>, \A a : ~ToWrite(a)',
         \A i \in DOMAIN w'.todo : ~IsWrite(w'.todo[i]),
         w'.lastEnd = w.lastEnd, w'.target = w.target, w'.pending = w.pending, w'.next = "idle",
         w'.pc \in {"idle", "push"}, UNCHANGED <<RQ!pvars, RQ!rvars, RQ!mvars>>, DrawsKept', Frames'
  PROVE  Live'
  <1>1. Ring' /\ EndsPaced' /\ Loan'
    BY KeepsRing, KeepsEnds, KeepsLoan DEF Live
  <1>2. Pending'
    BY SameQueue DEF Live, Pending
  <1>3. \A a : ~ToWrite(a)
    BY DEF ToWrite
  <1>4. Versions'
    <2>1. \A a : LastIssued(a) => LastIssued(a)'
      BY SameQueue DEF LastIssued
    <2>2. QED
      BY <1>3, <2>1 DEF Live, Versions
  <1>5. Drained' /\ ReadReady'
    BY DEF Drained, ReadReady
  <1>6. QED
    BY <1>1, <1>2, <1>4, <1>5 DEF Live

LEMMA EndFrameLive ==
  ASSUME Control, Live, RQ!EndFrame
  PROVE  Live'
  <1> DEFINE e == RQ!NewCmd("end", 0, 0)
  <1>1. /\ w'.pc = "push" /\ w'.todo = <<e>> /\ w'.target = w.target /\ w'.next = w.next
        /\ w'.addr = w.addr /\ w'.frameActive = FALSE /\ w'.drawHead = w.drawHead
        /\ w'.lastEnd = w.lastEnd /\ w'.pending = w.pending /\ w.pc = "idle" /\ w.frameActive
        /\ UNCHANGED RQ!notWalk
    BY DEF RQ!EndFrame, RQ!Walking, Control, Shapes
  <1>2. w.todo = <<>> /\ w.next = "idle"
    BY <1>1 DEF Control, WalkAt
  <1>3. e.kind = "end" /\ DOMAIN w'.todo = {1} /\ w'.todo[1] = e /\ Head(w'.todo) = e /\ w'.todo # <<>>
    BY <1>1, Short DEF RQ!NewCmd
  <1> HIDE DEF e
  <1>4. QueueSame
    BY <1>1 DEF QueueSame, First
  <1>5. DrawsKept'
    BY <1>1, <1>3, <1>4, SameQueue DEF Live, DrawsKept
  <1>6. Frames'
    <2>1. Open'
      <3>1. Open
        BY <1>1, <1>2 DEF Live, Frames
      <3>2. QED
        BY <1>1, <1>4, <3>1, SameQueue DEF Open
    <2>2. QED
      BY <1>1, <1>4, <2>1, SameQueue DEF Live, Frames
  <1>7. (\A i \in DOMAIN w'.todo : ~IsWrite(w'.todo[i])) /\ \A a : ~ToWrite(a)'
    BY <1>3 DEF IsWrite, ToWrite
  <1>8. QED
    BY <1>1, <1>2, <1>4, <1>5, <1>6, <1>7, TodoLive

LEMMA NextDrawLive ==
  ASSUME Control, Live, RQ!NextDraw, ~stopping, RQ!RingAssumption
  PROVE  Live'
  <1> DEFINE b == RQ!NewCmd("begin", 0, 0)
             d == RQ!NewCmd("draw", w.drawHead, 0)
  <1>1. /\ w.pc = "slot" /\ w.todo = <<>> /\ w.next = "idle" /\ w'.next = w.next /\ w'.target = w.target
        /\ w'.drawHead = w.drawHead /\ w'.lastEnd = w.lastEnd /\ w'.pending = w.pending
        /\ w'.frameActive = TRUE /\ w'.pc \in {"idle", "push"}
        /\ UNCHANGED <<head, cmds, RQ!pvars, RQ!rvars, RQ!mvars, option, RQ!lvars>>
    BY NextDrawTodo DEF RQ!NextDraw, Control, WalkAt
  <1>2. QueueSame
    BY <1>1 DEF QueueSame, First
  <1>3. \/ w.frameActive /\ w'.todo = <<>>
        \/ w.frameActive /\ w'.todo = <<d>>
        \/ ~w.frameActive /\ w'.todo = <<b>>
        \/ ~w.frameActive /\ w'.todo = <<b, d>>
    BY NextDrawTodo
  <1>4. b.kind = "begin" /\ d.kind = "draw" /\ ~IsWrite(b) /\ ~IsWrite(d)
    BY DEF RQ!NewCmd, IsWrite
  <1> HIDE DEF b, d
  <1>5. \A i \in DOMAIN w'.todo : ~IsWrite(w'.todo[i])
    <2>1. CASE w'.todo = <<>>
      BY <2>1
    <2>2. CASE w'.todo = <<d>>
      BY <1>4, <2>2, Short
    <2>3. CASE w'.todo = <<b>>
      BY <1>4, <2>3, Short
    <2>4. CASE w'.todo = <<b, d>>
      BY <1>4, <2>4, Short
    <2>5. QED
      BY <1>3, <2>1, <2>2, <2>3, <2>4
  <1>6. \A a : ~ToWrite(a)'
    BY <1>5 DEF ToWrite
  <1>7. DrawsKept'
    <2>1. /\ w.drawHead \in Nat /\ drawsDone \in Nat /\ DrawSlots \in Nat \ {0} /\ drawsDone' = drawsDone
          /\ draws' = [draws EXCEPT ![w.drawHead % DrawSlots] = w.drawHead + 1]
          /\ draws = [i \in 0..(DrawSlots - 1) |-> draws[i]]
      BY <1>1 DEF Control, Counters, Shapes, RQ!RingAssumption, RQ!NextDraw
    <2>2. w.drawHead - drawsDone < DrawSlots
      BY <2>1 DEF RQ!NextDraw, RQ!SlotFree, RQ!Reached
    <2>3. draws'[w.drawHead % DrawSlots] = w.drawHead + 1
      BY <2>1, ModRange
    <2>4. ASSUME NEW n \in Nat, drawsDone <= n, n < w.drawHead
          PROVE  draws'[n % DrawSlots] = draws[n % DrawSlots]
      <3>1. w.drawHead - n < DrawSlots
        BY <2>1, <2>2, <2>4
      <3>2. n % DrawSlots # w.drawHead % DrawSlots
        BY <2>1, <2>4, <3>1, ModApart
      <3>3. n % DrawSlots \in 0 .. DrawSlots - 1
        BY <2>1, ModRange
      <3>4. QED
        BY <2>1, <3>2, <3>3
    <2>5. QED
      BY <1>1, <1>2, <2>1, <2>3, <2>4, SameQueue DEF Live, DrawsKept
  <1>8. Frames'
    <2>1. w.frameActive => Open
      BY <1>1 DEF Live, Frames
    <2>2. Open => Open'
      BY <1>1, <1>2, SameQueue DEF Open
    <2>3. ~w.frameActive => w'.todo # <<>> /\ Head(w'.todo).kind = "begin"
      BY <1>3, <1>4, Short
    <2>4. w'.todo # <<>> => Head(w'.todo).kind # "end"
      BY <1>3, <1>4, Short
    <2>5. QED
      BY <1>1, <1>2, <2>1, <2>2, <2>3, <2>4, SameQueue DEF Live, Frames
  <1>9. QED
    BY <1>1, <1>2, <1>5, <1>6, <1>7, <1>8, TodoLive

\* A queued write: noted in pending_writes_ before it is pushed.
LEMMA QueueWriteLive ==
  ASSUME Control, Live, NEW a \in Addrs, NEW kind \in {"dma", "cs"}, RQ!QueueWrite(a, kind), RQ!Walking,
         UNCHANGED <<rmem, dirty, RQ!pvars, RQ!qvars, RQ!rvars>>
  PROVE  Live'
  <1> DEFINE c == RQ!NewCmd(kind, a, rissued[a] + 1)
             p == [command |-> head, addr |-> a]
  <1>1. /\ w'.pc = "push" /\ w'.todo = <<c>> /\ w'.target = w.target
        /\ w'.next = w.next /\ w'.addr = w.addr /\ w'.frameActive = w.frameActive
        /\ w'.drawHead = w.drawHead /\ w'.lastEnd = w.lastEnd
        /\ w'.pending = w.pending \cup {p}
        /\ rissued' = [rissued EXCEPT ![a] = rissued[a] + 1]
    BY DEF RQ!QueueWrite, Control, Shapes
  <1>2. w.pc = "idle" /\ w.todo = <<>> /\ w.next = "idle"
    BY DEF RQ!Walking, Control, WalkAt
  <1>3. QueueSame
    BY DEF QueueSame, First
  <1>4. /\ c.kind \notin {"begin", "end", "draw"} /\ IsWrite(c) /\ c.arg = a /\ c.ver = rissued[a] + 1
        /\ DOMAIN w'.todo = {1} /\ w'.todo[1] = c /\ Head(w'.todo) = c /\ w'.todo # <<>>
    BY <1>1, Short DEF RQ!NewCmd, IsWrite
  <1>5. p \in w'.pending /\ p.command = head /\ p.addr = a /\ w.pending \subseteq w'.pending
    BY <1>1
  <1> HIDE DEF c, p
  <1>6. Ring' /\ EndsPaced' /\ Loan'
    BY <1>1, <1>3, KeepsRing, KeepsEnds, KeepsLoan DEF Live
  <1>7. DrawsKept'
    BY <1>1, <1>3, <1>4, SameQueue DEF Live, DrawsKept
  <1>8. Drained' /\ ReadReady'
    BY <1>1, <1>2 DEF Drained, ReadReady
  <1>9. rissued' \in [Addrs -> Nat] /\ rissued'[a] = rissued[a] + 1 /\ \A x \in Addrs \ {a} : rissued'[x] = rissued[x]
    BY <1>1 DEF Live, Versions
  <1>10. Pending'
    <2>1. \A i \in Unrun' : IsWrite(At(i)') =>
            /\ At(i)'.arg \in Addrs /\ At(i)'.ver \in Nat \ {0}
            /\ \E q \in w'.pending : q.command = i /\ q.addr = At(i)'.arg
      BY <1>3, <1>5, SameQueue DEF Live, Pending
    <2>2. \A i \in DOMAIN w'.todo : IsWrite(w'.todo[i]) =>
            /\ w'.todo[i].ver = rissued'[w'.todo[i].arg]
            /\ \E q \in w'.pending : q.command = head' /\ q.addr = w'.todo[i].arg
      BY <1>3, <1>4, <1>5, <1>9 DEF QueueSame
    <2>3. QED
      BY <2>1, <2>2 DEF Pending, IsWrite
  <1>11. Versions'
    <2>1. ToWrite(a)'
      BY <1>4 DEF ToWrite, IsWrite
    <2>2. \A x : ~ToWrite(x)
      BY <1>2 DEF ToWrite
    <2>3. \A x \in Addrs \ {a} : LastIssued(x) => LastIssued(x)'
      BY <1>3, <1>9, SameQueue DEF LastIssued
    <2>4. QED
      BY <1>9, <2>1, <2>2, <2>3 DEF Live, Versions
  <1>12. Frames'
    <2>1. w.frameActive => Open
      BY <1>2 DEF Live, Frames
    <2>2. Open => Open'
      BY <1>3, SameQueue DEF Open
    <2>3. QED
      BY <1>1, <1>3, <1>4, <2>1, <2>2, SameQueue DEF Live, Frames
  <1>13. QED
    BY <1>6, <1>7, <1>8, <1>10, <1>11, <1>12 DEF Live

LEMMA DmaLive ==
  ASSUME Control, Live, NEW a \in Addrs, RQ!Dma(a)
  PROVE  Live'
  BY QueueWriteLive DEF RQ!Dma

LEMMA DispatchLive ==
  ASSUME Control, Live, NEW a \in Addrs, RQ!Dispatch(a)
  PROVE  Live'
  <1>1. CASE option.cs
    BY <1>1, QueueWriteLive DEF RQ!Dispatch
  <1>2. CASE ~option.cs
    <2>1. /\ w' = RQ!Drain([w EXCEPT !.addr = a], "dispatch")
          /\ UNCHANGED <<RQ!pvars, RQ!qvars, RQ!rvars, RQ!mvars>> /\ w.pc = "idle"
      BY <1>2 DEF RQ!Dispatch, RQ!Walking
    <2>2. [w EXCEPT !.addr = a] = [w EXCEPT !.pending = w.pending, !.addr = a]
      BY DEF Control, Shapes
    <2>3. w'.todo = w.todo /\ w'.pending = w.pending
      BY <2>1 DEF RQ!Drain, Control, Shapes
    <2>4. QueueSame
      BY <2>1 DEF QueueSame, First
    <2>5. Pending'
      BY <2>1, <2>3, <2>4, KeepsPending DEF Live
    <2>6. QED
      BY <2>1, <2>2, <2>5, DrainLive
  <1>3. QED
    BY <1>1, <1>2

\* The walk changes what is in memory or dirty of one range, with no write of it
\* left to execute, and what it leaves is the version issued last.
LEMMA TouchLive ==
  ASSUME Control, Live, QueueSame, WalkKeeps, w.todo = <<>>, w'.pending = w.pending,
         w'.target = w.target, NEW a \in Addrs, Writes(a) = {},
         UNCHANGED <<RQ!pvars, RQ!qvars, RQ!rvars>>,
         rmem' \in [Addrs -> Nat], dirty' \in [Addrs -> Nat], rissued' \in [Addrs -> Nat],
         \A x \in Addrs \ {a} : rmem'[x] = rmem[x] /\ dirty'[x] = dirty[x] /\ rissued'[x] = rissued[x],
         IF dirty'[a] = 0 THEN rmem'[a] = rissued'[a] ELSE dirty'[a] = rissued'[a],
         Drained', ReadReady'
  PROVE  Live'
  <1>1. Ring' /\ EndsPaced' /\ Loan'
    BY KeepsRing, KeepsEnds, KeepsLoan DEF Live, WalkKeeps
  <1>2. DrawsKept' /\ Frames'
    BY KeepsDraws, KeepsFrames DEF Live, WalkKeeps
  <1>3. DOMAIN w.todo = {} /\ \A x : ~ToWrite(x) /\ ~ToWrite(x)'
    BY DEF ToWrite, WalkKeeps
  <1>4. Pending'
    BY <1>3, SameQueue DEF Live, Pending, WalkKeeps
  <1>5. Versions'
    <2>1. \A x \in Addrs \ {a} : LastIssued(x) => LastIssued(x)'
      BY SameQueue DEF LastIssued
    <2>2. LastIssued(a)'
      BY SameQueue DEF LastIssued
    <2>3. QED
      BY <1>3, <2>1, <2>2 DEF Live, Versions
  <1>6. QED
    BY <1>1, <1>2, <1>4, <1>5 DEF Live

LEMMA RunDispatchLive ==
  ASSUME Control, Live, RQ!RunDispatch
  PROVE  Live'
  <1> DEFINE a == w.addr
  <1>1. /\ w'.pc = "idle" /\ w'.todo = w.todo /\ w'.target = w.target /\ w'.next = w.next
        /\ w'.frameActive = w.frameActive /\ w'.drawHead = w.drawHead
        /\ w'.lastEnd = w.lastEnd /\ w'.pending = w.pending /\ w.pc = "dispatch"
    BY DEF RQ!RunDispatch, Control, Shapes
  <1>2. w.todo = <<>> /\ w.next = "idle" /\ a \in Addrs /\ done = head
    BY <1>1 DEF Control, WalkAt, Live, Drained
  <1>3. QueueSame /\ WalkKeeps
    BY <1>1 DEF RQ!RunDispatch, QueueSame, First, WalkKeeps
  <1>4. Writes(a) = {}
    BY <1>2, AllRun
  <1>5. /\ dirty' = [dirty EXCEPT ![a] = rissued[a] + 1] /\ rissued' = [rissued EXCEPT ![a] = rissued[a] + 1]
        /\ rmem' = rmem /\ UNCHANGED <<RQ!pvars, RQ!qvars, RQ!rvars>>
    BY DEF RQ!RunDispatch
  <1> HIDE DEF a
  <1>6. /\ rmem' \in [Addrs -> Nat] /\ dirty' \in [Addrs -> Nat] /\ rissued' \in [Addrs -> Nat]
        /\ \A x \in Addrs \ {a} : rmem'[x] = rmem[x] /\ dirty'[x] = dirty[x] /\ rissued'[x] = rissued[x]
        /\ dirty'[a] = rissued'[a] /\ dirty'[a] # 0
    BY <1>2, <1>5 DEF Live, Versions
  <1>7. Drained' /\ ReadReady'
    BY <1>1, <1>2 DEF Drained, ReadReady
  <1>8. QED
    BY <1>1, <1>2, <1>3, <1>4, <1>5, <1>6, <1>7, TouchLive

LEMMA FlushLive ==
  ASSUME Control, Live, RQ!FlushCsWrites
  PROVE  Live'
  <1> DEFINE a == w.addr
  <1>1. /\ w'.pc = "see" /\ w'.todo = w.todo /\ w'.target = w.target /\ w'.next = w.next
        /\ w'.frameActive = w.frameActive /\ w'.drawHead = w.drawHead /\ w'.addr = a
        /\ w'.lastEnd = w.lastEnd /\ w'.pending = w.pending /\ w.pc = "flush"
    BY DEF RQ!FlushCsWrites, Control, Shapes
  <1>2. w.todo = <<>> /\ w.next = "idle" /\ a \in Addrs
    BY <1>1 DEF Control, WalkAt
  <1>3. QueueSame /\ WalkKeeps
    BY <1>1 DEF RQ!FlushCsWrites, QueueSame, First, WalkKeeps
  <1>4. Writes(a) = {} /\ dirty[a] # 0
    BY <1>1 DEF Live, ReadReady
  <1>5. /\ rmem' = [rmem EXCEPT ![a] = dirty[a]] /\ dirty' = [dirty EXCEPT ![a] = 0]
        /\ rissued' = rissued /\ UNCHANGED <<RQ!pvars, RQ!qvars, RQ!rvars>>
    BY DEF RQ!FlushCsWrites
  <1>6. dirty[a] = rissued[a]
    <2>1. ~ToWrite(a)
      BY <1>2 DEF ToWrite
    <2>2. QED
      BY <1>2, <1>4, <2>1 DEF Live, Versions, LastIssued
  <1> HIDE DEF a
  <1>7. /\ rmem' \in [Addrs -> Nat] /\ dirty' \in [Addrs -> Nat] /\ rissued' \in [Addrs -> Nat]
        /\ \A x \in Addrs \ {a} : rmem'[x] = rmem[x] /\ dirty'[x] = dirty[x] /\ rissued'[x] = rissued[x]
        /\ dirty'[a] = 0 /\ rmem'[a] = rissued'[a]
    BY <1>2, <1>5, <1>6 DEF Live, Versions
  <1>8. Drained' /\ ReadReady'
    BY <1>1, <1>2, <1>3, <1>4, <1>7, SameQueue DEF Drained, ReadReady
  <1>9. QED
    BY <1>1, <1>2, <1>3, <1>4, <1>5, <1>7, <1>8, TouchLive

-----------------------------------------------------------------------------
(* Live, for a push.                                                        *)

\* The command goes to a place no command waits in.
LEMMA PushQueue ==
  ASSUME Control, Live, RQ!Push, ~stopping, RQ!RingAssumption, NEW c, c = Head(w.todo),
         NEW h, h = head
  PROVE  /\ head \in Nat /\ r.tail \in Nat /\ First \in Nat /\ r.tail <= First /\ First <= head
         /\ head' = head + 1 /\ r' = r /\ First' = First
         /\ head + 1 - r.tail <= Commands
         /\ Unrun' = Unrun \cup {h} /\ (\A i \in Unrun : i \in r.tail .. head - 1 /\ i < h)
         /\ \A i \in r.tail .. head - 1 : At(i)' = At(i)
         /\ At(h)'.kind = c.kind /\ At(h)'.arg = c.arg /\ At(h)'.ver = c.ver /\ At(h)'.n = h
  <1>1. /\ head \in Nat /\ r.tail \in Nat /\ done = r.tail /\ r.tail <= head /\ Commands \in Nat \ {0}
        /\ First \in {r.tail, r.tail + 1} /\ First <= head
    BY DEF Control, Counters, RQ!RingAssumption, First
  <1>2. head' = head + 1 /\ r' = r /\ cmds' = [cmds EXCEPT ![head % Commands] = [c EXCEPT !.n = head]]
    BY PushWalk
  <1>3. head + 1 - r.tail <= Commands
    BY <1>1 DEF RQ!Push, RQ!ClaimReady, RQ!Reached
  <1>4. First' = First
    BY <1>2 DEF First
  <1>5. Unrun' = Unrun \cup {h} /\ (\A i \in Unrun : i \in r.tail .. head - 1 /\ i < h)
    <2>1. First .. head = (First .. head - 1) \cup {h}
      BY <1>1
    <2>2. head' - 1 = head
      BY <1>1, <1>2
    <2>3. Unrun' = First .. head
      BY <1>4, <2>2 DEF Unrun
    <2>4. \A i \in First .. head - 1 : i \in r.tail .. head - 1 /\ i < h
      BY <1>1
    <2>5. QED
      BY <2>1, <2>3, <2>4 DEF Unrun
  <1>6. \A i \in r.tail .. head - 1 : At(i)' = At(i)
    <2>1. SUFFICES ASSUME NEW i \in r.tail .. head - 1 PROVE cmds'[i % Commands] = cmds[i % Commands]
      BY DEF At
    <2>2. i \in Nat /\ i < head /\ head - i < Commands
      BY <1>1, <1>3
    <2>3. i % Commands # head % Commands
      BY <1>1, <2>2, ModApart
    <2>4. QED
      BY <1>2, <2>3 DEF Control, Shapes
  <1>7. cmds'[head % Commands] = [c EXCEPT !.n = head]
    <2>1. head % Commands \in 0 .. Commands - 1
      BY <1>1, ModRange
    <2>2. QED
      BY <1>2, <2>1 DEF Control, Shapes
  <1>8. PICK k, a, v : c = RQ!NewCmd(k, a, v)
    <2>1. w.pc = "push"
      BY DEF RQ!Push
    <2>2. QED
      BY <2>1, PushCmd
  <1>9. At(h)'.kind = c.kind /\ At(h)'.arg = c.arg /\ At(h)'.ver = c.ver /\ At(h)'.n = h
    <2>1. At(h)' = [c EXCEPT !.n = head]
      BY <1>7 DEF At
    <2>2. QED
      BY <1>8, <2>1 DEF RQ!NewCmd
  <1>10. QED
    BY <1>1, <1>2, <1>3, <1>4, <1>5, <1>6, <1>9

\* What the walk still has to push after this command, and what the command is.
LEMMA PushLeft ==
  ASSUME Control, w.pc = "push", NEW c, c = Head(w.todo)
  PROVE  /\ 1 \in DOMAIN w.todo /\ w.todo[1] = c /\ w.todo # <<>>
         /\ \A i \in DOMAIN w.todo : i # 1 => ~IsWrite(w.todo[i])
         /\ c.kind \in {"begin", "draw", "end", "dma", "cs"}
         /\ c.kind = "draw" => c.arg = w.drawHead
         /\ IsWrite(c) => c.arg \in Addrs /\ c.ver \in Nat \ {0}
         /\ c.kind # "begin" => Tail(w.todo) = <<>>
         /\ \A i \in DOMAIN Tail(w.todo) :
              Tail(w.todo)[i].kind = "draw" /\ \E j \in DOMAIN w.todo : w.todo[j].kind = "draw"
         /\ Tail(w.todo) # <<>> => Head(Tail(w.todo)).kind = "draw"
  <1> DEFINE b == RQ!NewCmd("begin", 0, 0)
             d == RQ!NewCmd("draw", w.drawHead, 0)
             e == RQ!NewCmd("end", 0, 0)
  <1>1. /\ b.kind = "begin" /\ d.kind = "draw" /\ d.arg = w.drawHead /\ e.kind = "end"
        /\ ~IsWrite(b) /\ ~IsWrite(d) /\ ~IsWrite(e)
    BY DEF RQ!NewCmd, IsWrite
  <1>2. w.todo # <<>> /\ Todo
    BY DEF Control, WalkAt
  <1> HIDE DEF b, d, e
  <1>3. CASE w.todo = <<b>>
    BY <1>1, <1>3, Short
  <1>4. CASE w.todo = <<d>>
    BY <1>1, <1>4, Short
  <1>5. CASE w.todo = <<b, d>>
    BY <1>1, <1>5, Short
  <1>6. CASE w.todo = <<e>>
    BY <1>1, <1>6, Short
  <1>7. ASSUME NEW a \in Addrs, NEW k \in {"dma", "cs"}, NEW v \in Nat \ {0}, w.todo = <<RQ!NewCmd(k, a, v)>>
        PROVE  /\ 1 \in DOMAIN w.todo /\ w.todo[1] = c /\ DOMAIN w.todo = {1}
               /\ c.kind \in {"dma", "cs"} /\ c.arg \in Addrs /\ c.ver \in Nat \ {0}
               /\ Tail(w.todo) = <<>> /\ DOMAIN Tail(w.todo) = {}
    <2>1. c = RQ!NewCmd(k, a, v)
      BY <1>7, Short
    <2>2. c.kind = k /\ c.arg = a /\ c.ver = v
      BY <2>1 DEF RQ!NewCmd
    <2>3. QED
      BY <1>7, <2>1, <2>2, Short
  <1>8. QED
    BY <1>2, <1>3, <1>4, <1>5, <1>6, <1>7 DEF Todo, b, d, e

LEMMA PushLive ==
  ASSUME Control, Live, RQ!Push, ~stopping, RQ!RingAssumption
  PROVE  Live'
  <1>1. PICK h, c : h = head /\ c = Head(w.todo)
    OBVIOUS
  <1>2. /\ w.pc = "push" /\ w'.pc = "lock" /\ w'.todo = Tail(w.todo) /\ w'.next = w.next
        /\ w'.frameActive = w.frameActive /\ w'.pending = w.pending
        /\ w'.drawHead = (IF c.kind = "draw" THEN w.drawHead + 1 ELSE w.drawHead)
        /\ w'.target = (IF c.kind = "end" THEN w.lastEnd ELSE w.target)
        /\ w'.lastEnd = (IF c.kind = "end" THEN head + 1 ELSE w.lastEnd)
        /\ UNCHANGED <<draws, RQ!pvars, RQ!rvars, RQ!mvars, option, RQ!lvars>>
    BY <1>1, PushWalk
  <1>3. w.next = "idle" /\ w.target = 0
    BY <1>2 DEF Control, WalkAt
  <1>4. /\ h \in Nat /\ r.tail \in Nat /\ First \in Nat /\ r.tail <= First /\ First <= h
        /\ head' = h + 1 /\ h + 1 - r.tail <= Commands
        /\ Unrun' = Unrun \cup {h} /\ (\A i \in Unrun : i \in r.tail .. h - 1 /\ i < h)
        /\ \A i \in r.tail .. h - 1 : At(i)' = At(i)
        /\ At(h)'.kind = c.kind /\ At(h)'.arg = c.arg /\ At(h)'.ver = c.ver /\ At(h)'.n = h
    BY <1>1, PushQueue
  <1>5. \A i \in Unrun : At(i)' = At(i) /\ i # h
    BY <1>4
  <1>6. Ring'
    <2>1. \A i \in r.tail .. h : i = h \/ i \in r.tail .. h - 1
      BY <1>4
    <2>2. head' - 1 = h
      BY <1>4
    <2>3. \A i \in r.tail .. h : At(i)'.n = i
      BY <1>1, <1>4, <2>1 DEF Live, Ring
    <2>4. r.pc = "begin" => At(r.tail)'.kind = "begin"
      <3>1. SUFFICES ASSUME r.pc = "begin" PROVE At(r.tail)'.kind = "begin"
        OBVIOUS
      <3>2. r.tail \in r.tail .. h - 1 /\ r'.tail = r.tail
        BY <1>1, <1>2, <1>4, <3>1 DEF Control, Counters
      <3>3. PICK i : i = r.tail
        OBVIOUS
      <3>4. At(i)' = At(i) /\ At(i).kind = "begin"
        BY <1>4, <3>1, <3>2, <3>3 DEF Live, Ring
      <3>5. QED
        BY <3>2, <3>3, <3>4 DEF At
    <2>5. QED
      BY <1>2, <1>4, <2>2, <2>3, <2>4 DEF Ring
  <1>7. DrawsKept'
    <2>1. /\ w.drawHead \in Nat /\ drawsDone \in Nat
          /\ c.kind = "draw" => /\ c.arg = w.drawHead
                                /\ draws[w.drawHead % DrawSlots] = w.drawHead + 1
      BY <1>1, <1>2, PushLeft DEF Control, Counters, Live, DrawsKept
    <2>2. w.drawHead <= w'.drawHead /\ w'.drawHead \in Nat
      BY <1>2, <2>1
    <2>3. \A i \in Unrun' : At(i)'.kind = "draw" =>
            /\ At(i)'.arg \in Nat /\ drawsDone <= At(i)'.arg /\ At(i)'.arg < w'.drawHead
            /\ draws[At(i)'.arg % DrawSlots] = At(i)'.arg + 1
      <3>1. SUFFICES ASSUME NEW i \in Unrun', At(i)'.kind = "draw"
                     PROVE  /\ At(i)'.arg \in Nat /\ drawsDone <= At(i)'.arg /\ At(i)'.arg < w'.drawHead
                            /\ draws[At(i)'.arg % DrawSlots] = At(i)'.arg + 1
        OBVIOUS
      <3>2. CASE i = h
        BY <1>2, <1>4, <2>1, <3>1, <3>2 DEF Live, DrawsKept
      <3>3. CASE i \in Unrun
        <4>1. At(i)' = At(i)
          BY <1>5, <3>3
        <4>2. /\ At(i).arg \in Nat /\ drawsDone <= At(i).arg /\ At(i).arg < w.drawHead
              /\ draws[At(i).arg % DrawSlots] = At(i).arg + 1
          BY <3>1, <3>3, <4>1 DEF Live, DrawsKept
        <4>3. At(i).arg < w'.drawHead
          BY <2>1, <2>2, <4>2
        <4>4. QED
          BY <4>1, <4>2, <4>3
      <3>4. QED
        BY <1>4, <3>2, <3>3
    <2>4. \A i, j \in Unrun' : i < j /\ At(i)'.kind = "draw" /\ At(j)'.kind = "draw" => At(i)'.arg < At(j)'.arg
      <3>1. SUFFICES ASSUME NEW i \in Unrun', NEW j \in Unrun', i < j, At(i)'.kind = "draw", At(j)'.kind = "draw"
                     PROVE  At(i)'.arg < At(j)'.arg
        OBVIOUS
      <3>2. i \in Unrun /\ At(i)' = At(i)
        BY <1>4, <1>5, <3>1
      <3>3. CASE j = h
        <4>1. At(j)'.arg = w.drawHead
          BY <1>4, <2>1, <3>1, <3>3
        <4>2. At(i).arg < w.drawHead
          BY <3>1, <3>2 DEF Live, DrawsKept
        <4>3. QED
          BY <3>2, <4>1, <4>2
      <3>4. CASE j \in Unrun
        BY <1>5, <3>1, <3>2, <3>4 DEF Live, DrawsKept
      <3>5. QED
        BY <1>4, <3>3, <3>4
    <2>5. drawsDone <= w'.drawHead
      BY <2>1, <2>2 DEF Live, DrawsKept
    <2>6. (\E i \in DOMAIN w'.todo : w'.todo[i].kind = "draw") => draws[w'.drawHead % DrawSlots] = w'.drawHead + 1
      <3>1. SUFFICES ASSUME NEW i \in DOMAIN Tail(w.todo)
                     PROVE  draws[w'.drawHead % DrawSlots] = w'.drawHead + 1
        BY <1>2
      <3>2. \E j \in DOMAIN w.todo : w.todo[j].kind = "draw"
        BY <1>1, <1>2, <3>1, PushLeft
      <3>3. Tail(w.todo) # <<>>
        BY <3>1
      <3>4. c.kind = "begin"
        BY <1>1, <1>2, <3>3, PushLeft
      <3>5. w'.drawHead = w.drawHead
        BY <1>2, <3>4
      <3>6. QED
        BY <3>2, <3>5 DEF Live, DrawsKept
    <2>7. QED
      BY <1>2, <2>3, <2>4, <2>5, <2>6 DEF DrawsKept
  <1>8. EndsPaced'
    <2>1. SUFFICES ASSUME NEW i \in r.tail .. h, At(i)'.kind = "end"
                   PROVE  i + 1 = w'.lastEnd \/ i + 1 <= w'.target
      <3>1. head' - 1 = h /\ r' = r
        BY <1>2, <1>4
      <3>2. QED
        BY <3>1 DEF EndsPaced
    <2>2. CASE i = h
      BY <1>1, <1>2, <1>4, <2>1, <2>2
    <2>3. CASE i # h
      <3>1. i \in r.tail .. h - 1 /\ i \in Nat
        BY <1>4, <2>3
      <3>2. At(i).kind = "end"
        BY <1>4, <2>1, <3>1
      <3>3. i + 1 = w.lastEnd
        BY <1>1, <1>3, <3>1, <3>2 DEF Live, EndsPaced
      <3>4. CASE c.kind = "end"
        BY <1>2, <3>1, <3>3, <3>4
      <3>5. CASE c.kind # "end"
        BY <1>2, <3>3, <3>5
      <3>6. QED
        BY <3>4, <3>5
    <2>4. QED
      BY <2>2, <2>3
  <1>9. Drained' /\ ReadReady'
    BY <1>2, <1>3 DEF Drained, ReadReady
  <1>10. \A i \in DOMAIN w'.todo : ~IsWrite(w'.todo[i])
    BY <1>1, <1>2, PushLeft DEF IsWrite
  <1>11. Pending'
    <2>1. ASSUME NEW i \in Unrun', IsWrite(At(i)')
          PROVE  /\ At(i)'.arg \in Addrs /\ At(i)'.ver \in Nat \ {0}
                 /\ \E p \in w.pending : p.command = i /\ p.addr = At(i)'.arg
      <3>1. CASE i = h
        <4>1. IsWrite(c)
          BY <1>4, <2>1, <3>1 DEF IsWrite
        <4>2. c.arg \in Addrs /\ c.ver \in Nat \ {0} /\ 1 \in DOMAIN w.todo /\ w.todo[1] = c
          BY <1>1, <1>2, <4>1, PushLeft
        <4>3. \E p \in w.pending : p.command = head /\ p.addr = c.arg
          BY <4>1, <4>2 DEF Live, Pending
        <4>4. QED
          BY <1>1, <1>4, <3>1, <4>2, <4>3
      <3>2. CASE i \in Unrun
        BY <1>5, <2>1, <3>2 DEF Live, Pending
      <3>3. QED
        BY <1>4, <3>1, <3>2
    <2>2. QED
      BY <1>2, <1>10, <2>1 DEF Pending, IsWrite
  <1>12. Versions'
    <2>1. rmem' \in [Addrs -> Nat] /\ dirty' \in [Addrs -> Nat] /\ rissued' \in [Addrs -> Nat]
      BY <1>2 DEF Live, Versions
    <2>2. SUFFICES ASSUME NEW a \in Addrs PROVE LastIssued(a)'
      BY <2>1 DEF Versions
    <2>3. CASE IsWrite(c) /\ c.arg = a
      <3>1. h \in Writes(a)' /\ \A i \in Writes(a)' : i <= h
        BY <1>4, <2>3 DEF Writes, IsWrite
      <3>2. c.ver = rissued[a]
        BY <1>1, <1>2, <2>3, PushLeft DEF Live, Pending
      <3>3. \A i \in Writes(a)' : i \in Nat
        BY <1>4 DEF Writes
      <3>4. \A i \in Writes(a)' : (\A j \in Writes(a)' : j <= i) => i = h
        BY <1>4, <3>1, <3>3
      <3>5. QED
        BY <1>2, <1>4, <3>1, <3>2, <3>4 DEF LastIssued
    <2>4. CASE ~(IsWrite(c) /\ c.arg = a)
      <3>1. Writes(a)' = Writes(a)
        <4>1. \A i \in Unrun : At(i)' = At(i)
          BY <1>5
        <4>2. ~(IsWrite(At(h)') /\ At(h)'.arg = a)
          BY <1>4, <2>4 DEF IsWrite
        <4>3. QED
          BY <1>4, <4>1, <4>2 DEF Writes, IsWrite
      <3>2. ~ToWrite(a)
        BY <1>1, <1>2, <2>4, PushLeft DEF ToWrite
      <3>3. LastIssued(a)
        BY <3>2 DEF Live, Versions
      <3>4. \A i \in Writes(a) : At(i)' = At(i)
        BY <1>5 DEF Writes
      <3>5. QED
        BY <1>2, <3>1, <3>3, <3>4 DEF LastIssued
    <2>5. QED
      BY <2>3, <2>4
  <1>13. Loan'
    BY <1>2, KeepsLoan DEF Live
  <1>14. Frames'
    <2>1. psrc' = psrc /\ \A i \in Unrun : At(i)' = At(i) /\ i \in Unrun' /\ i < h
      BY <1>2, <1>4, <1>5
    <2>2. c.kind = "end" => Open
      BY <1>1, <1>2, PushLeft DEF Live, Frames
    <2>3. \A i \in Unrun' : At(i)'.kind = "end" => psrc = RQ!None \/ \E j \in Unrun' : j < i /\ At(j)'.kind = "begin"
      <3>1. SUFFICES ASSUME NEW i \in Unrun', At(i)'.kind = "end", psrc # RQ!None
                     PROVE  \E j \in Unrun' : j < i /\ At(j)'.kind = "begin"
        OBVIOUS
      <3>2. CASE i = h
        <4>1. c.kind = "end"
          BY <1>4, <3>1, <3>2
        <4>2. \E j \in Unrun : At(j).kind = "begin"
          BY <2>2, <3>1, <4>1 DEF Open
        <4>3. QED
          BY <2>1, <3>2, <4>2
      <3>3. CASE i \in Unrun
        <4>1. \E j \in Unrun : j < i /\ At(j).kind = "begin"
          BY <2>1, <3>1, <3>3 DEF Live, Frames
        <4>2. QED
          BY <2>1, <4>1
      <3>4. QED
        BY <1>4, <3>2, <3>3
    <2>4. \A i, k \in Unrun' : i < k /\ At(i)'.kind = "end" /\ At(k)'.kind = "end" =>
            \E j \in Unrun' : i < j /\ j < k /\ At(j)'.kind = "begin"
      <3>1. SUFFICES ASSUME NEW i \in Unrun', NEW k \in Unrun', i < k, At(i)'.kind = "end", At(k)'.kind = "end"
                     PROVE  \E j \in Unrun' : i < j /\ j < k /\ At(j)'.kind = "begin"
        OBVIOUS
      <3>2. i \in Unrun /\ At(i).kind = "end"
        BY <1>4, <2>1, <3>1
      <3>3. CASE k = h
        <4>1. \E j \in Unrun : i < j /\ At(j).kind = "begin"
          BY <1>4, <2>2, <3>1, <3>2, <3>3 DEF Open
        <4>2. QED
          BY <2>1, <3>3, <4>1
      <3>4. CASE k \in Unrun
        <4>1. \E j \in Unrun : i < j /\ j < k /\ At(j).kind = "begin"
          BY <2>1, <3>1, <3>2, <3>4 DEF Live, Frames
        <4>2. QED
          BY <2>1, <4>1
      <3>5. QED
        BY <1>4, <3>3, <3>4
    <2>5. ASSUME c.kind # "end", Open PROVE Open'
      <3>1. CASE \E j \in Unrun : At(j).kind = "begin" /\ \A k \in Unrun : At(k).kind = "end" => k < j
        <4>1. PICK j \in Unrun : At(j).kind = "begin" /\ \A k \in Unrun : At(k).kind = "end" => k < j
          BY <3>1
        <4>2. j \in Unrun' /\ At(j)'.kind = "begin" /\ \A k \in Unrun' : At(k)'.kind = "end" => k < j
          BY <1>4, <2>1, <2>5, <4>1
        <4>3. QED
          BY <4>2 DEF Open
      <3>2. CASE psrc = RQ!None /\ \A k \in Unrun : At(k).kind # "end"
        BY <1>4, <2>1, <2>5, <3>2 DEF Open
      <3>3. QED
        BY <2>5, <3>1, <3>2 DEF Open
    <2>6. c.kind = "begin" => Open'
      BY <1>4, <2>1 DEF Open
    <2>7. w'.todo # <<>> => Head(w'.todo).kind = "draw"
      BY <1>1, <1>2, PushLeft
    <2>8. w'.frameActive => Open'
      <3>1. SUFFICES ASSUME w.frameActive, c.kind # "begin" PROVE Open'
        BY <1>2, <2>6
      <3>2. w.todo # <<>> /\ Head(w.todo) = c
        BY <1>1, <1>2, PushLeft
      <3>3. c.kind # "end" /\ Open
        BY <3>1, <3>2 DEF Live, Frames
      <3>4. QED
        BY <2>5, <3>3
    <2>9. QED
      BY <2>1, <2>3, <2>4, <2>7, <2>8 DEF Frames
  <1>15. QED
    BY <1>6, <1>7, <1>8, <1>9, <1>11, <1>12, <1>13, <1>14 DEF Live
-----------------------------------------------------------------------------
(* Live, for the render thread.                                             *)

\* The command at tail_ has run; done_ does not count it yet.
Ran == /\ r.pc \in {"exec", "begin"} /\ r'.pc = "done" /\ r'.tail = r.tail
       /\ UNCHANGED <<head, cmds, draws, done, w, rissued>>

LEMMA RanQueue ==
  ASSUME Control, Ran, NEW t, t = r.tail
  PROVE  /\ t \in Unrun /\ t \in Nat /\ Unrun' = Unrun \ {t}
         /\ \A i \in Unrun : i \in Nat /\ t <= i
         /\ \A i \in Unrun' : i \in Unrun /\ t < i
         /\ \A i : At(i)' = At(i)
  <1>1. t \in Nat /\ head \in Nat /\ t < head /\ First = t /\ First' = t + 1
    BY DEF Ran, Control, Counters, First
  <1>2. Unrun = t .. head - 1 /\ Unrun' = t + 1 .. head - 1
    BY <1>1 DEF Unrun, Ran
  <1>3. \A i : At(i)' = At(i)
    BY DEF Ran, At
  <1>4. QED
    BY <1>1, <1>2, <1>3

\* The writes of a range that are left.
LEMMA RanWrites ==
  ASSUME Control, Ran, NEW t, t = r.tail, NEW c, c = At(t), NEW a
  PROVE  Writes(a)' = Writes(a) \ {t} /\ (t \in Writes(a) <=> IsWrite(c) /\ c.arg = a)
  <1>1. \A i : IsWrite(At(i))' <=> IsWrite(At(i))
    BY RanQueue DEF IsWrite
  <1>2. QED
    BY <1>1, RanQueue DEF Writes

RanMemory(c) ==
  IF IsWrite(c)
    THEN /\ rmem' = IF c.kind = "dma" THEN [rmem EXCEPT ![c.arg] = c.ver] ELSE rmem
         /\ dirty' = [dirty EXCEPT ![c.arg] = IF c.kind = "dma" THEN 0 ELSE c.ver]
    ELSE rmem' = rmem /\ dirty' = dirty

LEMMA RanVersions ==
  ASSUME Control, Live, Ran, NEW t, t = r.tail, NEW c, c = At(t), RanMemory(c)
  PROVE  Versions' /\ ReadReady'
  <1>1. IsWrite(c) => c.arg \in Addrs /\ c.ver \in Nat /\ c.ver # 0
    BY RanQueue DEF Live, Pending
  <1>2. rmem' \in [Addrs -> Nat] /\ dirty' \in [Addrs -> Nat] /\ rissued' \in [Addrs -> Nat]
    <2>1. rmem \in [Addrs -> Nat] /\ dirty \in [Addrs -> Nat] /\ rissued' = rissued /\ rissued \in [Addrs -> Nat]
      BY DEF Live, Versions, Ran
    <2>2. QED
      BY <1>1, <2>1 DEF RanMemory
  <1>3. \A a \in Addrs : ~(IsWrite(c) /\ c.arg = a) => rmem'[a] = rmem[a] /\ dirty'[a] = dirty[a]
    BY DEF RanMemory, Live, Versions
  <1>4. IsWrite(c) => IF dirty'[c.arg] = 0 THEN rmem'[c.arg] = c.ver ELSE dirty'[c.arg] = c.ver
    BY <1>1 DEF RanMemory, Live, Versions, IsWrite
  <1>5. ASSUME NEW a \in Addrs, LastIssued(a) PROVE LastIssued(a)'
    <2>1. CASE IsWrite(c) /\ c.arg = a
      <3>1. t \in Writes(a) /\ Writes(a)' = Writes(a) \ {t} /\ \A i \in Writes(a) : t <= i /\ i \in Nat
        BY <2>1, RanWrites, RanQueue DEF Writes
      <3>2. ASSUME NEW i \in Writes(a)', \A j \in Writes(a)' : j <= i PROVE At(i)'.ver = rissued'[a]
        <4>1. i \in Writes(a) /\ \A j \in Writes(a) : j <= i
          BY <3>1, <3>2
        <4>2. QED
          BY <1>5, <4>1, RanQueue DEF LastIssued, Ran
      <3>3. ASSUME Writes(a)' = {} PROVE IF dirty'[a] = 0 THEN rmem'[a] = rissued'[a] ELSE dirty'[a] = rissued'[a]
        <4>1. \A j \in Writes(a) : j <= t
          BY <3>1, <3>3, RanQueue
        <4>2. c.ver = rissued[a]
          BY <1>5, <3>1, <4>1 DEF LastIssued
        <4>3. QED
          BY <1>4, <2>1, <4>2 DEF Ran
      <3>4. QED
        BY <3>2, <3>3 DEF LastIssued
    <2>2. CASE ~(IsWrite(c) /\ c.arg = a)
      <3>1. Writes(a)' = Writes(a)
        BY <2>2, RanWrites
      <3>2. QED
        BY <1>3, <1>5, <2>2, <3>1, RanQueue DEF LastIssued, Ran
    <2>3. QED
      BY <2>1, <2>2
  <1>6. Versions'
    BY <1>2, <1>5 DEF Live, Versions, ToWrite, Ran
  <1>7. ReadReady'
    <2>1. \A a : Writes(a) = {} => Writes(a)' = {} /\ ~(IsWrite(c) /\ c.arg = a)
      BY RanWrites
    <2>2. w.pc \in {"dirty", "flush", "see"} \/ w.next = "flush" => w.addr \in Addrs
      BY DEF Control, WalkAt
    <2>3. PICK a : a = w.addr /\ a = w'.addr
      BY DEF Ran
    <2>4. w.pc \in {"dirty", "flush", "see"} \/ w.next = "flush" =>
            Writes(a)' = {} /\ dirty'[a] = dirty[a]
      BY <1>3, <2>1, <2>2, <2>3 DEF Live, ReadReady
    <2>5. w' = w
      BY DEF Ran
    <2>6. Writes(w.addr)' = Writes(a)'
      BY <2>3
    <2>7. QED
      BY <2>3, <2>4, <2>5, <2>6 DEF Live, ReadReady
  <1>8. QED
    BY <1>6, <1>7

\* What is left of the frames: a "begin" that ran found nothing lent, an "end" that
\* ran came first, so the next one has its "begin" still to run.
LEMMA RanFrames ==
  ASSUME Control, Live, Ran, NEW t, t = r.tail, NEW c, c = At(t),
         c.kind # "end" => psrc' = psrc, c.kind = "begin" => psrc = RQ!None
  PROVE  Frames'
  <1>1. /\ t \in Unrun /\ Unrun' = Unrun \ {t} /\ (\A i \in Unrun : i \in Nat /\ t <= i)
        /\ (\A i \in Unrun' : i \in Unrun /\ t < i) /\ \A i : At(i)' = At(i)
    BY RanQueue
  <1>2. \A i \in Unrun' : At(i)'.kind = "end" =>
          psrc' = RQ!None \/ \E j \in Unrun' : j < i /\ At(j)'.kind = "begin"
    <2>1. SUFFICES ASSUME NEW i \in Unrun', At(i).kind = "end", psrc' # RQ!None
                   PROVE  \E j \in Unrun' : j < i /\ At(j).kind = "begin"
      BY <1>1
    <2>2. CASE c.kind = "end"
      <3>1. \E j \in Unrun : t < j /\ j < i /\ At(j).kind = "begin"
        BY <1>1, <2>1, <2>2 DEF Live, Frames
      <3>2. QED
        BY <1>1, <3>1
    <2>3. CASE c.kind # "end"
      <3>1. \E j \in Unrun : j < i /\ At(j).kind = "begin"
        BY <1>1, <2>1, <2>3 DEF Live, Frames
      <3>2. QED
        BY <1>1, <2>1, <2>3, <3>1
    <2>4. QED
      BY <2>2, <2>3
  <1>3. \A i, k \in Unrun' : i < k /\ At(i)'.kind = "end" /\ At(k)'.kind = "end" =>
          \E j \in Unrun' : i < j /\ j < k /\ At(j)'.kind = "begin"
    <2>1. SUFFICES ASSUME NEW i \in Unrun', NEW k \in Unrun', i < k, At(i).kind = "end", At(k).kind = "end"
                   PROVE  \E j \in Unrun' : i < j /\ j < k /\ At(j).kind = "begin"
      BY <1>1
    <2>2. \E j \in Unrun : i < j /\ j < k /\ At(j).kind = "begin"
      BY <1>1, <2>1 DEF Live, Frames
    <2>3. QED
      BY <1>1, <2>1, <2>2
  <1>4. ASSUME Open PROVE Open'
    <2>1. CASE \E j \in Unrun : At(j).kind = "begin" /\ \A k \in Unrun : At(k).kind = "end" => k < j
      <3>1. PICK j \in Unrun : At(j).kind = "begin" /\ \A k \in Unrun : At(k).kind = "end" => k < j
        BY <2>1
      <3>2. CASE j = t
        <4>1. psrc' = RQ!None
          BY <3>1, <3>2
        <4>2. \A k \in Unrun' : At(k)'.kind # "end"
          BY <1>1, <3>1, <3>2
        <4>3. QED
          BY <4>1, <4>2 DEF Open
      <3>3. CASE j # t
        <4>1. j \in Unrun' /\ At(j)'.kind = "begin" /\ \A k \in Unrun' : At(k)'.kind = "end" => k < j
          BY <1>1, <3>1, <3>3
        <4>2. QED
          BY <4>1 DEF Open
      <3>4. QED
        BY <3>2, <3>3
    <2>2. CASE psrc = RQ!None /\ \A k \in Unrun : At(k).kind # "end"
      <3>1. psrc' = RQ!None /\ \A k \in Unrun' : At(k)'.kind # "end"
        BY <1>1, <2>2
      <3>2. QED
        BY <3>1 DEF Open
    <2>3. QED
      BY <1>4, <2>1, <2>2 DEF Open
  <1>5. w' = w
    BY DEF Ran
  <1>6. QED
    BY <1>2, <1>3, <1>4, <1>5 DEF Live, Frames

LEMMA RanLive ==
  ASSUME Control, Live, Ran, NEW t, t = r.tail, NEW c, c = At(t), RanMemory(c), Loan',
         c.kind # "end" => psrc' = psrc, c.kind = "begin" => psrc = RQ!None,
         drawsDone' = IF c.kind = "draw" THEN drawsDone + 1 ELSE drawsDone
  PROVE  Live'
  <1>1. /\ t \in Unrun /\ Unrun' = Unrun \ {t} /\ (\A i \in Unrun : i \in Nat /\ t <= i)
        /\ (\A i \in Unrun' : i \in Unrun /\ t < i) /\ \A i : At(i)' = At(i)
    BY RanQueue
  <1>2. Ring' /\ EndsPaced' /\ Drained'
    BY <1>1 DEF Live, Ring, EndsPaced, Drained, Ran
  <1>3. DrawsKept'
    <2>1. drawsDone \in Nat /\ w.drawHead \in Nat
      BY DEF Control, Counters
    <2>2. c.kind = "draw" => c.arg \in Nat /\ drawsDone <= c.arg /\ c.arg < w.drawHead
      BY <1>1 DEF Live, DrawsKept
    <2>3. \A i \in Unrun' : At(i).kind = "draw" =>
            /\ At(i).arg \in Nat /\ drawsDone' <= At(i).arg /\ At(i).arg < w.drawHead
            /\ draws[At(i).arg % DrawSlots] = At(i).arg + 1
      <3>1. SUFFICES ASSUME NEW i \in Unrun', At(i).kind = "draw"
                     PROVE  /\ At(i).arg \in Nat /\ drawsDone' <= At(i).arg /\ At(i).arg < w.drawHead
                            /\ draws[At(i).arg % DrawSlots] = At(i).arg + 1
        OBVIOUS
      <3>2. /\ At(i).arg \in Nat /\ drawsDone <= At(i).arg /\ At(i).arg < w.drawHead
            /\ draws[At(i).arg % DrawSlots] = At(i).arg + 1
        BY <1>1, <3>1 DEF Live, DrawsKept
      <3>3. c.kind = "draw" => c.arg < At(i).arg
        BY <1>1, <3>1 DEF Live, DrawsKept
      <3>4. QED
        BY <2>1, <2>2, <3>2, <3>3
    <2>4. \A i, j \in Unrun' : i < j /\ At(i).kind = "draw" /\ At(j).kind = "draw" => At(i).arg < At(j).arg
      BY <1>1 DEF Live, DrawsKept
    <2>5. drawsDone' <= w.drawHead
      BY <2>1, <2>2 DEF Live, DrawsKept
    <2>6. w' = w /\ draws' = draws
      BY DEF Ran
    <2>7. QED
      BY <1>1, <2>3, <2>4, <2>5, <2>6 DEF Live, DrawsKept
  <1>4. Pending'
    <2>1. w' = w /\ rissued' = rissued /\ head' = head
      BY DEF Ran
    <2>2. QED
      BY <1>1, <2>1 DEF Live, Pending, IsWrite
  <1>5. Versions' /\ ReadReady' /\ Frames'
    BY RanVersions, RanFrames
  <1>6. QED
    BY <1>2, <1>3, <1>4, <1>5 DEF Live
\* BeginFrame returns once nothing is lent.
LEMMA BeginFrameLive ==
  ASSUME Control, Live, RQ!BeginFrame, ~stopping
  PROVE  Live'
  <1>1. /\ r.pc = "begin" /\ r'.pc = "done" /\ r'.tail = r.tail /\ r'.slotIdx = r.slotIdx
        /\ UNCHANGED <<done, drawsDone, rsubmitted, RQ!notRender>> /\ RQ!Released
    BY DEF RQ!BeginFrame, RQ!GoTo, Control, Shapes
  <1>2. psrc = RQ!None
    BY <1>1 DEF RQ!Released, Control, LauncherAt
  <1>3. PICK t, c : t = r.tail /\ c = At(t)
    OBVIOUS
  <1>4. c.kind = "begin"
    BY <1>1, <1>3 DEF Live, Ring
  <1>5. Ran /\ RanMemory(c)
    BY <1>1, <1>4 DEF Ran, RanMemory, IsWrite
  <1>6. Loan'
    BY <1>1, KeepsLoan DEF Live
  <1>7. QED
    BY <1>1, <1>2, <1>3, <1>4, <1>5, <1>6, RanLive

\* An "end" runs when nothing is lent: the slot it lends is the one the next frame
\* goes to, and the GPU has the other.
LEMMA EndLoan ==
  ASSUME Control, Live, RQ!Exec, RQ!ExecEnd
  PROVE  Loan'
  <1> DEFINE s == r.slotIdx
  <1>1. s \in RQ!Slots /\ r'.slotIdx = 1 - s /\ 1 - s \in RQ!Slots /\ 1 - (1 - s) = s
    BY ExecRender DEF RQ!ExecEnd, Control, SlotsTyped, RQ!Slots
  <1>2. psrc = RQ!None
    <2>1. r.tail \in Unrun /\ ~\E j \in Unrun : j < r.tail
      <3>1. First = r.tail /\ r.tail \in Nat /\ head \in Nat /\ r.tail < head
        BY ExecRender DEF Control, Counters
      <3>2. QED
        BY <3>1 DEF Unrun
    <2>2. At(r.tail).kind = "end"
      BY DEF RQ!ExecEnd, RQ!Current, At
    <2>3. QED
      BY <2>1, <2>2 DEF Live, Frames
  <1>3. /\ rsubmitted' = (rsubmitted \cup {s}) \ {1 - s}
        /\ UNCHANGED RQ!pvars \/ \E what \in {1 - s, RQ!Owned} : RQ!Present(what, stopping)
    BY DEF RQ!ExecEnd
  <1>4. showing' = showing /\ (psrc' = RQ!None \/ psrc' = 1 - s)
    <2>1. CASE UNCHANGED RQ!pvars
      BY <1>2, <2>1
    <2>2. ASSUME NEW what \in {1 - s, RQ!Owned}, RQ!Present(what, stopping)
          PROVE  showing' = showing /\ (psrc' = RQ!None \/ psrc' = 1 - s)
      BY <1>2, <2>2 DEF RQ!Present
    <2>3. QED
      BY <1>3, <2>1, <2>2
  <1>5. showing \notin RQ!Slots
    BY <1>2 DEF Live, Loan, RQ!None, RQ!Slots
  <1>6. rsubmitted \subseteq {1 - s}
    BY DEF Live, Loan
  <1> HIDE DEF s
  <1>7. rsubmitted' \subseteq {s}
    BY <1>3, <1>6
  <1>8. QED
    BY <1>1, <1>4, <1>5, <1>7 DEF Loan

LEMMA ExecLive ==
  ASSUME Control, Live, RQ!Exec
  PROVE  Live'
  <1>1. PICK t, c : t = r.tail /\ c = At(t)
    OBVIOUS
  <1>2. c = RQ!Current
    BY <1>1 DEF RQ!Current, At
  <1>3. Ran
    BY ExecRender DEF Ran
  <1>4. CASE RQ!ExecEnd
    <2>1. c.kind = "end" /\ drawsDone' = drawsDone /\ rmem' = rmem /\ dirty' = dirty
      BY <1>2, <1>4 DEF RQ!ExecEnd
    <2>2. RanMemory(c)
      BY <2>1 DEF RanMemory, IsWrite
    <2>3. QED
      BY <1>1, <1>3, <1>4, <2>1, <2>2, EndLoan, RanLive
  <1>5. CASE RQ!ExecDraw
    <2>1. c.kind = "draw" /\ drawsDone' = drawsDone + 1 /\ UNCHANGED <<RQ!pvars, rsubmitted, rmem, dirty>>
      BY <1>2, <1>5 DEF RQ!ExecDraw
    <2>2. RanMemory(c)
      BY <2>1 DEF RanMemory, IsWrite
    <2>3. Loan'
      BY <1>2, <2>1, ExecRender, KeepsLoan DEF Live
    <2>4. QED
      BY <1>1, <1>3, <2>1, <2>2, <2>3, RanLive
  <1>6. CASE RQ!ExecCall
    <2>1. IsWrite(c) /\ UNCHANGED <<RQ!pvars, drawsDone, rsubmitted>> /\ RanMemory(c)
      BY <1>2, <1>6 DEF RQ!ExecCall, RanMemory, IsWrite
    <2>2. c.kind \notin {"end", "begin", "draw"}
      BY <2>1 DEF IsWrite
    <2>3. Loan'
      BY <1>2, <2>1, <2>2, ExecRender, KeepsLoan DEF Live
    <2>4. QED
      BY <1>1, <1>3, <2>1, <2>2, <2>3, RanLive
  <1>7. QED
    BY <1>4, <1>5, <1>6 DEF RQ!Exec, RQ!RunCommand

\* done_ counts the command.
LEMMA DoneLive ==
  ASSUME Control, Live, RQ!Done, RQ!RingAssumption
  PROVE  Live'
  <1>1. /\ r.pc = "done" /\ r'.pc = "top" /\ r'.tail = r.tail + 1 /\ r'.slotIdx = r.slotIdx
        /\ done' = r.tail + 1 /\ UNCHANGED <<drawsDone, rsubmitted, RQ!notRender>>
    BY DEF RQ!Done, Control, Shapes
  <1>2. r.tail \in Nat /\ head \in Nat /\ r.tail < head /\ done = r.tail
    BY <1>1 DEF Control, Counters
  <1>3. First' = First
    BY <1>1 DEF First
  <1>4. Unrun' = Unrun /\ (\A i : At(i)' = At(i)) /\ r.tail + 1 .. head - 1 \subseteq r.tail .. head - 1
    BY <1>1, <1>2, <1>3 DEF Unrun, At
  <1>5. \A a : Writes(a)' = Writes(a)
    BY <1>4 DEF Writes, IsWrite
  <1>6. Ring'
    BY <1>1, <1>2, <1>4 DEF Live, Ring, RQ!RingAssumption
  <1>7. DrawsKept' /\ EndsPaced'
    BY <1>1, <1>4 DEF Live, DrawsKept, EndsPaced
  <1>8. Drained'
    BY <1>1, <1>2 DEF Live, Drained
  <1>9. Pending'
    BY <1>1, <1>4 DEF Live, Pending, IsWrite
  <1>10. Versions'
    <2>1. \A a : LastIssued(a) => LastIssued(a)'
      BY <1>1, <1>4, <1>5 DEF LastIssued
    <2>2. QED
      BY <1>1, <2>1 DEF Live, Versions, ToWrite
  <1>11. ReadReady' /\ Loan'
    BY <1>1, <1>5, KeepsLoan DEF Live, ReadReady
  <1>12. Frames'
    <2>1. Open => Open'
      BY <1>1, <1>4 DEF Open
    <2>2. QED
      BY <1>1, <1>4, <2>1 DEF Live, Frames
  <1>13. QED
    BY <1>6, <1>7, <1>8, <1>9, <1>10, <1>11, <1>12 DEF Live

\* The presenter takes a frame, gives a loan back or leaves.
LEMMA ShowLive ==
  ASSUME Control, Live, RQ!ShowStep
  PROVE  Live'
  <1>1. UNCHANGED <<RQ!notLauncher, RQ!lvars>>
    BY DEF RQ!ShowStep
  <1>2. psrc' = psrc \/ psrc' = RQ!None
    BY DEF RQ!ShowStep, RQ!PresenterStep, RQ!Take, RQ!Shown, RQ!Leave
  <1>3. QueueSame
    BY <1>1 DEF QueueSame, First
  <1>4. Ring' /\ DrawsKept' /\ EndsPaced' /\ Pending' /\ Versions' /\ Frames'
    BY <1>1, <1>2, <1>3, KeepsRing, KeepsDraws, KeepsEnds, KeepsPending, KeepsVersions, KeepsFrames DEF Live
  <1>5. Drained'
    BY <1>1 DEF Live, Drained
  <1>6. ReadReady'
    BY <1>1, <1>3, SameQueue DEF Live, ReadReady
  <1>7. Loan'
    <2>1. r' = r /\ rsubmitted' = rsubmitted /\ RQ!PTypeOK
      BY <1>1 DEF Control, SlotsTyped
    <2>2. CASE RQ!Take
      BY <2>1, <2>2 DEF RQ!Take, Live, Loan, RQ!None, RQ!Owned, RQ!Slots
    <2>3. CASE RQ!Shown
      BY <2>1, <2>3 DEF RQ!Shown, Live, Loan, RQ!None, RQ!Owned, RQ!Slots
    <2>4. CASE RQ!Leave
      BY <2>1, <2>4 DEF RQ!Leave, Live, Loan
    <2>5. QED
      BY <2>2, <2>3, <2>4 DEF RQ!ShowStep, RQ!PresenterStep
  <1>8. QED
    BY <1>4, <1>5, <1>6, <1>7 DEF Live
-----------------------------------------------------------------------------
(* The beginning of a session.                                              *)

\* An empty queue with nothing written and nothing lent.
LEMMA FreshLive ==
  ASSUME RQ!RingAssumption, Control, head = 0, drawsDone = 0, w.pc = "idle", w.next = "idle", r.pc = "off",
         w.frameActive = FALSE, rmem = RQ!Unwritten, dirty = RQ!Unwritten, rissued = RQ!Unwritten, rsubmitted = {},
         psrc = RQ!None, showing = RQ!None
  PROVE  Live
  <1>1. /\ w.todo = <<>> /\ r.tail = 0 /\ Commands \in Nat /\ w.drawHead \in Nat /\ First = 0
    BY DEF Control, WalkAt, Counters, RQ!RingAssumption, First
  <1>2. Unrun = {} /\ r.tail .. head - 1 = {} /\ DOMAIN w.todo = {}
    BY <1>1 DEF Unrun
  <1>3. \A a : Writes(a) = {} /\ ~ToWrite(a)
    BY <1>2 DEF Writes, ToWrite
  <1>4. Ring /\ EndsPaced /\ Drained /\ ReadReady
    BY <1>1, <1>2 DEF Ring, EndsPaced, Drained, ReadReady
  <1>5. DrawsKept /\ Pending
    BY <1>1, <1>2 DEF DrawsKept, Pending
  <1>6. Versions
    BY <1>3 DEF Versions, LastIssued, RQ!Unwritten
  <1>7. Loan /\ Frames
    BY <1>1, <1>2 DEF Loan, Frames, RQ!Slots, RQ!None
  <1>8. QED
    BY <1>4, <1>5, <1>6, <1>7 DEF Live

LEMMA SessionResetLive ==
  ASSUME RQ!RingAssumption, Control, RQ!SessionReset
  PROVE  Live'
  <1>1. Control'
    BY SessionResetCtl
  <1>2. /\ w'.pc = "idle" /\ w'.next = w.next /\ w'.frameActive = FALSE /\ r'.pc = r.pc
        /\ lpc = "reset" /\ head' = head /\ drawsDone' = drawsDone /\ rsubmitted' = {}
        /\ rmem' = RQ!Unwritten /\ dirty' = RQ!Unwritten /\ rissued' = RQ!Unwritten /\ psrc' = RQ!None /\ showing' = RQ!None
    BY DEF RQ!SessionReset, RQ!AtLauncher, Control, Shapes
  <1>3. r'.pc = "off" /\ head' = 0 /\ w'.pc = "idle"
    BY <1>2 DEF Control, LauncherAt, OffEmpty
  <1>4. w'.todo = <<>> /\ w'.next = "idle"
    BY <1>1, <1>2 DEF Control, WalkAt
  <1>5. /\ r'.tail = 0 /\ Commands \in Nat /\ w'.drawHead \in Nat /\ First' = 0 /\ drawsDone' = 0
    BY <1>1, <1>3 DEF Control, Counters, RQ!RingAssumption, First
  <1>6. Unrun' = {} /\ (r.tail .. head - 1)' = {} /\ DOMAIN w'.todo = {}
    BY <1>3, <1>4, <1>5 DEF Unrun
  <1>7. \A a : Writes(a)' = {} /\ ~ToWrite(a)'
    BY <1>6 DEF Writes, ToWrite
  <1>8. Ring' /\ EndsPaced' /\ Drained' /\ ReadReady'
    BY <1>3, <1>4, <1>5, <1>6 DEF Ring, EndsPaced, Drained, ReadReady
  <1>9. DrawsKept' /\ Pending'
    BY <1>5, <1>6 DEF DrawsKept, Pending
  <1>10. Versions'
    BY <1>2, <1>7 DEF Versions, LastIssued, RQ!Unwritten
  <1>11. Loan' /\ Frames'
    BY <1>2, <1>4, <1>6 DEF Loan, Frames, RQ!Slots, RQ!None
  <1>12. QED
    BY <1>8, <1>9, <1>10, <1>11 DEF Live

LEMMA InitHolds ==
  ASSUME RQ!RingAssumption, RQ!Init
  PROVE  IInv
  <1>1. /\ w.pc = "idle" /\ w.todo = <<>> /\ w.target = 0 /\ w.next = "idle" /\ w.addr = RQ!None
        /\ w.frameActive = FALSE /\ w.drawHead = 0 /\ w.lastEnd = 0 /\ w.pending = {}
        /\ r.pc = "off" /\ r.tail = 0 /\ r.slotIdx = 0
    BY DEF RQ!Init, RQ!NewWalk, RQ!NewRender
  <1>2. PICK b \in Budgets : \E cs : option = [cs |-> cs, push |-> b.push, writes |-> b.writes]
    BY DEF RQ!Init
  <1>3. option.push \in Nat
    BY <1>2 DEF RQ!RingAssumption
  <1>4. Shapes
    BY <1>1, <1>3 DEF RQ!Init, Shapes, RQ!NewWalk, RQ!NewRender, RQ!Unwritten
  <1>5. Todo /\ Counters /\ Budgeted /\ WalkAt /\ OffEmpty /\ LauncherAt
    <2>1. Len(<<>>) = 0
      BY Short
    <2>2. QED
      BY <1>1, <1>3, <2>1 DEF RQ!Init, RQ!PInit, Todo, Counters, First, Budgeted, WalkAt, OffEmpty, LauncherAt
  <1>6. SlotsTyped
    BY <1>1 DEF RQ!Init, RQ!PInit, SlotsTyped, RQ!PTypeOK, RQ!Slots
  <1>7. Control
    BY <1>4, <1>5, <1>6 DEF Control
  <1>8. Live
    BY <1>1, <1>7, FreshLive DEF RQ!Init, RQ!PInit
  <1>9. QED
    BY <1>7, <1>8 DEF IInv

-----------------------------------------------------------------------------
(* The invariant is inductive.                                              *)

LEMMA WalkHolds ==
  ASSUME RQ!RingAssumption, IInv, RQ!WalkBegin \/ RQ!WalkStep \/ RQ!WalkEnds
  PROVE  IInv'
  <1>1. Control
    BY DEF IInv
  <1>2. stopping' = stopping
    BY DEF RQ!WalkBegin, RQ!WalkStep, RQ!WalkEnds, RQ!Start, RQ!BeginDraw, RQ!EndFrame, RQ!Dma, RQ!Dispatch, RQ!Read, RQ!NextDraw, RQ!Push,
       RQ!WakeLock, RQ!WakeNotify, RQ!WaitDone, RQ!RunDispatch, RQ!CsRangeMaybeDirty, RQ!FlushCsWrites, RQ!See
  <1>3. CASE stopping
    <2>1. CASE RQ!WalkEnds
      BY <1>1, <1>2, <1>3, <2>1, WalkEndsCtl DEF IInv
    <2>2. CASE RQ!WalkBegin
      BY <1>1, <1>2, <1>3, <2>2, StartCtl, BeginDrawCtl, EndFrameCtl, DmaCtl, DispatchCtl, ReadCtl
         DEF IInv, RQ!WalkBegin
    <2>3. CASE RQ!WalkStep
      BY <1>1, <1>2, <1>3, <2>3, NextDrawCtl, PushCtl, WakeLockCtl, WakeNotifyCtl, WaitDoneCtl,
         RunDispatchCtl, DirtyCtl, FlushCtl, SeeCtl DEF IInv, RQ!WalkStep
    <2>4. QED
      BY <2>1, <2>2, <2>3
  <1>4. CASE ~stopping
    <2>1. Live
      BY <1>4 DEF IInv
    <2>2. CASE RQ!WalkEnds
      BY <1>4, <2>2 DEF RQ!WalkEnds
    <2>3. CASE RQ!Start
      BY <1>1, <2>1, <2>3, StartCtl, StartLive DEF IInv
    <2>4. CASE RQ!BeginDraw
      BY <1>1, <2>1, <2>4, BeginDrawCtl, BeginDrawLive DEF IInv
    <2>5. CASE RQ!EndFrame
      BY <1>1, <2>1, <2>5, EndFrameCtl, EndFrameLive DEF IInv
    <2>6. CASE \E a \in Addrs : RQ!Dma(a) \/ RQ!Dispatch(a) \/ RQ!Read(a)
      BY <1>1, <2>1, <2>6, DmaCtl, DmaLive, DispatchCtl, DispatchLive, ReadCtl, ReadLive DEF IInv
    <2>7. CASE RQ!NextDraw
      BY <1>1, <1>4, <2>1, <2>7, NextDrawCtl, NextDrawLive DEF IInv
    <2>8. CASE RQ!Push
      BY <1>1, <1>4, <2>1, <2>8, PushCtl, PushLive DEF IInv
    <2>9. CASE RQ!WakeLock
      BY <1>1, <2>1, <2>9, WakeLockCtl, WakeLockLive DEF IInv
    <2>10. CASE RQ!WakeNotify
      BY <1>1, <2>1, <2>10, WakeNotifyCtl, WakeNotifyLive DEF IInv
    <2>11. CASE RQ!WaitDone
      BY <1>1, <1>4, <2>1, <2>11, WaitDoneCtl, WaitDoneLive DEF IInv
    <2>12. CASE RQ!RunDispatch
      BY <1>1, <2>1, <2>12, RunDispatchCtl, RunDispatchLive DEF IInv
    <2>13. CASE RQ!CsRangeMaybeDirty
      BY <1>1, <2>1, <2>13, DirtyCtl, DirtyLive DEF IInv
    <2>14. CASE RQ!FlushCsWrites
      BY <1>1, <2>1, <2>14, FlushCtl, FlushLive DEF IInv
    <2>15. CASE RQ!See
      BY <1>1, <2>1, <2>15, SeeCtl, SeeLive DEF IInv
    <2>16. QED
      BY <2>2, <2>3, <2>4, <2>5, <2>6, <2>7, <2>8, <2>9, <2>10, <2>11, <2>12, <2>13, <2>14, <2>15
         DEF RQ!WalkBegin, RQ!WalkStep
  <1>5. QED
    BY <1>3, <1>4

LEMMA RenderHolds ==
  ASSUME RQ!RingAssumption, IInv, RQ!RenderStep
  PROVE  IInv'
  <1>1. Control
    BY DEF IInv
  <1>2. stopping' = stopping
    BY DEF RQ!RenderStep, RQ!Top, RQ!Look, RQ!Sleep, RQ!CallBegin, RQ!BeginFrame, RQ!GoTo, RQ!Exec, RQ!Done
  <1>3. Control'
    BY <1>1, TopCtl, LookCtl, SleepCtl, CallBeginCtl, BeginFrameCtl, ExecCtl, DoneCtl DEF RQ!RenderStep
  <1>4. ASSUME ~stopping PROVE Live'
    <2>1. Live
      BY <1>4 DEF IInv
    <2>2. CASE RQ!Top
      <3>1. PICK pc \in {"look", "exec"} : RQ!GoTo(pc)
        BY <2>2 DEF RQ!Top
      <3>2. r.pc = "top"
        BY <2>2 DEF RQ!Top
      <3>3. QED
        BY <1>1, <2>1, <3>1, <3>2, GoToLive
    <2>3. CASE RQ!Look
      <3>1. PICK pc \in {"exec", "gone", "presleep"} : RQ!GoTo(pc)
        BY <2>3 DEF RQ!Look
      <3>2. r.pc = "look"
        BY <2>3 DEF RQ!Look
      <3>3. QED
        BY <1>1, <2>1, <3>1, <3>2, GoToLive
    <2>4. CASE RQ!Sleep
      BY <1>1, <2>1, <2>4, GoToLive DEF RQ!Sleep
    <2>5. CASE RQ!CallBegin
      BY <1>1, <2>1, <2>5, GoToLive DEF RQ!CallBegin, RQ!Current, At
    <2>6. CASE RQ!BeginFrame
      BY <1>1, <1>4, <2>1, <2>6, BeginFrameLive
    <2>7. CASE RQ!Exec
      BY <1>1, <2>1, <2>7, ExecLive
    <2>8. CASE RQ!Done
      BY <1>1, <2>1, <2>8, DoneLive
    <2>9. QED
      BY <2>2, <2>3, <2>4, <2>5, <2>6, <2>7, <2>8 DEF RQ!RenderStep
  <1>5. QED
    BY <1>2, <1>3, <1>4 DEF IInv

LEMMA StopHolds ==
  ASSUME RQ!RingAssumption, IInv, RQ!RequestStop \/ RQ!LauncherStep
  PROVE  IInv'
  <1>1. Control
    BY DEF IInv
  <1>2. CASE RQ!SessionReset
    BY <1>1, <1>2, SessionResetCtl, SessionResetLive DEF IInv
  <1>3. CASE RQ!RequestStop
    <2>1. stopping' = TRUE
      BY <1>3 DEF RQ!RequestStop
    <2>2. QED
      BY <1>1, <1>3, <2>1, StopCtl DEF IInv
  <1>4. CASE RQ!StopPresent \/ RQ!JoinPresenter \/ RQ!JoinThreads \/ RQ!StopWakeLock \/ RQ!StopWakeNotify \/ RQ!JoinRender
    <2>1. stopping' = stopping /\ lpc # "run"
      BY <1>4 DEF RQ!StopPresent, RQ!JoinPresenter, RQ!JoinThreads, RQ!StopWakeLock, RQ!StopWakeNotify, RQ!JoinRender, RQ!AtLauncher
    <2>2. stopping'
      BY <1>1, <2>1 DEF Control, LauncherAt
    <2>3. Control'
      BY <1>1, <1>4, StopPresentCtl, JoinPresenterCtl, JoinThreadsCtl, StopWakeLockCtl, StopWakeNotifyCtl,
         JoinRenderCtl
    <2>4. QED
      BY <2>2, <2>3 DEF IInv
  <1>5. QED
    BY <1>2, <1>3, <1>4 DEF RQ!LauncherStep

LEMMA StutterHolds ==
  ASSUME IInv, UNCHANGED RQ!vars
  PROVE  IInv'
  <1>1. /\ w' = w /\ r' = r /\ head' = head /\ cmds' = cmds /\ draws' = draws /\ done' = done
        /\ drawsDone' = drawsDone /\ rsubmitted' = rsubmitted /\ rmem' = rmem /\ dirty' = dirty
        /\ rissued' = rissued /\ option' = option /\ qstop' = qstop /\ stopping' = stopping /\ lpc' = lpc
        /\ UNCHANGED RQ!pvars
    BY DEF RQ!vars
  <1>2. Control => Control'
    BY <1>1 DEF Control, Shapes, Todo, Counters, Budgeted, WalkAt, OffEmpty, LauncherAt, SlotsTyped, RQ!PTypeOK,
       First
  <1>3. Live => Live'
    <2>1. Still
      BY <1>1 DEF Still, QueueSame, First
    <2>2. QED
      BY <1>1, <2>1, RenderMoves
  <1>4. QED
    BY <1>1, <1>2, <1>3 DEF IInv

LEMMA StepHolds ==
  ASSUME RQ!RingAssumption, IInv, [RQ!Next]_(RQ!vars)
  PROVE  IInv'
  <1>1. CASE RQ!ShowStep
    <2>1. stopping' = stopping
      BY <1>1 DEF RQ!ShowStep
    <2>2. QED
      BY <1>1, <2>1, ShowCtl, ShowLive DEF IInv
  <1>2. QED
    BY <1>1, WalkHolds, RenderHolds, StopHolds, StutterHolds DEF RQ!Next
-----------------------------------------------------------------------------
(* What the invariant says.                                                 *)

LEMMA TypeFollows ==
  ASSUME Control
  PROVE  RQ!TypeOK
  <1>1. Len(w.todo) <= 2 /\ \A i \in DOMAIN w.todo : w.todo[i].kind \in RQ!Kinds
    <2>1. CASE w.todo = <<>>
      BY <2>1
    <2>2. ASSUME NEW c, w.todo = <<c>>, c.kind \in RQ!Kinds
          PROVE  Len(w.todo) <= 2 /\ \A i \in DOMAIN w.todo : w.todo[i].kind \in RQ!Kinds
      BY <2>2, Short
    <2>3. ASSUME NEW c, NEW d, w.todo = <<c, d>>, c.kind \in RQ!Kinds, d.kind \in RQ!Kinds
          PROVE  Len(w.todo) <= 2 /\ \A i \in DOMAIN w.todo : w.todo[i].kind \in RQ!Kinds
      BY <2>3, Short
    <2>4. \A k, a, v : RQ!NewCmd(k, a, v).kind = k
      BY DEF RQ!NewCmd
    <2>5. Todo
      BY DEF Control
    <2>6. QED
      BY <2>1, <2>2, <2>3, <2>4, <2>5 DEF Todo, RQ!Kinds
  <1>2. head <= option.push
    <2>1. Len(w.todo) \in Nat
      <3>1. ASSUME NEW c PROVE Len(<<c>>) \in Nat /\ Len(<<>>) \in Nat
        BY Short
      <3>2. ASSUME NEW c, NEW d PROVE Len(<<c, d>>) \in Nat
        BY Short
      <3>3. QED
        BY <3>1, <3>2 DEF Control, Todo
    <2>2. \A n \in Nat : head + n <= option.push => head <= option.push
      BY DEF Control, Counters, Shapes
    <2>3. QED
      BY <2>1, <2>2 DEF Control, Budgeted
  <1>3. /\ w.target <= head /\ w.lastEnd <= head /\ w.drawHead <= head
        /\ r.tail <= head /\ done <= r.tail + 1 /\ drawsDone <= head
        /\ \A p \in w.pending : p.command <= head /\ p.addr \in Addrs
    BY DEF Control, Counters, First
  <1>4. QED
    BY <1>1, <1>2, <1>3 DEF RQ!TypeOK, Control, WalkAt, LauncherAt, SlotsTyped

\* The command at tail_ is in its place, and its draw slot is its own.
LEMMA OrderFollows ==
  ASSUME IInv
  PROVE  RQ!RunsInOrder
  <1>1. SUFFICES ASSUME r.pc \in {"exec", "begin"}, ~stopping
                 PROVE  /\ RQ!Current.n = r.tail
                        /\ RQ!Current.kind = "draw" => draws[RQ!Current.arg % DrawSlots] = RQ!Current.arg + 1
    BY DEF RQ!RunsInOrder
  <1>2. Control /\ Live
    BY <1>1 DEF IInv
  <1>3. r.tail \in Nat /\ head \in Nat /\ r.tail < head /\ First = r.tail
    BY <1>1, <1>2 DEF Control, Counters, First
  <1>4. r.tail \in r.tail .. head - 1 /\ r.tail \in Unrun
    BY <1>3 DEF Unrun
  <1>5. QED
    BY <1>2, <1>4 DEF Live, Ring, DrawsKept, RQ!Current, At

\* Between packets only the last "end" can be left to run.
LEMMA AheadFollows ==
  ASSUME IInv
  PROVE  RQ!FrameAhead
  <1> DEFINE S == {i \in done..(head - 1) : cmds[i % Commands].kind = "end"}
  <1>1. SUFFICES ASSUME w.pc = "idle", ~stopping PROVE Cardinality(S) <= 1
    BY DEF RQ!FrameAhead, Cardinality, RQ!Cardinality
  <1>2. Control /\ Live
    BY <1>1 DEF IInv
  <1>3. w.target = 0 /\ w.lastEnd \in Nat /\ done = r.tail /\ done \in Nat /\ head \in Nat
    BY <1>1, <1>2 DEF Control, WalkAt, Counters
  <1>4. S \subseteq {w.lastEnd - 1}
    <2>1. SUFFICES ASSUME NEW i \in S PROVE i = w.lastEnd - 1
      OBVIOUS
    <2>2. i \in r.tail .. head - 1 /\ At(i).kind = "end" /\ i \in Nat
      BY <1>3, <2>1 DEF At
    <2>3. i + 1 = w.lastEnd
      BY <1>2, <1>3, <2>2 DEF Live, EndsPaced
    <2>4. QED
      BY <1>3, <2>2, <2>3
  <1> HIDE DEF S
  <1>5. IsFiniteSet({w.lastEnd - 1}) /\ Cardinality({w.lastEnd - 1}) = 1
    BY FS_Singleton
  <1>6. QED
    BY <1>4, <1>5, FS_Subset

\* After a Drain nothing is left to run, and the render thread is between commands.
LEMMA OwnFollows ==
  ASSUME IInv
  PROVE  RQ!OwnExclusive
  <1>1. SUFFICES ASSUME ~stopping, w.pc \in {"dispatch", "flush"}
                 PROVE  r.pc \notin {"exec", "begin", "done"} /\ done = head
    BY DEF RQ!OwnExclusive, RQ!OwnsRenderer
  <1>2. Control /\ Live
    BY <1>1 DEF IInv
  <1>3. done = head
    BY <1>1, <1>2 DEF Live, Drained
  <1>4. QED
    BY <1>2, <1>3 DEF Control, Counters

LEMMA CurrentFollows ==
  ASSUME IInv
  PROVE  RQ!ReadsCurrent
  <1>1. SUFFICES ASSUME w.pc = "see", ~stopping PROVE rmem[w.addr] = rissued[w.addr] /\ dirty[w.addr] = 0
    BY DEF RQ!ReadsCurrent
  <1>2. Control /\ Live
    BY <1>1 DEF IInv
  <1>3. w.todo = <<>> /\ w.addr \in Addrs /\ Writes(w.addr) = {} /\ dirty[w.addr] = 0
    BY <1>1, <1>2 DEF Control, WalkAt, Live, ReadReady
  <1>4. LastIssued(w.addr)
    BY <1>2, <1>3 DEF Live, Versions, ToWrite
  <1>5. QED
    BY <1>3, <1>4 DEF LastIssued

LEMMA LoanFollows ==
  ASSUME IInv
  PROVE  RQ!BorrowSafe
  <1>1. SUFFICES ASSUME ~stopping PROVE showing \notin rsubmitted /\ psrc \notin rsubmitted
    BY DEF RQ!BorrowSafe
  <1>2. Control /\ Live
    BY <1>1 DEF IInv
  <1>3. r.slotIdx \in RQ!Slots /\ rsubmitted \subseteq RQ!Slots
    BY <1>2 DEF Control, SlotsTyped
  <1>4. r.slotIdx \notin rsubmitted
    BY <1>2, <1>3 DEF Live, Loan, RQ!Slots
  <1>5. psrc \notin rsubmitted
    <2>1. psrc = RQ!None \/ psrc = r.slotIdx
      BY <1>2 DEF Live, Loan
    <2>2. RQ!None \notin RQ!Slots
      BY DEF RQ!None, RQ!Slots
    <2>3. QED
      BY <1>3, <1>4, <2>1, <2>2
  <1>6. showing \notin rsubmitted
    <2>1. showing \in RQ!Slots => showing = psrc
      BY <1>2 DEF Live, Loan
    <2>2. QED
      BY <1>3, <1>5, <2>1
  <1>7. QED
    BY <1>5, <1>6

LEMMA Always ==
  RQ!Spec => []IInv
  <1>1. RQ!Init => IInv
    BY RenderAssumption, InitHolds
  <1>2. IInv /\ [RQ!Next]_(RQ!vars) => IInv'
    BY RenderAssumption, StepHolds
  <1>3. QED
    BY <1>1, <1>2, PTL DEF RQ!Spec

\* In a PS4 session of Gpu every step is one of the queue's.
LEMMA AlwaysOnPs4 ==
  AllSpec => [](console = "ps4" => IInv)
  <1> DEFINE I == console = "ps4" => IInv
  <1>1. AllInit => I
    BY RenderAssumption, InitHolds DEF AllInit
  <1>2. I /\ [AllNext]_allVars => I'
    <2>1. SUFFICES ASSUME I, [AllNext]_allVars, console' = "ps4" PROVE IInv'
      OBVIOUS
    <2>2. console = "ps4" /\ [RQ!Next]_(RQ!vars)
      <3>1. CASE AllNext
        BY <2>1, <3>1 DEF AllNext, InLabels, InRender
      <3>2. CASE UNCHANGED allVars
        BY <2>1, <3>2 DEF allVars, renderOnly, RQ!vars, RQ!pvars, RQ!qvars, RQ!rvars, RQ!mvars, RQ!lvars
      <3>3. QED
        BY <2>1, <3>1, <3>2
    <2>3. QED
      BY <2>1, <2>2, RenderAssumption, StepHolds
  <1>3. QED
    BY <1>1, <1>2, PTL DEF AllSpec

LEMMA RingFollows ==
  IInv => RQ!RingInv
  BY TypeFollows, OrderFollows, AheadFollows, OwnFollows DEF RQ!RingInv, IInv

\* RingInv: commands run in the order they were pushed, from ring and draw slots
\* nobody has overwritten; between packets at most one ended frame has not run;
\* a walk that has drained the queue has the renderer to itself.
THEOREM RingSafe ==
  /\ RQ!Spec => []RQ!RingInv
  /\ AllSpec => []RingInv
  <1>1. (console = "ps4" => IInv) => RingInv
    BY RingFollows DEF RingInv
  <1>2. QED
    BY <1>1, Always, AlwaysOnPs4, RingFollows, PTL

\* ReadsCurrent: what FlushForWalkRead lets the walk read is what the last write it
\* walked past made, wherever that write was.
THEOREM ReadsAreCurrent ==
  /\ RQ!Spec => []RQ!ReadsCurrent
  /\ AllSpec => []ReadsCurrent
  <1>1. (console = "ps4" => IInv) => ReadsCurrent
    BY CurrentFollows DEF ReadsCurrent
  <1>2. QED
    BY <1>1, Always, AlwaysOnPs4, CurrentFollows, PTL

\* BorrowSafe: the GPU leaves the readback buffer that is lent alone.
THEOREM LoanSafe ==
  /\ RQ!Spec => []RQ!BorrowSafe
  /\ AllSpec => []BorrowSafe
  <1>1. (console = "ps4" => IInv) => BorrowSafe
    BY LoanFollows DEF BorrowSafe
  <1>2. QED
    BY <1>1, Always, AlwaysOnPs4, LoanFollows, PTL
=============================================================================
