----------------------------- MODULE AgcLabels -----------------------------
(***************************************************************************)
(* Completion labels of the PS5 command processor: PublishLabel and its    *)
(* publishing thread (src/delta/gpu/ps5/label_publisher.cc), and the waits *)
(* of the command queues on them (src/delta/gpu/ps5/cmd_processor.cc).     *)
(*                                                                         *)
(* A label announces bytes the GPU writes; while a batch that writes guest *)
(* memory is not done the label is held, and the publishing thread writes  *)
(* it later.  Walks of command buffers run one at a time under g_mutex:    *)
(* the graphics queue (Gfx) waits for a label inside its walk, briefly and *)
(* with g_mutex released; a ring queue leaves its walk at the wait, parked *)
(* and is walked again from there by the doorbell poller.  The title's CPU *)
(* watches the labels too, and resets one it has seen.                     *)
(*                                                                         *)
(* A label is 0 or 1 and every wait is for 1.  With MaxWaits < 4 no label  *)
(* is given up for good (missed >= 3), and the end of a session is left    *)
(* out.  The batches, the GPU queue and WaitBatch are render/compute.cc's, *)
(* kept to what decides when a batch is submitted and done.                *)
(***************************************************************************)
EXTENDS Naturals, Sequences, FiniteSetsExt

CONSTANTS Labels,
          Rings,        \* the ring queues
          Gfx,          \* the graphics queue
          MaxBatch,     \* bound: compute batches
          MaxIssued,    \* bound: label writes issued
          MaxWaits      \* bound: waits met by the walks

Queues == Rings \cup {Gfx}
Idle == "idle"

ASSUME BoundsAssumption ==
  /\ MaxBatch \in Nat /\ MaxIssued \in Nat /\ MaxWaits \in Nat
  /\ Gfx \notin Rings /\ Idle \notin Queues

VARIABLES
  mem,        \* the labels in guest memory
  held,       \* g_held[g_head..], [batch, label, value, known, n, need]
  ppc,        \* the publishing thread: "wait", "batch", "write", "record", "pop"
  walker,     \* who holds g_mutex, Idle when nobody
  qpc,        \* where each queue's walk is; "out" and "parked" outside a submit
  at,         \* the label each queue waits for or writes
  value,      \* what a wait check read, or what an immediate write writes
  parked,     \* g_parked: "no", "waiting" or "hit" (the wait at[q] parked)
  open,       \* the open batch, 0 when none
  nbatch,     \* batches begun (g_cs_batch_next_id - 1)
  submitted,  \* g_last_submitted_id
  completed,  \* the GPU is past every batch up to this one
  gwrites,    \* batches in g_pending_guest_writes
  publish,    \* g_publish_batch
  issued,     \* label writes issued
  waits,      \* waits met
  landed,     \* label writes that reached guest memory
  need,       \* the batch whose bytes each queue's immediate write announces
  satisfied,  \* ghost: rings parked while a write made their wait true
  refused     \* ghost: rings whose check an unknown held write turned down

mvars == <<mem, landed, satisfied, refused>>
bvars == <<open, nbatch, submitted, completed, gwrites, publish>>
hvars == <<held, ppc, issued, waits>>
qvars == <<walker, qpc, at, value, parked, need>>
vars == <<mvars, bvars, hvars, qvars>>

Newest(S) == IF S = {} THEN 0 ELSE Max(S)

Init == /\ mem = [l \in Labels |-> 0] /\ landed = 0 /\ satisfied = {} /\ refused = {}
        /\ open = 0 /\ nbatch = 0 /\ submitted = 0 /\ completed = 0
        /\ gwrites = {} /\ publish = 0
        /\ held = <<>> /\ ppc = "wait" /\ issued = 0 /\ waits = 0
        /\ walker = Idle /\ qpc = [q \in Queues |-> "out"]
        /\ at \in [Queues -> Labels] /\ value = [q \in Queues |-> 0]
        /\ parked = [q \in Rings |-> "no"] /\ need = [q \in Queues |-> 0]

-----------------------------------------------------------------------------
(* Batches: render/compute.cc.                                              *)

Walking(q) == walker = q /\ qpc[q] = "walk"

\* A dispatch or a GDS copy recorded in the open batch, writing guest memory.
RecordWrite(q) ==
  /\ Walking(q)
  /\ open # 0 \/ nbatch < MaxBatch
  /\ nbatch' = IF open = 0 THEN nbatch + 1 ELSE nbatch
  /\ open' = IF open = 0 THEN nbatch + 1 ELSE open
  /\ gwrites' = gwrites \cup {open'}
  /\ UNCHANGED <<submitted, completed, publish, mvars, hvars, qvars>>

Submit(b) == submitted' = b /\ open' = 0

\* SubmitForPublishedLabels: only when a held label waits for the open batch.
SubmitForPublishedLabels ==
  /\ IF open # 0 /\ publish >= open THEN Submit(open) ELSE UNCHANGED <<submitted, open>>
  /\ UNCHANGED <<nbatch, completed, gwrites, publish>>

\* A batch submitted because it is full or something else reads it.
CsBatchSubmit(q) == /\ Walking(q) /\ open # 0
                    /\ Submit(open)
                    /\ UNCHANGED <<nbatch, completed, gwrites, publish, mvars, hvars, qvars>>

GpuDone == /\ completed < submitted
           /\ completed' = completed + 1
           /\ UNCHANGED <<open, nbatch, submitted, gwrites, publish, mvars, hvars, qvars>>

\* A finished batch is retired, with its entries of g_pending_guest_writes.
Retire(q) == /\ Walking(q) /\ \E b \in gwrites : b <= completed
             /\ gwrites' = {b \in gwrites : b > completed}
             /\ UNCHANGED <<open, nbatch, submitted, completed, publish, mvars, hvars, qvars>>

-----------------------------------------------------------------------------
(* Writing a label.                                                         *)

\* The store, and the ghosts: which parked waits it makes true.
Store(l, v) == /\ mem' = [mem EXCEPT ![l] = v]
               /\ landed' = landed + 1
               /\ satisfied' = satisfied \cup
                    {q \in Rings : v = 1 /\ parked[q] = "waiting" /\ at[q] = l}
               /\ UNCHANGED refused

\* Mutant of Record: only a queue that is already parked is marked.
Record_Stalled(l) ==
  parked' = [q \in Rings |-> IF qpc[q] = "parked" /\ parked[q] = "waiting" /\ at[q] = l /\ mem[l] = 1
                               THEN "hit" ELSE parked[q]]

\* RecordLabelWrite: under g_parked_lock, the label is read again for each wait
\* parked on it.
Record(l) == parked' = [q \in Rings |->
                 IF parked[q] = "waiting" /\ at[q] = l /\ mem[l] = 1 THEN "hit" ELSE parked[q]]

\* Mutant of MustHold: a label is not held behind the labels held before it.
MustHold_Point(point) == point # 0

MustHold(point) == point # 0 \/ held # <<>>

\* PublishLabel: held behind the GPU writes on their way and the labels held
\* before it; else written at once, by the walk, outside g_lock.
PublishLabel(q, l, v, known) ==
  LET point == Newest(gwrites)
      bytes == Newest({b \in gwrites : b > completed})
  IN  /\ Walking(q) /\ issued < MaxIssued
      /\ issued' = issued + 1
      /\ publish' = IF point > publish THEN point ELSE publish
      /\ IF MustHold(point)
           THEN /\ held' = Append(held, [batch |-> point, label |-> l, value |-> v,
                                         known |-> known, n |-> issued', need |-> bytes])
                /\ UNCHANGED <<qpc, at, value, need>>
           ELSE /\ qpc' = [qpc EXCEPT ![q] = "write"]
                /\ at' = [at EXCEPT ![q] = l] /\ value' = [value EXCEPT ![q] = v]
                /\ need' = [need EXCEPT ![q] = bytes]
                /\ UNCHANGED held
      /\ UNCHANGED <<ppc, waits, walker, parked, open, nbatch, submitted, completed, gwrites, mvars>>

WriteNow(q) == /\ qpc[q] = "write"
               /\ Store(at[q], value[q])
               /\ qpc' = [qpc EXCEPT ![q] = "record"]
               /\ UNCHANGED <<walker, at, value, parked, need, bvars, hvars>>

RecordNow(q) == /\ qpc[q] = "record"
                /\ Record(at[q])
                /\ qpc' = [qpc EXCEPT ![q] = "walk"]
                /\ UNCHANGED <<walker, at, value, need, mvars, bvars, hvars>>

\* Run: the publishing thread takes the first held write ...
PubTake == /\ ppc = "wait" /\ held # <<>>
           /\ ppc' = "batch"
           /\ UNCHANGED <<held, issued, waits, mvars, bvars, qvars>>

\* WaitBatch returns once the batch has been submitted and is done.
BatchDone(b) == completed >= b

PubWaitBatch == /\ ppc = "batch" /\ BatchDone(Head(held).batch)
                /\ ppc' = "write"
                /\ UNCHANGED <<held, issued, waits, mvars, bvars, qvars>>

PubWrite == /\ ppc = "write"
            /\ Store(Head(held).label, Head(held).value)
            /\ ppc' = "record"
            /\ UNCHANGED <<held, issued, waits, bvars, qvars>>

PubRecord == /\ ppc = "record"
             /\ Record(Head(held).label)
             /\ ppc' = "pop"
             /\ UNCHANGED <<held, issued, waits, walker, qpc, at, value, need, mvars, bvars>>

\* ... and counts it as run only after it has written it.
PubPop == /\ ppc = "pop"
          /\ held' = Tail(held)
          /\ ppc' = "wait"
          /\ UNCHANGED <<issued, waits, mvars, bvars, qvars>>
-----------------------------------------------------------------------------
(* Waiting for a label: waitOnAddress.                                      *)

\* Where the held writes over a label are in the queue.
HeldOver(l) == {i \in DOMAIN held : held[i].label = l}
Unknown(l) == \E i \in HeldOver(l) : ~held[i].known

\* A walk meets a wait.  A ring queue is parked before the check, so that a
\* write landing in between is not lost.
MeetWait(q, l) ==
  /\ Walking(q) /\ waits < MaxWaits
  /\ waits' = waits + 1
  /\ qpc' = [qpc EXCEPT ![q] = "check"] /\ at' = [at EXCEPT ![q] = l]
  /\ parked' = IF q \in Rings THEN [parked EXCEPT ![q] = "waiting"] ELSE parked
  /\ UNCHANGED <<walker, value, need, held, ppc, issued, mvars, bvars>>

\* WaitSatisfied reads the label ...
Check(q) == /\ qpc[q] = "check"
            /\ value' = [value EXCEPT ![q] = mem[at[q]]]
            /\ qpc' = [qpc EXCEPT ![q] = "overlay"]
            /\ UNCHANGED <<walker, at, parked, need, mvars, bvars, hvars>>

\* Mutant of LabelPending: the open batch is not submitted.
LabelPending_Quiet(l) == UNCHANGED bvars

\* LabelPending: a held write over the label; its batch may be the open one.
LabelPending(l) == IF HeldOver(l) # {} THEN SubmitForPublishedLabels ELSE UNCHANGED bvars

Satisfied(q) == /\ ~Unknown(at[q])
                /\ 1 = IF HeldOver(at[q]) = {} THEN value[q]
                       ELSE held[Newest(HeldOver(at[q]))].value

Pass(q) == /\ qpc' = [qpc EXCEPT ![q] = "walk"] /\ value' = [value EXCEPT ![q] = 0]
           /\ parked' = IF q \in Rings THEN [parked EXCEPT ![q] = "no"] ELSE parked
           /\ satisfied' = satisfied \ {q} /\ refused' = refused \ {q}

\* ... and lays the held writes over it (OverlayHeld).
CheckPasses(q) == /\ qpc[q] = "overlay" /\ Satisfied(q)
                  /\ Pass(q)
                  /\ UNCHANGED <<walker, at, need, mem, landed, bvars, hvars>>

\* A ring walk ends here, with its batch submitted if a held label needs it.
RingParks(q) == /\ q \in Rings /\ qpc[q] = "overlay" /\ ~Satisfied(q)
                /\ SubmitForPublishedLabels
                /\ qpc' = [qpc EXCEPT ![q] = "parked"] /\ value' = [value EXCEPT ![q] = 0]
                /\ walker' = Idle
                /\ refused' = IF Unknown(at[q]) THEN refused \cup {q} ELSE refused \ {q}
                /\ UNCHANGED <<at, parked, need, mem, landed, satisfied, hvars>>

\* The poller submits the ring again: a wait that was hit is over, another is
\* checked once more.
Poll(q) == /\ qpc[q] = "parked" /\ walker = Idle
           /\ walker' = q
           /\ IF parked[q] = "hit"
                THEN Pass(q)
                ELSE qpc' = [qpc EXCEPT ![q] = "check"] /\ UNCHANGED <<parked, value, satisfied, refused>>
           /\ UNCHANGED <<at, need, mem, landed, bvars, hvars>>

\* WaitBriefly, for the graphics queue: an unknown held write is pushed along
\* by the check; the walk sleeps with g_mutex released and looks again, and
\* gives up after 2 ms unless a held write over the label is on its way.
GfxMisses == /\ qpc[Gfx] = "overlay" /\ ~Satisfied(Gfx)
             /\ IF Unknown(at[Gfx]) THEN LabelPending(at[Gfx]) ELSE UNCHANGED bvars
             /\ qpc' = [qpc EXCEPT ![Gfx] = "brief"] /\ value' = [value EXCEPT ![Gfx] = 0]
             /\ UNCHANGED <<walker, at, parked, need, mvars, hvars>>

GfxSleeps == /\ qpc[Gfx] = "brief"
             /\ qpc' = [qpc EXCEPT ![Gfx] = "asleep"] /\ walker' = Idle
             /\ UNCHANGED <<at, value, parked, need, mvars, bvars, hvars>>

GfxDeadline == /\ qpc[Gfx] = "brief"
               /\ LabelPending(at[Gfx])
               /\ IF HeldOver(at[Gfx]) = {}
                    THEN qpc' = [qpc EXCEPT ![Gfx] = "walk"] /\ UNCHANGED walker
                    ELSE qpc' = [qpc EXCEPT ![Gfx] = "asleep"] /\ walker' = Idle
               /\ UNCHANGED <<at, value, parked, need, mvars, hvars>>

GfxWakes == /\ qpc[Gfx] = "asleep" /\ walker = Idle
            /\ walker' = Gfx
            /\ qpc' = [qpc EXCEPT ![Gfx] = "check"]
            /\ UNCHANGED <<at, value, parked, need, mvars, bvars, hvars>>

\* A submission, and its end.
Enter(q) == /\ qpc[q] = "out" /\ walker = Idle
            /\ walker' = q
            /\ qpc' = [qpc EXCEPT ![q] = "walk"]
            /\ UNCHANGED <<at, value, parked, need, mvars, bvars, hvars>>

Leave(q) == /\ Walking(q)
            /\ SubmitForPublishedLabels
            /\ walker' = Idle
            /\ qpc' = [qpc EXCEPT ![q] = "out"]
            /\ UNCHANGED <<at, value, parked, need, mvars, hvars>>

\* The title's CPU resets a label it has seen.
CpuReset(l) == /\ mem[l] = 1
               /\ mem' = [mem EXCEPT ![l] = 0]
               /\ UNCHANGED <<landed, satisfied, refused, bvars, hvars, qvars>>

-----------------------------------------------------------------------------
Publisher == PubTake \/ PubWaitBatch \/ PubWrite \/ PubRecord \/ PubPop

\* What a queue's thread goes on to do by itself.
GoOn(q) == \/ WriteNow(q) \/ RecordNow(q) \/ Check(q) \/ CheckPasses(q) \/ Leave(q)
           \/ q \in Rings /\ (RingParks(q) \/ Poll(q))
           \/ q = Gfx /\ (GfxMisses \/ GfxSleeps \/ GfxDeadline \/ GfxWakes)

Packet(q) == \/ RecordWrite(q) \/ CsBatchSubmit(q) \/ Retire(q) \/ Enter(q)
             \/ \E l \in Labels : \/ MeetWait(q, l)
                                  \/ \E v \in {0, 1}, k \in BOOLEAN : PublishLabel(q, l, v, k)

Next == \/ Publisher \/ GpuDone
        \/ \E q \in Queues : GoOn(q) \/ Packet(q)
        \/ \E l \in Labels : CpuReset(l)

\* The publishing thread and the GPU keep going; g_mutex is handed on often
\* enough that each thread gets it (SF), command buffers are finite, and the
\* 2 ms of WaitBriefly pass.
Spec == /\ Init /\ [][Next]_vars
        /\ WF_vars(Publisher) /\ WF_vars(GpuDone)
        /\ \A q \in Queues : SF_vars(GoOn(q))
        /\ SF_vars(GfxDeadline)

-----------------------------------------------------------------------------
Pcs == {"out", "walk", "write", "record", "check", "overlay", "parked", "brief", "asleep"}

TypeOK ==
  /\ mem \in [Labels -> {0, 1}] /\ landed <= issued /\ satisfied \subseteq Rings
  /\ \A i \in DOMAIN held : held[i].batch \in 0..MaxBatch /\ held[i].label \in Labels
  /\ ppc \in {"wait", "batch", "write", "record", "pop"} /\ (ppc # "wait" => held # <<>>)
  /\ walker \in Queues \cup {Idle} /\ qpc \in [Queues -> Pcs]
  /\ \A q \in Queues : qpc[q] \notin {"out", "parked", "asleep"} <=> walker = q
  /\ at \in [Queues -> Labels] /\ value \in [Queues -> {0, 1}]
  /\ parked \in [Rings -> {"no", "waiting", "hit"}]
  /\ completed <= submitted /\ submitted <= nbatch /\ nbatch <= MaxBatch
  /\ open \in {0, nbatch} /\ gwrites \subseteq 1..nbatch /\ publish <= nbatch

\* Label writes reach guest memory in the order they were issued, whether the
\* walk or the publishing thread makes them: a reset never overtakes the release
\* before it ("in the order it was issued", label_publisher.h).
LabelsInOrder == /\ ppc = "record" => Head(held).n = landed
                 /\ \A q \in Queues : qpc[q] = "record" => landed = issued

\* The guest sees no label before the bytes it announces: every batch that was
\* writing guest memory when the label was issued is done when it is written.
BytesFirst == /\ ppc = "record" => completed >= Head(held).need
              /\ \A q \in Queues : qpc[q] = "record" => completed >= need[q]

\* Labels land in the order they were issued, each after its bytes.
LabelInv == TypeOK /\ LabelsInOrder /\ BytesFirst

Recording(l) == \/ ppc \in {"record", "pop"} /\ Head(held).label = l
                \/ \E q \in Queues : qpc[q] = "record" /\ at[q] = l

\* No ring queue is left parked on a label that reads as it wants, unless it was
\* marked hit: a write that lands between its check and its suspension counts.
\* (A check turned down for a held write of unknown data says nothing of the
\* label; the poller's next check does.)
ParkedSeesWrite ==
  \A q \in Rings \ refused : qpc[q] = "parked" /\ parked[q] = "waiting"
                     /\ ~Recording(at[q]) /\ HeldOver(at[q]) = {} => mem[at[q]] # 1

\* A write that satisfies a parked wait is remembered for it, also when the
\* title's CPU resets the label at once (the comment on ParkedWait).
WriteRemembered ==
  \A q \in satisfied : parked[q] = "hit" \/ Recording(at[q])

\* A parked queue that was hit runs on.
HitResumes == \A q \in Rings : []<>(parked[q] # "hit")

\* Every label issued is written: the batch a held one waits for is submitted,
\* at the latest when the walk that recorded it ends.
EveryLabelLands == \A n \in 1..MaxIssued : []<>(issued >= n => landed >= n)

\* The graphics queue's wait ends: with the value, or by giving up when nothing
\* is on its way, also when the write it waits for is held behind the batch that
\* its own walk has not submitted.
GfxWaitEnds == []<>(qpc[Gfx] \notin {"check", "overlay", "brief", "asleep"})

\* Every label lands, and no wait on a label that was satisfied, or cannot be,
\* holds its queue.
WaitsEnd == EveryLabelLands /\ HitResumes /\ GfxWaitEnds
=============================================================================
