-------------------------- MODULE AgcLabels_proofs --------------------------
(***************************************************************************)
(* Proofs about AgcLabels for any labels, rings and bounds: labels reach   *)
(* guest memory in the order they were issued, each after its bytes, and   *)
(* no ring stays parked on a label that reads as it wants.                 *)
(*                                                                         *)
(* Neither invariant is inductive.  The order rests on one count (what is  *)
(* held and what a walk is about to write are the label writes issued and  *)
(* not landed), and on the walk and the publishing thread never having a   *)
(* write in hand at the same time.  That a parked ring sees a write rests  *)
(* on what is known of a label that reads 1 at each point of the ring's    *)
(* check (NotMissed).                                                      *)
(***************************************************************************)
EXTENDS AgcLabels, WellFoundedInduction, TLAPS

HeldWrite == [batch : 0 .. MaxBatch, label : Labels, value : {0, 1},
              known : BOOLEAN, n : Nat, need : Nat]

Outside == {"out", "parked", "asleep"}

Typed ==
  /\ mem \in [Labels -> {0, 1}] /\ satisfied \subseteq Rings
  /\ held \in Seq(HeldWrite) /\ issued \in Nat
  /\ ppc \in {"wait", "batch", "write", "record", "pop"}
  /\ walker \in Queues \cup {Idle} /\ qpc \in [Queues -> Pcs]
  /\ at \in [Queues -> Labels] /\ value \in [Queues -> {0, 1}]
  /\ parked \in [Rings -> {"no", "waiting", "hit"}] /\ need \in [Queues -> Nat]

\* Batches are begun, submitted and done in order.
Batches ==
  /\ completed \in Nat /\ submitted \in Nat /\ nbatch \in 0 .. MaxBatch
  /\ completed <= submitted /\ submitted <= nbatch
  /\ open \in {0, nbatch} /\ gwrites \subseteq 1 .. nbatch /\ publish \in 0 .. nbatch

\* g_mutex has one holder; a ring that is not at a wait is not in g_parked.
Walks ==
  /\ \A q \in Queues : qpc[q] \notin Outside <=> walker = q
  /\ \A q \in Rings : /\ qpc[q] \notin {"brief", "asleep"}
                      /\ qpc[q] \in {"out", "walk", "write", "record"} => parked[q] = "no"

\* A walk has a write in hand only while none is held.
OneWriter ==
  /\ ppc # "wait" => held # <<>>
  /\ \A q \in Queues : qpc[q] \in {"write", "record"} => held = <<>> /\ need[q] = 0

\* The held writes are the last ones issued, in order, and with the one a walk
\* is about to make they are all that has not landed.
Stored == IF ppc \in {"record", "pop"} THEN 1 ELSE 0
InHand == IF \E q \in Queues : qpc[q] = "write" THEN 1 ELSE 0
Numbered ==
  /\ \A i \in 1 .. Len(held) : held[i].n = (issued - Len(held)) + i
  /\ landed = ((issued - Len(held)) + Stored) - InHand

\* A held write waits for the bytes it announces, and is made after the wait.
BytesAwaited ==
  /\ \A i \in 1 .. Len(held) : held[i].need <= held[i].batch
  /\ ppc \in {"write", "record", "pop"} => completed >= held[1].batch

\* Nothing but a reset comes between a held write and the end of its turn.
LastWrite ==
  ppc \in {"record", "pop"} /\ held[1].value = 0 => mem[held[1].label] = 0

\* Where a write of the label is stored and still to be recorded.
ToRecord(l) == \/ ppc = "record" /\ held[1].label = l
               \/ \E q \in Queues : qpc[q] = "record" /\ at[q] = l

\* A held write of the label is still to be made.
ToWrite(l) == \E i \in 1 .. Len(held) : held[i].label = l /\ (i > 1 \/ Stored = 0)

\* A ring in g_parked whose label reads 1 has that store recorded soon, or looks
\* at the label, or has seen it, or was turned down for a held write.
NotMissed ==
  \A q \in Rings :
    parked[q] = "waiting" /\ mem[at[q]] = 1 =>
      \/ ToRecord(at[q])
      \/ qpc[q] = "check"
      \/ qpc[q] = "overlay" /\ value[q] = 1
      \/ qpc[q] = "parked" /\ (q \in refused \/ ToWrite(at[q]))

IInv == /\ Typed /\ Batches /\ Walks /\ OneWriter
        /\ Numbered /\ BytesAwaited /\ LastWrite /\ NotMissed
-----------------------------------------------------------------------------
(* The operators.                                                           *)

\* A bounded set of numbers has a greatest element, and Max finds it.
LEMMA MaxIs ==
  ASSUME NEW n \in Nat, NEW S \in SUBSET (0 .. n), S # {}
  PROVE  Max(S) \in S /\ \A x \in S : x <= Max(S)
  <1> DEFINE R == OpToRel(<, Nat)
             Above == {b \in Nat : \A x \in S : x <= b}
  <1>1. \A x, y \in Nat : <<x, y>> \in R <=> x < y
    BY DEF OpToRel
  <1>2. n \in Above
    OBVIOUS
  <1>3. IsWellFoundedOn(R, Nat)
    BY NatLessThanWellFounded
  <1> HIDE DEF R
  <1>4. \E b \in Above : \A c \in Above : ~ (<<c, b>> \in R)
    BY <1>2, <1>3, WFMin
  <1>5. PICK b \in Above : \A c \in Above : ~ (c < b)
    BY <1>1, <1>4
  <1>6. b \in S
    <2>1. SUFFICES ASSUME b \notin S
                   PROVE  FALSE
      OBVIOUS
    <2>2. \A x \in S : x <= b - 1 /\ b # 0
      BY <2>1
    <2>3. b - 1 \in Nat
      <3>1. PICK x \in S : x \in 0 .. n
        OBVIOUS
      <3>2. QED
        BY <2>2, <3>1
    <2>4. b - 1 \in Above
      BY <2>2, <2>3
    <2>5. QED
      BY <1>5, <2>4
  <1>7. b \in S /\ \A y \in S : b >= y
    BY <1>6
  <1>8. QED
    BY <1>7 DEF Max

\* Newest of a set of batches or of places in a queue bounds it.
LEMMA NewestIs ==
  ASSUME NEW n \in Nat, NEW S \in SUBSET (1 .. n)
  PROVE  /\ Newest(S) \in 0 .. n /\ (Newest(S) = 0 <=> S = {})
         /\ \A x \in S : x <= Newest(S)
         /\ S # {} => Newest(S) \in S
  <1>1. CASE S = {}
    BY <1>1 DEF Newest
  <1>2. CASE S # {}
    <2>1. S \in SUBSET (0 .. n)
      OBVIOUS
    <2>2. Max(S) \in S /\ \A x \in S : x <= Max(S)
      BY <1>2, <2>1, MaxIs
    <2>3. Newest(S) = Max(S)
      BY <1>2 DEF Newest
    <2>4. Newest(S) \in 1 .. n
      BY <2>2, <2>3
    <2>5. QED
      BY <1>2, <2>2, <2>3, <2>4
  <1>3. QED
    BY <1>1, <1>2

\* The first held write is there when the publishing thread has it in hand.
LEMMA HeadIs ==
  ASSUME Typed
  PROVE  /\ Len(held) \in Nat /\ DOMAIN held = 1 .. Len(held)
         /\ \A i \in 1 .. Len(held) : held[i] \in HeldWrite
         /\ held = <<>> <=> Len(held) = 0
         /\ held # <<>> => Head(held) = held[1] /\ 1 \in 1 .. Len(held)
  BY DEF Typed
-----------------------------------------------------------------------------
(* One lemma per action, or per group of actions that change the same       *)
(* state.  First the steps that only move batches along.                    *)

\* A step that only moves batches along keeps what is said of labels.
LEMMA BatchStep ==
  ASSUME IInv, Batches', completed' >= completed, UNCHANGED <<mvars, hvars, qvars>>
  PROVE  IInv'
  <1> USE DEF mvars, hvars, qvars
  <1>1. Typed' /\ Walks' /\ OneWriter' /\ LastWrite'
    BY DEF IInv, Typed, Walks, OneWriter, LastWrite
  <1>2. Numbered' /\ NotMissed'
    <2>1. Stored' = Stored /\ InHand' = InHand /\ \A l : ToRecord(l)' = ToRecord(l)
      BY DEF Stored, InHand, ToRecord
    <2>2. \A l : ToWrite(l)' = ToWrite(l)
      BY <2>1 DEF ToWrite
    <2>3. QED
      BY <2>1, <2>2 DEF IInv, Numbered, NotMissed
  <1>3. BytesAwaited'
    <2>1. ppc # "wait" => held[1].batch \in Nat
      BY HeadIs DEF IInv, HeldWrite, OneWriter
    <2>2. QED
      BY <2>1 DEF IInv, BytesAwaited, Batches
  <1>4. QED
    BY <1>1, <1>2, <1>3 DEF IInv

\* Recording into a batch, submitting it, its end and its retirement.
LEMMA BatchActions ==
  ASSUME IInv,
         \/ GpuDone
         \/ \E q \in Queues : RecordWrite(q) \/ CsBatchSubmit(q) \/ Retire(q)
  PROVE  IInv'
  <1> USE BoundsAssumption DEF Batches
  <1>1. Batches
    BY DEF IInv
  <1>2. CASE GpuDone
    <2>1. Batches' /\ completed' >= completed
      BY <1>1, <1>2 DEF GpuDone
    <2>2. QED
      BY <1>2, <2>1, BatchStep DEF GpuDone
  <1>3. ASSUME NEW q \in Queues, RecordWrite(q)
        PROVE  IInv'
    <2>1. open' = nbatch' /\ open' \in 1 .. nbatch' /\ nbatch' \in 0 .. MaxBatch /\ nbatch <= nbatch'
      BY <1>1, <1>3 DEF RecordWrite
    <2>2. gwrites' \subseteq 1 .. nbatch'
      BY <1>1, <1>3, <2>1 DEF RecordWrite
    <2>3. Batches' /\ completed' >= completed
      BY <1>1, <1>3, <2>1, <2>2 DEF RecordWrite
    <2>4. QED
      BY <1>3, <2>3, BatchStep DEF RecordWrite
  <1>4. ASSUME NEW q \in Queues, CsBatchSubmit(q)
        PROVE  IInv'
    <2>1. Batches' /\ completed' >= completed
      BY <1>1, <1>4 DEF CsBatchSubmit, Submit
    <2>2. QED
      BY <1>4, <2>1, BatchStep DEF CsBatchSubmit
  <1>5. ASSUME NEW q \in Queues, Retire(q)
        PROVE  IInv'
    <2>1. gwrites' \subseteq 1 .. nbatch'
      BY <1>1, <1>5 DEF Retire
    <2>2. /\ UNCHANGED <<open, nbatch, submitted, completed, publish>>
          /\ UNCHANGED <<mvars, hvars, qvars>>
      BY <1>5 DEF Retire
    <2>3. Batches' /\ completed' >= completed
      BY <1>1, <2>1, <2>2
    <2>4. QED
      BY <2>2, <2>3, BatchStep
  <1>6. QED
    BY <1>2, <1>3, <1>4, <1>5

\* SubmitForPublishedLabels submits the open batch or nothing.
LEMMA SubmitsOpen ==
  ASSUME Batches, SubmitForPublishedLabels \/ UNCHANGED bvars
  PROVE  Batches' /\ completed' = completed
  <1>1. CASE UNCHANGED bvars
    BY <1>1 DEF Batches, bvars
  <1>2. CASE SubmitForPublishedLabels
    <2>1. UNCHANGED <<nbatch, completed, gwrites, publish>>
      BY <1>2 DEF SubmitForPublishedLabels
    <2>2. \/ open # 0 /\ submitted' = open /\ open' = 0
          \/ UNCHANGED <<submitted, open>>
      BY <1>2 DEF SubmitForPublishedLabels, Submit
    <2>3. QED
      BY <2>1, <2>2, BoundsAssumption DEF Batches
  <1>3. QED
    BY <1>1, <1>2
-----------------------------------------------------------------------------
(* A walk that moves on without a write in hand.                            *)

\* What such a step leaves alone.
LEMMA WalkStep ==
  ASSUME IInv, NEW q \in Queues, NEW l \in Pcs \ {"write", "record"},
         qpc[q] \notin {"write", "record"}, qpc' = [qpc EXCEPT ![q] = l],
         \A u \in Queues \ {q} : at'[u] = at[u],
         completed' = completed, UNCHANGED <<mem, landed, held, ppc, issued, need>>
  PROVE  /\ OneWriter' /\ Numbered' /\ BytesAwaited' /\ LastWrite'
         /\ \A k : ToRecord(k)' <=> ToRecord(k)
         /\ \A k : ToWrite(k)' <=> ToWrite(k)
         /\ qpc' \in [Queues -> Pcs] /\ qpc'[q] = l
         /\ \A u \in Queues \ {q} : qpc'[u] = qpc[u]
  <1>1. qpc' \in [Queues -> Pcs] /\ qpc'[q] = l /\ \A u \in Queues \ {q} : qpc'[u] = qpc[u]
    BY DEF IInv, Typed
  <1>2. InHand' = InHand /\ Stored' = Stored
    BY <1>1 DEF InHand, Stored
  <1>3. OneWriter' /\ Numbered' /\ BytesAwaited' /\ LastWrite'
    BY <1>1, <1>2 DEF IInv, OneWriter, Numbered, BytesAwaited, LastWrite
  <1>4. \A k : ToRecord(k)' <=> ToRecord(k)
    BY <1>1 DEF ToRecord
  <1>5. \A k : ToWrite(k)' <=> ToWrite(k)
    BY <1>2 DEF ToWrite
  <1>6. QED
    BY <1>1, <1>3, <1>4, <1>5

\* A walk starts or ends; the graphics queue sleeps and wakes.
LEMMA HandOver ==
  ASSUME IInv, NEW q \in Queues,
         \/ Enter(q) \/ Leave(q)
         \/ q = Gfx /\ (GfxMisses \/ GfxSleeps \/ GfxDeadline \/ GfxWakes)
  PROVE  IInv'
  <1>1. PICK l \in Pcs \ {"write", "record"} :
          /\ qpc' = [qpc EXCEPT ![q] = l] /\ qpc[q] \notin {"write", "record"}
          /\ l \in {"brief", "asleep"} => q = Gfx
          /\ l # "parked" /\ qpc[q] # "parked"
          /\ l = "overlay" => FALSE
          /\ q \in Rings => l \in {"walk", "out"} /\ qpc[q] \in {"walk", "out"}
    BY BoundsAssumption DEF Enter, Leave, Walking, GfxMisses, GfxSleeps, GfxDeadline, GfxWakes, Pcs, Queues
  <1>2. /\ UNCHANGED <<at, parked, need, mvars, hvars>> /\ value' \in [Queues -> {0, 1}]
        /\ \A u \in Queues \ {q} : value'[u] = value[u]
    BY DEF Enter, Leave, GfxMisses, GfxSleeps, GfxDeadline, GfxWakes, IInv, Typed
  <1>3. Batches' /\ completed' = completed
    <2>1. SubmitForPublishedLabels \/ UNCHANGED bvars
      BY DEF Enter, Leave, GfxMisses, GfxSleeps, GfxDeadline, GfxWakes, LabelPending
    <2>2. QED
      BY <2>1, SubmitsOpen DEF IInv
  <1>4. /\ walker' \in Queues \cup {Idle}
        /\ l \notin Outside <=> walker' = q
        /\ \A u \in Queues \ {q} : walker' = u <=> walker = u
    BY <1>1, BoundsAssumption DEF Enter, Leave, Walking, GfxMisses, GfxSleeps, GfxDeadline,
         GfxWakes, IInv, Walks, Typed, Outside, Queues
  <1> USE DEF mvars, hvars
  <1>5. /\ OneWriter' /\ Numbered' /\ BytesAwaited' /\ LastWrite'
        /\ \A k : ToRecord(k)' <=> ToRecord(k)
        /\ \A k : ToWrite(k)' <=> ToWrite(k)
        /\ qpc' \in [Queues -> Pcs] /\ qpc'[q] = l
        /\ \A u \in Queues \ {q} : qpc'[u] = qpc[u]
    BY <1>1, <1>2, <1>3, WalkStep
  <1>6. Typed'
    BY <1>2, <1>4, <1>5 DEF IInv, Typed
  <1>7. Walks'
    BY <1>1, <1>2, <1>4, <1>5, BoundsAssumption DEF IInv, Walks, Queues
  <1>8. NotMissed'
    BY <1>1, <1>2, <1>5 DEF IInv, NotMissed, Walks, Queues
  <1>9. QED
    BY <1>3, <1>5, <1>6, <1>7, <1>8 DEF IInv

\* A walk meets a wait and looks at the label: a ring is in g_parked before that.
LEMMA WaitBegins ==
  ASSUME IInv, NEW q \in Queues,
         (\E l \in Labels : MeetWait(q, l)) \/ Check(q)
  PROVE  IInv'
  <1>1. CASE \E l \in Labels : MeetWait(q, l)
    <2>1. PICK l \in Labels : MeetWait(q, l)
      BY <1>1
    <2>2. /\ qpc[q] = "walk" /\ walker = q /\ qpc' = [qpc EXCEPT ![q] = "check"]
          /\ at' = [at EXCEPT ![q] = l] /\ "check" \in Pcs \ {"write", "record"}
          /\ parked' = IF q \in Rings THEN [parked EXCEPT ![q] = "waiting"] ELSE parked
          /\ UNCHANGED <<walker, value, need, held, ppc, issued, mvars, bvars>>
      BY <2>1 DEF MeetWait, Walking, Pcs
    <2>3. /\ at' \in [Queues -> Labels] /\ \A u \in Queues \ {q} : at'[u] = at[u]
          /\ parked' \in [Rings -> {"no", "waiting", "hit"}]
          /\ \A u \in Rings \ {q} : parked'[u] = parked[u]
      BY <2>2 DEF IInv, Typed
    <2> USE DEF mvars, bvars
    <2>4. /\ OneWriter' /\ Numbered' /\ BytesAwaited' /\ LastWrite'
          /\ \A k : ToRecord(k)' <=> ToRecord(k)
          /\ \A k : ToWrite(k)' <=> ToWrite(k)
          /\ qpc' \in [Queues -> Pcs] /\ qpc'[q] = "check"
          /\ \A u \in Queues \ {q} : qpc'[u] = qpc[u]
      BY <2>2, <2>3, WalkStep
    <2>5. Typed' /\ Batches'
      BY <2>2, <2>3, <2>4 DEF IInv, Typed, Batches
    <2>6. Walks'
      BY <2>2, <2>3, <2>4 DEF IInv, Walks, Outside, Queues
    <2>7. NotMissed'
      BY <2>2, <2>3, <2>4 DEF IInv, NotMissed, Queues
    <2>8. QED
      BY <2>4, <2>5, <2>6, <2>7 DEF IInv
  <1>2. CASE Check(q)
    <2>1. /\ qpc[q] = "check" /\ qpc' = [qpc EXCEPT ![q] = "overlay"]
          /\ value' = [value EXCEPT ![q] = mem[at[q]]] /\ "overlay" \in Pcs \ {"write", "record"}
          /\ UNCHANGED <<walker, at, parked, need, mvars, bvars, hvars>>
      BY <1>2 DEF Check, Pcs
    <2>2. /\ value' \in [Queues -> {0, 1}] /\ value'[q] = mem[at[q]]
          /\ \A u \in Queues \ {q} : value'[u] = value[u]
      BY <2>1 DEF IInv, Typed
    <2> USE DEF mvars, bvars, hvars
    <2>3. /\ OneWriter' /\ Numbered' /\ BytesAwaited' /\ LastWrite'
          /\ \A k : ToRecord(k)' <=> ToRecord(k)
          /\ \A k : ToWrite(k)' <=> ToWrite(k)
          /\ qpc' \in [Queues -> Pcs] /\ qpc'[q] = "overlay"
          /\ \A u \in Queues \ {q} : qpc'[u] = qpc[u]
      BY <2>1, <2>2, WalkStep
    <2>4. Typed' /\ Batches'
      BY <2>1, <2>2, <2>3 DEF IInv, Typed, Batches
    <2>5. Walks'
      BY <2>1, <2>3 DEF IInv, Walks, Outside, Queues
    <2>6. NotMissed'
      BY <2>1, <2>2, <2>3 DEF IInv, NotMissed, Queues
    <2>7. QED
      BY <2>3, <2>4, <2>5, <2>6 DEF IInv
  <1>3. QED
    BY <1>1, <1>2

\* A wait is over: the ring leaves g_parked; or the poller has it look again.
LEMMA WaitEnds ==
  ASSUME IInv, NEW q \in Queues, CheckPasses(q) \/ (q \in Rings /\ Poll(q))
  PROVE  IInv'
  <1>1. PICK l \in {"walk", "check"} :
          /\ qpc' = [qpc EXCEPT ![q] = l] /\ qpc[q] \in {"overlay", "parked"}
          /\ qpc[q] = "parked" => walker = Idle /\ q \in Rings
          /\ walker' = q
          /\ l = "check" => UNCHANGED <<parked, value, satisfied, refused>>
          /\ l = "walk" => Pass(q)
    BY DEF CheckPasses, Poll, Pass, IInv, Walks, Outside
  <1>2. UNCHANGED <<at, need, mem, landed, bvars, hvars>> /\ l \in Pcs \ {"write", "record"}
    BY DEF CheckPasses, Poll, Pcs
  <1>3. /\ parked' \in [Rings -> {"no", "waiting", "hit"}]
        /\ \A u \in Rings \ {q} : parked'[u] = parked[u]
        /\ q \in Rings /\ l = "walk" => parked'[q] = "no"
        /\ satisfied' \subseteq Rings /\ \A u \in Rings \ {q} : u \in refused' <=> u \in refused
        /\ value' \in [Queues -> {0, 1}] /\ \A u \in Queues \ {q} : value'[u] = value[u]
    BY <1>1 DEF Pass, IInv, Typed
  <1>4. \A u \in Queues \ {q} : walker # u
    BY <1>1, BoundsAssumption DEF IInv, Walks, Outside
  <1> USE DEF bvars, hvars
  <1>5. /\ OneWriter' /\ Numbered' /\ BytesAwaited' /\ LastWrite'
        /\ \A k : ToRecord(k)' <=> ToRecord(k)
        /\ \A k : ToWrite(k)' <=> ToWrite(k)
        /\ qpc' \in [Queues -> Pcs] /\ qpc'[q] = l
        /\ \A u \in Queues \ {q} : qpc'[u] = qpc[u]
    BY <1>1, <1>2, WalkStep
  <1>6. Typed' /\ Batches'
    BY <1>1, <1>2, <1>3, <1>5 DEF IInv, Typed, Batches
  <1>7. Walks'
    BY <1>1, <1>3, <1>4, <1>5 DEF IInv, Walks, Outside, Queues
  <1>8. NotMissed'
    BY <1>1, <1>2, <1>3, <1>5 DEF IInv, NotMissed, Queues
  <1>9. QED
    BY <1>5, <1>6, <1>7, <1>8 DEF IInv

\* A ring parks on a check that failed: the label did not read 1 then, or the
\* last held write over it is a 0 still to be made, or is of unknown data.
LEMMA RingParksInv ==
  ASSUME IInv, NEW q \in Rings, RingParks(q)
  PROVE  IInv'
  <1>1. /\ qpc[q] = "overlay" /\ ~Satisfied(q) /\ walker' = Idle /\ q \in Queues
        /\ qpc' = [qpc EXCEPT ![q] = "parked"] /\ value' = [value EXCEPT ![q] = 0]
        /\ refused' = IF Unknown(at[q]) THEN refused \cup {q} ELSE refused \ {q}
        /\ UNCHANGED <<at, parked, need, mem, landed, satisfied, hvars>>
        /\ "parked" \in Pcs \ {"write", "record"}
    BY DEF RingParks, Pcs, Queues
  <1>2. Batches' /\ completed' = completed
    BY SubmitsOpen DEF RingParks, IInv
  <1> USE DEF hvars
  <1>3. /\ OneWriter' /\ Numbered' /\ BytesAwaited' /\ LastWrite'
        /\ \A k : ToRecord(k)' <=> ToRecord(k)
        /\ \A k : ToWrite(k)' <=> ToWrite(k)
        /\ qpc' \in [Queues -> Pcs] /\ qpc'[q] = "parked"
        /\ \A u \in Queues \ {q} : qpc'[u] = qpc[u]
    BY <1>1, <1>2, WalkStep
  <1>4. /\ value' \in [Queues -> {0, 1}] /\ \A u \in Queues \ {q} : value'[u] = value[u]
    BY <1>1 DEF IInv, Typed
  <1>5. Typed'
    BY <1>1, <1>3, <1>4 DEF IInv, Typed
  <1>6. Walks'
    BY <1>1, <1>3, BoundsAssumption DEF IInv, Walks, Outside, Queues
  <1>7. NotMissed'
    <2>1. ASSUME mem[at[q]] = 1, parked[q] = "waiting"
          PROVE  ToRecord(at[q]) \/ q \in refused' \/ ToWrite(at[q])
      <3>1. CASE Unknown(at[q])
        BY <1>1, <3>1
      <3>2. CASE ~Unknown(at[q]) /\ HeldOver(at[q]) = {}
        BY <1>1, <2>1, <3>2 DEF Satisfied, IInv, NotMissed
      <3>3. CASE ~Unknown(at[q]) /\ HeldOver(at[q]) # {}
        <4> DEFINE k == Newest(HeldOver(at[q]))
        <4>1. k \in HeldOver(at[q]) /\ k \in 1 .. Len(held)
          <5>1. HeldOver(at[q]) \subseteq 1 .. Len(held) /\ Len(held) \in Nat
            BY HeadIs DEF HeldOver, IInv
          <5>2. QED
            BY <5>1, <3>3, NewestIs
        <4>2. held[k].label = at[q] /\ held[k].value = 0
          BY <4>1, <3>3, <1>1, HeadIs DEF Satisfied, HeldOver, IInv, HeldWrite
        <4>3. k > 1 \/ Stored = 0
          <5>1. SUFFICES ASSUME k = 1, ppc \in {"record", "pop"}
                         PROVE  FALSE
            BY <4>1, HeadIs DEF Stored, IInv
          <5>2. QED
            BY <5>1, <4>2, <2>1 DEF IInv, LastWrite
        <4>4. QED
          BY <4>1, <4>2, <4>3 DEF ToWrite
      <3>4. QED
        BY <3>1, <3>2, <3>3
    <2>2. \A u \in Rings \ {q} : u \in refused' <=> u \in refused
      BY <1>1
    <2>3. QED
      BY <1>1, <1>3, <1>4, <2>1, <2>2 DEF IInv, NotMissed, Queues
  <1>8. QED
    BY <1>2, <1>3, <1>5, <1>6, <1>7 DEF IInv
-----------------------------------------------------------------------------
(* Writing a label.                                                         *)

\* g_mutex has one holder: with a walk at work no other has a write in hand.
LEMMA Alone ==
  ASSUME IInv, NEW q \in Queues, qpc[q] \in {"walk", "write", "record"}
  PROVE  \A u \in Queues \ {q} : qpc[u] \notin {"write", "record"}
  BY DEF IInv, Walks, Outside

\* A label that must be held goes behind the held ones.
LEMMA HoldInv ==
  ASSUME IInv, NEW q \in Queues, NEW l \in Labels, NEW v \in {0, 1}, NEW k \in BOOLEAN,
         PublishLabel(q, l, v, k), MustHold(Newest(gwrites))
  PROVE  IInv'
  <1> DEFINE bytes == Newest({b \in gwrites : b > completed})
             h == [batch |-> Newest(gwrites), label |-> l, value |-> v,
                   known |-> k, n |-> issued', need |-> bytes]
  <1>1. /\ qpc[q] = "walk" /\ issued' = issued + 1 /\ held' = Append(held, h)
        /\ publish' = IF Newest(gwrites) > publish THEN Newest(gwrites) ELSE publish
        /\ UNCHANGED <<qpc, at, value, need, ppc, walker, parked,
                       open, nbatch, submitted, completed, gwrites, mvars>>
    BY DEF PublishLabel, Walking
  <1> USE DEF mvars
  <1>2. Newest(gwrites) \in 0 .. nbatch /\ bytes \in Nat /\ bytes <= Newest(gwrites)
    <2>1. /\ gwrites \in SUBSET (1 .. nbatch) /\ nbatch \in Nat
          /\ {b \in gwrites : b > completed} \in SUBSET (1 .. nbatch)
      <3>1. gwrites \subseteq 1 .. nbatch /\ nbatch \in Nat
        BY BoundsAssumption DEF IInv, Batches
      <3>2. QED
        BY <3>1
    <2>2. /\ Newest(gwrites) \in 0 .. nbatch /\ bytes \in 0 .. nbatch
          /\ \A x \in gwrites : x <= Newest(gwrites)
          /\ bytes = 0 \/ bytes \in gwrites
      BY <2>1, NewestIs
    <2>3. bytes \in Nat /\ 0 <= Newest(gwrites)
      BY <2>1, <2>2
    <2> HIDE DEF bytes
    <2>4. QED
      BY <2>2, <2>3
  <1>3. h \in HeldWrite
    BY <1>1, <1>2, BoundsAssumption DEF HeldWrite, IInv, Typed, Batches
  <1>4. /\ held' \in Seq(HeldWrite) /\ Len(held') = Len(held) + 1 /\ Len(held) \in Nat
        /\ \A i \in 1 .. Len(held) : held'[i] = held[i]
        /\ held'[Len(held) + 1] = h
        /\ held' # <<>> /\ (held # <<>> => 1 \in 1 .. Len(held))
    BY <1>1, <1>3, HeadIs DEF IInv, Typed
  <1> HIDE DEF h
  <1>5. h.n = issued + 1 /\ h.need = bytes /\ h.batch = Newest(gwrites)
    BY <1>1 DEF h
  <1> HIDE DEF bytes
  <1>6. Typed' /\ Walks'
    BY <1>1, <1>4 DEF IInv, Typed, Walks
  <1>7. Batches'
    BY <1>1, <1>2, BoundsAssumption DEF IInv, Batches
  <1>8. OneWriter'
    BY <1>1, <1>4, Alone DEF IInv, OneWriter
  <1>9. Stored' = Stored /\ InHand' = InHand /\ Stored \in {0, 1} /\ InHand \in {0, 1}
    BY <1>1 DEF Stored, InHand
  <1>10. Numbered'
    BY <1>1, <1>4, <1>5, <1>9 DEF IInv, Numbered, Typed
  <1>11. BytesAwaited' /\ LastWrite'
    BY <1>1, <1>2, <1>4, <1>5 DEF IInv, BytesAwaited, LastWrite, OneWriter
  <1>12. NotMissed'
    <2>1. \A m : ToRecord(m) => ToRecord(m)'
      BY <1>1, <1>4 DEF ToRecord, IInv, OneWriter
    <2>2. \A m : ToWrite(m) => ToWrite(m)'
      BY <1>4, <1>9 DEF ToWrite
    <2>3. QED
      BY <1>1, <2>1, <2>2 DEF IInv, NotMissed
  <1>13. QED
    BY <1>6, <1>7, <1>8, <1>10, <1>11, <1>12 DEF IInv

\* A label that need not be held has nothing to wait for.
LEMMA ImmediateInv ==
  ASSUME IInv, NEW q \in Queues, NEW l \in Labels, NEW v \in {0, 1}, NEW k \in BOOLEAN,
         PublishLabel(q, l, v, k), ~MustHold(Newest(gwrites))
  PROVE  IInv'
  <1>1. /\ qpc[q] = "walk" /\ walker = q /\ issued' = issued + 1 /\ held = <<>> /\ Newest(gwrites) = 0
        /\ qpc' = [qpc EXCEPT ![q] = "write"] /\ at' = [at EXCEPT ![q] = l]
        /\ value' = [value EXCEPT ![q] = v]
        /\ need' = [need EXCEPT ![q] = Newest({b \in gwrites : b > completed})]
        /\ publish' = IF Newest(gwrites) > publish THEN Newest(gwrites) ELSE publish
        /\ UNCHANGED <<held, ppc, walker, parked,
                       open, nbatch, submitted, completed, gwrites, mvars>>
    BY DEF PublishLabel, Walking, MustHold
  <1> USE DEF mvars
  <1>2. Newest({b \in gwrites : b > completed}) = 0
    <2>1. gwrites = {}
      <3>1. gwrites \in SUBSET (1 .. nbatch) /\ nbatch \in Nat
        BY BoundsAssumption DEF IInv, Batches
      <3>2. QED
        BY <1>1, <3>1, NewestIs
    <2>2. QED
      BY <2>1 DEF Newest
  <1>3. /\ qpc' \in [Queues -> Pcs] /\ qpc'[q] = "write"
        /\ \A u \in Queues \ {q} : qpc'[u] = qpc[u] /\ at'[u] = at[u] /\ value'[u] = value[u]
        /\ need' \in [Queues -> Nat] /\ need'[q] = 0
        /\ \A u \in Queues \ {q} : qpc'[u] \notin {"write", "record"}
    BY <1>1, <1>2, Alone DEF IInv, Typed, Pcs
  <1>4. Typed'
    BY <1>1, <1>3 DEF IInv, Typed
  <1>5. Batches'
    BY <1>1, BoundsAssumption DEF IInv, Batches
  <1>6. Walks'
    BY <1>1, <1>3 DEF IInv, Walks, Outside, Queues
  <1>7. ppc = "wait" /\ Len(held) = 0
    BY <1>1, HeadIs DEF IInv, OneWriter
  <1>8. OneWriter' /\ BytesAwaited' /\ LastWrite'
    BY <1>1, <1>3, <1>7 DEF IInv, OneWriter, BytesAwaited, LastWrite
  <1>9. InHand = 0 /\ InHand' = 1 /\ Stored = 0 /\ Stored' = 0
    BY <1>1, <1>3, <1>7, Alone DEF InHand, Stored
  <1>10. Numbered'
    BY <1>1, <1>7, <1>9 DEF IInv, Numbered, Typed
  <1>11. NotMissed'
    <2>1. \A m : ~ToRecord(m) /\ ~ToWrite(m)
      BY <1>1, <1>7, Alone DEF ToRecord, ToWrite
    <2>2. QED
      BY <1>1, <1>3, <2>1 DEF IInv, NotMissed, Walks, Queues
  <1>12. QED
    BY <1>4, <1>5, <1>6, <1>8, <1>10, <1>11 DEF IInv

\* The walk's own write, and its record: every ring parked on the label is marked.
LEMMA WriteNowInv ==
  ASSUME IInv, NEW q \in Queues, WriteNow(q)
  PROVE  IInv'
  <1>1. /\ qpc[q] = "write" /\ qpc' = [qpc EXCEPT ![q] = "record"]
        /\ mem' = [mem EXCEPT ![at[q]] = value[q]] /\ landed' = landed + 1
        /\ satisfied' \subseteq satisfied \cup Rings
        /\ UNCHANGED <<refused, walker, at, value, parked, need, bvars, hvars>>
    BY DEF WriteNow, Store
  <1> USE DEF bvars, hvars
  <1>2. /\ qpc' \in [Queues -> Pcs] /\ qpc'[q] = "record"
        /\ \A u \in Queues \ {q} : qpc'[u] = qpc[u] /\ qpc'[u] \notin {"write", "record"}
        /\ mem' \in [Labels -> {0, 1}] /\ at[q] \in Labels
        /\ \A m \in Labels \ {at[q]} : mem'[m] = mem[m]
    BY <1>1, Alone DEF IInv, Typed, Pcs
  <1>3. Typed' /\ Batches'
    BY <1>1, <1>2 DEF IInv, Typed, Batches
  <1>4. Walks'
    BY <1>1, <1>2 DEF IInv, Walks, Outside, Queues
  <1>5. ppc = "wait" /\ held = <<>> /\ Len(held) = 0
    BY <1>1, HeadIs DEF IInv, OneWriter
  <1>6. OneWriter' /\ BytesAwaited' /\ LastWrite'
    BY <1>1, <1>2, <1>5 DEF IInv, OneWriter, BytesAwaited, LastWrite
  <1>7. InHand = 1 /\ InHand' = 0 /\ Stored = 0 /\ Stored' = 0
    BY <1>1, <1>2, <1>5 DEF InHand, Stored
  <1>8. Numbered'
    BY <1>1, <1>5, <1>7 DEF IInv, Numbered, Typed
  <1>9. NotMissed'
    <2>1. ToRecord(at[q])' /\ \A m : ~ToRecord(m) /\ ~ToWrite(m)
      BY <1>1, <1>2, <1>5, Alone DEF ToRecord, ToWrite
    <2>2. QED
      BY <1>1, <1>2, <2>1 DEF IInv, NotMissed, Walks, Queues, Typed
  <1>10. QED
    BY <1>3, <1>4, <1>6, <1>8, <1>9 DEF IInv

\* RecordLabelWrite leaves no ring waiting on a label that reads 1.
LEMMA RecordIs ==
  ASSUME IInv, NEW l, Record(l)
  PROVE  /\ parked' \in [Rings -> {"no", "waiting", "hit"}]
         /\ \A u \in Rings : parked'[u] = "waiting" => parked[u] = "waiting" /\ (at[u] = l => mem[l] # 1)
         /\ \A u \in Rings : parked[u] = "no" => parked'[u] = "no"
  BY DEF Record, IInv, Typed

\* The walk records its write and goes on.
LEMMA RecordNowInv ==
  ASSUME IInv, NEW q \in Queues, RecordNow(q)
  PROVE  IInv'
  <1>1. /\ qpc[q] = "record" /\ qpc' = [qpc EXCEPT ![q] = "walk"] /\ Record(at[q])
        /\ UNCHANGED <<walker, at, value, need, mvars, bvars, hvars>>
    BY DEF RecordNow
  <1> USE DEF mvars, bvars, hvars
  <1>2. /\ qpc' \in [Queues -> Pcs] /\ qpc'[q] = "walk"
        /\ \A u \in Queues \ {q} : qpc'[u] = qpc[u] /\ qpc'[u] \notin {"write", "record"}
    BY <1>1, Alone DEF IInv, Typed, Pcs
  <1>3. /\ parked' \in [Rings -> {"no", "waiting", "hit"}]
        /\ \A u \in Rings : parked'[u] = "waiting" =>
                              parked[u] = "waiting" /\ (at[u] = at[q] => mem[at[q]] # 1)
        /\ \A u \in Rings : parked[u] = "no" => parked'[u] = "no"
    BY <1>1, RecordIs
  <1>4. Typed' /\ Batches'
    BY <1>1, <1>2, <1>3 DEF IInv, Typed, Batches
  <1>5. Walks'
    BY <1>1, <1>2, <1>3 DEF IInv, Walks, Outside, Queues
  <1>6. OneWriter' /\ BytesAwaited' /\ LastWrite'
    BY <1>1, <1>2 DEF IInv, OneWriter, BytesAwaited, LastWrite
  <1>7. InHand = 0 /\ InHand' = 0 /\ Stored' = Stored
    BY <1>1, <1>2 DEF InHand, Stored
  <1>8. Numbered'
    BY <1>1, <1>7 DEF IInv, Numbered
  <1>9. NotMissed'
    <2>1. \A m : m # at[q] => (ToRecord(m) => ToRecord(m)')
      BY <1>1, <1>2 DEF ToRecord
    <2>2. \A m : ToWrite(m) => ToWrite(m)'
      BY <1>1, <1>7 DEF ToWrite
    <2>3. QED
      BY <1>1, <1>2, <1>3, <2>1, <2>2 DEF IInv, NotMissed, Walks, Queues
  <1>10. QED
    BY <1>4, <1>5, <1>6, <1>8, <1>9 DEF IInv
-----------------------------------------------------------------------------
(* The publishing thread.                                                   *)

\* While it has a write in hand no walk has one.
LEMMA PublisherAlone ==
  ASSUME IInv, ppc # "wait"
  PROVE  /\ held # <<>> /\ Head(held) = held[1] /\ held[1] \in HeldWrite /\ 1 \in 1 .. Len(held)
         /\ \A q \in Queues : qpc[q] \notin {"write", "record"}
         /\ InHand = 0
  <1>1. /\ held # <<>> /\ Head(held) = held[1] /\ held[1] \in HeldWrite /\ 1 \in 1 .. Len(held)
    BY HeadIs DEF IInv, OneWriter
  <1>2. \A q \in Queues : qpc[q] \notin {"write", "record"}
    BY <1>1 DEF IInv, OneWriter
  <1>3. QED
    BY <1>1, <1>2 DEF InHand

\* It takes the first held write and waits for its batch.
LEMMA PubWaits ==
  ASSUME IInv, PubTake \/ PubWaitBatch
  PROVE  IInv'
  <1>1. /\ held # <<>> /\ UNCHANGED <<held, issued, waits, mvars, bvars, qvars>>
        /\ \/ ppc = "wait" /\ ppc' = "batch"
           \/ ppc = "batch" /\ ppc' = "write" /\ completed >= Head(held).batch
    BY PublisherAlone DEF PubTake, PubWaitBatch, BatchDone
  <1> USE DEF mvars, bvars, qvars
  <1>2. Typed' /\ Batches' /\ Walks' /\ OneWriter'
    BY <1>1 DEF IInv, Typed, Batches, Walks, OneWriter
  <1>3. BytesAwaited' /\ LastWrite'
    BY <1>1, HeadIs DEF IInv, BytesAwaited, LastWrite
  <1>4. InHand' = InHand /\ Stored' = Stored
    BY <1>1 DEF InHand, Stored
  <1>5. Numbered'
    BY <1>1, <1>4 DEF IInv, Numbered
  <1>6. NotMissed'
    <2>1. \A m : (ToRecord(m) => ToRecord(m)') /\ (ToWrite(m) => ToWrite(m)')
      BY <1>1, <1>4 DEF ToRecord, ToWrite
    <2>2. QED
      BY <1>1, <2>1 DEF IInv, NotMissed
  <1>7. QED
    BY <1>2, <1>3, <1>5, <1>6 DEF IInv

\* It writes the label ...
LEMMA PubWriteInv ==
  ASSUME IInv, PubWrite
  PROVE  IInv'
  <1>1. /\ ppc = "write" /\ ppc' = "record" /\ landed' = landed + 1
        /\ mem' = [mem EXCEPT ![Head(held).label] = Head(held).value]
        /\ satisfied' \subseteq satisfied \cup Rings
        /\ UNCHANGED <<refused, held, issued, waits, bvars, qvars>>
    BY DEF PubWrite, Store
  <1> USE DEF bvars, qvars
  <1>2. /\ held # <<>> /\ Head(held) = held[1] /\ held[1] \in HeldWrite /\ 1 \in 1 .. Len(held)
        /\ \A q \in Queues : qpc[q] \notin {"write", "record"}
        /\ InHand = 0
    BY <1>1, PublisherAlone
  <1>3. /\ mem' \in [Labels -> {0, 1}] /\ mem'[held[1].label] = held[1].value
        /\ \A m \in Labels \ {held[1].label} : mem'[m] = mem[m]
    BY <1>1, <1>2 DEF IInv, Typed, HeldWrite
  <1>4. Typed' /\ Batches' /\ Walks' /\ OneWriter'
    BY <1>1, <1>3 DEF IInv, Typed, Batches, Walks, OneWriter
  <1>5. BytesAwaited' /\ LastWrite'
    BY <1>1, <1>3 DEF IInv, BytesAwaited, LastWrite
  <1>6. InHand' = 0 /\ Stored = 0 /\ Stored' = 1
    BY <1>1, <1>2 DEF InHand, Stored
  <1>7. Numbered'
    BY <1>1, <1>2, <1>6, HeadIs DEF IInv, Numbered, Typed
  <1>8. NotMissed'
    <2>1. ToRecord(held[1].label)' /\ \A m : ~ToRecord(m)
      BY <1>1, <1>2 DEF ToRecord
    <2>2. \A m : m # held[1].label /\ ToWrite(m) => ToWrite(m)'
      BY <1>1, HeadIs DEF ToWrite, IInv
    <2>3. QED
      BY <1>1, <1>3, <2>1, <2>2 DEF IInv, NotMissed, Typed, Queues
  <1>9. QED
    BY <1>4, <1>5, <1>7, <1>8 DEF IInv

\* ... records the write ...
LEMMA PubRecordInv ==
  ASSUME IInv, PubRecord
  PROVE  IInv'
  <1>1. /\ ppc = "record" /\ ppc' = "pop" /\ Record(Head(held).label)
        /\ UNCHANGED <<held, issued, waits, walker, qpc, at, value, need, mvars, bvars>>
    BY DEF PubRecord
  <1> USE DEF mvars, bvars
  <1>2. /\ held # <<>> /\ Head(held) = held[1]
        /\ \A q \in Queues : qpc[q] \notin {"write", "record"}
    BY <1>1, PublisherAlone
  <1>3. /\ parked' \in [Rings -> {"no", "waiting", "hit"}]
        /\ \A u \in Rings : parked'[u] = "waiting" =>
             parked[u] = "waiting" /\ (at[u] = held[1].label => mem[held[1].label] # 1)
        /\ \A u \in Rings : parked[u] = "no" => parked'[u] = "no"
    BY <1>1, <1>2, RecordIs
  <1>4. Typed' /\ Batches' /\ Walks' /\ OneWriter'
    BY <1>1, <1>3 DEF IInv, Typed, Batches, Walks, OneWriter
  <1>5. BytesAwaited' /\ LastWrite'
    BY <1>1 DEF IInv, BytesAwaited, LastWrite
  <1>6. InHand' = InHand /\ Stored' = Stored
    BY <1>1 DEF InHand, Stored
  <1>7. Numbered'
    BY <1>1, <1>6 DEF IInv, Numbered
  <1>8. NotMissed'
    <2>1. \A m : m # held[1].label => ~ToRecord(m)
      BY <1>1, <1>2 DEF ToRecord
    <2>2. \A m : ToWrite(m) => ToWrite(m)'
      BY <1>1, <1>6 DEF ToWrite
    <2>3. QED
      BY <1>1, <1>3, <2>1, <2>2 DEF IInv, NotMissed
  <1>9. QED
    BY <1>4, <1>5, <1>7, <1>8 DEF IInv

\* ... and drops it from the queue.
LEMMA PubPopInv ==
  ASSUME IInv, PubPop
  PROVE  IInv'
  <1>1. /\ ppc = "pop" /\ ppc' = "wait" /\ held' = Tail(held)
        /\ UNCHANGED <<issued, waits, mvars, bvars, qvars>>
    BY DEF PubPop
  <1> USE DEF mvars, bvars, qvars
  <1>2. /\ held # <<>> /\ 1 \in 1 .. Len(held) /\ InHand = 0
        /\ \A q \in Queues : qpc[q] \notin {"write", "record"}
    BY <1>1, PublisherAlone
  <1>3. /\ held' \in Seq(HeldWrite) /\ Len(held') = Len(held) - 1 /\ Len(held) \in Nat
        /\ \A i \in 1 .. Len(held') : held'[i] = held[i + 1] /\ i + 1 \in 1 .. Len(held)
    BY <1>1, <1>2 DEF IInv, Typed
  <1>4. Typed' /\ Batches' /\ Walks' /\ OneWriter'
    BY <1>1, <1>2, <1>3 DEF IInv, Typed, Batches, Walks, OneWriter
  <1>5. BytesAwaited' /\ LastWrite'
    BY <1>1, <1>3 DEF IInv, BytesAwaited, LastWrite
  <1>6. InHand' = 0 /\ Stored = 1 /\ Stored' = 0
    BY <1>1, <1>2 DEF InHand, Stored
  <1>7. Numbered'
    <2>1. \A i \in 1 .. Len(held') : held'[i].n = (issued' - Len(held')) + i
      BY <1>1, <1>3 DEF IInv, Numbered, Typed
    <2>2. landed' = ((issued' - Len(held')) + Stored') - InHand'
      BY <1>1, <1>2, <1>3, <1>6 DEF IInv, Numbered, Typed
    <2>3. QED
      BY <2>1, <2>2 DEF Numbered
  <1>8. NotMissed'
    <2>1. \A m : ~ToRecord(m)
      BY <1>1, <1>2 DEF ToRecord
    <2>2. ASSUME NEW m, ToWrite(m)
          PROVE  ToWrite(m)'
      <3>1. PICK i \in 1 .. Len(held) : held[i].label = m /\ i > 1
        BY <2>2, <1>6 DEF ToWrite
      <3>2. i - 1 \in 1 .. Len(held') /\ held'[i - 1] = held[i]
        BY <3>1, <1>3
      <3>3. QED
        BY <3>1, <3>2, <1>6 DEF ToWrite
    <2>3. QED
      BY <1>1, <2>1, <2>2 DEF IInv, NotMissed
  <1>9. QED
    BY <1>4, <1>5, <1>7, <1>8 DEF IInv
-----------------------------------------------------------------------------
\* A reset by the title's CPU can only make a label read 0.
LEMMA CpuResetInv ==
  ASSUME IInv, NEW l \in Labels, CpuReset(l)
  PROVE  IInv'
  <1>1. mem' = [mem EXCEPT ![l] = 0] /\ UNCHANGED <<landed, satisfied, refused, bvars, hvars, qvars>>
    BY DEF CpuReset
  <1> USE DEF bvars, hvars, qvars
  <1>2. mem' \in [Labels -> {0, 1}] /\ \A m \in Labels : mem'[m] = 0 \/ mem'[m] = mem[m]
    BY <1>1 DEF IInv, Typed
  <1>3. Typed' /\ Batches' /\ Walks' /\ OneWriter' /\ BytesAwaited'
    BY <1>1, <1>2 DEF IInv, Typed, Batches, Walks, OneWriter, BytesAwaited
  <1>4. LastWrite'
    BY <1>1, <1>2, PublisherAlone DEF IInv, LastWrite, HeldWrite
  <1>5. InHand' = InHand /\ Stored' = Stored
    BY <1>1 DEF InHand, Stored
  <1>6. Numbered'
    BY <1>1, <1>5 DEF IInv, Numbered
  <1>7. NotMissed'
    <2>1. \A m : (ToRecord(m) => ToRecord(m)') /\ (ToWrite(m) => ToWrite(m)')
      BY <1>1, <1>5 DEF ToRecord, ToWrite
    <2>2. QED
      BY <1>1, <1>2, <2>1 DEF IInv, NotMissed, Typed, Queues
  <1>8. QED
    BY <1>3, <1>4, <1>6, <1>7 DEF IInv

\* The initial states satisfy the invariant.
LEMMA InitInv ==
  ASSUME Init
  PROVE  IInv
  <1>1. Typed
    <2>1. held \in Seq(HeldWrite) /\ issued \in Nat /\ satisfied \subseteq Rings
      BY DEF Init
    <2>2. /\ mem \in [Labels -> {0, 1}] /\ qpc \in [Queues -> Pcs]
          /\ value \in [Queues -> {0, 1}] /\ need \in [Queues -> Nat]
          /\ parked \in [Rings -> {"no", "waiting", "hit"}]
      BY DEF Init, Pcs
    <2>3. QED
      BY <2>1, <2>2 DEF Init, Typed
  <1>2. Batches
    BY BoundsAssumption DEF Init, Batches
  <1>3. Walks /\ OneWriter
    BY BoundsAssumption DEF Init, Walks, OneWriter, Outside, Queues
  <1>4. InHand = 0 /\ Stored = 0 /\ Len(held) = 0
    BY DEF Init, InHand, Stored
  <1>5. Numbered /\ BytesAwaited /\ LastWrite
    <2>1. 1 .. Len(held) = {}
      BY <1>4
    <2>2. landed = ((issued - Len(held)) + Stored) - InHand
      <3>1. landed = 0 /\ issued = 0
        BY DEF Init
      <3>2. QED
        BY <1>4, <3>1
    <2>3. Numbered
      BY <2>1, <2>2 DEF Numbered
    <2>4. BytesAwaited
      BY <2>1 DEF Init, BytesAwaited
    <2>5. LastWrite
      BY DEF Init, LastWrite
    <2>6. QED
      BY <2>3, <2>4, <2>5
  <1>6. NotMissed
    BY DEF Init, NotMissed
  <1>7. QED
    BY <1>1, <1>2, <1>3, <1>5, <1>6 DEF IInv

\* Every step keeps the invariant.
LEMMA NextInv ==
  ASSUME IInv, [Next]_vars
  PROVE  IInv'
  <1>1. CASE UNCHANGED vars
    <2>1. Batches' /\ completed' >= completed
      BY <1>1 DEF vars, bvars, IInv, Batches
    <2>2. QED
      BY <1>1, <2>1, BatchStep DEF vars
  <1>2. CASE Publisher
    BY <1>2, PubWaits, PubWriteInv, PubRecordInv, PubPopInv DEF Publisher
  <1>3. CASE GpuDone
    BY <1>3, BatchActions
  <1>4. ASSUME NEW l \in Labels, CpuReset(l)
        PROVE  IInv'
    BY <1>4, CpuResetInv
  <1>5. ASSUME NEW q \in Queues, GoOn(q)
        PROVE  IInv'
    <2>1. CASE WriteNow(q) \/ RecordNow(q)
      BY <2>1, WriteNowInv, RecordNowInv
    <2>2. CASE Check(q)
      BY <2>2, WaitBegins
    <2>3. CASE CheckPasses(q) \/ (q \in Rings /\ Poll(q))
      BY <2>3, WaitEnds
    <2>4. CASE q \in Rings /\ RingParks(q)
      BY <2>4, RingParksInv
    <2>5. CASE Leave(q) \/ (q = Gfx /\ (GfxMisses \/ GfxSleeps \/ GfxDeadline \/ GfxWakes))
      BY <2>5, HandOver
    <2>6. QED
      BY <1>5, <2>1, <2>2, <2>3, <2>4, <2>5 DEF GoOn
  <1>6. ASSUME NEW q \in Queues, Packet(q)
        PROVE  IInv'
    <2>1. CASE RecordWrite(q) \/ CsBatchSubmit(q) \/ Retire(q)
      BY <2>1, BatchActions
    <2>2. CASE Enter(q) \/ \E l \in Labels : MeetWait(q, l)
      BY <2>2, HandOver, WaitBegins
    <2>3. ASSUME NEW l \in Labels, NEW v \in {0, 1}, NEW k \in BOOLEAN, PublishLabel(q, l, v, k)
          PROVE  IInv'
      BY <2>3, HoldInv, ImmediateInv
    <2>4. QED
      BY <1>6, <2>1, <2>2, <2>3 DEF Packet
  <1>7. QED
    BY <1>1, <1>2, <1>3, <1>4, <1>5, <1>6 DEF Next

\* The invariant gives the order of the labels and of their bytes.
LEMMA InvLabels ==
  ASSUME IInv
  PROVE  LabelInv
  <1>1. TypeOK
    <2>1. landed <= issued
      <3>1. Stored <= Len(held) /\ Stored \in {0, 1} /\ InHand \in {0, 1} /\ Len(held) \in Nat
        BY PublisherAlone, HeadIs DEF Stored, InHand, IInv
      <3>2. QED
        BY <3>1 DEF IInv, Numbered, Typed
    <2>2. \A i \in DOMAIN held : held[i].batch \in 0 .. MaxBatch /\ held[i].label \in Labels
      BY HeadIs DEF IInv, HeldWrite
    <2>3. completed <= submitted /\ submitted <= nbatch /\ nbatch <= MaxBatch /\ publish <= nbatch
      BY BoundsAssumption DEF IInv, Batches
    <2>4. QED
      BY <2>1, <2>2, <2>3 DEF IInv, Typed, Batches, Walks, Outside, OneWriter, TypeOK
  <1>2. LabelsInOrder
    <2>1. ASSUME ppc = "record"
          PROVE  Head(held).n = landed
      BY <2>1, PublisherAlone, HeadIs DEF IInv, Numbered, Stored, Typed
    <2>2. ASSUME NEW q \in Queues, qpc[q] = "record"
          PROVE  landed = issued
      <3>1. held = <<>> /\ ppc = "wait" /\ Len(held) = 0
        BY <2>2, HeadIs DEF IInv, OneWriter
      <3>2. InHand = 0 /\ Stored = 0
        BY <2>2, <3>1, Alone DEF InHand, Stored
      <3>3. QED
        BY <3>1, <3>2 DEF IInv, Numbered, Typed
    <2>3. QED
      BY <2>1, <2>2 DEF LabelsInOrder
  <1>3. BytesFirst
    <2>1. ASSUME ppc = "record"
          PROVE  completed >= Head(held).need
      BY <2>1, PublisherAlone DEF IInv, BytesAwaited, Batches, HeldWrite
    <2>2. ASSUME NEW q \in Queues, qpc[q] = "record"
          PROVE  completed >= need[q]
      BY <2>2 DEF IInv, OneWriter, Batches
    <2>3. QED
      BY <2>1, <2>2 DEF BytesFirst
  <1>4. QED
    BY <1>1, <1>2, <1>3 DEF LabelInv

\* PublishLabel and its thread: labels reach guest memory in the order they were
\* issued, whoever writes them, and none before the bytes it announces.
THEOREM LabelsSafe == Spec => []LabelInv
  <1>1. Init => IInv
    BY InitInv
  <1>2. IInv /\ [Next]_vars => IInv'
    BY NextInv
  <1>3. IInv => LabelInv
    BY InvLabels
  <1>4. QED
    BY <1>1, <1>2, <1>3, PTL DEF Spec

\* waitOnAddress and RecordLabelWrite: a ring that parked on a label that reads
\* as it wants was marked, has a write on its way, or was turned down for data
\* that nobody knows yet.
THEOREM NoWriteMissed == Spec => []ParkedSeesWrite
  <1>1. Init => IInv
    BY InitInv
  <1>2. IInv /\ [Next]_vars => IInv'
    BY NextInv
  <1>3. IInv => ParkedSeesWrite
    <2>1. SUFFICES ASSUME IInv, NEW q \in Rings \ refused, qpc[q] = "parked", parked[q] = "waiting",
                          ~Recording(at[q]), HeldOver(at[q]) = {}
                   PROVE  mem[at[q]] # 1
      BY DEF ParkedSeesWrite
    <2>2. ~ToRecord(at[q])
      BY <2>1, PublisherAlone DEF ToRecord, Recording
    <2>3. ~ToWrite(at[q])
      BY <2>1, HeadIs DEF ToWrite, HeldOver, IInv
    <2>4. QED
      BY <2>1, <2>2, <2>3 DEF IInv, NotMissed
  <1>4. QED
    BY <1>1, <1>2, <1>3, PTL DEF Spec
=============================================================================
