---------------------------- MODULE Events_proofs ----------------------------
(***************************************************************************)
(* Proofs about event queues and paced flips as Events composes them.      *)
(*                                                                         *)
(* Equeue, for any threads, queues and argument sizes and any number of    *)
(* interrupts and flips: g_equeues names exactly the queues that exist, a  *)
(* pair has one knote, a flip event carries the index of a flip that is    *)
(* done, and Gnm events follow the GPU.                                    *)
(* Display, for any threads and any bound on flips: counts are exact, no   *)
(* label is written when its caller has left, and flips are paced.         *)
(***************************************************************************)
EXTENDS Events, FiniteSetTheorems, SequenceTheorems, TLAPS

KnoteType == [key : keys, active : BOOLEAN, data : Nat, seen : 0 .. eop]
CallType == [q : Queues, nout : Nat, timed : BOOLEAN]
TrigType == [kind : {"none", "vblank", "flip", "store", "gnm", "read"}, data : Nat]

\* What a list of knotes is like at any moment: typed, one knote per pair, and
\* no active flip knote that is ahead of the flips.
Good(ns) ==
  /\ ns \in Seq(KnoteType)
  /\ \A i, j \in DOMAIN ns : ns[i].key = ns[j].key => i = j
  /\ \A i \in DOMAIN ns : ns[i].key = "flip" /\ ns[i].active => ns[i].data < flips

Typed ==
  /\ keys \in KeySets
  /\ life \in [Queues -> {"none", "open", "closed"}]
  /\ reg \subseteq Queues
  /\ pc \in [Threads -> {"run", "watch", "wait", "return", "destroy"}]
  /\ call = [t \in Threads |-> call[t]]
  /\ omutex \in Threads \cup {Free} /\ regm \in Sources \cup {Free}
  /\ m \in [Queues -> Threads \cup {Free}]
  /\ job \in [Sources -> TrigType]
  /\ left \in [Sources -> SUBSET Queues]
  /\ eop \in 0 .. MaxEop /\ lastEop \in 0 .. eop /\ flips \in 0 .. MaxFlips
  /\ started \in BOOLEAN /\ watched \in BOOLEAN /\ stopping \in BOOLEAN

\* The knotes, and the events handed out.
NotesGood ==
  /\ notes = [q \in Queues |-> notes[q]]
  /\ \A q \in Queues : Good(notes[q])
OutDone ==
  /\ out = [t \in Threads |-> out[t]]
  /\ \A t \in Threads : \A e \in out[t] :
       e.data \in Nat /\ (e.key = "flip" => e.data < flips)

\* Only the GPU's source announces interrupts, up to the count, and every flip
\* announced is done.
JobsFit ==
  \A s \in Sources :
    /\ job[s].kind \in {"store", "gnm"} => s = "gpu" /\ job[s].data <= eop
    /\ job[s].kind = "flip" => job[s].data < flips

\* Who has queues left to visit holds g_eq_reg_m, without which none dies.
WalkHolds == \A s \in Sources : left[s] # {} => regm = s /\ left[s] \subseteq reg

\* A call holds a reference to a queue that was made; a destructor inside
\* sys_close holds the only one of a closed queue.
CallsHold ==
  \A t \in Threads :
    pc[t] # "run" =>
      /\ call[t] \in CallType
      /\ life[call[t].q] # "none"
      /\ pc[t] = "destroy" => life[call[t].q] = "closed" /\ Users(call[t].q) = {t}

Registered == reg = {q \in Queues : life[q] = "open" \/ Users(q) # {}}

IInv == /\ Typed /\ NotesGood /\ OutDone /\ JobsFit
        /\ WalkHolds /\ CallsHold /\ Registered
-----------------------------------------------------------------------------
(* Lists of knotes.                                                         *)

\* A list whose knotes keep their places and pairs stays good.
LEMMA Mapped ==
  ASSUME NEW ns, Good(ns), NEW f \in [DOMAIN ns -> KnoteType],
         \A i \in DOMAIN ns : f[i].key = ns[i].key,
         \A i \in DOMAIN ns : f[i].key = "flip" /\ f[i].active => f[i].data < flips
  PROVE  Good(f)
  <1>1. DOMAIN ns = 1 .. Len(ns) /\ Len(ns) \in Nat
    BY DEF Good
  <1>2. f \in Seq(KnoteType) /\ DOMAIN f = DOMAIN ns
    BY <1>1
  <1>3. QED
    BY <1>2 DEF Good

\* The knotes of a good list.
LEMMA KnoteTyped ==
  ASSUME NEW ns, Good(ns), NEW i \in DOMAIN ns
  PROVE  ns[i] \in KnoteType /\ ns[i].data \in Nat /\ ns[i].seen \in 0 .. eop
  <1>1. ns[i] \in KnoteType
    BY DEF Good
  <1>2. QED
    BY <1>1 DEF KnoteType

\* EV_ADD: a new pair goes to the end, a known one is reset in place.
LEMMA RegisterGood ==
  ASSUME Typed, NEW ns, Good(ns), NEW k \in keys
  PROVE  Good(Register(ns, k))
  <1>1. CASE Find(ns, k) = {}
    <2>1. Knote(k) \in KnoteType /\ Knote(k).key = k /\ ~Knote(k).active
      BY DEF Knote, KnoteType, Typed
    <2>2. /\ Append(ns, Knote(k)) \in Seq(KnoteType)
          /\ DOMAIN Append(ns, Knote(k)) = 1 .. Len(ns) + 1 /\ DOMAIN ns = 1 .. Len(ns)
          /\ Len(ns) \in Nat
          /\ \A i \in DOMAIN ns : Append(ns, Knote(k))[i] = ns[i]
          /\ Append(ns, Knote(k))[Len(ns) + 1] = Knote(k)
      BY <2>1 DEF Good
    <2>3. \A i \in DOMAIN ns : ns[i].key # k
      BY <1>1 DEF Find
    <2>4. \A i \in 1 .. Len(ns) + 1 : i \in DOMAIN ns \/ i = Len(ns) + 1
      BY <2>2
    <2>5. \A i, j \in 1 .. Len(ns) + 1 :
            Append(ns, Knote(k))[i].key = Append(ns, Knote(k))[j].key => i = j
      BY <2>1, <2>2, <2>3, <2>4 DEF Good
    <2>6. \A i \in 1 .. Len(ns) + 1 :
            /\ Append(ns, Knote(k))[i].key = "flip" /\ Append(ns, Knote(k))[i].active
            => Append(ns, Knote(k))[i].data < flips
      BY <2>1, <2>2, <2>4 DEF Good
    <2>7. Good(Append(ns, Knote(k)))
      BY <2>2, <2>5, <2>6 DEF Good
    <2>8. QED
      BY <1>1, <2>7 DEF Register
  <1>2. CASE Find(ns, k) # {}
    <2> DEFINE f == [i \in DOMAIN ns |->
                       IF ns[i].key = k THEN [ns[i] EXCEPT !.active = FALSE, !.data = 0]
                       ELSE ns[i]]
    <2>1. \A i \in DOMAIN ns : ns[i] \in KnoteType
      BY DEF Good
    <2>2. \A i \in DOMAIN ns :
            /\ f[i] \in KnoteType /\ f[i].key = ns[i].key
            /\ f[i] = ns[i] \/ ~f[i].active
      BY <2>1 DEF KnoteType
    <2>3. f \in [DOMAIN ns -> KnoteType] /\ Register(ns, k) = f
      BY <1>2, <2>2 DEF Register
    <2> HIDE DEF f
    <2>4. \A i \in DOMAIN ns : f[i].key = "flip" /\ f[i].active => f[i].data < flips
      BY <2>2 DEF Good
    <2>5. QED
      BY <2>2, <2>3, <2>4, Mapped
  <1>3. QED
    BY <1>1, <1>2

\* EV_DELETE takes one knote out of a good list: where each knote goes.
LEMMA EraseIs ==
  ASSUME NEW ns, Good(ns), NEW k, Find(ns, k) # {}
  PROVE  \E j \in DOMAIN ns :
           /\ ns[j].key = k
           /\ Erase(ns, k) = [i \in 1 .. Len(ns) - 1 |-> IF i < j THEN ns[i] ELSE ns[i + 1]]
  <1> DEFINE j == CHOOSE i \in Find(ns, k) : \A h \in Find(ns, k) : i <= h
  <1>1. PICK i \in DOMAIN ns : ns[i].key = k
    BY DEF Find
  <1>2. Find(ns, k) = {i} /\ i \in Int
    BY <1>1 DEF Find, Good
  <1>3. j = i
    BY <1>2
  <1>4. QED
    BY <1>1, <1>3 DEF Erase

\* ... and what is left is good.
LEMMA EraseGood ==
  ASSUME NEW ns, Good(ns), NEW k
  PROVE  Good(Erase(ns, k))
  <1>1. CASE Find(ns, k) = {}
    BY <1>1 DEF Erase
  <1>2. CASE Find(ns, k) # {}
    <2>1. PICK j \in DOMAIN ns :
            Erase(ns, k) = [i \in 1 .. Len(ns) - 1 |-> IF i < j THEN ns[i] ELSE ns[i + 1]]
      BY <1>2, EraseIs
    <2> DEFINE e == Erase(ns, k)
               at(i) == IF i < j THEN i ELSE i + 1
    <2>2. Len(ns) \in Nat /\ DOMAIN ns = 1 .. Len(ns) /\ Len(ns) - 1 \in Nat /\ j \in Nat
      BY DEF Good
    <2>3. \A i \in 1 .. Len(ns) - 1 : at(i) \in DOMAIN ns /\ e[i] = ns[at(i)]
      BY <2>1, <2>2
    <2>4. \A i, h \in 1 .. Len(ns) - 1 : at(i) = at(h) => i = h
      BY <2>2
    <2>5. \A i \in DOMAIN ns : ns[i] \in KnoteType
      BY DEF Good
    <2>6. e \in Seq(KnoteType) /\ DOMAIN e = 1 .. Len(ns) - 1
      BY <2>1, <2>2, <2>3, <2>5
    <2> HIDE DEF e, at
    <2>7. ASSUME NEW i \in DOMAIN e, NEW h \in DOMAIN e, e[i].key = e[h].key
          PROVE  i = h
      <3>1. at(i) \in DOMAIN ns /\ at(h) \in DOMAIN ns /\ e[i] = ns[at(i)] /\ e[h] = ns[at(h)]
        BY <2>3, <2>6
      <3>2. at(i) = at(h)
        BY <2>7, <3>1 DEF Good
      <3>3. QED
        BY <2>4, <2>6, <3>2
    <2>8. \A i \in DOMAIN e : e[i].key = "flip" /\ e[i].active => e[i].data < flips
      BY <2>3, <2>6 DEF Good
    <2>9. Good(e)
      BY <2>6, <2>7, <2>8 DEF Good
    <2>10. QED
      BY <2>9 DEF e
  <1>3. QED
    BY <1>1, <1>2

\* A change is nothing, an EV_ADD, an EV_DELETE or a NOTE_TRIGGER.
LEMMA ChangeForms ==
  ASSUME NEW change \in Changes
  PROVE  \/ change = NoChange
         \/ \E k \in keys : change = <<"add", k>>
         \/ \E k \in keys : change = <<"delete", k>>
         \/ change = <<"trigger", "user">>
  BY DEF Changes, NoChange

\* What each of them makes of the list.
LEMMA ChangedIs ==
  ASSUME NEW ns, NEW k
  PROVE  /\ Changed(ns, NoChange) = ns
         /\ Changed(ns, <<"add", k>>) = Register(ns, k)
         /\ Changed(ns, <<"delete", k>>) = Erase(ns, k)
         /\ Changed(ns, <<"trigger", k>>) =
              [i \in DOMAIN ns |->
                 IF ns[i].key = "user" THEN [ns[i] EXCEPT !.active = TRUE] ELSE ns[i]]
  BY DEF Changed, NoChange

\* One entry of a changelist.
LEMMA ChangedGood ==
  ASSUME Typed, NEW ns, Good(ns), NEW change \in Changes
  PROVE  Good(Changed(ns, change))
  <1>1. CASE change = NoChange
    BY <1>1, ChangedIs
  <1>2. ASSUME NEW k \in keys, change = <<"add", k>> PROVE Good(Changed(ns, change))
    <2>1. Changed(ns, change) = Register(ns, k)
      BY <1>2, ChangedIs
    <2>2. QED
      BY <2>1, RegisterGood
  <1>3. ASSUME NEW k \in keys, change = <<"delete", k>> PROVE Good(Changed(ns, change))
    <2>1. Changed(ns, change) = Erase(ns, k)
      BY <1>3, ChangedIs
    <2>2. QED
      BY <2>1, EraseGood
  <1>4. CASE change = <<"trigger", "user">>
    <2> DEFINE f == [i \in DOMAIN ns |->
                       IF ns[i].key = "user" THEN [ns[i] EXCEPT !.active = TRUE] ELSE ns[i]]
    <2>1. \A i \in DOMAIN ns : ns[i] \in KnoteType
      BY DEF Good
    <2>2. \A i \in DOMAIN ns :
            /\ f[i] \in KnoteType /\ f[i].key = ns[i].key
            /\ f[i] = ns[i] \/ f[i].key = "user"
      BY <2>1 DEF KnoteType
    <2>3. Good(f)
      BY <2>2, Mapped DEF Good
    <2>4. QED
      BY <1>4, <2>3, ChangedIs
  <1>5. QED
    BY <1>1, <1>2, <1>3, <1>4, ChangeForms

\* Re-arming touches Gnm knotes only.
LEMMA RearmGood ==
  ASSUME Typed, NEW ns, Good(ns)
  PROVE  Good(Rearm(ns))
  <1> DEFINE f == Rearm(ns)
  <1>1. \A i \in DOMAIN ns : ns[i] \in KnoteType
    BY DEF Good
  <1>2. lastEop \in Nat
    BY DEF Typed
  <1>3. f \in [DOMAIN ns -> KnoteType]
    BY <1>1, <1>2 DEF Rearm, KnoteType
  <1>4. \A i \in DOMAIN ns : f[i].key = ns[i].key /\ (f[i] = ns[i] \/ f[i].key = "gnm")
    BY <1>1 DEF Rearm, KnoteType
  <1>5. QED
    BY <1>3, <1>4, Mapped DEF Good

\* Collecting only makes knotes inactive.
LEMMA CollectedGood ==
  ASSUME Typed, NEW ns, Good(ns), NEW nout
  PROVE  Good(Collected(ns, nout))
  <1> DEFINE f == Collected(ns, nout)
  <1>1. \A i \in DOMAIN ns : ns[i] \in KnoteType
    BY DEF Good
  <1>2. eop \in 0 .. eop
    BY DEF Typed
  <1>3. f \in [DOMAIN ns -> KnoteType]
    BY <1>1, <1>2 DEF Collected, KnoteType
  <1>4. \A i \in DOMAIN ns : f[i].key = ns[i].key /\ (f[i] = ns[i] \/ ~f[i].active)
    BY <1>1 DEF Collected, KnoteType
  <1>5. QED
    BY <1>3, <1>4, Mapped DEF Good

\* What is collected was active, so its flip is done.
LEMMA EventsDone ==
  ASSUME NEW ns, Good(ns), NEW nout, NEW e \in Events(ns, nout)
  PROVE  e.data \in Nat /\ (e.key = "flip" => e.data < flips)
  <1>1. PICK i \in Taken(ns, nout) : e = [key |-> ns[i].key, data |-> ns[i].data]
    BY DEF Events
  <1>2. i \in DOMAIN ns /\ ns[i].active
    BY DEF Taken, Active
  <1>3. ns[i].data \in Nat
    BY <1>2, KnoteTyped
  <1>4. QED
    BY <1>1, <1>2, <1>3 DEF Good

\* A trigger activates its own kind.
LEMMA TriggeredGood ==
  ASSUME Typed, NEW ns, Good(ns), NEW trig \in TrigType,
         trig.kind = "flip" => trig.data < flips
  PROVE  Good(Triggered(ns, trig))
  <1> DEFINE f == Triggered(ns, trig)
  <1>1. \A i \in DOMAIN ns : ns[i] \in KnoteType
    BY DEF Good
  <1>2. trig.data \in Nat
    BY DEF TrigType
  <1>3. f \in [DOMAIN ns -> KnoteType]
    BY <1>1, <1>2 DEF Triggered, KnoteType
  <1>4. \A i \in DOMAIN ns :
          /\ f[i].key = ns[i].key
          /\ f[i] = ns[i] \/ (f[i].key = trig.kind /\ f[i].data = trig.data)
    BY <1>1 DEF Triggered, KnoteType, Matches
  <1>5. QED
    BY <1>3, <1>4, Mapped DEF Good
-----------------------------------------------------------------------------
(* What a step that leaves something alone keeps.                           *)

\* The counts of interrupts and flips only grow, and the lists stay good.
LEMMA NotesKept ==
  ASSUME IInv, UNCHANGED <<keys, notes, out>>, eop' \in Nat, flips' \in Nat,
         eop <= eop', flips <= flips'
  PROVE  NotesGood' /\ OutDone'
  <1>1. eop \in Nat /\ flips \in Nat
    BY DEF IInv, Typed
  <1>2. KnoteType \subseteq KnoteType'
    BY <1>1 DEF KnoteType
  <1>3. ASSUME NEW q \in Queues PROVE Good(notes[q])'
    <2>1. Good(notes[q])
      BY DEF IInv, NotesGood
    <2>2. \A i \in DOMAIN notes[q] : notes[q][i].data \in Nat
      BY <2>1, KnoteTyped
    <2>3. notes[q] \in Seq(KnoteType')
      <3>1. Len(notes[q]) \in Nat /\ notes[q] \in [1 .. Len(notes[q]) -> KnoteType]
        BY <2>1 DEF Good
      <3>2. notes[q] \in [1 .. Len(notes[q]) -> KnoteType']
        BY <1>2, <3>1
      <3>3. QED
        BY <3>1, <3>2
    <2>4. \A i \in DOMAIN notes[q] :
            notes[q][i].key = "flip" /\ notes[q][i].active => notes[q][i].data < flips'
      BY <1>1, <2>1, <2>2 DEF Good
    <2>5. QED
      BY <2>1, <2>3, <2>4 DEF Good
  <1>4. NotesGood'
    BY <1>3 DEF IInv, NotesGood
  <1>5. ASSUME NEW t \in Threads, NEW e \in out[t], e.key = "flip"
        PROVE  e.data < flips'
    BY <1>1, <1>5 DEF IInv, OutDone
  <1>6. OutDone'
    BY <1>5 DEF IInv, OutDone
  <1>7. QED
    BY <1>4, <1>6

\* One list is replaced by another good one.
LEMMA NotesChanged ==
  ASSUME IInv, UNCHANGED <<keys, eop, flips>>, NEW q \in Queues, NEW ns, Good(ns),
         notes' = [notes EXCEPT ![q] = ns]
  PROVE  NotesGood'
  <1>1. \A p \in Queues : Good(notes'[p])
    BY DEF IInv, NotesGood
  <1>2. KnoteType' = KnoteType
    BY DEF KnoteType
  <1>3. \A p \in Queues : Good(notes[p])'
    BY <1>1, <1>2 DEF Good
  <1>4. QED
    BY <1>3 DEF NotesGood, IInv

\* One call's events are replaced by events of flips that are done.
LEMMA OutChanged ==
  ASSUME IInv, flips' = flips, NEW t \in Threads, NEW es,
         \A e \in es : e.data \in Nat /\ (e.key = "flip" => e.data < flips),
         out' = [out EXCEPT ![t] = es]
  PROVE  OutDone'
  BY DEF IInv, OutDone

\* The registry, the walks and the references are left alone.
LEMMA RegistryKept ==
  ASSUME IInv, UNCHANGED <<life, reg, pc, call, regm, left>>
  PROVE  WalkHolds' /\ CallsHold' /\ Registered'
  <1>1. \A q : Users(q)' = Users(q)
    BY DEF Users
  <1>2. WalkHolds' /\ CallsHold' /\ Registered'
    BY <1>1 DEF IInv, WalkHolds, CallsHold, Registered, CallType
  <1>3. QED
    BY <1>2
-----------------------------------------------------------------------------
(* The triggering threads.                                                  *)

\* The steps of the sources outside a walk keep the queues and the calls alone.
LEMMA SourceInv ==
  ASSUME IInv, UNCHANGED <<kept, locks, threads, left>>, Typed', JobsFit',
         eop <= eop', flips <= flips'
  PROVE  IInv'
  <1>1. eop' \in Nat /\ flips' \in Nat
    BY DEF Typed
  <1>2. NotesGood' /\ OutDone'
    BY <1>1, NotesKept DEF kept, threads
  <1>3. WalkHolds' /\ CallsHold' /\ Registered'
    BY RegistryKept DEF kept, locks, threads
  <1>4. QED
    BY <1>2, <1>3 DEF IInv

\* guest::RequestStop.
LEMMA StopInv == ASSUME IInv, Stop PROVE IInv'
  <1>1. UNCHANGED <<kept, locks, threads, left, job, eop, flips, started, watched, lastEop>>
    BY DEF Stop, walks
  <1>2. stopping' = TRUE
    BY DEF Stop
  <1>3. Typed'
    BY <1>1, <1>2 DEF IInv, Typed, kept, locks, threads
  <1>4. JobsFit'
    BY <1>1 DEF IInv, JobsFit
  <1>5. eop <= eop' /\ flips <= flips'
    BY <1>1 DEF IInv, Typed
  <1>6. QED
    BY <1>1, <1>3, <1>4, <1>5, SourceInv

\* A new tick of the pump, and the watcher's news.
LEMMA NewsInv == ASSUME IInv, PumpTick \/ WatchReady PROVE IInv'
  <1>1. UNCHANGED <<kept, locks, threads, left, globals>>
    BY DEF PumpTick, WatchReady
  <1>2. PICK s \in Sources, trig \in TrigType :
          job' = [job EXCEPT ![s] = trig] /\ trig.kind \in {"vblank", "read"}
    <2>1. /\ Trig("vblank", 0) \in TrigType /\ Trig("vblank", 0).kind = "vblank"
          /\ Trig("read", 1) \in TrigType /\ Trig("read", 1).kind = "read"
          /\ "pump" \in Sources /\ "watch" \in Sources
      BY DEF Trig, TrigType, Sources
    <2>2. QED
      BY <2>1 DEF PumpTick, WatchReady
  <1>3. Typed'
    BY <1>1, <1>2 DEF IInv, Typed, kept, locks, threads, globals
  <1>4. JobsFit'
    BY <1>1, <1>2 DEF IInv, Typed, JobsFit, globals
  <1>5. eop <= eop' /\ flips <= flips'
    BY <1>1 DEF IInv, Typed, globals
  <1>6. QED
    BY <1>1, <1>3, <1>4, <1>5, SourceInv

\* An interrupt is counted before anybody hears of it.
LEMMA EopCountInv == ASSUME IInv, EopCount PROVE IInv'
  <1>1. /\ UNCHANGED <<kept, locks, threads, left, started, watched, lastEop, flips, stopping>>
        /\ eop < MaxEop /\ eop' = eop + 1
        /\ job' = [job EXCEPT !["gpu"] = Trig("store", eop + 1)]
    BY DEF EopCount
  <1>2. eop \in Nat /\ eop' \in 0 .. MaxEop /\ flips \in Nat /\ lastEop \in 0 .. eop'
    BY <1>1, EqueueAssumptions DEF IInv, Typed
  <1>3. /\ Trig("store", eop + 1) \in TrigType /\ Trig("store", eop + 1).kind = "store"
        /\ Trig("store", eop + 1).data = eop' /\ "gpu" \in Sources
    BY <1>1, <1>2 DEF Trig, TrigType, Sources
  <1>4. Typed'
    BY <1>1, <1>2, <1>3 DEF IInv, Typed, kept, locks, threads
  <1>5. JobsFit'
    <2>1. \A s \in Sources : job[s].data \in Nat
      BY DEF IInv, Typed, TrigType
    <2>2. QED
      BY <1>1, <1>2, <1>3, <2>1 DEF IInv, Typed, JobsFit
  <1>6. eop <= eop' /\ flips <= flips'
    BY <1>1, <1>2
  <1>7. QED
    BY <1>1, <1>4, <1>5, <1>6, SourceInv

\* Its data is stored, then it is fanned out.
LEMMA EopStoreInv == ASSUME IInv, EopStore PROVE IInv'
  <1>1. /\ UNCHANGED <<kept, locks, threads, left, started, watched, eop, flips, stopping>>
        /\ job["gpu"].kind = "store" /\ lastEop' = job["gpu"].data
        /\ job' = [job EXCEPT !["gpu"] = Trig("gnm", lastEop')]
    BY DEF EopStore
  <1>2. "gpu" \in Sources /\ eop \in Nat /\ flips \in Nat /\ lastEop' \in 0 .. eop
    <2>1. "gpu" \in Sources
      BY DEF Sources
    <2>2. job["gpu"].data <= eop /\ job["gpu"].data \in Nat
      BY <1>1, <2>1 DEF IInv, JobsFit, Typed, TrigType
    <2>3. QED
      BY <1>1, <2>1, <2>2 DEF IInv, Typed
  <1>3. /\ Trig("gnm", lastEop') \in TrigType /\ Trig("gnm", lastEop').kind = "gnm"
        /\ Trig("gnm", lastEop').data = lastEop'
    BY <1>2 DEF Trig, TrigType
  <1>4. Typed'
    BY <1>1, <1>2, <1>3 DEF IInv, Typed, kept, locks, threads
  <1>5. JobsFit'
    BY <1>1, <1>2, <1>3 DEF IInv, Typed, JobsFit
  <1>6. eop <= eop' /\ flips <= flips'
    BY <1>1, <1>2
  <1>7. QED
    BY <1>1, <1>4, <1>5, <1>6, SourceInv

\* A flip is counted before its index is announced.
LEMMA NoteFlipInv == ASSUME IInv, NoteFlip PROVE IInv'
  <1>1. /\ UNCHANGED <<kept, locks, threads, left, started, watched, eop, lastEop, stopping>>
        /\ flips < MaxFlips /\ flips' = flips + 1
        /\ job' = [job EXCEPT !["flip"] = Trig("flip", flips)]
    BY DEF NoteFlip
  <1>2. eop \in Nat /\ flips \in Nat /\ flips' \in 0 .. MaxFlips
    BY <1>1, EqueueAssumptions DEF IInv, Typed
  <1>3. /\ Trig("flip", flips) \in TrigType /\ Trig("flip", flips).kind = "flip"
        /\ Trig("flip", flips).data = flips /\ "flip" \in Sources
    BY <1>2 DEF Trig, TrigType, Sources
  <1>4. Typed'
    BY <1>1, <1>2, <1>3 DEF IInv, Typed, kept, locks, threads
  <1>5. JobsFit'
    <2>1. \A s \in Sources : job[s].data \in Nat
      BY DEF IInv, Typed, TrigType
    <2>2. QED
      BY <1>1, <1>2, <1>3, <2>1 DEF IInv, Typed, JobsFit
  <1>6. eop <= eop' /\ flips <= flips'
    BY <1>1, <1>2
  <1>7. QED
    BY <1>1, <1>4, <1>5, <1>6, SourceInv

\* A walk starts on the queues that exist, under g_eq_reg_m.
LEMMA WalkBeginInv == ASSUME IInv, NEW s \in Sources, WalkBegin(s) PROVE IInv'
  <1>1. /\ UNCHANGED <<kept, omutex, m, threads, job, globals>>
        /\ regm = Free /\ regm' = s /\ left' = [left EXCEPT ![s] = reg]
    BY DEF WalkBegin
  <1>2. Typed'
    BY <1>1 DEF IInv, Typed, kept, threads, globals
  <1>3. JobsFit'
    BY <1>1 DEF IInv, JobsFit, globals
  <1>4. NotesGood' /\ OutDone'
    BY <1>1, <1>2, NotesKept DEF kept, threads, globals, Typed, IInv
  <1>5. WalkHolds'
    <2>1. \A u \in Sources : left[u] = {}
      BY <1>1 DEF IInv, WalkHolds, Free, Sources
    <2>2. QED
      BY <1>1, <2>1 DEF IInv, WalkHolds, Typed, kept
  <1>6. CallsHold' /\ Registered'
    <2>1. \A q : Users(q)' = Users(q)
      BY <1>1 DEF Users, threads
    <2>2. QED
      BY <1>1, <2>1 DEF IInv, CallsHold, Registered, CallType, kept, threads
  <1>7. QED
    BY <1>2, <1>3, <1>4, <1>5, <1>6 DEF IInv

\* It triggers one queue.
LEMMA WalkStepInv ==
  ASSUME IInv, NEW s \in Sources, NEW q \in Queues, WalkStep(s, q) PROVE IInv'
  <1>1. /\ UNCHANGED <<keys, life, reg, locks, threads, job, globals>>
        /\ regm = s /\ q \in left[s]
        /\ notes' = [notes EXCEPT ![q] = Triggered(notes[q], job[s])]
        /\ left' = [left EXCEPT ![s] = left[s] \ {q}]
    BY DEF WalkStep
  <1>2. Typed'
    BY <1>1 DEF IInv, Typed, locks, threads, globals
  <1>3. JobsFit'
    BY <1>1 DEF IInv, JobsFit, globals
  <1>4. NotesGood'
    <2>1. Good(notes[q]) /\ job[s] \in TrigType /\ (job[s].kind = "flip" => job[s].data < flips)
      BY DEF IInv, NotesGood, Typed, JobsFit
    <2>2. Good(Triggered(notes[q], job[s]))
      BY <2>1, TriggeredGood DEF IInv
    <2>3. QED
      BY <1>1, <2>2, NotesChanged DEF globals
  <1>5. OutDone'
    BY <1>1 DEF IInv, OutDone, threads, globals
  <1>6. WalkHolds'
    BY <1>1 DEF IInv, WalkHolds, Typed, locks
  <1>7. CallsHold' /\ Registered'
    <2>1. \A p : Users(p)' = Users(p)
      BY <1>1 DEF Users, threads
    <2>2. QED
      BY <1>1, <2>1 DEF IInv, CallsHold, Registered, CallType, threads
  <1>8. QED
    BY <1>2, <1>3, <1>4, <1>5, <1>6, <1>7 DEF IInv

\* It ends; the pump goes on with the last flip that is done.
LEMMA WalkEndInv == ASSUME IInv, NEW s \in Sources, WalkEnd(s) PROVE IInv'
  <1>1. /\ UNCHANGED <<kept, omutex, m, threads, left, globals>>
        /\ regm = s /\ left[s] = {} /\ regm' = Free
    BY DEF WalkEnd
  <1>2. PICK trig \in TrigType :
          /\ job' = [job EXCEPT ![s] = trig]
          /\ trig.kind \in {"none", "flip"}
          /\ trig.kind = "flip" => trig.data < flips
    <2>1. flips \in Nat
      BY DEF IInv, Typed
    <2>2. NoJob \in TrigType /\ NoJob.kind = "none"
      BY DEF NoJob, Trig, TrigType
    <2>3. flips > 0 => /\ PumpFlip \in TrigType
                       /\ PumpFlip.kind = "flip" /\ PumpFlip.data < flips
      BY <2>1 DEF PumpFlip, Trig, TrigType
    <2>4. QED
      BY <2>2, <2>3 DEF WalkEnd
  <1>3. Typed'
    BY <1>1, <1>2 DEF IInv, Typed, kept, threads, globals
  <1>4. JobsFit'
    BY <1>1, <1>2 DEF IInv, JobsFit, Typed, globals
  <1>5. NotesGood' /\ OutDone'
    BY <1>1, <1>3, NotesKept DEF kept, threads, globals, Typed, IInv
  <1>6. WalkHolds'
    BY <1>1 DEF IInv, WalkHolds
  <1>7. CallsHold' /\ Registered'
    <2>1. \A q : Users(q)' = Users(q)
      BY <1>1 DEF Users, threads
    <2>2. QED
      BY <1>1, <2>1 DEF IInv, CallsHold, Registered, CallType, kept, threads
  <1>8. QED
    BY <1>3, <1>4, <1>5, <1>6, <1>7 DEF IInv
-----------------------------------------------------------------------------
(* Guest threads.                                                           *)

\* Step 2 of Kevent: what it collects from, and why it would sleep.
LEMMA Collects ==
  ASSUME IInv, NEW t \in Threads, NEW c \in CallType, NEW ns, Good(ns),
         CollectOrSleep(t, c, ns)
  PROVE  \E armed :
           /\ Good(armed) /\ (armed = ns \/ armed = Rearm(ns))
           /\ notes' = [notes EXCEPT ![c.q] = Collected(armed, c.nout)]
           /\ out' = [out EXCEPT ![t] = Events(armed, c.nout)]
           /\ \/ pc' = [pc EXCEPT ![t] = "return"]
              \/ pc' = [pc EXCEPT ![t] = "wait"] /\ armed = Rearm(ns) /\ Active(armed) = {}
  <1>1. c.nout \in Nat /\ Good(Rearm(ns))
    BY RearmGood DEF CallType, IInv
  <1>2. CASE c.nout = 0
    <2>1. /\ notes' = [notes EXCEPT ![c.q] = Collected(ns, c.nout)]
          /\ out' = [out EXCEPT ![t] = Events(ns, c.nout)]
          /\ pc' = [pc EXCEPT ![t] = "return"]
      BY <1>1, <1>2 DEF CollectOrSleep
    <2>2. QED
      BY <2>1
  <1>3. CASE c.nout > 0
    <2>1. /\ notes' = [notes EXCEPT ![c.q] = Collected(Rearm(ns), c.nout)]
          /\ out' = [out EXCEPT ![t] = Events(Rearm(ns), c.nout)]
          /\ \/ pc' = [pc EXCEPT ![t] = "return"]
             \/ pc' = [pc EXCEPT ![t] = "wait"] /\ Active(Rearm(ns)) = {}
      BY <1>1, <1>3 DEF CollectOrSleep
    <2>2. QED
      BY <1>1, <2>1
  <1>4. QED
    BY <1>1, <1>2, <1>3

\* ... and what it leaves behind.
LEMMA CollectsInv ==
  ASSUME IInv, NEW t \in Threads, NEW c \in CallType, NEW ns, Good(ns),
         CollectOrSleep(t, c, ns), UNCHANGED <<keys, eop, flips>>
  PROVE  /\ NotesGood' /\ OutDone'
         /\ \E l \in {"wait", "return"} : pc' = [pc EXCEPT ![t] = l]
  <1>1. PICK armed :
          /\ Good(armed)
          /\ notes' = [notes EXCEPT ![c.q] = Collected(armed, c.nout)]
          /\ out' = [out EXCEPT ![t] = Events(armed, c.nout)]
          /\ \E l \in {"wait", "return"} : pc' = [pc EXCEPT ![t] = l]
    BY Collects
  <1>2. Good(Collected(armed, c.nout)) /\ c.q \in Queues
    BY <1>1, CollectedGood DEF IInv, CallType
  <1>3. NotesGood'
    BY <1>1, <1>2, NotesChanged
  <1>4. OutDone'
    BY <1>1, EventsDone, OutChanged
  <1>5. QED
    BY <1>1, <1>3, <1>4

\* A call takes a reference to an open queue.
LEMMA EnterRegistry ==
  ASSUME IInv, NEW t \in Threads, NEW c \in CallType, NEW l \in {"watch", "wait", "return"},
         pc[t] = "run", life[c.q] = "open", pc' = [pc EXCEPT ![t] = l],
         call' = [call EXCEPT ![t] = c], UNCHANGED <<life, reg, regm, left>>
  PROVE  WalkHolds' /\ CallsHold' /\ Registered'
  <1>1. /\ pc'[t] = l /\ call'[t] = c
        /\ \A u \in Threads \ {t} : pc'[u] = pc[u] /\ call'[u] = call[u]
    BY DEF IInv, Typed
  <1>2. \A q : Users(q)' = IF q = c.q THEN Users(q) \cup {t} ELSE Users(q)
    BY <1>1 DEF Users
  <1>3. WalkHolds'
    BY DEF IInv, WalkHolds
  <1>4. Registered'
    BY <1>2 DEF IInv, Registered
  <1>5. ASSUME NEW u \in Threads, pc'[u] # "run"
        PROVE  /\ call'[u] \in CallType' /\ life'[call'[u].q] # "none"
               /\ pc'[u] = "destroy" => /\ life'[call'[u].q] = "closed"
                                        /\ Users(call[u].q)' = {u}
    <2>1. CASE u = t
      BY <1>1, <2>1 DEF CallType
    <2>2. CASE u # t
      <3>1. pc'[u] = pc[u] /\ call'[u] = call[u]
        BY <1>1, <2>2
      <3>2. QED
        BY <1>2, <1>5, <2>2, <3>1 DEF IInv, CallsHold, CallType
    <2>3. QED
      BY <2>1, <2>2
  <1>6. CallsHold'
    BY <1>5 DEF CallsHold, Users
  <1>7. QED
    BY <1>3, <1>4, <1>6

\* A call goes on inside.
LEMMA StayRegistry ==
  ASSUME IInv, NEW t \in Threads, NEW l \in {"wait", "return"},
         pc[t] \in {"watch", "wait"}, pc' = [pc EXCEPT ![t] = l],
         UNCHANGED <<call, life, reg, regm, left>>
  PROVE  WalkHolds' /\ CallsHold' /\ Registered'
  <1>1. pc'[t] = l /\ \A u \in Threads \ {t} : pc'[u] = pc[u]
    BY DEF IInv, Typed
  <1>2. \A q : Users(q)' = Users(q)
    BY <1>1 DEF Users
  <1>3. WalkHolds' /\ Registered'
    BY <1>2 DEF IInv, WalkHolds, Registered
  <1>4. CallsHold'
    BY <1>1, <1>2 DEF IInv, CallsHold, CallType
  <1>5. QED
    BY <1>3, <1>4

\* A call comes back and drops its reference; the queue goes with the last one.
LEMMA LeaveRegistry ==
  ASSUME IInv, NEW t \in Threads, pc[t] # "run",
         pc' = [pc EXCEPT ![t] = "run"], call' = [call EXCEPT ![t] = NoCall],
         UNCHANGED <<life, regm, left>>,
         LET q == call[t].q
             dies == life[q] = "closed" /\ Users(q) = {t}
         IN (dies => regm = Free) /\ reg' = IF dies THEN reg \ {q} ELSE reg
  PROVE  WalkHolds' /\ CallsHold' /\ Registered'
  <1> DEFINE dies == life[call[t].q] = "closed" /\ Users(call[t].q) = {t}
  <1>0. PICK q : q = call[t].q
    OBVIOUS
  <1>1. /\ pc'[t] = "run" /\ q \in Queues /\ life[q] \in {"open", "closed"}
        /\ \A u \in Threads \ {t} : pc'[u] = pc[u] /\ call'[u] = call[u]
    BY <1>0 DEF IInv, Typed, CallsHold, CallType
  <1>2. t \in Users(q) /\ \A p : Users(p)' = Users(p) \ {t}
    BY <1>0, <1>1 DEF Users
  <1>3. \A p : p # q => t \notin Users(p)
    BY <1>0 DEF Users
  <1>4. Registered'
    <2>1. \A p \in Queues \ {q} : Users(p)' = Users(p)
      BY <1>2, <1>3
    <2>2. ~dies => (life[q] = "open" \/ Users(q)' # {})
      BY <1>0, <1>1, <1>2
    <2>3. dies => ~(life[q] = "open" \/ Users(q)' # {})
      BY <1>0, <1>2
    <2>4. q \in reg
      BY <1>1, <1>2 DEF IInv, Registered
    <2>5. reg' = IF dies THEN reg \ {q} ELSE reg
      BY <1>0
    <2> HIDE DEF dies
    <2>6. QED
      BY <1>1, <2>1, <2>2, <2>3, <2>4, <2>5 DEF IInv, Registered
  <1>5. WalkHolds'
    <2>1. CASE dies
      BY <2>1 DEF IInv, WalkHolds, Free, Sources
    <2>2. CASE ~dies
      BY <2>2 DEF IInv, WalkHolds
    <2>3. QED
      BY <2>1, <2>2
  <1>6. CallsHold'
    <2> SUFFICES ASSUME NEW u \in Threads, u # t, pc[u] # "run"
                 PROVE  /\ call[u] \in CallType /\ life[call[u].q] # "none"
                        /\ pc[u] = "destroy" => /\ life[call[u].q] = "closed"
                                                /\ Users(call[u].q) \ {t} = {u}
      BY <1>1, <1>2 DEF CallsHold, CallType
    <2>1. QED
      BY DEF IInv, CallsHold
  <1>7. QED
    BY <1>4, <1>5, <1>6

\* A new queue is registered.
LEMMA KqueueInv == ASSUME IInv, NEW q \in Queues, Kqueue(q) PROVE IInv'
  <1>1. /\ UNCHANGED <<keys, notes, locks, threads, walks, globals>>
        /\ life[q] = "none" /\ life' = [life EXCEPT ![q] = "open"] /\ reg' = reg \cup {q}
    BY DEF Kqueue
  <1>2. Typed'
    BY <1>1 DEF IInv, Typed, locks, threads, walks, globals
  <1>3. JobsFit'
    BY <1>1 DEF IInv, JobsFit, walks, globals
  <1>4. NotesGood' /\ OutDone'
    BY <1>1, <1>2, NotesKept DEF threads, globals, Typed, IInv
  <1>5. \A p : Users(p)' = Users(p)
    BY <1>1 DEF Users, threads
  <1>6. Registered'
    BY <1>1, <1>5 DEF IInv, Typed, Registered
  <1>7. WalkHolds'
    BY <1>1 DEF IInv, WalkHolds, walks, locks
  <1>8. CallsHold'
    BY <1>1, <1>5 DEF IInv, Typed, CallsHold, CallType, threads
  <1>9. QED
    BY <1>2, <1>3, <1>4, <1>6, <1>7, <1>8 DEF IInv

\* sys_kevent.
LEMMA KeventInv ==
  ASSUME IInv, NEW t \in Threads, NEW c \in Calls, NEW change \in Changes, Kevent(t, c, change)
  PROVE  IInv'
  <1> DEFINE ns == Changed(notes[c.q], change)
  <1>1. c \in CallType /\ c.q \in Queues
    BY EqueueAssumptions DEF Calls, CallType
  <1>2. /\ pc[t] = "run" /\ life[c.q] = "open" /\ call' = [call EXCEPT ![t] = c]
        /\ UNCHANGED <<keys, life, reg, omutex, regm, walks, watched, eop, lastEop, flips,
                       stopping>>
        /\ started' \in BOOLEAN
    BY DEF Kevent, IInv, Typed
  <1>3. Good(ns)
    BY <1>1, ChangedGood DEF IInv, NotesGood
  <1>4. /\ NotesGood' /\ OutDone' /\ m' \in [Queues -> Threads \cup {Free}]
        /\ \E l \in {"watch", "wait", "return"} : pc' = [pc EXCEPT ![t] = l]
    <2>1. CASE Adds(change) /\ change[2] = "read"
      <3>1. /\ notes' = [notes EXCEPT ![c.q] = ns] /\ m' = [m EXCEPT ![c.q] = t]
            /\ pc' = [pc EXCEPT ![t] = "watch"] /\ out' = out
        BY <2>1 DEF Kevent
      <3>2. NotesGood'
        BY <1>1, <1>2, <1>3, <3>1, NotesChanged
      <3>3. OutDone' /\ m' \in [Queues -> Threads \cup {Free}]
        BY <1>2, <3>1 DEF IInv, OutDone, Typed
      <3>4. QED
        BY <3>1, <3>2, <3>3
    <2>2. CASE ~(Adds(change) /\ change[2] = "read")
      <3>1. CollectOrSleep(t, c, ns) /\ m' = m
        BY <2>2 DEF Kevent
      <3> HIDE DEF ns
      <3>2. /\ NotesGood' /\ OutDone'
            /\ \E l \in {"wait", "return"} : pc' = [pc EXCEPT ![t] = l]
        BY <1>1, <1>2, <1>3, <3>1, CollectsInv
      <3>3. QED
        BY <3>1, <3>2 DEF IInv, Typed
    <2>3. QED
      BY <2>1, <2>2
  <1>5. Typed'
    <2>1. pc' \in [Threads -> {"run", "watch", "wait", "return", "destroy"}]
      BY <1>4 DEF IInv, Typed
    <2>2. call' = [u \in Threads |-> call'[u]]
      BY <1>2 DEF IInv, Typed
    <2>3. QED
      BY <1>2, <1>4, <2>1, <2>2 DEF IInv, Typed, walks
  <1>6. JobsFit'
    BY <1>2 DEF IInv, JobsFit, walks
  <1>7. WalkHolds' /\ CallsHold' /\ Registered'
    BY <1>1, <1>2, <1>4, EnterRegistry DEF walks
  <1>8. QED
    BY <1>4, <1>5, <1>6, <1>7 DEF IInv

\* WatchSocket has its descriptor, and Kevent goes on.
LEMMA WatchInv == ASSUME IInv, NEW t \in Threads, Watch(t) PROVE IInv'
  <1>1. /\ UNCHANGED <<keys, life, reg, call, omutex, regm, walks, started, eop, lastEop,
                       flips, stopping>>
        /\ pc[t] = "watch" /\ watched' = TRUE /\ m' = [m EXCEPT ![call[t].q] = Free]
        /\ CollectOrSleep(t, call[t], notes[call[t].q])
    BY DEF Watch
  <1>2. call[t] \in CallType /\ call[t].q \in Queues
    BY <1>1 DEF IInv, CallsHold, CallType
  <1>3. Good(notes[call[t].q])
    BY <1>2 DEF IInv, NotesGood
  <1>4. /\ NotesGood' /\ OutDone'
        /\ \E l \in {"wait", "return"} : pc' = [pc EXCEPT ![t] = l]
    BY <1>1, <1>2, <1>3, CollectsInv
  <1>5. Typed'
    BY <1>1, <1>2, <1>4 DEF IInv, Typed, walks
  <1>6. JobsFit'
    BY <1>1 DEF IInv, JobsFit, walks
  <1>7. WalkHolds' /\ CallsHold' /\ Registered'
    BY <1>1, <1>4, StayRegistry DEF walks
  <1>8. QED
    BY <1>4, <1>5, <1>6, <1>7 DEF IInv

\* A sleeper collects.
LEMMA WakeInv == ASSUME IInv, NEW t \in Threads, Wake(t) PROVE IInv'
  <1> DEFINE ns == notes[call[t].q]
             nout == call[t].nout
  <1>1. /\ UNCHANGED <<keys, life, reg, call, locks, walks, globals>>
        /\ pc[t] = "wait" /\ pc' = [pc EXCEPT ![t] = "return"]
        /\ notes' = [notes EXCEPT ![call[t].q] = Collected(ns, nout)]
        /\ out' = [out EXCEPT ![t] = Events(ns, nout)]
    BY DEF Wake
  <1>2. call[t].q \in Queues /\ Good(ns)
    BY <1>1 DEF IInv, CallsHold, CallType, NotesGood
  <1>3. NotesGood'
    <2>1. Good(Collected(ns, nout))
      BY <1>2, CollectedGood DEF IInv
    <2>2. QED
      BY <1>1, <1>2, <2>1, NotesChanged DEF globals
  <1>4. OutDone'
    <2>1. \A e \in Events(ns, nout) : e.data \in Nat /\ (e.key = "flip" => e.data < flips)
      BY <1>2, EventsDone
    <2>2. QED
      BY <1>1, <2>1, OutChanged DEF globals
  <1>5. Typed'
    BY <1>1 DEF IInv, Typed, locks, walks, globals
  <1>6. JobsFit'
    BY <1>1 DEF IInv, JobsFit, walks, globals
  <1>7. WalkHolds' /\ CallsHold' /\ Registered'
    BY <1>1, StayRegistry DEF walks, locks
  <1>8. QED
    BY <1>3, <1>4, <1>5, <1>6, <1>7 DEF IInv

\* A timed sleeper gives up.
LEMMA WakeTimeoutInv == ASSUME IInv, NEW t \in Threads, WakeTimeout(t) PROVE IInv'
  <1>1. /\ UNCHANGED <<kept, call, out, locks, walks, globals>>
        /\ pc[t] = "wait" /\ pc' = [pc EXCEPT ![t] = "return"]
    BY DEF WakeTimeout
  <1>2. Typed'
    BY <1>1 DEF IInv, Typed, kept, locks, walks, globals
  <1>3. JobsFit'
    BY <1>1 DEF IInv, JobsFit, walks, globals
  <1>4. NotesGood' /\ OutDone'
    BY <1>1, <1>2, NotesKept DEF kept, globals, Typed, IInv
  <1>5. WalkHolds' /\ CallsHold' /\ Registered'
    BY <1>1, StayRegistry DEF kept, walks, locks
  <1>6. QED
    BY <1>2, <1>3, <1>4, <1>5 DEF IInv

\* A call comes back.
LEMMA KeventEndInv == ASSUME IInv, NEW t \in Threads, KeventEnd(t) PROVE IInv'
  <1>1. /\ UNCHANGED <<keys, life, notes, locks, walks, globals>>
        /\ pc[t] = "return" /\ pc' = [pc EXCEPT ![t] = "run"]
        /\ call' = [call EXCEPT ![t] = NoCall] /\ out' = [out EXCEPT ![t] = {}]
        /\ LET q == call[t].q
               dies == life[q] = "closed" /\ Users(q) = {t}
           IN (dies => regm = Free) /\ reg' = IF dies THEN reg \ {q} ELSE reg
    BY DEF KeventEnd
  <1>2. Typed'
    BY <1>1 DEF IInv, Typed, locks, walks, globals
  <1>3. JobsFit'
    BY <1>1 DEF IInv, JobsFit, walks, globals
  <1>4. NotesGood'
    BY <1>1 DEF IInv, NotesGood, Good, KnoteType, globals
  <1>5. OutDone'
    BY <1>1 DEF IInv, OutDone, globals
  <1>6. WalkHolds' /\ CallsHold' /\ Registered'
    BY <1>1, LeaveRegistry DEF walks, locks
  <1>7. QED
    BY <1>2, <1>3, <1>4, <1>5, <1>6 DEF IInv

\* sys_close: the queue lives on while a call uses it, or is being destroyed.
LEMMA CloseInv == ASSUME IInv, NEW t \in Threads, NEW q \in Queues, Close(t, q) PROVE IInv'
  <1>1. /\ UNCHANGED <<keys, reg, notes, out, regm, m, walks, globals>>
        /\ pc[t] = "run" /\ life[q] = "open" /\ life' = [life EXCEPT ![q] = "closed"]
    BY DEF Close
  <1> DEFINE c == [q |-> q, nout |-> 0, timed |-> FALSE]
  <1>2. c \in CallType /\ c.q = q
    BY DEF CallType
  <1>3. \/ /\ Users(q) = {} /\ omutex' = t /\ pc' = [pc EXCEPT ![t] = "destroy"]
           /\ call' = [call EXCEPT ![t] = c]
        \/ Users(q) # {} /\ UNCHANGED <<omutex, pc, call>>
    BY DEF Close
  <1> HIDE DEF c
  <1>4. Typed'
    BY <1>1, <1>3 DEF IInv, Typed, walks, globals
  <1>5. JobsFit'
    BY <1>1 DEF IInv, JobsFit, walks, globals
  <1>6. NotesGood' /\ OutDone'
    BY <1>1, <1>4, NotesKept DEF globals, Typed, IInv
  <1>7. WalkHolds'
    BY <1>1 DEF IInv, WalkHolds, walks
  <1>8. life'[q] = "closed" /\ \A p \in Queues \ {q} : life'[p] = life[p]
    BY <1>1 DEF IInv, Typed
  <1>9. CallsHold' /\ Registered'
    <2>1. CASE Users(q) # {} /\ UNCHANGED <<omutex, pc, call>>
      <3>1. \A p : Users(p)' = Users(p)
        BY <2>1 DEF Users
      <3>2. Registered'
        BY <1>1, <1>8, <2>1, <3>1 DEF IInv, Registered
      <3>3. CallsHold'
        BY <1>1, <1>8, <2>1, <3>1 DEF IInv, CallsHold, CallType
      <3>4. QED
        BY <3>2, <3>3
    <2>2. CASE /\ Users(q) = {} /\ omutex' = t /\ pc' = [pc EXCEPT ![t] = "destroy"]
               /\ call' = [call EXCEPT ![t] = c]
      <3>1. /\ pc'[t] = "destroy" /\ call'[t] = c
            /\ \A u \in Threads \ {t} : pc'[u] = pc[u] /\ call'[u] = call[u]
        BY <2>2 DEF IInv, Typed
      <3>2. \A p : Users(p)' = IF p = q THEN {t} ELSE Users(p)
        BY <1>1, <1>2, <2>2, <3>1 DEF Users
      <3>3. Registered'
        BY <1>1, <1>8, <3>2 DEF IInv, Registered
      <3>4. ASSUME NEW u \in Threads, pc'[u] # "run"
            PROVE  /\ call'[u] \in CallType' /\ life'[call'[u].q] # "none"
                   /\ pc'[u] = "destroy" => life'[call'[u].q] = "closed"
                   /\ pc'[u] = "destroy" => \A p : p = call'[u].q => Users(p)' = {u}
        <4>1. CASE u = t
          BY <1>2, <1>8, <3>1, <3>2, <4>1 DEF CallType
        <4>2. CASE u # t
          <5>1. pc'[u] = pc[u] /\ call'[u] = call[u] /\ u \notin Users(q)
            BY <2>2, <3>1, <4>2
          <5>2. call[u].q # q /\ call[u].q \in Queues
            BY <3>4, <5>1 DEF Users, IInv, CallsHold, CallType
          <5>3. QED
            BY <1>8, <3>2, <3>4, <5>1, <5>2 DEF IInv, CallsHold, CallType
        <4>3. QED
          BY <4>1, <4>2
      <3>5. CallsHold'
        BY <3>4 DEF CallsHold, Users
      <3>6. QED
        BY <3>3, <3>5
    <2>3. QED
      BY <1>3, <2>1, <2>2
  <1>10. QED
    BY <1>4, <1>5, <1>6, <1>7, <1>9 DEF IInv

\* ~Equeue inside sys_close.
LEMMA DestroyInv == ASSUME IInv, NEW t \in Threads, Destroy(t) PROVE IInv'
  <1>1. /\ UNCHANGED <<keys, life, notes, out, regm, m, walks, globals>>
        /\ pc[t] = "destroy" /\ pc' = [pc EXCEPT ![t] = "run"] /\ regm = Free
        /\ call' = [call EXCEPT ![t] = NoCall] /\ omutex' = Free
        /\ reg' = reg \ {call[t].q}
    BY DEF Destroy
  <1>2. life[call[t].q] = "closed" /\ Users(call[t].q) = {t}
    BY <1>1 DEF IInv, CallsHold
  <1>3. Typed'
    BY <1>1 DEF IInv, Typed, walks, globals
  <1>4. JobsFit'
    BY <1>1 DEF IInv, JobsFit, walks, globals
  <1>5. NotesGood' /\ OutDone'
    BY <1>1, <1>3, NotesKept DEF globals, Typed, IInv
  <1>6. WalkHolds' /\ CallsHold' /\ Registered'
    BY <1>1, <1>2, LeaveRegistry DEF walks
  <1>7. QED
    BY <1>3, <1>4, <1>5, <1>6 DEF IInv
-----------------------------------------------------------------------------
(* The invariant.                                                           *)

\* The empty queues are good.
LEMMA InitInv == Init => IInv
  <1> SUFFICES ASSUME Init PROVE IInv
    OBVIOUS
  <1>1. NoJob \in TrigType /\ NoJob.kind = "none"
    BY DEF NoJob, Trig, TrigType
  <1>2. Typed
    <2>1. call = [t \in Threads |-> call[t]]
      BY DEF Init
    <2>2. job \in [Sources -> TrigType]
      BY <1>1 DEF Init
    <2>3. eop \in 0 .. MaxEop /\ lastEop \in 0 .. eop /\ flips \in 0 .. MaxFlips
      BY EqueueAssumptions DEF Init
    <2>4. /\ life \in [Queues -> {"none", "open", "closed"}] /\ reg \subseteq Queues
          /\ pc \in [Threads -> {"run", "watch", "wait", "return", "destroy"}]
          /\ m \in [Queues -> Threads \cup {Free}]
          /\ left \in [Sources -> SUBSET Queues]
      BY DEF Init
    <2>5. /\ started \in BOOLEAN /\ watched \in BOOLEAN /\ stopping \in BOOLEAN
          /\ keys \in KeySets
          /\ omutex \in Threads \cup {Free} /\ regm \in Sources \cup {Free}
      BY DEF Init
    <2>6. QED
      BY <2>1, <2>2, <2>3, <2>4, <2>5 DEF Typed
  <1>3. NotesGood
    BY DEF Init, NotesGood, Good
  <1>4. OutDone /\ WalkHolds /\ CallsHold
    BY DEF Init, OutDone, WalkHolds, CallsHold
  <1>5. JobsFit
    BY <1>1 DEF Init, JobsFit
  <1>6. Registered
    BY DEF Init, Registered, Users
  <1>7. QED
    BY <1>2, <1>3, <1>4, <1>5, <1>6 DEF IInv

\* Every step keeps it.
LEMMA NextInv == IInv /\ [Next]_vars => IInv'
  <1> SUFFICES ASSUME IInv, [Next]_vars PROVE IInv'
    OBVIOUS
  <1>1. CASE UNCHANGED vars
    <2>1. UNCHANGED <<kept, locks, threads, left, job, globals>>
      BY <1>1 DEF vars, walks
    <2>2. Typed' /\ JobsFit'
      BY <2>1 DEF IInv, Typed, JobsFit, kept, locks, threads, globals
    <2>3. eop <= eop' /\ flips <= flips'
      BY <2>1 DEF IInv, Typed, globals
    <2>4. QED
      BY <2>1, <2>2, <2>3, SourceInv
  <1>2. CASE Stop \/ PumpTick \/ EopCount \/ EopStore \/ NoteFlip \/ WatchReady
    BY <1>2, StopInv, NewsInv, EopCountInv, EopStoreInv, NoteFlipInv
  <1>3. ASSUME NEW s \in Sources, Walk(s) PROVE IInv'
    BY <1>3, WalkBeginInv, WalkStepInv, WalkEndInv DEF Walk
  <1>4. ASSUME NEW q \in Queues, Kqueue(q) PROVE IInv'
    BY <1>4, KqueueInv
  <1>5. ASSUME NEW t \in Threads, NEW c \in Calls, NEW change \in Changes,
               Kevent(t, c, change)
        PROVE  IInv'
    BY <1>5, KeventInv
  <1>6. ASSUME NEW t \in Threads, NEW q \in Queues, Close(t, q) PROVE IInv'
    BY <1>6, CloseInv
  <1>7. ASSUME NEW t \in Threads, Go(t) PROVE IInv'
    BY <1>7, WatchInv, WakeInv, WakeTimeoutInv, KeventEndInv, DestroyInv DEF Go
  <1>8. QED
    BY <1>1, <1>2, <1>3, <1>4, <1>5, <1>6, <1>7 DEF Next

\* Whoever makes, uses, closes or walks the queues, and in whatever order:
\* g_equeues names exactly the queues that exist and no walk follows a pointer
\* to a destroyed one, no pair has two knotes, and no flip event is ahead of
\* the flips.
THEOREM EqueueSafe == Spec => []EqueueInv
  <1>1. IInv => EqueueInv
    <2> SUFFICES ASSUME IInv PROVE EqueueInv
      OBVIOUS
    <2>1. \A q \in Queues : \A i \in DOMAIN notes[q] : notes[q][i] \in KnoteType
      BY KnoteTyped DEF IInv, NotesGood
    <2>2. TypeOK
      BY <2>1 DEF IInv, Typed, TypeOK, KnoteType
    <2>3. RegistryExact
      BY DEF IInv, WalkHolds, Registered, RegistryExact
    <2>4. KnotesUnique
      BY DEF IInv, NotesGood, Good, KnotesUnique
    <2>5. FlipIndexProduced
      BY DEF IInv, NotesGood, Good, OutDone, FlipIndexProduced
    <2>6. QED
      BY <2>2, <2>3, <2>4, <2>5 DEF EqueueInv
  <1>2. QED
    BY InitInv, NextInv, <1>1, PTL DEF Spec
-----------------------------------------------------------------------------
(* Gnm events follow the GPU.                                               *)

\* Of the Gnm knotes that keep their place none becomes active or forgets what
\* it has seen.
Quiet(ns, ns2) ==
  \A i \in DOMAIN ns \cap DOMAIN ns2 :
    ns[i].key = "gnm" /\ ns2[i].key = "gnm" =>
      (ns2[i].active => ns[i].active) /\ ns2[i].seen = ns[i].seen

\* ... or it becomes active because it is behind the count.
Rises(ns, ns2) ==
  \A i \in DOMAIN ns \cap DOMAIN ns2 :
    ns[i].key = "gnm" /\ ns2[i].key = "gnm" /\ ~ns[i].active /\ ns2[i].active
      => ns[i].seen < eop

\* Registering, deleting and triggering user events is quiet.  A deletion moves
\* the knotes behind it, but no two of them are the same pair.
LEMMA ChangedQuiet ==
  ASSUME NEW ns, Good(ns), NEW change \in Changes
  PROVE  Quiet(ns, Changed(ns, change))
  <1>0. /\ DOMAIN ns = 1 .. Len(ns) /\ Len(ns) \in Nat
        /\ \A i \in DOMAIN ns : ns[i] \in KnoteType
    BY DEF Good
  <1>1. CASE change = NoChange
    BY <1>1, ChangedIs DEF Quiet
  <1>2. ASSUME NEW k \in keys, change = <<"add", k>>
        PROVE  Quiet(ns, Changed(ns, change))
    <2>1. Changed(ns, change) = Register(ns, k)
      BY <1>2, ChangedIs
    <2>2. CASE Find(ns, k) = {}
      <3>1. \A i \in DOMAIN ns : Append(ns, Knote(k))[i] = ns[i]
        BY <1>0 DEF Good
      <3>2. QED
        BY <2>1, <2>2, <3>1 DEF Register, Quiet
    <2>3. CASE Find(ns, k) # {}
      <3> DEFINE f == [i \in DOMAIN ns |->
                         IF ns[i].key = k THEN [ns[i] EXCEPT !.active = FALSE, !.data = 0]
                         ELSE ns[i]]
      <3>1. \A i \in DOMAIN ns : (f[i].active => ns[i].active) /\ f[i].seen = ns[i].seen
        BY <1>0 DEF KnoteType
      <3>2. Register(ns, k) = f
        BY <2>3 DEF Register
      <3> HIDE DEF f
      <3>3. QED
        BY <2>1, <3>1, <3>2 DEF Quiet
    <2>4. QED
      BY <2>2, <2>3
  <1>3. ASSUME NEW k \in keys, change = <<"delete", k>>
        PROVE  Quiet(ns, Changed(ns, change))
    <2>1. Changed(ns, change) = Erase(ns, k)
      BY <1>3, ChangedIs
    <2>2. CASE Find(ns, k) = {}
      BY <2>1, <2>2 DEF Erase, Quiet
    <2>3. CASE Find(ns, k) # {}
      <3>1. PICK j \in DOMAIN ns :
              Erase(ns, k) = [i \in 1 .. Len(ns) - 1 |-> IF i < j THEN ns[i] ELSE ns[i + 1]]
        BY <2>3, EraseIs
      <3>2. ASSUME NEW i \in 1 .. Len(ns) - 1, ns[i].key = Erase(ns, k)[i].key
            PROVE  Erase(ns, k)[i] = ns[i]
        <4>1. i \in DOMAIN ns /\ i + 1 \in DOMAIN ns /\ i # i + 1
          BY <1>0
        <4>2. ns[i].key # ns[i + 1].key
          BY <4>1 DEF Good
        <4>3. QED
          BY <3>1, <3>2, <4>2
      <3>3. DOMAIN Erase(ns, k) = 1 .. Len(ns) - 1
        BY <3>1
      <3>4. QED
        BY <2>1, <3>2, <3>3 DEF Quiet
    <2>4. QED
      BY <2>2, <2>3
  <1>4. CASE change = <<"trigger", "user">>
    <2> DEFINE f == [i \in DOMAIN ns |->
                       IF ns[i].key = "user" THEN [ns[i] EXCEPT !.active = TRUE] ELSE ns[i]]
    <2>1. \A i \in DOMAIN ns : f[i] = ns[i] \/ f[i].key = "user"
      BY <1>0 DEF KnoteType
    <2>2. Changed(ns, change) = f
      BY <1>4, ChangedIs
    <2> HIDE DEF f
    <2>3. QED
      BY <2>1, <2>2 DEF Quiet
  <1>5. QED
    BY <1>1, <1>2, <1>3, <1>4, ChangeForms

\* Re-arming wakes the knotes that are behind; collecting wakes none.
LEMMA CollectedRises ==
  ASSUME NEW ns, NEW ns2, Good(ns2), Quiet(ns, ns2), NEW nout,
         NEW armed, armed = ns2 \/ armed = Rearm(ns2)
  PROVE  Rises(ns, Collected(armed, nout))
  <1>1. \A i \in DOMAIN ns2 : ns2[i] \in KnoteType
    BY DEF Good
  <1>2. /\ DOMAIN armed = DOMAIN ns2
        /\ \A i \in DOMAIN ns2 :
             /\ armed[i].key = ns2[i].key
             /\ armed[i].active => ns2[i].active \/ ns2[i].seen < eop
             /\ armed[i] = [key |-> armed[i].key, active |-> armed[i].active,
                            data |-> armed[i].data, seen |-> armed[i].seen]
    BY <1>1 DEF Rearm, KnoteType
  <1>3. /\ DOMAIN Collected(armed, nout) = DOMAIN ns2
        /\ \A i \in DOMAIN ns2 :
             /\ Collected(armed, nout)[i].key = armed[i].key
             /\ Collected(armed, nout)[i].active => armed[i].active
    BY <1>2 DEF Collected
  <1>4. QED
    BY <1>2, <1>3 DEF Quiet, Rises

\* Only the GPU's walk triggers Gnm knotes.
LEMMA TriggeredQuiet ==
  ASSUME NEW ns, Good(ns), NEW trig, trig.kind # "gnm"
  PROVE  Quiet(ns, Triggered(ns, trig))
  <1>1. \A i \in DOMAIN ns : ns[i] \in KnoteType
    BY DEF Good
  <1>2. /\ DOMAIN Triggered(ns, trig) = DOMAIN ns
        /\ \A i \in DOMAIN ns : ns[i].key = "gnm" => Triggered(ns, trig)[i] = ns[i]
    BY <1>1 DEF Triggered, Matches
  <1>3. QED
    BY <1>2 DEF Quiet

\* What a step of a call does to the lists, and how it goes to sleep.
LEMMA CollectsFollow ==
  ASSUME IInv, NEW t \in Threads, NEW c \in CallType, NEW ns, Good(ns),
         Quiet(notes[c.q], ns), CollectOrSleep(t, c, ns)
  PROVE  /\ \A q \in Queues : Rises(notes[q], notes'[q])
         /\ pc'[t] = "wait" => \A i \in DOMAIN notes'[c.q] :
              notes'[c.q][i].key = "gnm" => notes'[c.q][i].seen >= eop
         /\ \A u \in Threads \ {t} : pc'[u] = pc[u]
  <1>1. PICK armed :
          /\ Good(armed) /\ (armed = ns \/ armed = Rearm(ns))
          /\ notes' = [notes EXCEPT ![c.q] = Collected(armed, c.nout)]
          /\ \/ pc' = [pc EXCEPT ![t] = "return"]
             \/ pc' = [pc EXCEPT ![t] = "wait"] /\ armed = Rearm(ns) /\ Active(armed) = {}
    BY Collects
  <1>2. c.q \in Queues /\ DOMAIN notes = Queues
    BY DEF CallType, IInv, NotesGood
  <1>3. notes'[c.q] = Collected(armed, c.nout) /\ \A q \in Queues \ {c.q} : notes'[q] = notes[q]
    BY <1>1, <1>2
  <1>4. \A q \in Queues : Rises(notes[q], notes'[q])
    <2>1. Rises(notes[c.q], Collected(armed, c.nout))
      BY <1>1, CollectedRises
    <2>2. QED
      BY <1>3, <2>1 DEF Rises
  <1>5. ASSUME pc'[t] = "wait", NEW i \in DOMAIN notes'[c.q], notes'[c.q][i].key = "gnm"
        PROVE  notes'[c.q][i].seen >= eop
    <2>1. armed = Rearm(ns) /\ Active(armed) = {}
      BY <1>1, <1>5 DEF IInv, Typed
    <2>2. Taken(armed, c.nout) = {}
      BY <2>1 DEF Taken
    <2>3. notes'[c.q][i] = armed[i] /\ i \in DOMAIN ns /\ ~armed[i].active
      BY <1>3, <1>5, <2>1, <2>2 DEF Collected, Active, Rearm
    <2>4. ns[i] \in KnoteType /\ ns[i].seen \in Nat /\ eop \in Nat
      BY <2>3, KnoteTyped DEF IInv, Typed
    <2>5. armed[i] = IF ~ns[i].active /\ ns[i].key = "gnm" /\ ns[i].seen < eop
                     THEN [ns[i] EXCEPT !.active = TRUE, !.data = lastEop] ELSE ns[i]
      BY <2>1, <2>3 DEF Rearm
    <2>6. ~(~ns[i].active /\ ns[i].key = "gnm" /\ ns[i].seen < eop)
      BY <2>3, <2>4, <2>5 DEF KnoteType
    <2>7. armed[i] = ns[i]
      BY <2>5, <2>6
    <2>8. QED
      BY <1>5, <2>3, <2>4, <2>6, <2>7
  <1>6. \A u \in Threads \ {t} : pc'[u] = pc[u]
    BY <1>1 DEF IInv, Typed
  <1>7. QED
    BY <1>4, <1>5, <1>6

\* A step of one call, seen from all queues and threads.
LEMMA OneCallFollows ==
  ASSUME NEW t \in Threads,
         \A q \in Queues : Rises(notes[q], notes'[q]),
         pc'[t] = "wait" => \A i \in DOMAIN notes'[call'[t].q] :
           notes'[call'[t].q][i].key = "gnm" => notes'[call'[t].q][i].seen >= eop,
         \A u \in Threads \ {t} : pc'[u] = pc[u]
  PROVE  /\ \A q \in Queues : GnmOnlyWhenDone(q)
         /\ \A u \in Threads : NoSleepPastEop(u)
  BY DEF Rises, GnmOnlyWhenDone, NoSleepPastEop

\* The same of a step that leaves the lists alone and sends nobody to sleep.
LEMMA OthersFollow ==
  ASSUME notes' = notes, \A u \in Threads : pc'[u] = "wait" => pc[u] = "wait"
  PROVE  /\ \A q \in Queues : GnmOnlyWhenDone(q)
         /\ \A u \in Threads : NoSleepPastEop(u)
  BY DEF GnmOnlyWhenDone, NoSleepPastEop

\* Every step.
LEMMA NextFollows ==
  ASSUME IInv, Next
  PROVE  /\ \A q \in Queues : GnmOnlyWhenDone(q)
         /\ \A u \in Threads : NoSleepPastEop(u)
  <1>1. CASE Stop \/ PumpTick \/ EopCount \/ EopStore \/ NoteFlip \/ WatchReady
    BY <1>1, OthersFollow DEF Stop, PumpTick, EopCount, EopStore, NoteFlip, WatchReady,
       kept, threads
  <1>2. ASSUME NEW s \in Sources, WalkBegin(s) \/ WalkEnd(s)
        PROVE  /\ \A q \in Queues : GnmOnlyWhenDone(q)
               /\ \A u \in Threads : NoSleepPastEop(u)
    BY <1>2, OthersFollow DEF WalkBegin, WalkEnd, kept, threads
  <1>3. ASSUME NEW s \in Sources, NEW p \in Queues, WalkStep(s, p)
        PROVE  /\ \A q \in Queues : GnmOnlyWhenDone(q)
               /\ \A u \in Threads : NoSleepPastEop(u)
    <2>1. /\ pc' = pc /\ regm = s
          /\ notes'[p] = Triggered(notes[p], job[s])
          /\ \A q \in Queues \ {p} : notes'[q] = notes[q]
      BY <1>3 DEF WalkStep, threads, IInv, NotesGood
    <2>2. \A u \in Threads : NoSleepPastEop(u)
      BY <2>1 DEF NoSleepPastEop
    <2>3. CASE job[s].kind = "gnm"
      <3>1. regm = "gpu"
        BY <2>1, <2>3 DEF IInv, JobsFit
      <3>2. QED
        BY <2>2, <3>1 DEF GnmOnlyWhenDone
    <2>4. CASE job[s].kind # "gnm"
      <3>1. Quiet(notes[p], notes'[p])
        BY <2>1, <2>4, TriggeredQuiet DEF IInv, NotesGood
      <3>2. \A q \in Queues : GnmOnlyWhenDone(q)
        BY <2>1, <3>1 DEF GnmOnlyWhenDone, Quiet
      <3>3. QED
        BY <2>2, <3>2
    <2>5. QED
      BY <2>3, <2>4
  <1>4. ASSUME NEW q \in Queues, Kqueue(q)
        PROVE  /\ \A p \in Queues : GnmOnlyWhenDone(p)
               /\ \A u \in Threads : NoSleepPastEop(u)
    BY <1>4, OthersFollow DEF Kqueue, threads
  <1>5. ASSUME NEW t \in Threads, NEW c \in Calls, NEW change \in Changes,
               Kevent(t, c, change)
        PROVE  /\ \A q \in Queues : GnmOnlyWhenDone(q)
               /\ \A u \in Threads : NoSleepPastEop(u)
    <2> DEFINE ns == Changed(notes[c.q], change)
    <2>1. c \in CallType /\ c.q \in Queues /\ DOMAIN notes = Queues
      BY EqueueAssumptions DEF Calls, CallType, IInv, NotesGood
    <2>2. Good(ns) /\ Quiet(notes[c.q], ns) /\ call'[t] = c
      BY <1>5, <2>1, ChangedGood, ChangedQuiet DEF IInv, NotesGood, Kevent, Typed
    <2>3. CASE Adds(change) /\ change[2] = "read"
      <3>1. notes' = [notes EXCEPT ![c.q] = ns] /\ pc' = [pc EXCEPT ![t] = "watch"]
        BY <1>5, <2>3 DEF Kevent
      <3> HIDE DEF ns
      <3>2. \A q \in Queues : Rises(notes[q], notes'[q])
        BY <2>1, <2>2, <3>1 DEF Rises, Quiet
      <3>3. pc'[t] # "wait" /\ \A u \in Threads \ {t} : pc'[u] = pc[u]
        BY <3>1 DEF IInv, Typed
      <3>4. QED
        BY <3>2, <3>3, OneCallFollows
    <2>4. CASE ~(Adds(change) /\ change[2] = "read")
      <3>1. CollectOrSleep(t, c, ns)
        BY <1>5, <2>4 DEF Kevent
      <3> HIDE DEF ns
      <3>2. QED
        BY <2>1, <2>2, <3>1, CollectsFollow, OneCallFollows
    <2>5. QED
      BY <2>3, <2>4
  <1>6. ASSUME NEW t \in Threads, NEW q \in Queues, Close(t, q)
        PROVE  /\ \A p \in Queues : GnmOnlyWhenDone(p)
               /\ \A u \in Threads : NoSleepPastEop(u)
    <2>1. notes' = notes /\ (pc' = pc \/ pc' = [pc EXCEPT ![t] = "destroy"])
      BY <1>6 DEF Close
    <2>2. QED
      BY <2>1, OthersFollow DEF IInv, Typed
  <1>7. ASSUME NEW t \in Threads, Watch(t)
        PROVE  /\ \A q \in Queues : GnmOnlyWhenDone(q)
               /\ \A u \in Threads : NoSleepPastEop(u)
    <2>1. /\ CollectOrSleep(t, call[t], notes[call[t].q]) /\ call' = call
          /\ call[t] \in CallType /\ call[t].q \in Queues
      BY <1>7 DEF Watch, IInv, CallsHold, CallType
    <2>2. Good(notes[call[t].q]) /\ Quiet(notes[call[t].q], notes[call[t].q])
      BY <2>1 DEF IInv, NotesGood, Quiet
    <2>3. QED
      BY <2>1, <2>2, CollectsFollow, OneCallFollows
  <1>8. ASSUME NEW t \in Threads, Wake(t)
        PROVE  /\ \A q \in Queues : GnmOnlyWhenDone(q)
               /\ \A u \in Threads : NoSleepPastEop(u)
    <2>1. /\ notes' = [notes EXCEPT ![call[t].q] =
                         Collected(notes[call[t].q], call[t].nout)]
          /\ pc' = [pc EXCEPT ![t] = "return"]
          /\ call[t].q \in Queues /\ DOMAIN notes = Queues
      BY <1>8 DEF Wake, IInv, CallsHold, CallType, NotesGood
    <2>2. Good(notes[call[t].q]) /\ Quiet(notes[call[t].q], notes[call[t].q])
      BY <2>1 DEF IInv, NotesGood, Quiet
    <2>3. Rises(notes[call[t].q], Collected(notes[call[t].q], call[t].nout))
      BY <2>2, CollectedRises
    <2>4. \A q \in Queues : Rises(notes[q], notes'[q])
      BY <2>1, <2>3 DEF Rises
    <2>5. pc'[t] # "wait" /\ \A u \in Threads \ {t} : pc'[u] = pc[u]
      BY <2>1 DEF IInv, Typed
    <2>6. QED
      BY <2>4, <2>5, OneCallFollows
  <1>9. ASSUME NEW t \in Threads, WakeTimeout(t) \/ KeventEnd(t) \/ Destroy(t)
        PROVE  /\ \A q \in Queues : GnmOnlyWhenDone(q)
               /\ \A u \in Threads : NoSleepPastEop(u)
    <2>1. /\ notes' = notes
          /\ \E l \in {"return", "run"} : pc' = [pc EXCEPT ![t] = l]
      BY <1>9 DEF WakeTimeout, KeventEnd, Destroy, kept
    <2>2. QED
      BY <2>1, OthersFollow DEF IInv, Typed
  <1>10. QED
    BY <1>1, <1>2, <1>3, <1>4, <1>5, <1>6, <1>7, <1>8, <1>9 DEF Next, Walk, Go

\* No timer says "GPU done": a Gnm knote becomes active in a walk the GPU
\* started, or because a call finds it behind the count; and no call goes to
\* sleep on a completion that is already counted.
THEOREM GnmFollows == Spec => GnmFollowsGpu
  <1> DEFINE Follows == /\ \A q \in Queues : GnmOnlyWhenDone(q)
                        /\ \A t \in Threads : NoSleepPastEop(t)
  <1>1. IInv /\ [Next]_vars => [Follows]_vars
    BY NextFollows
  <1>2. QED
    BY InitInv, NextInv, <1>1, PTL DEF Spec, GnmFollowsGpu

-----------------------------------------------------------------------------
(* Paced flips.                                                            *)
(*                                                                         *)
(* FlipInv is not inductive.  The counts need what the display thread and  *)
(* the calls have in their hands at each place (AtWork, Hands).  A label   *)
(* is safe because the flip a call waits for is its only one and is told   *)
(* when the call gives up (Told).  And flips are paced, although a flip of *)
(* mode 2 sets last_flip back, because the queue takes two: a flip of mode *)
(* 1 that is still to come is then the newest one in it (Newest), so that  *)
(* last_flip is its vblank whenever there is room for another.             *)

FlipType == [due : Nat, vsync : BOOLEAN, who : Threads \cup {"any"}]

FlipTyped ==
  /\ D!TypeOK
  /\ dflips \in Seq(FlipType) /\ busy \in Seq(FlipType)
  /\ hand \in [Threads -> Seq(BOOLEAN)] /\ gpu \in Seq(BOOLEAN)
  /\ IsFiniteSet(D!InHand)

\* The display thread has a flip from Take to Count, and keeps one it had when the
\* session stopped.
AtWork ==
  /\ wpc \in {"until", "complete", "count"} => Len(busy) = 1
  /\ wpc \in {"none", "idle"} => Len(busy) = 0
  /\ wpc = "done" => Len(busy) <= 1
  /\ wpc = "none" => Len(dflips) = 0

\* A call has flips in its hands exactly while it queues or pushes.
Hands ==
  \A t \in Threads :
    /\ dpc[t] \in {"run", "wait"} => Len(hand[t]) = 0
    /\ dpc[t] \in {"queue", "push"} => Len(hand[t]) > 0
    /\ console = "ps5" => dpc[t] # "push" /\ Len(hand[t]) <= 1
    /\ console = "ps4" => dpc[t] # "wait"

\* t waits for its flip, or has told it that it left.
Waits(t) == t \in Threads /\ (cancelled[t] \/ (dpc[t] = "wait" /\ ~ready[t]))

\* On PS5 a flip that is not complete is the only one of a call that waits for it or
\* has told it.
Told ==
  /\ \A t \in Threads : cancelled[t] => stopping /\ dpc[t] = "run"
  /\ \A t \in Threads : label[t] => ready[t]
  /\ console = "ps5" =>
       /\ \A t \in Threads : dpc[t] = "queue" => ~ready[t]
       /\ \A i \in 1 .. Len(dflips) : Waits(dflips[i].who)
       /\ \A i, j \in 1 .. Len(dflips) : dflips[i].who = dflips[j].who => i = j
       /\ Len(busy) = 1 /\ wpc # "count" =>
            Waits(busy[1].who) /\ \A i \in 1 .. Len(dflips) : dflips[i].who # busy[1].who

\* The newest flip is aimed at last_flip, and where a flip of mode 1 is still to come
\* it is among the outstanding ones.
Newest ==
  /\ Len(dflips) > 0 => dflips[Len(dflips)].due = D!Later(last, 0)
  /\ Len(dflips) = 0 /\ Len(busy) = 1 => busy[1].due = D!Later(last, 0)
  /\ wpc \in {"complete", "count"} => busy[1].due = 0
  /\ aimed > 0 => \/ \E i \in 1 .. Len(dflips) : dflips[i].due = aimed
                  \/ Len(busy) = 1 /\ busy[1].due = aimed

\* StatusExact.
Counts ==
  console = "ps4" =>
    submits = Len(dflips) + Len(gpu) + (IF wpc = "count" THEN 0 ELSE Len(busy)) + Cardinality(D!InHand)

FlipCore == FlipTyped /\ D!PendingExact /\ Counts /\ AtWork /\ Hands

FlipIInv == FlipCore /\ D!LabelOnStack /\ Told /\ Newest

\* Sequences: their elements, what is behind the first one, and one more.
LEMMA SeqEnds ==
  ASSUME NEW S, NEW s \in Seq(S)
  PROVE  /\ Len(s) \in Nat /\ (s = <<>> <=> Len(s) = 0) /\ \A i \in 1 .. Len(s) : s[i] \in S
         /\ Len(s) > 0 => /\ Head(s) = s[1] /\ Tail(s) \in Seq(S) /\ Len(Tail(s)) = Len(s) - 1
                          /\ \A i \in 1 .. Len(s) - 1 : Tail(s)[i] = s[i + 1]
         /\ \A e \in S : /\ Append(s, e) \in Seq(S) /\ Len(Append(s, e)) = Len(s) + 1
                          /\ Append(s, e)[Len(s) + 1] = e
                          /\ \A i \in 1 .. Len(s) : Append(s, e)[i] = s[i]
  <1>1. /\ Len(s) \in Nat /\ (s = <<>> <=> Len(s) = 0) /\ \A i \in 1 .. Len(s) : s[i] \in S
    BY EmptySeq, LenProperties, ElementOfSeq
  <1>2. Len(s) > 0 => /\ Head(s) = s[1] /\ Tail(s) \in Seq(S) /\ Len(Tail(s)) = Len(s) - 1
                      /\ \A i \in 1 .. Len(s) - 1 : Tail(s)[i] = s[i + 1]
    BY <1>1, HeadTailProperties
  <1>3. \A e \in S : /\ Append(s, e) \in Seq(S) /\ Len(Append(s, e)) = Len(s) + 1
                     /\ Append(s, e)[Len(s) + 1] = e
                     /\ \A i \in 1 .. Len(s) : Append(s, e)[i] = s[i]
    BY AppendProperties
  <1>4. QED
    BY <1>1, <1>2, <1>3

\* A vblank brings every flip nearer.
LEMMA NearerFlips ==
  ASSUME NEW fs \in Seq(FlipType)
  PROVE  /\ D!Nearer(fs) \in Seq(FlipType) /\ Len(D!Nearer(fs)) = Len(fs)
         /\ \A i \in 1 .. Len(fs) : /\ D!Nearer(fs)[i].due = D!Later(fs[i].due - 1, 0)
                                    /\ D!Nearer(fs)[i].who = fs[i].who
  <1> DEFINE n == Len(fs)
             g == [i \in 1 .. n |-> [fs[i] EXCEPT !.due = D!Later(@ - 1, 0)]]
  <1>1. n \in Nat /\ DOMAIN fs = 1 .. n /\ \A i \in 1 .. n : fs[i] \in FlipType
    BY SeqEnds, LenProperties
  <1>2. ASSUME NEW i \in 1 .. n
        PROVE  /\ g[i] \in FlipType /\ g[i].due = D!Later(fs[i].due - 1, 0) /\ g[i].who = fs[i].who
    <2>1. fs[i] \in FlipType /\ D!Later(fs[i].due - 1, 0) \in Nat
      BY <1>1 DEF FlipType, D!Later
    <2>2. QED
      BY <2>1 DEF FlipType
  <1>3. D!Nearer(fs) = g
    BY <1>1 DEF D!Nearer
  <1>4. g \in Seq(FlipType) /\ Len(g) = n
    <2> HIDE DEF g
    <2>1. DOMAIN g = 1 .. n /\ g = [i \in 1 .. n |-> g[i]]
      BY DEF g
    <2>2. g \in [1 .. n -> FlipType]
      BY <1>2, <2>1
    <2>3. QED
      BY <1>1, <2>2, SeqDef, LenProperties
  <1>5. QED
    BY <1>2, <1>3, <1>4

\* The flips in the hands of the calls when one call takes a step.
LEMMA HandMove ==
  ASSUME hand \in [Threads -> Seq(BOOLEAN)], IsFiniteSet(D!InHand), NEW t \in Threads,
         NEW s \in Seq(BOOLEAN), hand' = [hand EXCEPT ![t] = s]
  PROVE  /\ IsFiniteSet(D!InHand') /\ Cardinality(D!InHand) \in Nat /\ Cardinality(D!InHand') \in Nat
         /\ Len(hand[t]) <= Cardinality(D!InHand)
         /\ Cardinality(D!InHand') = Cardinality(D!InHand) - Len(hand[t]) + Len(s)
  <1> DEFINE A == D!InHand
             B == D!InHand'
             Old == {t} \X (1 .. Len(hand[t]))
             New == {t} \X (1 .. Len(s))
  <1>1. Len(hand[t]) \in Nat /\ Len(s) \in Nat /\ DOMAIN s = 1 .. Len(s) /\ DOMAIN hand[t] = 1 .. Len(hand[t])
    BY LenProperties
  <1>2. ASSUME NEW n \in Nat
        PROVE  IsFiniteSet({t} \X (1 .. n)) /\ Cardinality({t} \X (1 .. n)) = n
    <2>1. IsFiniteSet(1 .. n) /\ Cardinality(1 .. n) = n
      BY FS_Interval
    <2>2. IsFiniteSet({t}) /\ Cardinality({t}) = 1
      BY FS_Singleton
    <2>3. IsFiniteSet({t} \X (1 .. n)) /\ Cardinality({t} \X (1 .. n)) = Cardinality({t}) * Cardinality(1 .. n)
      BY <2>1, <2>2, FS_Product
    <2>4. QED
      BY <2>1, <2>2, <2>3
  <1>3. /\ IsFiniteSet(Old) /\ Cardinality(Old) = Len(hand[t])
        /\ IsFiniteSet(New) /\ Cardinality(New) = Len(s)
    BY <1>1, <1>2
  <1>4. Old \subseteq A /\ B = (A \ Old) \cup New /\ (A \ Old) \cap New = {}
    <2>1. A = UNION {{u} \X DOMAIN hand[u] : u \in Threads} /\ B = UNION {{u} \X DOMAIN hand'[u] : u \in Threads}
      BY DEF D!InHand
    <2>2. hand'[t] = s /\ \A u \in Threads \ {t} : hand'[u] = hand[u]
      OBVIOUS
    <2> HIDE DEF A, B
    <2>3. \A x : x \in A <=> \E u \in Threads : x \in {u} \X DOMAIN hand[u]
      BY <2>1
    <2>4. \A x : x \in B <=> \E u \in Threads : x \in {u} \X DOMAIN hand'[u]
      BY <2>1
    <2>5. Old \subseteq A
      BY <1>1, <2>3
    <2>6. \A x : x \in Old => x[1] = t
      OBVIOUS
    <2>7. \A x : x \in A /\ x \notin Old <=> \E u \in Threads \ {t} : x \in {u} \X DOMAIN hand[u]
      BY <1>1, <2>3, <2>6
    <2>8. \A x : x \in B <=> (x \in A /\ x \notin Old) \/ x \in New
      BY <1>1, <2>2, <2>4, <2>7
    <2>9. \A x : ~(x \in A /\ x \notin Old /\ x \in New)
      BY <2>7
    <2> HIDE DEF Old, New
    <2>10. QED
      BY <2>5, <2>8, <2>9
  <1> HIDE DEF A, B, Old, New
  <1>5. IsFiniteSet(A)
    BY DEF A
  <1>6. A \cap Old = Old
    BY <1>4
  <1>7. /\ IsFiniteSet(A \ Old) /\ Cardinality(A \ Old) = Cardinality(A) - Cardinality(Old)
        /\ Cardinality(A) \in Nat /\ Cardinality(A \ Old) \in Nat
    BY <1>5, <1>6, FS_Difference, FS_CardinalityType
  <1>8. IsFiniteSet(B) /\ Cardinality(B) = Cardinality(A \ Old) + Cardinality(New)
    <2>1. Cardinality({}) = 0
      BY FS_EmptySet
    <2>2. /\ IsFiniteSet((A \ Old) \cup New)
          /\ Cardinality((A \ Old) \cup New) = Cardinality(A \ Old) + Cardinality(New) - Cardinality((A \ Old) \cap New)
      BY <1>3, <1>7, FS_Union
    <2>3. /\ IsFiniteSet(B)
          /\ Cardinality(B) = Cardinality(A \ Old) + Cardinality(New) - Cardinality({})
      BY <1>4, <2>2
    <2>4. Cardinality(A \ Old) \in Nat /\ Cardinality(New) \in Nat
      BY <1>1, <1>3, <1>7
    <2>5. QED
      BY <2>1, <2>3, <2>4
  <1>9. Cardinality(B) \in Nat
    BY <1>8, FS_CardinalityType
  <1>10. QED
    BY <1>1, <1>3, <1>5, <1>7, <1>8, <1>9 DEF A, B

\* A call takes a step: its place and what is in its hands change together.
LEMMA HandStep ==
  ASSUME FlipCore, NEW t \in Threads, NEW s \in Seq(BOOLEAN),
         NEW n \in {"run", "queue", "push", "wait"},
         hand' = [hand EXCEPT ![t] = s], dpc' = [dpc EXCEPT ![t] = n], console' = console,
         n \in {"run", "wait"} <=> Len(s) = 0,
         console = "ps5" => n # "push" /\ Len(s) <= 1,
         console = "ps4" => n # "wait"
  PROVE  /\ hand' \in [Threads -> Seq(BOOLEAN)]
         /\ dpc' \in [Threads -> {"run", "queue", "push", "wait"}]
         /\ IsFiniteSet(D!InHand') /\ Hands'
         /\ Cardinality(D!InHand) \in Nat /\ Cardinality(D!InHand') \in Nat
         /\ Len(hand[t]) <= Cardinality(D!InHand)
         /\ Cardinality(D!InHand') = Cardinality(D!InHand) - Len(hand[t]) + Len(s)
  <1>1. /\ hand \in [Threads -> Seq(BOOLEAN)] /\ IsFiniteSet(D!InHand)
        /\ dpc \in [Threads -> {"run", "queue", "push", "wait"}] /\ Hands
    BY DEF FlipCore, FlipTyped, D!TypeOK
  <1>2. /\ IsFiniteSet(D!InHand')
        /\ Cardinality(D!InHand) \in Nat /\ Cardinality(D!InHand') \in Nat
        /\ Len(hand[t]) <= Cardinality(D!InHand)
        /\ Cardinality(D!InHand') = Cardinality(D!InHand) - Len(hand[t]) + Len(s)
    BY <1>1, HandMove
  <1>3. Len(s) \in Nat
    BY LenProperties
  <1>4. Hands'
    <2> SUFFICES ASSUME NEW u \in Threads
                 PROVE  /\ dpc'[u] \in {"run", "wait"} => Len(hand'[u]) = 0
                        /\ dpc'[u] \in {"queue", "push"} => Len(hand'[u]) > 0
                        /\ console' = "ps5" => dpc'[u] # "push" /\ Len(hand'[u]) <= 1
                        /\ console' = "ps4" => dpc'[u] # "wait"
      BY DEF Hands
    <2>1. CASE u = t
      <3>1. dpc'[u] = n /\ hand'[u] = s
        BY <1>1, <2>1
      <3>2. QED
        BY <1>3, <3>1
    <2>2. CASE u # t
      <3>1. dpc'[u] = dpc[u] /\ hand'[u] = hand[u]
        BY <1>1, <2>2
      <3>2. QED
        BY <1>1, <3>1 DEF Hands
    <2>3. QED
      BY <2>1, <2>2
  <1>5. hand' \in [Threads -> Seq(BOOLEAN)] /\ dpc' \in [Threads -> {"run", "queue", "push", "wait"}]
    BY <1>1
  <1>6. QED
    BY <1>2, <1>4, <1>5

\* No call takes a step.
LEMMA HandStays ==
  ASSUME FlipCore, UNCHANGED <<hand, dpc, console>>
  PROVE  /\ hand' \in [Threads -> Seq(BOOLEAN)]
         /\ dpc' \in [Threads -> {"run", "queue", "push", "wait"}]
         /\ IsFiniteSet(D!InHand') /\ Hands'
         /\ Cardinality(D!InHand) \in Nat /\ Cardinality(D!InHand') = Cardinality(D!InHand)
  <1>1. /\ hand \in [Threads -> Seq(BOOLEAN)] /\ IsFiniteSet(D!InHand)
        /\ dpc \in [Threads -> {"run", "queue", "push", "wait"}] /\ Hands
    BY DEF FlipCore, FlipTyped, D!TypeOK
  <1>2. D!InHand' = D!InHand
    BY DEF D!InHand
  <1>3. Hands'
    BY <1>1 DEF Hands
  <1>4. QED
    BY <1>1, <1>2, <1>3, FS_CardinalityType

\* The flips stay, and every call that waits for one or has told one still does.
LEMMA ToldKept ==
  ASSUME Told, console' = console, dflips' = dflips, busy' = busy,
         wpc' # "count" => wpc # "count",
         \A u \in Threads : Waits(u) => Waits(u)',
         \A u \in Threads : cancelled'[u] => stopping' /\ dpc'[u] = "run",
         \A u \in Threads : label'[u] => ready'[u],
         console = "ps5" => \A u \in Threads : dpc'[u] = "queue" => ~ready'[u]
  PROVE  Told'
  <1>1. ASSUME NEW u, Waits(u)
        PROVE  Waits(u)'
    BY <1>1 DEF Waits
  <1>2. CASE console = "ps5"
    <2>1. /\ \A i \in 1 .. Len(dflips) : Waits(dflips[i].who)'
          /\ \A i, j \in 1 .. Len(dflips) : dflips[i].who = dflips[j].who => i = j
      BY <1>1, <1>2 DEF Told
    <2>2. Len(busy) = 1 /\ wpc' # "count" =>
            Waits(busy[1].who)' /\ \A i \in 1 .. Len(dflips) : dflips[i].who # busy[1].who
      BY <1>1, <1>2 DEF Told
    <2>3. QED
      BY <1>2, <2>1, <2>2 DEF Told, Waits
  <1>3. CASE console # "ps5"
    BY <1>3 DEF Told
  <1>4. QED
    BY <1>2, <1>3

\* The parts of Newest that look at the flips stay with them.
LEMMA NewestKept ==
  ASSUME Newest, UNCHANGED <<dflips, busy, last, aimed>>,
         wpc' \in {"complete", "count"} => wpc \in {"complete", "count"}
  PROVE  Newest'
  BY DEF Newest, D!Later

\* A vblank.
LEMMA TickKeeps ==
  ASSUME FlipIInv, D!Tick
  PROVE  FlipIInv'
  <1> USE DEF D!Tick, D!fixed, D!counts, D!completion
  <1>1. FlipCore /\ D!LabelOnStack /\ Told /\ Newest
    BY DEF FlipIInv
  <1>2. dflips \in Seq(FlipType) /\ busy \in Seq(FlipType) /\ D!TypeOK
    BY <1>1 DEF FlipCore, FlipTyped
  <1>3. /\ dflips' \in Seq(FlipType) /\ Len(dflips') = Len(dflips)
        /\ \A i \in 1 .. Len(dflips) : /\ dflips'[i].due = D!Later(dflips[i].due - 1, 0)
                                       /\ dflips'[i].who = dflips[i].who
    BY <1>2, NearerFlips
  <1>4. /\ busy' \in Seq(FlipType) /\ Len(busy') = Len(busy)
        /\ \A i \in 1 .. Len(busy) : /\ busy'[i].due = D!Later(busy[i].due - 1, 0)
                                     /\ busy'[i].who = busy[i].who
    BY <1>2, NearerFlips
  <1>5. /\ Len(dflips) \in Nat /\ \A i \in 1 .. Len(dflips) : dflips[i].due \in Nat
        /\ Len(busy) \in Nat /\ \A i \in 1 .. Len(busy) : busy[i].due \in Nat
    <2>1. \A f \in FlipType : f.due \in Nat
      BY DEF FlipType
    <2>2. Len(dflips) \in Nat /\ \A i \in 1 .. Len(dflips) : dflips[i] \in FlipType
      BY <1>2, SeqEnds
    <2>3. Len(busy) \in Nat /\ \A i \in 1 .. Len(busy) : busy[i] \in FlipType
      BY <1>2, SeqEnds
    <2>4. QED
      BY <2>1, <2>2, <2>3
  <1>6. /\ hand' \in [Threads -> Seq(BOOLEAN)] /\ IsFiniteSet(D!InHand') /\ Hands'
        /\ Cardinality(D!InHand) \in Nat /\ Cardinality(D!InHand') = Cardinality(D!InHand)
    BY <1>1, HandStays
  <1>7. D!TypeOK'
    <2>1. now' \in 0 .. Phases - 1
      BY <1>2, EventsAssumption DEF D!TypeOK, D!DisplayAssumptions
    <2>2. last' \in Int /\ aimed' \in Nat
      BY <1>2 DEF D!TypeOK, D!Later
    <2>3. QED
      BY <1>2, <2>1, <2>2 DEF D!TypeOK
  <1>8. FlipCore'
    <2>1. FlipTyped'
      BY <1>1, <1>3, <1>4, <1>6, <1>7 DEF FlipCore, FlipTyped
    <2>2. D!PendingExact' /\ AtWork'
      BY <1>1, <1>3, <1>4 DEF FlipCore, D!PendingExact, AtWork
    <2>3. Counts'
      BY <1>1, <1>3, <1>4, <1>6 DEF FlipCore, Counts
    <2>4. QED
      BY <1>6, <2>1, <2>2, <2>3 DEF FlipCore
  <1>9. D!LabelOnStack'
    BY <1>1 DEF D!LabelOnStack
  <1>10. Told'
    <2>1. /\ \A u \in Threads : cancelled'[u] => stopping' /\ dpc'[u] = "run"
          /\ \A u \in Threads : label'[u] => ready'[u]
          /\ console = "ps5" => \A u \in Threads : dpc'[u] = "queue" => ~ready'[u]
      BY <1>1 DEF Told
    <2>2. CASE console = "ps5"
      <3>1. /\ (\A i \in 1 .. Len(dflips) : Waits(dflips[i].who))'
            /\ \A i, j \in 1 .. Len(dflips') : dflips'[i].who = dflips'[j].who => i = j
        BY <1>1, <1>3, <2>2 DEF Told, Waits
      <3>2. (Len(busy) = 1 /\ wpc # "count" =>
              Waits(busy[1].who) /\ \A i \in 1 .. Len(dflips) : dflips[i].who # busy[1].who)'
        BY <1>1, <1>3, <1>4, <2>2 DEF Told, Waits
      <3>3. QED
        BY <2>1, <2>2, <3>1, <3>2 DEF Told
    <2>3. CASE console # "ps5"
      BY <1>1, <2>3 DEF Told
    <2>4. QED
      BY <2>2, <2>3
  <1>11. Newest'
    <2>1. last \in Int /\ aimed \in Nat
      BY <1>2 DEF D!TypeOK
    <2>2. Len(dflips') > 0 => dflips'[Len(dflips')].due = D!Later(last', 0)
      BY <1>1, <1>3, <1>5, <2>1 DEF Newest, D!Later
    <2>3. Len(dflips') = 0 /\ Len(busy') = 1 => busy'[1].due = D!Later(last', 0)
      BY <1>1, <1>3, <1>4, <1>5, <2>1 DEF Newest, D!Later
    <2>4. wpc' \in {"complete", "count"} => busy'[1].due = 0
      BY <1>1, <1>4, <1>5 DEF Newest, D!Later, FlipCore, AtWork
    <2>5. aimed' > 0 => \/ \E i \in 1 .. Len(dflips') : dflips'[i].due = aimed'
                        \/ Len(busy') = 1 /\ busy'[1].due = aimed'
      <3> SUFFICES ASSUME aimed' > 0
                   PROVE  \/ \E i \in 1 .. Len(dflips') : dflips'[i].due = aimed'
                          \/ Len(busy') = 1 /\ busy'[1].due = aimed'
        OBVIOUS
      <3>1. aimed > 0
        BY <2>1 DEF D!Later
      <3>2. CASE \E i \in 1 .. Len(dflips) : dflips[i].due = aimed
        BY <1>3, <3>2
      <3>3. CASE Len(busy) = 1 /\ busy[1].due = aimed
        BY <1>4, <3>3
      <3>4. QED
        BY <1>1, <3>1, <3>2, <3>3 DEF Newest
    <2>6. QED
      BY <2>2, <2>3, <2>4, <2>5 DEF Newest
  <1>12. QED
    BY <1>8, <1>9, <1>10, <1>11 DEF FlipIInv

\* Steps that touch neither the calls nor the flips: the rate, the stop.
LEMMA QuietKeeps ==
  ASSUME FlipIInv, UNCHANGED <<console, timing, now, last, aimed, pending, dflips, busy, wpc,
                               dpc, hand, submits, gpu, ready, cancelled, label>>,
         rate' \in Rates, stopping' \in BOOLEAN, stopping => stopping'
  PROVE  FlipIInv'
  <1>1. FlipCore /\ D!LabelOnStack /\ Told /\ Newest
    BY DEF FlipIInv
  <1>2. /\ hand' \in [Threads -> Seq(BOOLEAN)] /\ IsFiniteSet(D!InHand') /\ Hands'
        /\ Cardinality(D!InHand) \in Nat /\ Cardinality(D!InHand') = Cardinality(D!InHand)
    BY <1>1, HandStays
  <1>3. FlipCore'
    <2>1. FlipTyped'
      BY <1>1, <1>2 DEF FlipCore, FlipTyped, D!TypeOK
    <2>2. D!PendingExact' /\ AtWork' /\ Counts'
      BY <1>1, <1>2 DEF FlipCore, D!PendingExact, AtWork, Counts
    <2>3. QED
      BY <1>2, <2>1, <2>2 DEF FlipCore
  <1>4. D!LabelOnStack' /\ Newest'
    BY <1>1, NewestKept DEF D!LabelOnStack
  <1>5. Told'
    <2>1. \A u \in Threads : Waits(u) => Waits(u)'
      BY DEF Waits
    <2>2. /\ \A u \in Threads : cancelled'[u] => stopping' /\ dpc'[u] = "run"
          /\ \A u \in Threads : label'[u] => ready'[u]
          /\ console = "ps5" => \A u \in Threads : dpc'[u] = "queue" => ~ready'[u]
      BY <1>1 DEF Told
    <2>3. QED
      BY <1>1, <2>1, <2>2, ToldKept
  <1>6. QED
    BY <1>3, <1>4, <1>5 DEF FlipIInv

\* What is known of the flips, and of the counts.
LEMMA FlipFacts ==
  ASSUME FlipCore
  PROVE  /\ D!TypeOK /\ dflips \in Seq(FlipType) /\ busy \in Seq(FlipType)
         /\ hand \in [Threads -> Seq(BOOLEAN)] /\ gpu \in Seq(BOOLEAN)
         /\ Len(dflips) \in Nat /\ Len(busy) \in Nat /\ Len(gpu) \in Nat
         /\ (dflips = <<>> <=> Len(dflips) = 0)
         /\ \A i \in 1 .. Len(dflips) : dflips[i] \in FlipType /\ dflips[i].due \in Nat
         /\ \A i \in 1 .. Len(busy) : busy[i] \in FlipType /\ busy[i].due \in Nat
         /\ IsFiniteSet(D!InHand) /\ Cardinality(D!InHand) \in Nat
  <1>1. /\ D!TypeOK /\ dflips \in Seq(FlipType) /\ busy \in Seq(FlipType)
        /\ hand \in [Threads -> Seq(BOOLEAN)] /\ gpu \in Seq(BOOLEAN) /\ IsFiniteSet(D!InHand)
    BY DEF FlipCore, FlipTyped
  <1>2. \A f \in FlipType : f.due \in Nat
    BY DEF FlipType
  <1>3. /\ Len(dflips) \in Nat /\ \A i \in 1 .. Len(dflips) : dflips[i] \in FlipType
        /\ (dflips = <<>> <=> Len(dflips) = 0)
    BY <1>1, SeqEnds
  <1>4. Len(busy) \in Nat /\ \A i \in 1 .. Len(busy) : busy[i] \in FlipType
    BY <1>1, SeqEnds
  <1>5. Len(gpu) \in Nat /\ Cardinality(D!InHand) \in Nat
    BY <1>1, LenProperties, FS_CardinalityType
  <1>6. QED
    BY <1>1, <1>2, <1>3, <1>4, <1>5

\* The display thread takes the oldest flip.
LEMMA TakeKeeps ==
  ASSUME FlipIInv, D!Take
  PROVE  FlipIInv'
  <1> USE DEF D!Take, D!Work, D!Quiet, D!fixed, D!clock, D!counts, D!completion
  <1>1. FlipCore /\ D!LabelOnStack /\ Told /\ Newest
    BY DEF FlipIInv
  <1>2. /\ D!TypeOK /\ dflips \in Seq(FlipType) /\ gpu \in Seq(BOOLEAN)
        /\ Len(dflips) \in Nat /\ Len(busy) \in Nat /\ Len(gpu) \in Nat
        /\ Len(dflips) # 0
        /\ \A i \in 1 .. Len(dflips) : dflips[i] \in FlipType /\ dflips[i].due \in Nat
    BY <1>1, FlipFacts
  <1>3. /\ dflips' \in Seq(FlipType) /\ Len(dflips') = Len(dflips) - 1
        /\ \A i \in 1 .. Len(dflips) - 1 : dflips'[i] = dflips[i + 1]
        /\ busy' = <<dflips[1]>>
    BY <1>2, SeqEnds
  <1>4. busy' \in Seq(FlipType) /\ Len(busy') = 1 /\ busy'[1] = dflips[1] /\ Len(busy) = 0
    BY <1>1, <1>2, <1>3 DEF FlipCore, AtWork
  <1>5. /\ hand' \in [Threads -> Seq(BOOLEAN)] /\ IsFiniteSet(D!InHand') /\ Hands'
        /\ Cardinality(D!InHand) \in Nat /\ Cardinality(D!InHand') = Cardinality(D!InHand)
    BY <1>1, HandStays
  <1>6. FlipCore'
    <2>1. FlipTyped'
      BY <1>2, <1>3, <1>4, <1>5 DEF FlipTyped, D!TypeOK
    <2>2. D!PendingExact' /\ AtWork' /\ Counts'
      BY <1>1, <1>2, <1>3, <1>4, <1>5 DEF FlipCore, D!PendingExact, AtWork, Counts
    <2>3. QED
      BY <1>5, <2>1, <2>2 DEF FlipCore
  <1>7. D!LabelOnStack'
    BY <1>1 DEF D!LabelOnStack
  <1>8. Told'
    <2>1. /\ \A u \in Threads : cancelled'[u] => stopping' /\ dpc'[u] = "run"
          /\ \A u \in Threads : label'[u] => ready'[u]
          /\ console = "ps5" => \A u \in Threads : dpc'[u] = "queue" => ~ready'[u]
      BY <1>1 DEF Told
    <2>2. CASE console = "ps5"
      <3>1. /\ (\A i \in 1 .. Len(dflips) : Waits(dflips[i].who))'
            /\ \A i, j \in 1 .. Len(dflips') : dflips'[i].who = dflips'[j].who => i = j
        BY <1>1, <1>2, <1>3, <2>2 DEF Told, Waits
      <3>2. (Len(busy) = 1 /\ wpc # "count" =>
              Waits(busy[1].who) /\ \A i \in 1 .. Len(dflips) : dflips[i].who # busy[1].who)'
        BY <1>1, <1>2, <1>3, <1>4, <2>2 DEF Told, Waits
      <3>3. QED
        BY <2>1, <2>2, <3>1, <3>2 DEF Told
    <2>3. CASE console # "ps5"
      BY <2>1, <2>3 DEF Told
    <2>4. QED
      BY <2>2, <2>3
  <1>9. Newest'
    <2>1. last \in Int /\ aimed \in Nat
      BY <1>2 DEF D!TypeOK
    <2>2. Len(dflips') > 0 => dflips'[Len(dflips')].due = D!Later(last', 0)
      BY <1>1, <1>2, <1>3 DEF Newest, D!Later
    <2>3. Len(dflips') = 0 /\ Len(busy') = 1 => busy'[1].due = D!Later(last', 0)
      BY <1>1, <1>2, <1>3, <1>4 DEF Newest, D!Later
    <2>4. aimed' > 0 => \/ \E i \in 1 .. Len(dflips') : dflips'[i].due = aimed'
                        \/ Len(busy') = 1 /\ busy'[1].due = aimed'
      <3> SUFFICES ASSUME aimed > 0
                   PROVE  \/ \E i \in 1 .. Len(dflips') : dflips'[i].due = aimed
                          \/ Len(busy') = 1 /\ busy'[1].due = aimed
        OBVIOUS
      <3>1. PICK i \in 1 .. Len(dflips) : dflips[i].due = aimed
        BY <1>1, <1>4 DEF Newest
      <3>2. CASE i = 1
        BY <1>4, <3>1, <3>2
      <3>3. CASE i # 1
        <4>1. i - 1 \in 1 .. Len(dflips') /\ dflips'[i - 1] = dflips[i]
          BY <1>2, <1>3, <3>3
        <4>2. QED
          BY <3>1, <4>1
      <3>4. QED
        BY <3>2, <3>3
    <2>5. QED
      BY <2>2, <2>3, <2>4 DEF Newest
  <1>10. QED
    BY <1>6, <1>7, <1>8, <1>9 DEF FlipIInv

\* It has waited for the flip's vblank, or stops.
LEMMA UntilKeeps ==
  ASSUME FlipIInv, D!Until \/ D!IdleStopped
  PROVE  FlipIInv'
  <1> USE DEF D!Until, D!IdleStopped, D!Work, D!Quiet, D!fixed, D!clock, D!queue, D!counts, D!completion
  <1>1. FlipCore /\ D!LabelOnStack /\ Told /\ Newest
    BY DEF FlipIInv
  <1>2. /\ D!TypeOK /\ dflips \in Seq(FlipType) /\ busy \in Seq(FlipType) /\ gpu \in Seq(BOOLEAN)
        /\ Len(dflips) \in Nat /\ Len(busy) \in Nat /\ Len(gpu) \in Nat
    BY <1>1, FlipFacts
  <1>3. UNCHANGED <<console, timing, now, rate, last, aimed, pending, dflips, busy, dpc, hand,
                    submits, gpu, ready, cancelled, label, stopping>>
    OBVIOUS
  <1>4. /\ wpc \in {"until", "idle"} /\ wpc' \in {"done", "complete"}
        /\ wpc' = "complete" => wpc = "until" /\ busy[1].due = 0
    OBVIOUS
  <1>5. /\ hand' \in [Threads -> Seq(BOOLEAN)] /\ IsFiniteSet(D!InHand') /\ Hands'
        /\ Cardinality(D!InHand) \in Nat /\ Cardinality(D!InHand') = Cardinality(D!InHand)
    BY <1>1, <1>3, HandStays
  <1>6. FlipCore'
    <2>1. FlipTyped'
      BY <1>2, <1>3, <1>4, <1>5 DEF FlipTyped, D!TypeOK
    <2> HIDE DEF D!Until, D!IdleStopped
    <2>2. D!PendingExact' /\ AtWork'
      <3>1. D!PendingExact'
        BY <1>1, <1>3 DEF FlipCore, D!PendingExact
      <3>2. Len(busy) <= 1 /\ (wpc = "until" => Len(busy) = 1)
        <4>1. AtWork
          BY <1>1 DEF FlipCore
        <4>2. Len(busy) = 1 \/ (Len(busy) = 0 /\ wpc = "idle")
          BY <1>4, <4>1 DEF AtWork
        <4>3. \A n : n \in {0, 1} => n <= 1
          OBVIOUS
        <4>4. Len(busy) <= 1
          BY <4>2, <4>3
        <4>5. QED
          BY <4>2, <4>4
      <3>3. AtWork'
        BY <1>3, <1>4, <3>2 DEF AtWork
      <3>4. QED
        BY <3>1, <3>3
    <2>3. Counts'
      BY <1>1, <1>2, <1>3, <1>4, <1>5 DEF FlipCore, Counts
    <2>4. QED
      BY <1>5, <2>1, <2>2, <2>3 DEF FlipCore
  <1>7. D!LabelOnStack'
    BY <1>1, <1>3 DEF D!LabelOnStack
  <1>8. Told'
    <2>1. \A u \in Threads : Waits(u) => Waits(u)'
      BY <1>3 DEF Waits
    <2>2. /\ \A u \in Threads : cancelled'[u] => stopping' /\ dpc'[u] = "run"
          /\ \A u \in Threads : label'[u] => ready'[u]
          /\ console = "ps5" => \A u \in Threads : dpc'[u] = "queue" => ~ready'[u]
      BY <1>1, <1>3 DEF Told
    <2>3. QED
      BY <1>1, <1>3, <1>4, <2>1, <2>2, ToldKept
  <1>9. Newest'
    BY <1>1, <1>3, <1>4 DEF Newest, D!Later
  <1>10. QED
    BY <1>6, <1>7, <1>8, <1>9 DEF FlipIInv

\* It counts the flip out.
LEMMA CountKeeps ==
  ASSUME FlipIInv, D!Count
  PROVE  FlipIInv'
  <1> USE DEF D!Count, D!Work, D!Quiet, D!fixed, D!clock, D!counts, D!completion
  <1>1. FlipCore /\ D!LabelOnStack /\ Told /\ Newest
    BY DEF FlipIInv
  <1>2. /\ D!TypeOK /\ dflips \in Seq(FlipType) /\ gpu \in Seq(BOOLEAN)
        /\ Len(dflips) \in Nat /\ Len(busy) \in Nat /\ Len(gpu) \in Nat
    BY <1>1, FlipFacts
  <1>3. busy' \in Seq(FlipType) /\ Len(busy') = 0 /\ Len(busy) = 1
    BY <1>1 DEF FlipCore, AtWork
  <1>4. wpc = "count" /\ wpc' \in {"done", "idle"} /\ wpc' # "count"
    OBVIOUS
  <1>5. /\ hand' \in [Threads -> Seq(BOOLEAN)] /\ IsFiniteSet(D!InHand') /\ Hands'
        /\ Cardinality(D!InHand) \in Nat /\ Cardinality(D!InHand') = Cardinality(D!InHand)
    BY <1>1, HandStays
  <1>6. FlipCore'
    <2>1. D!PendingExact' /\ AtWork' /\ Counts'
      BY <1>1, <1>2, <1>3, <1>4, <1>5 DEF FlipCore, D!PendingExact, AtWork, Counts, D!TypeOK
    <2>2. pending' \in 0 .. 2
      BY <1>1, <1>2, <1>3, <2>1 DEF FlipCore, D!PendingExact, D!TypeOK
    <2>3. FlipTyped'
      BY <1>2, <1>3, <1>4, <1>5, <2>2 DEF FlipTyped, D!TypeOK
    <2>4. QED
      BY <1>5, <2>1, <2>3 DEF FlipCore
  <1>7. D!LabelOnStack'
    BY <1>1 DEF D!LabelOnStack
  <1>8. Told'
    <2>1. /\ \A u \in Threads : cancelled'[u] => stopping' /\ dpc'[u] = "run"
          /\ \A u \in Threads : label'[u] => ready'[u]
          /\ console = "ps5" => \A u \in Threads : dpc'[u] = "queue" => ~ready'[u]
      BY <1>1 DEF Told
    <2>2. console = "ps5" =>
            /\ (\A i \in 1 .. Len(dflips) : Waits(dflips[i].who))'
            /\ \A i, j \in 1 .. Len(dflips') : dflips'[i].who = dflips'[j].who => i = j
      BY <1>1 DEF Told, Waits
    <2>3. QED
      BY <1>3, <2>1, <2>2 DEF Told
  <1>9. Newest'
    <2>1. aimed > 0 => \E i \in 1 .. Len(dflips) : dflips[i].due = aimed
      BY <1>1, <1>2 DEF Newest, D!TypeOK
    <2>2. QED
      BY <1>1, <1>3, <1>4, <2>1 DEF Newest, D!Later
  <1>10. QED
    BY <1>6, <1>7, <1>8, <1>9 DEF FlipIInv

\* It runs the function the flip carries: on PS4 the flip is counted, on PS5 the call
\* that waits is answered, and one that has left is not.
LEMMA RunKeeps ==
  ASSUME FlipIInv, D!Run
  PROVE  FlipIInv'
  <1> USE DEF D!Run, D!Work, D!Quiet, D!fixed, D!clock, D!queue
  <1>1. FlipCore /\ D!LabelOnStack /\ Told /\ Newest
    BY DEF FlipIInv
  <1>2. /\ D!TypeOK /\ dflips \in Seq(FlipType) /\ busy \in Seq(FlipType) /\ gpu \in Seq(BOOLEAN)
        /\ Len(dflips) \in Nat /\ Len(busy) \in Nat /\ Len(gpu) \in Nat
    BY <1>1, FlipFacts
  <1>3. Len(busy) = 1
    BY <1>1 DEF FlipCore, AtWork
  <1>4. UNCHANGED <<console, timing, now, rate, last, aimed, pending, dflips, busy, dpc, hand,
                    gpu, cancelled, stopping>> /\ wpc = "complete" /\ wpc' = "count"
    OBVIOUS
  <1>5. /\ hand' \in [Threads -> Seq(BOOLEAN)] /\ IsFiniteSet(D!InHand') /\ Hands'
        /\ Cardinality(D!InHand) \in Nat /\ Cardinality(D!InHand') = Cardinality(D!InHand)
    BY <1>1, HandStays
  <1>6. submits' = IF console = "ps4" THEN submits - 1 ELSE submits
    BY DEF D!Complete
  <1>7. /\ console = "ps5" => /\ label' = [label EXCEPT ![busy[1].who] = @ \/ ~cancelled[busy[1].who]]
                              /\ ready' = [ready EXCEPT ![busy[1].who] = TRUE]
        /\ console # "ps5" => UNCHANGED <<label, ready>>
    BY DEF D!Complete
  <1> HIDE DEF D!Run
  <1>8. Counts' /\ submits' \in Nat
    <2>1. CASE console = "ps4"
      <3>1. submits = Len(dflips) + Len(gpu) + 1 + Cardinality(D!InHand)
        BY <1>1, <1>3, <1>4, <2>1 DEF FlipCore, Counts
      <3>2. submits' = Len(dflips) + Len(gpu) + 0 + Cardinality(D!InHand) /\ submits' \in Nat
        BY <1>2, <1>5, <1>6, <2>1, <3>1
      <3>3. QED
        BY <1>4, <1>5, <3>2 DEF Counts
    <2>2. CASE console # "ps4"
      BY <1>2, <1>4, <1>6, <2>2 DEF Counts, D!TypeOK
    <2>3. QED
      BY <2>1, <2>2
  <1>9. ready' \in [Threads -> BOOLEAN] /\ label' \in [Threads -> BOOLEAN]
    <2>1. ready \in [Threads -> BOOLEAN] /\ label \in [Threads -> BOOLEAN] /\ cancelled \in [Threads -> BOOLEAN]
      BY <1>2 DEF D!TypeOK
    <2>2. QED
      BY <1>7, <2>1
  <1>10. FlipCore'
    <2>1. FlipTyped'
      BY <1>2, <1>4, <1>5, <1>8, <1>9 DEF FlipTyped, D!TypeOK
    <2>2. D!PendingExact' /\ AtWork'
      BY <1>1, <1>3, <1>4 DEF FlipCore, D!PendingExact, AtWork
    <2>3. QED
      BY <1>5, <1>8, <2>1, <2>2 DEF FlipCore
  <1>11. Newest'
    BY <1>1, <1>4, NewestKept
  <1>12. D!LabelOnStack' /\ Told'
    <2>1. CASE console = "ps5"
      <3> DEFINE w == busy[1].who
      <3>1. /\ w \in Threads /\ (cancelled[w] \/ (dpc[w] = "wait" /\ ~ready[w]))
            /\ \A i \in 1 .. Len(dflips) : dflips[i].who # w
        BY <1>1, <1>3, <1>4, <2>1 DEF Told, Waits
      <3>2. /\ label' = [label EXCEPT ![w] = @ \/ ~cancelled[w]]
            /\ ready' = [ready EXCEPT ![w] = TRUE]
        BY <1>7, <2>1
      <3> HIDE DEF w
      <3>3. /\ label'[w] = (label[w] \/ ~cancelled[w]) /\ ready'[w] = TRUE
            /\ \A u \in Threads \ {w} : label'[u] = label[u] /\ ready'[u] = ready[u]
        BY <1>2, <3>1, <3>2 DEF D!TypeOK
      <3>4. ASSUME NEW u \in Threads
            PROVE  /\ label'[u] => dpc'[u] = "wait"
                   /\ cancelled'[u] => stopping' /\ dpc'[u] = "run"
                   /\ label'[u] => ready'[u]
                   /\ dpc'[u] = "queue" => ~ready'[u]
        <4>1. CASE u = w
          BY <1>1, <1>4, <3>1, <3>3, <4>1 DEF Told, D!LabelOnStack
        <4>2. CASE u # w
          BY <1>1, <1>4, <2>1, <3>3, <4>2 DEF Told, D!LabelOnStack
        <4>3. QED
          BY <4>1, <4>2
      <3>5. ASSUME NEW i \in 1 .. Len(dflips')
            PROVE  (Waits(dflips[i].who))'
        <4>1. dflips[i].who # w /\ Waits(dflips[i].who)
          BY <1>1, <1>4, <2>1, <3>1, <3>5 DEF Told
        <4>2. QED
          BY <1>4, <3>3, <4>1 DEF Waits
      <3>6. \A i, j \in 1 .. Len(dflips') : dflips'[i].who = dflips'[j].who => i = j
        BY <1>1, <1>4, <2>1 DEF Told
      <3>7. QED
        BY <1>4, <3>4, <3>5, <3>6 DEF Told, D!LabelOnStack
    <2>2. CASE console # "ps5"
      BY <1>1, <1>4, <1>7, <2>2 DEF Told, D!LabelOnStack
    <2>3. QED
      BY <2>1, <2>2
  <1>13. QED
    BY <1>10, <1>11, <1>12 DEF FlipIInv

\* The vblank a flip of mode 1 is aimed at: there is one among the next rate + 1, it is
\* still to come and after the last flip.
LEMMA DueLater ==
  ASSUME D!TypeOK
  PROVE  /\ D!Due(TRUE) \in Nat /\ D!Due(TRUE) >= 1 /\ D!Due(TRUE) > last
         /\ D!Due(FALSE) = 0
  <1> DEFINE interval == rate + 1
             next == D!Later(1, last + interval)
             P(d) == (now + d) % interval = 0
  <1>1. rate \in 0 .. 2 /\ now \in Int /\ last \in Int
    BY EventsAssumption DEF D!TypeOK, D!DisplayAssumptions
  <1>2. next \in Nat /\ next >= 1 /\ next > last
    BY <1>1 DEF D!Later
  <1>3. D!Due(TRUE) = CHOOSE d \in next .. next + rate : P(d)
    BY DEF D!Due
  <1>4. D!Due(FALSE) = 0
    BY DEF D!Due
  <1> HIDE DEF next
  <1>5. \E d \in next .. next + rate : P(d)
    <2>1. CASE rate = 0
      <3>1. (now + next) % 1 = 0
        BY <1>1, <1>2
      <3>2. QED
        BY <1>2, <2>1, <3>1
    <2>2. CASE rate = 1
      <3>1. (now + next) % 2 = 0 \/ (now + (next + 1)) % 2 = 0
        BY <1>1, <1>2
      <3>2. QED
        BY <1>2, <2>2, <3>1
    <2>3. CASE rate = 2
      <3>1. (now + next) % 3 = 0 \/ (now + (next + 1)) % 3 = 0 \/ (now + (next + 2)) % 3 = 0
        BY <1>1, <1>2
      <3>2. QED
        BY <1>2, <2>3, <3>1
    <2>4. QED
      BY <1>1, <2>1, <2>2, <2>3
  <1> HIDE DEF P
  <1>6. D!Due(TRUE) \in next .. next + rate
    BY <1>3, <1>5
  <1>7. \A x \in next .. next + rate : x \in Nat /\ x >= 1 /\ x > last
    BY <1>1, <1>2
  <1>8. QED
    BY <1>4, <1>6, <1>7, Zenon

\* Steps of a call that does not wait, up to QueueFlip or back from it: what is counted is
\* what is in its hands or left for the GPU.
LEMMA CallKeeps ==
  ASSUME FlipIInv, NEW t \in Threads, NEW s \in Seq(BOOLEAN), NEW n \in {"run", "queue", "push"},
         hand' = [hand EXCEPT ![t] = s], dpc' = [dpc EXCEPT ![t] = n],
         UNCHANGED <<console, timing, now, rate, last, aimed, pending, dflips, busy, wpc,
                     ready, cancelled, label, stopping>>,
         dpc[t] # "wait", n = "run" \/ ~cancelled[t],
         n = "run" <=> Len(s) = 0, console = "ps5" => n = "run",
         gpu' \in Seq(BOOLEAN), submits' \in Int,
         submits' = IF console = "ps4"
                    THEN submits + (Len(gpu') - Len(gpu)) + (Len(s) - Len(hand[t]))
                    ELSE submits
  PROVE  FlipIInv'
  <1>1. FlipCore /\ D!LabelOnStack /\ Told /\ Newest
    BY DEF FlipIInv
  <1>2. /\ D!TypeOK /\ dflips \in Seq(FlipType) /\ busy \in Seq(FlipType) /\ gpu \in Seq(BOOLEAN)
        /\ hand \in [Threads -> Seq(BOOLEAN)]
        /\ Len(dflips) \in Nat /\ Len(busy) \in Nat /\ Len(gpu) \in Nat
    BY <1>1, FlipFacts
  <1>3. Len(gpu') \in Nat /\ Len(s) \in Nat /\ Len(hand[t]) \in Nat
    BY <1>2, LenProperties
  <1>4. /\ n \in {"run", "wait"} <=> Len(s) = 0
        /\ console = "ps5" => n # "push" /\ Len(s) <= 1
    BY <1>3
  <1>5. /\ hand' \in [Threads -> Seq(BOOLEAN)]
        /\ dpc' \in [Threads -> {"run", "queue", "push", "wait"}]
        /\ IsFiniteSet(D!InHand') /\ Hands'
        /\ Cardinality(D!InHand) \in Nat /\ Cardinality(D!InHand') \in Nat
        /\ Cardinality(D!InHand') = Cardinality(D!InHand) - Len(hand[t]) + Len(s)
    BY <1>1, <1>4, HandStep
  <1>6. Counts' /\ submits' \in Nat
    <2>1. CASE console = "ps4"
      <3> DEFINE b == IF wpc = "count" THEN 0 ELSE Len(busy)
      <3>1. b \in Nat
        BY <1>2
      <3>2. submits = Len(dflips) + Len(gpu) + b + Cardinality(D!InHand)
        BY <1>1, <2>1 DEF FlipCore, Counts
      <3> HIDE DEF b
      <3>3. submits' = Len(dflips) + Len(gpu) + b + Cardinality(D!InHand)
                       + (Len(gpu') - Len(gpu)) + (Len(s) - Len(hand[t]))
        BY <2>1, <3>2
      <3>4. \A f, g, h, c, l, e, k \in Nat :
              f + g + k + c + (h - g) + (l - e) = f + h + k + (c - e + l)
        OBVIOUS
      <3>5. submits' = Len(dflips) + Len(gpu') + b + (Cardinality(D!InHand) - Len(hand[t]) + Len(s))
        <4> DEFINE f == Len(dflips)
                   g == Len(gpu)
                   h == Len(gpu')
                   c == Cardinality(D!InHand)
                   l == Len(s)
                   e == Len(hand[t])
        <4>1. f \in Nat /\ g \in Nat /\ h \in Nat /\ c \in Nat /\ l \in Nat /\ e \in Nat
          BY <1>2, <1>3, <1>5
        <4>2. submits' = f + g + b + c + (h - g) + (l - e)
          BY <3>3
        <4> HIDE DEF f, g, h, c, l, e
        <4>3. submits' = f + h + b + (c - e + l)
          BY <3>1, <3>4, <4>1, <4>2
        <4>4. QED
          BY <4>3 DEF f, h, c, l, e
      <3>6. submits' = Len(dflips) + Len(gpu') + b + Cardinality(D!InHand')
        BY <1>5, <3>5
      <3>7. submits' \in Nat
        BY <1>2, <1>3, <1>5, <3>1, <3>6
      <3>8. QED
        BY <3>6, <3>7 DEF Counts, b
    <2>2. CASE console # "ps4"
      BY <1>2, <2>2 DEF Counts, D!TypeOK
    <2>3. QED
      BY <2>1, <2>2
  <1>7. FlipCore'
    <2>1. FlipTyped'
      BY <1>2, <1>5, <1>6 DEF FlipTyped, D!TypeOK
    <2>2. D!PendingExact' /\ AtWork'
      BY <1>1 DEF FlipCore, D!PendingExact, AtWork
    <2>3. QED
      BY <1>5, <1>6, <2>1, <2>2 DEF FlipCore
  <1>8. dpc'[t] = n /\ \A u \in Threads \ {t} : dpc'[u] = dpc[u]
    BY <1>2 DEF D!TypeOK
  <1>9. D!LabelOnStack'
    BY <1>1, <1>8 DEF D!LabelOnStack
  <1>10. Told'
    <2>1. \A u \in Threads : Waits(u) => Waits(u)'
      BY <1>8 DEF Waits
    <2>2. \A u \in Threads : cancelled'[u] => stopping' /\ dpc'[u] = "run"
      BY <1>1, <1>8 DEF Told
    <2>3. \A u \in Threads : label'[u] => ready'[u]
      BY <1>1 DEF Told
    <2>4. console = "ps5" => \A u \in Threads : dpc'[u] = "queue" => ~ready'[u]
      BY <1>1, <1>8 DEF Told
    <2>5. QED
      BY <1>1, <2>1, <2>2, <2>3, <2>4, ToldKept
  <1>11. Newest'
    BY <1>1, NewestKept
  <1>12. QED
    BY <1>7, <1>9, <1>10, <1>11 DEF FlipIInv

\* Flips of PS4 calls are counted, left for the GPU, taken from it, and taken back.
LEMMA SubmitKeeps ==
  ASSUME FlipIInv, NEW t \in Threads, NEW vsync \in BOOLEAN,
         D!Submit(t, vsync) \/ D!SubmitGpu(t, vsync)
  PROVE  FlipIInv'
  <1> USE DEF D!Submit, D!SubmitGpu, D!Calling, D!To, D!fixed, D!clock, D!queue, D!worker, D!completion
  <1>1. FlipCore /\ Told
    BY DEF FlipIInv
  <1>2. D!TypeOK /\ gpu \in Seq(BOOLEAN) /\ hand \in [Threads -> Seq(BOOLEAN)] /\ Len(gpu) \in Nat
    BY <1>1, FlipFacts
  <1> DEFINE s == <<vsync>>
             n == IF D!Submit(t, vsync) THEN "queue" ELSE "push"
  <1>3. s \in Seq(BOOLEAN) /\ Len(s) = 1
    OBVIOUS
  <1>4. Len(hand[t]) = 0 /\ ~cancelled[t]
    BY <1>1 DEF FlipCore, Hands, Told
  <1>5. /\ hand' = [hand EXCEPT ![t] = s] /\ n \in {"run", "queue", "push"} /\ n # "run" /\ console = "ps4"
        /\ dpc[t] # "wait" /\ submits' = submits + 1 /\ gpu' = gpu
        /\ UNCHANGED <<console, timing, now, rate, last, aimed, pending, dflips, busy, wpc,
                       ready, cancelled, label, stopping>>
    OBVIOUS
  <1>6. dpc' = [dpc EXCEPT ![t] = n]
    OBVIOUS
  <1> HIDE DEF s, n
  <1> HIDE DEF D!Submit, D!SubmitGpu
  <1>7. submits \in Nat
    BY <1>2 DEF D!TypeOK
  <1>8. /\ submits' \in Int
        /\ submits' = IF console = "ps4"
                      THEN submits + (Len(gpu') - Len(gpu)) + (Len(s) - Len(hand[t])) ELSE submits
    BY <1>2, <1>3, <1>4, <1>5, <1>7
  <1>9. (n = "run" <=> Len(s) = 0) /\ (console = "ps5" => n = "run") /\ gpu' \in Seq(BOOLEAN)
    BY <1>2, <1>3, <1>5
  <1>10. QED
    BY <1>3, <1>4, <1>5, <1>6, <1>8, <1>9, CallKeeps

LEMMA GpuKeeps ==
  ASSUME FlipIInv, NEW t \in Threads, D!PushGpu(t) \/ D!CompleteGpu(t)
  PROVE  FlipIInv'
  <1> USE DEF D!PushGpu, D!CompleteGpu, D!Calling, D!To, D!fixed, D!clock, D!queue, D!worker, D!completion
  <1>1. FlipCore /\ Told
    BY DEF FlipIInv
  <1>2. D!TypeOK /\ gpu \in Seq(BOOLEAN) /\ hand \in [Threads -> Seq(BOOLEAN)] /\ Len(gpu) \in Nat
    BY <1>1, FlipFacts
  <1>3. hand[t] \in Seq(BOOLEAN) /\ Len(hand[t]) \in Nat
    BY <1>2, LenProperties
  <1>4. Len(<<>>) = 0 /\ <<>> \in Seq(BOOLEAN)
    OBVIOUS
  <1>5. submits \in Nat /\ console \in {"ps4", "ps5"}
    BY <1>2, EventsAssumption DEF D!TypeOK, D!DisplayAssumptions
  <1>6. CASE D!PushGpu(t)
    <2>1. /\ hand' = [hand EXCEPT ![t] = <<>>] /\ dpc' = [dpc EXCEPT ![t] = "run"]
          /\ dpc[t] = "push" /\ submits' = submits /\ gpu' = gpu \o hand[t]
          /\ UNCHANGED <<console, timing, now, rate, last, aimed, pending, dflips, busy, wpc,
                         ready, cancelled, label, stopping>>
      BY <1>6
    <2> HIDE DEF D!PushGpu, D!CompleteGpu
    <2>2. gpu' \in Seq(BOOLEAN) /\ Len(gpu') = Len(gpu) + Len(hand[t])
      BY <1>2, <1>3, <2>1, ConcatProperties
    <2>3. /\ submits' \in Int
          /\ submits' = IF console = "ps4"
                        THEN submits + (Len(gpu') - Len(gpu)) + (Len(<<>>) - Len(hand[t])) ELSE submits
      BY <1>2, <1>3, <1>4, <1>5, <2>1, <2>2
    <2>4. QED
      BY <1>4, <2>1, <2>2, <2>3, CallKeeps
  <1>7. CASE D!CompleteGpu(t)
    <2>1. /\ hand' = [hand EXCEPT ![t] = gpu] /\ dpc' = [dpc EXCEPT ![t] = "queue"]
          /\ dpc[t] = "run" /\ submits' = submits /\ gpu' = <<>> /\ gpu # <<>>
          /\ console = "ps4" /\ ~stopping
          /\ UNCHANGED <<console, timing, now, rate, last, aimed, pending, dflips, busy, wpc,
                         ready, cancelled, label, stopping>>
      BY <1>7
    <2> HIDE DEF D!PushGpu, D!CompleteGpu
    <2>2. Len(gpu) # 0
      BY <1>2, <2>1, EmptySeq
    <2>3. ~cancelled[t] /\ Len(hand[t]) = 0
      BY <1>1, <2>1 DEF Told, FlipCore, Hands
    <2>4. /\ submits' \in Int
          /\ submits' = IF console = "ps4"
                        THEN submits + (Len(gpu') - Len(gpu)) + (Len(gpu) - Len(hand[t])) ELSE submits
      BY <1>2, <1>4, <1>5, <2>1, <2>3
    <2>5. QED
      BY <1>2, <1>4, <2>1, <2>2, <2>3, <2>4, CallKeeps
  <1>8. QED
    BY <1>6, <1>7

LEMMA RefusedKeeps ==
  ASSUME FlipIInv, NEW t \in Threads, D!Refused(t)
  PROVE  FlipIInv'
  <1>1. FlipCore /\ Told
    BY DEF FlipIInv
  <1>2. D!TypeOK /\ gpu \in Seq(BOOLEAN) /\ hand \in [Threads -> Seq(BOOLEAN)] /\ Len(gpu) \in Nat
    BY <1>1, FlipFacts
  <1>3. hand[t] \in Seq(BOOLEAN) /\ Len(hand[t]) \in Nat
    BY <1>2, LenProperties
  <1>4. Len(<<>>) = 0 /\ <<>> \in Seq(BOOLEAN)
    OBVIOUS
  <1>5. submits \in Nat
    BY <1>2 DEF D!TypeOK
  <1>6. /\ hand' = [hand EXCEPT ![t] = <<>>] /\ dpc' = [dpc EXCEPT ![t] = "run"]
        /\ dpc[t] = "queue" /\ gpu' = gpu
        /\ submits' = IF console = "ps4" THEN submits - Len(hand[t]) ELSE submits
        /\ UNCHANGED <<console, timing, now, rate, last, aimed, pending, dflips, busy, wpc,
                       ready, cancelled, label, stopping>>
    BY DEF D!Refused, D!To, D!fixed, D!clock, D!queue, D!worker, D!completion
  <1>7. /\ submits' \in Int
        /\ submits' = IF console = "ps4"
                      THEN submits + (Len(gpu') - Len(gpu)) + (Len(<<>>) - Len(hand[t])) ELSE submits
    BY <1>2, <1>3, <1>4, <1>5, <1>6
  <1>8. QED
    BY <1>2, <1>4, <1>6, <1>7, CallKeeps

\* Steps of a call that touch its completion and no flip in the queue.
LEMMA CompletionKeeps ==
  ASSUME FlipIInv, NEW t \in Threads, NEW s \in Seq(BOOLEAN), NEW n \in {"run", "queue", "wait"},
         hand' = [hand EXCEPT ![t] = s], dpc' = [dpc EXCEPT ![t] = n],
         UNCHANGED <<console, timing, now, rate, last, aimed, pending, dflips, busy, wpc,
                     gpu, stopping>>,
         n \in {"run", "wait"} <=> Len(s) = 0, console = "ps5" => Len(s) <= 1,
         console = "ps4" => n # "wait",
         submits' \in Int,
         submits' = IF console = "ps4" THEN submits + (Len(s) - Len(hand[t])) ELSE submits,
         ready' \in [Threads -> BOOLEAN], cancelled' \in [Threads -> BOOLEAN],
         label' \in [Threads -> BOOLEAN],
         \A u \in Threads \ {t} :
           ready'[u] = ready[u] /\ cancelled'[u] = cancelled[u] /\ label'[u] = label[u],
         console = "ps5" => (Waits(t) => Waits(t)'), cancelled'[t] => stopping /\ n = "run",
         label'[t] => ready'[t] /\ n = "wait", console = "ps5" => (n = "queue" => ~ready'[t])
  PROVE  FlipIInv'
  <1>1. FlipCore /\ D!LabelOnStack /\ Told /\ Newest
    BY DEF FlipIInv
  <1>2. /\ D!TypeOK /\ dflips \in Seq(FlipType) /\ busy \in Seq(FlipType) /\ gpu \in Seq(BOOLEAN)
        /\ hand \in [Threads -> Seq(BOOLEAN)]
        /\ Len(dflips) \in Nat /\ Len(busy) \in Nat /\ Len(gpu) \in Nat
    BY <1>1, FlipFacts
  <1>3. Len(s) \in Nat /\ Len(hand[t]) \in Nat
    BY <1>2, LenProperties
  <1>4. /\ hand' \in [Threads -> Seq(BOOLEAN)]
        /\ dpc' \in [Threads -> {"run", "queue", "push", "wait"}]
        /\ IsFiniteSet(D!InHand') /\ Hands'
        /\ Cardinality(D!InHand) \in Nat /\ Cardinality(D!InHand') \in Nat
        /\ Cardinality(D!InHand') = Cardinality(D!InHand) - Len(hand[t]) + Len(s)
    BY <1>1, HandStep
  <1>5. Counts' /\ submits' \in Nat
    <2>1. CASE console = "ps4"
      <3> DEFINE b == IF wpc = "count" THEN 0 ELSE Len(busy)
      <3>1. b \in Nat
        BY <1>2
      <3>2. submits = Len(dflips) + Len(gpu) + b + Cardinality(D!InHand)
        BY <1>1, <2>1 DEF FlipCore, Counts
      <3> HIDE DEF b
      <3>3. submits' = Len(dflips) + Len(gpu) + b + Cardinality(D!InHand) + (Len(s) - Len(hand[t]))
        BY <2>1, <3>2
      <3>4. \A f, g, c, l, e, k \in Nat : f + g + k + c + (l - e) = f + g + k + (c - e + l)
        OBVIOUS
      <3>5. submits' = Len(dflips) + Len(gpu) + b + (Cardinality(D!InHand) - Len(hand[t]) + Len(s))
        BY <1>2, <1>3, <1>4, <3>1, <3>3, <3>4
      <3>6. submits' = Len(dflips) + Len(gpu) + b + Cardinality(D!InHand')
        BY <1>4, <3>5
      <3>7. submits' \in Nat
        BY <1>2, <1>3, <1>4, <3>1, <3>6
      <3>8. QED
        BY <3>6, <3>7 DEF Counts, b
    <2>2. CASE console # "ps4"
      BY <1>2, <2>2 DEF Counts, D!TypeOK
    <2>3. QED
      BY <2>1, <2>2
  <1>6. FlipCore'
    <2>1. FlipTyped'
      BY <1>2, <1>4, <1>5 DEF FlipTyped, D!TypeOK
    <2>2. D!PendingExact' /\ AtWork'
      BY <1>1 DEF FlipCore, D!PendingExact, AtWork
    <2>3. QED
      BY <1>4, <1>5, <2>1, <2>2 DEF FlipCore
  <1>7. dpc'[t] = n /\ \A u \in Threads \ {t} : dpc'[u] = dpc[u]
    BY <1>2 DEF D!TypeOK
  <1>8. D!LabelOnStack'
    <2> SUFFICES ASSUME NEW u \in Threads, label'[u]
                 PROVE  dpc'[u] = "wait"
      BY DEF D!LabelOnStack
    <2>1. CASE u = t
      BY <1>7, <2>1
    <2>2. CASE u # t
      BY <1>1, <1>7, <2>2 DEF D!LabelOnStack
    <2>3. QED
      BY <2>1, <2>2
  <1>9. Told'
    <2>1. \A u \in Threads : cancelled'[u] => stopping' /\ dpc'[u] = "run"
      BY <1>1, <1>7 DEF Told
    <2>2. \A u \in Threads : label'[u] => ready'[u]
      BY <1>1 DEF Told
    <2>3. console = "ps5" => \A u \in Threads : dpc'[u] = "queue" => ~ready'[u]
      BY <1>1, <1>7 DEF Told
    <2>4. CASE console = "ps5"
      <3>1. ASSUME NEW u \in Threads, Waits(u) PROVE Waits(u)'
        <4>1. CASE u = t
          BY <2>4, <3>1, <4>1
        <4>2. CASE u # t
          BY <1>7, <3>1, <4>2 DEF Waits
        <4>3. QED
          BY <4>1, <4>2
      <3>2. QED
        BY <1>1, <2>1, <2>2, <2>3, <3>1, ToldKept
    <2>5. CASE console # "ps5"
      BY <2>1, <2>2, <2>5 DEF Told
    <2>6. QED
      BY <2>4, <2>5
  <1>10. Newest'
    BY <1>1, NewestKept
  <1>11. QED
    BY <1>6, <1>8, <1>9, <1>10 DEF FlipIInv

\* The PS5 call begins, is answered, or leaves because the session stops.
LEMMA WaitFlipKeeps ==
  ASSUME FlipIInv, NEW t \in Threads, NEW vsync \in BOOLEAN, D!WaitFlip(t, vsync)
  PROVE  FlipIInv'
  <1> DEFINE s == <<vsync>>
  <1>1. FlipCore /\ D!LabelOnStack /\ Told
    BY DEF FlipIInv
  <1>2. D!TypeOK
    BY <1>1, FlipFacts
  <1>3. s \in Seq(BOOLEAN) /\ Len(s) = 1
    OBVIOUS
  <1>4. /\ hand' = [hand EXCEPT ![t] = s] /\ dpc' = [dpc EXCEPT ![t] = "queue"]
        /\ console = "ps5" /\ dpc[t] = "run" /\ ~stopping /\ submits' = submits
        /\ ready' = [ready EXCEPT ![t] = FALSE] /\ cancelled' = [cancelled EXCEPT ![t] = FALSE]
        /\ label' = label
        /\ UNCHANGED <<console, timing, now, rate, last, aimed, pending, dflips, busy, wpc, gpu, stopping>>
    BY DEF D!WaitFlip, D!Calling, D!To, D!fixed, D!clock, D!queue, D!worker, D!counts
  <1>5. /\ ready \in [Threads -> BOOLEAN] /\ cancelled \in [Threads -> BOOLEAN] /\ label \in [Threads -> BOOLEAN]
        /\ submits \in Nat
    BY <1>2 DEF D!TypeOK
  <1>6. ~cancelled[t] /\ ~label[t] /\ ~Waits(t)
    BY <1>1, <1>4 DEF Told, D!LabelOnStack, Waits
  <1> HIDE DEF s
  <1>7. /\ ready' \in [Threads -> BOOLEAN] /\ cancelled' \in [Threads -> BOOLEAN]
        /\ \A u \in Threads \ {t} : ready'[u] = ready[u] /\ cancelled'[u] = cancelled[u]
        /\ ~ready'[t] /\ ~cancelled'[t]
    BY <1>4, <1>5
  <1>8. ("queue" \in {"run", "wait"} <=> Len(s) = 0) /\ (console = "ps5" => Len(s) <= 1)
    BY <1>3
  <1>9. submits' \in Int /\ console # "ps4"
    BY <1>4, <1>5
  <1>10. QED
    BY <1>3, <1>4, <1>5, <1>6, <1>7, <1>8, <1>9, CompletionKeeps

LEMMA WaitEndKeeps ==
  ASSUME FlipIInv, NEW t \in Threads, D!WaitDone(t) \/ D!WaitStopped(t)
  PROVE  FlipIInv'
  <1> DEFINE s == hand[t]
  <1>1. FlipCore /\ D!LabelOnStack /\ Told
    BY DEF FlipIInv
  <1>2. D!TypeOK /\ hand \in [Threads -> Seq(BOOLEAN)]
    BY <1>1, FlipFacts
  <1>3. /\ dpc' = [dpc EXCEPT ![t] = "run"] /\ dpc[t] = "wait"
        /\ UNCHANGED <<console, timing, now, rate, last, aimed, pending, dflips, busy, wpc, gpu, stopping, hand, submits>>
    BY DEF D!WaitDone, D!WaitStopped, D!To, D!fixed, D!clock, D!queue, D!worker, D!counts
  <1>4. /\ s \in Seq(BOOLEAN) /\ Len(s) = 0 /\ hand' = [hand EXCEPT ![t] = s]
        /\ console # "ps4" /\ ~cancelled[t]
    BY <1>1, <1>2, <1>3 DEF FlipCore, Hands, Told
  <1>5. /\ ready \in [Threads -> BOOLEAN] /\ cancelled \in [Threads -> BOOLEAN] /\ label \in [Threads -> BOOLEAN]
        /\ submits \in Nat
    BY <1>2 DEF D!TypeOK
  <1>6. ("run" \in {"run", "wait"} <=> Len(s) = 0) /\ (console = "ps5" => Len(s) <= 1)
    BY <1>4
  <1>7. submits' \in Int /\ submits' = submits
    BY <1>3, <1>5
  <1> HIDE DEF s
  <1>8. CASE D!WaitDone(t)
    <2>1. /\ ready[t] /\ ready' = [ready EXCEPT ![t] = FALSE] /\ label' = [label EXCEPT ![t] = FALSE]
          /\ cancelled' = cancelled
      BY <1>8 DEF D!WaitDone
    <2>2. /\ ready' \in [Threads -> BOOLEAN] /\ label' \in [Threads -> BOOLEAN]
          /\ \A u \in Threads \ {t} : ready'[u] = ready[u] /\ label'[u] = label[u]
          /\ ~ready'[t] /\ ~label'[t] /\ ~cancelled'[t]
      BY <1>4, <1>5, <2>1
    <2>3. ~Waits(t)
      BY <1>4, <2>1 DEF Waits
    <2>4. QED
      BY <1>3, <1>4, <1>5, <1>6, <1>7, <2>1, <2>2, <2>3, CompletionKeeps
  <1>9. CASE D!WaitStopped(t)
    <2>1. /\ ~ready[t] /\ stopping /\ cancelled' = [cancelled EXCEPT ![t] = TRUE]
          /\ ready' = ready /\ label' = label
      BY <1>9 DEF D!WaitStopped
    <2>2. /\ cancelled' \in [Threads -> BOOLEAN] /\ \A u \in Threads \ {t} : cancelled'[u] = cancelled[u]
          /\ cancelled'[t]
      BY <1>5, <2>1
    <2>3. Waits(t)'
      BY <2>2 DEF Waits
    <2>4. ~label'[t]
      BY <1>1, <2>1 DEF Told
    <2>5. QED
      BY <1>3, <1>4, <1>5, <1>6, <1>7, <2>1, <2>2, <2>3, <2>4, CompletionKeeps
  <1>10. QED
    BY <1>8, <1>9

\* QueueFlip accepts a flip: where the call goes on, and with what.
LEMMA AcceptedHand ==
  ASSUME FlipCore, NEW t \in Threads, dpc[t] = "queue", D!Accepted(t)
  PROVE  \E s \in Seq(BOOLEAN), n \in {"run", "queue", "wait"} :
           /\ hand' = [hand EXCEPT ![t] = s] /\ dpc' = [dpc EXCEPT ![t] = n]
           /\ Len(hand[t]) \in Nat /\ Len(hand[t]) > 0 /\ Len(s) = Len(hand[t]) - 1
           /\ Head(hand[t]) \in BOOLEAN
           /\ (n \in {"run", "wait"} <=> Len(s) = 0)
           /\ console = "ps5" => n = "wait" /\ Len(s) = 0
           /\ console = "ps4" => n # "wait"
  <1> DEFINE s == Tail(hand[t])
             n == IF console = "ps5" THEN "wait" ELSE IF Len(hand[t]) > 1 THEN "queue" ELSE "run"
  <1>1. hand[t] \in Seq(BOOLEAN) /\ Len(hand[t]) \in Nat
    BY FlipFacts, LenProperties
  <1>2. Len(hand[t]) > 0 /\ (console = "ps5" => Len(hand[t]) <= 1)
    BY DEF FlipCore, Hands
  <1>3. /\ s \in Seq(BOOLEAN) /\ Len(s) = Len(hand[t]) - 1 /\ Head(hand[t]) = hand[t][1]
        /\ \A i \in 1 .. Len(hand[t]) : hand[t][i] \in BOOLEAN
    BY <1>1, <1>2, SeqEnds
  <1>4. Head(hand[t]) \in BOOLEAN
    BY <1>1, <1>2, <1>3
  <1>5. hand' = [hand EXCEPT ![t] = s] /\ dpc' = [dpc EXCEPT ![t] = n] /\ n \in {"run", "queue", "wait"}
    BY DEF D!Accepted, D!To
  <1> HIDE DEF s
  <1>6. /\ (n \in {"run", "wait"} <=> Len(s) = 0)
        /\ console = "ps5" => n = "wait" /\ Len(s) = 0
        /\ console = "ps4" => n # "wait"
    <2>1. \A k, l : l \in Nat /\ l > 0 /\ k = l - 1 => (k = 0 <=> ~(l > 1)) /\ (l <= 1 => k = 0)
      OBVIOUS
    <2>2. (Len(s) = 0 <=> ~(Len(hand[t]) > 1)) /\ (Len(hand[t]) <= 1 => Len(s) = 0)
      BY <1>1, <1>2, <1>3, <2>1
    <2>3. CASE console = "ps5"
      BY <1>2, <2>2, <2>3
    <2>4. CASE console # "ps5"
      BY <2>2, <2>4
    <2>5. QED
      BY <2>3, <2>4
  <1> HIDE DEF n
  <1>7. QED
    BY <1>1, <1>2, <1>3, <1>4, <1>5, <1>6

\* Without emulated timing the flip completes in the call.
LEMMA QueueNowKeeps ==
  ASSUME FlipIInv, NEW t \in Threads, D!QueueNow(t)
  PROVE  FlipIInv'
  <1>1. FlipCore /\ D!LabelOnStack /\ Told
    BY DEF FlipIInv
  <1>2. D!TypeOK
    BY <1>1, FlipFacts
  <1>3. /\ dpc[t] = "queue" /\ D!Accepted(t) /\ D!Complete(D!Flip(t, 0, Head(hand[t])))
        /\ UNCHANGED <<console, timing, now, rate, last, aimed, pending, dflips, busy, wpc, gpu, stopping, cancelled>>
    BY DEF D!QueueNow, D!fixed, D!clock, D!queue, D!worker
  <1>4. PICK s \in Seq(BOOLEAN), n \in {"run", "queue", "wait"} :
           /\ hand' = [hand EXCEPT ![t] = s] /\ dpc' = [dpc EXCEPT ![t] = n]
           /\ Len(hand[t]) \in Nat /\ Len(hand[t]) > 0 /\ Len(s) = Len(hand[t]) - 1
           /\ Head(hand[t]) \in BOOLEAN
           /\ (n \in {"run", "wait"} <=> Len(s) = 0)
           /\ console = "ps5" => n = "wait" /\ Len(s) = 0
           /\ console = "ps4" => n # "wait"
    BY <1>1, <1>3, AcceptedHand
  <1>5. /\ ready \in [Threads -> BOOLEAN] /\ cancelled \in [Threads -> BOOLEAN] /\ label \in [Threads -> BOOLEAN]
        /\ submits \in Nat
    BY <1>2 DEF D!TypeOK
  <1>6. ~cancelled[t] /\ ~label[t] /\ ~Waits(t)
    BY <1>1, <1>3 DEF Told, D!LabelOnStack, Waits
  <1>7. /\ submits' = IF console = "ps4" THEN submits - 1 ELSE submits
        /\ console = "ps5" => /\ label' = [label EXCEPT ![t] = @ \/ ~cancelled[t]]
                              /\ ready' = [ready EXCEPT ![t] = TRUE]
        /\ console # "ps5" => UNCHANGED <<label, ready>>
    <2>1. console = "ps5" => D!Flip(t, 0, Head(hand[t])).who = t
      BY DEF D!Flip
    <2>2. QED
      BY <1>3, <2>1 DEF D!Complete
  <1>8. /\ submits' \in Int
        /\ submits' = IF console = "ps4" THEN submits + (Len(s) - Len(hand[t])) ELSE submits
    BY <1>4, <1>5, <1>7
  <1>9. console = "ps5" => Len(s) <= 1
    <2>1. \A k : k = 0 => k <= 1
      OBVIOUS
    <2>2. QED
      BY <1>4, <2>1
  <1>10. /\ ready' \in [Threads -> BOOLEAN] /\ label' \in [Threads -> BOOLEAN]
         /\ \A u \in Threads \ {t} : ready'[u] = ready[u] /\ label'[u] = label[u]
         /\ label'[t] => console = "ps5" /\ ready'[t]
    <2>1. CASE console = "ps5"
      BY <1>5, <1>6, <1>7, <2>1
    <2>2. CASE console # "ps5"
      BY <1>5, <1>6, <1>7, <2>2
    <2>3. QED
      BY <2>1, <2>2
  <1>11. /\ label'[t] => ready'[t] /\ n = "wait"
         /\ console = "ps5" => (n = "queue" => ~ready'[t])
    BY <1>4, <1>10
  <1>12. QED
    BY <1>3, <1>4, <1>5, <1>6, <1>8, <1>9, <1>10, <1>11, CompletionKeeps

\* A flip is queued for the display thread.  One of mode 1 is aimed after every flip of
\* mode 1 that is still to come.
LEMMA QueueFlipKeeps ==
  ASSUME FlipIInv, NEW t \in Threads, D!QueueFlip(t)
  PROVE  /\ FlipIInv'
         /\ Len(dflips') = Len(dflips) + 1
         /\ dflips'[Len(dflips')].vsync => dflips'[Len(dflips')].due > aimed
  <1> DEFINE v == Head(hand[t])
             due == D!Due(v)
             f == D!Flip(t, due, v)
  <1>1. FlipCore /\ D!LabelOnStack /\ Told /\ Newest
    BY DEF FlipIInv
  <1>2. /\ D!TypeOK /\ dflips \in Seq(FlipType) /\ busy \in Seq(FlipType) /\ gpu \in Seq(BOOLEAN)
        /\ Len(dflips) \in Nat /\ Len(busy) \in Nat /\ Len(gpu) \in Nat
        /\ last \in Int /\ aimed \in Nat /\ submits \in Nat
    BY <1>1, FlipFacts DEF D!TypeOK
  <1>3. /\ dpc[t] = "queue" /\ D!Accepted(t) /\ pending < 2
        /\ wpc' = IF wpc = "none" THEN "idle" ELSE wpc
        /\ last' = due /\ aimed' = IF v THEN due ELSE aimed
        /\ dflips' = Append(dflips, f) /\ pending' = pending + 1
        /\ UNCHANGED <<console, timing, now, rate, busy, submits, gpu, ready, cancelled, label, stopping>>
    BY DEF D!QueueFlip, D!Room, D!fixed, D!counts, D!completion
  <1>4. PICK s \in Seq(BOOLEAN), n \in {"run", "queue", "wait"} :
           /\ hand' = [hand EXCEPT ![t] = s] /\ dpc' = [dpc EXCEPT ![t] = n]
           /\ Len(hand[t]) \in Nat /\ Len(hand[t]) > 0 /\ Len(s) = Len(hand[t]) - 1
           /\ v \in BOOLEAN
           /\ (n \in {"run", "wait"} <=> Len(s) = 0)
           /\ console = "ps5" => n = "wait" /\ Len(s) = 0
           /\ console = "ps4" => n # "wait"
    BY <1>1, <1>3, AcceptedHand
  <1>5. due \in Nat /\ (v => due >= 1 /\ due > last)
    <2>1. CASE v = TRUE
      BY <1>2, <2>1, DueLater
    <2>2. CASE v = FALSE
      <3>1. due = 0
        BY <1>2, <2>2, DueLater, Zenon
      <3> HIDE DEF due, v
      <3>2. QED
        BY <2>2, <3>1
    <2>3. QED
      BY <1>4, <2>1, <2>2
  <1>6. /\ f \in FlipType /\ f.due = due /\ f.vsync = v /\ (console = "ps5" => f.who = t)
    <2> HIDE DEF due, v
    <2>1. QED
      BY <1>4, <1>5 DEF FlipType, D!Flip
  <1> HIDE DEF v, due, f
  <1>7. /\ dflips' \in Seq(FlipType) /\ Len(dflips') = Len(dflips) + 1
        /\ dflips'[Len(dflips) + 1] = f /\ \A i \in 1 .. Len(dflips) : dflips'[i] = dflips[i]
    BY <1>2, <1>3, <1>6, SeqEnds
  <1>8. console = "ps5" => Len(s) <= 1
    <2>1. \A k : k = 0 => k <= 1
      OBVIOUS
    <2>2. QED
      BY <1>4, <2>1
  <1>9. /\ hand' \in [Threads -> Seq(BOOLEAN)]
        /\ dpc' \in [Threads -> {"run", "queue", "push", "wait"}]
        /\ IsFiniteSet(D!InHand') /\ Hands'
        /\ Cardinality(D!InHand) \in Nat /\ Cardinality(D!InHand') \in Nat
        /\ Cardinality(D!InHand') = Cardinality(D!InHand) - Len(hand[t]) + Len(s)
    BY <1>1, <1>3, <1>4, <1>8, HandStep
  <1>10. Cardinality(D!InHand') = Cardinality(D!InHand) - 1
    BY <1>4, <1>9
  <1>11. pending' \in 0 .. 2 /\ last' \in Int /\ aimed' \in Nat
         /\ wpc' \in {"none", "idle", "until", "complete", "count", "done"}
    BY <1>2, <1>3, <1>5 DEF D!TypeOK
  <1>12. FlipCore'
    <2>1. FlipTyped'
      BY <1>2, <1>3, <1>7, <1>9, <1>11 DEF FlipTyped, D!TypeOK
    <2>2. D!PendingExact'
      BY <1>1, <1>2, <1>3, <1>7 DEF FlipCore, D!PendingExact
    <2>3. AtWork'
      <3>1. AtWork /\ wpc' # "none" /\ (wpc' = wpc \/ (wpc = "none" /\ wpc' = "idle"))
        BY <1>1, <1>3 DEF FlipCore
      <3>2. QED
        BY <1>3, <3>1 DEF AtWork
    <2>4. Counts'
      <3>1. wpc' = "count" <=> wpc = "count"
        BY <1>3
      <3> DEFINE b == IF wpc = "count" THEN 0 ELSE Len(busy)
      <3>2. b \in Nat /\ b' = b
        BY <1>2, <1>3, <3>1
      <3>3. console = "ps4" => submits = Len(dflips) + Len(gpu) + b + Cardinality(D!InHand)
        BY <1>1 DEF FlipCore, Counts
      <3> HIDE DEF b
      <3>4. \A x, g, k, c \in Nat : x + g + k + c = (x + 1) + g + k + (c - 1)
        OBVIOUS
      <3>5. console = "ps4" => submits = (Len(dflips) + 1) + Len(gpu) + b + (Cardinality(D!InHand) - 1)
        BY <1>2, <1>9, <3>2, <3>3, <3>4
      <3>6. console' = "ps4" => submits' = Len(dflips') + Len(gpu') + b' + Cardinality(D!InHand')
        BY <1>3, <1>7, <1>10, <3>2, <3>5
      <3>7. QED
        BY <3>6 DEF Counts, b
    <2>5. QED
      BY <1>9, <2>1, <2>2, <2>3, <2>4 DEF FlipCore
  <1>13. dpc'[t] = n /\ \A u \in Threads \ {t} : dpc'[u] = dpc[u]
    BY <1>2, <1>4 DEF D!TypeOK
  <1>14. ~cancelled[t] /\ ~label[t] /\ ~Waits(t) /\ (console = "ps5" => ~ready[t])
    BY <1>1, <1>3 DEF Told, D!LabelOnStack, Waits
  <1>15. D!LabelOnStack'
    BY <1>1, <1>3, <1>13, <1>14 DEF D!LabelOnStack
  <1>16. Told'
    <2>1. \A u \in Threads : cancelled'[u] => stopping' /\ dpc'[u] = "run"
      BY <1>1, <1>3, <1>13, <1>14 DEF Told
    <2>2. \A u \in Threads : label'[u] => ready'[u]
      BY <1>1, <1>3 DEF Told
    <2>3. CASE console = "ps5"
      <3>1. \A u \in Threads : dpc'[u] = "queue" => ~ready'[u]
        BY <1>1, <1>3, <1>13, <1>14, <2>3 DEF Told
      <3>2. \A u : Waits(u) => u # t /\ Waits(u)'
        BY <1>3, <1>13, <1>14 DEF Waits
      <3>3. Waits(t)'
        BY <1>3, <1>4, <1>13, <1>14, <2>3 DEF Waits
      <3>4. \A i \in 1 .. Len(dflips) : Waits(dflips[i].who)
        BY <1>1, <2>3 DEF Told
      <3>5. ASSUME NEW i \in 1 .. Len(dflips')
            PROVE  (Waits(dflips[i].who))'
        <4>1. CASE i = Len(dflips) + 1
          BY <1>6, <1>7, <2>3, <3>3, <4>1 DEF Waits
        <4>2. CASE i # Len(dflips) + 1
          <5>1. i \in 1 .. Len(dflips)
            BY <1>2, <1>7, <4>2
          <5>2. Waits(dflips[i].who) /\ dflips'[i] = dflips[i]
            BY <1>7, <3>4, <5>1
          <5>3. QED
            BY <3>2, <5>2 DEF Waits
        <4>3. QED
          BY <4>1, <4>2
      <3>6. \A i, j \in 1 .. Len(dflips') : dflips'[i].who = dflips'[j].who => i = j
        <4>1. \A i \in 1 .. Len(dflips) : dflips'[i].who # t /\ dflips'[i].who = dflips[i].who
          BY <1>7, <3>2, <3>4
        <4>2. dflips'[Len(dflips) + 1].who = t
          BY <1>6, <1>7, <2>3
        <4>3. \A i, j \in 1 .. Len(dflips) : dflips[i].who = dflips[j].who => i = j
          BY <1>1, <2>3 DEF Told
        <4>4. \A i \in 1 .. Len(dflips') : i \in 1 .. Len(dflips) \/ i = Len(dflips) + 1
          BY <1>2, <1>7
        <4>5. QED
          BY <4>1, <4>2, <4>3, <4>4
      <3>7. (Len(busy) = 1 /\ wpc # "count" =>
              Waits(busy[1].who) /\ \A i \in 1 .. Len(dflips) : dflips[i].who # busy[1].who)'
        <4> SUFFICES ASSUME Len(busy) = 1, wpc' # "count"
                     PROVE  (Waits(busy[1].who))' /\ \A i \in 1 .. Len(dflips') : dflips'[i].who # busy[1].who
          BY <1>3
        <4>1. wpc # "count"
          BY <1>3
        <4>2. Waits(busy[1].who) /\ \A i \in 1 .. Len(dflips) : dflips[i].who # busy[1].who
          BY <1>1, <2>3, <4>1 DEF Told
        <4>3. busy[1].who # t
          BY <3>2, <4>2
        <4>4. (Waits(busy[1].who))'
          BY <1>3, <3>2, <4>2 DEF Waits
        <4>5. \A i \in 1 .. Len(dflips') : i \in 1 .. Len(dflips) \/ i = Len(dflips) + 1
          BY <1>2, <1>7
        <4>6. QED
          BY <1>6, <1>7, <2>3, <4>2, <4>3, <4>4, <4>5
      <3>8. QED
        BY <2>1, <2>2, <3>1, <3>5, <3>6, <3>7 DEF Told
    <2>4. CASE console # "ps5"
      BY <1>3, <2>1, <2>2, <2>4 DEF Told
    <2>5. QED
      BY <2>3, <2>4
  <1>17. Newest'
    <2>1. dflips'[Len(dflips')].due = D!Later(last', 0)
      BY <1>3, <1>5, <1>6, <1>7 DEF D!Later
    <2>2. Len(dflips') # 0
      BY <1>2, <1>7
    <2>3. wpc' \in {"complete", "count"} => busy'[1].due = 0
      BY <1>1, <1>3 DEF Newest
    <2>4. aimed' > 0 => \/ \E i \in 1 .. Len(dflips') : dflips'[i].due = aimed'
                        \/ Len(busy') = 1 /\ busy'[1].due = aimed'
      <3>1. CASE v
        <4>1. Len(dflips) + 1 \in 1 .. Len(dflips') /\ dflips'[Len(dflips) + 1].due = aimed'
          BY <1>2, <1>3, <1>6, <1>7, <3>1
        <4>2. QED
          BY <4>1
      <3>2. CASE ~v
        <4>1. aimed' = aimed /\ busy' = busy
          BY <1>3, <3>2
        <4>2. \A i \in 1 .. Len(dflips) : i \in 1 .. Len(dflips') /\ dflips'[i].due = dflips[i].due
          BY <1>2, <1>7
        <4>3. QED
          BY <1>1, <4>1, <4>2 DEF Newest
      <3>3. QED
        BY <3>1, <3>2
    <2>5. QED
      BY <2>1, <2>2, <2>3, <2>4 DEF Newest
  <1>18. v => due > aimed
    <2> SUFFICES ASSUME v, aimed > 0
                 PROVE  due > aimed
      BY <1>2, <1>5
    <2>1. Len(dflips) + Len(busy) < 2
      BY <1>1, <1>3 DEF FlipCore, D!PendingExact
    <2>2. D!Later(last, 0) = aimed
      <3>1. CASE \E i \in 1 .. Len(dflips) : dflips[i].due = aimed
        <4>1. PICK i \in 1 .. Len(dflips) : dflips[i].due = aimed
          BY <3>1
        <4>2. \A k, l \in Nat : \A j \in 1 .. k : k + l < 2 => k = 1 /\ j = 1
          OBVIOUS
        <4>3. Len(dflips) = 1 /\ i = 1
          BY <1>2, <2>1, <4>2
        <4>4. QED
          BY <1>1, <4>1, <4>3 DEF Newest
      <3>2. CASE Len(busy) = 1 /\ busy[1].due = aimed
        <4>1. Len(dflips) = 0
          BY <1>2, <2>1, <3>2
        <4>2. QED
          BY <1>1, <3>2, <4>1 DEF Newest
      <3>3. QED
        BY <1>1, <3>1, <3>2 DEF Newest
    <2>3. QED
      BY <1>2, <1>5, <2>2 DEF D!Later
  <1>19. QED
    BY <1>6, <1>7, <1>12, <1>15, <1>16, <1>17, <1>18 DEF FlipIInv

\* The next title starts.
LEMMA SessionKeeps ==
  ASSUME FlipIInv, D!NextSession
  PROVE  FlipIInv'
  <1> USE DEF D!NextSession, D!fixed
  <1>1. FlipCore /\ D!LabelOnStack /\ Told
    BY DEF FlipIInv
  <1>2. D!TypeOK /\ hand \in [Threads -> Seq(BOOLEAN)]
    BY <1>1, FlipFacts
  <1>3. \A u \in Threads : dpc[u] = "run" /\ Len(hand[u]) = 0 /\ ~label[u]
    BY <1>1 DEF FlipCore, Hands, D!LabelOnStack
  <1>4. /\ hand' \in [Threads -> Seq(BOOLEAN)] /\ IsFiniteSet(D!InHand') /\ Hands'
        /\ Cardinality(D!InHand') = Cardinality(D!InHand)
    BY <1>1, HandStays
  <1>5. Cardinality(D!InHand) = 0
    <2>1. \A u \in Threads : DOMAIN hand[u] = 1 .. 0
      BY <1>2, <1>3, LenProperties
    <2>2. D!InHand = {}
      BY <2>1 DEF D!InHand
    <2>3. QED
      BY <2>2, FS_EmptySet
  <1>6. /\ Len(dflips') = 0 /\ Len(busy') = 0 /\ Len(gpu') = 0
        /\ dflips' \in Seq(FlipType) /\ busy' \in Seq(FlipType) /\ gpu' \in Seq(BOOLEAN)
    OBVIOUS
  <1>7. /\ ready' \in [Threads -> BOOLEAN] /\ cancelled' \in [Threads -> BOOLEAN]
        /\ \A u \in Threads : ~ready'[u] /\ ~cancelled'[u]
    OBVIOUS
  <1>8. FlipCore'
    <2>1. FlipTyped'
      <3>1. /\ UNCHANGED <<console, timing, dpc, hand, label>> /\ stopping' = FALSE
            /\ now' = 0 /\ rate' = 0 /\ last' = 0 /\ aimed' = 0 /\ pending' = 0 /\ submits' = 0
            /\ wpc' = "none"
        OBVIOUS
      <3> HIDE DEF D!NextSession
      <3>2. 0 \in 0 .. Phases - 1 /\ 0 \in Rates /\ 0 \in 0 .. 2 /\ 0 \in Int /\ 0 \in Nat
        BY EventsAssumption DEF D!DisplayAssumptions
      <3>3. D!TypeOK'
        BY <1>2, <1>7, <3>1, <3>2 DEF D!TypeOK
      <3>4. QED
        BY <1>4, <1>6, <3>3 DEF FlipTyped
    <2>2. D!PendingExact' /\ AtWork' /\ Counts'
      BY <1>4, <1>5, <1>6 DEF D!PendingExact, AtWork, Counts
    <2>3. QED
      BY <1>4, <2>1, <2>2 DEF FlipCore
  <1>9. D!LabelOnStack'
    BY <1>1 DEF D!LabelOnStack
  <1>10. Told'
    BY <1>3, <1>6, <1>7 DEF Told
  <1>11. Newest'
    BY <1>6 DEF Newest
  <1>12. QED
    BY <1>8, <1>9, <1>10, <1>11 DEF FlipIInv

LEMMA FlipInit ==
  ASSUME D!Init
  PROVE  FlipIInv
  <1> USE DEF D!Init
  <1>1. /\ Len(dflips) = 0 /\ Len(busy) = 0 /\ Len(gpu) = 0
        /\ dflips \in Seq(FlipType) /\ busy \in Seq(FlipType) /\ gpu \in Seq(BOOLEAN)
    OBVIOUS
  <1>2. \A u \in Threads : hand[u] = <<>> /\ dpc[u] = "run" /\ ~label[u] /\ ~ready[u] /\ ~cancelled[u]
    OBVIOUS
  <1>3. D!InHand = {}
    <2>1. \A u \in Threads : DOMAIN hand[u] = {}
      BY <1>2
    <2>2. QED
      BY <2>1 DEF D!InHand
  <1>4. IsFiniteSet(D!InHand) /\ Cardinality(D!InHand) = 0
    BY <1>3, FS_EmptySet
  <1>5. \A u \in Threads : Len(hand[u]) = 0
    <2>1. Len(<<>>) = 0
      OBVIOUS
    <2>2. QED
      BY <1>2, <2>1
  <1>6. FlipTyped
    <2>1. 0 \in 0 .. Phases - 1 /\ 0 \in Rates /\ 0 \in 0 .. 2 /\ 0 \in Int /\ 0 \in Nat
      BY EventsAssumption DEF D!DisplayAssumptions
    <2>2. D!TypeOK
      BY <2>1 DEF D!TypeOK
    <2>3. hand \in [Threads -> Seq(BOOLEAN)]
      OBVIOUS
    <2>4. QED
      BY <1>1, <1>4, <2>2, <2>3 DEF FlipTyped
  <1>7. D!PendingExact /\ AtWork /\ Counts
    BY <1>1, <1>4 DEF D!PendingExact, AtWork, Counts
  <1>8. Hands
    BY <1>2, <1>5 DEF Hands
  <1>9. D!LabelOnStack /\ Told
    BY <1>1, <1>2 DEF D!LabelOnStack, Told
  <1>10. Newest
    BY <1>1 DEF Newest
  <1>11. QED
    BY <1>6, <1>7, <1>8, <1>9, <1>10 DEF FlipIInv, FlipCore

LEMMA FlipNext ==
  ASSUME FlipIInv, [D!Next]_D!vars
  PROVE  FlipIInv'
  <1>1. ASSUME UNCHANGED D!vars
        PROVE  FlipIInv'
    <2>1. UNCHANGED <<console, timing, now, last, aimed, pending, dflips, busy, wpc,
                      dpc, hand, submits, gpu, ready, cancelled, label>> /\ UNCHANGED <<rate, stopping>>
      BY <1>1 DEF D!vars, D!fixed, D!clock, D!queue, D!worker, D!counts, D!completion
    <2>2. rate \in Rates /\ stopping \in BOOLEAN
      BY FlipFacts DEF FlipIInv, D!TypeOK
    <2>3. QED
      BY <2>1, <2>2, QuietKeeps
  <1>2. ASSUME NEW r \in Rates, D!SetFlipRate(r)
        PROVE  FlipIInv'
    <2>1. /\ UNCHANGED <<console, timing, now, last, aimed, pending, dflips, busy, wpc,
                         dpc, hand, submits, gpu, ready, cancelled, label>>
          /\ rate' = r /\ stopping' = stopping
      BY <1>2 DEF D!SetFlipRate, D!fixed, D!queue, D!worker, D!counts, D!completion
    <2>2. stopping \in BOOLEAN
      BY FlipFacts DEF FlipIInv, D!TypeOK
    <2>3. QED
      BY <2>1, <2>2, QuietKeeps
  <1>3. ASSUME D!Stop
        PROVE  FlipIInv'
    <2>1. /\ UNCHANGED <<console, timing, now, last, aimed, pending, dflips, busy, wpc,
                         dpc, hand, submits, gpu, ready, cancelled, label>>
          /\ rate' = rate /\ stopping' = TRUE
      BY <1>3 DEF D!Stop, D!fixed, D!clock, D!queue, D!worker, D!counts, D!completion
    <2>2. rate \in Rates
      BY FlipFacts DEF FlipIInv, D!TypeOK
    <2>3. QED
      BY <2>1, <2>2, QuietKeeps
  <1>4. ASSUME D!Display
        PROVE  FlipIInv'
    BY <1>4, TakeKeeps, UntilKeeps, RunKeeps, CountKeeps DEF D!Display
  <1>5. ASSUME NEW t \in Threads, NEW vsync \in BOOLEAN,
               D!Submit(t, vsync) \/ D!SubmitGpu(t, vsync) \/ D!WaitFlip(t, vsync)
        PROVE  FlipIInv'
    BY <1>5, SubmitKeeps, WaitFlipKeeps
  <1>6. ASSUME NEW t \in Threads, D!CompleteGpu(t) \/ D!Go(t) \/ D!Refused(t)
        PROVE  FlipIInv'
    BY <1>6, GpuKeeps, QueueNowKeeps, QueueFlipKeeps, WaitEndKeeps, RefusedKeeps DEF D!Go
  <1>7. QED
    BY <1>1, <1>2, <1>3, <1>4, <1>5, <1>6, TickKeeps, SessionKeeps DEF D!Next

\* Only QueueFlip makes the queue longer.
LEMMA FlipPaced ==
  ASSUME FlipIInv, D!Next, Len(dflips') > Len(dflips), dflips'[Len(dflips')].vsync
  PROVE  dflips'[Len(dflips')].due > aimed
  <1>1. FlipCore
    BY DEF FlipIInv
  <1>2. dflips \in Seq(FlipType) /\ Len(dflips) \in Nat /\ (dflips = <<>> <=> Len(dflips) = 0)
    BY <1>1, FlipFacts
  <1>3. ~(dflips' = dflips)
    BY <1>2
  <1>4. ~D!Tick
    BY <1>2, NearerFlips DEF D!Tick
  <1>5. ~D!Take
    <2>1. Len(dflips) > 0 => Len(Tail(dflips)) = Len(dflips) - 1
      BY <1>2, SeqEnds
    <2>2. QED
      BY <1>2, <2>1 DEF D!Take
  <1>6. ~D!NextSession
    BY <1>2 DEF D!NextSession
  <1>7. ~D!Display
    BY <1>3, <1>5 DEF D!Display, D!Until, D!Run, D!Count, D!IdleStopped, D!queue
  <1>8. ~D!Stop /\ \A r \in Rates : ~D!SetFlipRate(r)
    BY <1>3 DEF D!Stop, D!SetFlipRate, D!queue
  <1>9. ASSUME NEW t \in Threads
        PROVE  /\ ~D!CompleteGpu(t) /\ ~D!Refused(t) /\ ~D!PushGpu(t) /\ ~D!QueueNow(t)
               /\ ~D!WaitDone(t) /\ ~D!WaitStopped(t)
               /\ \A vsync \in BOOLEAN : ~D!Submit(t, vsync) /\ ~D!SubmitGpu(t, vsync) /\ ~D!WaitFlip(t, vsync)
    BY <1>3 DEF D!CompleteGpu, D!Refused, D!PushGpu, D!QueueNow, D!WaitDone, D!WaitStopped,
                D!Submit, D!SubmitGpu, D!WaitFlip, D!queue
  <1>10. PICK t \in Threads : D!QueueFlip(t)
    BY <1>4, <1>6, <1>7, <1>8, <1>9 DEF D!Next, D!Go
  <1>11. QED
    BY <1>10, QueueFlipKeeps

LEMMA FlipHolds ==
  ASSUME FlipIInv
  PROVE  D!FlipInv
  <1>1. D!StatusExact
    BY DEF FlipIInv, FlipCore, Counts, D!StatusExact, D!Cardinality, Cardinality
  <1>2. QED
    BY <1>1 DEF FlipIInv, FlipCore, FlipTyped, D!FlipInv

\* In the sum a behaviour about flips takes steps of Display only.
LEMMA FlipAlways ==
  /\ D!Spec => []FlipIInv
  /\ AllSpec => [](used = "flips" => FlipIInv)
  <1> DEFINE I == used = "flips" => FlipIInv
  <1>1. D!Init => FlipIInv
    BY FlipInit
  <1>2. FlipIInv /\ [D!Next]_D!vars => FlipIInv'
    BY FlipNext
  <1>3. AllInit => I
    BY <1>1 DEF AllInit
  <1>4. I /\ [AllNext]_allVars => I'
    <2>1. SUFFICES ASSUME I, [AllNext]_allVars, used' = "flips" PROVE FlipIInv'
      OBVIOUS
    <2>2. used = "flips" /\ [D!Next]_D!vars
      <3>1. CASE AllNext
        BY <2>1, <3>1 DEF AllNext, InEvents, InDisplay
      <3>2. CASE UNCHANGED allVars
        BY <2>1, <3>2 DEF allVars, displayOnly, D!vars, D!fixed, D!clock, D!queue, D!worker,
                          D!counts, D!completion
      <3>3. QED
        BY <2>1, <3>1, <3>2
    <2>3. QED
      BY <1>2, <2>1, <2>2
  <1>5. D!Spec => []FlipIInv
    BY <1>1, <1>2, PTL DEF D!Spec
  <1>6. AllSpec => []I
    BY <1>3, <1>4, PTL DEF AllSpec
  <1>7. QED
    BY <1>5, <1>6

\* pending and the flip status are exact in every state, and no label on a stack is written
\* when its caller has left: for every number of guest threads, both consoles, and any flips
\* a title has outstanding.
THEOREM FlipsCounted ==
  /\ D!Spec => []D!FlipInv
  /\ AllSpec => []FlipInv
  <1>1. FlipIInv => D!FlipInv
    BY FlipHolds
  <1>2. (used = "flips" => FlipIInv) => FlipInv
    BY <1>1 DEF FlipInv
  <1>3. QED
    BY <1>1, <1>2, FlipAlways, PTL

\* Two flips of mode 1 are never aimed at the same vblank, whatever flips of mode 2 and
\* changes of the rate come between them.
THEOREM FlipsArePaced ==
  /\ D!Spec => D!FlipsPaced
  /\ AllSpec => FlipsPaced
  <1> DEFINE A == Len(dflips') > Len(dflips) /\ dflips'[Len(dflips')].vsync
                    => dflips'[Len(dflips')].due > aimed
  <1>1. FlipIInv /\ [D!Next]_D!vars => [A]_D!vars
    BY FlipPaced
  <1>2. (used = "flips" => FlipIInv) /\ [AllNext]_allVars => [A]_D!vars
    <2>1. SUFFICES ASSUME used = "flips" => FlipIInv, [AllNext]_allVars PROVE [A]_D!vars
      OBVIOUS
    <2>2. CASE InDisplay(D!Next)
      BY <1>1, <2>1, <2>2 DEF InDisplay
    <2>3. CASE UNCHANGED displayOnly
      <3>1. dflips' = dflips
        BY <2>3 DEF displayOnly
      <3>2. Len(dflips) > Len(dflips) => FALSE
        BY <3>1
      <3>3. QED
        BY <3>1, <3>2
    <2>4. QED
      BY <2>1, <2>2, <2>3 DEF AllNext, InEvents, allVars
  <1>3. QED
    BY <1>1, <1>2, FlipAlways, PTL DEF D!Spec, AllSpec, FlipsPaced, D!FlipsPaced
=============================================================================
