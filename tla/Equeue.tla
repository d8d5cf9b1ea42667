------------------------------- MODULE Equeue -------------------------------
(***************************************************************************)
(* Event queues (delta/kern/lv2/sys_event.cc): sys_kqueue, sys_kevent,     *)
(* AddEvent and RemoveEvent on one side; on the other the threads that     *)
(* trigger knotes, the 60 Hz pump, the GPU's end-of-pipe interrupts,       *)
(* completed flips and the socket watcher, each of which walks g_equeues.  *)
(*                                                                         *)
(* Three locks nest: ObjectTable::omutex_ around ~Equeue, g_eq_reg_m       *)
(* around every Equeue::m_ of a walk, and m_ around WatchSocket, which     *)
(* resolves a descriptor under omutex_.  A section that takes no second    *)
(* lock is one action, guarded by its lock being free; the others keep     *)
(* the lock in omutex, regm or m.  guest::Wait comes back on a             *)
(* notification or after 20 ms.                                            *)
(*                                                                         *)
(* Of an event's data only the number that tells events apart is kept (the *)
(* end-of-pipe count or context id, the flip index); the sequence bits and *)
(* the TSC nonce packed below it are not.                                  *)
(***************************************************************************)
EXTENDS Integers, Sequences, FiniteSets

CONSTANTS
  Threads,   \* guest threads
  Queues,    \* equeues the title makes
  KeySets,   \* the (ident, filter) pairs a title registers, by kind of source
  OutSizes,  \* the nevents arguments
  MaxEop,    \* bound: end-of-pipe interrupts in one behaviour
  MaxFlips,  \* bound: flips in one behaviour
  EmulateTiming   \* guest::display::kEmulateTiming

\* The kinds: a Gnm registration (filter -14, small ident), a vblank waiter (on
\* -14 with a large ident, -13 with event type 7, or -15), a flip waiter (-13),
\* a user event and a socket.
Kinds == {"gnm", "vblank", "flip", "user", "read"}

PumpKinds == {"gnm", "vblank", "flip"}   \* registering one starts the pump

ASSUME EqueueAssumptions ==
  /\ KeySets \subseteq SUBSET Kinds
  /\ OutSizes \subseteq Nat /\ MaxEop \in Nat /\ MaxFlips \in Nat
  /\ EmulateTiming \in BOOLEAN

Sources == {"pump", "gpu", "flip", "watch"}   \* the triggering threads
Free == "free"

VARIABLES
  keys,      \* what the title registers, a member of KeySets
  life,      \* of a queue: "none", "open" (its handle is in the table), "closed"
  reg,       \* g_equeues
  notes,     \* Equeue::notes_, a sequence of knotes per queue
  pc,        \* of a guest thread
  call,      \* its kevent arguments, or NoCall
  out,       \* the set of events its kevent has returned
  omutex,    \* owner of ObjectTable::omutex_ across steps
  regm,      \* owner of g_eq_reg_m across steps
  m,         \* owner of Equeue::m_ across steps
  job,       \* of a source: the trigger it has still to fan out, or NoJob
  left,      \* of a source: the queues of its walk still to visit
  started,   \* g_vblank_started
  watched,   \* g_watched is not empty
  eop,       \* g_eop_seq
  lastEop,   \* g_last_eop_data or g_last_eop_ctx
  flips,     \* g_flip_count
  stopping   \* guest::Stopping()

kept == <<keys, life, reg, notes>>
locks == <<omutex, regm, m>>
threads == <<pc, call, out>>
walks == <<job, left>>
globals == <<started, watched, eop, lastEop, flips, stopping>>
vars == <<kept, locks, threads, walks, globals>>

NoCall == <<>>
NoChange == <<"none", "none">>

Trig(k, d) == [kind |-> k, data |-> d]
NoJob == Trig("none", 0)

Init ==
  /\ keys \in KeySets
  /\ life = [q \in Queues |-> "none"]
  /\ reg = {}
  /\ notes = [q \in Queues |-> <<>>]
  /\ pc = [t \in Threads |-> "run"]
  /\ call = [t \in Threads |-> NoCall]
  /\ out = [t \in Threads |-> {}]
  /\ omutex = Free /\ regm = Free /\ m = [q \in Queues |-> Free]
  /\ job = [s \in Sources |-> NoJob]
  /\ left = [s \in Sources |-> {}]
  /\ started = FALSE /\ watched = FALSE
  /\ eop = 0 /\ lastEop = 0 /\ flips = 0
  /\ stopping = FALSE

-----------------------------------------------------------------------------
(* Knotes                                                                  *)

Find(ns, k) == {i \in DOMAIN ns : ns[i].key = k}
Knote(k) == [key |-> k, active |-> FALSE, data |-> 0, seen |-> 0]

\* EV_ADD: replace (eop_seen stays) or append.
Register(ns, k) ==
  IF Find(ns, k) = {} THEN Append(ns, Knote(k))
  ELSE [i \in DOMAIN ns |->
          IF ns[i].key = k THEN [ns[i] EXCEPT !.active = FALSE, !.data = 0]
          ELSE ns[i]]

\* EV_DELETE erases the first knote of the pair.
Erase(ns, k) ==
  IF Find(ns, k) = {} THEN ns
  ELSE LET j == CHOOSE i \in Find(ns, k) : \A h \in Find(ns, k) : i <= h
       IN [i \in 1 .. Len(ns) - 1 |-> IF i < j THEN ns[i] ELSE ns[i + 1]]

\* One entry of a changelist.
Changed(ns, c) ==
  CASE c = NoChange -> ns
    [] c[1] = "delete" -> Erase(ns, c[2])
    [] c[1] = "trigger" ->
         [i \in DOMAIN ns |->
            IF ns[i].key = "user" THEN [ns[i] EXCEPT !.active = TRUE] ELSE ns[i]]
    [] OTHER -> Register(ns, c[2])

Adds(c) == c[1] = "add"

\* A Gnm knote behind the end-of-pipe count is active again.
Rearm(ns) ==
  [i \in DOMAIN ns |->
     IF ~ns[i].active /\ ns[i].key = "gnm" /\ ns[i].seen < eop
     THEN [ns[i] EXCEPT !.active = TRUE, !.data = lastEop] ELSE ns[i]]

Active(ns) == {i \in DOMAIN ns : ns[i].active}

\* The knotes collect takes: the first nout active ones.
Taken(ns, nout) ==
  {i \in Active(ns) : Cardinality({j \in Active(ns) : j < i}) < nout}

Collected(ns, nout) ==
  [i \in DOMAIN ns |->
     IF i \in Taken(ns, nout)
     THEN [ns[i] EXCEPT !.active = FALSE, !.seen = eop] ELSE ns[i]]

Events(ns, nout) == {[key |-> ns[i].key, data |-> ns[i].data] : i \in Taken(ns, nout)}

\* Mutant of Matches: the pump's filter -14 tick also reaches Gnm knotes.
Matches_Gnm(trig, key) ==
  trig.kind = key \/ (trig.kind = "vblank" /\ key = "gnm")

\* Which knotes a trigger activates: Trigger with its filter, ident and vblank
\* tests, or TriggerGnm.
Matches(trig, key) == trig.kind = key

Triggered(ns, trig) ==
  [i \in DOMAIN ns |->
     IF Matches(trig, ns[i].key)
     THEN [ns[i] EXCEPT !.active = TRUE, !.data = trig.data] ELSE ns[i]]

-----------------------------------------------------------------------------
(* Guest threads                                                           *)

\* The calls that hold a reference to the queue.
Users(q) == {t \in Threads : pc[t] # "run" /\ call[t].q = q}

\* sys_kqueue, sys_kqueueex: into the object table, then into g_equeues.
Kqueue(q) ==
  /\ life[q] = "none" /\ omutex = Free /\ regm = Free
  /\ life' = [life EXCEPT ![q] = "open"]
  /\ reg' = reg \cup {q}
  /\ UNCHANGED <<keys, notes, locks, threads, walks, globals>>

\* Step 2 of Kevent on the knotes ns, m_ held: re-arm, collect what is
\* active, and either return or go to sleep.
CollectOrSleep(t, c, ns) ==
  LET armed == IF c.nout > 0 THEN Rearm(ns) ELSE ns
      done == c.nout = 0 \/ Active(armed) # {}
  IN /\ notes' = [notes EXCEPT ![c.q] = Collected(armed, c.nout)]
     /\ out' = [out EXCEPT ![t] = Events(armed, c.nout)]
     /\ pc' = [pc EXCEPT ![t] = IF done THEN "return" ELSE "wait"]

\* sys_kevent resolves kq under omutex_, keeps a reference, takes m_ and
\* applies its change.  A socket registration goes on to WatchSocket with m_
\* held.  (Between the two locks the call holds neither and has done nothing.)
Kevent(t, c, change) ==
  /\ pc[t] = "run" /\ life[c.q] = "open" /\ omutex = Free /\ m[c.q] = Free
  /\ call' = [call EXCEPT ![t] = c]
  /\ started' = (started \/ (Adds(change) /\ change[2] \in PumpKinds))
  /\ LET ns == Changed(notes[c.q], change)
     IN IF Adds(change) /\ change[2] = "read"
        THEN /\ m' = [m EXCEPT ![c.q] = t]
             /\ notes' = [notes EXCEPT ![c.q] = ns]
             /\ pc' = [pc EXCEPT ![t] = "watch"]
             /\ UNCHANGED out
        ELSE CollectOrSleep(t, c, ns) /\ UNCHANGED m
  /\ UNCHANGED <<keys, life, reg, omutex, regm, walks, watched, eop, lastEop,
                 flips, stopping>>

\* WatchSocket: FdToSocket takes omutex_; then Kevent goes on and frees m_.
Watch(t) ==
  /\ pc[t] = "watch" /\ omutex = Free
  /\ watched' = TRUE
  /\ CollectOrSleep(t, call[t], notes[call[t].q])
  /\ m' = [m EXCEPT ![call[t].q] = Free]
  /\ UNCHANGED <<keys, life, reg, call, omutex, regm, walks, started, eop,
                 lastEop, flips, stopping>>

\* Mutant of Wake: the predicate looks at the first knote only.
Wake_First(t) ==
  /\ pc[t] = "wait" /\ m[call[t].q] = Free
  /\ LET ns == notes[call[t].q]
     IN /\ 1 \in Active(ns) \/ (stopping /\ ~call[t].timed)
        /\ notes' = [notes EXCEPT ![call[t].q] = Collected(ns, call[t].nout)]
        /\ out' = [out EXCEPT ![t] = Events(ns, call[t].nout)]
  /\ pc' = [pc EXCEPT ![t] = "return"]
  /\ UNCHANGED <<keys, life, reg, call, locks, walks, globals>>

\* The wait ends because a knote is active or, untimed, the session stops:
\* collect again.
Wake(t) ==
  /\ pc[t] = "wait" /\ m[call[t].q] = Free
  /\ LET ns == notes[call[t].q]
     IN /\ Active(ns) # {} \/ (stopping /\ ~call[t].timed)
        /\ notes' = [notes EXCEPT ![call[t].q] = Collected(ns, call[t].nout)]
        /\ out' = [out EXCEPT ![t] = Events(ns, call[t].nout)]
  /\ pc' = [pc EXCEPT ![t] = "return"]
  /\ UNCHANGED <<keys, life, reg, call, locks, walks, globals>>

\* A timed wait with nothing active ends at its deadline or with the session.
WakeTimeout(t) ==
  /\ pc[t] = "wait" /\ m[call[t].q] = Free
  /\ call[t].timed /\ Active(notes[call[t].q]) = {}
  /\ pc' = [pc EXCEPT ![t] = "return"]
  /\ UNCHANGED <<kept, call, out, locks, walks, globals>>

\* sys_kevent drops its reference; the last one of a closed queue runs
\* ~Equeue, which takes g_eq_reg_m.
KeventEnd(t) ==
  /\ pc[t] = "return"
  /\ LET q == call[t].q
         dies == life[q] = "closed" /\ Users(q) = {t}
     IN /\ dies => regm = Free
        /\ reg' = IF dies THEN reg \ {q} ELSE reg
  /\ pc' = [pc EXCEPT ![t] = "run"]
  /\ call' = [call EXCEPT ![t] = NoCall]
  /\ out' = [out EXCEPT ![t] = {}]
  /\ UNCHANGED <<keys, life, notes, locks, walks, globals>>

\* sys_close of kq: ObjectTable::Release.  Without a call on the queue the
\* destructor runs inside it, with omutex_ held.
Close(t, q) ==
  /\ pc[t] = "run" /\ life[q] = "open" /\ omutex = Free
  /\ life' = [life EXCEPT ![q] = "closed"]
  /\ IF Users(q) = {}
     THEN /\ omutex' = t
          /\ pc' = [pc EXCEPT ![t] = "destroy"]
          /\ call' = [call EXCEPT ![t] = [q |-> q, nout |-> 0,
                                          timed |-> FALSE]]
     ELSE UNCHANGED <<omutex, pc, call>>
  /\ UNCHANGED <<keys, reg, notes, out, regm, m, walks, globals>>

\* ~Equeue from ObjectTable::Release.
Destroy(t) ==
  /\ pc[t] = "destroy" /\ regm = Free
  /\ reg' = reg \ {call[t].q}
  /\ omutex' = Free
  /\ pc' = [pc EXCEPT ![t] = "run"]
  /\ call' = [call EXCEPT ![t] = NoCall]
  /\ UNCHANGED <<keys, life, notes, out, regm, m, walks, globals>>

-----------------------------------------------------------------------------
(* The triggering threads                                                  *)

\* One tick of StartVblankPump's thread: filters -15, -14 and -13, one walk
\* each over knotes no other one of the three reaches, are one walk here ...
PumpTick ==
  /\ started /\ ~stopping /\ job["pump"] = NoJob
  /\ job' = [job EXCEPT !["pump"] = Trig("vblank", 0)]
  /\ UNCHANGED <<kept, locks, threads, left, globals>>

\* Mutant of PumpFlip: the flip that is going on is announced.
PumpFlip_Count == Trig("flip", flips)

\* ... and, read only after it, the last flip.
PumpFlip == Trig("flip", flips - 1)

\* NoteGpuEndOfPipe and NoteGpuEndOfPipeCtx: the count, then the data or
\* context id, then the walk.  (One that no knote can hear is left out, as
\* is such a flip.)
EopCount ==
  /\ "gnm" \in keys
  /\ eop < MaxEop /\ job["gpu"] = NoJob
  /\ eop' = eop + 1
  /\ job' = [job EXCEPT !["gpu"] = Trig("store", eop + 1)]
  /\ UNCHANGED <<kept, locks, threads, left, started, watched, lastEop, flips,
                 stopping>>

EopStore ==
  /\ job["gpu"].kind = "store"
  /\ lastEop' = job["gpu"].data
  /\ job' = [job EXCEPT !["gpu"] = Trig("gnm", lastEop')]
  /\ UNCHANGED <<kept, locks, threads, left, started, watched, eop, flips,
                 stopping>>

\* NoteFlip.
NoteFlip ==
  /\ "flip" \in keys
  /\ flips < MaxFlips /\ job["flip"] = NoJob
  /\ flips' = flips + 1
  /\ job' = [job EXCEPT !["flip"] = Trig("flip", flips)]
  /\ UNCHANGED <<kept, locks, threads, left, started, watched, eop, lastEop,
                 stopping>>

\* The socket watcher resolves its descriptors (omutex_) and finds a byte.
WatchReady ==
  /\ watched /\ job["watch"] = NoJob /\ omutex = Free
  /\ job' = [job EXCEPT !["watch"] = Trig("read", 1)]
  /\ UNCHANGED <<kept, locks, threads, left, globals>>

\* TriggerAllEqueues and the walks of NoteGpuEndOfPipe: take g_eq_reg_m ...
WalkBegin(s) ==
  /\ job[s].kind \notin {"none", "store"} /\ regm = Free
  /\ regm' = s
  /\ left' = [left EXCEPT ![s] = reg]
  /\ UNCHANGED <<kept, omutex, m, threads, job, globals>>

\* ... trigger each queue under its m_ ...
WalkStep(s, q) ==
  /\ regm = s /\ q \in left[s] /\ m[q] = Free
  /\ notes' = [notes EXCEPT ![q] = Triggered(@, job[s])]
  /\ left' = [left EXCEPT ![s] = @ \ {q}]
  /\ UNCHANGED <<keys, life, reg, locks, threads, job, globals>>

\* ... and let go.  After its tick the pump looks at the flips.
WalkEnd(s) ==
  /\ regm = s /\ left[s] = {}
  /\ regm' = Free
  /\ job' = [job EXCEPT ![s] =
               IF job[s].kind = "vblank" /\ flips > 0 /\ ~EmulateTiming
               THEN PumpFlip ELSE NoJob]
  /\ UNCHANGED <<kept, omutex, m, threads, left, globals>>

\* guest::RequestStop.
Stop ==
  /\ ~stopping
  /\ stopping' = TRUE
  /\ UNCHANGED <<kept, locks, threads, walks, started, watched, eop, lastEop,
                 flips>>

\* The arguments of kevent: a poll for no event does not wait.
Calls ==
  {c \in [q : Queues, nout : OutSizes, timed : BOOLEAN] : c.nout = 0 => c.timed}

\* What a changelist asks for: nothing, EV_ADD, EV_DELETE, NOTE_TRIGGER.
Changes ==
  {NoChange} \cup ({"add", "delete"} \X keys)
             \cup ({"trigger"} \X (keys \cap {"user"}))

Walk(s) == WalkBegin(s) \/ WalkEnd(s) \/ \E q \in Queues : WalkStep(s, q)

\* What a thread inside a call does next.
Go(t) == Watch(t) \/ Wake(t) \/ WakeTimeout(t) \/ KeventEnd(t) \/ Destroy(t)

Next ==
  \/ Stop \/ PumpTick \/ EopCount \/ EopStore \/ NoteFlip \/ WatchReady
  \/ \E s \in Sources : Walk(s)
  \/ \E q \in Queues : Kqueue(q)
  \/ \E t \in Threads :
       \/ \E c \in Calls, change \in Changes : Kevent(t, c, change)
       \/ \E q \in Queues : Close(t, q)
       \/ Go(t)

\* Host threads are scheduled and a host mutex does not starve a waiter; the
\* pump ticks as long as the session runs; a deadline comes in the end.
Spec ==
  /\ Init /\ [][Next]_vars
  /\ WF_vars(PumpTick) /\ WF_vars(EopStore)
  /\ SF_vars(Walk("pump")) /\ \A s \in Sources : WF_vars(Walk(s))
  /\ \A t \in Threads : SF_vars(Go(t))

-----------------------------------------------------------------------------
TypeOK ==
  /\ keys \in KeySets
  /\ life \in [Queues -> {"none", "open", "closed"}]
  /\ reg \subseteq Queues
  /\ \A q \in Queues : \A i \in DOMAIN notes[q] :
       notes[q][i] \in [key : keys, active : BOOLEAN,
                        data : Nat, seen : 0 .. eop]
  /\ pc \in [Threads -> {"run", "watch", "wait", "return", "destroy"}]
  /\ omutex \in Threads \cup {Free} /\ regm \in Sources \cup {Free}
  /\ m \in [Queues -> Threads \cup {Free}]
  /\ eop \in 0 .. MaxEop /\ lastEop \in 0 .. eop /\ flips \in 0 .. MaxFlips
  /\ started \in BOOLEAN /\ watched \in BOOLEAN /\ stopping \in BOOLEAN

\* g_equeues names exactly the queues that exist: the object is there while its
\* handle is open or a kevent call or its destructor is under way, and a walk
\* never follows a pointer to a destroyed queue.
RegistryExact ==
  /\ reg = {q \in Queues : life[q] = "open" \/ Users(q) # {}}
  /\ \A s \in Sources : left[s] \subseteq reg

\* A pair (ident, filter) has at most one knote.
KnotesUnique ==
  \A q \in Queues : \A i, j \in DOMAIN notes[q] :
    notes[q][i].key = notes[q][j].key => i = j

\* A flip event, waiting or returned, carries the index of a flip that is done:
\* never one before the first flip and never the next one, whichever of NoteFlip
\* and the pump posted it last.
FlipIndexProduced ==
  /\ \A q \in Queues : \A i \in DOMAIN notes[q] :
       LET n == notes[q][i]
       IN n.key = "flip" /\ n.active => n.data < flips
  /\ \A t \in Threads : \A e \in out[t] : e.key = "flip" => e.data < flips

\* The state of the event queues.
EqueueInv == TypeOK /\ RegistryExact /\ KnotesUnique /\ FlipIndexProduced

\* A Gnm knote never says "GPU done" on a timer: it becomes active through a
\* walk the GPU started or because its count is behind.
GnmOnlyWhenDone(q) ==
  \A i \in DOMAIN notes[q] \cap DOMAIN notes'[q] :
    LET n == notes[q][i]
        n2 == notes'[q][i]
    IN n.key = "gnm" /\ n2.key = "gnm" /\ ~n.active /\ n2.active
         => regm = "gpu" \/ n.seen < eop

\* A call does not go to sleep on a Gnm knote the GPU has run past: the
\* completion it waits for, if there was one, has been or will be delivered.
NoSleepPastEop(t) ==
  pc[t] # "wait" /\ pc'[t] = "wait" =>
    \A i \in DOMAIN notes'[call'[t].q] :
      LET n == notes'[call'[t].q][i] IN n.key = "gnm" => n.seen >= eop

\* Gnm events follow the GPU: none fires on a timer, and no call goes to sleep
\* on a completion that is already counted.
GnmFollowsGpu ==
  [][/\ \A q \in Queues : GnmOnlyWhenDone(q)
     /\ \A t \in Threads : NoSleepPastEop(t)]_vars

\* A sleeper does not stay while a knote of its queue is active; with the pump
\* running an untimed sleeper on a vblank knote therefore always comes back.
ActiveWakes ==
  \A t \in Threads :
    []<>~(pc[t] = "wait" /\ Active(notes[call[t].q]) # {})

\* While a vblank knote is registered the tick keeps a call on its queue from
\* blocking for ever.
VblankWaiterReturns ==
  \A t \in Threads :
    []<>~(pc[t] \in {"watch", "wait"} /\ Find(notes[call[t].q], "vblank") # {})

\* "a knote compares so none is lost": while a thread waits without a deadline
\* and the GPU is not announcing an interrupt, every Gnm knote of the queue is
\* active or has accounted for all of them. The code does not keep this when
\* another thread registers the knote in a call that asks for no events.
NoEopLost ==
  \A t \in Threads :
    pc[t] = "wait" /\ ~call[t].timed /\ ~stopping /\ job["gpu"] = NoJob =>
      \A i \in DOMAIN notes[call[t].q] :
        LET n == notes[call[t].q][i]
        IN n.key = "gnm" => n.active \/ n.seen >= eop
=============================================================================
