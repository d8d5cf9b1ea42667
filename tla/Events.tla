------------------------------- MODULE Events --------------------------------
(***************************************************************************)
(* What tells a title that time passes: event queues (Equeue) and paced    *)
(* flips (Display).  A behaviour is about one of them, chosen at the start. *)
(***************************************************************************)
EXTENDS Equeue

CONSTANTS Consoles, Rates, Phases, MaxSubmits             \* Display

VARIABLES
  used,                                                   \* what the behaviour is about
  console, timing, now, rate, last, aimed, pending, dflips, wpc, busy, dpc, hand,
  submits, gpu, ready, cancelled, label                   \* Display

D == INSTANCE Display WITH flips <- dflips, pc <- dpc

ASSUME EventsAssumption == D!DisplayAssumptions

eventOnly == <<kept, locks, threads, walks, started, watched, eop, lastEop, flips>>
displayOnly == <<console, timing, now, rate, last, aimed, pending, dflips, wpc, busy,
                 dpc, hand, submits, gpu, ready, cancelled, label>>
allVars == <<eventOnly, displayOnly, stopping, used>>

InEvents(A) == used = "events" /\ A /\ UNCHANGED <<displayOnly, used>>
InDisplay(A) == used = "flips" /\ A /\ UNCHANGED <<eventOnly, used>>

\* What is not in use has one initial state.
AllInit ==
  /\ used \in {"events", "flips"} /\ Init /\ D!Init
  /\ used # "events" => keys = {"gnm"}
  /\ used # "flips" => console = "ps4" /\ timing

AllNext == InEvents(Next) \/ InDisplay(D!Next)

\* The fairness of the two specifications; conditions of one and of the other are
\* joined two by two, since a behaviour takes steps of one only.
AllSpec ==
  /\ AllInit /\ [][AllNext]_allVars
  /\ WF_allVars(InEvents(PumpTick) \/ InDisplay(D!Tick))
  /\ WF_allVars(InEvents(EopStore) \/ InDisplay(D!Display))
  /\ SF_allVars(InEvents(Walk("pump")))
  /\ \A s \in Sources \ {"pump"} : WF_allVars(InEvents(Walk(s)))
  /\ \A t \in Threads : SF_allVars(InEvents(Go(t)) \/ InDisplay(D!Go(t)))

-----------------------------------------------------------------------------
\* Display: pending and the flip status are exact, and no label on a stack is
\* written when its caller has left.
FlipInv == used = "flips" => D!FlipInv

\* Display: two flips of mode 1 are never aimed at the same vblank.
FlipsPaced == D!FlipsPaced

\* Equeue: a call that sleeps comes back when a knote of its queue is active or a
\* vblank is due on it.  Display: every flip completes and every call returns, in
\* a session or by its stop.
CallsComeBack == ActiveWakes /\ VblankWaiterReturns /\ D!FlipsEnd
=============================================================================
