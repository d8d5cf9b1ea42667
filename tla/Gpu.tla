-------------------------------- MODULE Gpu ---------------------------------
(***************************************************************************)
(* The host threads behind the two GPU front ends: the PS5's label         *)
(* publisher and its command queues (AgcLabels), and the PS4's render      *)
(* thread, presenter and walk (RenderQueue).  A behaviour is a session of  *)
(* one console, chosen at the start.                                       *)
(***************************************************************************)
EXTENDS AgcLabels

CONSTANTS Commands, DrawSlots, Addrs, Budgets               \* RenderQueue

VARIABLES
  console,                                                  \* "ps4" or "ps5"
  psrc, pend, showing, pstop, pthread,                      \* Presenter
  w, head, cmds, draws, r, done, drawsDone, rsubmitted,     \* RenderQueue
  rmem, dirty, rissued, option, qstop, stopping, lpc

RQ == INSTANCE RenderQueue WITH submitted <- rsubmitted, mem <- rmem, issued <- rissued

ASSUME RenderAssumption == RQ!RingAssumption

renderOnly == <<psrc, pend, showing, pstop, pthread, w, head, cmds, draws, r, done,
                drawsDone, rsubmitted, rmem, dirty, rissued, option, qstop, stopping, lpc>>
allVars == <<vars, renderOnly, console>>

InLabels(A) == console = "ps5" /\ A /\ UNCHANGED <<renderOnly, console>>
InRender(A) == console = "ps4" /\ A /\ UNCHANGED <<vars, console>>

\* What is not in use has one initial state.
AllInit ==
  /\ console \in {"ps4", "ps5"} /\ Init /\ RQ!Init
  /\ console = "ps5" => LET b == CHOOSE b \in Budgets : TRUE
                        IN  option = [cs |-> FALSE, push |-> b.push, writes |-> b.writes]

AllNext == InLabels(Next) \/ InRender(RQ!Next)

\* The fairness of the two specifications; one console's conditions and the
\* other's are never about the same behaviour.
AllSpec ==
  /\ AllInit /\ [][AllNext]_allVars
  /\ WF_allVars(InLabels(Publisher) \/ InRender(RQ!WalkStep))
  /\ WF_allVars(InLabels(GpuDone) \/ InRender(RQ!RenderStep))
  /\ WF_allVars(InRender(RQ!ShowStep)) /\ WF_allVars(InRender(RQ!LauncherStep))
  /\ \A q \in Rings : SF_allVars(InLabels(GoOn(q)) \/ InRender(RQ!WalkEnds))
  /\ SF_allVars(InLabels(GoOn(Gfx))) /\ SF_allVars(InLabels(GfxDeadline))

-----------------------------------------------------------------------------
\* RenderQueue: commands run in order from slots nobody overwrites, at most a
\* frame ahead, and the renderer has one owner.
RingInv == console = "ps4" => RQ!RingInv

\* RenderQueue: what the walk reads is what the writes it walked past make.
ReadsCurrent == console = "ps4" => RQ!ReadsCurrent

\* RenderQueue and Presenter: until the session stops the GPU leaves a lent
\* readback buffer alone.
BorrowSafe == console = "ps4" => RQ!BorrowSafe

\* RenderQueue: no command pushed is left unrun by a missed notify, no wait of the
\* walk and no stop is for ever.
NothingHangs == RQ!NothingHangs
=============================================================================
