----------------------------- MODULE Presenter -----------------------------
(***************************************************************************)
(* LatestFramePresenter (src/delta/gpu/render/present.cc): the thread that *)
(* owns the host window and shows the newest finished frame.  The renderer *)
(* either gives it pixels to keep (Owned) or lends it the readback buffer  *)
(* of a frame slot, and waits in BeginFrame until the loan is over before  *)
(* the GPU writes a slot again.                                            *)
(*                                                                         *)
(* Every sleep here ends when its predicate holds: ready_ is waited on in  *)
(* slices of 16 ms, and each change that makes the predicate of released_  *)
(* true is made under mutex_ and followed by NotifyAll.                    *)
(***************************************************************************)
EXTENDS Naturals

Slots == {0, 1}       \* g_frame.slots
None == 2             \* no buffer
Owned == 3            \* pixels given to the presenter to keep

VARIABLES psrc,       \* pending_src_: the slot lent and not yet given back
          pend,       \* pending_
          showing,    \* what host::Present is reading, outside mutex_
          pstop,      \* stopping_
          pthread     \* "none" before StartLocked, "run", "gone" once returned

pvars == <<psrc, pend, showing, pstop, pthread>>

PTypeOK == /\ psrc \in Slots \cup {None}
           /\ pend \in BOOLEAN /\ pstop \in BOOLEAN
           /\ showing \in Slots \cup {None, Owned}
           /\ pthread \in {"none", "run", "gone"}

PInit == psrc = None /\ pend = FALSE /\ showing = None /\ pstop = FALSE /\ pthread = "none"

\* Present: the newest frame wins; an owned frame ends the loan of the one it
\* replaces.  what is a slot, or Owned.
Present(what, stopping) ==
  IF pstop \/ stopping
    THEN UNCHANGED pvars
    ELSE /\ psrc' = IF what = Owned THEN None ELSE what
         /\ pend' = TRUE
         /\ pthread' = "run"
         /\ UNCHANGED <<showing, pstop>>

\* Mutant of Released: the caller does not wait for a lent buffer.
Released_Always == TRUE

\* WaitForBorrowed returns.
Released == psrc = None \/ pstop

\* Run: take the pending frame and leave the lock to show it ...
Take == /\ pthread = "run" /\ showing = None /\ ~pstop /\ pend
        /\ showing' = IF psrc = None THEN Owned ELSE psrc
        /\ pend' = FALSE
        /\ UNCHANGED <<psrc, pstop, pthread>>

\* ... and, back under it, end the loan unless a newer frame has replaced it.
Shown == /\ pthread = "run" /\ showing # None
         /\ psrc' = IF psrc = showing THEN None ELSE psrc
         /\ showing' = None
         /\ UNCHANGED <<pend, pstop, pthread>>

Leave == /\ pthread = "run" /\ showing = None /\ pstop
         /\ pthread' = "gone"
         /\ UNCHANGED <<psrc, pend, showing, pstop>>

\* Stop up to the join.
StopPresentation == /\ pstop' = TRUE /\ pend' = FALSE /\ psrc' = None
                    /\ UNCHANGED <<showing, pthread>>

PresenterStep == Take \/ Shown \/ Leave
=============================================================================
