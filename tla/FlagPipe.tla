------------------------------ MODULE FlagPipe -------------------------------
(***************************************************************************)
(* Two objects guest threads meet at: an event flag and a pipe.  A         *)
(* behaviour uses one of them, chosen at the start.                        *)
(***************************************************************************)
EXTENDS EventFlag

CONSTANTS Lengths, Capacity, AtomicWrite, MaxBytes   \* Pipe

VARIABLES
  used,                                                                 \* the object in use
  bytes, alive, handle, nonblocking, ppc, end, length, pret, sent, got  \* Pipe

P == INSTANCE Pipe WITH pc <- ppc, ret <- pret

ASSUME FlagPipeAssumption == P!PipeAssumptions

flagOnly == <<bits, waiters, w, pc, out, lastSet>>
pipeOnly == <<bytes, alive, handle, nonblocking, ppc, end, length, pret, sent, got>>
allVars == <<flagOnly, pipeOnly, stopping, used>>

InFlag(A) == used = "flag" /\ A /\ UNCHANGED <<pipeOnly, used>>
InPipe(A) == used = "pipe" /\ A /\ UNCHANGED <<flagOnly, used>>

AllInit == used \in {"flag", "pipe"} /\ Init /\ P!Init

AllNext == InFlag(Next) \/ InPipe(P!Next)

\* The fairness of the two specifications, one condition per thread: where a
\* thread is decides which of its actions can be enabled.
Go(t) == \/ InFlag(\/ WaitDone(t) \/ WaitStopped(t) \/ Grace(t)
                   \/ stopping /\ WaitTimeout(t))
         \/ InPipe(P!Read(t) \/ P!Write(t) \/ P!Return(t))

AllSpec == AllInit /\ [][AllNext]_allVars /\ \A t \in Threads : WF_allVars(Go(t))

-----------------------------------------------------------------------------
\* Pipe: a bounded FIFO whose ends are there while somebody uses them; after a
\* read answered end of file no byte comes in.
PipeInv == used = "pipe" => P!PipeInv

\* Pipe: a write of at most kAtomicWrite bytes goes in whole or not at all.
WritesWhole == P!WritesWhole

\* Pipe: no call stays blocked while what it waits for is there.
BlockedCallsEnd == P!BlockedCallsEnd
=============================================================================
