------------------------------ MODULE Sessions -------------------------------
(***************************************************************************)
(* What a session holds until it is stopped: its threads (Session) and the *)
(* kernel's named objects, SCE's semaphores (Semaphore) and event flags    *)
(* (FlagRegistry), both over ObjectTable, and POSIX semaphores (KSem).  A  *)
(* behaviour is about one of them, chosen at the start.                    *)
(***************************************************************************)
EXTENDS Semaphore

CONSTANTS
  KThreads, MaxIds, MaxValue, MaxDebt, DestroyInUse,   \* KSem
  RefusedNames,                                        \* FlagRegistry
  Workers, GuestMain, UserActs                         \* Session

VARIABLES
  used,                                             \* what the behaviour is about
  byId, kByName, nextId, value, freed, kpc, karg,   \* KSem
  fByName, name, fpc, fobj, fid,                    \* FlagRegistry
  paused, live, threads, joining, spc, to, sig, mpc, returning, ui, upc,
  exitReq, returnReq                                \* Session

Ksem == INSTANCE KSem WITH Threads <- KThreads, byName <- kByName, pc <- kpc, arg <- karg
Flags == INSTANCE FlagRegistry WITH byName <- fByName, pc <- fpc, obj <- fobj, id <- fid
S == INSTANCE Session WITH pc <- spc

ASSUME SessionsAssumption ==
  Ksem!KSemAssumptions /\ Flags!FlagNamesAssumption /\ S!SessionAssumptions

semOnly == <<tableVars, byName, sem, threadVars>>
ksemOnly == <<byId, kByName, nextId, value, freed, kpc, karg>>
flagOnly == <<fByName, name, fpc, fobj, fid>>
sessionOnly == <<paused, live, threads, joining, spc, to, sig, mpc, returning, ui, upc,
                 exitReq, returnReq>>
allVars == <<semOnly, ksemOnly, flagOnly, sessionOnly, stopping, used>>

InSem(A) == used = "sce" /\ A /\ UNCHANGED <<ksemOnly, flagOnly, sessionOnly, used>>
InKsem(A) == used = "posix" /\ A /\ UNCHANGED <<semOnly, flagOnly, sessionOnly, used>>
InFlags(A) ==
  /\ used = "flag" /\ A
  /\ UNCHANGED <<byName, sem, threadVars, ksemOnly, sessionOnly, stopping, used>>
InSession(A) == used = "threads" /\ A /\ UNCHANGED <<semOnly, ksemOnly, flagOnly, used>>

AllInit == /\ used \in {"sce", "posix", "flag", "threads"}
           /\ Init /\ Ksem!Init /\ Flags!Init /\ S!Init

AllNext == InSem(Next) \/ InKsem(Ksem!Next) \/ InFlags(Flags!Next) \/ InSession(S!Next)

\* The fairness of the specifications.  Where a thread is decides which of its
\* actions can be enabled, so the conditions on one thread are joined.
Go(t) ==
  \/ InSem(t \in Threads /\ Step(t))
  \/ InKsem(t \in KThreads /\ (Ksem!KsemTake(t) \/ Ksem!KsemDelete(t)))
  \/ InSession(t \in Workers /\ (\/ S!WorkerStep(t)
                                 \/ stopping /\ (S!HostReturn(t) \/ S!Call(t))))

AllSpec ==
  /\ AllInit /\ [][AllNext]_allVars
  /\ \A t \in Threads \cup KThreads \cup Workers : WF_allVars(Go(t))
  /\ \A t \in Workers : WF_allVars(InSession(S!Deliver(t)))
  /\ WF_allVars(InSession(S!MainStep)) /\ WF_allVars(InSession(S!UiStep))

-----------------------------------------------------------------------------
\* Semaphore: counts, waiters_, references, handles and names as they should be.
OsemInv == used = "sce" => SemInv

\* KSem: names lead to live semaphores, no call uses a deleted one, no unit is
\* taken twice.
KsemInv == used = "posix" => Ksem!KsemInv

\* FlagRegistry: names lead to live flags, flags outlive the calls on them.
FlagNamesInv == used = "flag" => Flags!FlagsInv

\* Session: handles and counts are exact, a session is reset when its threads are
\* gone, no thread sleeps on a pause flag that is down.
SessionInv == used = "threads" => S!SessionInv

\* Semaphore, KSem: a sleeper does not stay asleep while its semaphore has units
\* for it, and calls return after a stop.
EverySleeperServed == SleepersServed /\ Ksem!SleepersServed

\* Session: no thread stays in guest code under the pause menu, and a stop reaches
\* every thread while the pause flag stays up.
GuestObeys == S!GuestObeys
=============================================================================
