------------------------------ MODULE Session -------------------------------
(***************************************************************************)
(* One title after another: guest::BeginSession, RequestStop, SpawnThread  *)
(* and JoinThreads (shared/guest/session.cc), the pause flag with its      *)
(* gates and its signal (shared/guest/pause.cc, the thunks of              *)
(* cpu/native_host_thunk.cc, RunGuestThread), Launcher::Boot and Stop, and *)
(* the user interface that pauses and quits (ui/pause_menu.cc,             *)
(* host/window_sdl.cc).                                                    *)
(*                                                                         *)
(* A guest thread stops nowhere by itself.  It looks at the pause flag when *)
(* a call into the emulator begins and ends, and otherwise runs guest code *)
(* until SIGUSR2 finds it there; found anywhere else, the signal does      *)
(* nothing.  In PausePoint it sleeps on the flag, and leaves for good when *)
(* the session stops.                                                      *)
(*                                                                         *)
(* The user interface runs in the presenter's thread; while a session that *)
(* returns to the home screen is joined, in the thread of the exit         *)
(* animation.  The threads a PollPause signals do not look at each other,  *)
(* so it is one action.                                                    *)
(***************************************************************************)
EXTENDS Integers, FiniteSets

CONSTANTS
  Workers,   \* threads SpawnThread makes; one that was joined is used again
  GuestMain, \* the one Launcher::Boot makes
  UserActs   \* what the user does: "toggle", "menu", "close"

SessionAssumptions ==
  /\ IsFiniteSet(Workers) /\ GuestMain \in Workers
  /\ UserActs \subseteq {"toggle", "menu", "close"}

VARIABLES
  stopping,   \* g_stopping
  paused,     \* g_paused
  live,       \* g_live
  threads,    \* State::threads
  joining,    \* the vector JoinThreads works on
  pc,         \* of a worker
  to,         \* in PausePoint: where it goes on afterwards
  sig,        \* SIGUSR2 is pending for it
  mpc,        \* the main thread
  returning,  \* Launcher::Stop's local of that name
  ui,         \* the thread that runs the user interface: "off", "present", "exit"
  upc,        \* and where it is
  exitReq,    \* g_exit_requested
  returnReq   \* g_return_requested

flags == <<stopping, paused>>
requests == <<exitReq, returnReq>>
handles == <<live, threads, joining>>
work == <<pc, to, sig>>
main == <<mpc, returning>>
view == <<ui, upc>>
vars == <<flags, requests, handles, work, main, view>>

Init ==
  /\ stopping = FALSE /\ paused = FALSE
  /\ live = 0 /\ threads = {} /\ joining = {}
  /\ pc = [w \in Workers |-> "none"]
  /\ to = [w \in Workers |-> "leave"]
  /\ sig = [w \in Workers |-> FALSE]
  /\ mpc = "home" /\ returning = FALSE
  /\ ui = "off" /\ upc = "idle"
  /\ exitReq = FALSE /\ returnReq = FALSE

-----------------------------------------------------------------------------
(* The pause flag                                                          *)

Parked(w) == pc[w] \in {"check", "futex", "asleep", "unpark"}   \* t_parked
InPausePoint(w) == pc[w] = "point" \/ Parked(w)
Registered(w) == pc[w] \notin {"none", "start", "work", "ended"}   \* in g_threads

\* SetPaused's store and its FUTEX_WAKE.
StorePaused(p, at) ==
  /\ paused' = p
  /\ pc' = [w \in Workers |-> IF at[w] = "asleep" THEN "check" ELSE at[w]]

\* PollPause.
PollPause ==
  sig' = [w \in Workers |-> sig[w] \/ (paused /\ Registered(w) /\ ~Parked(w))]

-----------------------------------------------------------------------------
(* Workers                                                                 *)

At(w, from, next) == pc[w] = from /\ pc' = [pc EXCEPT ![w] = next]
Still == UNCHANGED <<flags, requests, handles, main, view>>

\* RunGuestThread: ThreadRegistration, then its PausePoint.
Enter(w) ==
  /\ At(w, "start", "point")
  /\ UNCHANGED <<to, sig>> /\ Still

\* A gate of a thunk: the flag is tested in line.
Gate(w, from, next) ==
  /\ At(w, from, IF paused THEN "point" ELSE next)
  /\ to' = [to EXCEPT ![w] = IF paused THEN next ELSE @]
  /\ UNCHANGED sig /\ Still

Call(w) == Gate(w, "guest", "host")
HostReturn(w) == Gate(w, "host", "leave")

\* Past the gate and back in guest code.
Leave(w) == At(w, "leave", "guest") /\ UNCHANGED <<to, sig>> /\ Still

\* PauseSignal.  While a handler is in PausePoint the signal stays blocked.
Deliver(w) ==
  /\ sig[w] /\ ~(InPausePoint(w) /\ to[w] = "guest")
  /\ sig' = [sig EXCEPT ![w] = FALSE]
  /\ IF pc[w] = "guest" /\ paused
     THEN pc' = [pc EXCEPT ![w] = "point"] /\ to' = [to EXCEPT ![w] = "guest"]
     ELSE UNCHANGED <<pc, to>>
  /\ Still

\* PausePoint, up to t_parked.
Point(w) ==
  /\ At(w, "point", IF paused THEN "check" ELSE to[w])
  /\ to' = [to EXCEPT ![w] = IF paused THEN @ ELSE "leave"]
  /\ UNCHANGED sig /\ Still

\* Its loop condition.
Check(w) ==
  /\ At(w, "check", IF paused /\ ~stopping THEN "futex" ELSE "unpark")
  /\ UNCHANGED <<to, sig>> /\ Still

\* FUTEX_WAIT sleeps if the flag still reads 1.
Futex(w) ==
  /\ At(w, "futex", IF paused THEN "asleep" ELSE "check")
  /\ UNCHANGED <<to, sig>> /\ Still

\* The end of PausePoint: t_exit if the session stops.
Unpark(w) ==
  /\ At(w, "unpark", IF stopping THEN "exit" ELSE to[w])
  /\ to' = [to EXCEPT ![w] = "leave"]
  /\ UNCHANGED sig /\ Still

\* thr_exit, or the guest's entry function returns.
ThrExit(w) ==
  /\ At(w, "host", "exit") \/ At(w, "guest", "exit")
  /\ UNCHANGED <<to, sig>> /\ Still

\* A loop of the emulator's own on a SpawnThread ends with the session.
WorkEnds(w) ==
  /\ stopping /\ At(w, "work", "exit")
  /\ UNCHANGED <<to, sig>> /\ Still

\* ~ThreadRegistration and the end of Run.
End(w) ==
  /\ At(w, "exit", "ended")
  /\ sig' = [sig EXCEPT ![w] = FALSE]
  /\ live' = live - 1
  /\ UNCHANGED <<flags, requests, threads, joining, to, main, view>>

\* SpawnThread, from thr_new ("start") or for a thread of the emulator ("work").
Spawn(v, kind) ==
  /\ pc[v] = "none"
  /\ pc' = [pc EXCEPT ![v] = kind]
  /\ live' = live + 1
  /\ threads' = threads \cup {v}

ThrNew(w, v) ==
  /\ pc[w] = "host"
  /\ \E kind \in {"start", "work"} : Spawn(v, kind)
  /\ UNCHANGED <<flags, requests, joining, to, sig, main, view>>

\* sys_exit: RequestStop's three steps, then ExitGuestThread.
SysExit(w) ==
  /\ At(w, "host", "stop1")
  /\ stopping' = TRUE
  /\ UNCHANGED <<paused, requests, handles, to, sig, main, view>>

SysExitPause(w) ==
  /\ pc[w] = "stop1"
  /\ StorePaused(TRUE, [pc EXCEPT ![w] = "stop2"])
  /\ UNCHANGED <<stopping, requests, handles, to, sig, main, view>>

SysExitPoll(w) ==
  /\ At(w, "stop2", "exit")
  /\ PollPause
  /\ UNCHANGED to /\ Still

-----------------------------------------------------------------------------
(* The user interface                                                      *)

Idle == ui # "off" /\ upc = "idle"
Ui(from, next) == upc = from /\ upc' = next /\ UNCHANGED ui
UiOnly == UNCHANGED <<stopping, handles, main, to>>

\* PauseMenuToggle: the conditions, then which way.
Toggle ==
  /\ "toggle" \in UserActs /\ Idle /\ ~stopping /\ ~returnReq
  /\ Ui("idle", "toggle")
  /\ UNCHANGED <<paused, requests, pc, sig>> /\ UiOnly

ToggleWay ==
  /\ Ui("toggle", IF paused THEN "resume" ELSE "pause")
  /\ UNCHANGED <<paused, requests, pc, sig>> /\ UiOnly

\* SetPaused(true), and the PollPause in it.
Pause ==
  /\ Ui("pause", "poll")
  /\ StorePaused(TRUE, pc)
  /\ UNCHANGED <<requests, sig>> /\ UiOnly

Poll ==
  /\ Ui("poll", "idle")
  /\ PollPause
  /\ UNCHANGED <<paused, requests, pc>> /\ UiOnly

\* SetPaused(false), in Resume and when PumpEvents finds the window closed; the
\* exit animation then ends.
Resume ==
  /\ upc \in {"resume", "closed"}
  /\ upc' = IF upc = "closed" /\ ui = "exit" THEN "over" ELSE "idle"
  /\ StorePaused(FALSE, pc)
  /\ UNCHANGED <<requests, sig, ui>> /\ UiOnly

\* Mutant of Frame: the menu does not poll.
Frame_NoPoll ==
  /\ Idle /\ paused /\ ~returnReq /\ ~exitReq
  /\ Ui("idle", "menu")
  /\ UNCHANGED <<paused, requests, pc, sig>> /\ UiOnly

\* PauseMenuBuild polls with every frame of an open menu.
Frame ==
  /\ Idle /\ paused /\ ~returnReq /\ ~exitReq
  /\ Ui("idle", "menu")
  /\ PollPause
  /\ UNCHANGED <<paused, requests, pc>> /\ UiOnly

\* Its choices: none, resume, return to the home screen, exit.
Menu ==
  /\ upc = "menu"
  /\ \E choice \in {"none"} \cup (IF "menu" \in UserActs
                                  THEN {"resume", "return", "exit"} ELSE {}) :
       /\ Ui("menu", IF choice = "resume" THEN "resume" ELSE "idle")
       /\ returnReq' = (returnReq \/ choice = "return")
       /\ exitReq' = (exitReq \/ choice = "exit")
  /\ UNCHANGED <<paused, pc, sig>> /\ UiOnly

\* DrainEvents meets the window's close event.
Close ==
  /\ "close" \in UserActs /\ Idle
  /\ Ui("idle", "closed")
  /\ exitReq' = TRUE
  /\ UNCHANGED <<paused, returnReq, pc, sig>> /\ UiOnly

-----------------------------------------------------------------------------
(* The main thread                                                         *)

Main(from, next) == mpc = from /\ mpc' = next

\* Launcher::Boot with BeginSession; no thread is there yet.
Boot ==
  /\ Main("home", "run")
  /\ stopping' = FALSE /\ paused' = FALSE
  /\ Spawn(GuestMain, "start")
  /\ UNCHANGED <<requests, joining, to, sig, returning, view>>

\* The title cannot be read or its thread not be made.
BootFails ==
  /\ Main("home", "run")
  /\ stopping' = TRUE /\ paused' = TRUE
  /\ UNCHANGED <<requests, handles, work, returning, view>>

\* The first frame starts the presenter.
Present ==
  /\ mpc = "run" /\ ui = "off" /\ ~stopping
  /\ ui' = "present"
  /\ UNCHANGED <<flags, requests, handles, work, main, upc>>

\* The loop of main, then RequestStop in Launcher::Stop.
StopBegin ==
  /\ exitReq \/ returnReq \/ stopping
  /\ Main("run", "stop1")
  /\ stopping' = TRUE
  /\ UNCHANGED <<paused, requests, handles, work, returning, view>>

StopPause ==
  /\ Main("stop1", "stop2")
  /\ StorePaused(TRUE, pc)
  /\ UNCHANGED <<stopping, requests, handles, to, sig, returning, view>>

StopPoll ==
  /\ Main("stop2", "show")
  /\ PollPause
  /\ returning' = (returnReq /\ ~exitReq)
  /\ UNCHANGED <<flags, requests, handles, pc, to, view>>

\* StopPresentation joins the presenter; ShowExitTransition starts the exit
\* animation if it can.
StopPresentation ==
  /\ Main("show", "join") /\ upc = "idle"
  /\ ui' \in (IF returning THEN {"off", "exit"} ELSE {"off"})
  /\ UNCHANGED <<flags, requests, handles, work, returning, upc>>

\* Mutant of JoinSwap: done when no thread is counted as running.
JoinSwap_NoneLive ==
  /\ mpc = "join" /\ joining = {}
  /\ joining' = threads /\ threads' = {}
  /\ mpc' = IF live = 0 THEN "reset" ELSE "join"
  /\ UNCHANGED <<flags, requests, live, work, returning, view>>

\* JoinThreads takes the handles until there are none, and joins them.
JoinSwap ==
  /\ mpc = "join" /\ joining = {}
  /\ joining' = threads /\ threads' = {}
  /\ mpc' = IF threads = {} THEN "reset" ELSE "join"
  /\ UNCHANGED <<flags, requests, live, work, returning, view>>

Join(w) ==
  /\ mpc = "join" /\ w \in joining
  /\ At(w, "ended", "none")
  /\ joining' = joining \ {w}
  /\ UNCHANGED <<flags, requests, live, threads, to, sig, main, view>>

\* The resets of Launcher::Stop, ResetGuest with the end of the exit animation,
\* PauseMenuReset; then the home screen or the end.
Reset ==
  /\ mpc = "reset" /\ upc \in {"idle", "over"}
  /\ mpc' = IF exitReq THEN "off" ELSE "home"
  /\ ui' = "off" /\ upc' = "idle"
  /\ paused' = FALSE /\ exitReq' = FALSE /\ returnReq' = FALSE
  /\ returning' = FALSE
  /\ UNCHANGED <<stopping, handles, work>>

-----------------------------------------------------------------------------
MainStep == \/ StopBegin \/ StopPause \/ StopPoll \/ StopPresentation
            \/ JoinSwap \/ (\E w \in Workers : Join(w)) \/ Reset

UiStep == ToggleWay \/ Pause \/ Poll \/ Resume \/ Frame \/ Menu

\* What a worker does without waiting for anybody.
WorkerStep(w) ==
  \/ Enter(w) \/ Leave(w) \/ Point(w) \/ Check(w) \/ Futex(w) \/ Unpark(w)
  \/ WorkEnds(w) \/ End(w) \/ SysExitPause(w) \/ SysExitPoll(w)

Next ==
  \/ Boot \/ BootFails \/ Present \/ MainStep
  \/ Toggle \/ Close \/ UiStep
  \/ \E w \in Workers :
       \/ WorkerStep(w) \/ Deliver(w) \/ Call(w) \/ HostReturn(w) \/ ThrExit(w)
       \/ SysExit(w) \/ \E v \in Workers : ThrNew(w, v)

\* Host threads are scheduled and signals delivered; the interface draws a frame
\* every 16 ms.  Once the session stops, the waits of calls into the emulator
\* end, and guest code that still runs makes such calls.
Fairness ==
  /\ WF_vars(MainStep) /\ WF_vars(UiStep)
  /\ \A w \in Workers :
       /\ WF_vars(WorkerStep(w)) /\ WF_vars(Deliver(w))
       /\ WF_vars(stopping /\ HostReturn(w)) /\ WF_vars(stopping /\ Call(w))

Spec == Init /\ [][Next]_vars /\ Fairness

-----------------------------------------------------------------------------
TypeOK ==
  /\ stopping \in BOOLEAN /\ paused \in BOOLEAN /\ returning \in BOOLEAN
  /\ exitReq \in BOOLEAN /\ returnReq \in BOOLEAN
  /\ threads \subseteq Workers /\ joining \subseteq Workers
  /\ pc \in [Workers -> {"none", "start", "work", "guest", "host", "leave", "point",
                         "check", "futex", "asleep", "unpark", "stop1", "stop2",
                         "exit", "ended"}]
  /\ to \in [Workers -> {"guest", "host", "leave"}]
  /\ sig \in [Workers -> BOOLEAN]
  /\ mpc \in {"home", "run", "stop1", "stop2", "show", "join", "reset", "off"}
  /\ ui \in {"off", "present", "exit"}
  /\ upc \in {"idle", "toggle", "pause", "poll", "resume", "menu", "closed", "over"}

\* Every thread's handle is kept until it is joined, once, also the handles of
\* threads that joined ones made; g_live counts the ones that run.
HandlesKept ==
  /\ threads \cap joining = {}
  /\ threads \cup joining = {w \in Workers : pc[w] # "none"}
  /\ live = Cardinality({w \in Workers : pc[w] \notin {"none", "ended"}})

\* "Reset callbacks run after session workers have joined."
ResetsRunAlone ==
  mpc \in {"reset", "home", "off"} => \A w \in Workers : pc[w] = "none"

\* Nobody sleeps through a resume.
AsleepMeansPaused == \A w \in Workers : pc[w] = "asleep" => paused

\* Threads and sessions: handles and counts are exact, a session is reset when
\* its threads are gone, no thread sleeps on a flag that is down.
SessionInv == TypeOK /\ HandlesKept /\ ResetsRunAlone /\ AsleepMeansPaused

\* While the pause menu is up no thread stays in guest code, also one that
\* a signal missed between a gate and the guest, or between two sleeps.
PauseParks ==
  \A w \in Workers :
    []<>~(/\ paused /\ ~stopping /\ ~exitReq /\ ~returnReq /\ ui = "present"
          /\ pc[w] \in {"guest", "leave"})

\* A stop reaches every thread as long as the pause flag stays up, except one
\* that entered its sleep after SetPaused woke the others.
StopReaches ==
  \A w \in Workers :
    []<>~(mpc = "join" /\ paused /\ pc[w] \notin {"none", "ended", "asleep"})

\* Guest threads follow the pause flag.
GuestObeys == PauseParks /\ StopReaches

\* "Let its entry gate observe stop": every thread ends and the join with it.
JoinEnds == []<>(mpc # "join")
=============================================================================
