------------------------------ MODULE UmtxWords -------------------------------
(***************************************************************************)
(* The four kinds of words sys_umtx_op serves without each other's help:   *)
(* simple wait queues (UmtxQueue), mutexes (Umutex), reader/writer locks   *)
(* (Urwlock) and semaphores (Usem).  A behaviour uses one kind, chosen at  *)
(* the start; a session stop reaches all of them.                          *)
(***************************************************************************)
EXTENDS Umutex

CONSTANTS
  Addrs, Words, WakeVals, AddrLists, IntHalf, MaxStores,     \* UmtxQueue
  RwThreads, MaxReaders,                                     \* Urwlock
  MaxCount                                                   \* Usem

VARIABLES
  used,                                                      \* the kind in use
  word, queue, selected, qpc, at, expect, todo, ret, stores, \* UmtxQueue
  prefer, st, blockedR, blockedW, rwpc, rwNotified,          \* Urwlock
  hasWaiters, count, spc, smoved, sNotified                  \* Usem

Queues == INSTANCE UmtxQueue WITH pc <- qpc
Rw == INSTANCE Urwlock WITH Threads <- RwThreads, pc <- rwpc, notified <- rwNotified
Sems == INSTANCE Usem WITH pc <- spc, moved <- smoved, notified <- sNotified

ASSUME WordsAssumption ==
  Queues!UmtxQueueAssumptions /\ Rw!UrwlockAssumptions /\ Sems!UsemAssumptions

mutexOnly == <<mutexVars, pc, protocol>>
queueOnly == <<word, queue, selected, qpc, at, expect, todo, ret, stores>>
rwOnly == <<prefer, st, blockedR, blockedW, rwpc, rwNotified>>
semOnly == <<hasWaiters, count, spc, smoved, sNotified>>
allVars == <<mutexOnly, queueOnly, rwOnly, semOnly, stopping, used>>

\* What is not in use has one initial state.
AllInit ==
  /\ used \in {"queue", "mutex", "rwlock", "sem"}
  /\ Init /\ Queues!Init /\ Rw!Init /\ Sems!Init
  /\ used # "mutex" => protocol = "normal"
  /\ used # "queue" => word = [a \in Addrs |-> CHOOSE v \in Words : TRUE]
  /\ used # "rwlock" => prefer = FALSE

InMutex(A) == used = "mutex" /\ A /\ UNCHANGED <<queueOnly, rwOnly, semOnly, used>>
InQueue(A) == used = "queue" /\ A /\ UNCHANGED <<mutexOnly, rwOnly, semOnly, used>>
InRw(A) == used = "rwlock" /\ A /\ UNCHANGED <<mutexOnly, queueOnly, semOnly, used>>
InSem(A) == used = "sem" /\ A /\ UNCHANGED <<mutexOnly, queueOnly, rwOnly, used>>

AllNext == InMutex(Next) \/ InQueue(Queues!Next) \/ InRw(Rw!Next) \/ InSem(Sems!Next)

\* The fairness of the four specifications, one condition per thread: where a
\* thread is decides which of its actions can be enabled.
Step(t) ==
  \/ InMutex(t \in Threads /\ (Kernel(t) \/ User(t) \/ Release(t) \/ Woken(t)))
  \/ InQueue(t \in Threads /\ (Queues!WaitAgain(t) \/ Queues!NWakeStep(t)))
  \/ InRw(t \in RwThreads /\ (Rw!Running(t) \/ Rw!Woken(t)))
  \/ InSem(t \in Threads /\ Sems!Running(t))

AllSpec == AllInit /\ [][AllNext]_allVars /\ \A t \in Threads \cup RwThreads : WF_allVars(Step(t))

-----------------------------------------------------------------------------
\* UmtxQueue: no dangling SimpleWaiter, no WAKE that passes a sleeper by.
WaitQueueInv == used = "queue" => Queues!QueueInv

\* UmtxQueue: wakes go to the longest waiting threads and are reported as such.
WakeDiscipline == Queues!WakeDiscipline

\* Urwlock: writers exclude, the word shows the parked threads and no others.
RwInv == used = "rwlock" => Rw!RwInv

\* Usem: nobody sleeps past a unit without a post on its way to wake him.
UsemInv == used = "sem" => Sems!UsemInv

\* UmtxQueue: a waiter that may leave leaves.  Urwlock: whoever wants the lock is
\* followed by somebody who has it; Usem: no sleeper stays asleep while there is
\* a unit; both without the help of the re-poll tick.
WordWaitersLeave == Queues!ReleasedWaiterLeaves /\ Rw!Progress /\ Sems!PostsServed
=============================================================================
