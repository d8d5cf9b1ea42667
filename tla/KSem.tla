-------------------------------- MODULE KSem ---------------------------------
(***************************************************************************)
(* The POSIX kernel semaphores of delta/kern/lv2/sys_ksem.cc: the registry *)
(* (id -> KSem*, name -> id) under g_ksem_mutex and the semaphores, each   *)
(* under its own mutex.                                                    *)
(*                                                                         *)
(* A call on an id takes the registry lock to look the pointer up (FromId),*)
(* releases it, and only then takes the semaphore's mutex: two actions.    *)
(* Ids are never reused, so an id stands for the heap object as well.      *)
(***************************************************************************)
EXTENDS Integers, FiniteSets

CONSTANTS
  Threads,       \* guest threads
  Names,         \* semaphore names
  MaxIds,        \* bound: semaphores created in one behaviour
  MaxValue,      \* bound: units a semaphore holds
  MaxDebt,       \* bound: units taken past zero (a stop lets waiters do that)
  DestroyInUse   \* may the guest destroy a semaphore that a call still uses?

KSemAssumptions ==
  /\ MaxIds \in Nat
  /\ MaxValue \in Nat /\ MaxDebt \in Nat
  /\ DestroyInUse \in BOOLEAN

VARIABLES
  byId,       \* keys of g_ksem_by_id
  byName,     \* g_ksem_by_name; NoId when the name is not bound
  nextId,     \* g_next_ksem_id
  value,      \* KSem::value
  freed,      \* heap objects that were deleted
  pc,         \* "run"; "post", "wait", "try", "timed", "get": pointer in hand;
              \* "sleep", "sleepTimed": in the condition variable; "destroy"
  arg,        \* the id whose pointer the thread holds
  stopping    \* guest::Stopping()

vars == <<byId, byName, nextId, value, freed, pc, arg, stopping>>

NoId == 0
Ids == 1 .. MaxIds
Calls == {"post", "wait", "try", "timed", "get"}

Init ==
  /\ byId = {}
  /\ byName = [n \in Names |-> NoId]
  /\ nextId = 1
  /\ value = [i \in Ids |-> 0]
  /\ freed = {}
  /\ pc = [t \in Threads |-> "run"]
  /\ arg = [t \in Threads |-> NoId]
  /\ stopping = FALSE

-----------------------------------------------------------------------------
(* The registry, under g_ksem_mutex.                                       *)

\* new KSem(v) under a fresh id.
Create(v) ==
  /\ nextId <= MaxIds
  /\ nextId' = nextId + 1
  /\ byId' = byId \cup {nextId}
  /\ value' = [value EXCEPT ![nextId] = v]

KsemInit(t, v) ==
  /\ pc[t] = "run"
  /\ Create(v)
  /\ UNCHANGED <<byName, freed, pc, arg, stopping>>

\* ksem_open creates what it does not find (with O_CREAT); otherwise it only
\* reports the id, or EEXIST or ENOENT.
KsemOpen(t, n, v) ==
  /\ pc[t] = "run"
  /\ byName[n] = NoId
  /\ Create(v)
  /\ byName' = [byName EXCEPT ![n] = nextId]
  /\ UNCHANGED <<freed, pc, arg, stopping>>

KsemUnlink(t, n) ==
  /\ pc[t] = "run"
  /\ byName[n] # NoId
  /\ byName' = [byName EXCEPT ![n] = NoId]
  /\ UNCHANGED <<byId, nextId, value, freed, pc, arg, stopping>>

\* FromId at the start of every call on an id.
FromId(t, i, call) ==
  /\ pc[t] = "run"
  /\ i \in byId
  /\ pc' = [pc EXCEPT ![t] = call]
  /\ arg' = [arg EXCEPT ![t] = i]
  /\ UNCHANGED <<byId, byName, nextId, value, freed, stopping>>

\* Mutant of Unregister: the names stay in their map.
Unregister_KeepsNames(t, i) ==
  /\ pc[t] = "run"
  /\ i \in byId
  /\ DestroyInUse \/ \A u \in Threads : arg[u] # i
  /\ byId' = byId \ {i}
  /\ pc' = [pc EXCEPT ![t] = "destroy"]
  /\ arg' = [arg EXCEPT ![t] = i]
  /\ UNCHANGED <<byName, nextId, value, freed, stopping>>

\* ksem_destroy first takes the id and every name bound to it out of the maps.
Unregister(t, i) ==
  /\ pc[t] = "run"
  /\ i \in byId
  /\ DestroyInUse \/ \A u \in Threads : arg[u] # i
  /\ byId' = byId \ {i}
  /\ byName' = [n \in Names |-> IF byName[n] = i THEN NoId ELSE byName[n]]
  /\ pc' = [pc EXCEPT ![t] = "destroy"]
  /\ arg' = [arg EXCEPT ![t] = i]
  /\ UNCHANGED <<nextId, value, freed, stopping>>

-----------------------------------------------------------------------------
(* The semaphore, under its own mutex.  A sleeper does not hold it.        *)

Done(t) ==
  /\ pc' = [pc EXCEPT ![t] = "run"]
  /\ arg' = [arg EXCEPT ![t] = NoId]

KsemPost(t) ==
  /\ pc[t] = "post"
  /\ value[arg[t]] < MaxValue
  /\ value' = [value EXCEPT ![arg[t]] = @ + 1]
  /\ Done(t)
  /\ UNCHANGED <<byId, byName, nextId, freed, stopping>>

\* guest::Wait tests first and sleeps if there is nothing to take.
KsemSleep(t) ==
  /\ \/ pc[t] = "wait" /\ pc' = [pc EXCEPT ![t] = "sleep"]
     \/ pc[t] = "timed" /\ pc' = [pc EXCEPT ![t] = "sleepTimed"]
  /\ value[arg[t]] <= 0 /\ ~stopping
  /\ UNCHANGED <<byId, byName, nextId, value, freed, arg, stopping>>

\* Mutant of KsemTake: a stop does not end ksem_wait.
KsemTake_NoStop(t) ==
  /\ \/ pc[t] \in {"wait", "sleep", "timed", "sleepTimed"} /\ value[arg[t]] > 0
     \/ pc[t] = "try" /\ value[arg[t]] # 0
  /\ value' = [value EXCEPT ![arg[t]] = @ - 1]
  /\ Done(t)
  /\ UNCHANGED <<byId, byName, nextId, freed, stopping>>

\* The test succeeds, or a stop ends ksem_wait, which then takes regardless.
KsemTake(t) ==
  /\ \/ pc[t] \in {"wait", "sleep"} /\ (value[arg[t]] > 0 \/ stopping)
     \/ pc[t] \in {"timed", "sleepTimed"} /\ value[arg[t]] > 0
     \/ pc[t] = "try" /\ value[arg[t]] # 0
  /\ value[arg[t]] > -MaxDebt
  /\ value' = [value EXCEPT ![arg[t]] = @ - 1]
  /\ Done(t)
  /\ UNCHANGED <<byId, byName, nextId, freed, stopping>>

\* EAGAIN from ksem_trywait, ETIMEDOUT from ksem_timedwait, and ksem_getvalue.
KsemNothing(t) ==
  /\ \/ pc[t] = "try" /\ value[arg[t]] = 0
     \/ pc[t] \in {"timed", "sleepTimed"} /\ value[arg[t]] <= 0
     \/ pc[t] = "get"
  /\ Done(t)
  /\ UNCHANGED <<byId, byName, nextId, value, freed, stopping>>

\* The rest of ksem_destroy: lock and unlock the mutex, which a sleeper has
\* released, then delete.
KsemDelete(t) ==
  /\ pc[t] = "destroy"
  /\ freed' = freed \cup {arg[t]}
  /\ Done(t)
  /\ UNCHANGED <<byId, byName, nextId, value, stopping>>

Stop ==
  /\ ~stopping
  /\ stopping' = TRUE
  /\ UNCHANGED <<byId, byName, nextId, value, freed, pc, arg>>

Next ==
  \/ Stop
  \/ \E t \in Threads :
       \/ \E v \in {0, 1} : KsemInit(t, v) \/ \E n \in Names : KsemOpen(t, n, v)
       \/ \E n \in Names : KsemUnlink(t, n)
       \/ \E i \in Ids : Unregister(t, i) \/ \E c \in Calls : FromId(t, i, c)
       \/ KsemPost(t) \/ KsemSleep(t) \/ KsemTake(t) \/ KsemNothing(t) \/ KsemDelete(t)

\* A sleeper re-tests at least every 20 ms; a call in hand goes on.
Fairness == \A t \in Threads : WF_vars(KsemTake(t)) /\ WF_vars(KsemDelete(t))

Spec == Init /\ [][Next]_vars /\ Fairness

-----------------------------------------------------------------------------
\* The type invariant; an id is only ever given out once, so none that is
\* registered or deleted is still to come.
TypeOK ==
  /\ byId \in SUBSET Ids
  /\ byName \in [Names -> Ids \cup {NoId}]
  /\ nextId \in 1 .. MaxIds + 1
  /\ value \in [Ids -> Int]
  /\ freed \in SUBSET Ids
  /\ byId \cup freed \subseteq 1 .. nextId - 1
  /\ pc \in [Threads -> {"run", "sleep", "sleepTimed", "destroy"} \cup Calls]
  /\ arg \in [Threads -> Ids \cup {NoId}]
  /\ stopping \in BOOLEAN

\* No call touches a deleted semaphore, as long as the guest does not destroy
\* one that a call still uses.
NoUseAfterFree == \A t \in Threads : arg[t] \notin freed

\* "A blocked waiter holds s->m, so taking it here serializes against an
\* in-flight wait before we free, avoiding a use-after-free": the semaphore a
\* thread sleeps on is not deleted under it.
BlockedWaiterKeepsSemaphore ==
  \A t \in Threads : pc[t] \in {"sleep", "sleepTimed"} => arg[t] \notin freed

\* Destroy leaves no name behind: a bound name leads to a registered semaphore
\* and a registered semaphore is not deleted, across unlink, re-open and
\* destroy in any order.
NamesResolve ==
  /\ \A n \in Names : byName[n] # NoId => byName[n] \in byId
  /\ byId \cap freed = {}

\* Until a stop no two calls take the same unit.
ValueNotNegative == ~stopping => \A i \in Ids : value[i] >= 0

\* The state of the registry and of its semaphores: well typed, no name that
\* leads to a deleted semaphore, no call that uses one, no unit taken twice.
KsemInv == TypeOK /\ NamesResolve /\ ValueNotNegative /\ (~DestroyInUse => NoUseAfterFree)

\* A sleeper does not stay asleep while its semaphore has units for it, though
\* post notifies only one sleeper; a stop ends the untimed waits.
SleepersServed ==
  \A t \in Threads :
    []<>~(\/ pc[t] \in {"sleep", "sleepTimed"} /\ value[arg[t]] > 0
          \/ pc[t] = "sleep" /\ stopping /\ value[arg[t]] > -MaxDebt)
=============================================================================
