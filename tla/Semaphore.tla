------------------------------ MODULE Semaphore ------------------------------
(***************************************************************************)
(* The SCE kernel semaphores, "osem" (delta/kern/lv2/sys_semaphore.{h,cc}):*)
(* the sys_osem_* calls, the registry of names and Semaphore::Wait,        *)
(* Trywait, Post and Cancel, on top of the object table.                   *)
(*                                                                         *)
(* A section under one of g_sem_reg_m, omutex_ and m_ is one action.  A    *)
(* call looks its id up, keeps the object by a reference, works on it and  *)
(* drops the reference: pc says how far it has come.                       *)
(* guest::Wait and guest::WaitFor come back to their test at least every   *)
(* 20 ms, notified or not.  The int fields have a range, so that sums can  *)
(* overflow.                                                               *)
(***************************************************************************)
EXTENDS ObjectTable

CONSTANTS
  Threads,         \* guest threads
  Names,           \* semaphore names
  NoName,          \* the empty name
  HostedNames,     \* "SceSaveData...": never made by an open
  SuspendName,     \* "SceLncSuspendBlock...": made with one permit
  AbsentChannels,  \* names for which IsAbsentServiceChannel holds
  IntHalf,         \* 2^31, half the range of count_, max_count_ and the arguments
  Shapes,          \* <<init, max>> the guest creates semaphores with
  Amounts          \* units asked for, posted and set by cancel

IntMax == IntHalf - 1
Ints == -IntHalf .. IntMax

ASSUME SemaphoreAssumptions ==
  /\ IsFiniteSet(Threads)
  /\ IntHalf \in Nat \ {0, 1}
  /\ \A x \in Shapes : /\ x[1] \in Ints /\ x[2] \in Ints
                       /\ 0 <= x[1] /\ (x[2] > 0 => x[1] <= x[2])
  /\ Amounts \subseteq Ints
  /\ NoName \notin Names

VARIABLES
  byName,     \* g_sem_by_name
  sem,        \* the fields of the semaphore at each address
  pc,         \* where each thread is in its call
  obj,        \* the object its call is about
  id,         \* the handle it was called with
  arg,        \* what the call was given: a name, or units and deadline
  stopping    \* guest::Stopping()

threadVars == <<pc, obj, id, arg>>
vars == <<tableVars, byName, sem, threadVars, stopping>>

Blank == [name |-> NoName, count |-> 0, max |-> 0, init |-> 0, waiters |-> 0]
NoArg == [name |-> NoName, shape |-> <<0, 0>>, need |-> 0, timed |-> FALSE]

Init ==
  /\ TableInit
  /\ byName = [n \in Names |-> None]
  /\ sem = [o \in Objs |-> Blank]
  /\ pc = [t \in Threads |-> "run"]
  /\ obj = [t \in Threads |-> None]
  /\ id = [t \in Threads |-> 0]
  /\ arg = [t \in Threads |-> NoArg]
  /\ stopping = FALSE

-----------------------------------------------------------------------------
(* The registry and the life of a semaphore                                *)

Return(t) ==
  /\ pc' = [pc EXCEPT ![t] = "run"]
  /\ obj' = [obj EXCEPT ![t] = None]
  /\ id' = [id EXCEPT ![t] = 0]
  /\ arg' = [arg EXCEPT ![t] = NoArg]

\* An address operator new may return.
Free(o) == refs[o] = 0 /\ \A t \in Threads : obj[t] # o

\* operator new and the constructor of Object, which puts the new object into
\* the table.  Bound: at most Cardinality(Objs) semaphores exist at a time.
ConstructObject(t, o, n, shape) ==
  /\ Add(o)
  /\ pc' = [pc EXCEPT ![t] = "naming"]
  /\ obj' = [obj EXCEPT ![t] = o]
  /\ arg' = [arg EXCEPT ![t] = [NoArg EXCEPT !.name = n, !.shape = shape]]
  /\ UNCHANGED <<byName, sem, id, stopping>>

\* sys_osem_create.
Create(t, n, shape) ==
  /\ pc[t] = "run"
  /\ \E o \in Objs : Free(o) /\ ConstructObject(t, o, n, shape)

\* sys_osem_open does not find the name and goes on to make the semaphore,
\* outside the registry's lock.  The address is set aside here already.
\* (When the name is there, open returns its handle and changes nothing.)
Open(t, n) ==
  /\ pc[t] = "run"
  /\ byName[n] = None
  /\ n \notin HostedNames
  /\ \E o \in Objs : Free(o) /\ obj' = [obj EXCEPT ![t] = o]
  /\ pc' = [pc EXCEPT ![t] = "opening"]
  /\ arg' = [arg EXCEPT ![t].name = n]
  /\ UNCHANGED <<tableVars, byName, sem, id, stopping>>

OpenCreate(t) ==
  /\ pc[t] = "opening"
  /\ LET n == arg[t].name IN
       ConstructObject(t, obj[t], n,
                       IF n = SuspendName THEN <<1, 1>> ELSE <<0, IntMax>>)

\* The constructor of Semaphore sets the fields and registers the name, over
\* the one that had it.
ConstructSemaphore(t) ==
  /\ pc[t] = "naming"
  /\ LET n == arg[t].name  x == arg[t].shape
     IN  /\ sem' = [sem EXCEPT ![obj[t]] =
                      [Blank EXCEPT !.name = n, !.count = x[1],
                                    !.init = x[1], !.max = x[2]]]
         /\ byName' = [m \in Names |-> IF m = n THEN obj[t] ELSE byName[m]]
  /\ Return(t)
  /\ UNCHANGED <<tableVars, stopping>>

\* FromId.  The guest knows an id when the call that made it has returned.
FromId(t, h) ==
  /\ pc[t] = "run"
  /\ \A u \in Threads : ~(pc[u] = "naming" /\ obj[u] = ObjectAt(h))
  /\ Get(h)
  /\ pc' = [pc EXCEPT ![t] = "held"]
  /\ obj' = [obj EXCEPT ![t] = ObjectAt(h)]
  /\ id' = [id EXCEPT ![t] = h]
  /\ UNCHANGED <<byName, sem, arg, stopping>>

\* Mutant of Unregister: whoever has the name loses it.
Unregister_Any(o) ==
  byName' = [n \in Names |-> IF n = sem[o].name THEN None ELSE byName[n]]

\* The name is free again if it still belongs to this semaphore.
Unregister(o) ==
  byName' = [n \in Names |-> IF byName[n] = o THEN None ELSE byName[n]]

\* The guest deletes a semaphore once: this id still means this object and
\* nobody else is deleting it.
SoleDeleter(t) ==
  /\ ObjectAt(id[t]) = obj[t]
  /\ \A u \in Threads \ {t} : ~(pc[u] = "unnamed" /\ obj[u] = obj[t])

\* sys_osem_delete and sys_osem_close, first half: the name.
DeleteName(t) ==
  /\ pc[t] = "held"
  /\ SoleDeleter(t)
  /\ Unregister(obj[t])
  /\ pc' = [pc EXCEPT ![t] = "unnamed"]
  /\ UNCHANGED <<tableVars, sem, obj, id, arg, stopping>>

\* Second half: the handle.  The object lives on while calls hold it.
DeleteHandle(t) ==
  /\ pc[t] = "unnamed"
  /\ Release(id[t])
  /\ pc' = [pc EXCEPT ![t] = "done"]
  /\ UNCHANGED <<byName, sem, obj, id, arg, stopping>>

\* The call's ObjectRef goes out of scope; the last one runs the destructor.
Drop(t) ==
  /\ pc[t] = "done"
  /\ DropRef(obj[t])
  /\ IF refs[obj[t]] = 1
     THEN /\ pc' = [pc EXCEPT ![t] = "destroy"]
          /\ UNCHANGED <<obj, id, arg>>
     ELSE Return(t)
  /\ UNCHANGED <<byName, sem, stopping>>

\* Semaphore::~Semaphore.
Destroy(t) ==
  /\ pc[t] = "destroy"
  /\ Unregister(obj[t])
  /\ sem' = [sem EXCEPT ![obj[t]] = Blank]
  /\ Return(t)
  /\ UNCHANGED <<tableVars, stopping>>

-----------------------------------------------------------------------------
(* The operations on a semaphore, under its m_                             *)

Capped(s) == s.max > 0

\* int addition.  Signed overflow is undefined; the build's add instruction
\* wraps, and the comparison in Post sees the wrapped sum.
Plus(a, b) == ((a + b + IntHalf) % (2 * IntHalf)) - IntHalf

\* The call has done its work, with this count left behind.
Finish(t, c) ==
  /\ sem' = [sem EXCEPT ![obj[t]].count = c]
  /\ pc' = [pc EXCEPT ![t] = "done"]
  /\ UNCHANGED <<tableVars, byName, obj, id, arg, stopping>>

\* Semaphore::Wait: EINVAL for a request that is not positive or can never be
\* met; take the units if they are there; sleep otherwise.  A channel without
\* a service is waited for with a deadline.
Wait(t, n, tm) ==
  /\ pc[t] = "held"
  /\ LET s == sem[obj[t]]
     IN  IF n <= 0 \/ (Capped(s) /\ n > s.max) THEN Finish(t, s.count)
         ELSE IF s.count >= n THEN Finish(t, s.count - n)
         ELSE /\ sem' = [sem EXCEPT ![obj[t]].waiters = @ + 1]
              /\ pc' = [pc EXCEPT ![t] = "wait"]
              /\ arg' = [arg EXCEPT ![t].need = n,
                           ![t].timed = tm \/ s.name \in AbsentChannels]
              /\ UNCHANGED <<tableVars, byName, obj, id, stopping>>

\* Mutant of Leave: the sleeper stays counted.
Leave_StaysCounted(t, taken) ==
  /\ sem' = [sem EXCEPT ![obj[t]].count = @ - taken]
  /\ pc' = [pc EXCEPT ![t] = "done"]
  /\ arg' = [arg EXCEPT ![t] = NoArg]
  /\ UNCHANGED <<tableVars, byName, obj, id, stopping>>

\* A sleeper leaves Semaphore::Wait with what it took.
Leave(t, taken) ==
  /\ sem' = [sem EXCEPT ![obj[t]].count = @ - taken,
                        ![obj[t]].waiters = @ - 1]
  /\ pc' = [pc EXCEPT ![t] = "done"]
  /\ arg' = [arg EXCEPT ![t] = NoArg]
  /\ UNCHANGED <<tableVars, byName, obj, id, stopping>>

\* The sleeper's test succeeds.
WaitTake(t) ==
  /\ pc[t] = "wait"
  /\ sem[obj[t]].count >= arg[t].need
  /\ Leave(t, arg[t].need)

\* The deadline or a stop comes first: ETIMEDOUT, nothing is taken.
WaitFail(t) ==
  /\ pc[t] = "wait"
  /\ sem[obj[t]].count < arg[t].need
  /\ arg[t].timed \/ stopping
  /\ Leave(t, 0)

\* Semaphore::Trywait takes the units if they are there.
Trywait(t, n) ==
  /\ pc[t] = "held"
  /\ LET s == sem[obj[t]]
     IN  Finish(t, IF n > 0 /\ s.count >= n THEN s.count - n ELSE s.count)

\* Semaphore::Post; EINVAL past the ceiling leaves the count alone.
Post(t, n) ==
  /\ pc[t] = "held"
  /\ LET s == sem[obj[t]]
         sum == Plus(s.count, n)
     IN  Finish(t, IF n > 0 /\ ~(Capped(s) /\ sum > s.max)
                   THEN sum ELSE s.count)

\* Semaphore::Cancel sets the count and notifies.
Cancel(t, n) ==
  /\ pc[t] = "held"
  /\ LET s == sem[obj[t]]
     IN  Finish(t, IF Capped(s) /\ n > s.max THEN s.count
                   ELSE IF n < 0 THEN s.init ELSE n)

-----------------------------------------------------------------------------
(* The session                                                             *)

Stop ==
  /\ ~stopping
  /\ stopping' = TRUE
  /\ UNCHANGED <<tableVars, byName, sem, threadVars>>

\* Launcher::Stop, when the guest threads are joined: the registry is reset,
\* then the process and its table go, and the next session begins.
NextSession ==
  /\ stopping
  /\ \A t \in Threads : pc[t] = "run"
  /\ byName' = [n \in Names |-> None]
  /\ Reset
  /\ sem' = [o \in Objs |-> Blank]
  /\ stopping' = FALSE
  /\ UNCHANGED threadVars

\* A step of a call that has begun.
Step(t) ==
  \/ OpenCreate(t) \/ ConstructSemaphore(t)
  \/ DeleteName(t) \/ DeleteHandle(t) \/ Drop(t) \/ Destroy(t)
  \/ WaitTake(t) \/ WaitFail(t)
  \/ \E n \in Amounts :
       \/ Trywait(t, n) \/ Post(t, n) \/ Cancel(t, n)
       \/ \E tm \in BOOLEAN : Wait(t, n, tm)

Next ==
  \/ Stop \/ NextSession
  \/ \E t \in Threads :
       \/ \E n \in Names \cup {NoName}, x \in Shapes : Create(t, n, x)
       \/ \E n \in Names : Open(t, n)
       \/ \E h \in DOMAIN table : FromId(t, h)
       \/ Step(t)

\* Threads keep running, a sleeper re-tests at least every 20 ms, and
\* a deadline comes in the end.
Spec == Init /\ [][Next]_vars /\ \A t \in Threads : WF_vars(Step(t))

-----------------------------------------------------------------------------
\* The calls that have a reference to o.
Holders(o) == {t \in Threads :
                 obj[t] = o /\ pc[t] \in {"held", "wait", "unnamed", "done"}}

\* The type invariant; waiters_ never goes below zero.
TypeOK ==
  /\ TableTypeOK
  /\ byName \in [Names -> Objs \cup {None}]
  /\ sem \in [Objs -> [name : Names \cup {NoName}, count : Ints, max : Ints,
                       init : Ints, waiters : Nat]]
  /\ pc \in [Threads -> {"run", "opening", "naming", "held", "wait", "unnamed",
                         "done", "destroy"}]
  /\ obj \in [Threads -> Objs \cup {None}]
  /\ id \in [Threads -> 0 .. cap]
  /\ stopping \in BOOLEAN

\* Units are never oversold and a post never lifts the count past the ceiling,
\* unless ceiling and amount together leave the range of int:
\* "Returns -EINVAL if count+avail would exceed maxCount (the count is left
\* unchanged in that case)".
CountInRange ==
  \A o \in Objs : LET s == sem[o] IN
    Capped(s) /\ (\A n \in Amounts : s.max + n <= IntMax)
      => 0 <= s.count /\ s.count <= s.max

\* What cancel reports as the number of waiters is the number of sleepers.
WaitersExact ==
  \A o \in Objs : sem[o].waiters =
    Cardinality({t \in Threads : pc[t] = "wait" /\ obj[t] = o})

\* An object has one reference for its slot and one for every call that works
\* on it: none is destroyed under a call, none is left behind.
RefsExact == \A o \in Objs : refs[o] = SlotsOf(o) + Cardinality(Holders(o))

\* A registered name leads to a semaphore that still has its handle, so that
\* osem_open's answer is a good id.
NamesLive ==
  \A n \in Names : byName[n] # None =>
    refs[byName[n]] > 0 /\ handle[byName[n]] # 0 /\ sem[byName[n]].name = n

\* Table, reference counts and registry agree.
ObjectsOwned == HandlesResolve /\ RefsExact /\ NamesLive

\* The state of the semaphores: well typed, counts, waiters_ and ownership as
\* they should be.
SemInv == TypeOK /\ CountInRange /\ WaitersExact /\ ObjectsOwned

\* A name is only lost to a newer semaphore of that name, to the deletion of
\* its own semaphore, or with the session.
NameOutlivesOthers ==
  [][\A n \in Names : byName[n] # None /\ byName'[n] # byName[n] =>
       \/ byName'[n] # None /\ sem'[byName'[n]].name = n
       \/ \E t \in Threads : obj[t] = byName[n] /\ pc'[t] = "unnamed"
       \/ stopping /\ ~stopping']_vars

\* Units that stay available do not leave a sleeper asleep that could have
\* them, and after a stop every call returns: the session can end.
SleepersServed ==
  /\ \A t \in Threads :
       []<>~(pc[t] = "wait" /\ sem[obj[t]].count >= arg[t].need)
  /\ \A t \in Threads : []<>~(stopping /\ pc[t] # "run")
=============================================================================
