---------------------------- MODULE FlagRegistry ----------------------------
(***************************************************************************)
(* The names and handles of event flags (delta/kern/lv2/sys_event_flag.cc):*)
(* sys_evf_create, open, delete and close, FromId, and the registry        *)
(* g_ef_by_name, on top of the object table.  What a call does to the      *)
(* pattern of the flag it holds is EventFlag's.                            *)
(*                                                                         *)
(* A section under g_ef_reg_m or omutex_ is one action.  A call keeps its  *)
(* flag by a reference, so that it may outlive the handle; the host sets   *)
(* and clears flags by name under the registry's lock, without one.        *)
(***************************************************************************)
EXTENDS ObjectTable

CONSTANTS
  Threads,       \* guest threads
  Names,         \* names of flags
  NoName,        \* the empty name
  RefusedNames   \* "SceSaveDataMemoryRUI...": never made by an open

FlagNamesAssumption == IsFiniteSet(Threads) /\ NoName \notin Names

VARIABLES
  byName,     \* g_ef_by_name
  name,       \* name_ of the flag at each address
  pc,         \* where each thread is in its call
  obj,        \* the flag its call is about
  id          \* the handle it was called with

vars == <<tableVars, byName, name, pc, obj, id>>

Init ==
  /\ TableInit
  /\ byName = [n \in Names |-> None]
  /\ name = [o \in Objs |-> NoName]
  /\ pc = [t \in Threads |-> "run"]
  /\ obj = [t \in Threads |-> None]
  /\ id = [t \in Threads |-> 0]

Goto(t, l) == pc' = [pc EXCEPT ![t] = l]

-----------------------------------------------------------------------------
\* An address operator new may return.  Bound: Cardinality(Objs) flags.
Free(o) == refs[o] = 0 /\ \A t \in Threads : obj[t] # o

\* The constructor of Object puts the flag into the table; the name follows.
Construct(t, o) ==
  /\ Add(o)
  /\ Goto(t, "naming")
  /\ obj' = [obj EXCEPT ![t] = o]
  /\ UNCHANGED <<byName, id>>

\* sys_evf_create.
Create(t, n) ==
  /\ pc[t] = "run"
  /\ \E o \in Objs : /\ Free(o) /\ Construct(t, o)
                     /\ name' = [name EXCEPT ![o] = n]

\* sys_evf_open does not find the name, and makes the flag outside the lock.
\* The address is set aside here.  (A name that is there changes nothing.)
Open(t, n) ==
  /\ pc[t] = "run" /\ byName[n] = None /\ n \notin RefusedNames
  /\ \E o \in Objs : /\ Free(o)
                     /\ obj' = [obj EXCEPT ![t] = o]
                     /\ name' = [name EXCEPT ![o] = n]
  /\ Goto(t, "opening")
  /\ UNCHANGED <<tableVars, byName, id>>

OpenCreate(t) == pc[t] = "opening" /\ Construct(t, obj[t]) /\ UNCHANGED name

Return(t) ==
  /\ Goto(t, "run")
  /\ obj' = [obj EXCEPT ![t] = None]
  /\ id' = [id EXCEPT ![t] = 0]

\* The constructor of EventFlag registers a name over the flag that had it.
Register(t) ==
  /\ pc[t] = "naming"
  /\ byName' = [n \in Names |-> IF n = name[obj[t]] THEN obj[t] ELSE byName[n]]
  /\ Return(t)
  /\ UNCHANGED <<tableVars, name>>

\* FromId.  The guest knows an id when the call that made it has returned.
FromId(t, h) ==
  /\ pc[t] = "run"
  /\ \A u \in Threads : ~(pc[u] = "naming" /\ obj[u] = ObjectAt(h))
  /\ Get(h)
  /\ Goto(t, "held")
  /\ obj' = [obj EXCEPT ![t] = ObjectAt(h)]
  /\ id' = [id EXCEPT ![t] = h]
  /\ UNCHANGED <<byName, name>>

\* Wait, trywait, set, clear or cancel: the flag's own business.
Operate(t) == pc[t] = "held" /\ Goto(t, "done") /\ UNCHANGED <<tableVars, byName, name, obj, id>>

\* Two threads do not delete one flag at a time: its handle still means the
\* flag, and nobody else is about to release it.
SoleDeleter(t) == /\ ObjectAt(id[t]) = obj[t]
                  /\ \A u \in Threads \ {t} : ~(pc[u] = "unnamed" /\ id[u] = id[t])

\* Mutant of DeleteName: closing leaves the name.
DeleteName_Left(t) ==
  /\ pc[t] = "held" /\ SoleDeleter(t)
  /\ Goto(t, "unnamed")
  /\ UNCHANGED <<tableVars, byName, name, obj, id>>

\* sys_evf_delete and sys_evf_close: the name goes, whichever flag has it ...
DeleteName(t) ==
  /\ pc[t] = "held" /\ SoleDeleter(t)
  /\ byName' = [n \in Names |-> IF n = name[obj[t]] THEN None ELSE byName[n]]
  /\ Goto(t, "unnamed")
  /\ UNCHANGED <<tableVars, name, obj, id>>

\* ... and then the handle.
DeleteHandle(t) ==
  /\ pc[t] = "unnamed"
  /\ Release(id[t])
  /\ Goto(t, "done")
  /\ UNCHANGED <<byName, name, obj, id>>

\* The call's ObjectRef goes out of scope.
Drop(t) ==
  /\ pc[t] = "done"
  /\ DropRef(obj[t])
  /\ name' = IF refs[obj[t]] = 1 THEN [name EXCEPT ![obj[t]] = NoName] ELSE name
  /\ Return(t)
  /\ UNCHANGED byName

\* Launcher::Stop, with the guest threads joined: the registry, then the table.
NextSession ==
  /\ \A t \in Threads : pc[t] = "run"
  /\ byName' = [n \in Names |-> None]
  /\ name' = [o \in Objs |-> NoName]
  /\ Reset
  /\ UNCHANGED <<pc, obj, id>>

Step(t) == \/ OpenCreate(t) \/ Register(t) \/ Operate(t)
           \/ DeleteName(t) \/ DeleteHandle(t) \/ Drop(t)

Next ==
  \/ NextSession
  \/ \E t \in Threads :
       \/ \E n \in Names \cup {NoName} : Create(t, n)
       \/ \E n \in Names : Open(t, n)
       \/ \E h \in DOMAIN table : FromId(t, h)
       \/ Step(t)

Spec == Init /\ [][Next]_vars

-----------------------------------------------------------------------------
Holders(o) == {t \in Threads : obj[t] = o /\ pc[t] \in {"held", "unnamed", "done"}}

TypeOK ==
  /\ TableTypeOK
  /\ byName \in [Names -> Objs \cup {None}]
  /\ name \in [Objs -> Names \cup {NoName}]
  /\ pc \in [Threads -> {"run", "opening", "naming", "held", "unnamed", "done"}]
  /\ obj \in [Threads -> Objs \cup {None}] /\ id \in [Threads -> 0 .. cap]

\* One reference for the slot and one for each call: a flag outlives the calls
\* that use it, whoever deletes it.
FlagRefsExact == \A o \in Objs : refs[o] = SlotsOf(o) + Cardinality(Holders(o))

\* A name leads to a flag of that name which still has its handle: open's
\* answer is a good id, and the host, which sets flags by name and holds no
\* reference, finds no flag that was freed ("a window in which sys_evf_delete
\* frees the flag under us", at EvfSetByNameSubstr).
NamedFlagsLive ==
  \A n \in Names : byName[n] # None =>
    refs[byName[n]] > 0 /\ handle[byName[n]] # 0 /\ name[byName[n]] = n

\* Table, references and names of the event flags agree.
FlagsInv == TypeOK /\ HandlesResolve /\ FlagRefsExact /\ NamedFlagsLive
=============================================================================
