----------------------------- MODULE ObjectTable -----------------------------
(***************************************************************************)
(* The handle table of a process and the reference counts of its objects   *)
(* (delta/kern/object_table.{h,cc}, object.{h,cc}).                        *)
(*                                                                         *)
(* Every operation holds omutex_ from end to end, so each is one step; the *)
(* operators below are the parts of an action that are about the table.    *)
(* A handle is slot << 2 and its low bits are ignored: it is kept as the   *)
(* slot.  An object enters the table once, in its constructor, so          *)
(* handle_collection_ has at most one element.  realloc never fails, and   *)
(* nothing calls Keep or Purge while a session runs.                       *)
(***************************************************************************)
EXTENDS Integers, FiniteSets, FiniteSetsExt

CONSTANTS
  Objs,      \* the addresses objects are allocated at
  None,      \* the null pointer
  InitCap    \* capacity of the first table, 16 * 1024

ASSUME TableAssumptions ==
  /\ InitCap \in Nat /\ InitCap >= 2
  /\ None \notin Objs

VARIABLES
  cap,         \* table_cap_
  last_free,   \* last_free_entry_
  table,       \* table_: what each slot below cap holds
  refs,        \* ref_count_ of each object; 0 for an address that is free
  handle       \* handle_collection_[0]; 0 when the collection is empty

tableVars == <<cap, last_free, table, refs, handle>>

Vacant == [obj |-> None, ref |-> 0]

TableInit ==
  /\ cap = 0 /\ last_free = 0
  /\ table = [s \in {} |-> Vacant]
  /\ refs = [o \in Objs |-> 0]
  /\ handle = [o \in Objs |-> 0]

\* The i-th slot FindSlot looks at: from last_free_entry_ round the table,
\* slot 0 left out.
Probe(i) == ((last_free - 1 + i) % (cap - 1)) + 1

\* The probes that find a vacant slot.
VacantProbes == {i \in 0 .. cap - 2 : table[Probe(i)].obj = None}

\* ObjectTable::Add with FindSlot and Resize: a full table doubles, and the
\* search continues behind its old end.
Add(o) ==
  LET full == VacantProbes = {}
      slot == IF full THEN cap + 1 ELSE Probe(Min(VacantProbes))
  IN  /\ cap' = IF full THEN Max({InitCap, 2 * cap}) ELSE cap
      /\ last_free' = IF full THEN cap + 1 ELSE last_free
      /\ table' = [s \in 0 .. cap' - 1 |->
                     IF s = slot THEN [obj |-> o, ref |-> 1]
                     ELSE IF s < cap THEN table[s] ELSE Vacant]
      /\ handle' = [handle EXCEPT ![o] = slot]
      /\ refs' = [refs EXCEPT ![o] = @ + 1]

\* What ObjectTable::Get finds under a handle.
ObjectAt(h) == IF h \in DOMAIN table THEN table[h].obj ELSE None

\* ObjectTable::Get of a handle that is in use retains the object.
Get(h) ==
  /\ ObjectAt(h) # None
  /\ refs' = [refs EXCEPT ![ObjectAt(h)] = @ + 1]
  /\ UNCHANGED <<cap, last_free, table, handle>>

\* ObjectTable::Remove of a slot that is in use.
Remove(h) ==
  /\ table' = [table EXCEPT ![h] = Vacant]
  /\ handle' = [handle EXCEPT ![ObjectAt(h)] = 0]
  /\ refs' = [refs EXCEPT ![ObjectAt(h)] = @ - 1]

\* ObjectTable::Release: the last reference to the slot removes the object.
Release(h) ==
  /\ IF h \in DOMAIN table /\ table[h].ref = 1 /\ table[h].obj # None
     THEN Remove(h)
     ELSE /\ table' = IF h \in DOMAIN table
                      THEN [table EXCEPT ![h].ref = @ - 1] ELSE table
          /\ UNCHANGED <<handle, refs>>
  /\ UNCHANGED <<cap, last_free>>

\* Object::Release by the holder of a reference.
DropRef(o) ==
  /\ refs' = [refs EXCEPT ![o] = @ - 1]
  /\ UNCHANGED <<cap, last_free, table, handle>>

\* ObjectTable::Reset, when the table holds the only references left.
Reset ==
  /\ cap' = 0 /\ last_free' = 0
  /\ table' = [s \in {} |-> Vacant]
  /\ refs' = [o \in Objs |-> 0]
  /\ handle' = [o \in Objs |-> 0]

-----------------------------------------------------------------------------
\* The types of the table's state.
TableTypeOK ==
  /\ cap \in Nat
  /\ last_free \in 0 .. cap
  /\ table \in [0 .. cap - 1 -> [obj : Objs \cup {None}, ref : Int]]
  /\ refs \in [Objs -> Int]
  /\ handle \in [Objs -> 0 .. cap]

\* A slot and the object in it agree, and slot 0 is never handed out.
HandlesResolve ==
  /\ \A s \in DOMAIN table : table[s].obj # None =>
       s # 0 /\ table[s].ref = 1 /\ handle[table[s].obj] = s
  /\ \A o \in Objs : handle[o] # 0 => ObjectAt(handle[o]) = o

\* Number of slots that hold o.
SlotsOf(o) == Cardinality({s \in DOMAIN table : table[s].obj = o})
=============================================================================
