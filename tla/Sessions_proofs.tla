--------------------------- MODULE Sessions_proofs ---------------------------
(***************************************************************************)
(* Proofs about what Sessions composes, for any threads and names and any  *)
(* bounds: POSIX semaphores, threads and sessions, the object table, SCE   *)
(* semaphores over it, and the names of event flags over it.               *)
(***************************************************************************)
EXTENDS Sessions, FiniteSetTheorems, WellFoundedInduction, TLAPS

-----------------------------------------------------------------------------
(* POSIX semaphores: a name leads to a live semaphore, no call uses a      *)
(* deleted one unless the guest destroyed it in use, and no unit is taken  *)
(* twice before a stop.                                                    *)
(*                                                                         *)
(* KsemInv is not inductive: a deleted semaphore must also be out of reach *)
(* of every later FromId, and the one a destroy is about to delete must    *)
(* already be out of the maps and in no other call's hands (Unreachable).  *)

\* A semaphore is in the maps, about to be deleted by one thread, or gone; a
\* thread has a pointer exactly while it is in a call.
Unreachable ==
  /\ \A t \in KThreads : kpc[t] = "destroy" => karg[t] \in Ksem!Ids /\ karg[t] \notin byId \cup freed
  /\ \A t, u \in KThreads :
       kpc[t] = "destroy" /\ kpc[u] = "destroy" /\ karg[t] = karg[u] => t = u
  /\ \A t \in KThreads : karg[t] = Ksem!NoId <=> kpc[t] = "run"
  /\ \A t \in KThreads : karg[t] # Ksem!NoId => karg[t] < nextId
  /\ ~DestroyInUse => \A t, u \in KThreads :
       kpc[t] = "destroy" /\ karg[u] = karg[t] => u = t

KsemIInv == Ksem!KsemInv /\ Unreachable

\* A thread's step touches its own place and pointer.
LEMMA KsemMoves ==
  ASSUME Ksem!TypeOK, NEW t \in KThreads, NEW l, NEW i,
         kpc' = [kpc EXCEPT ![t] = l], karg' = [karg EXCEPT ![t] = i]
  PROVE  /\ kpc'[t] = l /\ karg'[t] = i
         /\ \A u \in KThreads \ {t} : kpc'[u] = kpc[u] /\ karg'[u] = karg[u]
  BY DEF Ksem!TypeOK

\* A fresh id is nobody's yet.
LEMMA CreateInv ==
  ASSUME Ksem!KSemAssumptions, KsemIInv, NEW v \in {0, 1}, Ksem!Create(v),
         UNCHANGED <<freed, kpc, karg, stopping>>,
         \/ UNCHANGED kByName
         \/ \E n \in Names : kByName' = [kByName EXCEPT ![n] = nextId]
  PROVE  KsemIInv'
  <1>1. nextId \in Ksem!Ids /\ nextId \notin byId \cup freed /\ nextId' = nextId + 1
    BY DEF KsemIInv, Ksem!KsemInv, Ksem!TypeOK, Ksem!Ids, Ksem!Create, Ksem!KSemAssumptions
  <1>2. /\ kByName' \in [Names -> Ksem!Ids \cup {Ksem!NoId}]
        /\ \A n \in Names : kByName'[n] = kByName[n] \/ kByName'[n] = nextId
    BY <1>1 DEF KsemIInv, Ksem!KsemInv, Ksem!TypeOK
  <1>3. Ksem!TypeOK'
    <2>1. value' \in [Ksem!Ids -> Int] /\ byId' \in SUBSET Ksem!Ids /\ nextId' \in 1 .. MaxIds + 1
      BY <1>1 DEF KsemIInv, Ksem!KsemInv, Ksem!TypeOK, Ksem!Ids, Ksem!Create, Ksem!KSemAssumptions
    <2>2. byId' \cup freed' \subseteq 1 .. nextId' - 1
      BY <1>1 DEF KsemIInv, Ksem!KsemInv, Ksem!TypeOK, Ksem!Ids, Ksem!Create, Ksem!KSemAssumptions
    <2>3. QED
      BY <1>2, <2>1, <2>2 DEF KsemIInv, Ksem!KsemInv, Ksem!TypeOK
  <1>4. Ksem!NamesResolve'
    BY <1>1, <1>2 DEF KsemIInv, Ksem!KsemInv, Ksem!NamesResolve, Ksem!Create
  <1>5. Ksem!ValueNotNegative'
    BY <1>1 DEF KsemIInv, Ksem!KsemInv, Ksem!ValueNotNegative, Ksem!Create, Ksem!TypeOK
  <1>6. ~DestroyInUse => Ksem!NoUseAfterFree'
    BY DEF KsemIInv, Ksem!KsemInv, Ksem!NoUseAfterFree
  <1>7. Unreachable'
    <2>1. \A t \in KThreads : karg[t] # Ksem!NoId => karg[t] # nextId /\ karg[t] < nextId'
      BY <1>1 DEF KsemIInv, Ksem!KsemInv, Unreachable, Ksem!TypeOK, Ksem!Ids, Ksem!NoId
    <2>2. \A t \in KThreads : kpc[t] = "destroy" => karg[t] # Ksem!NoId
      BY DEF KsemIInv, Unreachable
    <2>3. QED
      BY <1>1, <2>1, <2>2 DEF KsemIInv, Unreachable, Ksem!Create
  <1>8. QED
    BY <1>3, <1>4, <1>5, <1>6, <1>7 DEF KsemIInv, Ksem!KsemInv

\* The calls that only read the maps or take a name away.
LEMMA LookupInv ==
  ASSUME Ksem!KSemAssumptions, KsemIInv, NEW t \in KThreads,
         \/ \E n \in Names : Ksem!KsemUnlink(t, n)
         \/ \E i \in Ksem!Ids, c \in Ksem!Calls : Ksem!FromId(t, i, c)
  PROVE  KsemIInv'
  <1>1. ASSUME NEW n \in Names, Ksem!KsemUnlink(t, n)
        PROVE  KsemIInv'
    <2>1. /\ kByName' = [kByName EXCEPT ![n] = Ksem!NoId]
          /\ UNCHANGED <<byId, nextId, value, freed, kpc, karg, stopping>>
      BY <1>1 DEF Ksem!KsemUnlink
    <2>2. Ksem!TypeOK'
      BY <2>1 DEF KsemIInv, Ksem!KsemInv, Ksem!TypeOK
    <2>3. Ksem!NamesResolve'
      BY <2>1 DEF KsemIInv, Ksem!KsemInv, Ksem!TypeOK, Ksem!NamesResolve
    <2>4. Ksem!ValueNotNegative' /\ (~DestroyInUse => Ksem!NoUseAfterFree') /\ Unreachable'
      BY <2>1 DEF KsemIInv, Ksem!KsemInv, Ksem!ValueNotNegative, Ksem!NoUseAfterFree, Unreachable
    <2>5. QED
      BY <2>2, <2>3, <2>4 DEF KsemIInv, Ksem!KsemInv
  <1>2. ASSUME NEW i \in Ksem!Ids, NEW c \in Ksem!Calls, Ksem!FromId(t, i, c)
        PROVE  KsemIInv'
    <2>1. /\ kpc[t] = "run" /\ i \in byId /\ c # "destroy" /\ c # "run" /\ i # Ksem!NoId
          /\ kpc' = [kpc EXCEPT ![t] = c] /\ karg' = [karg EXCEPT ![t] = i]
          /\ UNCHANGED <<byId, kByName, nextId, value, freed, stopping>>
      BY <1>2 DEF Ksem!FromId, Ksem!Calls, Ksem!Ids, Ksem!NoId
    <2>2. Ksem!TypeOK'
      BY <2>1 DEF KsemIInv, Ksem!KsemInv, Ksem!TypeOK
    <2>3. Ksem!NamesResolve' /\ Ksem!ValueNotNegative'
      BY <2>1 DEF KsemIInv, Ksem!KsemInv, Ksem!NamesResolve, Ksem!ValueNotNegative
    <2>4. /\ kpc'[t] = c /\ karg'[t] = i
          /\ \A u \in KThreads \ {t} : kpc'[u] = kpc[u] /\ karg'[u] = karg[u]
      BY <2>1, KsemMoves DEF KsemIInv, Ksem!KsemInv
    <2>5. ~DestroyInUse => Ksem!NoUseAfterFree'
      BY <2>1, <2>4 DEF KsemIInv, Ksem!KsemInv, Ksem!NamesResolve, Ksem!NoUseAfterFree
    <2>6. i < nextId
      BY <2>1 DEF KsemIInv, Ksem!KsemInv, Ksem!TypeOK, Ksem!KSemAssumptions
    <2>7. Unreachable'
      BY <2>1, <2>4, <2>6 DEF KsemIInv, Unreachable
    <2>8. QED
      BY <2>2, <2>3, <2>5, <2>7 DEF KsemIInv, Ksem!KsemInv
  <1>3. QED
    BY <1>1, <1>2

\* ksem_destroy takes the id and its names out of the maps before it deletes.
LEMMA UnregisterInv ==
  ASSUME Ksem!KSemAssumptions, KsemIInv, NEW t \in KThreads, NEW i \in Ksem!Ids, Ksem!Unregister(t, i)
  PROVE  KsemIInv'
  <1>1. /\ kpc[t] = "run" /\ i \in byId /\ byId' = byId \ {i}
        /\ DestroyInUse \/ \A u \in KThreads : karg[u] # i
        /\ kByName' = [n \in Names |-> IF kByName[n] = i THEN Ksem!NoId ELSE kByName[n]]
        /\ kpc' = [kpc EXCEPT ![t] = "destroy"] /\ karg' = [karg EXCEPT ![t] = i]
        /\ UNCHANGED <<nextId, value, freed, stopping>> /\ i # Ksem!NoId
    BY DEF Ksem!Unregister, Ksem!Ids, Ksem!NoId
  <1>2. Ksem!TypeOK'
    BY <1>1 DEF KsemIInv, Ksem!KsemInv, Ksem!TypeOK
  <1>3. Ksem!NamesResolve'
    BY <1>1 DEF KsemIInv, Ksem!KsemInv, Ksem!NamesResolve
  <1>4. Ksem!ValueNotNegative'
    BY <1>1 DEF KsemIInv, Ksem!KsemInv, Ksem!ValueNotNegative
  <1>5. /\ kpc'[t] = "destroy" /\ karg'[t] = i
        /\ \A u \in KThreads \ {t} : kpc'[u] = kpc[u] /\ karg'[u] = karg[u]
    BY <1>1, KsemMoves DEF KsemIInv, Ksem!KsemInv
  <1>6. i \notin freed /\ i < nextId
    BY <1>1 DEF KsemIInv, Ksem!KsemInv, Ksem!NamesResolve, Ksem!TypeOK, Ksem!KSemAssumptions
  <1>7. ~DestroyInUse => Ksem!NoUseAfterFree'
    BY <1>1, <1>5, <1>6 DEF KsemIInv, Ksem!KsemInv, Ksem!NoUseAfterFree
  <1>8. Unreachable'
    <2>1. \A u \in KThreads : kpc[u] = "destroy" => karg[u] # i
      BY <1>1 DEF KsemIInv, Unreachable
    <2>2. QED
      BY <1>1, <1>5, <1>6, <2>1 DEF KsemIInv, Unreachable
  <1>9. QED
    BY <1>2, <1>3, <1>4, <1>7, <1>8 DEF KsemIInv, Ksem!KsemInv

\* A call that ends leaves the pointer behind.
LEMMA DoneInv ==
  ASSUME Ksem!KSemAssumptions, KsemIInv, NEW t \in KThreads, kpc[t] # "destroy", Ksem!Done(t),
         UNCHANGED <<byId, kByName, nextId, freed, stopping>>,
         value' \in [Ksem!Ids -> Int], Ksem!ValueNotNegative'
  PROVE  KsemIInv'
  <1>1. Ksem!TypeOK'
    BY DEF KsemIInv, Ksem!KsemInv, Ksem!TypeOK, Ksem!Done
  <1>2. Ksem!NamesResolve'
    BY DEF KsemIInv, Ksem!KsemInv, Ksem!NamesResolve
  <1>3. /\ kpc'[t] = "run" /\ karg'[t] = Ksem!NoId
        /\ \A u \in KThreads \ {t} : kpc'[u] = kpc[u] /\ karg'[u] = karg[u]
    BY KsemMoves DEF KsemIInv, Ksem!KsemInv, Ksem!Done
  <1>4. ~DestroyInUse => Ksem!NoUseAfterFree'
    BY <1>3 DEF KsemIInv, Ksem!KsemInv, Ksem!NoUseAfterFree, Ksem!TypeOK, Ksem!Ids, Ksem!NoId
  <1>5. Unreachable'
    BY <1>3 DEF KsemIInv, Unreachable, Ksem!NoId, Ksem!Ids
  <1>6. QED
    BY <1>1, <1>2, <1>4, <1>5 DEF KsemIInv, Ksem!KsemInv

\* Post, take and the calls that find nothing: no unit is taken that is not there
\* unless the session stops.
LEMMA UnitsInv ==
  ASSUME Ksem!KSemAssumptions, KsemIInv, NEW t \in KThreads,
         Ksem!KsemPost(t) \/ Ksem!KsemTake(t) \/ Ksem!KsemNothing(t)
  PROVE  KsemIInv'
  <1>1. Ksem!TypeOK /\ Ksem!ValueNotNegative
    BY DEF KsemIInv, Ksem!KsemInv
  <1>2. kpc[t] \notin {"run", "destroy"}
    BY DEF Ksem!KsemPost, Ksem!KsemTake, Ksem!KsemNothing
  <1>3. karg[t] \in Ksem!Ids
    BY <1>1, <1>2 DEF KsemIInv, Unreachable, Ksem!TypeOK
  <1>4. CASE Ksem!KsemPost(t)
    <2>1. value' = [value EXCEPT ![karg[t]] = @ + 1] /\ stopping' = stopping
      BY <1>4 DEF Ksem!KsemPost
    <2>2. value' \in [Ksem!Ids -> Int] /\ Ksem!ValueNotNegative'
      BY <1>1, <1>3, <2>1 DEF Ksem!TypeOK, Ksem!ValueNotNegative
    <2>3. QED
      BY <1>2, <1>4, <2>2, DoneInv DEF Ksem!KsemPost
  <1>5. CASE Ksem!KsemTake(t)
    <2>1. /\ value' = [value EXCEPT ![karg[t]] = @ - 1] /\ stopping' = stopping
          /\ ~stopping => value[karg[t]] # 0
      BY <1>1, <1>3, <1>5 DEF Ksem!KsemTake, Ksem!TypeOK
    <2>2. value' \in [Ksem!Ids -> Int]
      BY <1>1, <1>3, <2>1 DEF Ksem!TypeOK
    <2>3. Ksem!ValueNotNegative'
      <3>1. ~stopping => value[karg[t]] >= 1
        BY <1>1, <1>3, <2>1 DEF Ksem!TypeOK, Ksem!ValueNotNegative
      <3>2. QED
        BY <1>1, <1>3, <2>1, <3>1 DEF Ksem!TypeOK, Ksem!ValueNotNegative
    <2>4. QED
      BY <1>2, <1>5, <2>2, <2>3, DoneInv DEF Ksem!KsemTake
  <1>6. CASE Ksem!KsemNothing(t)
    <2>1. value' \in [Ksem!Ids -> Int] /\ Ksem!ValueNotNegative'
      BY <1>1, <1>6 DEF Ksem!KsemNothing, Ksem!TypeOK, Ksem!ValueNotNegative
    <2>2. QED
      BY <1>2, <1>6, <2>1, DoneInv DEF Ksem!KsemNothing
  <1>7. QED
    BY <1>4, <1>5, <1>6

\* A sleeper keeps its pointer; the delete comes when nobody else has one.
LEMMA SleepOrDelete ==
  ASSUME Ksem!KSemAssumptions, KsemIInv, NEW t \in KThreads, Ksem!KsemSleep(t) \/ Ksem!KsemDelete(t)
  PROVE  KsemIInv'
  <1>1. CASE Ksem!KsemSleep(t)
    <2>1. PICK l \in {"sleep", "sleepTimed"} : kpc' = [kpc EXCEPT ![t] = l]
      BY <1>1 DEF Ksem!KsemSleep
    <2>2. /\ kpc[t] \in {"wait", "timed"}
          /\ UNCHANGED <<byId, kByName, nextId, value, freed, karg, stopping>>
      BY <1>1 DEF Ksem!KsemSleep
    <2>3. Ksem!TypeOK'
      BY <2>1, <2>2 DEF KsemIInv, Ksem!KsemInv, Ksem!TypeOK
    <2>4. kpc'[t] = l /\ \A u \in KThreads \ {t} : kpc'[u] = kpc[u]
      BY <2>1 DEF KsemIInv, Ksem!KsemInv, Ksem!TypeOK
    <2>5. Ksem!NamesResolve' /\ Ksem!ValueNotNegative' /\ (~DestroyInUse => Ksem!NoUseAfterFree')
      BY <2>2 DEF KsemIInv, Ksem!KsemInv, Ksem!NamesResolve, Ksem!ValueNotNegative, Ksem!NoUseAfterFree
    <2>6. Unreachable'
      BY <2>1, <2>2, <2>4 DEF KsemIInv, Unreachable
    <2>7. QED
      BY <2>3, <2>5, <2>6 DEF KsemIInv, Ksem!KsemInv
  <1>2. CASE Ksem!KsemDelete(t)
    <2>1. /\ kpc[t] = "destroy" /\ freed' = freed \cup {karg[t]} /\ Ksem!Done(t)
          /\ UNCHANGED <<byId, kByName, nextId, value, stopping>>
      BY <1>2 DEF Ksem!KsemDelete
    <2>2. /\ karg[t] \in Ksem!Ids /\ karg[t] \notin byId \cup freed /\ karg[t] < nextId
          /\ karg[t] \in 1 .. nextId - 1
      BY <2>1 DEF KsemIInv, Ksem!KsemInv, Ksem!TypeOK, Unreachable, Ksem!Ids, Ksem!NoId
    <2>3. Ksem!TypeOK'
      BY <2>1, <2>2 DEF KsemIInv, Ksem!KsemInv, Ksem!TypeOK, Ksem!Done
    <2>4. Ksem!NamesResolve' /\ Ksem!ValueNotNegative'
      BY <2>1, <2>2 DEF KsemIInv, Ksem!KsemInv, Ksem!NamesResolve, Ksem!ValueNotNegative
    <2>5. /\ kpc'[t] = "run" /\ karg'[t] = Ksem!NoId
          /\ \A u \in KThreads \ {t} : kpc'[u] = kpc[u] /\ karg'[u] = karg[u]
      BY <2>1, KsemMoves DEF KsemIInv, Ksem!KsemInv, Ksem!Done
    <2>6. ~DestroyInUse => Ksem!NoUseAfterFree'
      BY <2>1, <2>2, <2>5 DEF KsemIInv, Ksem!KsemInv, Ksem!NoUseAfterFree, Unreachable, Ksem!TypeOK, Ksem!Ids, Ksem!NoId
    <2>7. Unreachable'
      BY <2>1, <2>2, <2>5 DEF KsemIInv, Unreachable, Ksem!NoId
    <2>8. QED
      BY <2>3, <2>4, <2>6, <2>7 DEF KsemIInv, Ksem!KsemInv
  <1>3. QED
    BY <1>1, <1>2

\* The initial states satisfy the invariant.
LEMMA KsemInitInv ==
  ASSUME Ksem!KSemAssumptions, Ksem!Init
  PROVE  KsemIInv
  <1>1. Ksem!TypeOK
    <2>1. byId = {} /\ freed = {} /\ nextId \in 1 .. MaxIds + 1 /\ stopping \in BOOLEAN
      <3>1. 1 \in 1 .. MaxIds + 1
        BY DEF Ksem!KSemAssumptions
      <3>2. QED
        BY <3>1 DEF Ksem!Init
    <2>2. /\ kByName \in [Names -> Ksem!Ids \cup {Ksem!NoId}] /\ karg \in [KThreads -> Ksem!Ids \cup {Ksem!NoId}]
          /\ kpc \in [KThreads -> {"run", "sleep", "sleepTimed", "destroy"} \cup Ksem!Calls]
      BY DEF Ksem!Init
    <2>3. value \in [Ksem!Ids -> Int]
      BY DEF Ksem!Init
    <2>4. QED
      BY <2>1, <2>2, <2>3 DEF Ksem!TypeOK
  <1>2. Ksem!NamesResolve /\ Ksem!ValueNotNegative /\ Ksem!NoUseAfterFree
    BY DEF Ksem!Init, Ksem!NamesResolve, Ksem!ValueNotNegative, Ksem!NoUseAfterFree
  <1>3. Unreachable
    BY DEF Ksem!Init, Unreachable
  <1>4. QED
    BY <1>1, <1>2, <1>3 DEF KsemIInv, Ksem!KsemInv

\* Every call of sys_ksem.cc preserves it.
LEMMA KsemStep ==
  ASSUME Ksem!KSemAssumptions, KsemIInv, [Ksem!Next]_(Ksem!vars)
  PROVE  KsemIInv'
  <1>1. KsemIInv /\ [Ksem!Next]_(Ksem!vars)
    OBVIOUS
  <1>2. CASE Ksem!Stop \/ UNCHANGED Ksem!vars
    <2>1. /\ UNCHANGED <<byId, kByName, nextId, value, freed, kpc, karg>>
          /\ stopping' \in {stopping, TRUE}
      BY <1>2 DEF Ksem!Stop, Ksem!vars
    <2>2. QED
      BY <1>1, <2>1 DEF KsemIInv, Ksem!KsemInv, Ksem!TypeOK, Ksem!NamesResolve, Ksem!ValueNotNegative,
                        Ksem!NoUseAfterFree, Unreachable
  <1>3. ASSUME NEW t \in KThreads, NEW v \in {0, 1}, Ksem!KsemInit(t, v)
        PROVE  KsemIInv'
    BY <1>1, <1>3, CreateInv DEF Ksem!KsemInit
  <1>4. ASSUME NEW t \in KThreads, NEW v \in {0, 1}, NEW n \in Names, Ksem!KsemOpen(t, n, v)
        PROVE  KsemIInv'
    BY <1>1, <1>4, CreateInv DEF Ksem!KsemOpen
  <1>5. ASSUME NEW t \in KThreads, NEW n \in Names, Ksem!KsemUnlink(t, n)
        PROVE  KsemIInv'
    BY <1>1, <1>5, LookupInv
  <1>6. ASSUME NEW t \in KThreads, NEW i \in Ksem!Ids, Ksem!Unregister(t, i)
        PROVE  KsemIInv'
    BY <1>1, <1>6, UnregisterInv
  <1>7. ASSUME NEW t \in KThreads, NEW i \in Ksem!Ids, NEW c \in Ksem!Calls, Ksem!FromId(t, i, c)
        PROVE  KsemIInv'
    BY <1>1, <1>7, LookupInv
  <1>8. ASSUME NEW t \in KThreads, Ksem!KsemPost(t) \/ Ksem!KsemTake(t) \/ Ksem!KsemNothing(t)
        PROVE  KsemIInv'
    BY <1>1, <1>8, UnitsInv
  <1>9. ASSUME NEW t \in KThreads, Ksem!KsemSleep(t) \/ Ksem!KsemDelete(t)
        PROVE  KsemIInv'
    BY <1>1, <1>9, SleepOrDelete
  <1>10. QED
    BY <1>1, <1>2, <1>3, <1>4, <1>5, <1>6, <1>7, <1>8, <1>9 DEF Ksem!Next

\* In every behaviour about POSIX semaphores.
LEMMA KsemAlways ==
  /\ Ksem!Spec => []KsemIInv
  /\ AllSpec => [](used = "posix" => KsemIInv)
  <1>1. Ksem!Init => KsemIInv
    BY SessionsAssumption, KsemInitInv
  <1>2. KsemIInv /\ [Ksem!Next]_(Ksem!vars) => KsemIInv'
    BY SessionsAssumption, KsemStep
  <1> DEFINE I == used = "posix" => KsemIInv
  <1>3. AllInit => I
    BY <1>1 DEF AllInit
  <1>4. I /\ [AllNext]_allVars => I'
    <2>1. SUFFICES ASSUME I, [AllNext]_allVars, used' = "posix" PROVE KsemIInv'
      OBVIOUS
    <2>2. used = "posix" /\ [Ksem!Next]_(Ksem!vars)
      <3>1. CASE AllNext
        BY <2>1, <3>1 DEF AllNext, InSem, InKsem, InFlags, InSession
      <3>2. CASE UNCHANGED allVars
        BY <2>1, <3>2 DEF allVars, ksemOnly, Ksem!vars
      <3>3. QED
        BY <2>1, <3>1, <3>2
    <2>3. QED
      BY <1>2, <2>1, <2>2
  <1> HIDE DEF I
  <1>5. AllSpec => []I
    BY <1>3, <1>4, PTL DEF AllSpec
  <1>6. Ksem!Spec => []KsemIInv
    BY <1>1, <1>2, PTL DEF Ksem!Spec
  <1>7. QED
    BY <1>5, <1>6 DEF I

\* sys_ksem: across create, unlink, re-open and destroy in any order a name leads
\* to a live semaphore; a semaphore that is destroyed when no call uses it is
\* deleted under nobody; and until a stop no two calls take the same unit.
THEOREM KsemSafe ==
  /\ Ksem!Spec => []Ksem!KsemInv
  /\ AllSpec => []KsemInv
  <1>1. KsemIInv => Ksem!KsemInv
    BY DEF KsemIInv
  <1>2. (used = "posix" => KsemIInv) => KsemInv
    BY <1>1 DEF KsemInv
  <1>3. QED
    BY <1>1, <1>2, KsemAlways, PTL

-----------------------------------------------------------------------------
(* Threads and sessions: no handle is lost or joined twice however threads *)
(* make threads while they are stopped, g_live is exact, the resets run    *)
(* when no thread is left, and nobody sleeps on a pause flag that is down. *)
(* The conjunction of these is inductive.                                  *)

\* Where a worker can be.
Places == {"none", "start", "work", "guest", "host", "leave", "point", "check", "futex",
           "asleep", "unpark", "stop1", "stop2", "exit", "ended"}

\* The workers that have a handle, and those g_live counts.
Made == {w \in Workers : spc[w] # "none"}
Running == {w \in Workers : spc[w] \notin {"none", "ended"}}

-----------------------------------------------------------------------------
(* Counting.                                                                *)

\* There are finitely many workers.
LEMMA RunningFinite ==
  ASSUME S!SessionAssumptions
  PROVE  IsFiniteSet(Running) /\ Cardinality(Running) \in Nat
  <1>1. IsFiniteSet(Workers)
    BY DEF S!SessionAssumptions, IsFiniteSet, S!IsFiniteSet
  <1>2. Running \in SUBSET Workers
    BY DEF Running
  <1>3. QED
    BY <1>1, <1>2, FS_Subset, FS_CardinalityType

\* A step of worker w that leaves the others where they are.
LEMMA WorkerMoves ==
  ASSUME S!SessionAssumptions, S!SessionInv, NEW w \in Workers, NEW l \in Places,
         spc' = [spc EXCEPT ![w] = l]
  PROVE  /\ spc' \in [Workers -> Places]
         /\ (spc[w] \notin {"none", "ended"} /\ l \notin {"none", "ended"})
              => Made' = Made /\ Running' = Running
         /\ spc[w] = "none" /\ l \notin {"none", "ended"}
              => Made' = Made \cup {w} /\ Running' = Running \cup {w} /\ w \notin Running
         /\ spc[w] \notin {"none", "ended"} /\ l = "ended"
              => Made' = Made /\ Running' = Running \ {w} /\ w \in Running
         /\ spc[w] = "ended" /\ l = "none"
              => Made' = Made \ {w} /\ Running' = Running
  BY DEF S!SessionInv, S!TypeOK, Places, Made, Running

\* A worker goes on: nothing the invariant counts changes.
LEMMA GoesOn ==
  ASSUME S!SessionAssumptions, S!SessionInv, NEW w \in Workers, NEW l \in Places,
         spc[w] \notin {"none", "ended"}, l \notin {"none", "ended"},
         l = "asleep" => paused,
         spc' = [spc EXCEPT ![w] = l], UNCHANGED <<paused, S!handles, mpc>>
  PROVE  S!HandlesKept' /\ S!ResetsRunAlone' /\ S!AsleepMeansPaused'
  <1>1. Made' = Made /\ Running' = Running
    BY WorkerMoves
  <1>2. S!HandlesKept'
    BY <1>1 DEF S!SessionInv, S!HandlesKept, S!handles, Made, Running
  <1>3. S!ResetsRunAlone'
    BY DEF S!SessionInv, S!ResetsRunAlone
  <1>4. S!AsleepMeansPaused'
    BY DEF S!SessionInv, S!TypeOK, S!AsleepMeansPaused
  <1>5. QED
    BY <1>2, <1>3, <1>4

\* Nobody moves, and the flag is not lowered.
LEMMA StaysPut ==
  ASSUME S!SessionInv, UNCHANGED <<spc, S!handles>>, paused => paused',
         mpc' \in {"reset", "home", "off"} => mpc \in {"reset", "home", "off"}
  PROVE  S!HandlesKept' /\ S!ResetsRunAlone' /\ S!AsleepMeansPaused'
  BY DEF S!SessionInv, S!HandlesKept, S!ResetsRunAlone, S!AsleepMeansPaused, S!handles

\* SetPaused wakes the sleepers, whichever way it sets the flag.
LEMMA Wakes ==
  ASSUME S!SessionInv, NEW p \in BOOLEAN, NEW at \in [Workers -> Places],
         S!StorePaused(p, at), UNCHANGED <<S!handles, mpc>>,
         {w \in Workers : at[w] # "none"} = Made,
         {w \in Workers : at[w] \notin {"none", "ended"}} = Running
  PROVE  /\ paused' \in BOOLEAN /\ spc' \in [Workers -> Places]
         /\ S!HandlesKept' /\ S!ResetsRunAlone' /\ S!AsleepMeansPaused'
  <1>1. /\ spc' \in [Workers -> Places] /\ paused' \in BOOLEAN
        /\ \A w \in Workers : spc'[w] = IF at[w] = "asleep" THEN "check" ELSE at[w]
    BY DEF S!StorePaused, Places
  <1>2. Made' = Made /\ Running' = Running
    BY <1>1 DEF Made, Running
  <1>3. S!HandlesKept'
    BY <1>2 DEF S!SessionInv, S!HandlesKept, S!handles, Made, Running
  <1>4. S!ResetsRunAlone'
    BY <1>2 DEF S!SessionInv, S!ResetsRunAlone, Made
  <1>5. S!AsleepMeansPaused'
    BY <1>1 DEF S!AsleepMeansPaused
  <1>6. QED
    BY <1>1, <1>3, <1>4, <1>5

\* The rest of the type invariant.
SessionTyped ==
  /\ stopping \in BOOLEAN /\ paused \in BOOLEAN /\ returning \in BOOLEAN
  /\ exitReq \in BOOLEAN /\ returnReq \in BOOLEAN
  /\ to \in [Workers -> {"guest", "host", "leave"}]
  /\ sig \in [Workers -> BOOLEAN]
  /\ mpc \in {"home", "run", "stop1", "stop2", "show", "join", "reset", "off"}
  /\ ui \in {"off", "present", "exit"}
  /\ upc \in {"idle", "toggle", "pause", "poll", "resume", "menu", "closed", "over"}

LEMMA TypeParts ==
  S!TypeOK <=> /\ SessionTyped /\ spc \in [Workers -> Places]
             /\ threads \subseteq Workers /\ joining \subseteq Workers
  BY Zenon DEF S!TypeOK, SessionTyped, Places

\* PollPause leaves signals pending or not.
LEMMA PollTyped == ASSUME S!PollPause PROVE sig' \in [Workers -> BOOLEAN]
  BY DEF S!PollPause

\* Handles and places have their types when the counts are right.
LEMMA Whole ==
  ASSUME SessionTyped', spc' \in [Workers -> Places], S!HandlesKept', S!ResetsRunAlone', S!AsleepMeansPaused'
  PROVE  S!SessionInv'
  <1>1. threads' \subseteq Workers /\ joining' \subseteq Workers
    BY DEF S!HandlesKept
  <1>2. S!TypeOK'
    BY <1>1, Zenon DEF S!TypeOK, SessionTyped, Places
  <1>3. QED
    BY <1>2 DEF S!SessionInv
-----------------------------------------------------------------------------
(* Workers.                                                                 *)

\* A worker in a call, at a gate, in PausePoint or on its way out.
LEMMA GoesOnInv ==
  ASSUME S!SessionAssumptions, S!SessionInv, NEW w \in Workers, NEW l \in Places,
         spc[w] \notin {"none", "ended"}, l \notin {"none", "ended"},
         l = "asleep" => paused,
         spc' = [spc EXCEPT ![w] = l], S!Still,
         to' \in [Workers -> {"guest", "host", "leave"}], sig' \in [Workers -> BOOLEAN]
  PROVE  S!SessionInv'
  <1>1. S!HandlesKept' /\ S!ResetsRunAlone' /\ S!AsleepMeansPaused'
    BY GoesOn DEF S!Still, S!flags, S!main
  <1>2. spc' \in [Workers -> Places]
    BY WorkerMoves
  <1>3. SessionTyped
    BY TypeParts DEF S!SessionInv
  <1>4. SessionTyped'
    BY <1>3 DEF SessionTyped, S!Still, S!flags, S!requests, S!main, S!view
  <1>5. QED
    BY <1>1, <1>2, <1>4, Whole

\* RunGuestThread, the gates and PausePoint.
LEMMA GateInv ==
  ASSUME S!SessionAssumptions, S!SessionInv, NEW w \in Workers,
         \/ S!Enter(w) \/ S!Call(w) \/ S!HostReturn(w) \/ S!Leave(w) \/ S!Point(w) \/ S!Check(w)
         \/ S!Futex(w) \/ S!Unpark(w) \/ S!ThrExit(w) \/ S!WorkEnds(w)
  PROVE  S!SessionInv'
  <1>1. /\ spc \in [Workers -> Places] /\ paused \in BOOLEAN /\ stopping \in BOOLEAN
        /\ to \in [Workers -> {"guest", "host", "leave"}] /\ sig \in [Workers -> BOOLEAN]
    BY TypeParts DEF S!SessionInv, SessionTyped
  <1>2. CASE S!Enter(w) \/ S!Leave(w) \/ S!Check(w) \/ S!Futex(w) \/ S!ThrExit(w) \/ S!WorkEnds(w)
    <2>1. PICK l \in Places : /\ spc' = [spc EXCEPT ![w] = l] /\ l \notin {"none", "ended"}
                              /\ l = "asleep" => paused
      BY <1>2 DEF S!Enter, S!Leave, S!Check, S!Futex, S!ThrExit, S!WorkEnds, S!At, Places
    <2>2. spc[w] \notin {"none", "ended"} /\ S!Still /\ to' = to /\ sig' = sig
      BY <1>2 DEF S!Enter, S!Leave, S!Check, S!Futex, S!ThrExit, S!WorkEnds, S!At
    <2>3. QED
      BY <1>1, <2>1, <2>2, GoesOnInv
  <1>3. CASE S!Call(w) \/ S!HostReturn(w) \/ S!Point(w) \/ S!Unpark(w)
    <2>1. PICK l \in Places : /\ spc' = [spc EXCEPT ![w] = l]
                              /\ l \notin {"none", "ended", "asleep"}
      BY <1>1, <1>3 DEF S!Call, S!HostReturn, S!Gate, S!Point, S!Unpark, S!At, Places
    <2>2. spc[w] \notin {"none", "ended"} /\ S!Still /\ sig' = sig
      BY <1>3 DEF S!Call, S!HostReturn, S!Gate, S!Point, S!Unpark, S!At
    <2>3. to' \in [Workers -> {"guest", "host", "leave"}]
      BY <1>1, <1>3 DEF S!Call, S!HostReturn, S!Gate, S!Point, S!Unpark
    <2>4. QED
      BY <1>1, <2>1, <2>2, <2>3, GoesOnInv
  <1>4. QED
    BY <1>2, <1>3

\* PauseSignal.
LEMMA DeliverInv ==
  ASSUME S!SessionAssumptions, S!SessionInv, NEW w \in Workers, S!Deliver(w)
  PROVE  S!SessionInv'
  <1>1. /\ SessionTyped /\ spc \in [Workers -> Places]
        /\ to \in [Workers -> {"guest", "host", "leave"}] /\ sig \in [Workers -> BOOLEAN]
    BY TypeParts DEF S!SessionInv, SessionTyped
  <1>2. sig' \in [Workers -> BOOLEAN] /\ S!Still
    BY <1>1 DEF S!Deliver
  <1>3. CASE spc[w] = "guest" /\ paused
    <2>1. /\ spc' = [spc EXCEPT ![w] = "point"]
          /\ to' \in [Workers -> {"guest", "host", "leave"}]
      BY <1>1, <1>3 DEF S!Deliver
    <2>2. "point" \in Places
      BY DEF Places
    <2>3. QED
      BY <1>2, <1>3, <2>1, <2>2, GoesOnInv
  <1>4. CASE ~(spc[w] = "guest" /\ paused)
    <2>1. UNCHANGED <<spc, to>>
      BY <1>4 DEF S!Deliver
    <2>2. S!HandlesKept' /\ S!ResetsRunAlone' /\ S!AsleepMeansPaused'
      BY <1>2, <2>1, StaysPut DEF S!Still, S!flags, S!main
    <2>3. SessionTyped'
      BY <1>1, <1>2, <2>1 DEF SessionTyped, S!Still, S!flags, S!requests, S!main, S!view
    <2>4. QED
      BY <1>1, <2>1, <2>2, <2>3, Whole
  <1>5. QED
    BY <1>3, <1>4

\* The end of a thread counts g_live down; its handle stays.
LEMMA EndInv ==
  ASSUME S!SessionAssumptions, S!SessionInv, NEW w \in Workers, S!End(w)
  PROVE  S!SessionInv'
  <1>1. SessionTyped /\ spc \in [Workers -> Places] /\ "ended" \in Places
    BY TypeParts DEF S!SessionInv, Places
  <1>2. /\ spc[w] = "exit" /\ spc' = [spc EXCEPT ![w] = "ended"] /\ live' = live - 1
        /\ UNCHANGED <<S!flags, S!requests, threads, joining, to, S!main, S!view>>
        /\ sig' = [sig EXCEPT ![w] = FALSE]
    BY DEF S!End, S!At
  <1>3. /\ spc' \in [Workers -> Places]
        /\ Made' = Made /\ Running' = Running \ {w} /\ w \in Running
    BY <1>1, <1>2, WorkerMoves
  <1>4. Cardinality(Running') = Cardinality(Running) - 1
    BY <1>3, RunningFinite, FS_RemoveElement
  <1>5. S!HandlesKept'
    BY <1>2, <1>3, <1>4
    DEF S!SessionInv, S!HandlesKept, Made, Running, Cardinality, S!Cardinality
  <1>6. S!ResetsRunAlone'
    BY <1>2 DEF S!SessionInv, S!ResetsRunAlone, S!main
  <1>7. S!AsleepMeansPaused'
    BY <1>1, <1>2 DEF S!SessionInv, S!AsleepMeansPaused, S!flags
  <1>8. SessionTyped'
    BY <1>1, <1>2 DEF SessionTyped, S!flags, S!requests, S!main, S!view
  <1>9. QED
    BY <1>3, <1>5, <1>6, <1>7, <1>8, Whole

\* SpawnThread registers the handle and counts the thread.
LEMMA Spawns ==
  ASSUME S!SessionAssumptions, S!SessionInv, NEW v \in Workers, NEW kind \in {"start", "work"},
         S!Spawn(v, kind), UNCHANGED joining
  PROVE  spc' \in [Workers -> Places] /\ S!HandlesKept'
  <1>1. kind \in Places /\ kind \notin {"none", "ended"}
    BY DEF Places
  <1>2. /\ spc[v] = "none" /\ spc' = [spc EXCEPT ![v] = kind] /\ live' = live + 1
        /\ threads' = threads \cup {v}
    BY DEF S!Spawn
  <1>3. /\ spc' \in [Workers -> Places]
        /\ Made' = Made \cup {v} /\ Running' = Running \cup {v} /\ v \notin Running
    BY <1>1, <1>2, WorkerMoves
  <1>4. Cardinality(Running') = Cardinality(Running) + 1
    BY <1>3, RunningFinite, FS_AddElement
  <1>5. v \notin threads \cup joining
    BY <1>2 DEF S!SessionInv, S!HandlesKept
  <1>6. S!HandlesKept'
    BY <1>2, <1>3, <1>4, <1>5
    DEF S!SessionInv, S!HandlesKept, Made, Running, Cardinality, S!Cardinality
  <1>7. QED
    BY <1>3, <1>6

\* thr_new, also from a thread that is being joined.
LEMMA ThrNewInv ==
  ASSUME S!SessionAssumptions, S!SessionInv, NEW w \in Workers, NEW v \in Workers, S!ThrNew(w, v)
  PROVE  S!SessionInv'
  <1>1. SessionTyped /\ spc \in [Workers -> Places]
    BY TypeParts DEF S!SessionInv
  <1>2. /\ spc[w] = "host"
        /\ UNCHANGED <<S!flags, S!requests, joining, to, sig, S!main, S!view>>
    BY DEF S!ThrNew
  <1>3. PICK kind \in {"start", "work"} : S!Spawn(v, kind)
    BY DEF S!ThrNew
  <1>4. spc' \in [Workers -> Places] /\ S!HandlesKept'
    BY <1>2, <1>3, Spawns
  <1>5. S!ResetsRunAlone'
    BY <1>2 DEF S!SessionInv, S!ResetsRunAlone, S!main
  <1>6. S!AsleepMeansPaused'
    BY <1>1, <1>2, <1>3 DEF S!SessionInv, S!AsleepMeansPaused, S!flags, S!Spawn
  <1>7. SessionTyped'
    BY <1>1, <1>2 DEF SessionTyped, S!flags, S!requests, S!main, S!view
  <1>8. QED
    BY <1>4, <1>5, <1>6, <1>7, Whole

\* sys_exit, which raises both flags and goes on to end its thread.
LEMMA SysExitInv ==
  ASSUME S!SessionAssumptions, S!SessionInv, NEW w \in Workers,
         S!SysExit(w) \/ S!SysExitPause(w) \/ S!SysExitPoll(w)
  PROVE  S!SessionInv'
  <1>1. SessionTyped /\ spc \in [Workers -> Places] /\ {"stop1", "stop2", "exit"} \subseteq Places
    BY TypeParts DEF S!SessionInv, Places
  <1>2. CASE S!SysExit(w)
    <2>1. /\ spc[w] = "host" /\ spc' = [spc EXCEPT ![w] = "stop1"] /\ stopping' = TRUE
          /\ UNCHANGED <<paused, S!requests, S!handles, to, sig, S!main, S!view>>
      BY <1>2 DEF S!SysExit, S!At
    <2>2. S!HandlesKept' /\ S!ResetsRunAlone' /\ S!AsleepMeansPaused'
      BY <1>1, <2>1, GoesOn DEF S!main
    <2>3. spc' \in [Workers -> Places]
      BY <1>1, <2>1, WorkerMoves
    <2>4. SessionTyped'
      BY <1>1, <2>1 DEF SessionTyped, S!requests, S!main, S!view
    <2>5. QED
      BY <2>2, <2>3, <2>4, Whole
  <1>3. CASE S!SysExitPause(w)
    <2> DEFINE there == [spc EXCEPT ![w] = "stop2"]
    <2>1. /\ spc[w] = "stop1" /\ S!StorePaused(TRUE, there)
          /\ UNCHANGED <<stopping, S!requests, S!handles, to, sig, S!main, S!view>>
      BY <1>3 DEF S!SysExitPause
    <2>2. /\ there \in [Workers -> Places]
          /\ {v \in Workers : there[v] # "none"} = Made
          /\ {v \in Workers : there[v] \notin {"none", "ended"}} = Running
      BY <1>1, <2>1 DEF Made, Running
    <2> HIDE DEF there
    <2>3. /\ paused' \in BOOLEAN /\ spc' \in [Workers -> Places]
          /\ S!HandlesKept' /\ S!ResetsRunAlone' /\ S!AsleepMeansPaused'
      BY <2>1, <2>2, Wakes DEF S!main
    <2>4. SessionTyped'
      BY <1>1, <2>1, <2>3 DEF SessionTyped, S!requests, S!main, S!view
    <2>5. QED
      BY <2>3, <2>4, Whole
  <1>4. CASE S!SysExitPoll(w)
    <2>1. /\ spc[w] = "stop2" /\ spc' = [spc EXCEPT ![w] = "exit"]
          /\ S!PollPause /\ UNCHANGED to /\ S!Still
      BY <1>4 DEF S!SysExitPoll, S!At
    <2>2. to' \in [Workers -> {"guest", "host", "leave"}]
      BY <1>1, <2>1 DEF SessionTyped
    <2>3. QED
      BY <1>1, <2>1, <2>2, PollTyped, GoesOnInv
  <1>5. QED
    BY <1>2, <1>3, <1>4
-----------------------------------------------------------------------------
(* The user interface and the main thread.                                  *)

\* What moves no worker: the interface's choices, and polls of the flag.
LEMMA UiInv ==
  ASSUME S!SessionInv, S!Toggle \/ S!ToggleWay \/ S!Poll \/ S!Frame \/ S!Menu \/ S!Close
  PROVE  S!SessionInv'
  <1>1. SessionTyped /\ spc \in [Workers -> Places]
    BY TypeParts DEF S!SessionInv
  <1>2. UNCHANGED <<spc, paused, to, stopping, S!handles, S!main, ui>>
    BY DEF S!Toggle, S!ToggleWay, S!Poll, S!Frame, S!Menu, S!Close, S!Ui, S!UiOnly
  <1>3. S!HandlesKept' /\ S!ResetsRunAlone' /\ S!AsleepMeansPaused'
    BY <1>2, StaysPut DEF S!main
  <1>4. sig' \in [Workers -> BOOLEAN]
    <2>1. CASE S!Poll \/ S!Frame
      BY <2>1, PollTyped DEF S!Poll, S!Frame
    <2>2. CASE S!Toggle \/ S!ToggleWay \/ S!Menu \/ S!Close
      BY <1>1, <2>2 DEF S!Toggle, S!ToggleWay, S!Menu, S!Close, SessionTyped
    <2>3. QED
      BY <2>1, <2>2
  <1>5. upc' \in {"idle", "toggle", "pause", "poll", "resume", "menu", "closed", "over"}
    BY DEF S!Toggle, S!ToggleWay, S!Poll, S!Frame, S!Menu, S!Close, S!Ui
  <1>6. exitReq' \in BOOLEAN /\ returnReq' \in BOOLEAN
    <2>1. CASE S!Menu
      BY <1>1, <2>1 DEF S!Menu, SessionTyped
    <2>2. CASE S!Toggle \/ S!ToggleWay \/ S!Poll \/ S!Frame \/ S!Close
      BY <1>1, <2>2 DEF S!Toggle, S!ToggleWay, S!Poll, S!Frame, S!Close, SessionTyped, S!requests
    <2>3. QED
      BY <2>1, <2>2
  <1>7. SessionTyped'
    BY <1>1, <1>2, <1>4, <1>5, <1>6 DEF SessionTyped, S!main
  <1>8. QED
    BY <1>1, <1>2, <1>3, <1>7, Whole

\* SetPaused, from the menu, from a closed window and from RequestStop.
LEMMA SetPausedInv ==
  ASSUME S!SessionInv, S!Pause \/ S!Resume \/ S!StopPause
  PROVE  S!SessionInv'
  <1>1. SessionTyped /\ spc \in [Workers -> Places]
    BY TypeParts DEF S!SessionInv
  <1>2. PICK p \in BOOLEAN : S!StorePaused(p, spc)
    BY DEF S!Pause, S!Resume, S!StopPause
  <1>3. /\ {w \in Workers : spc[w] # "none"} = Made
        /\ {w \in Workers : spc[w] \notin {"none", "ended"}} = Running
    BY DEF Made, Running
  <1>4. CASE S!Pause \/ S!Resume
    <2>1. UNCHANGED <<stopping, S!requests, S!handles, S!main, to, sig, ui>>
      BY <1>4 DEF S!Pause, S!Resume, S!Ui, S!UiOnly
    <2>2. upc' \in {"idle", "poll", "over"}
      BY <1>4 DEF S!Pause, S!Resume, S!Ui
    <2>3. /\ paused' \in BOOLEAN /\ spc' \in [Workers -> Places]
          /\ S!HandlesKept' /\ S!ResetsRunAlone' /\ S!AsleepMeansPaused'
      BY <1>1, <1>2, <1>3, <2>1, Wakes DEF S!main
    <2>4. SessionTyped'
      BY <1>1, <2>1, <2>2, <2>3 DEF SessionTyped, S!requests, S!main
    <2>5. QED
      BY <2>3, <2>4, Whole
  <1>5. CASE S!StopPause
    <2>1. /\ UNCHANGED <<stopping, S!requests, S!handles, to, sig, returning, S!view>>
          /\ mpc = "stop1" /\ mpc' = "stop2"
      BY <1>5 DEF S!StopPause, S!Main
    <2>2. /\ paused' \in BOOLEAN /\ spc' \in [Workers -> Places]
          /\ \A w \in Workers : spc'[w] = IF spc[w] = "asleep" THEN "check" ELSE spc[w]
      BY <1>1, <1>2 DEF S!StorePaused, Places
    <2>3. Made' = Made /\ Running' = Running
      BY <2>2 DEF Made, Running
    <2>4. S!HandlesKept'
      BY <2>1, <2>3 DEF S!SessionInv, S!HandlesKept, S!handles, Made, Running
    <2>5. S!ResetsRunAlone' /\ S!AsleepMeansPaused'
      BY <2>1, <2>2 DEF S!ResetsRunAlone, S!AsleepMeansPaused
    <2>6. SessionTyped'
      BY <1>1, <2>1, <2>2 DEF SessionTyped, S!requests, S!view
    <2>7. QED
      BY <2>2, <2>4, <2>5, <2>6, Whole
  <1>6. QED
    BY <1>4, <1>5

\* Launcher::Boot: the resets are done, no thread is left, and one is made.
LEMMA BootInv ==
  ASSUME S!SessionAssumptions, S!SessionInv, S!Boot PROVE S!SessionInv'
  <1>1. SessionTyped /\ spc \in [Workers -> Places]
    BY TypeParts DEF S!SessionInv
  <1>2. /\ mpc = "home" /\ mpc' = "run" /\ stopping' = FALSE /\ paused' = FALSE
        /\ S!Spawn(GuestMain, "start")
        /\ UNCHANGED <<S!requests, joining, to, sig, returning, S!view>>
    BY DEF S!Boot, S!Main
  <1>3. spc' \in [Workers -> Places] /\ S!HandlesKept'
    BY <1>2, Spawns DEF S!SessionAssumptions
  <1>4. \A w \in Workers : spc'[w] \in {"none", "start"}
    BY <1>1, <1>2 DEF S!SessionInv, S!ResetsRunAlone, S!Spawn
  <1>5. S!ResetsRunAlone' /\ S!AsleepMeansPaused'
    BY <1>2, <1>4 DEF S!ResetsRunAlone, S!AsleepMeansPaused
  <1>6. SessionTyped'
    BY <1>1, <1>2 DEF SessionTyped, S!requests, S!view
  <1>7. QED
    BY <1>3, <1>5, <1>6, Whole

\* The main thread up to the join.
LEMMA MainInv ==
  ASSUME S!SessionInv, S!BootFails \/ S!Present \/ S!StopBegin \/ S!StopPoll \/ S!StopPresentation
  PROVE  S!SessionInv'
  <1>1. SessionTyped /\ spc \in [Workers -> Places]
    BY TypeParts DEF S!SessionInv
  <1>2. UNCHANGED <<spc, S!handles, to, S!requests>> /\ (paused => paused')
    BY DEF S!BootFails, S!Present, S!StopBegin, S!StopPoll, S!StopPresentation, S!flags, S!work
  <1>3. mpc' \in {"run", "stop1", "show", "join"}
    BY DEF S!BootFails, S!Present, S!StopBegin, S!StopPoll, S!StopPresentation, S!Main, S!main
  <1>4. S!HandlesKept' /\ S!ResetsRunAlone' /\ S!AsleepMeansPaused'
    BY <1>2, <1>3, StaysPut
  <1>5. sig' \in [Workers -> BOOLEAN]
    BY <1>1, PollTyped DEF S!BootFails, S!Present, S!StopBegin, S!StopPoll, S!StopPresentation, S!work, SessionTyped
  <1>6. stopping' \in BOOLEAN /\ paused' \in BOOLEAN /\ returning' \in BOOLEAN
    <2>1. CASE S!BootFails \/ S!Present \/ S!StopBegin \/ S!StopPresentation
      BY <1>1, <2>1 DEF S!BootFails, S!Present, S!StopBegin, S!StopPresentation, S!flags, S!main, SessionTyped
    <2>2. CASE S!StopPoll
      BY <1>1, <2>2 DEF S!StopPoll, S!flags, SessionTyped
    <2>3. QED
      BY <2>1, <2>2
  <1>7. /\ ui' \in {"off", "present", "exit"}
        /\ upc' \in {"idle", "toggle", "pause", "poll", "resume", "menu", "closed", "over"}
    <2>1. CASE S!StopPresentation
      BY <1>1, <2>1 DEF S!StopPresentation, SessionTyped
    <2>2. CASE S!BootFails \/ S!Present \/ S!StopBegin \/ S!StopPoll
      BY <1>1, <2>2 DEF S!BootFails, S!Present, S!StopBegin, S!StopPoll, S!view, SessionTyped
    <2>3. QED
      BY <2>1, <2>2
  <1>8. SessionTyped'
    BY <1>1, <1>2, <1>3, <1>5, <1>6, <1>7 DEF SessionTyped, S!requests
  <1>9. QED
    BY <1>1, <1>2, <1>4, <1>8, Whole

\* JoinThreads takes all handles; when it finds none, no thread is left.
LEMMA JoinInv ==
  ASSUME S!SessionAssumptions, S!SessionInv, S!JoinSwap \/ \E w \in Workers : S!Join(w)
  PROVE  S!SessionInv'
  <1>1. SessionTyped /\ spc \in [Workers -> Places] /\ "none" \in Places
    BY TypeParts DEF S!SessionInv, Places
  <1>2. CASE S!JoinSwap
    <2>1. /\ mpc = "join" /\ joining = {} /\ joining' = threads /\ threads' = {}
          /\ mpc' = IF threads = {} THEN "reset" ELSE "join"
          /\ UNCHANGED <<S!flags, S!requests, live, S!work, returning, S!view>>
      BY <1>2 DEF S!JoinSwap
    <2>2. S!HandlesKept'
      BY <2>1 DEF S!SessionInv, S!HandlesKept, S!work
    <2>3. S!ResetsRunAlone'
      BY <2>1 DEF S!SessionInv, S!HandlesKept, S!ResetsRunAlone, S!work
    <2>4. S!AsleepMeansPaused' /\ spc' = spc
      BY <2>1 DEF S!SessionInv, S!AsleepMeansPaused, S!work, S!flags
    <2>5. SessionTyped'
      BY <1>1, <2>1 DEF SessionTyped, S!flags, S!requests, S!work, S!view
    <2>6. QED
      BY <1>1, <2>2, <2>3, <2>4, <2>5, Whole
  <1>3. ASSUME NEW w \in Workers, S!Join(w) PROVE S!SessionInv'
    <2>1. /\ mpc = "join" /\ w \in joining /\ joining' = joining \ {w}
          /\ spc[w] = "ended" /\ spc' = [spc EXCEPT ![w] = "none"]
          /\ UNCHANGED <<S!flags, S!requests, live, threads, to, sig, S!main, S!view>>
      BY <1>3 DEF S!Join, S!At
    <2>2. spc' \in [Workers -> Places] /\ Made' = Made \ {w} /\ Running' = Running
      BY <1>1, <2>1, WorkerMoves
    <2>3. S!HandlesKept'
      BY <2>1, <2>2 DEF S!SessionInv, S!HandlesKept, Made, Running
    <2>4. S!ResetsRunAlone' /\ S!AsleepMeansPaused'
      BY <1>1, <2>1 DEF S!SessionInv, S!ResetsRunAlone, S!AsleepMeansPaused, S!main, S!flags
    <2>5. SessionTyped'
      BY <1>1, <2>1 DEF SessionTyped, S!flags, S!requests, S!main, S!view
    <2>6. QED
      BY <2>2, <2>3, <2>4, <2>5, Whole
  <1>4. QED
    BY <1>2, <1>3

\* The resets, which lower the flag with nobody there to sleep on it.
LEMMA ResetInv == ASSUME S!SessionInv, S!Reset PROVE S!SessionInv'
  <1>1. SessionTyped /\ spc \in [Workers -> Places]
    BY TypeParts DEF S!SessionInv
  <1>2. /\ mpc = "reset" /\ mpc' \in {"off", "home"}
        /\ ui' = "off" /\ upc' = "idle" /\ paused' = FALSE
        /\ exitReq' = FALSE /\ returnReq' = FALSE /\ returning' = FALSE
        /\ UNCHANGED <<stopping, S!handles, spc, to, sig>>
    BY DEF S!Reset, S!work
  <1>3. \A w \in Workers : spc[w] = "none"
    BY <1>2 DEF S!SessionInv, S!ResetsRunAlone
  <1>4. S!HandlesKept' /\ S!ResetsRunAlone' /\ S!AsleepMeansPaused'
    BY <1>2, <1>3 DEF S!SessionInv, S!HandlesKept, S!ResetsRunAlone, S!AsleepMeansPaused, S!handles
  <1>5. SessionTyped'
    BY <1>1, <1>2 DEF SessionTyped
  <1>6. QED
    BY <1>1, <1>2, <1>4, <1>5, Whole
-----------------------------------------------------------------------------
(* The invariant.                                                           *)

\* Before the first title there is nobody.
LEMMA SessionInitInv == ASSUME S!SessionAssumptions, S!Init PROVE S!SessionInv
  <1>1. Made = {} /\ Running = {}
    BY DEF S!Init, Made, Running
  <1>2. S!HandlesKept
    BY <1>1, FS_EmptySet DEF S!Init, S!HandlesKept, Made, Running, Cardinality, S!Cardinality
  <1>3. S!ResetsRunAlone /\ S!AsleepMeansPaused
    BY DEF S!Init, S!ResetsRunAlone, S!AsleepMeansPaused
  <1>4. S!TypeOK
    BY Zenon DEF S!Init, S!TypeOK
  <1>5. QED
    BY <1>2, <1>3, <1>4 DEF S!SessionInv

\* Every step of a worker, of the main thread and of the user interface.
LEMMA SessionStep ==
  ASSUME S!SessionAssumptions, S!SessionInv, [S!Next]_(S!vars)
  PROVE  S!SessionInv'
  <1>1. CASE S!Boot
    BY <1>1, BootInv
  <1>2. CASE S!BootFails \/ S!Present \/ S!StopBegin \/ S!StopPoll \/ S!StopPresentation
    BY <1>2, MainInv
  <1>3. CASE S!Pause \/ S!Resume \/ S!StopPause
    BY <1>3, SetPausedInv
  <1>4. CASE S!JoinSwap \/ \E w \in Workers : S!Join(w)
    BY <1>4, JoinInv
  <1>5. CASE S!Reset
    BY <1>5, ResetInv
  <1>6. CASE S!Toggle \/ S!ToggleWay \/ S!Poll \/ S!Frame \/ S!Menu \/ S!Close
    BY <1>6, UiInv
  <1>7. ASSUME NEW w \in Workers,
               S!WorkerStep(w) \/ S!Call(w) \/ S!HostReturn(w) \/ S!ThrExit(w) \/ S!SysExit(w)
        PROVE  S!SessionInv'
    BY <1>7, GateInv, EndInv, SysExitInv DEF S!WorkerStep
  <1>8. ASSUME NEW w \in Workers, S!Deliver(w) PROVE S!SessionInv'
    BY <1>8, DeliverInv
  <1>9. ASSUME NEW w \in Workers, NEW v \in Workers, S!ThrNew(w, v) PROVE S!SessionInv'
    BY <1>9, ThrNewInv
  <1>10. CASE UNCHANGED S!vars
    <2>1. UNCHANGED <<S!flags, S!requests, S!handles, S!work, S!main, S!view>>
      BY <1>10 DEF S!vars
    <2>2. SessionTyped /\ spc \in [Workers -> Places]
      BY TypeParts DEF S!SessionInv
    <2>3. SessionTyped' /\ spc' = spc
      BY <2>1, <2>2 DEF SessionTyped, S!flags, S!requests, S!work, S!main, S!view
    <2>4. S!HandlesKept' /\ S!ResetsRunAlone' /\ S!AsleepMeansPaused'
      BY <2>1, StaysPut DEF S!flags, S!work, S!main
    <2>5. QED
      BY <2>2, <2>3, <2>4, Whole
  <1>11. QED
    BY <1>1, <1>2, <1>3, <1>4, <1>5, <1>6, <1>7, <1>8, <1>9, <1>10
    DEF S!Next, S!MainStep, S!UiStep

\* In every behaviour about threads.
LEMMA SessionAlways ==
  /\ S!Spec => []S!SessionInv
  /\ AllSpec => [](used = "threads" => S!SessionInv)
  <1>1. S!Init => S!SessionInv
    BY SessionsAssumption, SessionInitInv
  <1>2. S!SessionInv /\ [S!Next]_(S!vars) => S!SessionInv'
    BY SessionsAssumption, SessionStep
  <1> DEFINE I == used = "threads" => S!SessionInv
  <1>3. AllInit => I
    BY <1>1 DEF AllInit
  <1>4. I /\ [AllNext]_allVars => I'
    <2>1. SUFFICES ASSUME I, [AllNext]_allVars, used' = "threads" PROVE S!SessionInv'
      OBVIOUS
    <2>2. used = "threads" /\ [S!Next]_(S!vars)
      <3>1. CASE AllNext
        BY <2>1, <3>1 DEF AllNext, InSem, InKsem, InFlags, InSession
      <3>2. CASE UNCHANGED allVars
        BY <2>1, <3>2 DEF allVars, sessionOnly, S!vars, S!flags, S!requests, S!handles, S!work, S!main, S!view
      <3>3. QED
        BY <2>1, <3>1, <3>2
    <2>3. QED
      BY <1>2, <2>1, <2>2
  <1> HIDE DEF I
  <1>5. AllSpec => []I
    BY <1>3, <1>4, PTL DEF AllSpec
  <1>6. S!Spec => []S!SessionInv
    BY <1>1, <1>2, PTL DEF S!Spec
  <1>7. QED
    BY <1>5, <1>6 DEF I

\* SpawnThread, JoinThreads and the pause flag, for any number of threads that
\* make threads while they are stopped: no handle is lost or joined twice,
\* g_live is exact, the reset callbacks run after session workers have joined,
\* and no thread sleeps on a flag that is down.
THEOREM SessionSafe ==
  /\ S!Spec => []S!SessionInv
  /\ AllSpec => []SessionInv
  <1>1. (used = "threads" => S!SessionInv) => SessionInv
    BY DEF SessionInv
  <1>2. QED
    BY <1>1, SessionAlways, PTL

-----------------------------------------------------------------------------
(* The object table.  A slot and the object in it lead to each other, and  *)
(* that stays so when the table grows and when FindSlot starts its search  *)
(* anywhere in it.                                                         *)

\* Besides what HandlesResolve says: the search starts at a slot that may be
\* handed out.
Searchable == (cap = 0 /\ last_free = 0) \/ (cap >= 2 /\ last_free \in 1 .. cap - 1)

TableOK == TableTypeOK /\ HandlesResolve /\ Searchable

\* A set of numbers has a least one.
LEMMA LeastIn ==
  ASSUME NEW T \in SUBSET Nat, T # {}
  PROVE  Min(T) \in T
  <1> DEFINE R == OpToRel(<, Nat)
  <1>1. \A x, y \in Nat : <<x, y>> \in R <=> x < y
    BY DEF OpToRel
  <1>2. IsWellFoundedOn(R, Nat)
    BY NatLessThanWellFounded
  <1> HIDE DEF R
  <1>3. PICK x \in T : \A y \in T : ~ (<<y, x>> \in R)
    BY <1>2, WFMin
  <1>4. ASSUME NEW y \in T PROVE x <= y
    <2>1. x \in Nat /\ y \in Nat
      BY <1>3
    <2>2. ~(y < x)
      BY <1>1, <1>3, <2>1
    <2>3. QED
      BY <2>1, <2>2
  <1>5. QED
    BY <1>3, <1>4 DEF Min

\* A handle and the object under it.
LEMMA AtHandle ==
  ASSUME TableOK
  PROVE  /\ \A h : ObjectAt(h) # None => ObjectAt(h) \in Objs /\ handle[ObjectAt(h)] = h /\ h # 0
         /\ \A o \in Objs : handle[o] # 0 => ObjectAt(handle[o]) = o
  BY DEF TableOK, TableTypeOK, HandlesResolve, ObjectAt

\* An object is in one slot or in none.
LEMMA OneSlot ==
  ASSUME TableOK, NEW o \in Objs
  PROVE  SlotsOf(o) = IF handle[o] = 0 THEN 0 ELSE 1
  <1> DEFINE A == {s \in DOMAIN table : table[s].obj = o}
  <1>1. o # None
    BY TableAssumptions
  <1>2. CASE handle[o] = 0
    <2>1. A = {}
      BY <1>1, <1>2 DEF TableOK, HandlesResolve
    <2>2. QED
      BY <1>2, <2>1, FS_EmptySet DEF SlotsOf
  <1>3. CASE handle[o] # 0
    <2>1. A = {handle[o]}
      BY <1>1, <1>3 DEF TableOK, HandlesResolve, ObjectAt
    <2>2. QED
      BY <1>3, <2>1, FS_Singleton DEF SlotsOf
  <1>4. QED
    BY <1>2, <1>3

\* Where Add puts an object: into a vacant slot, or behind the end of a table
\* that is full.
Slot == IF VacantProbes = {} THEN cap + 1 ELSE Probe(Min(VacantProbes))

LEMMA SlotFound ==
  ASSUME TableOK
  PROVE  IF VacantProbes = {} THEN Slot = cap + 1
         ELSE Slot \in 1 .. cap - 1 /\ table[Slot].obj = None
  <1>1. CASE VacantProbes = {}
    BY <1>1 DEF Slot
  <1>2. CASE VacantProbes # {}
    <2> DEFINE i == Min(VacantProbes)
    <2>1. cap \in Nat /\ VacantProbes \subseteq Nat
      BY DEF TableOK, TableTypeOK, VacantProbes
    <2>2. i \in VacantProbes
      BY <1>2, <2>1, LeastIn
    <2> HIDE DEF i
    <2>3. i \in 0 .. cap - 2 /\ table[Probe(i)].obj = None
      BY <2>2 DEF VacantProbes
    <2>4. cap >= 2 /\ last_free \in 1 .. cap - 1
      BY <2>1, <2>3 DEF TableOK, Searchable
    <2>5. cap - 1 \in Nat \ {0} /\ last_free - 1 + i \in Nat
      BY <2>1, <2>3, <2>4
    <2>6. ASSUME NEW a \in Nat, NEW b \in Nat \ {0} PROVE a % b \in 0 .. b - 1
      BY <2>6
    <2>7. (last_free - 1 + i) % (cap - 1) \in 0 .. (cap - 1) - 1
      BY <2>5, <2>6
    <2>8. Probe(i) \in 1 .. cap - 1
      BY <2>1, <2>7 DEF Probe
    <2>9. QED
      BY <1>2, <2>3, <2>8 DEF Slot, i
  <1>3. QED
    BY <1>1, <1>2

\* ObjectTable::Add of an object that has no handle.
LEMMA AddKeeps ==
  ASSUME TableOK, NEW o \in Objs, handle[o] = 0, Add(o)
  PROVE  /\ TableOK' /\ cap <= cap'
         /\ handle'[o] # 0 /\ \A p \in Objs : p # o => handle'[p] = handle[p]
         /\ refs' = [refs EXCEPT ![o] = @ + 1]
  <1> DEFINE full == VacantProbes = {}
  <1>1. /\ cap \in Nat /\ last_free \in 0 .. cap /\ refs \in [Objs -> Int]
        /\ table \in [0 .. cap - 1 -> [obj : Objs \cup {None}, ref : Int]]
        /\ handle \in [Objs -> 0 .. cap] /\ InitCap \in Nat /\ InitCap >= 2 /\ None \notin Objs
    BY TableAssumptions DEF TableOK, TableTypeOK
  <1>2. /\ cap' = IF full THEN Max({InitCap, 2 * cap}) ELSE cap
        /\ last_free' = IF full THEN cap + 1 ELSE last_free
        /\ table' = [s \in 0 .. cap' - 1 |->
                       IF s = Slot THEN [obj |-> o, ref |-> 1]
                       ELSE IF s < cap THEN table[s] ELSE Vacant]
        /\ handle' = [handle EXCEPT ![o] = Slot]
        /\ refs' = [refs EXCEPT ![o] = @ + 1]
    BY DEF Add, Slot
  <1>3. IF full THEN Slot = cap + 1 ELSE Slot \in 1 .. cap - 1 /\ table[Slot].obj = None
    BY SlotFound
  <1>4. full => cap' \in Nat /\ cap' >= InitCap /\ cap' >= 2 * cap
    <2>1. ASSUME NEW a \in Nat, NEW b \in Nat
          PROVE  Max({a, b}) \in Nat /\ Max({a, b}) >= a /\ Max({a, b}) >= b
      <3>1. \E x \in {a, b} : \A y \in {a, b} : x >= y
        OBVIOUS
      <3>2. Max({a, b}) \in {a, b} /\ \A y \in {a, b} : Max({a, b}) >= y
        BY <3>1 DEF Max
      <3>3. QED
        BY <3>2
    <2>2. 2 * cap \in Nat
      BY <1>1
    <2>3. QED
      BY <1>1, <1>2, <2>1, <2>2
  <1> HIDE DEF full
  <1>5. Searchable
    BY DEF TableOK
  <1>6. /\ cap' \in Nat /\ cap <= cap' /\ cap' >= 2 /\ Slot \in 1 .. cap' - 1
        /\ last_free' \in 1 .. cap' - 1
    BY <1>1, <1>2, <1>3, <1>4, <1>5 DEF Searchable
  <1>7. ~(Slot < cap) \/ table[Slot].obj = None
    BY <1>1, <1>3
  <1>8. /\ table' \in [0 .. cap' - 1 -> [obj : Objs \cup {None}, ref : Int]]
        /\ refs' \in [Objs -> Int] /\ handle' \in [Objs -> 0 .. cap']
    <2>1. \A s \in 0 .. cap' - 1 : s < cap => s \in 0 .. cap - 1
      BY <1>1, <1>6
    <2>2. Vacant \in [obj : Objs \cup {None}, ref : Int] /\ [obj |-> o, ref |-> 1] \in [obj : Objs \cup {None}, ref : Int]
      BY DEF Vacant
    <2>3. table' \in [0 .. cap' - 1 -> [obj : Objs \cup {None}, ref : Int]]
      BY <1>1, <1>2, <2>1, <2>2
    <2>4. Slot \in 0 .. cap' /\ \A h \in 0 .. cap : h \in 0 .. cap'
      <3>1. \A c \in Nat, d \in Nat : c <= d => 0 .. c \subseteq 0 .. d
        OBVIOUS
      <3>2. \A d \in Nat : 1 .. d - 1 \subseteq 0 .. d
        OBVIOUS
      <3>3. QED
        BY <1>1, <1>6, <3>1, <3>2
    <2>5. handle' \in [Objs -> 0 .. cap']
      BY <1>1, <1>2, <2>4
    <2>6. refs' \in [Objs -> Int]
      BY <1>1, <1>2
    <2>7. QED
      BY <2>3, <2>5, <2>6
  <1>9. TableTypeOK'
    <2>1. last_free' \in 0 .. cap'
      <3>1. \A d \in Nat : 1 .. d - 1 \subseteq 0 .. d
        OBVIOUS
      <3>2. QED
        BY <1>6, <3>1
    <2>2. QED
      BY <1>6, <1>8, <2>1, Zenon DEF TableTypeOK
  <1>10. handle'[o] = Slot /\ Slot # 0 /\ \A p \in Objs : p # o => handle'[p] = handle[p]
    BY <1>1, <1>2, <1>6
  <1>11. /\ table'[Slot].obj = o /\ table'[Slot].ref = 1
         /\ \A s \in 0 .. cap' - 1 : s # Slot => table'[s] = IF s < cap THEN table[s] ELSE Vacant
    BY <1>2, <1>6
  <1>12. ASSUME NEW s \in DOMAIN table', table'[s].obj # None
         PROVE  s # 0 /\ table'[s].ref = 1 /\ handle'[table'[s].obj] = s
    <2>1. s \in 0 .. cap' - 1
      BY <1>8, <1>12
    <2>2. CASE s = Slot
      BY <1>10, <1>11, <2>2
    <2>3. CASE s # Slot
      <3>5. Vacant.obj = None
        BY DEF Vacant
      <3>1. s < cap /\ table'[s] = table[s] /\ s \in 0 .. cap - 1
        <4>1. s < cap /\ table'[s] = table[s]
          BY <1>11, <1>12, <2>1, <2>3, <3>5
        <4>2. QED
          BY <1>1, <1>6, <2>1, <4>1
      <3>2. s # 0 /\ table[s].ref = 1 /\ handle[table[s].obj] = s /\ table[s].obj \in Objs
        BY <1>1, <1>12, <3>1 DEF TableOK, HandlesResolve
      <3>3. table[s].obj # o
        BY <3>2
      <3>4. QED
        BY <1>10, <3>1, <3>2, <3>3
    <2>4. QED
      BY <2>2, <2>3
  <1>13. ASSUME NEW p \in Objs, handle'[p] # 0
         PROVE  handle'[p] \in DOMAIN table' /\ table'[handle'[p]].obj = p
    <2>1. CASE p = o
      <3>1. Slot \in DOMAIN table'
        BY <1>2, <1>6
      <3>2. QED
        BY <1>10, <1>11, <2>1, <3>1
    <2>2. CASE p # o
      <3>1. handle'[p] = handle[p] /\ handle[p] \in 0 .. cap - 1 /\ table[handle[p]].obj = p
        BY <1>1, <1>10, <1>13, <2>2 DEF TableOK, HandlesResolve, ObjectAt
      <3>2. handle[p] # Slot /\ handle[p] < cap /\ handle[p] \in 0 .. cap' - 1
        BY <1>1, <1>6, <1>7, <3>1
      <3>3. QED
        BY <1>8, <1>11, <3>1, <3>2
    <2>3. QED
      BY <2>1, <2>2
  <1>14. HandlesResolve'
    BY <1>12, <1>13 DEF HandlesResolve, ObjectAt
  <1>15. Searchable'
    BY <1>6 DEF Searchable
  <1>16. QED
    BY <1>2, <1>6, <1>9, <1>10, <1>14, <1>15 DEF TableOK

\* ObjectTable::Release of the handle of an object.
LEMMA ReleaseKeeps ==
  ASSUME TableOK, NEW o \in Objs, handle[o] # 0, Release(handle[o])
  PROVE  /\ TableOK' /\ cap' = cap
         /\ handle' = [handle EXCEPT ![o] = 0] /\ refs' = [refs EXCEPT ![o] = @ - 1]
  <1> DEFINE h == handle[o]
  <1>1. /\ cap \in Nat /\ last_free \in 0 .. cap /\ refs \in [Objs -> Int]
        /\ table \in [0 .. cap - 1 -> [obj : Objs \cup {None}, ref : Int]]
        /\ handle \in [Objs -> 0 .. cap] /\ None \notin Objs
    BY TableAssumptions DEF TableOK, TableTypeOK
  <1>2. h \in DOMAIN table /\ table[h].obj = o /\ table[h].ref = 1 /\ ObjectAt(h) = o
    BY <1>1 DEF TableOK, HandlesResolve, ObjectAt
  <1>3. Remove(h) /\ UNCHANGED <<cap, last_free>>
    BY <1>1, <1>2 DEF Release
  <1>4. /\ table' = [table EXCEPT ![h] = Vacant] /\ handle' = [handle EXCEPT ![o] = 0]
        /\ refs' = [refs EXCEPT ![o] = @ - 1] /\ cap' = cap /\ last_free' = last_free
    BY <1>2, <1>3 DEF Remove
  <1>5. Vacant \in [obj : Objs \cup {None}, ref : Int] /\ Vacant.obj = None
    BY DEF Vacant
  <1>6. /\ table' \in [0 .. cap - 1 -> [obj : Objs \cup {None}, ref : Int]]
        /\ refs' \in [Objs -> Int]
    <2>1. refs' \in [Objs -> Int]
      BY <1>1, <1>4
    <2> HIDE DEF h
    <2>2. table' \in [0 .. cap - 1 -> [obj : Objs \cup {None}, ref : Int]]
      BY <1>1, <1>4, <1>5
    <2>3. QED
      BY <2>1, <2>2
  <1>7. handle' \in [Objs -> 0 .. cap]
    <2>1. 0 \in 0 .. cap
      BY <1>1
    <2>2. QED
      BY <1>1, <1>4, <2>1
  <1>8. TableTypeOK'
    BY <1>1, <1>4, <1>6, <1>7 DEF TableTypeOK
  <1>9. ASSUME NEW s \in DOMAIN table', table'[s].obj # None
        PROVE  s # 0 /\ table'[s].ref = 1 /\ handle'[table'[s].obj] = s
    <2>1. s \in DOMAIN table /\ s # h /\ table'[s] = table[s]
      BY <1>1, <1>4, <1>5, <1>9
    <2>2. s # 0 /\ table[s].ref = 1 /\ handle[table[s].obj] = s /\ table[s].obj \in Objs
      BY <1>1, <1>9, <2>1 DEF TableOK, HandlesResolve
    <2>3. QED
      BY <1>1, <1>4, <2>1, <2>2
  <1>10. ASSUME NEW p \in Objs, handle'[p] # 0
         PROVE  handle'[p] \in DOMAIN table' /\ table'[handle'[p]].obj = p
    <2>1. p # o /\ handle'[p] = handle[p]
      BY <1>1, <1>4, <1>10
    <2>2. handle[p] \in DOMAIN table /\ table[handle[p]].obj = p
      BY <1>1, <1>10, <2>1 DEF TableOK, HandlesResolve, ObjectAt
    <2>3. handle[p] # h
      BY <1>2, <2>1, <2>2
    <2>4. QED
      BY <1>1, <1>4, <2>1, <2>2, <2>3
  <1>11. HandlesResolve'
    BY <1>9, <1>10 DEF HandlesResolve, ObjectAt
  <1>12. QED
    BY <1>4, <1>8, <1>11 DEF TableOK, Searchable

\* Taking and dropping a reference leaves the table alone.
LEMMA RefsKeep ==
  ASSUME TableOK, refs' \in [Objs -> Int], UNCHANGED <<cap, last_free, table, handle>>
  PROVE  TableOK'
  BY DEF TableOK, TableTypeOK, HandlesResolve, Searchable, ObjectAt

\* An empty table.
LEMMA EmptyTable ==
  /\ TableInit => TableOK
  /\ Reset => TableOK'
  <1>1. DOMAIN [s \in {} |-> Vacant] = {} /\ 0 .. -1 = {}
    OBVIOUS
  <1>2. [s \in {} |-> Vacant] \in [{} -> [obj : Objs \cup {None}, ref : Int]]
    OBVIOUS
  <1>3. 0 - 1 = -1 /\ 0 \in 0 .. 0
    OBVIOUS
  <1>4. TableInit => TableOK
    BY <1>1, <1>2, <1>3 DEF TableInit, TableOK, TableTypeOK, HandlesResolve, Searchable
  <1>5. Reset => TableOK'
    BY <1>1, <1>2, <1>3 DEF Reset, TableOK, TableTypeOK, HandlesResolve, Searchable
  <1>6. QED
    BY <1>4, <1>5

\* A set that changes in one element.
LEMMA Recount ==
  ASSUME NEW A, NEW B, IsFiniteSet(A), NEW t, A \ {t} = B \ {t}
  PROVE  /\ IsFiniteSet(B) /\ Cardinality(A) \in Nat /\ Cardinality(B) \in Nat
         /\ Cardinality(B) = Cardinality(A) + (IF t \in B THEN 1 ELSE 0) - (IF t \in A THEN 1 ELSE 0)
  <1> DEFINE C == A \ {t}
  <1>1. IsFiniteSet(C) /\ Cardinality(C) = IF t \in A THEN Cardinality(A) - 1 ELSE Cardinality(A)
    BY FS_RemoveElement
  <1>2. B = IF t \in B THEN C \cup {t} ELSE C
    OBVIOUS
  <1>3. t \notin C
    OBVIOUS
  <1>4. IsFiniteSet(C \cup {t}) /\ Cardinality(C \cup {t}) = Cardinality(C) + 1
    BY <1>1, <1>3, FS_AddElement
  <1> HIDE DEF C
  <1>5. IsFiniteSet(B)
    BY <1>1, <1>2, <1>4
  <1>6. Cardinality(A) \in Nat /\ Cardinality(B) \in Nat /\ Cardinality(C) \in Nat
    BY <1>1, <1>5, FS_CardinalityType
  <1>7. Cardinality(B) = IF t \in B THEN Cardinality(C) + 1 ELSE Cardinality(C)
    BY <1>2, <1>4
  <1>8. QED
    BY <1>1, <1>5, <1>6, <1>7

-----------------------------------------------------------------------------
(* SCE semaphores: who owns an object.                                     *)
(*                                                                         *)
(* SemInv is not inductive.  A reference count is exact only if an address *)
(* is given out when nobody has it, so the object of a call that is making *)
(* or destroying a semaphore must be that call's alone (Private); a        *)
(* deletion releases the handle it was given some steps before, so until   *)
(* then that handle must mean its object, and no name (Leaving).           *)

OsemPlaces == {"run", "opening", "naming", "held", "wait", "unnamed", "done", "destroy"}

CallTypes ==
  /\ byName \in [Names -> Objs \cup {None}]
  /\ pc \in [Threads -> OsemPlaces]
  /\ obj \in [Threads -> Objs \cup {None}]
  /\ id \in [Threads -> 0 .. cap]

\* Thread t has a reference to o.
Holds(t, o) == obj[t] = o /\ pc[t] \in {"held", "wait", "unnamed", "done"}

\* RefsExact, with the slots an object has by its handle.
RefsOK == \A o \in Objs : refs[o] = (IF handle[o] = 0 THEN 0 ELSE 1) + Cardinality(Holders(o))

\* A thread has an object exactly while it is in a call.
InCall == \A t \in Threads : IF pc[t] = "run" THEN obj[t] = None /\ id[t] = 0 ELSE obj[t] \in Objs

\* Who makes or destroys an object has it alone; before and after there is no
\* reference to it.
Private ==
  /\ \A t, u \in Threads : pc[t] \in {"opening", "naming", "destroy"} /\ obj[u] = obj[t] => u = t
  /\ \A t \in Threads : pc[t] \in {"opening", "destroy"} => refs[obj[t]] = 0
  /\ \A t \in Threads : pc[t] = "naming" => handle[obj[t]] # 0

\* An object that is being named has no name yet; one that is being deleted has
\* none any more, and keeps its handle until its one deleter releases it.
Leaving ==
  /\ \A t \in Threads, n \in Names : pc[t] \in {"naming", "unnamed"} => byName[n] # obj[t]
  /\ \A t \in Threads : pc[t] = "unnamed" => handle[obj[t]] = id[t] /\ id[t] # 0
  /\ \A t, u \in Threads : pc[t] = "unnamed" /\ pc[u] = "unnamed" /\ obj[u] = obj[t] => u = t

Owned == CallTypes /\ TableOK /\ RefsOK /\ NamesLive /\ InCall /\ Private /\ Leaving

\* There are finitely many holders.
LEMMA HoldersFinite ==
  ASSUME NEW o
  PROVE  IsFiniteSet(Holders(o)) /\ Cardinality(Holders(o)) \in Nat
         /\ (Cardinality(Holders(o)) = 0 <=> Holders(o) = {})
  <1>1. IsFiniteSet(Threads) /\ Holders(o) \subseteq Threads
    BY SemaphoreAssumptions DEF Holders
  <1>2. IsFiniteSet(Holders(o))
    BY <1>1, FS_Subset
  <1>3. QED
    BY <1>2, FS_CardinalityType, FS_EmptySet

\* The holders of an object when one thread takes a step.
LEMMA HoldersMove ==
  ASSUME NEW t \in Threads, \A u \in Threads \ {t} : pc'[u] = pc[u] /\ obj'[u] = obj[u], NEW o
  PROVE  /\ Cardinality(Holders(o)) \in Nat /\ Cardinality(Holders(o)') \in Nat
         /\ Cardinality(Holders(o)') = Cardinality(Holders(o)) + (IF Holds(t, o)' THEN 1 ELSE 0)
                                                               - (IF Holds(t, o) THEN 1 ELSE 0)
  <1> DEFINE A == Holders(o)
             B == Holders(o)'
  <1>1. IsFiniteSet(A)
    BY HoldersFinite
  <1>2. A \ {t} = B \ {t}
    BY DEF Holders
  <1>3. (t \in A <=> Holds(t, o)) /\ (t \in B <=> Holds(t, o)')
    BY DEF Holders, Holds
  <1> HIDE DEF A, B
  <1>4. /\ Cardinality(A) \in Nat /\ Cardinality(B) \in Nat
        /\ Cardinality(B) = Cardinality(A) + (IF t \in B THEN 1 ELSE 0) - (IF t \in A THEN 1 ELSE 0)
    BY <1>1, <1>2, Recount
  <1>5. Cardinality(B) = Cardinality(A) + (IF Holds(t, o)' THEN 1 ELSE 0) - (IF Holds(t, o) THEN 1 ELSE 0)
    BY <1>3, <1>4
  <1>6. QED
    BY <1>4, <1>5 DEF A, B

\* An object without references, and one with a handle or a holder.
LEMMA Referenced ==
  ASSUME Owned, NEW o \in Objs
  PROVE  /\ refs[o] \in Nat
         /\ refs[o] = 0 => handle[o] = 0 /\ \A t \in Threads : ~Holds(t, o)
         /\ handle[o] # 0 => refs[o] > 0
         /\ refs[o] = 0 => \A n \in Names : byName[n] # o
  <1> DEFINE c == Cardinality(Holders(o))
  <1>1. c \in Nat /\ (c = 0 <=> Holders(o) = {})
    BY HoldersFinite
  <1>2. refs[o] = (IF handle[o] = 0 THEN 0 ELSE 1) + c
    BY DEF Owned, RefsOK
  <1> HIDE DEF c
  <1>3. refs[o] \in Nat /\ (handle[o] # 0 => refs[o] > 0) /\ (refs[o] = 0 => handle[o] = 0 /\ c = 0)
    BY <1>1, <1>2
  <1>4. Holders(o) = {} => \A t \in Threads : ~Holds(t, o)
    BY DEF Holders, Holds
  <1>5. refs[o] = 0 => \A n \in Names : byName[n] # o
    <2>1. SUFFICES ASSUME refs[o] = 0, NEW n \in Names, byName[n] = o PROVE FALSE
      OBVIOUS
    <2>2. refs[o] > 0
      BY <2>1, TableAssumptions DEF Owned, NamesLive
    <2>3. QED
      BY <2>1, <2>2
  <1>6. QED
    BY <1>1, <1>3, <1>4, <1>5

\* RefsOK after a step of t in which only the references to p move.
LEMMA RefsStep ==
  ASSUME Owned, NEW t \in Threads, \A u \in Threads \ {t} : pc'[u] = pc[u] /\ obj'[u] = obj[u],
         NEW p \in Objs, \A o \in Objs \ {p} : refs'[o] = refs[o] /\ handle'[o] = handle[o],
         \A o \in Objs \ {p} : Holds(t, o)' <=> Holds(t, o),
         refs'[p] = refs[p] + (IF handle'[p] = 0 THEN 0 ELSE 1) - (IF handle[p] = 0 THEN 0 ELSE 1)
                            + (IF Holds(t, p)' THEN 1 ELSE 0) - (IF Holds(t, p) THEN 1 ELSE 0)
  PROVE  RefsOK'
  <1>1. SUFFICES ASSUME NEW o \in Objs
                 PROVE  refs'[o] = (IF handle'[o] = 0 THEN 0 ELSE 1) + Cardinality(Holders(o)')
    BY DEF RefsOK
  <1> DEFINE c == Cardinality(Holders(o))
             d == Cardinality(Holders(o)')
  <1>2. /\ c \in Nat /\ d \in Nat
        /\ d = c + (IF Holds(t, o)' THEN 1 ELSE 0) - (IF Holds(t, o) THEN 1 ELSE 0)
    BY HoldersMove
  <1>3. refs[o] = (IF handle[o] = 0 THEN 0 ELSE 1) + c
    BY DEF Owned, RefsOK
  <1> HIDE DEF c, d
  <1>4. ASSUME o = p PROVE refs'[o] = (IF handle'[o] = 0 THEN 0 ELSE 1) + d
    BY <1>2, <1>3, <1>4 DEF Holds
  <1>5. ASSUME o # p PROVE refs'[o] = (IF handle'[o] = 0 THEN 0 ELSE 1) + d
    BY <1>2, <1>3, <1>5 DEF Holds
  <1>6. QED
    BY <1>4, <1>5 DEF d

\* The thread of a step, and the others.
LEMMA OsemMoves ==
  ASSUME Owned, NEW t \in Threads, NEW l \in OsemPlaces, NEW x \in Objs \cup {None},
         pc' = [pc EXCEPT ![t] = l], obj' = [obj EXCEPT ![t] = x]
  PROVE  /\ pc' \in [Threads -> OsemPlaces] /\ obj' \in [Threads -> Objs \cup {None}]
         /\ pc'[t] = l /\ obj'[t] = x
         /\ \A u \in Threads \ {t} : pc'[u] = pc[u] /\ obj'[u] = obj[u]
  BY DEF Owned, CallTypes

\* The constructor of Object puts a new object into the table.
LEMMA MakesOwned ==
  ASSUME Owned, NEW t \in Threads, pc[t] \in {"run", "opening"}, NEW o \in Objs, refs[o] = 0,
         \A u \in Threads \ {t} : obj[u] # o, Add(o),
         pc' = [pc EXCEPT ![t] = "naming"], obj' = [obj EXCEPT ![t] = o], UNCHANGED <<byName, sem, id>>
  PROVE  Owned'
  <1>1. /\ pc' \in [Threads -> OsemPlaces] /\ obj' \in [Threads -> Objs \cup {None}]
        /\ pc'[t] = "naming" /\ obj'[t] = o
        /\ \A u \in Threads \ {t} : pc'[u] = pc[u] /\ obj'[u] = obj[u]
    BY OsemMoves DEF OsemPlaces
  <1>2. handle[o] = 0 /\ \A n \in Names : byName[n] # o
    BY Referenced
  <1>3. /\ TableOK' /\ cap <= cap'
        /\ handle'[o] # 0 /\ \A p \in Objs : p # o => handle'[p] = handle[p]
        /\ refs' = [refs EXCEPT ![o] = @ + 1]
    BY <1>2, AddKeeps DEF Owned
  <1>4. refs'[o] = 1 /\ \A p \in Objs \ {o} : refs'[p] = refs[p]
    BY <1>3 DEF Owned, TableOK, TableTypeOK
  <1>5. CallTypes'
    <2>1. \A c, d \in Nat : c <= d => 0 .. c \subseteq 0 .. d
      OBVIOUS
    <2>2. 0 .. cap \subseteq 0 .. cap'
      BY <1>3, <2>1 DEF Owned, TableOK, TableTypeOK
    <2>3. id' \in [Threads -> 0 .. cap']
      BY <2>2 DEF Owned, CallTypes
    <2>4. QED
      BY <1>1, <2>3 DEF Owned, CallTypes
  <1>6. RefsOK'
    <2>1. \A p \in Objs : ~Holds(t, p) /\ ~Holds(t, p)'
      BY <1>1 DEF Holds
    <2>2. QED
      BY <1>1, <1>2, <1>3, <1>4, <2>1, RefsStep DEF Holds
  <1>7. NamesLive'
    BY <1>2, <1>3, <1>4 DEF Owned, CallTypes, NamesLive
  <1>8. InCall'
    BY <1>1 DEF Owned, InCall
  <1>9. Private'
    BY <1>1, <1>2, <1>3, <1>4 DEF Owned, InCall, Private
  <1>10. Leaving'
    <2>1. \A u \in Threads : pc[u] = "unnamed" => obj[u] \in Objs /\ u # t /\ obj[u] # o
      BY DEF Owned, InCall
    <2>2. QED
      BY <1>1, <1>2, <1>3, <2>1 DEF Owned, Leaving
  <1>11. QED
    BY <1>3, <1>5, <1>6, <1>7, <1>8, <1>9, <1>10 DEF Owned

\* A step that leaves the table and the names alone.
LEMMA PlainOwned ==
  ASSUME Owned, NEW t \in Threads, NEW l \in OsemPlaces, NEW x \in Objs \cup {None},
         pc' = [pc EXCEPT ![t] = l], obj' = [obj EXCEPT ![t] = x], id' = [id EXCEPT ![t] = IF l = "run" THEN 0 ELSE @],
         UNCHANGED <<tableVars, byName>>, \A o \in Objs : sem'[o].name = sem[o].name,
         \A o \in Objs : Holds(t, o)' <=> Holds(t, o)
  PROVE  /\ CallTypes' /\ TableOK' /\ RefsOK' /\ NamesLive'
         /\ pc'[t] = l /\ obj'[t] = x
         /\ \A u \in Threads \ {t} : pc'[u] = pc[u] /\ obj'[u] = obj[u] /\ id'[u] = id[u]
  <1>1. /\ pc' \in [Threads -> OsemPlaces] /\ obj' \in [Threads -> Objs \cup {None}]
        /\ pc'[t] = l /\ obj'[t] = x
        /\ \A u \in Threads \ {t} : pc'[u] = pc[u] /\ obj'[u] = obj[u]
    BY OsemMoves
  <1>2. cap' = cap /\ last_free' = last_free /\ table' = table /\ refs' = refs /\ handle' = handle
    BY DEF tableVars
  <1>3. TableOK'
    BY <1>2 DEF Owned, TableOK, TableTypeOK, HandlesResolve, Searchable, ObjectAt
  <1>4. CallTypes' /\ \A u \in Threads \ {t} : id'[u] = id[u]
    <2>1. 0 \in 0 .. cap
      BY DEF Owned, TableOK, TableTypeOK
    <2>2. id' \in [Threads -> 0 .. cap] /\ \A u \in Threads \ {t} : id'[u] = id[u]
      BY <2>1 DEF Owned, CallTypes
    <2>3. QED
      BY <1>1, <1>2, <2>2 DEF Owned, CallTypes
  <1>5. RefsOK'
    <2>1. SUFFICES ASSUME NEW o \in Objs
                   PROVE  refs'[o] = (IF handle'[o] = 0 THEN 0 ELSE 1) + Cardinality(Holders(o)')
      BY DEF RefsOK
    <2>2. Holders(o)' = Holders(o)
      BY <1>1 DEF Holders, Holds
    <2>3. QED
      BY <1>2, <2>2 DEF Owned, RefsOK
  <1>6. NamesLive'
    BY <1>2 DEF Owned, CallTypes, NamesLive
  <1>7. QED
    BY <1>1, <1>3, <1>4, <1>5, <1>6

\* sys_osem_open sets an address aside.
LEMMA OpenOwned ==
  ASSUME Owned, NEW t \in Threads, pc[t] = "run", NEW o \in Objs, Free(o),
         pc' = [pc EXCEPT ![t] = "opening"], obj' = [obj EXCEPT ![t] = o],
         UNCHANGED <<tableVars, byName, sem, id>>
  PROVE  Owned'
  <1>1. id' = [id EXCEPT ![t] = IF "opening" = "run" THEN 0 ELSE @] /\ "opening" \in OsemPlaces
    BY DEF Owned, CallTypes, OsemPlaces
  <1>2. \A p \in Objs : Holds(t, p)' <=> Holds(t, p)
    <2>1. pc'[t] = "opening"
      BY DEF Owned, CallTypes
    <2>2. QED
      BY <2>1 DEF Holds
  <1>3. /\ CallTypes' /\ TableOK' /\ RefsOK' /\ NamesLive'
        /\ pc'[t] = "opening" /\ obj'[t] = o
        /\ \A u \in Threads \ {t} : pc'[u] = pc[u] /\ obj'[u] = obj[u] /\ id'[u] = id[u]
    BY <1>1, <1>2, PlainOwned
  <1>4. refs' = refs /\ handle' = handle /\ refs[o] = 0 /\ \A u \in Threads : obj[u] # o
    BY DEF tableVars, Free
  <1>5. InCall'
    BY <1>3 DEF Owned, InCall
  <1>6. Private'
    BY <1>3, <1>4 DEF Owned, Private
  <1>7. Leaving'
    BY <1>3, <1>4 DEF Owned, Leaving
  <1>8. QED
    BY <1>3, <1>5, <1>6, <1>7 DEF Owned

\* Wait, trywait, post and cancel: the call goes on with its semaphore.
LEMMA WorkOwned ==
  ASSUME Owned, NEW t \in Threads, pc[t] \in {"held", "wait"}, NEW l \in {"wait", "done"},
         pc' = [pc EXCEPT ![t] = l], \A o \in Objs : sem'[o].name = sem[o].name,
         UNCHANGED <<tableVars, byName, obj, id>>
  PROVE  Owned'
  <1>1. l \in OsemPlaces /\ l # "run" /\ obj[t] \in Objs \cup {None}
    BY DEF Owned, CallTypes, OsemPlaces
  <1>2. id' = [id EXCEPT ![t] = IF l = "run" THEN 0 ELSE @] /\ obj' = [obj EXCEPT ![t] = obj[t]]
    BY <1>1 DEF Owned, CallTypes
  <1>3. \A p \in Objs : Holds(t, p)' <=> Holds(t, p)
    <2>1. pc'[t] = l
      BY DEF Owned, CallTypes
    <2>2. QED
      BY <2>1 DEF Holds
  <1>4. /\ CallTypes' /\ TableOK' /\ RefsOK' /\ NamesLive' /\ pc'[t] = l
        /\ \A u \in Threads \ {t} : pc'[u] = pc[u]
    BY <1>1, <1>2, <1>3, PlainOwned
  <1>5. refs' = refs /\ handle' = handle
    BY DEF tableVars
  <1>6. InCall'
    BY <1>4 DEF Owned, InCall
  <1>7. Private'
    BY <1>4, <1>5 DEF Owned, Private
  <1>8. Leaving'
    BY <1>4, <1>5 DEF Owned, Leaving
  <1>9. QED
    BY <1>4, <1>6, <1>7, <1>8 DEF Owned

\* The constructor of Semaphore registers the name.
LEMMA NamingOwned ==
  ASSUME Owned, NEW t \in Threads, pc[t] = "naming", NEW n \in Names \cup {NoName}, Return(t),
         byName' = [m \in Names |-> IF m = n THEN obj[t] ELSE byName[m]],
         sem'[obj[t]].name = n, \A o \in Objs \ {obj[t]} : sem'[o].name = sem[o].name,
         UNCHANGED tableVars
  PROVE  Owned'
  <1> DEFINE p == obj[t]
  <1>1. p \in Objs /\ pc \in [Threads -> OsemPlaces] /\ obj \in [Threads -> Objs \cup {None}]
    BY DEF Owned, InCall, CallTypes
  <1>2. /\ pc' = [pc EXCEPT ![t] = "run"] /\ obj' = [obj EXCEPT ![t] = None]
        /\ id' = [id EXCEPT ![t] = 0]
    BY DEF Return
  <1>3. /\ pc' \in [Threads -> OsemPlaces] /\ obj' \in [Threads -> Objs \cup {None}]
        /\ pc'[t] = "run" /\ obj'[t] = None
        /\ \A u \in Threads \ {t} : pc'[u] = pc[u] /\ obj'[u] = obj[u]
    BY <1>2, OsemMoves DEF OsemPlaces
  <1>4. cap' = cap /\ last_free' = last_free /\ table' = table /\ refs' = refs /\ handle' = handle
    BY DEF tableVars
  <1>5. TableOK'
    BY <1>4 DEF Owned, TableOK, TableTypeOK, HandlesResolve, Searchable, ObjectAt
  <1>6. id' \in [Threads -> 0 .. cap] /\ id'[t] = 0 /\ \A u \in Threads \ {t} : id'[u] = id[u]
    <2>1. 0 \in 0 .. cap
      BY DEF Owned, TableOK, TableTypeOK
    <2>2. QED
      BY <1>2, <2>1 DEF Owned, CallTypes
  <1>7. CallTypes'
    BY <1>1, <1>3, <1>4, <1>6 DEF Owned, CallTypes
  <1>8. RefsOK'
    <2>1. SUFFICES ASSUME NEW o \in Objs
                   PROVE  refs'[o] = (IF handle'[o] = 0 THEN 0 ELSE 1) + Cardinality(Holders(o)')
      BY DEF RefsOK
    <2>2. Holders(o)' = Holders(o)
      BY <1>3 DEF Holders
    <2>3. QED
      BY <1>4, <2>2 DEF Owned, RefsOK
  <1>9. handle[p] # 0 /\ refs[p] > 0 /\ (\A m \in Names : byName[m] # p) /\ \A u \in Threads \ {t} : obj[u] # p
    <2>1. handle[p] # 0 /\ (\A m \in Names : byName[m] # p) /\ \A u \in Threads \ {t} : obj[u] # p
      BY DEF Owned, Private, Leaving
    <2>2. QED
      BY <1>1, <2>1, Referenced
  <1>10. NamesLive'
    <2>1. SUFFICES ASSUME NEW m \in Names, byName'[m] # None
                   PROVE  refs'[byName'[m]] > 0 /\ handle'[byName'[m]] # 0 /\ sem'[byName'[m]].name = m
      BY DEF NamesLive
    <2>2. CASE m = n
      BY <1>4, <1>9, <2>1, <2>2
    <2>3. CASE m # n
      <3>1. byName'[m] = byName[m] /\ byName[m] \in Objs \ {p}
        BY <1>9, <2>1, <2>3 DEF Owned, CallTypes
      <3>2. QED
        BY <1>4, <2>1, <3>1 DEF Owned, NamesLive
    <2>4. QED
      BY <2>2, <2>3
  <1>11. InCall'
    BY <1>3, <1>6 DEF Owned, InCall
  <1>12. Private'
    BY <1>3, <1>4, TableAssumptions DEF Owned, InCall, Private
  <1>13. Leaving'
    <2>1. \A u \in Threads, m \in Names : pc'[u] \in {"naming", "unnamed"} => byName'[m] # obj'[u]
      BY <1>3, <1>9 DEF Owned, Leaving
    <2>2. QED
      BY <1>3, <1>4, <1>6, <2>1 DEF Owned, Leaving
  <1>14. QED
    BY <1>5, <1>7, <1>8, <1>10, <1>11, <1>12, <1>13 DEF Owned

\* FromId takes a reference.
LEMMA FromIdOwned ==
  ASSUME Owned, NEW t \in Threads, NEW h, FromId(t, h)
  PROVE  Owned'
  <1> DEFINE p == ObjectAt(h)
  <1>1. /\ pc[t] = "run" /\ p # None /\ \A u \in Threads : ~(pc[u] = "naming" /\ obj[u] = p)
        /\ refs' = [refs EXCEPT ![p] = @ + 1] /\ UNCHANGED <<cap, last_free, table, handle>>
        /\ pc' = [pc EXCEPT ![t] = "held"] /\ obj' = [obj EXCEPT ![t] = p]
        /\ id' = [id EXCEPT ![t] = h] /\ UNCHANGED <<byName, sem>>
    BY DEF FromId, Get
  <1>2. p \in Objs /\ handle[p] = h /\ h # 0
    BY <1>1, AtHandle DEF Owned
  <1> HIDE DEF p
  <1>3. /\ pc' \in [Threads -> OsemPlaces] /\ obj' \in [Threads -> Objs \cup {None}]
        /\ pc'[t] = "held" /\ obj'[t] = p
        /\ \A u \in Threads \ {t} : pc'[u] = pc[u] /\ obj'[u] = obj[u]
    BY <1>1, <1>2, OsemMoves DEF OsemPlaces
  <1>4. refs' \in [Objs -> Int] /\ refs'[p] = refs[p] + 1 /\ \A o \in Objs \ {p} : refs'[o] = refs[o]
    BY <1>1, <1>2 DEF Owned, TableOK, TableTypeOK
  <1>5. TableOK'
    BY <1>1, <1>4, RefsKeep DEF Owned
  <1>6. h \in 0 .. cap
    BY <1>2 DEF Owned, TableOK, TableTypeOK
  <1>7. id' \in [Threads -> 0 .. cap] /\ id'[t] = h /\ \A u \in Threads \ {t} : id'[u] = id[u]
    BY <1>1, <1>6 DEF Owned, CallTypes
  <1>8. CallTypes'
    BY <1>1, <1>3, <1>7 DEF Owned, CallTypes
  <1>9. RefsOK'
    <2>1. /\ \A o \in Objs : ~Holds(t, o)
          /\ \A o \in Objs : Holds(t, o)' <=> (o = p)
      BY <1>1, <1>3 DEF Holds
    <2>2. refs[p] \in Nat
      BY <1>2, Referenced
    <2>3. QED
      BY <1>1, <1>2, <1>3, <1>4, <2>1, <2>2, RefsStep DEF Holds
  <1>10. refs[p] > 0
    BY <1>2, Referenced
  <1>11. NamesLive'
    <2>1. \A o \in Objs : refs[o] > 0 => refs'[o] > 0
      BY <1>2, <1>4, <1>10, Referenced
    <2>2. QED
      BY <1>1, <2>1 DEF Owned, CallTypes, NamesLive
  <1>12. InCall'
    BY <1>2, <1>3, <1>7 DEF Owned, InCall
  <1>13. Private'
    <2>1. \A u \in Threads : pc[u] \in {"opening", "naming", "destroy"} => u # t /\ obj[u] # p
      BY <1>1, <1>10 DEF Owned, Private
    <2>2. \A u \in Threads : pc[u] # "run" => obj[u] \in Objs
      BY DEF Owned, InCall
    <2>3. QED
      BY <1>1, <1>3, <1>4, <2>1, <2>2 DEF Owned, Private
  <1>14. Leaving'
    BY <1>1, <1>3, <1>7 DEF Owned, Leaving
  <1>15. QED
    BY <1>5, <1>8, <1>9, <1>11, <1>12, <1>13, <1>14 DEF Owned

\* The first half of a deletion.
LEMMA DeleteNameOwned ==
  ASSUME Owned, NEW t \in Threads, DeleteName(t)
  PROVE  Owned'
  <1> DEFINE p == obj[t]
  <1>1. /\ pc[t] = "held" /\ ObjectAt(id[t]) = p
        /\ \A u \in Threads \ {t} : ~(pc[u] = "unnamed" /\ obj[u] = p)
        /\ byName' = [n \in Names |-> IF byName[n] = p THEN None ELSE byName[n]]
        /\ pc' = [pc EXCEPT ![t] = "unnamed"] /\ UNCHANGED <<tableVars, sem, obj, id>>
    BY DEF DeleteName, SoleDeleter, Unregister
  <1>2. p \in Objs /\ p # None
    BY <1>1, TableAssumptions DEF Owned, InCall
  <1>3. handle[p] = id[t] /\ id[t] # 0
    BY <1>1, <1>2, AtHandle DEF Owned
  <1>4. /\ pc' \in [Threads -> OsemPlaces] /\ pc'[t] = "unnamed"
        /\ \A u \in Threads \ {t} : pc'[u] = pc[u]
    BY <1>1 DEF Owned, CallTypes, OsemPlaces
  <1>5. cap' = cap /\ last_free' = last_free /\ table' = table /\ refs' = refs /\ handle' = handle
    BY <1>1 DEF tableVars
  <1>6. TableOK'
    BY <1>5 DEF Owned, TableOK, TableTypeOK, HandlesResolve, Searchable, ObjectAt
  <1>7. CallTypes'
    BY <1>1, <1>4, <1>5 DEF Owned, CallTypes
  <1>8. RefsOK'
    <2>1. SUFFICES ASSUME NEW o \in Objs
                   PROVE  refs'[o] = (IF handle'[o] = 0 THEN 0 ELSE 1) + Cardinality(Holders(o)')
      BY DEF RefsOK
    <2>2. Holders(o)' = Holders(o)
      BY <1>1, <1>4 DEF Holders
    <2>3. QED
      BY <1>5, <2>2 DEF Owned, RefsOK
  <1>9. \A n \in Names : byName'[n] # p /\ (byName'[n] = byName[n] \/ byName'[n] = None)
    BY <1>1, <1>2
  <1>10. NamesLive'
    BY <1>1, <1>5, <1>9 DEF Owned, NamesLive
  <1>11. InCall' /\ Private'
    BY <1>1, <1>4, <1>5 DEF Owned, InCall, Private
  <1>12. Leaving'
    <2>1. \A u \in Threads, n \in Names : pc'[u] \in {"naming", "unnamed"} => byName'[n] # obj[u]
      <3>1. SUFFICES ASSUME NEW u \in Threads, NEW n \in Names, pc'[u] \in {"naming", "unnamed"}
                     PROVE  byName'[n] # obj[u]
        OBVIOUS
      <3>2. obj[u] # None
        BY <1>4, <1>1, <3>1, TableAssumptions DEF Owned, InCall
      <3>3. QED
        BY <1>4, <1>9, <3>1, <3>2 DEF Owned, Leaving
    <2>2. QED
      BY <1>1, <1>3, <1>4, <1>5, <2>1 DEF Owned, Leaving
  <1>13. QED
    BY <1>6, <1>7, <1>8, <1>10, <1>11, <1>12 DEF Owned

\* The second half: the handle.
LEMMA DeleteHandleOwned ==
  ASSUME Owned, NEW t \in Threads, DeleteHandle(t)
  PROVE  Owned'
  <1> DEFINE p == obj[t]
  <1>1. /\ pc[t] = "unnamed" /\ Release(id[t]) /\ pc' = [pc EXCEPT ![t] = "done"]
        /\ UNCHANGED <<byName, sem, obj, id>>
    BY DEF DeleteHandle
  <1>2. p \in Objs /\ handle[p] = id[t] /\ id[t] # 0 /\ \A n \in Names : byName[n] # p
    BY <1>1 DEF Owned, InCall, Leaving
  <1>3. /\ TableOK' /\ cap' = cap
        /\ handle' = [handle EXCEPT ![p] = 0] /\ refs' = [refs EXCEPT ![p] = @ - 1]
    BY <1>1, <1>2, ReleaseKeeps DEF Owned
  <1>4. /\ handle'[p] = 0 /\ refs'[p] = refs[p] - 1
        /\ \A o \in Objs \ {p} : handle'[o] = handle[o] /\ refs'[o] = refs[o]
    BY <1>2, <1>3 DEF Owned, TableOK, TableTypeOK
  <1>5. /\ pc' \in [Threads -> OsemPlaces] /\ pc'[t] = "done"
        /\ \A u \in Threads \ {t} : pc'[u] = pc[u]
    BY <1>1 DEF Owned, CallTypes, OsemPlaces
  <1>6. CallTypes'
    BY <1>1, <1>3, <1>5 DEF Owned, CallTypes
  <1>7. RefsOK'
    <2>1. \A o \in Objs : Holds(t, o)' <=> Holds(t, o)
      BY <1>1, <1>5 DEF Holds
    <2>2. refs[p] \in Nat
      BY <1>2, Referenced
    <2>3. QED
      BY <1>1, <1>2, <1>4, <1>5, <2>1, <2>2, RefsStep DEF Holds
  <1>8. NamesLive'
    <2>1. \A n \in Names : byName[n] # None => byName[n] \in Objs \ {p}
      BY <1>2 DEF Owned, CallTypes
    <2>2. QED
      BY <1>1, <1>4, <2>1 DEF Owned, NamesLive
  <1>9. InCall'
    BY <1>1, <1>5 DEF Owned, InCall
  <1>10. Private'
    <2>1. \A u \in Threads : pc[u] \in {"opening", "naming", "destroy"} => obj[u] \in Objs \ {p}
      BY <1>1 DEF Owned, InCall, Private
    <2>2. QED
      BY <1>1, <1>4, <1>5, <2>1 DEF Owned, Private
  <1>11. Leaving'
    <2>1. \A u \in Threads \ {t} : pc[u] = "unnamed" => obj[u] \in Objs \ {p}
      BY <1>1 DEF Owned, InCall, Leaving
    <2>2. QED
      BY <1>1, <1>4, <1>5, <2>1 DEF Owned, Leaving
  <1>12. QED
    BY <1>3, <1>6, <1>7, <1>8, <1>9, <1>10, <1>11 DEF Owned

\* A call drops its reference; the last one goes on to the destructor.
LEMMA DropOwned ==
  ASSUME Owned, NEW t \in Threads, Drop(t)
  PROVE  Owned'
  <1> DEFINE p == obj[t]
             c == Cardinality(Holders(p))
  <1>1. /\ pc[t] = "done" /\ refs' = [refs EXCEPT ![p] = @ - 1]
        /\ UNCHANGED <<cap, last_free, table, handle, byName, sem>>
    BY DEF Drop, DropRef
  <1>2. p \in Objs /\ p # None
    BY <1>1, TableAssumptions DEF Owned, InCall
  <1>3. refs' \in [Objs -> Int] /\ refs'[p] = refs[p] - 1 /\ \A o \in Objs \ {p} : refs'[o] = refs[o]
    BY <1>1, <1>2 DEF Owned, TableOK, TableTypeOK
  <1>4. TableOK'
    BY <1>1, <1>3, RefsKeep DEF Owned
  <1>5. c \in Nat \ {0} /\ (c = 1 => Holders(p) = {t})
    <2>1. t \in Holders(p)
      BY <1>1 DEF Holders
    <2>2. IsFiniteSet(Holders(p)) /\ c \in Nat /\ (c = 0 <=> Holders(p) = {})
      BY HoldersFinite
    <2>3. c = 1 => \E x : Holders(p) = {x}
      BY <2>2, FS_Singleton
    <2>4. QED
      BY <2>1, <2>2, <2>3
  <1>6. refs[p] = (IF handle[p] = 0 THEN 0 ELSE 1) + c
    BY <1>2 DEF Owned, RefsOK
  <1> HIDE DEF c
  <1>7. NamesLive'
    <2>1. handle[p] # 0 => refs'[p] > 0
      BY <1>3, <1>5, <1>6
    <2>2. \A n \in Names : byName[n] # None => byName[n] \in Objs
      BY DEF Owned, CallTypes
    <2>3. QED
      BY <1>1, <1>3, <2>1, <2>2 DEF Owned, NamesLive
  <1>8. /\ obj \in [Threads -> Objs \cup {None}] /\ pc \in [Threads -> OsemPlaces]
        /\ id \in [Threads -> 0 .. cap] /\ 0 \in 0 .. cap
    BY DEF Owned, CallTypes, TableOK, TableTypeOK
  <1>9. CASE refs[p] = 1
    <2>1. pc' = [pc EXCEPT ![t] = "destroy"] /\ UNCHANGED <<obj, id>>
      BY <1>9 DEF Drop
    <2>2. /\ pc' \in [Threads -> OsemPlaces] /\ pc'[t] = "destroy"
          /\ \A u \in Threads \ {t} : pc'[u] = pc[u]
      BY <1>8, <2>1 DEF OsemPlaces
    <2>3. handle[p] = 0 /\ Holders(p) = {t}
      BY <1>5, <1>6, <1>9
    <2>4. RefsOK'
      <3>1. /\ Holds(t, p) /\ \A o \in Objs : ~Holds(t, o)'
            /\ \A o \in Objs \ {p} : ~Holds(t, o)
        BY <1>1, <2>1, <2>2 DEF Holds
      <3>2. QED
        BY <1>1, <1>2, <1>3, <1>9, <2>1, <2>2, <2>3, <3>1, RefsStep DEF Holds
    <2>5. InCall' /\ CallTypes'
      BY <1>1, <1>2, <2>1, <2>2 DEF Owned, InCall, CallTypes
    <2>6. \A u \in Threads \ {t} : obj[u] # p
      <3>1. SUFFICES ASSUME NEW u \in Threads \ {t}, obj[u] = p PROVE FALSE
        OBVIOUS
      <3>2. pc[u] \notin {"held", "wait", "unnamed", "done"}
        BY <2>3, <3>1 DEF Holders
      <3>3. pc[u] \notin {"opening", "naming", "destroy"}
        BY <3>1 DEF Owned, Private
      <3>4. pc[u] # "run"
        BY <1>2, <3>1 DEF Owned, InCall
      <3>5. QED
        BY <1>8, <3>2, <3>3, <3>4 DEF OsemPlaces
    <2>7. Private'
      <3>1. \A u \in Threads : pc[u] # "run" => obj[u] \in Objs
        BY DEF Owned, InCall
      <3>2. QED
        BY <1>1, <1>3, <1>9, <2>1, <2>2, <2>6, <3>1 DEF Owned, Private
    <2>8. Leaving'
      BY <1>1, <2>1, <2>2 DEF Owned, Leaving
    <2>9. QED
      BY <1>4, <1>7, <2>4, <2>5, <2>7, <2>8 DEF Owned
  <1>10. CASE refs[p] # 1
    <2>1. pc' = [pc EXCEPT ![t] = "run"] /\ obj' = [obj EXCEPT ![t] = None] /\ id' = [id EXCEPT ![t] = 0]
      BY <1>10 DEF Drop, Return
    <2>2. /\ pc' \in [Threads -> OsemPlaces] /\ pc'[t] = "run"
          /\ obj' \in [Threads -> Objs \cup {None}] /\ obj'[t] = None
          /\ id' \in [Threads -> 0 .. cap] /\ id'[t] = 0
          /\ \A u \in Threads \ {t} : pc'[u] = pc[u] /\ obj'[u] = obj[u] /\ id'[u] = id[u]
      BY <1>8, <2>1 DEF OsemPlaces
    <2>3. RefsOK'
      <3>1. /\ Holds(t, p) /\ \A o \in Objs : ~Holds(t, o)'
            /\ \A o \in Objs \ {p} : ~Holds(t, o)
        BY <1>1, <2>2 DEF Holds
      <3>2. refs[p] \in Nat
        BY <1>2, Referenced
      <3>3. QED
        BY <1>1, <1>2, <1>3, <2>2, <3>1, <3>2, RefsStep DEF Holds
    <2>4. InCall' /\ CallTypes'
      BY <1>1, <2>2 DEF Owned, InCall, CallTypes
    <2>5. Private'
      <3>1. \A u \in Threads : pc[u] # "run" => obj[u] \in Objs
        BY DEF Owned, InCall
      <3>2. \A u \in Threads \ {t} : pc[u] \in {"opening", "destroy"} => obj[u] # p
        BY <1>1 DEF Owned, Private
      <3>3. QED
        BY <1>1, <1>3, <2>2, <3>1, <3>2, TableAssumptions DEF Owned, Private
    <2>6. Leaving'
      BY <1>1, <2>2 DEF Owned, Leaving
    <2>7. QED
      BY <1>4, <1>7, <2>3, <2>4, <2>5, <2>6 DEF Owned
  <1>11. QED
    BY <1>9, <1>10

\* Semaphore::~Semaphore finds its name already gone.
LEMMA DestroyOwned ==
  ASSUME Owned, NEW t \in Threads, Destroy(t)
  PROVE  Owned' /\ byName' = byName
  <1> DEFINE p == obj[t]
  <1>1. /\ pc[t] = "destroy" /\ byName' = [n \in Names |-> IF byName[n] = p THEN None ELSE byName[n]]
        /\ sem' = [sem EXCEPT ![p] = Blank] /\ UNCHANGED tableVars
        /\ pc' = [pc EXCEPT ![t] = "run"] /\ obj' = [obj EXCEPT ![t] = None] /\ id' = [id EXCEPT ![t] = 0]
    BY DEF Destroy, Unregister, Return
  <1>2. p \in Objs /\ refs[p] = 0
    BY <1>1 DEF Owned, InCall, Private
  <1>3. \A n \in Names : byName[n] # p
    BY <1>2, Referenced
  <1>4. byName' = byName
    BY <1>1, <1>3 DEF Owned, CallTypes
  <1>5. "run" \in OsemPlaces /\ id' = [id EXCEPT ![t] = IF "run" = "run" THEN 0 ELSE @]
    BY <1>1 DEF OsemPlaces
  <1>6. /\ CallTypes' /\ TableOK' /\ RefsOK'
        /\ pc'[t] = "run" /\ obj'[t] = None
        /\ \A u \in Threads \ {t} : pc'[u] = pc[u] /\ obj'[u] = obj[u] /\ id'[u] = id[u]
    <2>1. /\ pc' \in [Threads -> OsemPlaces] /\ obj' \in [Threads -> Objs \cup {None}]
          /\ pc'[t] = "run" /\ obj'[t] = None
          /\ \A u \in Threads \ {t} : pc'[u] = pc[u] /\ obj'[u] = obj[u]
      BY <1>1, <1>5, OsemMoves
    <2>2. cap' = cap /\ last_free' = last_free /\ table' = table /\ refs' = refs /\ handle' = handle
      BY <1>1 DEF tableVars
    <2>3. TableOK'
      BY <2>2 DEF Owned, TableOK, TableTypeOK, HandlesResolve, Searchable, ObjectAt
    <2>4. 0 \in 0 .. cap
      BY DEF Owned, TableOK, TableTypeOK
    <2>5. id' \in [Threads -> 0 .. cap] /\ \A u \in Threads \ {t} : id'[u] = id[u]
      BY <1>1, <2>4 DEF Owned, CallTypes
    <2>6. CallTypes'
      BY <1>4, <2>1, <2>2, <2>5 DEF Owned, CallTypes
    <2>7. RefsOK'
      <3>1. SUFFICES ASSUME NEW o \in Objs
                     PROVE  refs'[o] = (IF handle'[o] = 0 THEN 0 ELSE 1) + Cardinality(Holders(o)')
        BY DEF RefsOK
      <3>2. Holders(o)' = Holders(o)
        BY <1>1, <2>1 DEF Holders
      <3>3. QED
        BY <2>2, <3>2 DEF Owned, RefsOK
    <2>8. QED
      BY <2>1, <2>3, <2>5, <2>6, <2>7
  <1>7. refs' = refs /\ handle' = handle /\ id'[t] = 0
    BY <1>1 DEF tableVars, Owned, CallTypes
  <1>8. NamesLive'
    <2>1. \A n \in Names : byName[n] # None => sem'[byName[n]] = sem[byName[n]]
      BY <1>1, <1>3
    <2>2. QED
      BY <1>4, <1>7, <2>1 DEF Owned, NamesLive
  <1>9. InCall'
    BY <1>6, <1>7 DEF Owned, InCall
  <1>10. Private'
    BY <1>6, <1>7, TableAssumptions DEF Owned, InCall, Private
  <1>11. Leaving'
    BY <1>4, <1>6, <1>7 DEF Owned, Leaving
  <1>12. QED
    BY <1>4, <1>6, <1>8, <1>9, <1>10, <1>11 DEF Owned

\* The start of the first session, and of the next one.
LEMMA FreshOwned ==
  /\ Init => Owned
  /\ Owned /\ NextSession => Owned'
  <1>1. Init => Owned
    <2>1. SUFFICES ASSUME Init PROVE Owned
      OBVIOUS
    <2>2. /\ TableInit /\ cap = 0 /\ \A t \in Threads : pc[t] = "run" /\ obj[t] = None /\ id[t] = 0
          /\ \A n \in Names : byName[n] = None
      BY <2>1 DEF Init, TableInit
    <2>3. TableOK
      BY <2>2, EmptyTable
    <2>4. CallTypes
      <3>1. 0 \in 0 .. 0
        OBVIOUS
      <3>2. QED
        BY <2>1, <2>2, <3>1 DEF Init, CallTypes, OsemPlaces
    <2>5. RefsOK
      <3>1. \A o \in Objs : Holders(o) = {}
        BY <2>2 DEF Holders
      <3>2. QED
        BY <2>2, <3>1, FS_EmptySet DEF RefsOK, TableInit
    <2>6. NamesLive /\ InCall /\ Private /\ Leaving
      BY <2>2 DEF NamesLive, InCall, Private, Leaving
    <2>7. QED
      BY <2>3, <2>4, <2>5, <2>6 DEF Owned
  <1>2. Owned /\ NextSession => Owned'
    <2>1. SUFFICES ASSUME Owned, NextSession PROVE Owned'
      OBVIOUS
    <2>2. /\ Reset /\ cap' = 0 /\ UNCHANGED <<pc, obj, id>> /\ byName' = [n \in Names |-> None]
          /\ \A t \in Threads : pc[t] = "run" /\ obj[t] = None /\ id[t] = 0
      BY <2>1 DEF NextSession, Reset, threadVars, Owned, InCall
    <2>3. TableOK'
      BY <2>2, EmptyTable
    <2>4. CallTypes'
      <3>1. 0 \in 0 .. 0
        OBVIOUS
      <3>2. QED
        BY <2>1, <2>2, <3>1 DEF Owned, CallTypes
    <2>5. RefsOK'
      <3>1. \A o \in Objs : Holders(o)' = {}
        BY <2>2 DEF Holders
      <3>2. \A o \in Objs : refs'[o] = 0 /\ handle'[o] = 0
        BY <2>2 DEF Reset
      <3>3. QED
        BY <3>1, <3>2, FS_EmptySet DEF RefsOK
    <2>6. NamesLive' /\ InCall' /\ Private' /\ Leaving'
      BY <2>2 DEF NamesLive, InCall, Private, Leaving
    <2>7. QED
      BY <2>3, <2>4, <2>5, <2>6 DEF Owned
  <1>3. QED
    BY <1>1, <1>2

-----------------------------------------------------------------------------
(* The fields of the semaphores.  CountInRange needs to know that a        *)
(* semaphore starts, and is set back by cancel, within its ceiling (Sound) *)
(* and that a sleeper asks for at least one unit; waiters_ stays exact     *)
(* because nobody sleeps on a semaphore that is being made or destroyed.   *)

Sema == [name : Names \cup {NoName}, count : Ints, max : Ints, init : Ints, waiters : Nat]

Given == Shapes \cup {<<0, 0>>, <<1, 1>>, <<0, IntMax>>}

Args == [name : Names \cup {NoName}, shape : Given, need : Int, timed : BOOLEAN]

\* CountInRange of one semaphore, and its initial count.
Sound(s) ==
  /\ 0 <= s.init /\ (Capped(s) => s.init <= s.max)
  /\ Capped(s) /\ (\A n \in Amounts : s.max + n <= IntMax) => 0 <= s.count /\ s.count <= s.max

Asleep(t, o) == pc[t] = "wait" /\ obj[t] = o

Sleepers(o) == {t \in Threads : pc[t] = "wait" /\ obj[t] = o}

Counted ==
  /\ sem \in [Objs -> Sema] /\ arg \in [Threads -> Args] /\ stopping \in BOOLEAN
  /\ \A o \in Objs : Sound(sem[o])
  /\ \A o \in Objs : sem[o].waiters = Cardinality(Sleepers(o))
  /\ \A t \in Threads : pc[t] = "wait" => arg[t].need > 0

\* What the guest and open give a new semaphore.
LEMMA GivenShape ==
  ASSUME NEW x \in Given
  PROVE  x[1] \in Ints /\ x[2] \in Ints /\ 0 <= x[1] /\ (x[2] > 0 => x[1] <= x[2])
  <1>1. IntMax \in Nat /\ IntMax >= 1 /\ IntMax \in Ints /\ 0 \in Ints /\ 1 \in Ints
    BY SemaphoreAssumptions DEF IntMax, Ints
  <1>2. CASE x \in Shapes
    BY <1>2, SemaphoreAssumptions
  <1>3. CASE x \in {<<0, 0>>, <<1, 1>>, <<0, IntMax>>}
    BY <1>1, <1>3
  <1>4. QED
    BY <1>2, <1>3 DEF Given

\* A cleared semaphore and the argument of no call are in order.
LEMMA BlankSound == Blank \in Sema /\ Sound(Blank) /\ NoArg \in Args
  <1>1. 0 \in Ints
    BY SemaphoreAssumptions DEF IntMax, Ints
  <1>2. QED
    BY <1>1 DEF Blank, NoArg, Sema, Args, Given, Sound, Capped

\* int addition stays in the range, and is exact where the sum fits.
LEMMA PlusFits ==
  ASSUME NEW a \in Ints, NEW b \in Ints
  PROVE  Plus(a, b) \in Ints /\ (a + b \in Ints => Plus(a, b) = a + b)
  <1> DEFINE H == IntHalf
  <1>1. H \in Nat /\ H > 1 /\ a \in Int /\ b \in Int
    BY SemaphoreAssumptions DEF Ints, IntMax
  <1>2. \A x \in Int, m \in Nat \ {0} : x % m \in 0 .. m - 1
    OBVIOUS
  <1>3. 2 * H \in Nat \ {0} /\ a + b + H \in Int
    BY <1>1
  <1>4. (a + b + H) % (2 * H) \in 0 .. 2 * H - 1
    BY <1>2, <1>3
  <1>5. Plus(a, b) \in Ints
    BY <1>1, <1>4 DEF Plus, Ints, IntMax
  <1>6. \A x \in Int, m \in Nat \ {0} : x \in 0 .. m - 1 => x % m = x
    OBVIOUS
  <1>7. ASSUME a + b \in Ints PROVE Plus(a, b) = a + b
    <2>1. a + b + H \in 0 .. 2 * H - 1
      BY <1>1, <1>7 DEF Ints, IntMax
    <2>2. (a + b + H) % (2 * H) = a + b + H
      BY <1>3, <1>6, <2>1
    <2>3. QED
      BY <1>1, <2>2 DEF Plus
  <1>8. QED
    BY <1>5, <1>7

\* The sleepers of a semaphore when one thread takes a step.
LEMMA SleepersMove ==
  ASSUME NEW t \in Threads, \A u \in Threads \ {t} : pc'[u] = pc[u] /\ obj'[u] = obj[u], NEW o
  PROVE  /\ Cardinality(Sleepers(o)) \in Nat /\ Cardinality(Sleepers(o)') \in Nat
         /\ Cardinality(Sleepers(o)') = Cardinality(Sleepers(o)) + (IF Asleep(t, o)' THEN 1 ELSE 0)
                                                                 - (IF Asleep(t, o) THEN 1 ELSE 0)
  <1> DEFINE A == Sleepers(o)
             B == Sleepers(o)'
  <1>1. IsFiniteSet(A)
    <2>1. IsFiniteSet(Threads) /\ A \subseteq Threads
      BY SemaphoreAssumptions DEF Sleepers
    <2>2. QED
      BY <2>1, FS_Subset
  <1>2. A \ {t} = B \ {t}
    BY DEF Sleepers
  <1>3. (t \in A <=> Asleep(t, o)) /\ (t \in B <=> Asleep(t, o)')
    BY DEF Sleepers, Asleep
  <1> HIDE DEF A, B
  <1>4. /\ Cardinality(A) \in Nat /\ Cardinality(B) \in Nat
        /\ Cardinality(B) = Cardinality(A) + (IF t \in B THEN 1 ELSE 0) - (IF t \in A THEN 1 ELSE 0)
    BY <1>1, <1>2, Recount
  <1>5. Cardinality(B) = Cardinality(A) + (IF Asleep(t, o)' THEN 1 ELSE 0) - (IF Asleep(t, o) THEN 1 ELSE 0)
    BY <1>3, <1>4
  <1>6. QED
    BY <1>4, <1>5 DEF A, B

\* A step of t that leaves the semaphores alone.
LEMMA SteadyCounted ==
  ASSUME Counted, NEW t \in Threads, \A u \in Threads \ {t} : pc'[u] = pc[u] /\ obj'[u] = obj[u],
         pc[t] # "wait", pc'[t] # "wait", UNCHANGED <<sem, stopping>>,
         NEW a \in Args, arg' = [arg EXCEPT ![t] = a]
  PROVE  Counted'
  <1>1. \A o \in Objs : Sleepers(o)' = Sleepers(o)
    BY DEF Sleepers
  <1>2. arg' \in [Threads -> Args] /\ \A u \in Threads \ {t} : arg'[u] = arg[u]
    BY DEF Counted
  <1>3. QED
    BY <1>1, <1>2 DEF Counted, Sound, Capped

\* A step of t that sets the fields of the semaphore p.
LEMMA FieldsCounted ==
  ASSUME Counted, NEW t \in Threads, \A u \in Threads \ {t} : pc'[u] = pc[u] /\ obj'[u] = obj[u],
         NEW p \in Objs, NEW s \in Sema, sem' = [sem EXCEPT ![p] = s], Sound(s),
         s.waiters = sem[p].waiters + (IF Asleep(t, p)' THEN 1 ELSE 0) - (IF Asleep(t, p) THEN 1 ELSE 0),
         \A o \in Objs \ {p} : Asleep(t, o)' <=> Asleep(t, o),
         NEW a \in Args, arg' = [arg EXCEPT ![t] = a], pc'[t] = "wait" => a.need > 0,
         stopping' = stopping
  PROVE  Counted'
  <1>1. /\ sem' \in [Objs -> Sema] /\ sem'[p] = s /\ \A o \in Objs \ {p} : sem'[o] = sem[o]
        /\ arg' \in [Threads -> Args] /\ arg'[t] = a /\ \A u \in Threads \ {t} : arg'[u] = arg[u]
    BY DEF Counted
  <1>2. ASSUME NEW o \in Objs PROVE sem'[o].waiters = Cardinality(Sleepers(o)')
    <2> DEFINE c == Cardinality(Sleepers(o))
               d == Cardinality(Sleepers(o)')
    <2>1. /\ c \in Nat /\ d \in Nat
          /\ d = c + (IF Asleep(t, o)' THEN 1 ELSE 0) - (IF Asleep(t, o) THEN 1 ELSE 0)
      BY SleepersMove
    <2>2. sem[o].waiters = c
      BY DEF Counted
    <2> HIDE DEF c, d
    <2>3. CASE o = p
      <3>1. sem'[o].waiters = c + (IF Asleep(t, o)' THEN 1 ELSE 0) - (IF Asleep(t, o) THEN 1 ELSE 0)
        BY <1>1, <2>2, <2>3 DEF Asleep
      <3>2. QED
        BY <2>1, <3>1 DEF d
    <2>4. CASE o # p
      <3>1. (Asleep(t, o)' <=> Asleep(t, o)) /\ sem'[o] = sem[o]
        BY <1>1, <2>4
      <3>2. d = c
        BY <2>1, <3>1
      <3>3. QED
        BY <2>2, <3>1, <3>2 DEF d
    <2>5. QED
      BY <2>3, <2>4
  <1>3. \A o \in Objs : Sound(sem'[o])
    BY <1>1 DEF Counted
  <1>4. \A u \in Threads : pc'[u] = "wait" => arg'[u].need > 0
    BY <1>1 DEF Counted
  <1>5. QED
    BY <1>1, <1>2, <1>3, <1>4 DEF Counted, Sound, Capped

\* A call leaves its semaphore with another count.
LEMMA FinishInv ==
  ASSUME Owned, Counted, NEW t \in Threads, pc[t] = "held", NEW c \in Ints, Finish(t, c),
         LET s == sem[obj[t]] IN
           Capped(s) /\ (\A n \in Amounts : s.max + n <= IntMax) => 0 <= c /\ c <= s.max
  PROVE  Owned' /\ Counted'
  <1> DEFINE p == obj[t]
             s == [sem[p] EXCEPT !.count = c]
  <1>1. /\ sem' = [sem EXCEPT ![p] = s] /\ pc' = [pc EXCEPT ![t] = "done"]
        /\ UNCHANGED <<tableVars, byName, obj, id, arg, stopping>>
    BY DEF Finish
  <1>2. p \in Objs /\ sem[p] \in Sema /\ Sound(sem[p]) /\ arg[t] \in Args
    BY DEF Owned, InCall, Counted
  <1>3. s \in Sema /\ s.name = sem[p].name /\ s.waiters = sem[p].waiters /\ s.count = c
        /\ s.max = sem[p].max /\ s.init = sem[p].init
    BY <1>2 DEF Sema
  <1>4. Sound(s)
    BY <1>2, <1>3 DEF Sound, Capped
  <1> HIDE DEF s
  <1>5. \A o \in Objs : sem'[o].name = sem[o].name
    BY <1>1, <1>2, <1>3 DEF Counted
  <1>6. Owned'
    BY <1>1, <1>5, WorkOwned
  <1>7. pc'[t] = "done" /\ \A u \in Threads \ {t} : pc'[u] = pc[u] /\ obj'[u] = obj[u]
    BY <1>1 DEF Owned, CallTypes
  <1>8. \A o : ~Asleep(t, o) /\ ~Asleep(t, o)'
    BY <1>7 DEF Asleep
  <1>9. arg' = [arg EXCEPT ![t] = arg[t]]
    BY <1>1 DEF Counted
  <1>10. s.waiters = sem[p].waiters + 0 - 0
    BY <1>2, <1>3 DEF Sema
  <1>11. Counted'
    BY <1>1, <1>2, <1>3, <1>4, <1>7, <1>8, <1>9, <1>10, FieldsCounted
  <1>12. QED
    BY <1>6, <1>11

\* Semaphore::Wait.
LEMMA WaitInv ==
  ASSUME Owned, Counted, NEW t \in Threads, NEW n \in Amounts, NEW tm \in BOOLEAN, Wait(t, n, tm)
  PROVE  Owned' /\ Counted'
  <1> DEFINE p == obj[t]
             q == sem[p]
  <1>1. pc[t] = "held" /\ p \in Objs
    BY DEF Wait, Owned, InCall
  <1>2. /\ q \in Sema /\ Sound(q) /\ n \in Ints /\ n \in Int /\ q.count \in Ints /\ q.count \in Int
        /\ q.waiters \in Nat /\ q.max \in Int
    BY <1>1, SemaphoreAssumptions DEF Counted, Sema, Ints, IntMax
  <1>3. CASE n <= 0 \/ (Capped(q) /\ n > q.max)
    <2>1. Finish(t, q.count)
      BY <1>3 DEF Wait
    <2>2. QED
      BY <1>1, <1>2, <2>1, FinishInv DEF Sound
  <1>4. CASE ~(n <= 0 \/ (Capped(q) /\ n > q.max)) /\ q.count >= n
    <2>1. Finish(t, q.count - n)
      BY <1>4 DEF Wait
    <2>2. q.count - n \in Ints /\ 0 <= q.count - n /\ q.count - n <= q.count
      BY <1>2, <1>4, SemaphoreAssumptions DEF Ints, IntMax
    <2>3. Capped(q) /\ (\A m \in Amounts : q.max + m <= IntMax) => 0 <= q.count - n /\ q.count - n <= q.max
      <3>1. Capped(q) /\ (\A m \in Amounts : q.max + m <= IntMax) => q.count <= q.max
        BY <1>2 DEF Sound
      <3>2. QED
        BY <1>2, <2>2, <3>1
    <2>4. QED
      BY <1>1, <2>1, <2>2, <2>3, FinishInv
  <1>5. CASE ~(n <= 0 \/ (Capped(q) /\ n > q.max)) /\ ~(q.count >= n)
    <2> DEFINE s == [q EXCEPT !.waiters = @ + 1]
               b == tm \/ q.name \in AbsentChannels
               a == [arg[t] EXCEPT !.need = n, !.timed = b]
    <2>1. /\ sem' = [sem EXCEPT ![p] = s] /\ pc' = [pc EXCEPT ![t] = "wait"]
          /\ arg' = [arg EXCEPT ![t].need = n, ![t].timed = b]
          /\ UNCHANGED <<tableVars, byName, obj, id, stopping>>
      BY <1>5 DEF Wait
    <2>2. b \in BOOLEAN
      OBVIOUS
    <2> HIDE DEF b
    <2>3. a \in Args /\ a.need = n
      BY <1>2, <2>2 DEF Counted, Args
    <2>4. arg' = [arg EXCEPT ![t] = a]
      BY <2>1 DEF Counted
    <2>5. /\ s \in Sema /\ s.waiters = q.waiters + 1 /\ s.name = q.name
          /\ s.count = q.count /\ s.max = q.max /\ s.init = q.init
      BY <1>2 DEF Sema
    <2>6. Sound(s)
      BY <1>2, <2>5 DEF Sound, Capped
    <2> HIDE DEF s, a
    <2>7. \A o \in Objs : sem'[o].name = sem[o].name
      BY <1>1, <2>1, <2>5 DEF Counted
    <2>8. Owned'
      BY <1>1, <2>1, <2>7, WorkOwned
    <2>9. pc'[t] = "wait" /\ obj'[t] = p /\ \A u \in Threads \ {t} : pc'[u] = pc[u] /\ obj'[u] = obj[u]
      BY <2>1 DEF Owned, CallTypes
    <2>10. /\ \A o : ~Asleep(t, o)
           /\ Asleep(t, p)' /\ \A o \in Objs \ {p} : ~Asleep(t, o)'
      BY <1>1, <2>9 DEF Asleep
    <2>11. s.waiters = q.waiters + 1 - 0 /\ a.need > 0
      BY <1>2, <1>5, <2>3, <2>5
    <2>12. Counted'
      BY <1>1, <2>1, <2>3, <2>4, <2>5, <2>6, <2>9, <2>10, <2>11, FieldsCounted DEF Asleep
    <2>13. QED
      BY <2>8, <2>12
  <1>6. QED
    BY <1>3, <1>4, <1>5

\* A sleeper leaves with what its test allows it.
LEMMA LeaveInv ==
  ASSUME Owned, Counted, NEW t \in Threads, pc[t] = "wait", NEW k \in Int, Leave(t, k),
         k = 0 \/ (0 < k /\ k <= sem[obj[t]].count)
  PROVE  Owned' /\ Counted'
  <1> DEFINE p == obj[t]
             q == sem[p]
             s == [q EXCEPT !.count = @ - k, !.waiters = @ - 1]
  <1>1. /\ sem' = [sem EXCEPT ![p].count = @ - k, ![p].waiters = @ - 1] /\ pc' = [pc EXCEPT ![t] = "done"]
        /\ arg' = [arg EXCEPT ![t] = NoArg]
        /\ UNCHANGED <<tableVars, byName, obj, id, stopping>>
    BY DEF Leave
  <1>2. p \in Objs /\ q \in Sema /\ Sound(q)
    BY DEF Owned, InCall, Counted
  <1>3. /\ q.count \in Ints /\ q.count \in Int /\ q.waiters \in Nat /\ q.max \in Int
    BY <1>2 DEF Sema, Ints
  <1>4. q.waiters >= 1
    <2> DEFINE c == Cardinality(Sleepers(p))
    <2>1. q.waiters = c
      BY <1>2 DEF Counted
    <2>2. IsFiniteSet(Sleepers(p)) /\ t \in Sleepers(p)
      <3>1. IsFiniteSet(Threads) /\ Sleepers(p) \subseteq Threads /\ t \in Sleepers(p)
        BY SemaphoreAssumptions DEF Sleepers
      <3>2. QED
        BY <3>1, FS_Subset
    <2>3. c \in Nat /\ c # 0
      BY <2>2, FS_CardinalityType, FS_EmptySet
    <2> HIDE DEF c
    <2>4. QED
      BY <2>1, <2>3
  <1>5. sem' = [sem EXCEPT ![p] = s]
    BY <1>1, <1>2 DEF Counted, Sema
  <1>6. q.count - k \in Ints
    BY <1>3, SemaphoreAssumptions DEF Ints, IntMax
  <1>7. /\ s \in Sema /\ s.waiters = q.waiters - 1 /\ s.name = q.name
        /\ s.count = q.count - k /\ s.max = q.max /\ s.init = q.init
    <2>1. q.waiters - 1 \in Nat
      BY <1>3, <1>4
    <2>2. s = [q EXCEPT !.count = q.count - k, !.waiters = q.waiters - 1]
      BY <1>2 DEF Sema
    <2>3. \A i \in Ints, w \in Nat : LET r == [q EXCEPT !.count = i, !.waiters = w] IN
            /\ r \in Sema /\ r.waiters = w /\ r.name = q.name
            /\ r.count = i /\ r.max = q.max /\ r.init = q.init
      BY <1>2 DEF Sema
    <2>4. QED
      BY <1>6, <2>1, <2>2, <2>3
  <1>8. Sound(s)
    BY <1>2, <1>3, <1>7 DEF Sound, Capped
  <1> HIDE DEF s
  <1>9. \A o \in Objs : sem'[o].name = sem[o].name
    BY <1>2, <1>5, <1>7 DEF Counted
  <1>10. Owned'
    BY <1>1, <1>9, WorkOwned
  <1>11. pc'[t] = "done" /\ \A u \in Threads \ {t} : pc'[u] = pc[u] /\ obj'[u] = obj[u]
    BY <1>1 DEF Owned, CallTypes
  <1>12. /\ \A o : ~Asleep(t, o)'
         /\ Asleep(t, p) /\ \A o \in Objs \ {p} : ~Asleep(t, o)
    BY <1>11 DEF Asleep
  <1>13. s.waiters = q.waiters + 0 - 1
    BY <1>3, <1>7
  <1>14. Counted'
    BY <1>1, <1>2, <1>5, <1>7, <1>8, <1>11, <1>12, <1>13, BlankSound, FieldsCounted DEF Asleep
  <1>15. QED
    BY <1>10, <1>14

\* Trywait, Post and Cancel.
LEMMA UnitsSound ==
  ASSUME Owned, Counted, NEW t \in Threads, NEW n \in Amounts, Trywait(t, n) \/ Post(t, n) \/ Cancel(t, n)
  PROVE  Owned' /\ Counted'
  <1> DEFINE p == obj[t]
             q == sem[p]
  <1>1. pc[t] = "held" /\ p \in Objs
    BY DEF Trywait, Post, Cancel, Owned, InCall
  <1>2. /\ q \in Sema /\ Sound(q) /\ n \in Ints /\ n \in Int /\ q.count \in Ints /\ q.count \in Int
        /\ q.max \in Ints /\ q.max \in Int /\ q.init \in Ints /\ q.init \in Int
    BY <1>1, SemaphoreAssumptions DEF Counted, Sema, Ints, IntMax
  <1> DEFINE InRange(c) == Capped(q) /\ (\A m \in Amounts : q.max + m <= IntMax) => 0 <= c /\ c <= q.max
  <1>3. InRange(q.count) /\ InRange(q.init)
    BY <1>2 DEF Sound, Capped
  <1>4. CASE Trywait(t, n)
    <2> DEFINE c == IF n > 0 /\ q.count >= n THEN q.count - n ELSE q.count
    <2>1. Finish(t, c)
      BY <1>4 DEF Trywait
    <2>2. c \in Ints /\ InRange(c)
      <3>1. CASE n > 0 /\ q.count >= n
        <4>1. c \in Ints /\ 0 <= c /\ c <= q.count
          BY <1>2, <3>1, SemaphoreAssumptions DEF Ints, IntMax
        <4>2. c \in Int
          BY <1>2, <3>1
        <4> HIDE DEF c
        <4>3. QED
          BY <1>2, <1>3, <4>1, <4>2
      <3>2. CASE ~(n > 0 /\ q.count >= n)
        BY <1>2, <1>3, <3>2
      <3>3. QED
        BY <3>1, <3>2
    <2> HIDE DEF c
    <2>3. QED
      BY <1>1, <2>1, <2>2, FinishInv
  <1>5. CASE Post(t, n)
    <2> DEFINE z == Plus(q.count, n)
               c == IF n > 0 /\ ~(Capped(q) /\ z > q.max) THEN z ELSE q.count
    <2>1. Finish(t, c)
      BY <1>5 DEF Post
    <2>2. z \in Ints /\ z \in Int /\ (q.count + n \in Ints => z = q.count + n)
      <3>1. z \in Ints /\ (q.count + n \in Ints => z = q.count + n)
        BY <1>2, PlusFits
      <3> HIDE DEF z
      <3>2. QED
        BY <3>1 DEF Ints
    <2> HIDE DEF z
    <2>3. ASSUME Capped(q), \A m \in Amounts : q.max + m <= IntMax, n > 0, ~(z > q.max)
          PROVE  0 <= z /\ z <= q.max
      <3>1. 0 <= q.count /\ q.count <= q.max /\ q.max + n <= IntMax
        BY <1>3, <2>3
      <3>2. q.count + n \in Ints
        BY <1>2, <2>3, <3>1, SemaphoreAssumptions DEF Ints, IntMax
      <3>3. QED
        BY <1>2, <2>2, <2>3, <3>1, <3>2
    <2>4. c \in Ints
      BY <1>2, <2>2
    <2>5. InRange(c)
      BY <1>3, <2>3
    <2> HIDE DEF c
    <2>6. QED
      BY <1>1, <2>1, <2>4, <2>5, FinishInv
  <1>6. CASE Cancel(t, n)
    <2> DEFINE c == IF Capped(q) /\ n > q.max THEN q.count ELSE IF n < 0 THEN q.init ELSE n
    <2>1. Finish(t, c)
      BY <1>6 DEF Cancel
    <2>2. c \in Ints /\ InRange(c)
      BY <1>2, <1>3 DEF Capped
    <2> HIDE DEF c
    <2>3. QED
      BY <1>1, <2>1, <2>2, FinishInv
  <1>7. QED
    BY <1>4, <1>5, <1>6

\* Create, and open when it makes the semaphore.
LEMMA MakesInv ==
  ASSUME Owned, Counted, NEW t \in Threads, pc[t] \in {"run", "opening"}, NEW o \in Objs, refs[o] = 0,
         \A u \in Threads \ {t} : obj[u] # o, NEW n \in Names \cup {NoName}, NEW x \in Given,
         ConstructObject(t, o, n, x)
  PROVE  Owned' /\ Counted'
  <1> DEFINE a == [NoArg EXCEPT !.name = n, !.shape = x]
  <1>1. /\ Add(o) /\ pc' = [pc EXCEPT ![t] = "naming"] /\ obj' = [obj EXCEPT ![t] = o]
        /\ arg' = [arg EXCEPT ![t] = a] /\ UNCHANGED <<byName, sem, id, stopping>>
    BY DEF ConstructObject
  <1>2. Owned'
    BY <1>1, MakesOwned
  <1>3. a \in Args
    BY BlankSound DEF Args
  <1> HIDE DEF a
  <1>4. pc'[t] = "naming" /\ \A u \in Threads \ {t} : pc'[u] = pc[u] /\ obj'[u] = obj[u]
    BY <1>1 DEF Owned, CallTypes
  <1>5. Counted'
    BY <1>1, <1>3, <1>4, SteadyCounted
  <1>6. QED
    BY <1>2, <1>5

\* The constructor of Semaphore, and its destructor.
LEMMA ClearInv ==
  ASSUME Owned, Counted, NEW t \in Threads, ConstructSemaphore(t) \/ Destroy(t)
  PROVE  Owned' /\ Counted'
  <1> DEFINE p == obj[t]
             n == arg[t].name
             x == arg[t].shape
  <1>1. pc[t] \in {"naming", "destroy"} /\ p \in Objs /\ Return(t) /\ stopping' = stopping
    BY DEF ConstructSemaphore, Destroy, Owned, InCall
  <1>2. /\ pc' = [pc EXCEPT ![t] = "run"] /\ obj' = [obj EXCEPT ![t] = None] /\ arg' = [arg EXCEPT ![t] = NoArg]
        /\ pc'[t] = "run" /\ \A u \in Threads \ {t} : pc'[u] = pc[u] /\ obj'[u] = obj[u]
    BY <1>1 DEF Return, Owned, CallTypes
  <1>3. sem[p].waiters = 0
    <2>1. Sleepers(p) = {}
      BY <1>1 DEF Sleepers, Owned, Private
    <2>2. QED
      BY <1>1, <2>1, FS_EmptySet DEF Counted
  <1>4. ASSUME NEW s \in Sema, Sound(s), s.waiters = 0, sem' = [sem EXCEPT ![p] = s] PROVE Counted'
    <2>1. \A o : ~Asleep(t, o) /\ ~Asleep(t, o)'
      BY <1>1, <1>2 DEF Asleep
    <2>2. s.waiters = sem[p].waiters + 0 - 0 /\ NoArg \in Args
      BY <1>3, <1>4, BlankSound
    <2>3. QED
      BY <1>1, <1>2, <1>4, <2>1, <2>2, FieldsCounted
  <1>5. CASE Destroy(t)
    <2>1. sem' = [sem EXCEPT ![p] = Blank] /\ Blank \in Sema /\ Sound(Blank) /\ Blank.waiters = 0
      BY <1>5, BlankSound DEF Destroy, Blank
    <2>2. QED
      BY <1>4, <1>5, <2>1, DestroyOwned
  <1>6. CASE ConstructSemaphore(t)
    <2> DEFINE s == [Blank EXCEPT !.name = n, !.count = x[1], !.init = x[1], !.max = x[2]]
    <2>1. /\ pc[t] = "naming" /\ sem' = [sem EXCEPT ![p] = s]
          /\ byName' = [m \in Names |-> IF m = n THEN p ELSE byName[m]] /\ UNCHANGED tableVars
      BY <1>6 DEF ConstructSemaphore
    <2>2. n \in Names \cup {NoName} /\ x \in Given
      BY DEF Counted, Args
    <2> HIDE DEF n, x
    <2>3. x[1] \in Ints /\ x[2] \in Ints /\ 0 <= x[1] /\ (x[2] > 0 => x[1] <= x[2])
      BY <2>2, GivenShape
    <2>4. /\ s \in Sema /\ s.name = n /\ s.count = x[1] /\ s.init = x[1] /\ s.max = x[2] /\ s.waiters = 0
      BY <2>2, <2>3 DEF Blank, Sema
    <2>5. Sound(s)
      BY <2>3, <2>4 DEF Sound, Capped
    <2> HIDE DEF s
    <2>6. sem'[p].name = n /\ \A o \in Objs \ {p} : sem'[o].name = sem[o].name
      BY <1>1, <2>1, <2>4 DEF Counted
    <2>7. Owned'
      BY <1>1, <2>1, <2>2, <2>6, NamingOwned
    <2>8. QED
      BY <1>4, <2>1, <2>4, <2>5, <2>7
  <1>7. QED
    BY <1>5, <1>6

\* The calls between two operations: the semaphores' fields stay.
LEMMA BetweenInv ==
  ASSUME Owned, Counted, NEW t \in Threads,
         \/ \E n \in Names : Open(t, n)
         \/ \E h \in DOMAIN table : FromId(t, h)
         \/ DeleteName(t) \/ DeleteHandle(t) \/ Drop(t)
  PROVE  Owned' /\ Counted'
  <1>1. arg[t] \in Args /\ arg = [arg EXCEPT ![t] = arg[t]] /\ NoArg \in Args
    BY BlankSound DEF Counted
  <1>2. pc \in [Threads -> OsemPlaces] /\ obj \in [Threads -> Objs \cup {None}]
    BY DEF Owned, CallTypes
  <1>3. ASSUME NEW n \in Names, Open(t, n) PROVE Owned' /\ Counted'
    <2>1. PICK o \in Objs : Free(o) /\ obj' = [obj EXCEPT ![t] = o]
      BY <1>3 DEF Open
    <2>2. /\ pc[t] = "run" /\ pc' = [pc EXCEPT ![t] = "opening"] /\ arg' = [arg EXCEPT ![t].name = n]
          /\ UNCHANGED <<tableVars, byName, sem, id, stopping>>
      BY <1>3 DEF Open
    <2>3. Owned'
      BY <2>1, <2>2, OpenOwned
    <2> DEFINE a == [arg[t] EXCEPT !.name = n]
    <2>4. a \in Args /\ arg' = [arg EXCEPT ![t] = a]
      BY <1>1, <2>2 DEF Args
    <2> HIDE DEF a
    <2>5. pc'[t] = "opening" /\ \A u \in Threads \ {t} : pc'[u] = pc[u] /\ obj'[u] = obj[u]
      BY <1>2, <2>1, <2>2
    <2>6. QED
      BY <2>2, <2>3, <2>4, <2>5, SteadyCounted
  <1>4. ASSUME NEW h \in DOMAIN table, FromId(t, h) PROVE Owned' /\ Counted'
    <2>1. /\ pc[t] = "run" /\ pc' = [pc EXCEPT ![t] = "held"] /\ UNCHANGED <<arg, sem, stopping>>
          /\ obj' = [obj EXCEPT ![t] = ObjectAt(h)]
      BY <1>4 DEF FromId
    <2>2. pc'[t] = "held" /\ \A u \in Threads \ {t} : pc'[u] = pc[u] /\ obj'[u] = obj[u]
      BY <1>2, <2>1
    <2>3. Counted'
      BY <1>1, <2>1, <2>2, SteadyCounted
    <2>4. QED
      BY <1>4, <2>3, FromIdOwned
  <1>5. CASE DeleteName(t)
    <2>1. pc[t] = "held" /\ pc' = [pc EXCEPT ![t] = "unnamed"] /\ UNCHANGED <<obj, arg, sem, stopping>>
      BY <1>5 DEF DeleteName
    <2>2. pc'[t] = "unnamed" /\ \A u \in Threads \ {t} : pc'[u] = pc[u] /\ obj'[u] = obj[u]
      BY <1>2, <2>1
    <2>3. Counted'
      BY <1>1, <2>1, <2>2, SteadyCounted
    <2>4. QED
      BY <1>5, <2>3, DeleteNameOwned
  <1>6. CASE DeleteHandle(t)
    <2>1. pc[t] = "unnamed" /\ pc' = [pc EXCEPT ![t] = "done"] /\ UNCHANGED <<obj, arg, sem, stopping>>
      BY <1>6 DEF DeleteHandle
    <2>2. pc'[t] = "done" /\ \A u \in Threads \ {t} : pc'[u] = pc[u] /\ obj'[u] = obj[u]
      BY <1>2, <2>1
    <2>3. Counted'
      BY <1>1, <2>1, <2>2, SteadyCounted
    <2>4. QED
      BY <1>6, <2>3, DeleteHandleOwned
  <1>7. CASE Drop(t)
    <2>1. pc[t] = "done" /\ UNCHANGED <<sem, stopping>>
      BY <1>7 DEF Drop
    <2>2. CASE refs[obj[t]] = 1
      <3>1. pc' = [pc EXCEPT ![t] = "destroy"] /\ UNCHANGED <<obj, arg>>
        BY <1>7, <2>2 DEF Drop
      <3>2. pc'[t] = "destroy" /\ \A u \in Threads \ {t} : pc'[u] = pc[u] /\ obj'[u] = obj[u]
        BY <1>2, <3>1
      <3>3. QED
        BY <1>1, <2>1, <3>1, <3>2, <1>7, SteadyCounted, DropOwned
    <2>3. CASE refs[obj[t]] # 1
      <3>1. pc' = [pc EXCEPT ![t] = "run"] /\ obj' = [obj EXCEPT ![t] = None] /\ arg' = [arg EXCEPT ![t] = NoArg]
        BY <1>7, <2>3 DEF Drop, Return
      <3>2. pc'[t] = "run" /\ \A u \in Threads \ {t} : pc'[u] = pc[u] /\ obj'[u] = obj[u]
        BY <1>2, <3>1
      <3>3. QED
        BY <1>1, <2>1, <3>1, <3>2, <1>7, SteadyCounted, DropOwned
    <2>4. QED
      BY <2>2, <2>3
  <1>8. QED
    BY <1>3, <1>4, <1>5, <1>6, <1>7

\* The first state.
LEMMA OsemInit == ASSUME Init PROVE Owned /\ Counted
  <1>1. Owned
    BY FreshOwned
  <1>2. /\ sem = [o \in Objs |-> Blank] /\ arg = [t \in Threads |-> NoArg] /\ stopping = FALSE
        /\ \A t \in Threads : pc[t] = "run"
    BY DEF Init
  <1>3. \A o \in Objs : Cardinality(Sleepers(o)) = 0
    <2>1. \A o \in Objs : Sleepers(o) = {}
      BY <1>2 DEF Sleepers
    <2>2. QED
      BY <2>1, FS_EmptySet
  <1>4. Blank.waiters = 0
    BY DEF Blank
  <1>5. QED
    BY <1>1, <1>2, <1>3, <1>4, BlankSound DEF Counted

\* Every step of the specification keeps ownership and counts.
LEMMA OsemStep == ASSUME Owned, Counted, [Next]_vars PROVE Owned' /\ Counted'
  <1>1. CASE UNCHANGED vars
    <2>1. UNCHANGED <<cap, last_free, table, refs, handle, byName, sem, pc, obj, id, arg, stopping>>
      BY <1>1 DEF vars, tableVars, threadVars
    <2>2. \A o : Holders(o)' = Holders(o) /\ Sleepers(o)' = Sleepers(o)
      BY <2>1 DEF Holders, Sleepers
    <2>3. TableOK' /\ CallTypes' /\ RefsOK'
      BY <2>1, <2>2 DEF Owned, CallTypes, TableOK, TableTypeOK, HandlesResolve, Searchable, ObjectAt, RefsOK
    <2>4. NamesLive' /\ InCall' /\ Private' /\ Leaving'
      BY <2>1 DEF Owned, NamesLive, InCall, Private, Leaving
    <2>5. Counted'
      BY <2>1, <2>2 DEF Counted, Sound, Capped
    <2>6. QED
      BY <2>3, <2>4, <2>5 DEF Owned
  <1>2. CASE Stop
    <2>1. UNCHANGED <<cap, last_free, table, refs, handle, byName, sem, pc, obj, id, arg>> /\ stopping' = TRUE
      BY <1>2 DEF Stop, tableVars, threadVars
    <2>2. \A o : Holders(o)' = Holders(o) /\ Sleepers(o)' = Sleepers(o)
      BY <2>1 DEF Holders, Sleepers
    <2>3. TableOK' /\ CallTypes' /\ RefsOK'
      BY <2>1, <2>2 DEF Owned, CallTypes, TableOK, TableTypeOK, HandlesResolve, Searchable, ObjectAt, RefsOK
    <2>4. NamesLive' /\ InCall' /\ Private' /\ Leaving'
      BY <2>1 DEF Owned, NamesLive, InCall, Private, Leaving
    <2>5. Counted'
      BY <2>1, <2>2 DEF Counted, Sound, Capped
    <2>6. QED
      BY <2>3, <2>4, <2>5 DEF Owned
  <1>3. CASE NextSession
    <2>1. /\ sem' = [o \in Objs |-> Blank] /\ arg' = arg /\ pc' = pc /\ stopping' = FALSE
          /\ \A t \in Threads : pc[t] = "run"
      BY <1>3 DEF NextSession, threadVars
    <2>2. \A o \in Objs : Cardinality(Sleepers(o)') = 0
      <3>1. \A o \in Objs : Sleepers(o)' = {}
        BY <2>1 DEF Sleepers
      <3>2. QED
        BY <3>1, FS_EmptySet
    <2>3. Blank.waiters = 0
      BY DEF Blank
    <2>4. sem' \in [Objs -> Sema] /\ \A o \in Objs : sem'[o] = Blank
      BY <2>1, BlankSound
    <2>5. Counted'
      BY <2>1, <2>2, <2>3, <2>4, BlankSound DEF Counted
    <2>6. QED
      BY <1>3, <2>5, FreshOwned
  <1>4. ASSUME NEW t \in Threads, NEW n \in Names \cup {NoName}, NEW x \in Shapes, Create(t, n, x)
        PROVE  Owned' /\ Counted'
    <2>1. PICK o \in Objs : Free(o) /\ ConstructObject(t, o, n, x)
      BY <1>4 DEF Create
    <2>2. pc[t] = "run" /\ refs[o] = 0 /\ \A u \in Threads \ {t} : obj[u] # o
      BY <1>4, <2>1 DEF Create, Free
    <2>3. QED
      BY <2>1, <2>2, MakesInv DEF Given
  <1>5. ASSUME NEW t \in Threads, OpenCreate(t) PROVE Owned' /\ Counted'
    <2> DEFINE n == arg[t].name
               x == IF n = SuspendName THEN <<1, 1>> ELSE <<0, IntMax>>
    <2>1. pc[t] = "opening" /\ ConstructObject(t, obj[t], n, x)
      BY <1>5 DEF OpenCreate
    <2>2. n \in Names \cup {NoName} /\ x \in Given
      BY DEF Counted, Args, Given
    <2>3. obj[t] \in Objs /\ refs[obj[t]] = 0 /\ \A u \in Threads \ {t} : obj[u] # obj[t]
      BY <2>1 DEF Owned, InCall, Private
    <2> HIDE DEF n, x
    <2>4. QED
      BY <2>1, <2>2, <2>3, MakesInv
  <1>6. ASSUME NEW t \in Threads, WaitTake(t) \/ WaitFail(t) PROVE Owned' /\ Counted'
    <2>1. pc[t] = "wait" /\ arg[t].need \in Int /\ arg[t].need > 0 /\ 0 \in Int
      BY <1>6 DEF WaitTake, WaitFail, Counted, Args
    <2>2. CASE WaitTake(t)
      BY <2>1, <2>2, LeaveInv DEF WaitTake
    <2>3. CASE WaitFail(t)
      BY <2>1, <2>3, LeaveInv DEF WaitFail
    <2>4. QED
      BY <1>6, <2>2, <2>3
  <1>7. ASSUME NEW t \in Threads, Step(t) PROVE Owned' /\ Counted'
    BY <1>5, <1>6, <1>7, ClearInv, BetweenInv, UnitsSound, WaitInv DEF Step
  <1>8. QED
    BY <1>1, <1>2, <1>3, <1>4, <1>7, BetweenInv DEF Next

\* The inductive invariant says what the property says.
LEMMA OsemImplies == ASSUME Owned, Counted PROVE SemInv
  <1>1. TypeOK
    BY DEF Owned, Counted, CallTypes, TableOK, TypeOK, OsemPlaces, Sema
  <1>2. CountInRange
    BY DEF Counted, Sound, CountInRange
  <1>3. WaitersExact
    BY DEF Counted, Sleepers, WaitersExact
  <1>4. RefsExact
    BY OneSlot DEF Owned, RefsOK, RefsExact
  <1>5. QED
    BY <1>1, <1>2, <1>3, <1>4 DEF SemInv, ObjectsOwned, Owned, TableOK

\* In every behaviour about SCE semaphores.
LEMMA OsemAlways ==
  /\ Spec => [](Owned /\ Counted)
  /\ AllSpec => [](used = "sce" => Owned /\ Counted)
  <1> DEFINE J == Owned /\ Counted
             I == used = "sce" => J
  <1>1. Init => J
    BY OsemInit
  <1>2. J /\ [Next]_vars => J'
    BY OsemStep
  <1> HIDE DEF J
  <1>3. AllInit => I
    BY <1>1 DEF AllInit
  <1>4. I /\ [AllNext]_allVars => I'
    <2>1. SUFFICES ASSUME I, [AllNext]_allVars, used' = "sce" PROVE J'
      OBVIOUS
    <2>2. used = "sce" /\ [Next]_vars
      <3>1. CASE AllNext
        BY <2>1, <3>1 DEF AllNext, InSem, InKsem, InFlags, InSession
      <3>2. CASE UNCHANGED allVars
        BY <2>1, <3>2 DEF allVars, semOnly, vars
      <3>3. QED
        BY <2>1, <3>1, <3>2
    <2>3. QED
      BY <1>2, <2>1, <2>2
  <1> HIDE DEF I
  <1>5. AllSpec => []I
    BY <1>3, <1>4, PTL DEF AllSpec
  <1>6. Spec => []J
    BY <1>1, <1>2, PTL DEF Spec
  <1>7. QED
    BY <1>5, <1>6 DEF I, J

\* sys_osem: across create, open, close, delete and sleeping calls in any order an
\* object has exactly the references of its slot and of the calls on it, so none is
\* destroyed under a call or left behind; a name leads to a semaphore that has its
\* handle; the number of waiters is exact; and units are neither oversold nor
\* posted past the ceiling, where ceiling and amount fit an int together.
THEOREM OsemSafe ==
  /\ Spec => []SemInv
  /\ AllSpec => []OsemInv
  <1>1. Owned /\ Counted => SemInv
    BY OsemImplies
  <1>2. (used = "sce" => Owned /\ Counted) => OsemInv
    BY <1>1 DEF OsemInv
  <1>3. QED
    BY <1>1, <1>2, OsemAlways, PTL

\* A name is only lost to a newer semaphore of that name, to the deletion of its own
\* semaphore or with the session: the destructor of a semaphore that was replaced,
\* or deleted long before its last call returned, leaves the name alone.
THEOREM NamesOutlive ==
  /\ Spec => NameOutlivesOthers
  /\ AllSpec => NameOutlivesOthers
  <1> DEFINE J == Owned /\ Counted
             A == \A n \in Names : byName[n] # None /\ byName'[n] # byName[n] =>
                    \/ byName'[n] # None /\ sem'[byName'[n]].name = n
                    \/ \E t \in Threads : obj[t] = byName[n] /\ pc'[t] = "unnamed"
                    \/ stopping /\ ~stopping'
  <1>1. J /\ [Next]_vars => [A]_vars
    <2>1. SUFFICES ASSUME Owned, Counted, Next, NEW n \in Names, byName[n] # None, byName'[n] = None
                   PROVE  \/ \E t \in Threads : obj[t] = byName[n] /\ pc'[t] = "unnamed"
                          \/ stopping /\ ~stopping'
      <3>1. SUFFICES ASSUME Owned, Counted, Next PROVE A
        OBVIOUS
      <3>2. NamesLive'
        BY <3>1, OsemStep DEF Owned
      <3>3. QED
        BY <3>1, <3>2 DEF NamesLive
    <2>2. CASE Stop
      BY <2>1, <2>2 DEF Stop
    <2>3. CASE NextSession
      BY <2>3 DEF NextSession
    <2>4. ASSUME NEW t \in Threads,
                 \/ \E m \in Names \cup {NoName}, x \in Shapes : Create(t, m, x)
                 \/ \E m \in Names : Open(t, m)
                 \/ \E h \in DOMAIN table : FromId(t, h)
                 \/ OpenCreate(t) \/ DeleteHandle(t) \/ Drop(t) \/ WaitTake(t) \/ WaitFail(t)
          PROVE  FALSE
      <3>1. byName' = byName
        BY <2>4 DEF Create, Open, FromId, OpenCreate, ConstructObject, DeleteHandle, Drop, WaitTake, WaitFail, Leave
      <3>2. QED
        BY <2>1, <3>1
    <2>5. ASSUME NEW t \in Threads, NEW m \in Amounts,
                 Trywait(t, m) \/ Post(t, m) \/ Cancel(t, m) \/ \E tm \in BOOLEAN : Wait(t, m, tm)
          PROVE  FALSE
      <3>1. byName' = byName
        BY <2>5 DEF Trywait, Post, Cancel, Wait, Finish
      <3>2. QED
        BY <2>1, <3>1
    <2>6. ASSUME NEW t \in Threads, Destroy(t) PROVE FALSE
      BY <2>1, <2>6, DestroyOwned
    <2>7. ASSUME NEW t \in Threads, ConstructSemaphore(t) PROVE FALSE
      <3>1. pc[t] = "naming" /\ byName' = [m \in Names |-> IF m = arg[t].name THEN obj[t] ELSE byName[m]]
        BY <2>7 DEF ConstructSemaphore
      <3>2. obj[t] \in Objs
        BY <3>1, <2>1 DEF Owned, InCall
      <3>3. QED
        BY <2>1, <3>1, <3>2, TableAssumptions
    <2>8. ASSUME NEW t \in Threads, DeleteName(t) PROVE obj[t] = byName[n] /\ pc'[t] = "unnamed"
      <3>1. /\ byName' = [m \in Names |-> IF byName[m] = obj[t] THEN None ELSE byName[m]]
            /\ pc' = [pc EXCEPT ![t] = "unnamed"]
        BY <2>8 DEF DeleteName, Unregister
      <3>2. QED
        BY <2>1, <3>1 DEF Owned, CallTypes
    <2>9. QED
      BY <2>1, <2>2, <2>3, <2>4, <2>5, <2>6, <2>7, <2>8 DEF Next, Step
  <1> DEFINE I == used = "sce" => J
  <1>2. I /\ [AllNext]_allVars => [A]_vars
    <2>1. SUFFICES ASSUME I, [AllNext]_allVars PROVE [A]_vars
      OBVIOUS
    <2>2. CASE used = "sce"
      <3>1. [Next]_vars
        <4>1. CASE AllNext
          BY <2>2, <4>1 DEF AllNext, InSem, InKsem, InFlags, InSession
        <4>2. CASE UNCHANGED allVars
          BY <4>2 DEF allVars, semOnly, vars
        <4>3. QED
          BY <2>1, <4>1, <4>2
      <3>2. QED
        BY <1>1, <2>1, <2>2, <3>1
    <2>3. CASE used # "sce"
      <3>1. byName' = byName
        BY <2>1, <2>3 DEF AllNext, InSem, InKsem, InFlags, InSession, semOnly, allVars
      <3>2. QED
        BY <3>1
    <2>4. QED
      BY <2>2, <2>3
  <1>3. (Spec => []J) /\ (AllSpec => []I)
    BY OsemAlways
  <1> HIDE DEF J, I
  <1>4. Spec => [][A]_vars
    BY <1>1, <1>3, PTL DEF Spec
  <1>5. AllSpec => [][A]_vars
    BY <1>2, <1>3, PTL DEF AllSpec
  <1>6. QED
    BY <1>4, <1>5 DEF NameOutlivesOthers

-----------------------------------------------------------------------------
(* Event flags: names, handles and references.                             *)
(*                                                                         *)
(* FlagRegistry uses the same table.  Its registry forgets a name whoever  *)
(* has it, so that a flag is deleted under its name only if it is still    *)
(* the one of that name; what has to be known is that a flag which is      *)
(* registered carries that name, that the flag of a call that makes it is  *)
(* that call's alone, and that a deletion's handle still means its flag.   *)

\* The table of the flags is the table.
LEMMA FlagTable ==
  /\ \A o : Flags!Add(o) <=> Add(o)
  /\ \A o : Flags!DropRef(o) <=> DropRef(o)
  /\ \A h : Flags!ObjectAt(h) = ObjectAt(h)
  /\ \A h : (Flags!Get(h) <=> Get(h)) /\ (Flags!Release(h) <=> Release(h))
  /\ \A o : Flags!SlotsOf(o) = SlotsOf(o)
  /\ (Flags!TableInit <=> TableInit) /\ (Flags!Reset <=> Reset)
  /\ (Flags!TableTypeOK <=> TableTypeOK) /\ (Flags!HandlesResolve <=> HandlesResolve)
  <1>1. \A o : Flags!Add(o) <=> Add(o)
    BY Zenon DEF Flags!Add, Add, Flags!VacantProbes, VacantProbes, Flags!Probe, Probe, Flags!Vacant, Vacant,
           Flags!Max, Max, Flags!Min, Min
  <1>2. \A h : Flags!ObjectAt(h) = ObjectAt(h)
    BY DEF Flags!ObjectAt, ObjectAt
  <1>3. \A h : Flags!Get(h) <=> Get(h)
    BY DEF Flags!Get, Get, Flags!ObjectAt, ObjectAt
  <1>4. \A h : Flags!Release(h) <=> Release(h)
    BY Zenon DEF Flags!Release, Release, Flags!Remove, Remove, Flags!ObjectAt, ObjectAt, Flags!Vacant, Vacant
  <1>5. \A o : Flags!DropRef(o) <=> DropRef(o)
    BY DEF Flags!DropRef, DropRef
  <1>6. \A o : Flags!SlotsOf(o) = SlotsOf(o)
    BY DEF Flags!SlotsOf, SlotsOf, Flags!Cardinality, Cardinality
  <1>7. (Flags!TableInit <=> TableInit) /\ (Flags!Reset <=> Reset)
    BY DEF Flags!TableInit, TableInit, Flags!Reset, Reset, Flags!Vacant, Vacant
  <1>8. (Flags!TableTypeOK <=> TableTypeOK) /\ (Flags!HandlesResolve <=> HandlesResolve)
    BY DEF Flags!TableTypeOK, TableTypeOK, Flags!HandlesResolve, HandlesResolve, Flags!ObjectAt, ObjectAt
  <1>9. QED
    BY <1>1, <1>2, <1>3, <1>4, <1>5, <1>6, <1>7, <1>8

FlagPlaces == {"run", "opening", "naming", "held", "unnamed", "done"}

FlagTypes ==
  /\ fByName \in [Names -> Objs \cup {None}]
  /\ fpc \in [Threads -> FlagPlaces]
  /\ fobj \in [Threads -> Objs \cup {None}]
  /\ fid \in [Threads -> 0 .. cap]
  /\ name \in [Objs -> Names \cup {NoName}]

\* Thread t has a reference to the flag o.
FlagHolds(t, o) == fobj[t] = o /\ fpc[t] \in {"held", "unnamed", "done"}

\* FlagRefsExact, with the slots a flag has by its handle.
FlagRefsOK == \A o \in Objs : refs[o] = (IF handle[o] = 0 THEN 0 ELSE 1) + Cardinality(Flags!Holders(o))

\* A thread has a flag exactly while it is in a call.
FlagInCall == \A t \in Threads : IF fpc[t] = "run" THEN fobj[t] = None /\ fid[t] = 0 ELSE fobj[t] \in Objs

\* Who makes a flag has it alone, and before it is in the table there is no
\* reference to it.
FlagPrivate ==
  /\ \A t, u \in Threads : fpc[t] \in {"opening", "naming"} /\ fobj[u] = fobj[t] => u = t
  /\ \A t \in Threads : fpc[t] = "opening" => refs[fobj[t]] = 0
  /\ \A t \in Threads : fpc[t] = "naming" => handle[fobj[t]] # 0

\* A flag that is being named has no name yet; one that is being deleted has
\* none any more, and keeps its handle until its one deleter releases it.
FlagLeaving ==
  /\ \A t \in Threads, n \in Names : fpc[t] \in {"naming", "unnamed"} => fByName[n] # fobj[t]
  /\ \A t \in Threads : fpc[t] = "unnamed" => handle[fobj[t]] = fid[t] /\ fid[t] # 0
  /\ \A t, u \in Threads : fpc[t] = "unnamed" /\ fpc[u] = "unnamed" /\ fobj[u] = fobj[t] => u = t

FlagOwned == FlagTypes /\ TableOK /\ FlagRefsOK /\ Flags!NamedFlagsLive /\ FlagInCall /\ FlagPrivate /\ FlagLeaving

\* There are finitely many holders of a flag.
LEMMA FlagHoldersFinite ==
  ASSUME NEW o
  PROVE  IsFiniteSet(Flags!Holders(o)) /\ Cardinality(Flags!Holders(o)) \in Nat
         /\ (Cardinality(Flags!Holders(o)) = 0 <=> Flags!Holders(o) = {})
  <1>1. IsFiniteSet(Threads) /\ Flags!Holders(o) \subseteq Threads
    BY SemaphoreAssumptions DEF Flags!Holders
  <1>2. IsFiniteSet(Flags!Holders(o))
    BY <1>1, FS_Subset
  <1>3. QED
    BY <1>2, FS_CardinalityType, FS_EmptySet

\* The holders of a flag when one thread takes a step.
LEMMA FlagHoldersMove ==
  ASSUME NEW t \in Threads, \A u \in Threads \ {t} : fpc'[u] = fpc[u] /\ fobj'[u] = fobj[u], NEW o
  PROVE  /\ Cardinality(Flags!Holders(o)) \in Nat /\ Cardinality(Flags!Holders(o)') \in Nat
         /\ Cardinality(Flags!Holders(o)') = Cardinality(Flags!Holders(o)) + (IF FlagHolds(t, o)' THEN 1 ELSE 0)
                                                               - (IF FlagHolds(t, o) THEN 1 ELSE 0)
  <1> DEFINE A == Flags!Holders(o)
             B == Flags!Holders(o)'
  <1>1. IsFiniteSet(A)
    BY FlagHoldersFinite
  <1>2. A \ {t} = B \ {t}
    BY DEF Flags!Holders
  <1>3. (t \in A <=> FlagHolds(t, o)) /\ (t \in B <=> FlagHolds(t, o)')
    BY DEF Flags!Holders, FlagHolds
  <1> HIDE DEF A, B
  <1>4. /\ Cardinality(A) \in Nat /\ Cardinality(B) \in Nat
        /\ Cardinality(B) = Cardinality(A) + (IF t \in B THEN 1 ELSE 0) - (IF t \in A THEN 1 ELSE 0)
    BY <1>1, <1>2, Recount
  <1>5. Cardinality(B) = Cardinality(A) + (IF FlagHolds(t, o)' THEN 1 ELSE 0) - (IF FlagHolds(t, o) THEN 1 ELSE 0)
    BY <1>3, <1>4
  <1>6. QED
    BY <1>4, <1>5 DEF A, B

\* A flag without references, and one with a handle or a holder.
LEMMA FlagReferenced ==
  ASSUME FlagOwned, NEW o \in Objs
  PROVE  /\ refs[o] \in Nat
         /\ refs[o] = 0 => handle[o] = 0 /\ \A t \in Threads : ~FlagHolds(t, o)
         /\ handle[o] # 0 => refs[o] > 0
         /\ refs[o] = 0 => \A n \in Names : fByName[n] # o
  <1> DEFINE c == Cardinality(Flags!Holders(o))
  <1>1. c \in Nat /\ (c = 0 <=> Flags!Holders(o) = {})
    BY FlagHoldersFinite
  <1>2. refs[o] = (IF handle[o] = 0 THEN 0 ELSE 1) + c
    BY DEF FlagOwned, FlagRefsOK
  <1> HIDE DEF c
  <1>3. refs[o] \in Nat /\ (handle[o] # 0 => refs[o] > 0) /\ (refs[o] = 0 => handle[o] = 0 /\ c = 0)
    BY <1>1, <1>2
  <1>4. Flags!Holders(o) = {} => \A t \in Threads : ~FlagHolds(t, o)
    BY DEF Flags!Holders, FlagHolds
  <1>5. refs[o] = 0 => \A n \in Names : fByName[n] # o
    <2>1. SUFFICES ASSUME refs[o] = 0, NEW n \in Names, fByName[n] = o PROVE FALSE
      OBVIOUS
    <2>2. refs[o] > 0
      BY <2>1, TableAssumptions DEF FlagOwned, Flags!NamedFlagsLive
    <2>3. QED
      BY <2>1, <2>2
  <1>6. QED
    BY <1>1, <1>3, <1>4, <1>5

\* FlagRefsOK after a step of t in which only the references to p move.
LEMMA FlagRefsStep ==
  ASSUME FlagOwned, NEW t \in Threads, \A u \in Threads \ {t} : fpc'[u] = fpc[u] /\ fobj'[u] = fobj[u],
         NEW p \in Objs, \A o \in Objs \ {p} : refs'[o] = refs[o] /\ handle'[o] = handle[o],
         \A o \in Objs \ {p} : FlagHolds(t, o)' <=> FlagHolds(t, o),
         refs'[p] = refs[p] + (IF handle'[p] = 0 THEN 0 ELSE 1) - (IF handle[p] = 0 THEN 0 ELSE 1)
                            + (IF FlagHolds(t, p)' THEN 1 ELSE 0) - (IF FlagHolds(t, p) THEN 1 ELSE 0)
  PROVE  FlagRefsOK'
  <1>1. SUFFICES ASSUME NEW o \in Objs
                 PROVE  refs'[o] = (IF handle'[o] = 0 THEN 0 ELSE 1) + Cardinality(Flags!Holders(o)')
    BY DEF FlagRefsOK
  <1> DEFINE c == Cardinality(Flags!Holders(o))
             d == Cardinality(Flags!Holders(o)')
  <1>2. /\ c \in Nat /\ d \in Nat
        /\ d = c + (IF FlagHolds(t, o)' THEN 1 ELSE 0) - (IF FlagHolds(t, o) THEN 1 ELSE 0)
    BY FlagHoldersMove
  <1>3. refs[o] = (IF handle[o] = 0 THEN 0 ELSE 1) + c
    BY DEF FlagOwned, FlagRefsOK
  <1> HIDE DEF c, d
  <1>4. ASSUME o = p PROVE refs'[o] = (IF handle'[o] = 0 THEN 0 ELSE 1) + d
    BY <1>2, <1>3, <1>4 DEF FlagHolds
  <1>5. ASSUME o # p PROVE refs'[o] = (IF handle'[o] = 0 THEN 0 ELSE 1) + d
    BY <1>2, <1>3, <1>5 DEF FlagHolds
  <1>6. QED
    BY <1>4, <1>5 DEF d

\* The thread of a step on flags, and the others.
LEMMA FlagMoves ==
  ASSUME FlagOwned, NEW t \in Threads, NEW l \in FlagPlaces, NEW x \in Objs \cup {None},
         fpc' = [fpc EXCEPT ![t] = l], fobj' = [fobj EXCEPT ![t] = x]
  PROVE  /\ fpc' \in [Threads -> FlagPlaces] /\ fobj' \in [Threads -> Objs \cup {None}]
         /\ fpc'[t] = l /\ fobj'[t] = x
         /\ \A u \in Threads \ {t} : fpc'[u] = fpc[u] /\ fobj'[u] = fobj[u]
  BY DEF FlagOwned, FlagTypes

\* The constructor of Object puts a new flag into the table.
LEMMA FlagMakesOwned ==
  ASSUME FlagOwned, NEW t \in Threads, fpc[t] \in {"run", "opening"}, NEW o \in Objs, refs[o] = 0,
         \A u \in Threads \ {t} : fobj[u] # o, Add(o),
         fpc' = [fpc EXCEPT ![t] = "naming"], fobj' = [fobj EXCEPT ![t] = o], UNCHANGED <<fByName, fid>>,
         name' \in [Objs -> Names \cup {NoName}], \A p \in Objs \ {o} : name'[p] = name[p]
  PROVE  FlagOwned'
  <1>1. /\ fpc' \in [Threads -> FlagPlaces] /\ fobj' \in [Threads -> Objs \cup {None}]
        /\ fpc'[t] = "naming" /\ fobj'[t] = o
        /\ \A u \in Threads \ {t} : fpc'[u] = fpc[u] /\ fobj'[u] = fobj[u]
    BY FlagMoves DEF FlagPlaces
  <1>2. handle[o] = 0 /\ \A n \in Names : fByName[n] # o
    BY FlagReferenced
  <1>3. /\ TableOK' /\ cap <= cap'
        /\ handle'[o] # 0 /\ \A p \in Objs : p # o => handle'[p] = handle[p]
        /\ refs' = [refs EXCEPT ![o] = @ + 1]
    BY <1>2, AddKeeps DEF FlagOwned
  <1>4. refs'[o] = 1 /\ \A p \in Objs \ {o} : refs'[p] = refs[p]
    BY <1>3 DEF FlagOwned, TableOK, TableTypeOK
  <1>5. FlagTypes'
    <2>1. \A c, d \in Nat : c <= d => 0 .. c \subseteq 0 .. d
      OBVIOUS
    <2>2. 0 .. cap \subseteq 0 .. cap'
      BY <1>3, <2>1 DEF FlagOwned, TableOK, TableTypeOK
    <2>3. fid' \in [Threads -> 0 .. cap']
      BY <2>2 DEF FlagOwned, FlagTypes
    <2>4. QED
      BY <1>1, <2>3 DEF FlagOwned, FlagTypes
  <1>6. FlagRefsOK'
    <2>1. \A p \in Objs : ~FlagHolds(t, p) /\ ~FlagHolds(t, p)'
      BY <1>1 DEF FlagHolds
    <2>2. QED
      BY <1>1, <1>2, <1>3, <1>4, <2>1, FlagRefsStep DEF FlagHolds
  <1>7. Flags!NamedFlagsLive'
    BY <1>2, <1>3, <1>4 DEF FlagOwned, FlagTypes, Flags!NamedFlagsLive
  <1>8. FlagInCall'
    BY <1>1 DEF FlagOwned, FlagInCall
  <1>9. FlagPrivate'
    BY <1>1, <1>2, <1>3, <1>4 DEF FlagOwned, FlagInCall, FlagPrivate
  <1>10. FlagLeaving'
    <2>1. \A u \in Threads : fpc[u] = "unnamed" => fobj[u] \in Objs /\ u # t /\ fobj[u] # o
      BY DEF FlagOwned, FlagInCall
    <2>2. QED
      BY <1>1, <1>2, <1>3, <2>1 DEF FlagOwned, FlagLeaving
  <1>11. QED
    BY <1>3, <1>5, <1>6, <1>7, <1>8, <1>9, <1>10 DEF FlagOwned

\* A step that leaves the table and the registry alone.
LEMMA FlagPlainOwned ==
  ASSUME FlagOwned, NEW t \in Threads, NEW l \in FlagPlaces, NEW x \in Objs \cup {None},
         fpc' = [fpc EXCEPT ![t] = l], fobj' = [fobj EXCEPT ![t] = x], fid' = [fid EXCEPT ![t] = IF l = "run" THEN 0 ELSE @],
         UNCHANGED <<cap, last_free, table, refs, handle, fByName>>, name' \in [Objs -> Names \cup {NoName}],
         \A n \in Names : fByName[n] # None => name'[fByName[n]] = name[fByName[n]],
         \A o \in Objs : FlagHolds(t, o)' <=> FlagHolds(t, o)
  PROVE  /\ FlagTypes' /\ TableOK' /\ FlagRefsOK' /\ Flags!NamedFlagsLive'
         /\ fpc'[t] = l /\ fobj'[t] = x
         /\ \A u \in Threads \ {t} : fpc'[u] = fpc[u] /\ fobj'[u] = fobj[u] /\ fid'[u] = fid[u]
  <1>1. /\ fpc' \in [Threads -> FlagPlaces] /\ fobj' \in [Threads -> Objs \cup {None}]
        /\ fpc'[t] = l /\ fobj'[t] = x
        /\ \A u \in Threads \ {t} : fpc'[u] = fpc[u] /\ fobj'[u] = fobj[u]
    BY FlagMoves
  <1>2. cap' = cap /\ last_free' = last_free /\ table' = table /\ refs' = refs /\ handle' = handle
    OBVIOUS
  <1>3. TableOK'
    BY <1>2 DEF FlagOwned, TableOK, TableTypeOK, HandlesResolve, Searchable, ObjectAt
  <1>4. FlagTypes' /\ \A u \in Threads \ {t} : fid'[u] = fid[u]
    <2>1. 0 \in 0 .. cap
      BY DEF FlagOwned, TableOK, TableTypeOK
    <2>2. fid' \in [Threads -> 0 .. cap] /\ \A u \in Threads \ {t} : fid'[u] = fid[u]
      BY <2>1 DEF FlagOwned, FlagTypes
    <2>3. QED
      BY <1>1, <1>2, <2>2 DEF FlagOwned, FlagTypes
  <1>5. FlagRefsOK'
    <2>1. SUFFICES ASSUME NEW o \in Objs
                   PROVE  refs'[o] = (IF handle'[o] = 0 THEN 0 ELSE 1) + Cardinality(Flags!Holders(o)')
      BY DEF FlagRefsOK
    <2>2. Flags!Holders(o)' = Flags!Holders(o)
      BY <1>1 DEF Flags!Holders, FlagHolds
    <2>3. QED
      BY <1>2, <2>2 DEF FlagOwned, FlagRefsOK
  <1>6. Flags!NamedFlagsLive'
    BY <1>2 DEF FlagOwned, FlagTypes, Flags!NamedFlagsLive
  <1>7. QED
    BY <1>1, <1>3, <1>4, <1>5, <1>6

\* sys_evf_open sets an address aside, with the name.
LEMMA FlagOpenOwned ==
  ASSUME FlagOwned, NEW t \in Threads, NEW n \in Names, Flags!Open(t, n)
  PROVE  FlagOwned'
  <1>1. PICK o \in Objs : /\ Flags!Free(o) /\ fobj' = [fobj EXCEPT ![t] = o]
                          /\ name' = [name EXCEPT ![o] = n]
    BY DEF Flags!Open
  <1>2. /\ fpc[t] = "run" /\ fpc' = [fpc EXCEPT ![t] = "opening"]
        /\ UNCHANGED <<cap, last_free, table, refs, handle, fByName, fid>>
    BY DEF Flags!Open, Flags!Goto, Flags!tableVars
  <1>3. refs[o] = 0 /\ (\A u \in Threads : fobj[u] # o) /\ \A m \in Names : fByName[m] # o
    BY <1>1, FlagReferenced DEF Flags!Free
  <1>4. /\ fid' = [fid EXCEPT ![t] = IF "opening" = "run" THEN 0 ELSE @] /\ "opening" \in FlagPlaces
        /\ name' \in [Objs -> Names \cup {NoName}]
        /\ \A m \in Names : fByName[m] # None => name'[fByName[m]] = name[fByName[m]]
    <2>1. name' \in [Objs -> Names \cup {NoName}]
      BY <1>1 DEF FlagOwned, FlagTypes
    <2>2. \A m \in Names : fByName[m] # None => name'[fByName[m]] = name[fByName[m]]
      BY <1>1, <1>3 DEF FlagOwned, FlagTypes
    <2>3. QED
      BY <1>2, <2>1, <2>2 DEF FlagOwned, FlagTypes, FlagPlaces
  <1>5. \A p \in Objs : FlagHolds(t, p)' <=> FlagHolds(t, p)
    <2>1. fpc'[t] = "opening"
      BY <1>2 DEF FlagOwned, FlagTypes
    <2>2. QED
      BY <1>2, <2>1 DEF FlagHolds
  <1>6. /\ FlagTypes' /\ TableOK' /\ FlagRefsOK' /\ Flags!NamedFlagsLive'
        /\ fpc'[t] = "opening" /\ fobj'[t] = o
        /\ \A u \in Threads \ {t} : fpc'[u] = fpc[u] /\ fobj'[u] = fobj[u] /\ fid'[u] = fid[u]
    BY <1>1, <1>2, <1>4, <1>5, FlagPlainOwned
  <1>7. FlagInCall'
    BY <1>6 DEF FlagOwned, FlagInCall
  <1>8. FlagPrivate'
    BY <1>2, <1>3, <1>6 DEF FlagOwned, FlagPrivate
  <1>9. FlagLeaving'
    BY <1>2, <1>3, <1>6 DEF FlagOwned, FlagLeaving
  <1>10. QED
    BY <1>6, <1>7, <1>8, <1>9 DEF FlagOwned

\* Create, and open when it makes the flag.
LEMMA FlagCreateOwned ==
  ASSUME FlagOwned, NEW t \in Threads,
         (\E n \in Names \cup {NoName} : Flags!Create(t, n)) \/ Flags!OpenCreate(t)
  PROVE  FlagOwned'
  <1>1. ASSUME NEW n \in Names \cup {NoName}, Flags!Create(t, n) PROVE FlagOwned'
    <2>1. PICK o \in Objs : Flags!Free(o) /\ Flags!Construct(t, o) /\ name' = [name EXCEPT ![o] = n]
      BY <1>1 DEF Flags!Create
    <2>2. /\ fpc[t] = "run" /\ refs[o] = 0 /\ \A u \in Threads \ {t} : fobj[u] # o
      BY <1>1, <2>1 DEF Flags!Create, Flags!Free
    <2>3. /\ Add(o) /\ fpc' = [fpc EXCEPT ![t] = "naming"] /\ fobj' = [fobj EXCEPT ![t] = o]
          /\ UNCHANGED <<fByName, fid>>
      BY <2>1, FlagTable DEF Flags!Construct, Flags!Goto
    <2>4. name' \in [Objs -> Names \cup {NoName}] /\ \A p \in Objs \ {o} : name'[p] = name[p]
      BY <2>1 DEF FlagOwned, FlagTypes
    <2>5. QED
      BY <2>2, <2>3, <2>4, FlagMakesOwned
  <1>2. CASE Flags!OpenCreate(t)
    <2>1. fpc[t] = "opening" /\ Flags!Construct(t, fobj[t]) /\ name' = name
      BY <1>2 DEF Flags!OpenCreate
    <2>2. /\ Add(fobj[t]) /\ fpc' = [fpc EXCEPT ![t] = "naming"] /\ fobj' = [fobj EXCEPT ![t] = fobj[t]]
          /\ UNCHANGED <<fByName, fid>>
      BY <2>1, FlagTable DEF Flags!Construct, Flags!Goto
    <2>3. fobj[t] \in Objs /\ refs[fobj[t]] = 0 /\ \A u \in Threads \ {t} : fobj[u] # fobj[t]
      BY <2>1 DEF FlagOwned, FlagInCall, FlagPrivate
    <2>4. name' \in [Objs -> Names \cup {NoName}]
      BY <2>1 DEF FlagOwned, FlagTypes
    <2>5. QED
      BY <2>1, <2>2, <2>3, <2>4, FlagMakesOwned
  <1>3. QED
    BY <1>1, <1>2

\* Wait, trywait, set, clear and cancel end.
LEMMA FlagOperateOwned ==
  ASSUME FlagOwned, NEW t \in Threads, Flags!Operate(t)
  PROVE  FlagOwned'
  <1>1. /\ fpc[t] = "held" /\ fpc' = [fpc EXCEPT ![t] = "done"]
        /\ UNCHANGED <<cap, last_free, table, refs, handle, fByName, name, fobj, fid>>
    BY DEF Flags!Operate, Flags!Goto, Flags!tableVars
  <1>2. /\ fid' = [fid EXCEPT ![t] = IF "done" = "run" THEN 0 ELSE @] /\ "done" \in FlagPlaces
        /\ fobj' = [fobj EXCEPT ![t] = fobj[t]] /\ fobj[t] \in Objs \cup {None}
        /\ name' \in [Objs -> Names \cup {NoName}]
    BY <1>1 DEF FlagOwned, FlagTypes, FlagPlaces
  <1>3. \A p \in Objs : FlagHolds(t, p)' <=> FlagHolds(t, p)
    <2>1. fpc'[t] = "done"
      BY <1>1 DEF FlagOwned, FlagTypes
    <2>2. QED
      BY <1>1, <2>1 DEF FlagHolds
  <1>4. /\ FlagTypes' /\ TableOK' /\ FlagRefsOK' /\ Flags!NamedFlagsLive'
        /\ fpc'[t] = "done" /\ \A u \in Threads \ {t} : fpc'[u] = fpc[u]
    BY <1>1, <1>2, <1>3, FlagPlainOwned
  <1>5. FlagInCall' /\ FlagPrivate'
    BY <1>1, <1>4 DEF FlagOwned, FlagInCall, FlagPrivate
  <1>6. FlagLeaving'
    BY <1>1, <1>4 DEF FlagOwned, FlagLeaving
  <1>7. QED
    BY <1>4, <1>5, <1>6 DEF FlagOwned

\* The constructor of EventFlag registers the name.
LEMMA FlagRegisterOwned ==
  ASSUME FlagOwned, NEW t \in Threads, Flags!Register(t)
  PROVE  FlagOwned'
  <1> DEFINE p == fobj[t]
             n == name[p]
  <1>1. /\ fpc[t] = "naming" /\ fByName' = [m \in Names |-> IF m = n THEN p ELSE fByName[m]]
        /\ fpc' = [fpc EXCEPT ![t] = "run"] /\ fobj' = [fobj EXCEPT ![t] = None]
        /\ fid' = [fid EXCEPT ![t] = 0]
        /\ UNCHANGED <<cap, last_free, table, refs, handle, name>>
    BY DEF Flags!Register, Flags!Return, Flags!Goto, Flags!tableVars
  <1>2. p \in Objs /\ fpc \in [Threads -> FlagPlaces] /\ fobj \in [Threads -> Objs \cup {None}]
    BY <1>1 DEF FlagOwned, FlagInCall, FlagTypes
  <1>3. /\ fpc' \in [Threads -> FlagPlaces] /\ fobj' \in [Threads -> Objs \cup {None}]
        /\ fpc'[t] = "run" /\ fobj'[t] = None
        /\ \A u \in Threads \ {t} : fpc'[u] = fpc[u] /\ fobj'[u] = fobj[u]
    BY <1>1, FlagMoves DEF FlagPlaces
  <1>4. cap' = cap /\ last_free' = last_free /\ table' = table /\ refs' = refs /\ handle' = handle
    BY <1>1
  <1>5. TableOK'
    BY <1>4 DEF FlagOwned, TableOK, TableTypeOK, HandlesResolve, Searchable, ObjectAt
  <1>6. fid' \in [Threads -> 0 .. cap] /\ fid'[t] = 0 /\ \A u \in Threads \ {t} : fid'[u] = fid[u]
    <2>1. 0 \in 0 .. cap
      BY DEF FlagOwned, TableOK, TableTypeOK
    <2>2. QED
      BY <1>1, <2>1 DEF FlagOwned, FlagTypes
  <1>7. FlagTypes'
    BY <1>1, <1>2, <1>3, <1>4, <1>6 DEF FlagOwned, FlagTypes
  <1>8. FlagRefsOK'
    <2>1. SUFFICES ASSUME NEW o \in Objs
                   PROVE  refs'[o] = (IF handle'[o] = 0 THEN 0 ELSE 1) + Cardinality(Flags!Holders(o)')
      BY DEF FlagRefsOK
    <2>2. Flags!Holders(o)' = Flags!Holders(o)
      BY <1>1, <1>3 DEF Flags!Holders
    <2>3. QED
      BY <1>4, <2>2 DEF FlagOwned, FlagRefsOK
  <1>9. /\ handle[p] # 0 /\ refs[p] > 0 /\ (\A m \in Names : fByName[m] # p)
        /\ \A u \in Threads \ {t} : fobj[u] # p
    <2>1. handle[p] # 0 /\ (\A m \in Names : fByName[m] # p) /\ \A u \in Threads \ {t} : fobj[u] # p
      BY <1>1 DEF FlagOwned, FlagPrivate, FlagLeaving
    <2>2. QED
      BY <1>2, <2>1, FlagReferenced
  <1>10. Flags!NamedFlagsLive'
    <2>1. SUFFICES ASSUME NEW m \in Names, fByName'[m] # None
                   PROVE  refs'[fByName'[m]] > 0 /\ handle'[fByName'[m]] # 0 /\ name'[fByName'[m]] = m
      BY DEF Flags!NamedFlagsLive
    <2>2. CASE m = n
      BY <1>1, <1>4, <1>9, <2>1, <2>2
    <2>3. CASE m # n
      <3>1. fByName'[m] = fByName[m]
        BY <1>1, <2>1, <2>3
      <3>2. QED
        BY <1>1, <1>4, <2>1, <3>1 DEF FlagOwned, Flags!NamedFlagsLive
    <2>4. QED
      BY <2>2, <2>3
  <1>11. FlagInCall'
    BY <1>3, <1>6 DEF FlagOwned, FlagInCall
  <1>12. FlagPrivate'
    BY <1>3, <1>4, TableAssumptions DEF FlagOwned, FlagInCall, FlagPrivate
  <1>13. FlagLeaving'
    <2>1. \A u \in Threads, m \in Names : fpc'[u] \in {"naming", "unnamed"} => fByName'[m] # fobj'[u]
      BY <1>1, <1>3, <1>9 DEF FlagOwned, FlagLeaving
    <2>2. QED
      BY <1>3, <1>4, <1>6, <2>1 DEF FlagOwned, FlagLeaving
  <1>14. QED
    BY <1>5, <1>7, <1>8, <1>10, <1>11, <1>12, <1>13 DEF FlagOwned

\* FromId takes a reference to the flag.
LEMMA FlagFromIdOwned ==
  ASSUME FlagOwned, NEW t \in Threads, NEW h, Flags!FromId(t, h)
  PROVE  FlagOwned'
  <1> DEFINE p == ObjectAt(h)
  <1>1. /\ fpc[t] = "run" /\ p # None /\ \A u \in Threads : ~(fpc[u] = "naming" /\ fobj[u] = p)
        /\ refs' = [refs EXCEPT ![p] = @ + 1] /\ UNCHANGED <<cap, last_free, table, handle>>
        /\ fpc' = [fpc EXCEPT ![t] = "held"] /\ fobj' = [fobj EXCEPT ![t] = p]
        /\ fid' = [fid EXCEPT ![t] = h] /\ UNCHANGED <<fByName, name>>
    <2>1. Get(h) /\ Flags!ObjectAt(h) = p
      BY FlagTable DEF Flags!FromId
    <2>2. QED
      BY <2>1 DEF Flags!FromId, Flags!Goto, Get
  <1>2. p \in Objs /\ handle[p] = h /\ h # 0
    BY <1>1, AtHandle DEF FlagOwned
  <1> HIDE DEF p
  <1>3. /\ fpc' \in [Threads -> FlagPlaces] /\ fobj' \in [Threads -> Objs \cup {None}]
        /\ fpc'[t] = "held" /\ fobj'[t] = p
        /\ \A u \in Threads \ {t} : fpc'[u] = fpc[u] /\ fobj'[u] = fobj[u]
    BY <1>1, <1>2, FlagMoves DEF FlagPlaces
  <1>4. refs' \in [Objs -> Int] /\ refs'[p] = refs[p] + 1 /\ \A o \in Objs \ {p} : refs'[o] = refs[o]
    BY <1>1, <1>2 DEF FlagOwned, TableOK, TableTypeOK
  <1>5. TableOK'
    BY <1>1, <1>4, RefsKeep DEF FlagOwned
  <1>6. h \in 0 .. cap
    BY <1>2 DEF FlagOwned, TableOK, TableTypeOK
  <1>7. fid' \in [Threads -> 0 .. cap] /\ fid'[t] = h /\ \A u \in Threads \ {t} : fid'[u] = fid[u]
    BY <1>1, <1>6 DEF FlagOwned, FlagTypes
  <1>8. FlagTypes'
    BY <1>1, <1>3, <1>7 DEF FlagOwned, FlagTypes
  <1>9. FlagRefsOK'
    <2>1. /\ \A o \in Objs : ~FlagHolds(t, o)
          /\ \A o \in Objs : FlagHolds(t, o)' <=> (o = p)
      BY <1>1, <1>3 DEF FlagHolds
    <2>2. refs[p] \in Nat
      BY <1>2, FlagReferenced
    <2>3. QED
      BY <1>1, <1>2, <1>3, <1>4, <2>1, <2>2, FlagRefsStep DEF FlagHolds
  <1>10. refs[p] > 0
    BY <1>2, FlagReferenced
  <1>11. Flags!NamedFlagsLive'
    <2>1. \A o \in Objs : refs[o] > 0 => refs'[o] > 0
      BY <1>2, <1>4, <1>10, FlagReferenced
    <2>2. QED
      BY <1>1, <2>1 DEF FlagOwned, FlagTypes, Flags!NamedFlagsLive
  <1>12. FlagInCall'
    BY <1>2, <1>3, <1>7 DEF FlagOwned, FlagInCall
  <1>13. FlagPrivate'
    <2>1. \A u \in Threads : fpc[u] \in {"opening", "naming"} => u # t /\ fobj[u] # p
      BY <1>1, <1>10 DEF FlagOwned, FlagPrivate
    <2>2. \A u \in Threads : fpc[u] # "run" => fobj[u] \in Objs
      BY DEF FlagOwned, FlagInCall
    <2>3. QED
      BY <1>1, <1>3, <1>4, <2>1, <2>2 DEF FlagOwned, FlagPrivate
  <1>14. FlagLeaving'
    BY <1>1, <1>3, <1>7 DEF FlagOwned, FlagLeaving
  <1>15. QED
    BY <1>5, <1>8, <1>9, <1>11, <1>12, <1>13, <1>14 DEF FlagOwned

\* The first half of a deletion: the flag's name goes, and with it any way to find
\* the flag by a name.
LEMMA FlagDeleteNameOwned ==
  ASSUME FlagOwned, NEW t \in Threads, Flags!DeleteName(t)
  PROVE  FlagOwned'
  <1> DEFINE p == fobj[t]
  <1>1. /\ fpc[t] = "held" /\ ObjectAt(fid[t]) = p
        /\ \A u \in Threads \ {t} : ~(fpc[u] = "unnamed" /\ fid[u] = fid[t])
        /\ fByName' = [n \in Names |-> IF n = name[p] THEN None ELSE fByName[n]]
        /\ fpc' = [fpc EXCEPT ![t] = "unnamed"]
        /\ UNCHANGED <<cap, last_free, table, refs, handle, name, fobj, fid>>
    BY FlagTable DEF Flags!DeleteName, Flags!SoleDeleter, Flags!Goto, Flags!tableVars
  <1>2. p \in Objs /\ p # None
    BY <1>1, TableAssumptions DEF FlagOwned, FlagInCall
  <1>3. handle[p] = fid[t] /\ fid[t] # 0
    BY <1>1, <1>2, AtHandle DEF FlagOwned
  <1>4. /\ fpc' \in [Threads -> FlagPlaces] /\ fpc'[t] = "unnamed"
        /\ \A u \in Threads \ {t} : fpc'[u] = fpc[u]
    BY <1>1 DEF FlagOwned, FlagTypes, FlagPlaces
  <1>5. cap' = cap /\ last_free' = last_free /\ table' = table /\ refs' = refs /\ handle' = handle
    BY <1>1
  <1>6. TableOK'
    BY <1>5 DEF FlagOwned, TableOK, TableTypeOK, HandlesResolve, Searchable, ObjectAt
  <1>7. FlagTypes'
    BY <1>1, <1>4, <1>5 DEF FlagOwned, FlagTypes
  <1>8. FlagRefsOK'
    <2>1. SUFFICES ASSUME NEW o \in Objs
                   PROVE  refs'[o] = (IF handle'[o] = 0 THEN 0 ELSE 1) + Cardinality(Flags!Holders(o)')
      BY DEF FlagRefsOK
    <2>2. Flags!Holders(o)' = Flags!Holders(o)
      BY <1>1, <1>4 DEF Flags!Holders
    <2>3. QED
      BY <1>5, <2>2 DEF FlagOwned, FlagRefsOK
  <1>9. \A n \in Names : fByName'[n] # p /\ (fByName'[n] = fByName[n] \/ fByName'[n] = None)
    <2>1. \A n \in Names : fByName[n] = p => n = name[p]
      BY <1>2 DEF FlagOwned, Flags!NamedFlagsLive
    <2>2. QED
      BY <1>1, <1>2, <2>1
  <1>10. Flags!NamedFlagsLive'
    BY <1>1, <1>5, <1>9 DEF FlagOwned, Flags!NamedFlagsLive
  <1>11. FlagInCall' /\ FlagPrivate'
    BY <1>1, <1>4, <1>5 DEF FlagOwned, FlagInCall, FlagPrivate
  <1>12. FlagLeaving'
    <2>1. \A u \in Threads, n \in Names : fpc'[u] \in {"naming", "unnamed"} => fByName'[n] # fobj[u]
      <3>1. SUFFICES ASSUME NEW u \in Threads, NEW n \in Names, fpc'[u] \in {"naming", "unnamed"}
                     PROVE  fByName'[n] # fobj[u]
        OBVIOUS
      <3>2. fobj[u] # None
        BY <1>4, <1>1, <3>1, TableAssumptions DEF FlagOwned, FlagInCall
      <3>3. QED
        BY <1>4, <1>9, <3>1, <3>2 DEF FlagOwned, FlagLeaving
    <2>2. \A u \in Threads \ {t} : fpc[u] = "unnamed" => fobj[u] # p
      BY <1>1, <1>3 DEF FlagOwned, FlagLeaving
    <2>3. QED
      BY <1>1, <1>3, <1>4, <1>5, <2>1, <2>2 DEF FlagOwned, FlagLeaving
  <1>13. QED
    BY <1>6, <1>7, <1>8, <1>10, <1>11, <1>12 DEF FlagOwned

\* The second half: the flag's handle.
LEMMA FlagDeleteHandleOwned ==
  ASSUME FlagOwned, NEW t \in Threads, Flags!DeleteHandle(t)
  PROVE  FlagOwned'
  <1> DEFINE p == fobj[t]
  <1>1. /\ fpc[t] = "unnamed" /\ Release(fid[t]) /\ fpc' = [fpc EXCEPT ![t] = "done"]
        /\ UNCHANGED <<fByName, name, fobj, fid>>
    BY FlagTable DEF Flags!DeleteHandle, Flags!Goto
  <1>2. p \in Objs /\ handle[p] = fid[t] /\ fid[t] # 0 /\ \A n \in Names : fByName[n] # p
    BY <1>1 DEF FlagOwned, FlagInCall, FlagLeaving
  <1>3. /\ TableOK' /\ cap' = cap
        /\ handle' = [handle EXCEPT ![p] = 0] /\ refs' = [refs EXCEPT ![p] = @ - 1]
    BY <1>1, <1>2, ReleaseKeeps DEF FlagOwned
  <1>4. /\ handle'[p] = 0 /\ refs'[p] = refs[p] - 1
        /\ \A o \in Objs \ {p} : handle'[o] = handle[o] /\ refs'[o] = refs[o]
    BY <1>2, <1>3 DEF FlagOwned, TableOK, TableTypeOK
  <1>5. /\ fpc' \in [Threads -> FlagPlaces] /\ fpc'[t] = "done"
        /\ \A u \in Threads \ {t} : fpc'[u] = fpc[u]
    BY <1>1 DEF FlagOwned, FlagTypes, FlagPlaces
  <1>6. FlagTypes'
    BY <1>1, <1>3, <1>5 DEF FlagOwned, FlagTypes
  <1>7. FlagRefsOK'
    <2>1. \A o \in Objs : FlagHolds(t, o)' <=> FlagHolds(t, o)
      BY <1>1, <1>5 DEF FlagHolds
    <2>2. refs[p] \in Nat
      BY <1>2, FlagReferenced
    <2>3. QED
      BY <1>1, <1>2, <1>4, <1>5, <2>1, <2>2, FlagRefsStep DEF FlagHolds
  <1>8. Flags!NamedFlagsLive'
    <2>1. \A n \in Names : fByName[n] # None => fByName[n] \in Objs \ {p}
      BY <1>2 DEF FlagOwned, FlagTypes
    <2>2. QED
      BY <1>1, <1>4, <2>1 DEF FlagOwned, Flags!NamedFlagsLive
  <1>9. FlagInCall'
    BY <1>1, <1>5 DEF FlagOwned, FlagInCall
  <1>10. FlagPrivate'
    <2>1. \A u \in Threads : fpc[u] \in {"opening", "naming"} => fobj[u] \in Objs \ {p}
      BY <1>1 DEF FlagOwned, FlagInCall, FlagPrivate
    <2>2. QED
      BY <1>1, <1>4, <1>5, <2>1 DEF FlagOwned, FlagPrivate
  <1>11. FlagLeaving'
    <2>1. \A u \in Threads \ {t} : fpc[u] = "unnamed" => fobj[u] \in Objs \ {p}
      BY <1>1 DEF FlagOwned, FlagInCall, FlagLeaving
    <2>2. QED
      BY <1>1, <1>4, <1>5, <2>1 DEF FlagOwned, FlagLeaving
  <1>12. QED
    BY <1>3, <1>6, <1>7, <1>8, <1>9, <1>10, <1>11 DEF FlagOwned

\* A call drops its reference; with the last one the flag is gone.
LEMMA FlagDropOwned ==
  ASSUME FlagOwned, NEW t \in Threads, Flags!Drop(t)
  PROVE  FlagOwned'
  <1> DEFINE p == fobj[t]
             c == Cardinality(Flags!Holders(p))
  <1>1. /\ fpc[t] = "done" /\ refs' = [refs EXCEPT ![p] = @ - 1]
        /\ name' = IF refs[p] = 1 THEN [name EXCEPT ![p] = NoName] ELSE name
        /\ UNCHANGED <<cap, last_free, table, handle, fByName>>
        /\ fpc' = [fpc EXCEPT ![t] = "run"] /\ fobj' = [fobj EXCEPT ![t] = None] /\ fid' = [fid EXCEPT ![t] = 0]
    BY FlagTable DEF Flags!Drop, DropRef, Flags!Return, Flags!Goto
  <1>2. p \in Objs /\ p # None
    BY <1>1, TableAssumptions DEF FlagOwned, FlagInCall
  <1>3. refs' \in [Objs -> Int] /\ refs'[p] = refs[p] - 1 /\ \A o \in Objs \ {p} : refs'[o] = refs[o]
    BY <1>1, <1>2 DEF FlagOwned, TableOK, TableTypeOK
  <1>4. TableOK'
    BY <1>1, <1>3, RefsKeep DEF FlagOwned
  <1>5. c \in Nat \ {0}
    <2>1. t \in Flags!Holders(p)
      BY <1>1 DEF Flags!Holders
    <2>2. IsFiniteSet(Flags!Holders(p)) /\ c \in Nat /\ (c = 0 <=> Flags!Holders(p) = {})
      BY FlagHoldersFinite
    <2>3. QED
      BY <2>1, <2>2
  <1>6. refs[p] = (IF handle[p] = 0 THEN 0 ELSE 1) + c
    BY <1>2 DEF FlagOwned, FlagRefsOK
  <1> HIDE DEF c
  <1>7. Flags!NamedFlagsLive'
    <2>1. handle[p] # 0 => refs'[p] > 0 /\ refs[p] # 1
      BY <1>3, <1>5, <1>6
    <2>2. \A n \in Names : fByName[n] # None => fByName[n] \in Objs
      BY DEF FlagOwned, FlagTypes
    <2>3. \A n \in Names : fByName[n] # None => name'[fByName[n]] = name[fByName[n]]
      BY <1>1, <2>1, <2>2 DEF FlagOwned, FlagTypes, Flags!NamedFlagsLive
    <2>4. QED
      BY <1>1, <1>3, <2>1, <2>2, <2>3 DEF FlagOwned, Flags!NamedFlagsLive
  <1>8. /\ fobj \in [Threads -> Objs \cup {None}] /\ fpc \in [Threads -> FlagPlaces]
        /\ fid \in [Threads -> 0 .. cap] /\ 0 \in 0 .. cap /\ name' \in [Objs -> Names \cup {NoName}]
    <2>1. name \in [Objs -> Names \cup {NoName}]
      BY DEF FlagOwned, FlagTypes
    <2>2. name' \in [Objs -> Names \cup {NoName}]
      BY <1>1, <2>1
    <2>3. QED
      BY <2>2 DEF FlagOwned, FlagTypes, TableOK, TableTypeOK
  <1>9. /\ fpc' \in [Threads -> FlagPlaces] /\ fpc'[t] = "run"
        /\ fobj' \in [Threads -> Objs \cup {None}] /\ fobj'[t] = None
        /\ fid' \in [Threads -> 0 .. cap] /\ fid'[t] = 0
        /\ \A u \in Threads \ {t} : fpc'[u] = fpc[u] /\ fobj'[u] = fobj[u] /\ fid'[u] = fid[u]
    BY <1>1, <1>8 DEF FlagPlaces
  <1>10. FlagRefsOK'
    <2>1. /\ FlagHolds(t, p) /\ \A o \in Objs : ~FlagHolds(t, o)'
          /\ \A o \in Objs \ {p} : ~FlagHolds(t, o)
      BY <1>1, <1>9 DEF FlagHolds
    <2>2. refs[p] \in Nat
      BY <1>2, FlagReferenced
    <2>3. QED
      BY <1>1, <1>2, <1>3, <1>9, <2>1, <2>2, FlagRefsStep DEF FlagHolds
  <1>11. FlagInCall' /\ FlagTypes'
    BY <1>1, <1>8, <1>9 DEF FlagOwned, FlagInCall, FlagTypes
  <1>12. FlagPrivate'
    <2>1. \A u \in Threads : fpc[u] # "run" => fobj[u] \in Objs
      BY DEF FlagOwned, FlagInCall
    <2>2. \A u \in Threads \ {t} : fpc[u] = "opening" => fobj[u] # p
      BY <1>1 DEF FlagOwned, FlagPrivate
    <2>3. QED
      BY <1>1, <1>3, <1>9, <2>1, <2>2, TableAssumptions DEF FlagOwned, FlagPrivate
  <1>13. FlagLeaving'
    BY <1>1, <1>9 DEF FlagOwned, FlagLeaving
  <1>14. QED
    BY <1>4, <1>7, <1>10, <1>11, <1>12, <1>13 DEF FlagOwned

\* The flags at the start of the first session, and of the next one.
LEMMA FlagFreshOwned ==
  /\ Flags!Init => FlagOwned
  /\ FlagOwned /\ Flags!NextSession => FlagOwned'
  <1>1. Flags!Init => FlagOwned
    <2>1. SUFFICES ASSUME Flags!Init PROVE FlagOwned
      OBVIOUS
    <2>2. /\ TableInit /\ cap = 0 /\ \A t \in Threads : fpc[t] = "run" /\ fobj[t] = None /\ fid[t] = 0
          /\ \A n \in Names : fByName[n] = None
      BY <2>1, FlagTable DEF Flags!Init, TableInit
    <2>3. TableOK
      BY <2>2, EmptyTable
    <2>4. FlagTypes
      <3>1. 0 \in 0 .. 0
        OBVIOUS
      <3>2. QED
        BY <2>1, <2>2, <3>1 DEF Flags!Init, FlagTypes, FlagPlaces
    <2>5. FlagRefsOK
      <3>1. \A o \in Objs : Flags!Holders(o) = {}
        BY <2>2 DEF Flags!Holders
      <3>2. QED
        BY <2>2, <3>1, FS_EmptySet DEF FlagRefsOK, TableInit
    <2>6. Flags!NamedFlagsLive /\ FlagInCall /\ FlagPrivate /\ FlagLeaving
      BY <2>2 DEF Flags!NamedFlagsLive, FlagInCall, FlagPrivate, FlagLeaving
    <2>7. QED
      BY <2>3, <2>4, <2>5, <2>6 DEF FlagOwned
  <1>2. FlagOwned /\ Flags!NextSession => FlagOwned'
    <2>1. SUFFICES ASSUME FlagOwned, Flags!NextSession PROVE FlagOwned'
      OBVIOUS
    <2>2. /\ Reset /\ cap' = 0 /\ UNCHANGED <<fpc, fobj, fid>> /\ fByName' = [n \in Names |-> None]
          /\ name' = [o \in Objs |-> NoName]
          /\ \A t \in Threads : fpc[t] = "run" /\ fobj[t] = None /\ fid[t] = 0
      BY <2>1, FlagTable DEF Flags!NextSession, Reset, FlagOwned, FlagInCall
    <2>3. TableOK'
      BY <2>2, EmptyTable
    <2>4. FlagTypes'
      <3>1. 0 \in 0 .. 0
        OBVIOUS
      <3>2. QED
        BY <2>1, <2>2, <3>1 DEF FlagOwned, FlagTypes
    <2>5. FlagRefsOK'
      <3>1. \A o \in Objs : Flags!Holders(o)' = {}
        BY <2>2 DEF Flags!Holders
      <3>2. \A o \in Objs : refs'[o] = 0 /\ handle'[o] = 0
        BY <2>2 DEF Reset
      <3>3. QED
        BY <3>1, <3>2, FS_EmptySet DEF FlagRefsOK
    <2>6. Flags!NamedFlagsLive' /\ FlagInCall' /\ FlagPrivate' /\ FlagLeaving'
      BY <2>2 DEF Flags!NamedFlagsLive, FlagInCall, FlagPrivate, FlagLeaving
    <2>7. QED
      BY <2>3, <2>4, <2>5, <2>6 DEF FlagOwned
  <1>3. QED
    BY <1>1, <1>2

\* Every step of the specification keeps the ownership of flags.
LEMMA FlagStep == ASSUME FlagOwned, [Flags!Next]_(Flags!vars) PROVE FlagOwned'
  <1>1. CASE UNCHANGED Flags!vars
    <2>1. UNCHANGED <<cap, last_free, table, refs, handle, fByName, name, fpc, fobj, fid>>
      BY <1>1 DEF Flags!vars, Flags!tableVars
    <2>2. \A o : Flags!Holders(o)' = Flags!Holders(o)
      BY <2>1 DEF Flags!Holders
    <2>3. TableOK' /\ FlagTypes' /\ FlagRefsOK'
      BY <2>1, <2>2 DEF FlagOwned, FlagTypes, TableOK, TableTypeOK, HandlesResolve, Searchable, ObjectAt, FlagRefsOK
    <2>4. Flags!NamedFlagsLive' /\ FlagInCall' /\ FlagPrivate' /\ FlagLeaving'
      BY <2>1 DEF FlagOwned, Flags!NamedFlagsLive, FlagInCall, FlagPrivate, FlagLeaving
    <2>5. QED
      BY <2>3, <2>4 DEF FlagOwned
  <1>2. CASE Flags!NextSession
    BY <1>2, FlagFreshOwned
  <1>3. ASSUME NEW t \in Threads, NEW n \in Names \cup {NoName}, Flags!Create(t, n) PROVE FlagOwned'
    BY <1>3, FlagCreateOwned
  <1>4. ASSUME NEW t \in Threads, NEW n \in Names, Flags!Open(t, n) PROVE FlagOwned'
    BY <1>4, FlagOpenOwned
  <1>5. ASSUME NEW t \in Threads, NEW h, Flags!FromId(t, h) PROVE FlagOwned'
    BY <1>5, FlagFromIdOwned
  <1>6. ASSUME NEW t \in Threads, Flags!Step(t) PROVE FlagOwned'
    BY <1>6, FlagCreateOwned, FlagRegisterOwned, FlagOperateOwned, FlagDeleteNameOwned,
       FlagDeleteHandleOwned, FlagDropOwned DEF Flags!Step
  <1>7. QED
    BY <1>1, <1>2, <1>3, <1>4, <1>5, <1>6 DEF Flags!Next

\* The inductive invariant says what the property says.
LEMMA FlagImplies == ASSUME FlagOwned PROVE Flags!FlagsInv
  <1>1. Flags!TypeOK
    BY FlagTable DEF FlagOwned, FlagTypes, TableOK, Flags!TypeOK, FlagPlaces
  <1>2. Flags!HandlesResolve
    BY FlagTable DEF FlagOwned, TableOK
  <1>3. Flags!FlagRefsExact
    <2>1. \A o \in Objs : SlotsOf(o) = IF handle[o] = 0 THEN 0 ELSE 1
      BY OneSlot DEF FlagOwned
    <2>2. \A o \in Objs : refs[o] = SlotsOf(o) + Cardinality(Flags!Holders(o))
      BY <2>1 DEF FlagOwned, FlagRefsOK
    <2>3. \A x : Flags!Cardinality(x) = Cardinality(x)
      BY DEF Flags!Cardinality, Cardinality
    <2>4. QED
      BY <2>2, <2>3, FlagTable DEF Flags!FlagRefsExact
  <1>4. QED
    BY <1>1, <1>2, <1>3 DEF Flags!FlagsInv, FlagOwned

\* sys_evf: across create, open, close and delete in any order a flag has exactly the
\* references of its slot and of the calls on it, and a name leads to a flag of that
\* name which has its handle: open's answer is a good id, and the host, which sets
\* and clears flags by name and holds no reference, finds no flag that is freed.
THEOREM FlagNamesSafe ==
  /\ Flags!Spec => []Flags!FlagsInv
  /\ AllSpec => []FlagNamesInv
  <1> DEFINE I == used = "flag" => FlagOwned
  <1>1. Flags!Init => FlagOwned
    BY FlagFreshOwned
  <1>2. FlagOwned /\ [Flags!Next]_(Flags!vars) => FlagOwned'
    BY FlagStep
  <1>3. FlagOwned => Flags!FlagsInv
    BY FlagImplies
  <1>4. AllInit => I
    BY <1>1 DEF AllInit
  <1>5. I /\ [AllNext]_allVars => I'
    <2>1. SUFFICES ASSUME I, [AllNext]_allVars, used' = "flag" PROVE FlagOwned'
      OBVIOUS
    <2>2. used = "flag" /\ [Flags!Next]_(Flags!vars)
      <3>1. CASE AllNext
        BY <2>1, <3>1 DEF AllNext, InSem, InKsem, InFlags, InSession
      <3>2. CASE UNCHANGED allVars
        BY <2>1, <3>2 DEF allVars, semOnly, tableVars, flagOnly, Flags!vars, Flags!tableVars
      <3>3. QED
        BY <2>1, <3>1, <3>2
    <2>3. QED
      BY <1>2, <2>1, <2>2
  <1>6. I => FlagNamesInv
    BY <1>3 DEF FlagNamesInv
  <1> HIDE DEF I
  <1>7. AllSpec => []FlagNamesInv
    BY <1>4, <1>5, <1>6, PTL DEF AllSpec
  <1>8. Flags!Spec => []Flags!FlagsInv
    BY <1>1, <1>2, <1>3, PTL DEF Flags!Spec
  <1>9. QED
    BY <1>7, <1>8
=============================================================================
