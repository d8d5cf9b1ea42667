---------------------------- MODULE Memory_proofs ----------------------------
(***************************************************************************)
(* Proofs about VmMap: its entries stay typed and disjoint, read as        *)
(* translations they implement PageTable, and no host page keeps a frame   *)
(* the list no longer gives it.  And about Dmem: the reservations stay     *)
(* sorted and disjoint, both searches answer what a search of every free   *)
(* page would, and the list implements FramePool.                          *)
(***************************************************************************)
EXTENDS Memory, SequenceTheorems, WellFoundedInduction, TLAPS

Proper(e) == e \in Entry /\ e.lo < e.hi

\* The two candidate pieces of an entry, field by field.
LowPiece(e, lo) == [e EXCEPT !.hi = lo]
HighPiece(e, hi) == [lo |-> hi, hi |-> e.hi, phys |-> e.phys + (hi - e.lo),
                     direct |-> e.direct, prot |-> e.prot]

\* The head PunchHoleLocked keeps of an entry, field by field.
LEMMA LowPieceFields ==
    ASSUME NEW e \in Entry, NEW lo \in 0 .. NPages
    PROVE  /\ LowPiece(e, lo) \in Entry
           /\ LowPiece(e, lo).lo = e.lo /\ LowPiece(e, lo).hi = lo
           /\ LowPiece(e, lo).phys = e.phys /\ LowPiece(e, lo).direct = e.direct
  BY DEF LowPiece, Entry

\* The tail PunchHoleLocked keeps of an entry, field by field.
LEMMA HighPieceFields ==
    ASSUME NEW e \in Entry, NEW hi \in 0 .. NPages
    PROVE  /\ HighPiece(e, hi) \in Entry
           /\ HighPiece(e, hi).lo = hi /\ HighPiece(e, hi).hi = e.hi
           /\ HighPiece(e, hi).phys = e.phys + (hi - e.lo)
           /\ HighPiece(e, hi).direct = e.direct
  <1>1. e.lo \in 0 .. NPages /\ e.hi \in 0 .. NPages /\ e.phys \in Int
        /\ e.direct \in BOOLEAN /\ e.prot \in Prots
    BY DEF Entry
  <1>2. e.phys + (hi - e.lo) \in Int
    BY <1>1, SizesAreNat
  <1>3. QED
    BY <1>1, <1>2 DEF HighPiece, Entry

\* Cut in terms of its two pieces.
LEMMA CutIs ==
    ASSUME NEW e \in Entry, NEW lo \in 0 .. NPages, NEW hi \in 0 .. NPages, NEW p
    PROVE  p \in Cut(e, lo, hi) <=>
             \/ ~Overlap(e, lo, hi) /\ p = e
             \/ Overlap(e, lo, hi) /\ e.lo < lo /\ p = LowPiece(e, lo)
             \/ Overlap(e, lo, hi) /\ hi < e.hi /\ p = HighPiece(e, hi)
  <1>1. Cut(e, lo, hi) = IF Overlap(e, lo, hi)
                         THEN {x \in {LowPiece(e, lo), HighPiece(e, hi)} : x.lo < x.hi}
                         ELSE {e}
    BY DEF Cut, LowPiece, HighPiece
  <1>2. QED
    BY <1>1, LowPieceFields, HighPieceFields

\* What is left of an entry is a part of it with the same backing, clear of
\* the erased range (PunchHoleLocked, one entry).
LEMMA CutPieces ==
    ASSUME NEW e, Proper(e), NEW lo \in 0 .. NPages, NEW hi \in 0 .. NPages,
           lo < hi, NEW p \in Cut(e, lo, hi)
    PROVE  /\ Proper(p)
           /\ e.lo <= p.lo /\ p.hi <= e.hi
           /\ p.hi <= lo \/ hi <= p.lo
           /\ p.direct = e.direct
           /\ p.phys - p.lo = e.phys - e.lo
  <1>1. e \in Entry /\ e.lo \in Int /\ e.hi \in Int /\ e.phys \in Int /\ e.lo < e.hi
    BY SizesAreNat DEF Proper, Entry
  <1>2. CASE ~Overlap(e, lo, hi) /\ p = e
    BY <1>1, <1>2, SizesAreNat DEF Proper, Overlap
  <1>3. CASE Overlap(e, lo, hi) /\ e.lo < lo /\ p = LowPiece(e, lo)
    BY <1>1, <1>3, LowPieceFields, SizesAreNat DEF Proper, Overlap
  <1>4. CASE Overlap(e, lo, hi) /\ hi < e.hi /\ p = HighPiece(e, hi)
    <2>1. /\ p \in Entry /\ p.lo = hi /\ p.hi = e.hi /\ p.direct = e.direct
          /\ p.phys = e.phys + (hi - e.lo)
      BY <1>1, <1>4, HighPieceFields
    <2>2. hi \in Int /\ e.lo < hi /\ hi < e.hi
      BY <1>4, SizesAreNat DEF Overlap
    <2>3. p.phys - p.lo = e.phys - e.lo /\ e.lo <= p.lo
      BY <1>1, <2>1, <2>2
    <2>4. QED
      BY <1>1, <2>1, <2>2, <2>3 DEF Proper
  <1>5. QED
    BY <1>1, <1>2, <1>3, <1>4, CutIs

\* The two pieces of one entry do not meet.
LEMMA CutPiecesDisjoint ==
    ASSUME NEW e, Proper(e), NEW lo \in 0 .. NPages, NEW hi \in 0 .. NPages,
           lo < hi, NEW p \in Cut(e, lo, hi), NEW q \in Cut(e, lo, hi), p # q
    PROVE  p.hi <= q.lo \/ q.hi <= p.lo
  <1>1. e \in Entry
    BY DEF Proper
  <1>2. \/ p = LowPiece(e, lo) /\ q = HighPiece(e, hi)
        \/ p = HighPiece(e, hi) /\ q = LowPiece(e, lo)
    BY <1>1, CutIs
  <1>3. LowPiece(e, lo).hi = lo /\ HighPiece(e, hi).lo = hi /\ lo <= hi
    BY <1>1, LowPieceFields, HighPieceFields, SizesAreNat
  <1>4. QED
    BY <1>2, <1>3

\* No page outside the erased range is lost.
LEMMA CutCovers ==
    ASSUME NEW e, Proper(e), NEW lo \in 0 .. NPages, NEW hi \in 0 .. NPages,
           lo < hi, NEW v \in Int, e.lo <= v, v < e.hi, v < lo \/ hi <= v
    PROVE  \E p \in Cut(e, lo, hi) : p.lo <= v /\ v < p.hi
  <1>1. e \in Entry /\ e.lo \in Int /\ e.hi \in Int
    BY SizesAreNat DEF Proper, Entry
  <1>2. CASE ~Overlap(e, lo, hi)
    BY <1>1, <1>2, CutIs
  <1>3. CASE Overlap(e, lo, hi) /\ v < lo
    <2>1. LowPiece(e, lo) \in Cut(e, lo, hi)
      BY <1>1, <1>3, CutIs, SizesAreNat
    <2>2. QED
      BY <1>1, <1>3, <2>1, LowPieceFields
  <1>4. CASE Overlap(e, lo, hi) /\ hi <= v
    <2>1. HighPiece(e, hi) \in Cut(e, lo, hi)
      BY <1>1, <1>4, CutIs, SizesAreNat
    <2>2. QED
      BY <1>1, <1>4, <2>1, HighPieceFields
  <1>5. QED
    BY <1>2, <1>3, <1>4

\* The pages of an entry that map released frames are a range of that entry
\* (the "removed" list of VmMap::RemoveDirect).
LEMMA DirectRange ==
    ASSUME NEW e, Proper(e), NEW plo \in Int, NEW phi \in Int, plo < phi,
           Overlay(e, plo, phi)
    PROVE  /\ DirectLo(e, plo) \in 0 .. NPages
           /\ DirectHi(e, phi) \in 0 .. NPages
           /\ DirectLo(e, plo) < DirectHi(e, phi)
           /\ \A v \in Int : e.lo <= v /\ v < e.hi =>
                 ((v < DirectLo(e, plo) \/ DirectHi(e, phi) <= v)
                    <=> ~(plo <= e.phys + (v - e.lo) /\ e.phys + (v - e.lo) < phi))
  BY SizesAreNat DEF Proper, Entry, Overlay, DirectLo, DirectHi, VaOf, Larger, Smaller
-----------------------------------------------------------------------------
(* Punching a range out of the list, and the direct pages of a frame range. *)

\* The invariant, read for one entry.
LEMMA ProperEntries ==
    ASSUME TypeOK, NEW e \in entries
    PROVE  /\ Proper(e)
           /\ e.lo \in 0 .. NPages /\ e.hi \in 0 .. NPages /\ e.phys \in Int
           /\ e.lo \in Int /\ e.hi \in Int /\ e.lo < e.hi
  BY SizesAreNat DEF TypeOK, Proper, Entry

\* Erasing a range keeps the list proper and disjoint, and clear of the range.
LEMMA PunchHoleKeeps ==
    ASSUME TypeOK, Disjoint, NEW lo \in 0 .. NPages, NEW hi \in 0 .. NPages, lo < hi
    PROVE  /\ \A p \in PunchHole(lo, hi) :
                 Proper(p) /\ (p.hi <= lo \/ hi <= p.lo)
           /\ \A p, q \in PunchHole(lo, hi) : p # q => p.hi <= q.lo \/ q.hi <= p.lo
  <1>1. ASSUME NEW p \in PunchHole(lo, hi)
        PROVE  Proper(p) /\ (p.hi <= lo \/ hi <= p.lo)
    <2>1. PICK e \in entries : p \in Cut(e, lo, hi)
      BY DEF PunchHole
    <2>2. QED
      BY <2>1, ProperEntries, CutPieces
  <1>2. ASSUME NEW p \in PunchHole(lo, hi), NEW q \in PunchHole(lo, hi), p # q
        PROVE  p.hi <= q.lo \/ q.hi <= p.lo
    <2>1. PICK e \in entries : p \in Cut(e, lo, hi)
      BY DEF PunchHole
    <2>2. PICK f \in entries : q \in Cut(f, lo, hi)
      BY DEF PunchHole
    <2>3. CASE e = f
      BY <2>1, <2>2, <2>3, <1>2, ProperEntries, CutPiecesDisjoint
    <2>4. CASE e # f
      <3>1. e.hi <= f.lo \/ f.hi <= e.lo
        BY <2>4 DEF Disjoint
      <3>2. e.lo <= p.lo /\ p.hi <= e.hi /\ f.lo <= q.lo /\ q.hi <= f.hi
        BY <2>1, <2>2, ProperEntries, CutPieces
      <3>3. Proper(p) /\ Proper(q)
        BY <1>1
      <3>4. p.lo \in Int /\ p.hi \in Int /\ q.lo \in Int /\ q.hi \in Int
        BY <3>3, SizesAreNat DEF Proper, Entry
      <3>5. QED
        BY <3>1, <3>2, <3>4, ProperEntries
    <2>5. QED
      BY <2>3, <2>4
  <1>3. QED
    BY <1>1, <1>2

\* Releasing frames cuts each entry within itself, so the list stays proper
\* and disjoint.
LEMMA PunchDirectKeeps ==
    ASSUME TypeOK, Disjoint, NEW plo \in Int, NEW phi \in Int, plo < phi
    PROVE  /\ \A p \in PunchDirect(plo, phi) : Proper(p)
           /\ \A p, q \in PunchDirect(plo, phi) : p # q => p.hi <= q.lo \/ q.hi <= p.lo
  <1> DEFINE Left(e) == IF Overlay(e, plo, phi)
                        THEN Cut(e, DirectLo(e, plo), DirectHi(e, phi))
                        ELSE {e}
  <1>1. ASSUME NEW e \in entries, NEW p \in Left(e)
        PROVE  Proper(p) /\ e.lo <= p.lo /\ p.hi <= e.hi
               /\ p.lo \in Int /\ p.hi \in Int
    <2>1. Proper(p) /\ e.lo <= p.lo /\ p.hi <= e.hi
      <3>1. CASE Overlay(e, plo, phi)
        BY <1>1, <3>1, ProperEntries, DirectRange, CutPieces
      <3>2. CASE ~Overlay(e, plo, phi)
        BY <1>1, <3>2, ProperEntries
      <3>3. QED
        BY <3>1, <3>2
    <2>2. QED
      BY <2>1, SizesAreNat DEF Proper, Entry
  <1>2. ASSUME NEW e \in entries, NEW p \in Left(e), NEW q \in Left(e), p # q
        PROVE  p.hi <= q.lo \/ q.hi <= p.lo
    BY <1>2, ProperEntries, DirectRange, CutPiecesDisjoint
  <1>3. \A p \in PunchDirect(plo, phi) : \E e \in entries : p \in Left(e)
    BY DEF PunchDirect
  <1> HIDE DEF Left
  <1>4. ASSUME NEW p \in PunchDirect(plo, phi), NEW q \in PunchDirect(plo, phi), p # q
        PROVE  p.hi <= q.lo \/ q.hi <= p.lo
    <2>1. PICK e \in entries : p \in Left(e)
      BY <1>3
    <2>2. PICK f \in entries : q \in Left(f)
      BY <1>3
    <2>3. CASE e = f
      BY <1>2, <1>4, <2>1, <2>2, <2>3
    <2>4. CASE e # f
      <3>1. e.hi <= f.lo \/ f.hi <= e.lo
        BY <2>4 DEF Disjoint
      <3>2. QED
        BY <1>1, <2>1, <2>2, <3>1, ProperEntries
    <2>5. QED
      BY <2>3, <2>4
  <1>5. QED
    BY <1>1, <1>3, <1>4
-----------------------------------------------------------------------------
(* The inductive invariant: typing needs no more than itself, disjointness  *)
(* needs entries that are proper.                                           *)

Inv == TypeOK /\ Disjoint

\* The part of TypeOK about the range of a half-done call.
CallProper(t) ==
    /\ call[t].op = "map" => /\ call[t].entry.lo < call[t].entry.hi
                            /\ call[t].entry.phys \in 0 .. MapEnd
    /\ call[t].op = "unmap" => call[t].lo < call[t].hi

\* The empty list satisfies the invariant.
LEMMA InitInv == Init => Inv
  <1> SUFFICES ASSUME Init PROVE Inv
    OBVIOUS
  <1>1. host \in [Pages -> Frames \cup {Private, Unmapped}]
    BY DEF Init
  <1>2. call \in [Threads -> {Idle} \cup Mapping \cup Unmapping]
    BY DEF Init
  <1>3. \A t \in Threads : call[t].op = "idle"
    BY DEF Init, Idle
  <1>4. QED
    BY <1>1, <1>2, <1>3 DEF Init, Inv, TypeOK, Disjoint

\* A half-done map carries a proper entry, a half-done unmap a range.
LEMMA CallFields ==
    ASSUME TypeOK, NEW t \in Threads
    PROVE  /\ call[t].op = "map" =>
                Proper(call[t].entry) /\ call[t].entry.phys \in 0 .. MapEnd
           /\ call[t].op = "unmap" =>
                /\ call[t].lo \in 0 .. NPages /\ call[t].hi \in 0 .. NPages
                /\ call[t].lo < call[t].hi
  BY DEF TypeOK, Idle, Mapping, Unmapping, Proper

\* sys_mmap's host mapping leaves the list alone and notes a proper entry.
LEMMA MmapPlaceInv ==
    ASSUME Inv, NEW t \in Threads, NEW e \in Requests, MmapPlace(t, e)
    PROVE  Inv'
  <1>1. /\ e.lo \in 0 .. NPages /\ e.hi \in 0 .. NPages /\ e.lo < e.hi
        /\ e.phys \in 0 .. MapEnd
    BY DEF Requests
  <1>2. e \in Entry
    BY SizesAreNat DEF Requests, Entry
  <1>3. call' \in [Threads -> {Idle} \cup Mapping \cup Unmapping]
    BY <1>2 DEF MmapPlace, Inv, TypeOK, Mapping
  <1>4. ASSUME NEW u \in Threads
        PROVE  CallProper(u)'
    BY <1>1 DEF MmapPlace, Inv, TypeOK, CallProper
  <1>5. host' \in [Pages -> Frames \cup {Private, Unmapped}]
    <2>1. host' = [v \in Pages |->
                     IF v \notin Span(e.lo, e.hi) THEN host[v]
                     ELSE IF Shared(e) THEN e.phys + (v - e.lo) ELSE Private]
      BY DEF MmapPlace, Backing
    <2>2. ASSUME NEW v \in Pages, v \in Span(e.lo, e.hi), Shared(e)
          PROVE  e.phys + (v - e.lo) \in Frames
      BY <1>1, <2>2, SizesAreNat DEF Pages, Frames, Span, Shared
    <2>3. ASSUME NEW v \in Pages
          PROVE  host[v] \in Frames \cup {Private, Unmapped}
      BY DEF Inv, TypeOK
    <2>4. QED
      BY <2>1, <2>2, <2>3
  <1>6. entries' = entries
    BY DEF MmapPlace
  <1>7. QED
    BY <1>3, <1>4, <1>5, <1>6 DEF Inv, TypeOK, Disjoint, CallProper

\* VmMap::Add makes room before it records, so the entries stay disjoint.
LEMMA MmapAddInv ==
    ASSUME Inv, NEW t \in Threads, MmapAdd(t)
    PROVE  Inv'
  <1> DEFINE e == call[t].entry
  <1>1. Proper(e)
    BY CallFields DEF MmapAdd, Inv
  <1>2. e.lo \in 0 .. NPages /\ e.hi \in 0 .. NPages /\ e.lo < e.hi
    BY <1>1 DEF Proper, Entry
  <1>3. entries' = PunchHole(e.lo, e.hi) \cup {e}
    BY DEF MmapAdd
  <1>4. \A p \in entries' : Proper(p)
    BY <1>1, <1>2, <1>3, PunchHoleKeeps DEF Inv
  <1>5. \A p, q \in entries' : p # q => p.hi <= q.lo \/ q.hi <= p.lo
    BY <1>2, <1>3, PunchHoleKeeps DEF Inv
  <1>6. call' \in [Threads -> {Idle} \cup Mapping \cup Unmapping]
    BY DEF MmapAdd, Inv, TypeOK
  <1>7. \A u \in Threads : CallProper(u)'
    BY DEF MmapAdd, Inv, TypeOK, Idle, CallProper
  <1>8. host' = host
    BY DEF MmapAdd
  <1>9. QED
    BY <1>4, <1>5, <1>6, <1>7, <1>8 DEF Inv, TypeOK, Disjoint, Proper, CallProper

\* sys_munmap's first half leaves the list alone.
LEMMA MunmapFreeInv ==
    ASSUME Inv, NEW t \in Threads, NEW r \in Ranges, MunmapFree(t, r[1], r[2])
    PROVE  Inv'
  <1>1. r[1] \in 0 .. NPages /\ r[2] \in 0 .. NPages /\ r[1] < r[2]
    BY DEF Ranges
  <1>2. call' \in [Threads -> {Idle} \cup Mapping \cup Unmapping]
    BY <1>1 DEF MunmapFree, Inv, TypeOK, Unmapping
  <1>3. \A u \in Threads : CallProper(u)'
    BY <1>1 DEF MunmapFree, Inv, TypeOK, CallProper
  <1>4. host' \in [Pages -> Frames \cup {Private, Unmapped}]
    BY DEF MunmapFree, Inv, TypeOK
  <1>5. entries' = entries
    BY DEF MunmapFree
  <1>6. QED
    BY <1>2, <1>3, <1>4, <1>5 DEF Inv, TypeOK, Disjoint, CallProper

\* VmMap::Remove only shortens, splits and drops entries.
LEMMA MunmapRemoveInv ==
    ASSUME Inv, NEW t \in Threads, MunmapRemove(t)
    PROVE  Inv'
  <1>1. /\ call[t].lo \in 0 .. NPages /\ call[t].hi \in 0 .. NPages
        /\ call[t].lo < call[t].hi
    BY CallFields DEF MunmapRemove, Inv
  <1>2. entries' = PunchHole(call[t].lo, call[t].hi)
    BY DEF MunmapRemove
  <1>3. /\ \A p \in entries' : Proper(p)
        /\ \A p, q \in entries' : p # q => p.hi <= q.lo \/ q.hi <= p.lo
    BY <1>1, <1>2, PunchHoleKeeps DEF Inv
  <1>4. call' \in [Threads -> {Idle} \cup Mapping \cup Unmapping]
    BY DEF MunmapRemove, Inv, TypeOK
  <1>5. \A u \in Threads : CallProper(u)'
    BY DEF MunmapRemove, Inv, TypeOK, Idle, CallProper
  <1>6. host' \in [Pages -> Frames \cup {Private, Unmapped}]
    BY DEF MunmapRemove, Inv, TypeOK
  <1>7. QED
    BY <1>3, <1>4, <1>5, <1>6 DEF Inv, TypeOK, Disjoint, Proper, CallProper

\* VmMap::RemoveDirect only shortens, splits and drops entries.
LEMMA ReleaseDirectInv ==
    ASSUME Inv, NEW r \in FrameRanges, ReleaseDirect(r[1], r[2])
    PROVE  Inv'
  <1>1. r[1] \in Int /\ r[2] \in Int /\ r[1] < r[2]
    BY SizesAreNat DEF FrameRanges
  <1>2. entries' = PunchDirect(r[1], r[2]) /\ call' = call
    BY DEF ReleaseDirect
  <1>3. host' \in [Pages -> Frames \cup {Private, Unmapped}]
    BY DEF ReleaseDirect, Inv, TypeOK
  <1>4. /\ \A p \in entries' : Proper(p)
        /\ \A p, q \in entries' : p # q => p.hi <= q.lo \/ q.hi <= p.lo
    BY <1>1, <1>2, PunchDirectKeeps DEF Inv
  <1>5. QED
    BY <1>2, <1>3, <1>4 DEF Inv, TypeOK, Disjoint, Proper

\* sys_mprotect changes no bounds.
LEMMA ProtectRangeInv ==
    ASSUME Inv, NEW r \in Ranges, NEW prot \in Prots, ProtectRange(r[1], r[2], prot)
    PROVE  Inv'
  <1> DEFINE New(e) == IF Overlap(e, r[1], r[2]) THEN [e EXCEPT !.prot = prot] ELSE e
  <1>1. entries' = {New(e) : e \in entries} /\ host' = host /\ call' = call
    BY DEF ProtectRange
  <1>2. ASSUME NEW e \in entries
        PROVE  New(e) \in Entry /\ New(e).lo = e.lo /\ New(e).hi = e.hi
    BY DEF Inv, TypeOK, Entry
  <1> HIDE DEF New
  <1>3. QED
    BY <1>1, <1>2 DEF Inv, TypeOK, Disjoint

\* Every system call of every thread keeps the invariant.
LEMMA NextInv == Inv /\ [Next]_vars => Inv'
  <1> SUFFICES ASSUME Inv, [Next]_vars PROVE Inv'
    OBVIOUS
  <1>1. ASSUME NEW t \in Threads, NEW e \in Requests, MmapPlace(t, e)
        PROVE  Inv'
    BY <1>1, MmapPlaceInv
  <1>2. ASSUME NEW t \in Threads, MmapAdd(t) PROVE Inv'
    BY <1>2, MmapAddInv
  <1>3. ASSUME NEW t \in Threads, NEW r \in Ranges, MunmapFree(t, r[1], r[2])
        PROVE  Inv'
    BY <1>3, MunmapFreeInv
  <1>4. ASSUME NEW t \in Threads, MunmapRemove(t) PROVE Inv'
    BY <1>4, MunmapRemoveInv
  <1>5. ASSUME NEW r \in FrameRanges, ReleaseDirect(r[1], r[2]) PROVE Inv'
    BY <1>5, ReleaseDirectInv
  <1>6. ASSUME NEW r \in Ranges, NEW prot \in Prots, ProtectRange(r[1], r[2], prot)
        PROVE  Inv'
    BY <1>6, ProtectRangeInv
  <1>7. CASE UNCHANGED vars
    BY <1>7 DEF vars, Inv, TypeOK, Disjoint
  <1>8. QED
    BY <1>1, <1>2, <1>3, <1>4, <1>5, <1>6, <1>7 DEF Next

\* For any address space, any amount of direct memory and any number of
\* threads, VmMap's entries stay well formed through sys_mmap, sys_munmap,
\* sys_mprotect and the release of direct memory.
THEOREM EntriesWellFormed == Spec => []TypeOK
  <1>1. Inv => TypeOK
    BY DEF Inv
  <1>2. QED
    BY InitInv, NextInv, <1>1, PTL DEF Spec

\* VmMap::Get is unambiguous: no page is ever in two entries.
THEOREM EntriesDisjoint == Spec => []Disjoint
  <1>1. Inv => Disjoint
    BY DEF Inv
  <1>2. QED
    BY InitInv, NextInv, <1>1, PTL DEF Spec
-----------------------------------------------------------------------------
(* Refinement.  A set of entries is read as a set of translations; cutting  *)
(* entries removes exactly the translations of the erased pages.            *)

ReadingOf(E) == UNION {{<<v, FrameOf(e, v)>> : v \in Span(e.lo, e.hi)} : e \in E}

\* A translation of a list of entries comes from one of its entries.
LEMMA InReading ==
    ASSUME NEW E, NEW x
    PROVE  x \in ReadingOf(E) <=>
             \E e \in E : \E v \in Span(e.lo, e.hi) : x = <<v, FrameOf(e, v)>>
  BY DEF ReadingOf

\* An entry's pieces translate the pages they keep as the entry did.
LEMMA CutReading ==
    ASSUME NEW e, Proper(e), NEW lo \in 0 .. NPages, NEW hi \in 0 .. NPages, lo < hi,
           NEW x
    PROVE  (\E p \in Cut(e, lo, hi) : \E v \in Span(p.lo, p.hi) : x = <<v, FrameOf(p, v)>>)
             <=> (\E v \in Span(e.lo, e.hi) : v \notin Span(lo, hi) /\ x = <<v, FrameOf(e, v)>>)
  <1>1. e.lo \in Int /\ e.hi \in Int /\ e.phys \in Int /\ lo \in Int /\ hi \in Int
    BY SizesAreNat DEF Proper, Entry
  <1>2. ASSUME NEW p \in Cut(e, lo, hi)
        PROVE  /\ p.lo \in Int /\ p.hi \in Int /\ p.phys \in Int
               /\ e.lo <= p.lo /\ p.hi <= e.hi /\ (p.hi <= lo \/ hi <= p.lo)
               /\ \A v \in Int : FrameOf(p, v) = FrameOf(e, v)
    <2>1. /\ Proper(p) /\ e.lo <= p.lo /\ p.hi <= e.hi /\ (p.hi <= lo \/ hi <= p.lo)
          /\ p.direct = e.direct /\ p.phys - p.lo = e.phys - e.lo
      BY CutPieces
    <2>2. p.lo \in Int /\ p.hi \in Int /\ p.phys \in Int
      BY <2>1, SizesAreNat DEF Proper, Entry
    <2>3. \A v \in Int : p.phys + (v - p.lo) = e.phys + (v - e.lo)
      BY <1>1, <2>1, <2>2
    <2>4. QED
      BY <2>1, <2>2, <2>3 DEF FrameOf
  <1>3. ASSUME NEW p \in Cut(e, lo, hi), NEW v \in Span(p.lo, p.hi), x = <<v, FrameOf(p, v)>>
        PROVE  v \in Span(e.lo, e.hi) /\ v \notin Span(lo, hi) /\ x = <<v, FrameOf(e, v)>>
    <2>1. v \in Int /\ p.lo <= v /\ v < p.hi
      BY <1>2 DEF Span
    <2>2. v \in Span(e.lo, e.hi) /\ v \notin Span(lo, hi)
      BY <1>1, <1>2, <2>1 DEF Span
    <2>3. QED
      BY <1>2, <1>3, <2>1, <2>2
  <1>4. ASSUME NEW v \in Span(e.lo, e.hi), v \notin Span(lo, hi), x = <<v, FrameOf(e, v)>>
        PROVE  \E p \in Cut(e, lo, hi) : \E w \in Span(p.lo, p.hi) : x = <<w, FrameOf(p, w)>>
    <2>1. v \in Int /\ e.lo <= v /\ v < e.hi /\ (v < lo \/ hi <= v)
      BY <1>1, <1>4 DEF Span
    <2>2. PICK p \in Cut(e, lo, hi) : p.lo <= v /\ v < p.hi
      BY <2>1, CutCovers
    <2>3. v \in Span(p.lo, p.hi)
      BY <1>2, <2>1, <2>2 DEF Span
    <2>4. QED
      BY <1>2, <1>4, <2>1, <2>3
  <1>5. QED
    BY <1>3, <1>4

\* PunchHoleLocked forgets the translations of the range and no others.
LEMMA PunchHoleReading ==
    ASSUME TypeOK, NEW lo \in 0 .. NPages, NEW hi \in 0 .. NPages, lo < hi
    PROVE  ReadingOf(PunchHole(lo, hi)) = {x \in ReadingOf(entries) : x[1] \notin Span(lo, hi)}
  <1>1. ASSUME NEW x
        PROVE  x \in ReadingOf(PunchHole(lo, hi)) <=>
                 \E e \in entries : \E v \in Span(e.lo, e.hi) :
                    v \notin Span(lo, hi) /\ x = <<v, FrameOf(e, v)>>
    <2>1. x \in ReadingOf(PunchHole(lo, hi)) <=>
            \E e \in entries : \E p \in Cut(e, lo, hi) :
               \E v \in Span(p.lo, p.hi) : x = <<v, FrameOf(p, v)>>
      BY InReading DEF PunchHole
    <2>2. QED
      BY <2>1, CutReading, ProperEntries
  <1>2. ASSUME NEW x
        PROVE  (x \in ReadingOf(entries) /\ x[1] \notin Span(lo, hi)) <=>
                 \E e \in entries : \E v \in Span(e.lo, e.hi) :
                    v \notin Span(lo, hi) /\ x = <<v, FrameOf(e, v)>>
    BY InReading
  <1>3. QED
    BY <1>1, <1>2

\* RemoveDirect forgets the translations to the released frames and no others.
LEMMA PunchDirectReading ==
    ASSUME TypeOK, NEW plo \in Nat, NEW phi \in Nat, plo < phi
    PROVE  ReadingOf(PunchDirect(plo, phi)) = {x \in ReadingOf(entries) : x[2] \notin Span(plo, phi)}
  <1> DEFINE Left(e) == IF Overlay(e, plo, phi)
                        THEN Cut(e, DirectLo(e, plo), DirectHi(e, phi))
                        ELSE {e}
  <1>1. ASSUME NEW e \in entries, NEW x
        PROVE  (\E p \in Left(e) : \E v \in Span(p.lo, p.hi) : x = <<v, FrameOf(p, v)>>)
                 <=> (\E v \in Span(e.lo, e.hi) :
                        FrameOf(e, v) \notin Span(plo, phi) /\ x = <<v, FrameOf(e, v)>>)
    <2>1. CASE Overlay(e, plo, phi)
      <3>1. \A v \in Span(e.lo, e.hi) :
              v \notin Span(DirectLo(e, plo), DirectHi(e, phi))
                <=> FrameOf(e, v) \notin Span(plo, phi)
        <4>1. TAKE v \in Span(e.lo, e.hi)
        <4>2. v \in Int /\ e.lo <= v /\ v < e.hi
          BY ProperEntries DEF Span
        <4>3. e.direct /\ FrameOf(e, v) = e.phys + (v - e.lo) /\ e.phys + (v - e.lo) \in Int
          BY <2>1, <4>2, ProperEntries DEF Overlay, FrameOf
        <4>4. (v < DirectLo(e, plo) \/ DirectHi(e, phi) <= v)
                <=> ~(plo <= e.phys + (v - e.lo) /\ e.phys + (v - e.lo) < phi)
          BY <2>1, <4>2, ProperEntries, DirectRange
        <4>5. v \notin Span(DirectLo(e, plo), DirectHi(e, phi))
                <=> (v < DirectLo(e, plo) \/ DirectHi(e, phi) <= v)
          BY <2>1, <4>2, ProperEntries, DirectRange, SizesAreNat DEF Span
        <4>6. e.phys + (v - e.lo) \notin Span(plo, phi)
                <=> ~(plo <= e.phys + (v - e.lo) /\ e.phys + (v - e.lo) < phi)
          BY <4>3 DEF Span
        <4>7. QED
          BY <4>3, <4>4, <4>5, <4>6
      <3>2. (\E p \in Left(e) : \E v \in Span(p.lo, p.hi) : x = <<v, FrameOf(p, v)>>)
              <=> (\E v \in Span(e.lo, e.hi) :
                     v \notin Span(DirectLo(e, plo), DirectHi(e, phi)) /\ x = <<v, FrameOf(e, v)>>)
        BY <2>1, ProperEntries, DirectRange, CutReading
      <3>3. QED
        BY <3>1, <3>2
    <2>2. CASE ~Overlay(e, plo, phi)
      <3>1. \A v \in Span(e.lo, e.hi) : FrameOf(e, v) \notin Span(plo, phi)
        BY <2>2, ProperEntries DEF Overlay, FrameOf, Span
      <3>2. QED
        BY <2>2, <3>1
    <2>3. QED
      BY <2>1, <2>2
  <1>2. ASSUME NEW x
        PROVE  x \in ReadingOf(PunchDirect(plo, phi)) <=>
                 \E e \in entries : \E p \in Left(e) :
                    \E v \in Span(p.lo, p.hi) : x = <<v, FrameOf(p, v)>>
    BY InReading DEF PunchDirect
  <1>3. ASSUME NEW x
        PROVE  (x \in ReadingOf(entries) /\ x[2] \notin Span(plo, phi)) <=>
                 \E e \in entries : \E v \in Span(e.lo, e.hi) :
                    FrameOf(e, v) \notin Span(plo, phi) /\ x = <<v, FrameOf(e, v)>>
    BY InReading
  <1> HIDE DEF Left
  <1>4. QED
    BY <1>1, <1>2, <1>3

\* The refinement mapping, before and after a step.
LEMMA ReadingIs == Reading = ReadingOf(entries) /\ Reading' = ReadingOf(entries')
  BY DEF Reading, ReadingOf, FrameOf, Span

\* A mapping that is recorded: VmMap::Add binds private pages, VmMap::AddDirect
\* consecutive frames.
LEMMA AddStep ==
    ASSUME TypeOK, NEW t \in Threads, MmapAdd(t)
    PROVE  Abstract!PtNext
  <1> DEFINE e == call[t].entry
  <1>1. /\ Proper(e) /\ e.phys \in 0 .. MapEnd
        /\ e.lo \in 0 .. NPages /\ e.hi \in 0 .. NPages /\ e.lo < e.hi
    BY CallFields DEF MmapAdd, Proper, Entry
  <1>2. entries' = PunchHole(e.lo, e.hi) \cup {e}
    BY DEF MmapAdd
  <1>3. ReadingOf(entries') = ReadingOf(PunchHole(e.lo, e.hi)) \cup ReadingOf({e})
    BY <1>2, InReading
  <1>4. ReadingOf({e}) = {<<v, FrameOf(e, v)>> : v \in Span(e.lo, e.hi)}
    BY DEF ReadingOf
  <1>5. Reading' = {x \in Reading : x[1] \notin Span(e.lo, e.hi)}
                     \cup {<<v, FrameOf(e, v)>> : v \in Span(e.lo, e.hi)}
    BY <1>1, <1>3, <1>4, PunchHoleReading, ReadingIs
  <1>6. CASE e.direct
    <2>1. Abstract!Bind(e.lo, e.hi, e.phys)
      BY <1>5, <1>6 DEF Abstract!Bind, Abstract!Without, Abstract!Translations,
                        Abstract!Span, Span, FrameOf
    <2>2. QED
      BY <1>1, <2>1 DEF Abstract!PtNext
  <1>7. CASE ~e.direct
    <2>1. Abstract!BindAnon(e.lo, e.hi)
      BY <1>5, <1>7 DEF Abstract!BindAnon, Abstract!Without, Abstract!Translations,
                        Abstract!Span, Abstract!Anon, Span, FrameOf
    <2>2. QED
      BY <1>1, <2>1 DEF Abstract!PtNext
  <1>8. QED
    BY <1>6, <1>7

\* sys_mprotect changes no translation.
LEMMA ProtectStep ==
    ASSUME TypeOK, NEW r \in Ranges, NEW prot \in Prots, ProtectRange(r[1], r[2], prot)
    PROVE  Reading' = Reading
  <1> DEFINE New(e) == IF Overlap(e, r[1], r[2]) THEN [e EXCEPT !.prot = prot] ELSE e
  <1>1. entries' = {New(e) : e \in entries}
    BY DEF ProtectRange
  <1>2. ASSUME NEW e \in entries
        PROVE  /\ New(e).lo = e.lo /\ New(e).hi = e.hi
               /\ New(e).phys = e.phys /\ New(e).direct = e.direct
    BY DEF TypeOK, Entry
  <1> HIDE DEF New
  <1>3. \A e \in entries : \A v : FrameOf(New(e), v) = FrameOf(e, v)
    BY <1>2 DEF FrameOf
  <1>4. \A x : x \in ReadingOf(entries') <=> x \in ReadingOf(entries)
    BY <1>1, <1>2, <1>3, InReading
  <1>5. QED
    BY <1>4, ReadingIs

\* Every step of VmMap is a step of the page table or leaves it alone.
LEMMA NextRefines == Inv /\ [Next]_vars => [Abstract!PtNext]_Reading
  <1> SUFFICES ASSUME Inv, [Next]_vars PROVE [Abstract!PtNext]_Reading
    OBVIOUS
  <1> USE DEF Inv
  <1>1. ASSUME NEW t \in Threads, NEW e \in Requests, MmapPlace(t, e)
        PROVE  Reading' = Reading
    BY <1>1, ReadingIs DEF MmapPlace
  <1>2. ASSUME NEW t \in Threads, MmapAdd(t) PROVE Abstract!PtNext
    BY <1>2, AddStep
  <1>3. ASSUME NEW t \in Threads, NEW r \in Ranges, MunmapFree(t, r[1], r[2])
        PROVE  Reading' = Reading
    BY <1>3, ReadingIs DEF MunmapFree
  <1>4. ASSUME NEW t \in Threads, MunmapRemove(t) PROVE Abstract!PtNext
    <2>1. /\ call[t].lo \in 0 .. NPages /\ call[t].hi \in 0 .. NPages
          /\ call[t].lo < call[t].hi
      BY <1>4, CallFields DEF MunmapRemove
    <2>2. Reading' = {x \in Reading : x[1] \notin Span(call[t].lo, call[t].hi)}
      BY <1>4, <2>1, PunchHoleReading, ReadingIs DEF MunmapRemove
    <2>3. Abstract!Unbind(call[t].lo, call[t].hi)
      BY <2>2 DEF Abstract!Unbind, Abstract!Without, Abstract!Span, Span
    <2>4. QED
      BY <2>1, <2>3 DEF Abstract!PtNext
  <1>5. ASSUME NEW r \in FrameRanges, ReleaseDirect(r[1], r[2]) PROVE Abstract!PtNext
    <2>1. /\ r[1] \in 0 .. MapEnd /\ r[2] \in 0 .. MapEnd /\ r[1] < r[2]
          /\ r[1] \in Nat /\ r[2] \in Nat
      BY SizesAreNat DEF FrameRanges
    <2>2. Reading' = {x \in Reading : x[2] \notin Span(r[1], r[2])}
      BY <1>5, <2>1, PunchDirectReading, ReadingIs DEF ReleaseDirect
    <2>3. Abstract!ReleaseFrames(r[1], r[2])
      BY <2>2 DEF Abstract!ReleaseFrames, Abstract!Span, Span
    <2>4. QED
      BY <2>1, <2>3 DEF Abstract!PtNext
  <1>6. ASSUME NEW r \in Ranges, NEW prot \in Prots, ProtectRange(r[1], r[2], prot)
        PROVE  Reading' = Reading
    BY <1>6, ProtectStep
  <1>7. CASE UNCHANGED vars
    BY <1>7, ReadingIs DEF vars
  <1>8. QED
    BY <1>1, <1>2, <1>3, <1>4, <1>5, <1>6, <1>7 DEF Next

\* Whatever is mapped over, split, unmapped or released, the entries of VmMap
\* read as a page table that changes only the way PageTable allows.
THEOREM ImplementsPageTable == Spec => KeepsPageTable
  <1>1. Init => Abstract!PtInit
    BY DEF Init, Abstract!PtInit, Reading
  <1>2. QED
    BY InitInv, NextInv, NextRefines, <1>1, PTL DEF Spec, KeepsPageTable, Abstract!PtSpec

\* For every number of pages, frames and threads the memory map stays a list of
\* well-formed, disjoint entries whatever sys_mmap, sys_munmap, sys_mprotect and
\* ReleaseDirect cut it into.
THEOREM MapSafe == Spec => []MapInv
  BY EntriesWellFormed, EntriesDisjoint, PTL DEF MapInv
-----------------------------------------------------------------------------
(* Stale pointers.  A host page shares a frame only while an entry, or a    *)
(* sys_mmap about to record one, says so.  When the record is made, the hole *)
(* punched for it may drop the entry that said so before: what keeps the    *)
(* promise is that the page was backed for the new entry already, and that  *)
(* no other call is under way on the same pages.                            *)

CallLo(t) == IF call[t].op = "map" THEN call[t].entry.lo ELSE call[t].lo
CallHi(t) == IF call[t].op = "map" THEN call[t].entry.hi ELSE call[t].hi

\* The calls under way are on pages of their own.
CallsApart ==
    \A t, u \in Threads : t # u /\ call[t].op # "idle" /\ call[u].op # "idle" =>
        CallHi(t) <= CallLo(u) \/ CallHi(u) <= CallLo(t)

\* A direct entry maps page v to frame f.
Maps(e, v, f) == e.direct /\ v \in Span(e.lo, e.hi) /\ f = e.phys + (v - e.lo)

\* Under a sys_mmap on its way to VmMap::Add the host already has what the
\* entry will say.
PendingBacked ==
    \A t \in Threads : call[t].op = "map" =>
        \A v \in Pages : v \in Span(call[t].entry.lo, call[t].entry.hi)
                            /\ host[v] \in Frames
                          => Maps(call[t].entry, v, host[v])

StaleInv == Inv /\ CallsApart /\ PendingBacked /\ StalePointerDetached
\* A page outside the hole keeps its frame in what is left of its entry.
LEMMA CutMaps ==
    ASSUME NEW e, Proper(e), NEW lo \in 0 .. NPages, NEW hi \in 0 .. NPages, lo < hi,
           NEW v \in Pages, NEW f, Maps(e, v, f), v < lo \/ hi <= v
    PROVE  \E p \in Cut(e, lo, hi) : Maps(p, v, f)
  <1>1. v \in Int /\ e.lo \in Int /\ e.hi \in Int /\ e.phys \in Int
    BY SizesAreNat DEF Pages, Proper, Entry
  <1>2. e.lo <= v /\ v < e.hi /\ e.direct /\ f = e.phys + (v - e.lo)
    BY <1>1 DEF Maps, Span
  <1>3. PICK p \in Cut(e, lo, hi) : p.lo <= v /\ v < p.hi
    BY <1>1, <1>2, CutCovers
  <1>4. Proper(p) /\ p.direct = e.direct /\ p.phys - p.lo = e.phys - e.lo
    BY CutPieces
  <1>5. p.lo \in Int /\ p.hi \in Int /\ p.phys \in Int
    BY <1>4, SizesAreNat DEF Proper, Entry
  <1>6. p.phys + (v - p.lo) = e.phys + (v - e.lo) /\ v \in Span(p.lo, p.hi)
    BY <1>1, <1>3, <1>4, <1>5 DEF Span
  <1>7. QED
    BY <1>2, <1>4, <1>6 DEF Maps

\* VmMap::Remove and VmMap::Add keep the frames of the pages outside the hole.
LEMMA PunchHoleMaps ==
    ASSUME TypeOK, NEW lo \in 0 .. NPages, NEW hi \in 0 .. NPages, lo < hi,
           NEW v \in Pages, NEW f, v \notin Span(lo, hi),
           NEW e \in entries, Maps(e, v, f)
    PROVE  \E p \in PunchHole(lo, hi) : Maps(p, v, f)
  <1>1. v < lo \/ hi <= v
    BY SizesAreNat DEF Pages, Span
  <1>2. PICK p \in Cut(e, lo, hi) : Maps(p, v, f)
    BY <1>1, ProperEntries, CutMaps
  <1>3. QED
    BY <1>2 DEF PunchHole

\* VmMap::RemoveDirect keeps the frames of the pages it does not detach.
LEMMA PunchDirectMaps ==
    ASSUME TypeOK, NEW plo \in Int, NEW phi \in Int, plo < phi,
           NEW v \in Pages, NEW f, v \notin PagesOfFrames(plo, phi),
           NEW e \in entries, Maps(e, v, f)
    PROVE  \E p \in PunchDirect(plo, phi) : Maps(p, v, f)
  <1>1. CASE Overlay(e, plo, phi)
    <2>1. v \notin Span(DirectLo(e, plo), DirectHi(e, phi))
      BY <1>1 DEF PagesOfFrames
    <2>2. v < DirectLo(e, plo) \/ DirectHi(e, phi) <= v
      BY <1>1, <2>1, ProperEntries, DirectRange, SizesAreNat DEF Pages, Span
    <2>3. PICK p \in Cut(e, DirectLo(e, plo), DirectHi(e, phi)) : Maps(p, v, f)
      BY <1>1, <2>2, ProperEntries, DirectRange, CutMaps
    <2>4. QED
      BY <1>1, <2>3 DEF PunchDirect
  <1>2. CASE ~Overlay(e, plo, phi)
    <2>1. e \in PunchDirect(plo, phi)
      BY <1>2 DEF PunchDirect
    <2>2. QED
      BY <2>1
  <1>3. QED
    BY <1>1, <1>2

\* What StalePointerDetached says of one page.
Backed(v) ==
    \/ \E e \in entries : Maps(e, v, host[v])
    \/ \E t \in Threads : /\ call[t].op = "map"
                          /\ v \in Span(call[t].entry.lo, call[t].entry.hi)

\* The property, read page by page.
LEMMA StaleIs ==
    /\ StalePointerDetached <=> \A v \in Pages : host[v] \in Frames => Backed(v)
    /\ StalePointerDetached' <=> \A v \in Pages : host'[v] \in Frames => Backed(v)'
  BY DEF StalePointerDetached, Backed, Maps

\* A page that is neither private nor gone shows a frame.
LEMMA NotFrames == Private \notin Frames /\ Unmapped \notin Frames
  BY SizesAreNat DEF Private, Unmapped, Frames

\* sys_mmap's host mapping: the pages it takes are under the call itself.
LEMMA MmapPlaceStale ==
    ASSUME StaleInv, NEW t \in Threads, NEW e \in Requests, MmapPlace(t, e)
    PROVE  CallsApart' /\ PendingBacked' /\ StalePointerDetached'
  <1>1. /\ e.lo \in 0 .. NPages /\ e.hi \in 0 .. NPages /\ e.lo < e.hi
        /\ e.lo \in Int /\ e.hi \in Int
    BY SizesAreNat DEF Requests
  <1>2. /\ call'[t] = [op |-> "map", entry |-> e]
        /\ \A u \in Threads \ {t} : call'[u] = call[u]
    BY DEF MmapPlace, StaleInv, Inv, TypeOK
  <1>3. /\ call'[t].op = "map" /\ call'[t].entry = e
    BY <1>2
  <1>4. ASSUME NEW u \in Threads \ {t}, call[u].op # "idle"
        PROVE  /\ CallLo(u) \in Int /\ CallHi(u) \in Int
               /\ CallHi(u) <= e.lo \/ e.hi <= CallLo(u)
    <2>1. call[u].op = "map" \/ call[u].op = "unmap"
      BY <1>4 DEF StaleInv, Inv, TypeOK, Idle, Mapping, Unmapping
    <2>2. CallLo(u) \in Int /\ CallHi(u) \in Int
      BY <2>1, CallFields, SizesAreNat DEF CallLo, CallHi, StaleInv, Inv, Proper, Entry
    <2>3. ~(e.lo < CallHi(u) /\ CallLo(u) < e.hi)
      BY <2>1 DEF MmapPlace, NoRival, Overlap, CallLo, CallHi
    <2>4. QED
      BY <1>1, <2>2, <2>3
  <1>5. CallsApart'
    <2> SUFFICES ASSUME NEW a \in Threads, NEW b \in Threads, a # b,
                        call'[a].op # "idle", call'[b].op # "idle"
                 PROVE  (CallHi(a) <= CallLo(b) \/ CallHi(b) <= CallLo(a))'
      BY DEF CallsApart
    <2>1. CallLo(t)' = e.lo /\ CallHi(t)' = e.hi
      BY <1>3 DEF CallLo, CallHi
    <2>2. \A u \in Threads \ {t} : CallLo(u)' = CallLo(u) /\ CallHi(u)' = CallHi(u)
      BY <1>2 DEF CallLo, CallHi
    <2>3. CASE a = t
      BY <1>2, <1>4, <2>1, <2>2, <2>3
    <2>4. CASE b = t
      BY <1>2, <1>4, <2>1, <2>2, <2>4
    <2>5. CASE a # t /\ b # t
      BY <1>2, <2>2, <2>5 DEF StaleInv, CallsApart
    <2>6. QED
      BY <2>3, <2>4, <2>5
  <1>6. /\ \A v \in Pages : v \notin Span(e.lo, e.hi) => host'[v] = host[v]
        /\ \A v \in Pages : v \in Span(e.lo, e.hi) /\ host'[v] \in Frames => Maps(e, v, host'[v])
    BY NotFrames DEF MmapPlace, Backing, Shared, Maps
  <1>7. PendingBacked'
    <2> SUFFICES ASSUME NEW u \in Threads, call'[u].op = "map", NEW v \in Pages,
                        v \in Span(call'[u].entry.lo, call'[u].entry.hi), host'[v] \in Frames
                 PROVE  Maps(call'[u].entry, v, host'[v])
      BY DEF PendingBacked, Maps
    <2>1. CASE u = t
      BY <1>3, <1>6, <2>1
    <2>2. CASE u # t
      <3>1. call'[u] = call[u] /\ call[u].op = "map"
        BY <1>2, <2>2
      <3>2. v \notin Span(e.lo, e.hi)
        BY <1>1, <1>4, <2>2, <3>1, SizesAreNat DEF Span, CallLo, CallHi, Pages
      <3>3. QED
        BY <1>6, <3>1, <3>2 DEF StaleInv, PendingBacked
    <2>3. QED
      BY <2>1, <2>2
  <1>8. ASSUME NEW v \in Pages, host'[v] \in Frames
        PROVE  Backed(v)'
    <2>1. CASE v \in Span(e.lo, e.hi)
      BY <1>3, <2>1 DEF Backed
    <2>2. CASE v \notin Span(e.lo, e.hi)
      <3>1. host'[v] = host[v] /\ Backed(v)
        BY <1>6, <1>8, <2>2, StaleIs DEF StaleInv
      <3>2. entries' = entries
        BY DEF MmapPlace
      <3>3. \A u \in Threads : call[u].op = "map" => u # t
        BY DEF MmapPlace, Idle
      <3>4. QED
        BY <1>2, <3>1, <3>2, <3>3 DEF Backed, Maps
    <2>3. QED
      BY <2>1, <2>2
  <1>9. QED
    BY <1>5, <1>7, <1>8, StaleIs

\* VmMap::Add: the pages of the new entry were backed for it when the call began.
LEMMA MmapAddStale ==
    ASSUME StaleInv, NEW t \in Threads, MmapAdd(t)
    PROVE  CallsApart' /\ PendingBacked' /\ StalePointerDetached'
  <1> DEFINE e == call[t].entry
  <1>1. /\ e.lo \in 0 .. NPages /\ e.hi \in 0 .. NPages /\ e.lo < e.hi
        /\ call[t].op = "map"
    BY CallFields DEF MmapAdd, StaleInv, Inv, Proper, Entry
  <1>2. /\ call'[t].op = "idle"
        /\ \A u \in Threads \ {t} : call'[u] = call[u]
        /\ host' = host /\ entries' = PunchHole(e.lo, e.hi) \cup {e}
    BY DEF MmapAdd, StaleInv, Inv, TypeOK, Idle
  <1>3. CallsApart' /\ PendingBacked'
    BY <1>2 DEF StaleInv, CallsApart, PendingBacked, CallLo, CallHi, Maps
  <1>4. ASSUME NEW v \in Pages, host'[v] \in Frames
        PROVE  Backed(v)'
    <2>1. host[v] \in Frames /\ Backed(v) /\ host'[v] = host[v]
      BY <1>2, <1>4, StaleIs DEF StaleInv
    <2>2. CASE v \in Span(e.lo, e.hi)
      <3>1. Maps(e, v, host'[v]) /\ e \in entries'
        BY <1>1, <1>2, <2>1, <2>2 DEF StaleInv, PendingBacked
      <3>2. QED
        BY <3>1 DEF Backed, Maps
    <2>3. CASE v \notin Span(e.lo, e.hi) /\ \E f \in entries : Maps(f, v, host[v])
      <3>1. \E p \in PunchHole(e.lo, e.hi) : Maps(p, v, host[v])
        BY <1>1, <2>3, PunchHoleMaps DEF StaleInv, Inv
      <3>2. QED
        BY <1>2, <2>1, <3>1 DEF Backed, Maps
    <2>4. CASE /\ v \notin Span(e.lo, e.hi)
               /\ \E u \in Threads : /\ call[u].op = "map"
                                     /\ v \in Span(call[u].entry.lo, call[u].entry.hi)
      BY <1>2, <2>4 DEF Backed
    <2>5. QED
      BY <2>1, <2>2, <2>3, <2>4 DEF Backed
  <1>5. QED
    BY <1>3, <1>4, StaleIs

\* sys_munmap's first half only takes host pages away.
LEMMA MunmapFreeStale ==
    ASSUME StaleInv, NEW t \in Threads, NEW r \in Ranges, MunmapFree(t, r[1], r[2])
    PROVE  CallsApart' /\ PendingBacked' /\ StalePointerDetached'
  <1>1. r[1] \in Int /\ r[2] \in Int /\ r[1] < r[2]
    BY SizesAreNat DEF Ranges
  <1>2. /\ call'[t] = [op |-> "unmap", lo |-> r[1], hi |-> r[2]]
        /\ \A u \in Threads \ {t} : call'[u] = call[u]
        /\ entries' = entries /\ call[t] = Idle
    BY DEF MunmapFree, StaleInv, Inv, TypeOK
  <1>3. call'[t].op = "unmap" /\ call'[t].lo = r[1] /\ call'[t].hi = r[2]
    BY <1>2
  <1>4. \A v \in Pages : host'[v] \in Frames => host'[v] = host[v]
    BY NotFrames DEF MunmapFree
  <1>5. ASSUME NEW u \in Threads \ {t}, call[u].op # "idle"
        PROVE  CallHi(u) <= r[1] \/ r[2] <= CallLo(u)
    <2>1. call[u].op = "map" \/ call[u].op = "unmap"
      BY <1>5 DEF StaleInv, Inv, TypeOK, Idle, Mapping, Unmapping
    <2>2. CallLo(u) \in Int /\ CallHi(u) \in Int
      BY <2>1, CallFields, SizesAreNat DEF CallLo, CallHi, StaleInv, Inv, Proper, Entry
    <2>3. ~(r[1] < CallHi(u) /\ CallLo(u) < r[2])
      BY <2>1 DEF MunmapFree, NoRival, Overlap, CallLo, CallHi
    <2>4. QED
      BY <1>1, <2>2, <2>3
  <1>6. CallsApart'
    <2> SUFFICES ASSUME NEW a \in Threads, NEW b \in Threads, a # b,
                        call'[a].op # "idle", call'[b].op # "idle"
                 PROVE  (CallHi(a) <= CallLo(b) \/ CallHi(b) <= CallLo(a))'
      BY DEF CallsApart
    <2>1. CallLo(t)' = r[1] /\ CallHi(t)' = r[2]
      BY <1>3 DEF CallLo, CallHi
    <2>2. \A u \in Threads \ {t} : CallLo(u)' = CallLo(u) /\ CallHi(u)' = CallHi(u)
      BY <1>2 DEF CallLo, CallHi
    <2>3. CASE a = t
      BY <1>2, <1>5, <2>1, <2>2, <2>3
    <2>4. CASE b = t
      BY <1>2, <1>5, <2>1, <2>2, <2>4
    <2>5. CASE a # t /\ b # t
      BY <1>2, <2>2, <2>5 DEF StaleInv, CallsApart
    <2>6. QED
      BY <2>3, <2>4, <2>5
  <1>7. \A u \in Threads : call'[u].op = "map" => u # t /\ call'[u] = call[u]
    BY <1>2, <1>3
  <1>8. \A u \in Threads : call[u].op = "map" => u # t /\ call'[u] = call[u]
    BY <1>2 DEF Idle
  <1>9. PendingBacked'
    BY <1>4, <1>7 DEF StaleInv, PendingBacked, Maps
  <1>10. ASSUME NEW v \in Pages, host'[v] \in Frames
         PROVE  Backed(v)'
    <2>1. host'[v] = host[v] /\ Backed(v)
      BY <1>4, <1>10, StaleIs DEF StaleInv
    <2>2. QED
      BY <1>2, <1>8, <2>1 DEF Backed, Maps
  <1>11. QED
    BY <1>6, <1>9, <1>10, StaleIs

\* VmMap::Remove detaches the direct pages of the range before it forgets them.
LEMMA MunmapRemoveStale ==
    ASSUME StaleInv, NEW t \in Threads, MunmapRemove(t)
    PROVE  CallsApart' /\ PendingBacked' /\ StalePointerDetached'
  <1> DEFINE lo == call[t].lo
             hi == call[t].hi
  <1>1. /\ lo \in 0 .. NPages /\ hi \in 0 .. NPages /\ lo < hi
        /\ lo \in Int /\ hi \in Int /\ call[t].op = "unmap"
    BY CallFields, SizesAreNat DEF MunmapRemove, StaleInv, Inv
  <1>2. /\ call'[t].op = "idle"
        /\ \A u \in Threads \ {t} : call'[u] = call[u]
        /\ entries' = PunchHole(lo, hi)
    BY DEF MunmapRemove, StaleInv, Inv, TypeOK, Idle
  <1>3. \A v \in Pages : host'[v] \in Frames => host'[v] = host[v] /\ v \notin DirectIn(lo, hi)
    BY NotFrames DEF MunmapRemove
  <1>4. CallsApart'
    BY <1>2 DEF StaleInv, CallsApart, CallLo, CallHi
  <1>5. PendingBacked'
    BY <1>2, <1>3 DEF StaleInv, PendingBacked, Maps
  <1>6. ASSUME NEW v \in Pages, host'[v] \in Frames
        PROVE  Backed(v)'
    <2>1. host'[v] = host[v] /\ v \notin DirectIn(lo, hi) /\ Backed(v)
      BY <1>3, <1>6, StaleIs DEF StaleInv
    <2>2. CASE \E e \in entries : Maps(e, v, host[v])
      <3>1. PICK e \in entries : Maps(e, v, host[v])
        BY <2>2
      <3>2. v \notin Span(lo, hi)
        BY <2>1, <3>1 DEF DirectIn, Maps
      <3>3. \E p \in PunchHole(lo, hi) : Maps(p, v, host[v])
        BY <1>1, <3>1, <3>2, PunchHoleMaps DEF StaleInv, Inv
      <3>4. QED
        BY <1>2, <2>1, <3>3 DEF Backed, Maps
    <2>3. CASE \E u \in Threads : /\ call[u].op = "map"
                                  /\ v \in Span(call[u].entry.lo, call[u].entry.hi)
      BY <1>1, <1>2, <2>3 DEF Backed
    <2>4. QED
      BY <2>1, <2>2, <2>3 DEF Backed
  <1>7. QED
    BY <1>4, <1>5, <1>6, StaleIs

\* VmMap::RemoveDirect detaches every page that maps a released frame.
LEMMA ReleaseDirectStale ==
    ASSUME StaleInv, NEW r \in FrameRanges, ReleaseDirect(r[1], r[2])
    PROVE  CallsApart' /\ PendingBacked' /\ StalePointerDetached'
  <1>1. r[1] \in Int /\ r[2] \in Int /\ r[1] < r[2]
    BY SizesAreNat DEF FrameRanges
  <1>2. call' = call /\ entries' = PunchDirect(r[1], r[2])
    BY DEF ReleaseDirect
  <1>3. \A v \in Pages : host'[v] \in Frames =>
          host'[v] = host[v] /\ v \notin PagesOfFrames(r[1], r[2])
    BY NotFrames DEF ReleaseDirect
  <1>4. CallsApart' /\ PendingBacked'
    BY <1>2, <1>3 DEF StaleInv, CallsApart, PendingBacked, CallLo, CallHi, Maps
  <1>5. ASSUME NEW v \in Pages, host'[v] \in Frames
        PROVE  Backed(v)'
    <2>1. host'[v] = host[v] /\ v \notin PagesOfFrames(r[1], r[2]) /\ Backed(v)
      BY <1>3, <1>5, StaleIs DEF StaleInv
    <2>2. CASE \E e \in entries : Maps(e, v, host[v])
      <3>1. \E p \in PunchDirect(r[1], r[2]) : Maps(p, v, host[v])
        BY <1>1, <2>1, <2>2, PunchDirectMaps DEF StaleInv, Inv
      <3>2. QED
        BY <1>2, <2>1, <3>1 DEF Backed, Maps
    <2>3. CASE \E u \in Threads : /\ call[u].op = "map"
                                  /\ v \in Span(call[u].entry.lo, call[u].entry.hi)
      BY <1>2, <2>3 DEF Backed
    <2>4. QED
      BY <2>1, <2>2, <2>3 DEF Backed
  <1>6. QED
    BY <1>4, <1>5, StaleIs

\* sys_mprotect leaves the frames of an entry alone.
LEMMA ProtectRangeStale ==
    ASSUME StaleInv, NEW r \in Ranges, NEW prot \in Prots, ProtectRange(r[1], r[2], prot)
    PROVE  CallsApart' /\ PendingBacked' /\ StalePointerDetached'
  <1> DEFINE New(e) == IF Overlap(e, r[1], r[2]) THEN [e EXCEPT !.prot = prot] ELSE e
  <1>1. entries' = {New(e) : e \in entries} /\ host' = host /\ call' = call
    BY DEF ProtectRange
  <1>2. ASSUME NEW e \in entries
        PROVE  /\ New(e).lo = e.lo /\ New(e).hi = e.hi
               /\ New(e).phys = e.phys /\ New(e).direct = e.direct
    BY DEF StaleInv, Inv, TypeOK, Entry
  <1> HIDE DEF New
  <1>3. CallsApart' /\ PendingBacked'
    BY <1>1 DEF StaleInv, CallsApart, PendingBacked, CallLo, CallHi, Maps
  <1>4. \A v \in Pages : Backed(v) => Backed(v)'
    BY <1>1, <1>2 DEF Backed, Maps
  <1>5. QED
    BY <1>1, <1>3, <1>4, StaleIs DEF StaleInv

\* "Direct-memory aliases are detached from their backing so stale pointers cannot
\* access a reused allocation": for every number of pages, frames and threads, and
\* on both consoles, no host page keeps showing a frame that was unmapped, mapped
\* over or released, wherever the system calls of other threads come in between.
THEOREM StalePagesDetached == Spec => []StalePointerDetached
  <1>1. Init => StaleInv
    <2> SUFFICES ASSUME Init PROVE StaleInv
      OBVIOUS
    <2>1. \A t \in Threads : call[t].op = "idle"
      BY DEF Init, Idle
    <2>2. \A v \in Pages : host[v] = Unmapped
      BY DEF Init
    <2>3. QED
      BY <2>1, <2>2, InitInv, NotFrames, StaleIs DEF StaleInv, CallsApart, PendingBacked
  <1>2. StaleInv /\ [Next]_vars => StaleInv'
    <2> SUFFICES ASSUME StaleInv, [Next]_vars
                 PROVE  CallsApart' /\ PendingBacked' /\ StalePointerDetached'
      BY NextInv DEF StaleInv
    <2>1. CASE UNCHANGED vars
      BY <2>1, StaleIs DEF vars, StaleInv, CallsApart, PendingBacked, CallLo, CallHi,
                           Maps, Backed
    <2>2. QED
      BY <2>1, MmapPlaceStale, MmapAddStale, MunmapFreeStale, MunmapRemoveStale,
         ReleaseDirectStale, ProtectRangeStale DEF Next
  <1>3. StaleInv => StalePointerDetached
    BY DEF StaleInv
  <1>4. QED
    BY <1>1, <1>2, <1>3, PTL DEF Spec

-----------------------------------------------------------------------------
(* The direct-memory allocator.                                            *)
(*                                                                         *)
(* The inductive invariant is that the list is typed, sorted and disjoint  *)
(* (Listed); what the searches answer follows from it in each state.  What *)
(* a loop has done after i regions is shown by induction on i (UpTo), once *)
(* it is known that the recursive function which models it exists          *)
(* (Iterates).                                                             *)

\* Counting up from zero reaches every number up to n.
LEMMA UpTo ==
  ASSUME NEW n \in Nat, NEW T, 0 \in T,
         \A i \in 1 .. n : i - 1 \in T => i \in T
  PROVE  \A i \in 0 .. n : i \in T
  <1> DEFINE R == OpToRel(<, Nat)
             Missing == {i \in 0 .. n : i \notin T}
  <1>1. \A x, y \in Nat : <<x, y>> \in R <=> x < y
    BY DEF OpToRel
  <1>2. IsWellFoundedOn(R, Nat)
    BY NatLessThanWellFounded
  <1> HIDE DEF R
  <1>3. SUFFICES ASSUME Missing # {} PROVE FALSE
    OBVIOUS
  <1>4. \E x \in Missing : \A y \in Missing : ~ (<<y, x>> \in R)
    <2>1. Missing \subseteq Nat
      OBVIOUS
    <2> HIDE DEF Missing
    <2>2. QED
      BY <1>2, <1>3, <2>1, WFMin
  <1>5. PICK x \in Missing : \A y \in Missing : ~ (y < x)
    <2>1. Missing \subseteq Nat
      OBVIOUS
    <2> HIDE DEF Missing
    <2>2. QED
      BY <1>1, <1>4, <2>1
  <1>6. x \in 1 .. n
    BY <1>5
  <1>7. x - 1 \in T
    BY <1>5, <1>6
  <1>8. QED
    BY <1>5, <1>6, <1>7

\* A set of numbers that is not empty has a least one.
LEMMA Least ==
  ASSUME NEW S, S \subseteq Nat, S # {}
  PROVE  D!Min(S) \in S /\ \A y \in S : D!Min(S) <= y
  <1> DEFINE R == OpToRel(<, Nat)
  <1>1. \A x, y \in Nat : <<x, y>> \in R <=> x < y
    BY DEF OpToRel
  <1>2. IsWellFoundedOn(R, Nat)
    BY NatLessThanWellFounded
  <1> HIDE DEF R
  <1>3. \E x \in S : \A y \in S : ~ (<<y, x>> \in R)
    BY <1>2, WFMin
  <1>4. PICK x \in S : \A y \in S : ~ (<<y, x>> \in R)
    BY <1>3
  <1>5. ASSUME NEW y \in S PROVE x <= y
    <2>1. x \in Nat /\ y \in Nat /\ ~ (y < x)
      BY <1>1, <1>4
    <2>2. QED
      BY <2>1
  <1>6. QED
    BY <1>5 DEF D!Min

\* g[i] is what F[1] .. F[i] make of c0.
IsLoop(g, n, C, c0, F) ==
  /\ g = [i \in 0 .. n |-> IF i = 0 THEN c0 ELSE F[i][g[i - 1]]]
  /\ \A i \in 0 .. n : g[i] \in C

\* A loop that takes its state from c0 through the functions F[1] .. F[n] exists.
LEMMA Iterates ==
  ASSUME NEW n \in Nat, NEW C, NEW c0 \in C, NEW F, \A i \in 1 .. n, c \in C : F[i][c] \in C
  PROVE  \E g : IsLoop(g, n, C, c0, F)
  <1> DEFINE Runs(g, k) == /\ g = [i \in 0 .. k |-> IF i = 0 THEN c0 ELSE F[i][g[i - 1]]]
                           /\ \A i \in 0 .. k : g[i] \in C
             T == {k \in 0 .. n : \E g : Runs(g, k)}
  <1>1. 0 \in T
    <2> DEFINE g == [i \in 0 .. 0 |-> c0]
    <2>1. Runs(g, 0)
      OBVIOUS
    <2> HIDE DEF g
    <2>2. \E f : Runs(f, 0)
      BY <2>1
    <2> HIDE DEF Runs
    <2>3. QED
      BY <2>2
  <1>2. ASSUME NEW k \in 1 .. n, k - 1 \in T
        PROVE  k \in T
    <2>1. PICK g : Runs(g, k - 1)
      BY <1>2
    <2> DEFINE h == [i \in 0 .. k |-> IF i = k THEN F[k][g[k - 1]] ELSE g[i]]
    <2>2. ASSUME NEW i \in 0 .. k
          PROVE  h[i] \in C /\ h[i] = IF i = 0 THEN c0 ELSE F[i][h[i - 1]]
      <3>1. CASE i = 0
        <4>1. i # k /\ i \in 0 .. k - 1
          BY <3>1
        <4>2. h[i] = g[i] /\ g[i] = c0
          BY <2>1, <3>1, <4>1
        <4>3. QED
          BY <3>1, <4>2
      <3>2. CASE i # 0
        <4>1. i - 1 \in 0 .. k - 1 /\ i - 1 # k /\ i - 1 \in 0 .. k
          BY <3>2
        <4>2. h[i - 1] = g[i - 1] /\ g[i - 1] \in C
          BY <2>1, <4>1
        <4>3. CASE i = k
          <5>1. h[i] = F[k][g[k - 1]]
            BY <4>3
          <5>2. QED
            BY <3>2, <4>2, <4>3, <5>1
        <4>4. CASE i # k
          <5>1. i \in 0 .. k - 1
            BY <4>4
          <5>2. g[i] = F[i][g[i - 1]] /\ g[i] \in C
            BY <2>1, <3>2, <5>1
          <5>3. h[i] = g[i]
            BY <4>4
          <5>4. QED
            BY <3>2, <4>2, <5>2, <5>3
        <4>5. QED
          BY <4>3, <4>4
      <3>3. QED
        BY <3>1, <3>2
    <2>3. h = [i \in 0 .. k |-> h[i]]
      OBVIOUS
    <2> HIDE DEF h
    <2>4. Runs(h, k)
      BY <2>2, <2>3
    <2>5. k \in 0 .. n
      OBVIOUS
    <2>6. QED
      BY <2>4, <2>5
  <1>3. \A k \in 0 .. n : k \in T
    <2> HIDE DEF T
    <2>1. QED
      BY <1>1, <1>2, UpTo
  <1>4. PICK g : Runs(g, n)
    BY <1>3
  <1>5. QED
    BY <1>4 DEF IsLoop

\* Multiples of an alignment: the least one from x on and the greatest one up to x.
LEMMA Aligned ==
  ASSUME NEW al \in Nat, al > 0, NEW x \in Nat
  PROVE  /\ D!Up(x, al) \in Nat /\ D!Up(x, al) >= x /\ D!Up(x, al) % al = 0
         /\ \A y \in Nat : y % al = 0 /\ y >= x => y >= D!Up(x, al)
         /\ D!Down(x, al) \in Nat /\ D!Down(x, al) <= x /\ D!Down(x, al) % al = 0
  <1>1. \A a \in Nat : a > 0 => \A z \in Int :
          z \div a \in Int /\ z % a \in Int /\ z = a * (z \div a) + (z % a) /\ 0 <= z % a /\ z % a < a
    OBVIOUS
  <1>2. \A a \in Nat : \A k, m \in Int : k <= m => a * k <= a * m
    OBVIOUS
  <1>3. \A a \in Nat : \A k \in Int : a > 0 => (a * k) % a = 0
    OBVIOUS
  <1>4. \A a \in Nat : \A k \in Int : k * a = a * k /\ a * k \in Int /\ a * (k - 1) = a * k - a
    OBVIOUS
  <1> DEFINE z == x + al - 1
             q == z \div al
             d == x \div al
  <1>5. z \in Int /\ q \in Int /\ z % al \in Int /\ z = al * q + (z % al) /\ 0 <= z % al /\ z % al < al
    BY <1>1
  <1>6. d \in Int /\ x % al \in Int /\ x = al * d + (x % al) /\ 0 <= x % al /\ x % al < al
    BY <1>1
  <1>7. D!Up(x, al) = al * q /\ D!Down(x, al) = al * d
    BY <1>4, <1>5, <1>6 DEF D!Up, D!Down
  <1>8. (al * q) % al = 0 /\ (al * d) % al = 0 /\ al * q \in Int /\ al * d \in Int
    BY <1>3, <1>4, <1>5, <1>6
  <1>9. al * q >= x /\ al * d <= x
    <2> DEFINE u == al * q
               v == al * d
    <2> HIDE DEF q, d, u, v
    <2>1. u \in Int /\ v \in Int /\ z = u + (z % al) /\ x = v + (x % al)
      BY <1>5, <1>6, <1>8 DEF u, v
    <2>2. u >= x /\ v <= x
      BY <1>5, <1>6, <2>1
    <2>3. QED
      BY <2>2 DEF u, v
  <1>10. al * d >= 0
    <2>1. d >= 0
      <3>1. SUFFICES ASSUME d <= -1 PROVE FALSE
        BY <1>6
      <3>2. al * d <= al * (-1) /\ al * (-1) = -al
        BY <1>2, <1>6, <3>1
      <3>3. QED
        BY <1>6, <1>8, <3>2
    <2>2. al * 0 <= al * d /\ al * 0 = 0
      BY <1>2, <1>6, <2>1
    <2>3. QED
      BY <2>2
  <1>11. ASSUME NEW y \in Nat, y % al = 0, y >= x PROVE y >= al * q
    <2> DEFINE k == y \div al
    <2>1. k \in Int /\ y = al * k + (y % al)
      BY <1>1
    <2>2. al * k \in Int
      BY <1>4, <2>1
    <2>3. y = al * k
      BY <1>11, <2>1, <2>2
    <2> HIDE DEF k, q, z
    <2>4. SUFFICES ASSUME k < q PROVE FALSE
      <3>1. SUFFICES q <= k
        BY <1>2, <1>5, <2>1, <2>3
      <3>2. QED
        BY <1>5, <2>1, <2>4
    <2>5. k <= q - 1 /\ q - 1 \in Int
      BY <1>5, <2>1, <2>4
    <2>6. al * k <= al * (q - 1) /\ al * (q - 1) = al * q - al
      BY <1>2, <1>4, <1>5, <2>1, <2>5
    <2>7. al * q <= z /\ z = x + al - 1
      BY <1>5, <1>8 DEF z
    <2>8. QED
      BY <1>8, <1>11, <2>2, <2>3, <2>6, <2>7
  <1> HIDE DEF q, d
  <1>12. QED
    BY <1>7, <1>8, <1>9, <1>10, <1>11

Region == [start : 0 .. Total, end : 0 .. Total, type : Types]

Listed == regions \in Seq(Region) /\ D!TypeOK /\ D!SortedDisjoint

\* A typed, sorted and disjoint list, region by region.
LEMMA ListFacts ==
  ASSUME Listed
  PROVE  /\ Len(regions) \in Nat /\ DOMAIN regions = 1 .. Len(regions) /\ Total \in Nat
         /\ \A i \in 1 .. Len(regions) :
              /\ regions[i] \in Region
              /\ regions[i].start \in Nat /\ regions[i].end \in Nat /\ regions[i].type \in Types
              /\ regions[i].start < regions[i].end /\ regions[i].end <= Total
         /\ \A i, j \in 1 .. Len(regions) : i < j => regions[i].end <= regions[j].start
  <1>1. /\ Len(regions) \in Nat /\ DOMAIN regions = 1 .. Len(regions)
        /\ \A i \in 1 .. Len(regions) : regions[i] \in Region
    BY LenProperties, ElementOfSeq DEF Listed
  <1>2. Total \in Nat
    BY PoolAssumption DEF D!DmemAssumptions
  <1>3. \A r \in Region : r.start \in Nat /\ r.end \in Nat /\ r.end <= Total /\ r.type \in Types
    BY <1>2 DEF Region
  <1>4. \A i \in 1 .. Len(regions) : regions[i].start < regions[i].end
    BY <1>1 DEF Listed, D!TypeOK
  <1>5. \A i, j \in 1 .. Len(regions) : i < j => regions[i].end <= regions[j].start
    BY <1>1 DEF Listed, D!SortedDisjoint
  <1>6. QED
    BY <1>1, <1>2, <1>3, <1>4, <1>5

\* No region reaches into [lo, hi).
Clear(lo, hi) == \A i \in 1 .. Len(regions) : regions[i].end <= lo \/ hi <= regions[i].start

\* That is: its pages are free.
LEMMA ClearIsFree ==
  ASSUME Listed, NEW lo \in Nat, NEW hi \in Nat, lo < hi, hi <= Total
  PROVE  lo .. hi - 1 \subseteq D!FreePages <=> Clear(lo, hi)
  <1>1. /\ DOMAIN regions = 1 .. Len(regions) /\ Total \in Nat
        /\ \A i \in 1 .. Len(regions) :
             /\ regions[i].start \in Nat /\ regions[i].end \in Nat /\ regions[i].start < regions[i].end
    BY ListFacts
  <1>2. ASSUME Clear(lo, hi), NEW p \in lo .. hi - 1
        PROVE  p \in D!FreePages
    <2>1. p \in 0 .. Total - 1
      BY <1>1
    <2>2. ASSUME NEW i \in 1 .. Len(regions) PROVE ~D!Covers(regions[i], p)
      BY <1>1, <1>2 DEF Clear, D!Covers
    <2>3. QED
      BY <1>1, <2>1, <2>2 DEF D!FreePages
  <1>3. ASSUME NEW i \in 1 .. Len(regions), ~(regions[i].end <= lo), ~(hi <= regions[i].start)
        PROVE  ~(lo .. hi - 1 \subseteq D!FreePages)
    <2> DEFINE p == IF regions[i].start > lo THEN regions[i].start ELSE lo
    <2>1. p \in lo .. hi - 1 /\ D!Covers(regions[i], p)
      BY <1>1, <1>3 DEF D!Covers
    <2> HIDE DEF p
    <2>2. p \notin D!FreePages
      BY <1>1, <2>1 DEF D!FreePages
    <2>3. QED
      BY <2>1, <2>2
  <1>4. QED
    BY <1>2, <1>3 DEF Clear

\* A loop over the regions takes its state from one region to the next.
LEMMA FirstFitRuns ==
  ASSUME Listed, NEW from \in Nat, NEW len \in Nat, NEW al \in Nat, al > 0
  PROVE  /\ D!FirstFitLoop(from, len, al)[0] = [at |-> D!Up(from, al), found |-> FALSE]
         /\ \A i \in 1 .. Len(regions) :
              D!FirstFitLoop(from, len, al)[i] =
                D!FirstFitStep(D!FirstFitLoop(from, len, al)[i - 1], regions[i], len, al)
         /\ \A i \in 0 .. Len(regions) :
              D!FirstFitLoop(from, len, al)[i] \in [at : Nat, found : BOOLEAN]
  <1> DEFINE n == Len(regions)
             C == [at : Nat, found : BOOLEAN]
             c0 == [at |-> D!Up(from, al), found |-> FALSE]
             F == [i \in 1 .. n |-> [c \in C |-> D!FirstFitStep(c, regions[i], len, al)]]
             Runs(g) == g = [i \in 0 .. n |-> IF i = 0 THEN c0
                                             ELSE D!FirstFitStep(g[i - 1], regions[i], len, al)]
             r == D!FirstFitLoop(from, len, al)
  <1>1. n \in Nat /\ c0 \in C
    BY ListFacts, Aligned
  <1>2. ASSUME NEW i \in 1 .. n, NEW c \in C
        PROVE  D!FirstFitStep(c, regions[i], len, al) \in C
    <2>1. regions[i].end \in Nat /\ c.at \in Nat
      BY ListFacts
    <2>2. D!Bigger(regions[i].end, c.at) \in Nat
      BY <2>1 DEF D!Bigger
    <2>3. D!Up(D!Bigger(regions[i].end, c.at), al) \in Nat
      BY <2>2, Aligned
    <2>4. QED
      BY <2>3 DEF D!FirstFitStep
  <1>3. \A i \in 1 .. n, c \in C : F[i][c] \in C /\ F[i][c] = D!FirstFitStep(c, regions[i], len, al)
    BY <1>2
  <1> HIDE DEF F, c0, C
  <1>4. PICK g : /\ g = [i \in 0 .. n |-> IF i = 0 THEN c0 ELSE F[i][g[i - 1]]]
                 /\ \A i \in 0 .. n : g[i] \in C
    <2> HIDE DEF n
    <2>1. \A i \in 1 .. n, c \in C : F[i][c] \in C
      BY <1>3
    <2>2. \E g : IsLoop(g, n, C, c0, F)
      BY <1>1, <2>1, Iterates
    <2>3. QED
      BY <2>2 DEF IsLoop
  <1>5. Runs(g)
    <2>1. \A i \in 0 .. n : g[i] = IF i = 0 THEN c0 ELSE D!FirstFitStep(g[i - 1], regions[i], len, al)
      <3>1. SUFFICES ASSUME NEW i \in 0 .. n, i # 0
                     PROVE  g[i] = D!FirstFitStep(g[i - 1], regions[i], len, al)
        BY <1>1, <1>4
      <3>2. i \in 1 .. n /\ i - 1 \in 0 .. n
        BY <1>1, <3>1
      <3>3. QED
        BY <1>3, <1>4, <3>1, <3>2
    <2>2. g = [i \in 0 .. n |-> g[i]]
      BY <1>4
    <2>3. QED
      BY <2>1, <2>2
  <1>6. Runs(r)
    BY <1>5, Zenon DEF D!FirstFitLoop, c0
  <1> HIDE DEF r
  <1>7. r[0] = c0 /\ \A i \in 1 .. n : r[i] = D!FirstFitStep(r[i - 1], regions[i], len, al)
    <2>1. 0 \in 0 .. n /\ \A i \in 1 .. n : i \in 0 .. n /\ i # 0
      BY <1>1
    <2>2. QED
      BY <1>6, <2>1
  <1>8. \A i \in 0 .. n : r[i] \in C
    <2> DEFINE T == {i \in 0 .. n : r[i] \in C}
    <2>1. 0 \in T
      BY <1>1, <1>7
    <2>2. ASSUME NEW i \in 1 .. n, i - 1 \in T PROVE i \in T
      BY <1>1, <1>2, <1>7, <2>2
    <2> HIDE DEF T
    <2>3. \A i \in 0 .. n : i \in T
      BY <1>1, <2>1, <2>2, UpTo
    <2>4. QED
      BY <2>3 DEF T
  <1>9. QED
    BY <1>7, <1>8 DEF r, c0, C

OnGrid(x, al) == x % al = 0

\* No len pages on the grid are free from "from" on and below at.
NoneBelow(at, from, len, al) ==
  \A off \in Nat : off >= from /\ OnGrid(off, al) /\ off < at => ~Clear(off, off + len)

\* The first fit search answers the least offset on the grid where no region is in the way.
LEMMA FirstFitIs ==
  ASSUME Listed, NEW from \in Nat, NEW len \in Nat, len > 0, NEW al \in Nat, al > 0
  PROVE  LET at == D!FirstFit(from, len, al)
         IN  /\ at \in Nat /\ at >= from /\ OnGrid(at, al)
             /\ Clear(at, at + len) /\ NoneBelow(at, from, len, al)
  <1> DEFINE n == Len(regions)
             c(i) == D!FirstFitLoop(from, len, al)[i]
             Good(i) == /\ c(i).at >= from /\ OnGrid(c(i).at, al)
                        /\ NoneBelow(c(i).at, from, len, al)
                        /\ ~c(i).found => \A j \in 1 .. i : regions[j].end <= c(i).at
                        /\ c(i).found => Clear(c(i).at, c(i).at + len)
             T == {i \in 0 .. n : Good(i)}
  <1>1. /\ n \in Nat
        /\ \A i \in 1 .. n : /\ regions[i].start \in Nat /\ regions[i].end \in Nat
                             /\ regions[i].start < regions[i].end
        /\ \A i, j \in 1 .. n : i < j => regions[i].end <= regions[j].start
    BY ListFacts
  <1>2. /\ c(0) = [at |-> D!Up(from, al), found |-> FALSE]
        /\ \A i \in 1 .. n : c(i) = D!FirstFitStep(c(i - 1), regions[i], len, al)
        /\ \A i \in 0 .. n : c(i) \in [at : Nat, found : BOOLEAN]
    BY FirstFitRuns
  <1>3. ASSUME NEW x \in Nat
        PROVE  /\ D!Up(x, al) \in Nat /\ D!Up(x, al) >= x /\ OnGrid(D!Up(x, al), al)
               /\ \A y \in Nat : OnGrid(y, al) /\ y >= x => y >= D!Up(x, al)
    BY Aligned DEF OnGrid
  <1> HIDE DEF c
  <1>4. 0 \in T
    <2>1. c(0).at = D!Up(from, al) /\ ~c(0).found
      BY <1>2
    <2>2. NoneBelow(D!Up(from, al), from, len, al)
      BY <1>3 DEF NoneBelow
    <2>3. QED
      BY <1>1, <1>3, <2>1, <2>2
  <1>5. ASSUME NEW i \in 1 .. n, i - 1 \in T
        PROVE  i \in T
    <2> DEFINE a == c(i - 1).at
               r == regions[i]
    <2>1. /\ i \in 0 .. n /\ i - 1 \in 0 .. n
      BY <1>1
    <2>2. /\ a \in Nat /\ c(i - 1).found \in BOOLEAN /\ c(i) = D!FirstFitStep(c(i - 1), r, len, al)
          /\ c(i - 1) \in [at : Nat, found : BOOLEAN]
      BY <1>2, <2>1
    <2>3. /\ a >= from /\ OnGrid(a, al) /\ NoneBelow(a, from, len, al)
          /\ ~c(i - 1).found => \A j \in 1 .. i - 1 : regions[j].end <= a
          /\ c(i - 1).found => Clear(a, a + len)
      BY <1>5
    <2>4. /\ r.start \in Nat /\ r.end \in Nat /\ r.start < r.end
      BY <1>1
    <2>5. CASE c(i - 1).found
      <3>1. c(i) = c(i - 1)
        BY <2>2, <2>5 DEF D!FirstFitStep
      <3>2. QED
        BY <2>1, <2>3, <2>5, <3>1
    <2>6. CASE ~c(i - 1).found /\ r.end <= a
      <3>1. c(i) = c(i - 1)
        BY <2>2, <2>6 DEF D!FirstFitStep
      <3>2. \A j \in 1 .. i : regions[j].end <= a
        BY <1>1, <2>3, <2>6
      <3>3. QED
        BY <2>1, <2>3, <2>6, <3>1, <3>2
    <2>7. CASE ~c(i - 1).found /\ ~(r.end <= a) /\ r.start >= a + len
      <3>1. c(i).at = a /\ c(i).found
        BY <2>2, <2>7 DEF D!FirstFitStep
      <3>2. Clear(a, a + len)
        <4>1. SUFFICES ASSUME NEW j \in 1 .. n, ~(j < i) PROVE a + len <= regions[j].start
          BY <1>1, <2>3, <2>7 DEF Clear
        <4>2. CASE j = i
          BY <2>7, <4>2
        <4>3. CASE j # i
          <5>1. r.end <= regions[j].start
            BY <1>1, <4>1, <4>3
          <5>2. QED
            BY <1>1, <2>2, <2>4, <2>7, <5>1
        <4>4. QED
          BY <4>2, <4>3
      <3>3. QED
        BY <2>1, <2>3, <3>1, <3>2
    <2>8. CASE ~c(i - 1).found /\ ~(r.end <= a) /\ ~(r.start >= a + len)
      <3>1. D!Bigger(r.end, a) = r.end
        BY <2>2, <2>4, <2>8 DEF D!Bigger
      <3>2. c(i).at = D!Up(r.end, al) /\ ~c(i).found
        BY <2>2, <2>8, <3>1 DEF D!FirstFitStep
      <3> DEFINE b == D!Up(r.end, al)
      <3>3. b \in Nat /\ b >= r.end /\ OnGrid(b, al) /\ \A y \in Nat : OnGrid(y, al) /\ y >= r.end => y >= b
        BY <1>3, <2>4
      <3> HIDE DEF b
      <3>4. b >= from /\ b >= a
        BY <2>2, <2>3, <2>4, <2>8, <3>3
      <3>5. NoneBelow(b, from, len, al)
        <4>1. SUFFICES ASSUME NEW off \in Nat, off >= from, OnGrid(off, al), off < b
                       PROVE  ~Clear(off, off + len)
          BY DEF NoneBelow
        <4>2. CASE off < a
          BY <2>3, <4>1, <4>2 DEF NoneBelow
        <4>3. CASE ~(off < a)
          <5>1. off < r.end
            BY <2>4, <3>3, <4>1
          <5>2. ~(off + len <= r.start)
            BY <2>2, <2>4, <2>8, <4>3
          <5>3. ~(r.end <= off)
            BY <2>4, <5>1
          <5>4. QED
            BY <5>2, <5>3 DEF Clear
        <4>4. QED
          BY <4>2, <4>3
      <3>6. \A j \in 1 .. i : regions[j].end <= b
        <4>1. SUFFICES ASSUME NEW j \in 1 .. i PROVE regions[j].end <= b
          OBVIOUS
        <4>2. CASE j = i
          BY <2>4, <3>3, <4>2
        <4>3. CASE j # i
          <5>1. j \in 1 .. i - 1 /\ regions[j].end \in Nat
            BY <1>1, <4>3
          <5>2. QED
            BY <2>2, <2>3, <2>8, <3>3, <3>4, <5>1
        <4>4. QED
          BY <4>2, <4>3
      <3>7. c(i).at = b
        BY <3>2 DEF b
      <3>8. QED
        BY <2>1, <3>2, <3>3, <3>4, <3>5, <3>6, <3>7
    <2>9. QED
      BY <2>2, <2>5, <2>6, <2>7, <2>8
  <1>6. \A i \in 0 .. n : i \in T
    <2> HIDE DEF T
    <2>1. QED
      BY <1>1, <1>4, <1>5, UpTo
  <1>7. Good(n) /\ c(n) \in [at : Nat, found : BOOLEAN]
    BY <1>1, <1>2, <1>6
  <1>8. Clear(c(n).at, c(n).at + len)
    BY <1>7 DEF Clear
  <1>9. D!FirstFit(from, len, al) = c(n).at
    BY DEF D!FirstFit, c
  <1>10. QED
    BY <1>7, <1>8, <1>9

LEMMA HighestRuns ==
  ASSUME Listed, NEW hi \in Nat, NEW len \in Nat, NEW al \in Nat, al > 0
  PROVE  /\ D!HighestLoop(hi, len, al)[0] = [top |-> hi, at |-> D!ENOMEM]
         /\ \A i \in 1 .. Len(regions) :
              D!HighestLoop(hi, len, al)[i] =
                D!HighestStep(D!HighestLoop(hi, len, al)[i - 1], regions[Len(regions) + 1 - i], len, al)
         /\ \A i \in 0 .. Len(regions) :
              D!HighestLoop(hi, len, al)[i] \in [top : Nat, at : Int]
  <1> DEFINE n == Len(regions)
             C == [top : Nat, at : Int]
             c0 == [top |-> hi, at |-> D!ENOMEM]
             F == [i \in 1 .. n |-> [c \in C |-> D!HighestStep(c, regions[n + 1 - i], len, al)]]
             Runs(g) == g = [i \in 0 .. n |-> IF i = 0 THEN c0
                                             ELSE D!HighestStep(g[i - 1], regions[n + 1 - i], len, al)]
             r == D!HighestLoop(hi, len, al)
  <1>1. n \in Nat /\ c0 \in C
    BY ListFacts DEF D!ENOMEM
  <1>2. ASSUME NEW i \in 1 .. n, NEW c \in C
        PROVE  D!HighestStep(c, regions[n + 1 - i], len, al) \in C
    <2>1. n + 1 - i \in 1 .. n
      BY <1>1
    <2>2. regions[n + 1 - i].start \in Nat /\ c.top \in Nat /\ c.at \in Int
      BY <2>1, ListFacts
    <2>3. c.top >= len => c.top - len \in Nat
      BY <2>2
    <2>4. c.top >= len => D!Down(c.top - len, al) \in Nat
      BY <2>3, Aligned
    <2>5. QED
      BY <2>2, <2>4 DEF D!HighestStep
  <1>3. \A i \in 1 .. n, c \in C : F[i][c] \in C /\ F[i][c] = D!HighestStep(c, regions[n + 1 - i], len, al)
    BY <1>2
  <1> HIDE DEF F, c0, C
  <1>4. PICK g : /\ g = [i \in 0 .. n |-> IF i = 0 THEN c0 ELSE F[i][g[i - 1]]]
                 /\ \A i \in 0 .. n : g[i] \in C
    <2> HIDE DEF n
    <2>1. \A i \in 1 .. n, c \in C : F[i][c] \in C
      BY <1>3
    <2>2. \E g : IsLoop(g, n, C, c0, F)
      BY <1>1, <2>1, Iterates
    <2>3. QED
      BY <2>2 DEF IsLoop
  <1>5. Runs(g)
    <2>1. \A i \in 0 .. n : g[i] = IF i = 0 THEN c0 ELSE D!HighestStep(g[i - 1], regions[n + 1 - i], len, al)
      <3>1. SUFFICES ASSUME NEW i \in 0 .. n, i # 0
                     PROVE  g[i] = D!HighestStep(g[i - 1], regions[n + 1 - i], len, al)
        BY <1>1, <1>4
      <3>2. i \in 1 .. n /\ i - 1 \in 0 .. n
        BY <1>1, <3>1
      <3>3. QED
        BY <1>3, <1>4, <3>1, <3>2
    <2>2. g = [i \in 0 .. n |-> g[i]]
      BY <1>4
    <2>3. QED
      BY <2>1, <2>2
  <1>6. Runs(r)
    BY <1>5, Zenon DEF D!HighestLoop, c0
  <1> HIDE DEF r
  <1>7. r[0] = c0 /\ \A i \in 1 .. n : r[i] = D!HighestStep(r[i - 1], regions[n + 1 - i], len, al)
    <2>1. 0 \in 0 .. n /\ \A i \in 1 .. n : i \in 0 .. n /\ i # 0
      BY <1>1
    <2>2. QED
      BY <1>6, <2>1
  <1>8. \A i \in 0 .. n : r[i] \in C
    <2> DEFINE T == {i \in 0 .. n : r[i] \in C}
    <2>1. 0 \in T
      BY <1>1, <1>7
    <2>2. ASSUME NEW i \in 1 .. n, i - 1 \in T PROVE i \in T
      BY <1>1, <1>2, <1>7, <2>2
    <2> HIDE DEF T
    <2>3. \A i \in 0 .. n : i \in T
      BY <1>1, <2>1, <2>2, UpTo
    <2>4. QED
      BY <2>3 DEF T
  <1>9. QED
    BY <1>7, <1>8 DEF r, c0, C

\* An offset the search from the top of the pool answers is on the grid, not below
\* kDmemBase, and no region is in its way.
LEMMA HighestFitIs ==
  ASSUME Listed, NEW len \in Nat, len > 0, NEW al \in Nat, al > 0
  PROVE  LET at == D!HighestFit(Total, len, al)
         IN  \/ at = D!ENOMEM
             \/ at \in Nat /\ at >= Base /\ at + len <= Total /\ OnGrid(at, al) /\ Clear(at, at + len)
  <1> DEFINE n == Len(regions)
             c(i) == D!HighestLoop(Total, len, al)[i]
             Fit(at) == at \in Nat /\ at >= Base /\ at + len <= Total /\ OnGrid(at, al) /\ Clear(at, at + len)
             Good(i) == /\ c(i).at = D!ENOMEM =>
                             c(i).top <= Total /\ \A j \in 1 .. n : n - i < j => c(i).top <= regions[j].start
                        /\ c(i).at # D!ENOMEM => Fit(c(i).at)
             T == {i \in 0 .. n : Good(i)}
  <1>1. /\ n \in Nat /\ Total \in Nat /\ Base \in Nat
        /\ \A i \in 1 .. n : /\ regions[i].start \in Nat /\ regions[i].end \in Nat
                             /\ regions[i].start < regions[i].end /\ regions[i].end <= Total
        /\ \A i, j \in 1 .. n : i < j => regions[i].end <= regions[j].start
    BY ListFacts, PoolAssumption DEF D!DmemAssumptions
  <1>2. /\ c(0) = [top |-> Total, at |-> D!ENOMEM]
        /\ \A i \in 1 .. n : c(i) = D!HighestStep(c(i - 1), regions[n + 1 - i], len, al)
        /\ \A i \in 0 .. n : c(i) \in [top : Nat, at : Int]
    BY <1>1, HighestRuns
  <1>3. ASSUME NEW top \in Nat, top >= len
        PROVE  /\ D!Down(top - len, al) \in Nat /\ D!Down(top - len, al) + len <= top
               /\ OnGrid(D!Down(top - len, al), al)
    <2>1. top - len \in Nat
      BY <1>3
    <2>2. /\ D!Down(top - len, al) \in Nat /\ D!Down(top - len, al) <= top - len
          /\ OnGrid(D!Down(top - len, al), al)
      BY <2>1, Aligned DEF OnGrid
    <2>3. \A d \in Nat : d <= top - len => d + len <= top
      BY <1>3
    <2>4. QED
      BY <2>2, <2>3
  <1> HIDE DEF c
  <1>4. 0 \in T
    <2>1. c(0).top = Total /\ c(0).at = D!ENOMEM
      BY <1>2
    <2>2. QED
      BY <1>1, <2>1
  <1>5. ASSUME NEW i \in 1 .. n, i - 1 \in T
        PROVE  i \in T
    <2> DEFINE top == c(i - 1).top
               k == n + 1 - i
               r == regions[k]
               at == D!Down(top - len, al)
    <2>1. i \in 0 .. n /\ i - 1 \in 0 .. n /\ k \in 1 .. n /\ n - i = k - 1 /\ n - (i - 1) = k
      BY <1>1
    <2>2. /\ top \in Nat /\ c(i - 1) \in [top : Nat, at : Int]
          /\ c(i) = D!HighestStep(c(i - 1), r, len, al)
      BY <1>2, <2>1
    <2>3. r.start \in Nat /\ r.end \in Nat /\ r.start < r.end /\ r.end <= Total
      BY <1>1, <2>1
    <2>4. CASE c(i - 1).at # D!ENOMEM
      <3>1. c(i) = c(i - 1)
        BY <2>2, <2>4 DEF D!HighestStep
      <3>2. QED
        BY <1>5, <2>1, <2>4, <3>1
    <2>5. CASE c(i - 1).at = D!ENOMEM
      <3>1. top <= Total /\ \A j \in 1 .. n : k < j => top <= regions[j].start
        BY <1>5, <2>1, <2>5
      <3> DEFINE ok == r.start < top /\ top >= len /\ at >= r.end /\ at >= Base
      <3>2. CASE ok
        <4>1. c(i).at = at
          BY <2>2, <2>5, <3>2 DEF D!HighestStep
        <4>2. at \in Nat /\ at + len <= top /\ OnGrid(at, al)
          BY <1>3, <2>2, <3>2
        <4>3. at >= r.end /\ at >= Base
          BY <3>2
        <4> HIDE DEF at
        <4>4. Clear(at, at + len)
          <5>1. SUFFICES ASSUME NEW j \in 1 .. n PROVE regions[j].end <= at \/ at + len <= regions[j].start
            BY DEF Clear
          <5>2. CASE k < j
            <6>1. top <= regions[j].start /\ regions[j].start \in Nat
              BY <1>1, <3>1, <5>2
            <6>2. QED
              BY <2>2, <4>2, <6>1
          <5>3. CASE j = k
            BY <4>3, <5>3
          <5>4. CASE j < k
            <6>1. regions[j].end <= r.start /\ regions[j].end \in Nat
              BY <1>1, <2>1, <5>4
            <6>2. QED
              BY <2>3, <4>2, <4>3, <6>1
          <5>5. k < j \/ j = k \/ j < k
            BY <1>1, <2>1
          <5>6. QED
            BY <5>2, <5>3, <5>4, <5>5
        <4>5. at + len <= Total
          BY <1>1, <2>2, <3>1, <4>2
        <4>6. at # D!ENOMEM
          BY <4>2 DEF D!ENOMEM
        <4>7. Fit(at)
          BY <4>2, <4>3, <4>4, <4>5
        <4>8. QED
          BY <2>1, <4>1, <4>6, <4>7
      <3>3. CASE ~ok
        <4>1. c(i).at = D!ENOMEM /\ c(i).top = r.start
          BY <2>2, <2>5, <3>3 DEF D!HighestStep
        <4>2. r.start <= Total
          BY <1>1, <2>3
        <4>3. \A j \in 1 .. n : n - i < j => r.start <= regions[j].start
          <5>1. SUFFICES ASSUME NEW j \in 1 .. n, k - 1 < j PROVE r.start <= regions[j].start
            BY <2>1
          <5>2. CASE j = k
            BY <2>3, <5>2
          <5>3. CASE j # k
            <6>1. k < j
              <7> HIDE DEF k
              <7>1. k \in Int /\ j \in Int
                BY <1>1, <2>1
              <7>2. QED
                BY <5>1, <5>3, <7>1
            <6>2. r.end <= regions[j].start /\ regions[j].start \in Nat
              BY <1>1, <2>1, <6>1
            <6>3. QED
              BY <2>3, <6>2
          <5>4. QED
            BY <5>2, <5>3
        <4> HIDE DEF r
        <4>4. QED
          BY <2>1, <4>1, <4>2, <4>3
      <3>4. QED
        BY <3>2, <3>3
    <2>6. QED
      BY <2>4, <2>5
  <1>6. \A i \in 0 .. n : i \in T
    <2> HIDE DEF T
    <2>1. QED
      BY <1>1, <1>4, <1>5, UpTo
  <1>7. Good(n) /\ c(n) \in [top : Nat, at : Int]
    <2>1. n \in 0 .. n
      BY <1>1
    <2>2. n \in T
      BY <1>6, <2>1
    <2>3. Good(n)
      BY <2>2
    <2>4. QED
      BY <1>2, <2>1, <2>3
  <1> DEFINE top == c(n).top
             at == D!Down(top - len, al)
  <1>8. D!HighestFit(Total, len, al) =
          IF c(n).at # D!ENOMEM THEN c(n).at ELSE IF top < len \/ at < Base THEN D!ENOMEM ELSE at
    BY DEF D!HighestFit, c
  <1>9. CASE c(n).at # D!ENOMEM
    BY <1>7, <1>8, <1>9
  <1>10. CASE c(n).at = D!ENOMEM /\ (top < len \/ at < Base)
    BY <1>8, <1>10
  <1>11. CASE c(n).at = D!ENOMEM /\ ~(top < len) /\ ~(at < Base)
    <2>1. D!HighestFit(Total, len, al) = at
      BY <1>8, <1>11
    <2>2. top \in Nat /\ top >= len /\ top <= Total /\ \A j \in 1 .. n : top <= regions[j].start
      BY <1>1, <1>7, <1>11
    <2>3. at \in Nat /\ at + len <= top /\ OnGrid(at, al)
      BY <1>3, <2>2
    <2> HIDE DEF at, top
    <2>4. at >= Base /\ at + len <= Total
      BY <1>1, <1>11, <2>2, <2>3
    <2>5. Clear(at, at + len)
      BY <1>1, <2>2, <2>3 DEF Clear
    <2>6. QED
      BY <2>1, <2>3, <2>4, <2>5
  <1>12. QED
    BY <1>9, <1>10, <1>11

\* Where len pages fit.
LEMMA InFits ==
  ASSUME Listed, NEW from \in Nat, NEW top \in Nat, top <= Total, NEW len \in Nat, len > 0,
         NEW al \in Nat, NEW off
  PROVE  off \in D!Fits(from, top, len, al) <=>
           off \in Nat /\ off >= from /\ off + len <= top /\ OnGrid(off, al) /\ Clear(off, off + len)
  <1>1. off \in from .. top - len <=> off \in Nat /\ off >= from /\ off + len <= top
    OBVIOUS
  <1>2. ASSUME off \in Nat, off + len <= top
        PROVE  off .. off + len - 1 \subseteq D!FreePages <=> Clear(off, off + len)
    <2>1. off + len \in Nat /\ off < off + len /\ off + len <= Total
      BY <1>2, ListFacts
    <2>2. QED
      BY <1>2, <2>1, ClearIsFree
  <1>3. QED
    BY <1>1, <1>2 DEF D!Fits, OnGrid

\* DmemAllocate's answer is the least fit of the window or of the pool above kDmemBase.
LEMMA PlacementIs ==
  ASSUME Listed, NEW lo \in Nat, NEW hi \in Nat, NEW len \in Nat, NEW al \in Nat
  PROVE  LET at == D!Placement(lo, hi, len, al)
             top == D!Ceiling(hi)
             fits == D!Fits(IF D!Windowed(lo, hi) THEN lo ELSE Base, top, len, al)
         IN  /\ top \in Nat /\ top <= Total
             /\ len > 0 /\ al > 0 /\ D!PowerOfTwo(al) /\ lo < top => at # D!EINVAL
             /\ at # D!EINVAL =>
                  /\ len > 0 /\ al > 0
                  /\ IF fits = {} THEN at = D!ENOMEM ELSE at \in fits /\ \A off \in fits : at <= off
             /\ at \in {D!EINVAL, D!ENOMEM} \/ (at \in Nat /\ at + len <= Total /\ Clear(at, at + len))
  <1> DEFINE at == D!Placement(lo, hi, len, al)
             top == D!Ceiling(hi)
             from == IF D!Windowed(lo, hi) THEN lo ELSE Base
             fits == D!Fits(from, top, len, al)
             ff == D!FirstFit(from, len, al)
  <1>1. Total \in Nat /\ Base \in Nat
    BY PoolAssumption DEF D!DmemAssumptions
  <1>2. top \in Nat /\ top <= Total /\ from \in Nat
    BY <1>1 DEF D!Ceiling
  <1>3. ~D!Windowed(lo, hi) => top = Total /\ from = Base
    BY <1>1 DEF D!Windowed, D!Ceiling
  <1>4. at = IF len = 0 \/ ~D!PowerOfTwo(al) \/ lo >= top THEN D!EINVAL
             ELSE IF ff + len <= top THEN ff
             ELSE IF D!Windowed(lo, hi) THEN D!ENOMEM
             ELSE D!HighestFit(top, len, al)
    BY DEF D!Placement
  <1>5. D!PowerOfTwo(al) => al > 0
    BY DEF D!PowerOfTwo
  <1> HIDE DEF top, from, at, ff, fits
  <1>6. CASE len = 0 \/ ~D!PowerOfTwo(al) \/ lo >= top
    <2>1. at = D!EINVAL
      BY <1>4, <1>6
    <2>2. ~(len > 0 /\ al > 0 /\ D!PowerOfTwo(al) /\ lo < top)
      BY <1>2, <1>6
    <2>3. QED
      BY <1>2, <2>1, <2>2 DEF top, from, at, fits
  <1>7. CASE ~(len = 0 \/ ~D!PowerOfTwo(al) \/ lo >= top)
    <2>1. len > 0 /\ al > 0
      BY <1>5, <1>7
    <2>2. ff \in Nat /\ ff >= from /\ OnGrid(ff, al) /\ Clear(ff, ff + len) /\ NoneBelow(ff, from, len, al)
      BY <1>2, <2>1, FirstFitIs DEF ff
    <2>3. \A off : off \in fits <=>
            off \in Nat /\ off >= from /\ off + len <= top /\ OnGrid(off, al) /\ Clear(off, off + len)
      BY <1>2, <2>1, InFits DEF fits
    <2>4. \A off \in fits : ff <= off
      <3>1. SUFFICES ASSUME NEW off \in fits, off < ff PROVE FALSE
        BY <2>2, <2>3
      <3>2. QED
        BY <2>2, <2>3, <3>1 DEF NoneBelow
    <2>5. /\ at # D!EINVAL
          /\ IF fits = {} THEN at = D!ENOMEM ELSE at \in fits /\ \A off \in fits : at <= off
          /\ at = D!ENOMEM \/ (at \in Nat /\ at + len <= Total /\ Clear(at, at + len))
      <3>1. CASE ff + len <= top
        <4>1. at = ff
          BY <1>4, <1>7, <3>1
        <4>2. ff \in fits /\ ff # D!EINVAL
          BY <2>2, <2>3, <3>1 DEF D!EINVAL
        <4>3. ff + len <= Total
          BY <1>1, <1>2, <2>2, <3>1
        <4>4. QED
          BY <2>2, <2>4, <4>1, <4>2, <4>3
      <3>2. CASE ~(ff + len <= top)
        <4>1. fits = {}
          <5>1. SUFFICES ASSUME NEW off \in fits PROVE FALSE
            OBVIOUS
          <5>2. off \in Nat /\ off + len <= top /\ ff <= off
            BY <2>3, <2>4
          <5>3. QED
            BY <1>2, <2>2, <3>2, <5>2
        <4>2. D!ENOMEM # D!EINVAL
          BY DEF D!ENOMEM, D!EINVAL
        <4>3. CASE D!Windowed(lo, hi)
          <5>1. at = D!ENOMEM
            BY <1>4, <1>7, <3>2, <4>3
          <5>2. QED
            BY <4>1, <4>2, <5>1
        <4>4. CASE ~D!Windowed(lo, hi)
          <5>1. at = D!HighestFit(Total, len, al)
            BY <1>3, <1>4, <1>7, <3>2, <4>4
          <5>2. at = D!ENOMEM \/ at \in fits
            BY <1>3, <2>1, <2>3, <4>4, <5>1, HighestFitIs
          <5>3. QED
            BY <4>1, <4>2, <5>2
        <4>5. QED
          BY <4>3, <4>4
      <3>3. QED
        BY <3>1, <3>2
    <2>6. QED
      BY <1>2, <2>1, <2>5 DEF top, from, at, fits
  <1>8. QED
    BY <1>6, <1>7

\* A hole is remembered when it is larger than the largest so far.
LEMMA HoleStepIs ==
  ASSUME NEW c \in [cur : Nat, base : Nat, size : Nat], NEW end \in Nat
  PROVE  LET d == D!HoleStep(c, end)
         IN  /\ d \in [cur : Nat, base : Nat, size : Nat] /\ d.cur = c.cur /\ d.size >= c.size
             /\ end > c.cur => d.size >= end - c.cur
             /\ d = c \/ (end > c.cur /\ d.base = c.cur /\ d.size = end - c.cur)
  <1>1. c.cur \in Nat /\ c.base \in Nat /\ c.size \in Nat
    OBVIOUS
  <1>2. CASE end > c.cur /\ end - c.cur > c.size
    <2>1. D!HoleStep(c, end) = [c EXCEPT !.base = c.cur, !.size = end - c.cur] /\ end - c.cur \in Nat
      BY <1>1, <1>2 DEF D!HoleStep
    <2> DEFINE s == end - c.cur
    <2> HIDE DEF s
    <2>2. /\ [c EXCEPT !.base = c.cur, !.size = s].cur = c.cur
          /\ [c EXCEPT !.base = c.cur, !.size = s].base = c.cur
          /\ [c EXCEPT !.base = c.cur, !.size = s].size = s
          /\ s \in Nat => [c EXCEPT !.base = c.cur, !.size = s] \in [cur : Nat, base : Nat, size : Nat]
      BY <1>1
    <2>3. s \in Nat /\ s >= c.size
      BY <1>1, <1>2, <2>1 DEF s
    <2>4. QED
      BY <1>2, <2>1, <2>2, <2>3 DEF s
  <1>3. CASE ~(end > c.cur /\ end - c.cur > c.size)
    <2>1. D!HoleStep(c, end) = c
      BY <1>3 DEF D!HoleStep
    <2>2. c.size >= c.size /\ (end > c.cur => c.size >= end - c.cur)
      BY <1>1, <1>3
    <2>3. QED
      BY <2>1, <2>2
  <1>4. QED
    BY <1>2, <1>3

LEMMA HoleRuns ==
  ASSUME Listed, NEW lo \in Nat, NEW top \in Nat, NEW al \in Nat, al > 0, lo # 0
  PROVE  /\ D!HoleLoop(lo, top, al)[0] = [cur |-> D!Up(lo, al), base |-> 0, size |-> 0]
         /\ \A i \in 1 .. Len(regions) :
              D!HoleLoop(lo, top, al)[i] = D!HoleWalk(D!HoleLoop(lo, top, al)[i - 1], regions[i], top, al)
         /\ \A i \in 0 .. Len(regions) :
              D!HoleLoop(lo, top, al)[i] \in [cur : Nat, base : Nat, size : Nat]
  <1> DEFINE n == Len(regions)
             C == [cur : Nat, base : Nat, size : Nat]
             c0 == [cur |-> D!Up(lo, al), base |-> 0, size |-> 0]
             d0 == [cur |-> D!Up(IF lo = 0 THEN Base ELSE lo, al), base |-> 0, size |-> 0]
             F == [i \in 1 .. n |-> [c \in C |-> D!HoleWalk(c, regions[i], top, al)]]
             Runs(g) == g = [i \in 0 .. n |-> IF i = 0 THEN d0 ELSE D!HoleWalk(g[i - 1], regions[i], top, al)]
             r == D!HoleLoop(lo, top, al)
  <1>1. n \in Nat /\ c0 \in C /\ c0 = d0
    BY ListFacts, Aligned
  <1>2. ASSUME NEW i \in 1 .. n, NEW c \in C
        PROVE  D!HoleWalk(c, regions[i], top, al) \in C
    <2>1. regions[i].start \in Nat /\ regions[i].end \in Nat /\ c.cur \in Nat /\ c.base \in Nat /\ c.size \in Nat
      BY ListFacts
    <2>2. D!Bigger(regions[i].end, c.cur) \in Nat
      BY <2>1 DEF D!Bigger
    <2>3. D!Up(D!Bigger(regions[i].end, c.cur), al) \in Nat
      BY <2>2, Aligned
    <2>4. D!HoleStep(c, regions[i].start) \in C
      BY <2>1, HoleStepIs
    <2>5. QED
      BY <2>3, <2>4 DEF D!HoleWalk
  <1>3. \A i \in 1 .. n, c \in C : F[i][c] \in C /\ F[i][c] = D!HoleWalk(c, regions[i], top, al)
    BY <1>2
  <1> HIDE DEF F, c0, d0, C
  <1>4. PICK g : /\ g = [i \in 0 .. n |-> IF i = 0 THEN c0 ELSE F[i][g[i - 1]]]
                 /\ \A i \in 0 .. n : g[i] \in C
    <2> HIDE DEF n
    <2>1. \A i \in 1 .. n, c \in C : F[i][c] \in C
      BY <1>3
    <2>2. \E g : IsLoop(g, n, C, c0, F)
      BY <1>1, <2>1, Iterates
    <2>3. QED
      BY <2>2 DEF IsLoop
  <1>5. Runs(g)
    <2>1. \A i \in 0 .. n : g[i] = IF i = 0 THEN d0 ELSE D!HoleWalk(g[i - 1], regions[i], top, al)
      <3>1. SUFFICES ASSUME NEW i \in 0 .. n, i # 0
                     PROVE  g[i] = D!HoleWalk(g[i - 1], regions[i], top, al)
        BY <1>1, <1>4
      <3>2. i \in 1 .. n /\ i - 1 \in 0 .. n
        BY <1>1, <3>1
      <3>3. QED
        BY <1>3, <1>4, <3>1, <3>2
    <2>2. g = [i \in 0 .. n |-> g[i]]
      BY <1>4
    <2>3. QED
      BY <2>1, <2>2
  <1>6. Runs(r)
    BY <1>5, Zenon DEF D!HoleLoop, d0
  <1> HIDE DEF r
  <1>7. r[0] = c0 /\ \A i \in 1 .. n : r[i] = D!HoleWalk(r[i - 1], regions[i], top, al)
    <2>1. 0 \in 0 .. n /\ \A i \in 1 .. n : i \in 0 .. n /\ i # 0
      BY <1>1
    <2>2. QED
      BY <1>1, <1>6, <2>1
  <1>8. \A i \in 0 .. n : r[i] \in C
    <2> DEFINE T == {i \in 0 .. n : r[i] \in C}
    <2>1. 0 \in T
      BY <1>1, <1>7
    <2>2. ASSUME NEW i \in 1 .. n, i - 1 \in T PROVE i \in T
      BY <1>1, <1>2, <1>7, <2>2
    <2> HIDE DEF T
    <2>3. \A i \in 0 .. n : i \in T
      BY <1>1, <2>1, <2>2, UpTo
    <2>4. QED
      BY <2>3 DEF T
  <1>9. QED
    BY <1>7, <1>8 DEF r, c0, C

\* The walk has seen i regions: what it remembers is free, and nothing larger
\* starts below the candidate.
Walked(c, i, lo, top, al) ==
  /\ c \in [cur : Nat, base : Nat, size : Nat]
  /\ c.cur >= lo /\ OnGrid(c.cur, al)
  /\ c.size > 0 => /\ c.base >= lo /\ OnGrid(c.base, al)
                   /\ c.base + c.size <= top /\ Clear(c.base, c.base + c.size)
  /\ \A j \in 1 .. i : regions[j].end <= c.cur \/ regions[j].start >= top
  /\ \A off \in Nat : off >= lo /\ OnGrid(off, al) /\ off < c.cur /\ off + c.size + 1 <= top
                        => ~Clear(off, off + c.size + 1)

\* A longer stretch is no clearer.
LEMMA ClearShorter ==
  ASSUME Listed, NEW off \in Nat, NEW a \in Nat, NEW b \in Nat, a <= b, Clear(off, off + b + 1)
  PROVE  Clear(off, off + a + 1)
  BY ListFacts DEF Clear

LEMMA WalkStep ==
  ASSUME Listed, NEW lo \in Nat, NEW top \in Nat, NEW al \in Nat, al > 0,
         NEW i \in 1 .. Len(regions), NEW c, Walked(c, i - 1, lo, top, al)
  PROVE  Walked(D!HoleWalk(c, regions[i], top, al), i, lo, top, al)
  <1> DEFINE n == Len(regions)
             r == regions[i]
             e == D!HoleStep(c, r.start)
             d == D!HoleWalk(c, r, top, al)
  <1>1. /\ n \in Nat
        /\ \A j \in 1 .. n : /\ regions[j].start \in Nat /\ regions[j].end \in Nat
                             /\ regions[j].start < regions[j].end
        /\ \A j, k \in 1 .. n : j < k => regions[j].end <= regions[k].start
    BY ListFacts
  <1>2. c \in [cur : Nat, base : Nat, size : Nat] /\ c.cur \in Nat /\ c.base \in Nat /\ c.size \in Nat
    BY DEF Walked
  <1>3. r.start \in Nat /\ r.end \in Nat /\ r.start < r.end
    BY <1>1
  <1>4. CASE r.end <= c.cur \/ r.start >= top
    <2>1. d = c
      BY <1>4 DEF D!HoleWalk
    <2>2. \A j \in 1 .. i : j \in 1 .. i - 1 \/ j = i
      BY <1>1
    <2>3. QED
      BY <1>4, <2>1, <2>2 DEF Walked
  <1>5. CASE ~(r.end <= c.cur) /\ ~(r.start >= top)
    <2> DEFINE u == D!Up(r.end, al)
    <2>1. D!Bigger(r.end, c.cur) = r.end
      BY <1>2, <1>3, <1>5 DEF D!Bigger
    <2>2. d = [e EXCEPT !.cur = u]
      BY <1>5, <2>1 DEF D!HoleWalk
    <2>3. /\ u \in Nat /\ u >= r.end /\ u % al = 0
          /\ \A y \in Nat : y % al = 0 /\ y >= r.end => y >= u
      BY <1>3, Aligned
    <2>4. /\ e \in [cur : Nat, base : Nat, size : Nat] /\ e.cur = c.cur /\ e.size >= c.size
          /\ r.start > c.cur => e.size >= r.start - c.cur
          /\ e = c \/ (r.start > c.cur /\ e.base = c.cur /\ e.size = r.start - c.cur)
      BY <1>2, <1>3, HoleStepIs
    <2>5. e.base \in Nat /\ e.size \in Nat
      BY <2>4
    <2> HIDE DEF u, e, d, r, n
    <2>6. /\ d \in [cur : Nat, base : Nat, size : Nat]
          /\ d.cur = u /\ d.base = e.base /\ d.size = e.size
      BY <2>2, <2>3, <2>4
    <2>7. lo <= c.cur /\ c.cur < u
      BY <1>2, <1>3, <1>5, <2>3 DEF Walked
    <2>8. \A j \in 1 .. i : regions[j].end <= u \/ regions[j].start >= top
      <3>1. SUFFICES ASSUME NEW j \in 1 .. i PROVE regions[j].end <= u \/ regions[j].start >= top
        OBVIOUS
      <3>2. CASE j = i
        BY <2>3, <3>2 DEF r
      <3>3. CASE j # i
        <4>1. j \in 1 .. i - 1 /\ j \in 1 .. n
          BY <1>1, <3>3 DEF n
        <4>2. regions[j].end <= c.cur \/ regions[j].start >= top
          BY <4>1 DEF Walked
        <4>3. QED
          BY <1>1, <1>2, <2>3, <2>7, <4>1, <4>2
      <3>4. QED
        BY <3>2, <3>3
    <2>9. e.size > 0 => /\ e.base >= lo /\ OnGrid(e.base, al)
                        /\ e.base + e.size <= top /\ Clear(e.base, e.base + e.size)
      <3>1. CASE e = c
        BY <3>1 DEF Walked
      <3>2. CASE r.start > c.cur /\ e.base = c.cur /\ e.size = r.start - c.cur
        <4>1. e.base + e.size = r.start
          BY <1>2, <1>3, <3>2
        <4>2. r.start <= top
          BY <1>3, <1>5
        <4>3. ASSUME NEW j \in 1 .. n PROVE regions[j].end <= c.cur \/ r.start <= regions[j].start
          <5>1. regions[j].start \in Nat /\ regions[j].end \in Nat
            BY <1>1
          <5>2. CASE j < i
            <6>1. j \in 1 .. i - 1
              BY <1>1, <5>2
            <6>2. regions[j].end <= c.cur \/ regions[j].start >= top
              BY <6>1 DEF Walked
            <6>3. QED
              BY <1>3, <4>2, <5>1, <6>2
          <5>3. CASE j = i
            BY <1>3, <5>3 DEF r
          <5>4. CASE i < j
            <6>1. r.end <= regions[j].start
              BY <1>1, <5>4 DEF r, n
            <6>2. QED
              BY <1>3, <5>1, <6>1
          <5>5. QED
            BY <1>1, <5>2, <5>3, <5>4 DEF n
        <4>4. Clear(e.base, e.base + e.size)
          BY <3>2, <4>1, <4>3 DEF Clear, n
        <4>5. QED
          BY <3>2, <4>1, <4>2, <4>4 DEF Walked
      <3>3. QED
        BY <2>4, <3>1, <3>2
    <2>10. ASSUME NEW off \in Nat, off >= lo, OnGrid(off, al), off < u, off + e.size + 1 <= top,
                  Clear(off, off + e.size + 1)
           PROVE  FALSE
      <3>1. CASE off < c.cur
        <4>1. off + c.size + 1 <= top
          BY <1>2, <2>4, <2>5, <2>10
        <4>2. Clear(off, off + c.size + 1)
          BY <1>2, <2>4, <2>5, <2>10, ClearShorter
        <4>3. QED
          BY <2>10, <3>1, <4>1, <4>2 DEF Walked
      <3>2. CASE ~(off < c.cur)
        <4>1. off < r.end
          BY <1>3, <2>3, <2>10 DEF OnGrid
        <4>2. off + e.size + 1 > r.start
          BY <1>2, <1>3, <2>4, <2>5, <3>2
        <4>3. r.end <= off \/ off + e.size + 1 <= r.start
          BY <2>10 DEF Clear, r
        <4>4. QED
          BY <1>3, <2>5, <4>1, <4>2, <4>3
      <3>3. QED
        BY <3>1, <3>2
    <2>11. Walked(d, i, lo, top, al)
      <3>1. d.cur >= lo /\ OnGrid(d.cur, al)
        BY <1>2, <2>3, <2>6, <2>7 DEF OnGrid
      <3>2. QED
        BY <2>6, <2>8, <2>9, <2>10, <3>1 DEF Walked
    <2>12. QED
      BY <2>11 DEF d, r
  <1>6. QED
    BY <1>4, <1>5

\* DmemLargestHole answers a free stretch on the grid, and none there is larger.
LEMMA HoleIs ==
  ASSUME Listed, NEW lo \in 1 .. Total, NEW hi \in 1 .. Total, NEW al \in Nat, al > 0
  PROVE  LET hole == D!LargestHole(lo, hi, al)
         IN  /\ hole.size \in Nat /\ hole.base \in Nat
             /\ hole.size > 0 => /\ hole.base >= lo /\ OnGrid(hole.base, al)
                                 /\ hole.base + hole.size <= hi
                                 /\ Clear(hole.base, hole.base + hole.size)
             /\ \A off \in Nat : off >= lo /\ OnGrid(off, al) /\ off + hole.size + 1 <= hi
                                   => ~Clear(off, off + hole.size + 1)
  <1> DEFINE n == Len(regions)
             c(i) == D!HoleLoop(lo, hi, al)[i]
             T == {i \in 0 .. n : Walked(c(i), i, lo, hi, al)}
             last == c(n)
             hole == D!HoleStep(last, hi)
  <1>1. /\ n \in Nat /\ Total \in Nat
        /\ \A j \in 1 .. n : regions[j].start \in Nat /\ regions[j].end \in Nat
    BY ListFacts
  <1>2. lo \in Nat /\ hi \in Nat /\ lo # 0 /\ D!Ceiling(hi) = hi
    BY <1>1 DEF D!Ceiling
  <1>3. D!LargestHole(lo, hi, al) = hole
    BY <1>2 DEF D!LargestHole
  <1>4. /\ c(0) = [cur |-> D!Up(lo, al), base |-> 0, size |-> 0]
        /\ \A i \in 1 .. n : c(i) = D!HoleWalk(c(i - 1), regions[i], hi, al)
    BY <1>2, HoleRuns
  <1>5. 0 \in T
    <2>1. /\ D!Up(lo, al) \in Nat /\ D!Up(lo, al) >= lo /\ D!Up(lo, al) % al = 0
          /\ \A y \in Nat : y % al = 0 /\ y >= lo => y >= D!Up(lo, al)
      BY <1>2, Aligned
    <2> DEFINE u == D!Up(lo, al)
    <2> HIDE DEF u, c
    <2>2. c(0) \in [cur : Nat, base : Nat, size : Nat] /\ c(0).cur = u /\ c(0).size = 0
      BY <1>4, <2>1 DEF u
    <2>3. \A off \in Nat : off >= lo /\ OnGrid(off, al) => ~(off < u)
      BY <1>2, <2>1 DEF u, OnGrid
    <2>4. Walked(c(0), 0, lo, hi, al)
      BY <2>1, <2>2, <2>3 DEF u, Walked, OnGrid
    <2>5. QED
      BY <1>1, <2>4
  <1>6. ASSUME NEW i \in 1 .. n, i - 1 \in T PROVE i \in T
    <2>1. Walked(c(i - 1), i - 1, lo, hi, al)
      BY <1>6
    <2> HIDE DEF c
    <2>2. Walked(c(i), i, lo, hi, al)
      BY <1>2, <1>4, <2>1, WalkStep
    <2>3. QED
      BY <2>2
  <1>7. Walked(last, n, lo, hi, al)
    <2> HIDE DEF T
    <2>1. \A i \in 0 .. n : i \in T
      BY <1>1, <1>5, <1>6, UpTo
    <2>2. n \in T
      BY <1>1, <2>1
    <2>3. QED
      BY <2>2 DEF T
  <1> HIDE DEF last, hole, T, c
  <1>8. last \in [cur : Nat, base : Nat, size : Nat] /\ last.cur \in Nat /\ last.base \in Nat /\ last.size \in Nat
    BY <1>7 DEF Walked
  <1>9. /\ hole \in [cur : Nat, base : Nat, size : Nat] /\ hole.cur = last.cur /\ hole.size >= last.size
        /\ hi > last.cur => hole.size >= hi - last.cur
        /\ hole = last \/ (hi > last.cur /\ hole.base = last.cur /\ hole.size = hi - last.cur)
    BY <1>2, <1>8, HoleStepIs DEF hole
  <1>10. hole.size \in Nat /\ hole.base \in Nat
    BY <1>9
  <1>11. hole.size > 0 => /\ hole.base >= lo /\ OnGrid(hole.base, al)
                          /\ hole.base + hole.size <= hi
                          /\ Clear(hole.base, hole.base + hole.size)
    <2>1. CASE hole = last
      BY <1>7, <2>1 DEF Walked
    <2>2. CASE hi > last.cur /\ hole.base = last.cur /\ hole.size = hi - last.cur
      <3>1. hole.base + hole.size = hi
        BY <1>2, <1>8, <2>2
      <3>2. Clear(last.cur, hi)
        BY <1>1, <1>2, <1>7 DEF Walked, Clear, n
      <3>3. QED
        BY <1>2, <1>7, <2>2, <3>1, <3>2 DEF Walked
    <2>3. QED
      BY <1>9, <2>1, <2>2
  <1>12. ASSUME NEW off \in Nat, off >= lo, OnGrid(off, al), off + hole.size + 1 <= hi,
                Clear(off, off + hole.size + 1)
         PROVE  FALSE
    <2>1. off < last.cur
      BY <1>2, <1>8, <1>9, <1>10, <1>12
    <2>2. off + last.size + 1 <= hi
      BY <1>2, <1>8, <1>9, <1>10, <1>12
    <2>3. Clear(off, off + last.size + 1)
      BY <1>8, <1>9, <1>10, <1>12, ClearShorter
    <2>4. QED
      BY <1>7, <1>12, <2>1, <2>2, <2>3 DEF Walked
  <1>13. QED
    BY <1>3, <1>10, <1>11, <1>12
\* What the searches answer is right in every state with such a list.
LEMMA ListedSearches == ASSUME Listed PROVE D!DmemInv
  <1>1. /\ Total \in Nat /\ Base \in Nat
        /\ Lens \subseteq Nat /\ Aligns \subseteq Nat /\ Windows \subseteq Nat \X Nat
    BY PoolAssumption DEF D!DmemAssumptions
  <1>2. ASSUME NEW w \in Windows, NEW len \in Lens, NEW al \in Aligns,
               D!Placement(w[1], w[2], len, al) # D!EINVAL
        PROVE  LET at == D!Placement(w[1], w[2], len, al)
                   fits == D!Fits(IF D!Windowed(w[1], w[2]) THEN w[1] ELSE Base,
                                  D!Ceiling(w[2]), len, al)
               IN  IF fits = {} THEN at = D!ENOMEM ELSE at \in fits /\ \A off \in fits : at <= off
    <2>1. w[1] \in Nat /\ w[2] \in Nat /\ len \in Nat /\ al \in Nat
      BY <1>1
    <2>2. QED
      BY <1>2, <2>1, PlacementIs
  <1>3. ASSUME NEW lo \in 1 .. Total, NEW hi \in 1 .. Total, NEW al \in Aligns, D!PowerOfTwo(al),
               lo < hi
        PROVE  LET hole == D!LargestHole(lo, hi, al)
               IN  /\ hole.size > 0 => D!Placement(hole.base, hi, hole.size, al) = hole.base
                   /\ D!Fits(lo, hi, hole.size + 1, al) = {}
    <2> DEFINE hole == D!LargestHole(lo, hi, al)
               base == hole.base
               size == hole.size
    <2>1. al \in Nat /\ al > 0 /\ lo \in Nat /\ lo > 0 /\ hi \in Nat /\ hi <= Total /\ hi # 0
      BY <1>1, <1>3 DEF D!PowerOfTwo
    <2>2. /\ size \in Nat /\ base \in Nat
          /\ size > 0 => base >= lo /\ OnGrid(base, al) /\ base + size <= hi /\ Clear(base, base + size)
          /\ \A off \in Nat : off >= lo /\ OnGrid(off, al) /\ off + size + 1 <= hi
                                => ~Clear(off, off + size + 1)
      BY <2>1, HoleIs
    <2> HIDE DEF base, size
    <2>3. D!Fits(lo, hi, size + 1, al) = {}
      <3>1. SUFFICES ASSUME NEW off \in D!Fits(lo, hi, size + 1, al) PROVE FALSE
        OBVIOUS
      <3> DEFINE len == size + 1
      <3>2. len \in Nat /\ len > 0
        BY <2>2
      <3>3. \A z \in Nat : z + len = z + size + 1
        BY <2>2
      <3> HIDE DEF len
      <3>4. off \in D!Fits(lo, hi, len, al)
        BY <3>1 DEF len
      <3>5. off \in Nat /\ off >= lo /\ off + len <= hi /\ OnGrid(off, al) /\ Clear(off, off + len)
        BY <2>1, <3>2, <3>4, InFits
      <3>6. QED
        BY <2>2, <3>3, <3>5
    <2>4. ASSUME size > 0 PROVE D!Placement(base, hi, size, al) = base
      <3> DEFINE at == D!Placement(base, hi, size, al)
                 fits == D!Fits(base, hi, size, al)
      <3>1. base # 0 /\ base < hi /\ base >= lo /\ OnGrid(base, al) /\ base + size <= hi
            /\ Clear(base, base + size)
        BY <2>1, <2>2, <2>4
      <3>2. D!Windowed(base, hi) /\ D!Ceiling(hi) = hi
        BY <1>1, <2>1, <3>1 DEF D!Windowed, D!Ceiling
      <3>3. /\ at # D!EINVAL
            /\ IF fits = {} THEN at = D!ENOMEM ELSE at \in fits /\ \A off \in fits : at <= off
        <4>1. D!Fits(IF D!Windowed(base, hi) THEN base ELSE Base, D!Ceiling(hi), size, al) = fits
          BY <3>2
        <4>2. LET f == D!Fits(IF D!Windowed(base, hi) THEN base ELSE Base, D!Ceiling(hi), size, al)
              IN  /\ size > 0 /\ al > 0 /\ D!PowerOfTwo(al) /\ base < D!Ceiling(hi) => at # D!EINVAL
                  /\ at # D!EINVAL => IF f = {} THEN at = D!ENOMEM
                                      ELSE at \in f /\ \A off \in f : at <= off
          BY <2>1, <2>2, PlacementIs
        <4> HIDE DEF at, fits
        <4>3. QED
          BY <1>3, <2>1, <2>4, <3>1, <3>2, <4>1, <4>2
      <3>4. \A off : off \in fits <=> off \in Nat /\ off >= base /\ off + size <= hi /\ OnGrid(off, al)
                                      /\ Clear(off, off + size)
        BY <2>1, <2>2, <2>4, InFits
      <3> HIDE DEF at, fits
      <3>5. base \in fits
        BY <2>2, <3>1, <3>4
      <3>6. at \in Nat /\ at >= base /\ at <= base
        BY <3>3, <3>4, <3>5
      <3>7. at = base
        BY <2>2, <3>6
      <3>8. QED
        BY <3>7 DEF at
    <2>5. QED
      BY <2>3, <2>4 DEF base, size
  <1>4. D!AllocIsFirstFit
    BY <1>2 DEF D!AllocIsFirstFit
  <1>5. D!HoleIsAllocatable
    <2>1. \A al \in {a \in Aligns : D!PowerOfTwo(a)} : al \in Aligns /\ D!PowerOfTwo(al)
      OBVIOUS
    <2>2. QED
      BY <1>3, <2>1 DEF D!HoleIsAllocatable
  <1>6. QED
    BY <1>4, <1>5 DEF Listed, D!DmemInv
\* A list of regions that is sorted and disjoint, and whether it holds page p as type ty.
Well(L) ==
  /\ L \in Seq(Region)
  /\ \A i \in 1 .. Len(L) : L[i].start < L[i].end
  /\ \A i, j \in 1 .. Len(L) : i < j => L[i].end <= L[j].start

Holds(L, p, ty) == \E i \in 1 .. Len(L) : D!Covers(L[i], p) /\ L[i].type = ty

OwnerOf(L) ==
  [p \in 0 .. Total - 1 |->
     IF p \in {q \in 0 .. Total - 1 : \A i \in DOMAIN L : ~D!Covers(L[i], q)} THEN D!NoType
     ELSE L[CHOOSE i \in DOMAIN L : D!Covers(L[i], p)].type]

LEMMA OwnerIs == D!Owner = OwnerOf(regions) /\ D!Owner' = OwnerOf(regions')
  BY DEF D!Owner, D!FreePages, OwnerOf, D!Covers, D!NoType

LEMMA ListedIsWell == (Listed => Well(regions)) /\ (Well(regions') => Listed')
  <1>1. ASSUME Listed PROVE Well(regions)
    BY <1>1, ListFacts DEF Well, Listed
  <1>2. ASSUME Well(regions') PROVE Listed'
    <2>1. regions' \in Seq(Region) /\ DOMAIN regions' = 1 .. Len(regions')
      BY <1>2, LenProperties DEF Well
    <2>2. \A i \in 1 .. Len(regions') : regions'[i] \in Region
      BY <2>1, ElementOfSeq
    <2>3. \A r \in Region : r.start \in 0 .. Total /\ r.end \in 0 .. Total /\ r.type \in Types
      BY DEF Region
    <2>4. D!TypeOK'
      BY <1>2, <2>1, <2>2, <2>3 DEF D!TypeOK, D!Offsets, Well
    <2>5. D!SortedDisjoint'
      BY <1>2, <2>1 DEF D!SortedDisjoint, Well
    <2>6. QED
      BY <2>1, <2>4, <2>5 DEF Listed, Region
  <1>3. QED
    BY <1>1, <1>2

LEMMA WellFacts ==
  ASSUME NEW L, Well(L)
  PROVE  /\ Len(L) \in Nat /\ DOMAIN L = 1 .. Len(L)
         /\ \A i \in 1 .. Len(L) : /\ L[i] \in Region /\ L[i].type \in Types
                                   /\ L[i].start \in Nat /\ L[i].end \in Nat /\ L[i].end <= Total
  <1>1. Len(L) \in Nat /\ DOMAIN L = 1 .. Len(L) /\ \A i \in 1 .. Len(L) : L[i] \in Region
    BY LenProperties, ElementOfSeq DEF Well
  <1>2. \A r \in Region : r.start \in Nat /\ r.end \in Nat /\ r.end <= Total /\ r.type \in Types
    BY PoolAssumption DEF Region, D!DmemAssumptions
  <1>3. QED
    BY <1>1, <1>2

\* A page has the type of the one region that holds it, or none.
LEMMA OwnerReads ==
  ASSUME NEW L, Well(L), NEW p \in 0 .. Total - 1
  PROVE  /\ \A ty : Holds(L, p, ty) => OwnerOf(L)[p] = ty
         /\ (\A ty : ~Holds(L, p, ty)) => OwnerOf(L)[p] = D!NoType
  <1>1. /\ Len(L) \in Nat /\ DOMAIN L = 1 .. Len(L)
        /\ \A i \in 1 .. Len(L) : L[i].start \in Nat /\ L[i].end \in Nat
    BY WellFacts
  <1>2. OwnerOf(L)[p] = IF \A i \in 1 .. Len(L) : ~D!Covers(L[i], p) THEN D!NoType
                        ELSE L[CHOOSE i \in 1 .. Len(L) : D!Covers(L[i], p)].type
    BY <1>1 DEF OwnerOf
  <1>3. ASSUME NEW i \in 1 .. Len(L), NEW j \in 1 .. Len(L), D!Covers(L[i], p), D!Covers(L[j], p)
        PROVE  i = j
    <2>1. ~(i < j)
      BY <1>1, <1>3 DEF Well, D!Covers
    <2>2. ~(j < i)
      BY <1>1, <1>3 DEF Well, D!Covers
    <2>3. QED
      BY <1>1, <2>1, <2>2
  <1>4. ASSUME NEW i \in 1 .. Len(L), D!Covers(L[i], p) PROVE OwnerOf(L)[p] = L[i].type
    <2> DEFINE c == CHOOSE k \in 1 .. Len(L) : D!Covers(L[k], p)
    <2>1. c \in 1 .. Len(L) /\ D!Covers(L[c], p)
      BY <1>4
    <2>2. c = i
      <3> HIDE DEF c
      <3>1. QED
        BY <1>3, <1>4, <2>1
    <2>3. QED
      BY <1>2, <1>4, <2>2
  <1>5. QED
    BY <1>2, <1>4 DEF Holds

\* Inserting an element at place i moves the later ones down.
LEMMA InsertedAt ==
  ASSUME NEW S, NEW s \in Seq(S), NEW i \in 1 .. Len(s) + 1, NEW e \in S
  PROVE  /\ D!InsertAt(s, i, e) \in Seq(S) /\ Len(D!InsertAt(s, i, e)) = Len(s) + 1
         /\ \A k \in 1 .. Len(s) + 1 :
              D!InsertAt(s, i, e)[k] = IF k < i THEN s[k] ELSE IF k = i THEN e ELSE s[k - 1]
  <1> DEFINE n == Len(s)
             a == SubSeq(s, 1, i - 1)
             m == <<e>>
             z == SubSeq(s, i, n)
             b == a \o m
  <1>1. n \in Nat /\ i \in Nat /\ 1 <= i /\ i <= n + 1 /\ \A k \in 1 .. n : s[k] \in S
    BY LenProperties, ElementOfSeq
  <1>2. a \in Seq(S) /\ Len(a) = i - 1 /\ \A k \in 1 .. i - 1 : a[k] = s[k]
    <2>1. \A k \in 1 .. i - 1 : s[k] \in S
      BY <1>1
    <2>2. /\ a \in Seq(S) /\ Len(a) = IF 1 <= i - 1 THEN i - 1 - 1 + 1 ELSE 0
          /\ \A k \in 1 .. i - 1 - 1 + 1 : a[k] = s[1 + k - 1]
      BY <1>1, <2>1, SubSeqProperties
    <2>3. i - 1 - 1 + 1 = i - 1 /\ (~(1 <= i - 1) => i - 1 = 0)
      BY <1>1
    <2>4. \A k \in 1 .. i - 1 : 1 + k - 1 = k
      BY <1>1
    <2>5. QED
      BY <2>2, <2>3, <2>4
  <1>3. z \in Seq(S) /\ Len(z) = n - i + 1 /\ \A k \in 1 .. n - i + 1 : z[k] = s[i + k - 1]
    <2>1. \A k \in i .. n : s[k] \in S
      BY <1>1
    <2>2. /\ z \in Seq(S) /\ Len(z) = IF i <= n THEN n - i + 1 ELSE 0
          /\ \A k \in 1 .. n - i + 1 : z[k] = s[i + k - 1]
      BY <1>1, <2>1, SubSeqProperties
    <2>3. ~(i <= n) => n - i + 1 = 0
      BY <1>1
    <2>4. QED
      BY <2>2, <2>3
  <1>4. m \in Seq(S) /\ Len(m) = 1 /\ m[1] = e
    OBVIOUS
  <1> HIDE DEF a, z, n, m
  <1>5. /\ b \in Seq(S) /\ Len(b) = Len(a) + Len(m)
        /\ \A k \in 1 .. Len(a) + Len(m) : b[k] = IF k <= Len(a) THEN a[k] ELSE m[k - Len(a)]
    BY <1>2, <1>4, ConcatProperties
  <1>6. b \in Seq(S) /\ Len(b) = i /\ \A k \in 1 .. i : b[k] = IF k < i THEN s[k] ELSE e
    <2>1. Len(a) + Len(m) = i
      BY <1>1, <1>2, <1>4
    <2>2. ASSUME NEW k \in 1 .. i PROVE b[k] = IF k < i THEN s[k] ELSE e
      <3>1. CASE k < i
        <4>1. k \in 1 .. i - 1 /\ k <= Len(a)
          BY <1>1, <1>2, <3>1
        <4>2. QED
          BY <1>2, <1>5, <2>1, <3>1, <4>1
      <3>2. CASE ~(k < i)
        <4>1. k = i /\ ~(k <= Len(a)) /\ k - Len(a) = 1
          BY <1>1, <1>2, <3>2
        <4>2. QED
          BY <1>4, <1>5, <2>1, <3>2, <4>1
      <3>3. QED
        BY <3>1, <3>2
    <2>3. QED
      BY <1>5, <2>1, <2>2
  <1> HIDE DEF b
  <1>7. /\ b \o z \in Seq(S) /\ Len(b \o z) = Len(b) + Len(z)
        /\ \A k \in 1 .. Len(b) + Len(z) : (b \o z)[k] = IF k <= Len(b) THEN b[k] ELSE z[k - Len(b)]
    BY <1>3, <1>6, ConcatProperties
  <1>8. D!InsertAt(s, i, e) = b \o z
    BY DEF D!InsertAt, a, b, m, z, n
  <1>9. Len(b) + Len(z) = n + 1
    BY <1>1, <1>3, <1>6
  <1>10. ASSUME NEW k \in 1 .. n + 1
         PROVE  (b \o z)[k] = IF k < i THEN s[k] ELSE IF k = i THEN e ELSE s[k - 1]
    <2>1. CASE k <= i
      <3>1. k \in 1 .. i /\ (~(k < i) => k = i)
        BY <1>1, <2>1
      <3>2. (b \o z)[k] = b[k]
        BY <1>6, <1>7, <1>9, <2>1
      <3>3. QED
        BY <1>6, <3>1, <3>2
    <2>2. CASE ~(k <= i)
      <3>1. k - i \in 1 .. n - i + 1 /\ i + (k - i) - 1 = k - 1 /\ ~(k < i) /\ k # i
        BY <1>1, <2>2
      <3>2. (b \o z)[k] = z[k - i]
        BY <1>6, <1>7, <1>9, <2>2
      <3>3. z[k - i] = s[i + (k - i) - 1]
        BY <1>3, <3>1
      <3>4. QED
        BY <3>1, <3>2, <3>3
    <2>3. QED
      BY <2>1, <2>2
  <1>11. QED
    BY <1>7, <1>8, <1>9, <1>10 DEF n
\* DmemAllocate inserts a region between the ones that end before it and the ones
\* that start after it.
LEMMA Inserted ==
  ASSUME Listed, NEW r \in Region, r.start < r.end, Clear(r.start, r.end)
  PROVE  LET L == D!InsertAt(regions, D!Position(r.start), r)
         IN  /\ Well(L)
             /\ \A p \in Nat : \A ty : Holds(L, p, ty) <=> (D!Covers(r, p) /\ r.type = ty) \/ Holds(regions, p, ty)
  <1> DEFINE n == Len(regions)
             off == r.start
             Places == {i \in 1 .. n + 1 : i = n + 1 \/ regions[i].start >= off}
             pos == D!Position(off)
             L == D!InsertAt(regions, pos, r)
  <1>1. /\ n \in Nat /\ regions \in Seq(Region)
        /\ \A i \in 1 .. n : /\ regions[i].start \in Nat /\ regions[i].end \in Nat
                             /\ regions[i].start < regions[i].end
        /\ \A i, j \in 1 .. n : i < j => regions[i].end <= regions[j].start
    BY ListFacts DEF Listed
  <1>2. r.start \in Nat /\ r.end \in Nat
    BY PoolAssumption DEF Region, D!DmemAssumptions
  <1>3. pos \in Places /\ \A y \in Places : pos <= y
    <2>1. Places \subseteq Nat /\ n + 1 \in Places
      BY <1>1
    <2>2. pos = D!Min(Places)
      BY DEF D!Position
    <2> HIDE DEF Places
    <2>3. Places # {}
      BY <2>1
    <2>4. D!Min(Places) \in Places /\ \A y \in Places : D!Min(Places) <= y
      BY <2>1, <2>3, Least
    <2>5. QED
      BY <2>2, <2>4
  <1> HIDE DEF pos
  <1>4. pos \in 1 .. n + 1 /\ pos \in Nat
    BY <1>1, <1>3
  <1>5. ASSUME NEW i \in 1 .. n, i < pos PROVE regions[i].end <= r.start
    <2>1. i \notin Places
      BY <1>1, <1>3, <1>4, <1>5
    <2>2. ~(regions[i].start >= off)
      BY <1>1, <2>1
    <2>3. regions[i].end <= r.start \/ r.end <= regions[i].start
      BY DEF Clear
    <2>4. QED
      BY <1>1, <1>2, <2>2, <2>3
  <1>6. ASSUME NEW i \in 1 .. n, ~(i < pos) PROVE r.end <= regions[i].start
    <2>1. pos \in 1 .. n /\ pos # n + 1
      BY <1>1, <1>4, <1>6
    <2>2. regions[pos].start >= off
      BY <1>3, <2>1
    <2>3. regions[i].start >= off
      <3>1. CASE i = pos
        BY <2>2, <3>1
      <3>2. CASE i # pos
        <4>1. pos < i
          BY <1>1, <1>4, <1>6, <3>2
        <4>2. regions[pos].end <= regions[i].start
          BY <1>1, <2>1, <4>1
        <4>3. QED
          BY <1>1, <1>2, <2>1, <2>2, <4>2
      <3>3. QED
        BY <3>1, <3>2
    <2>4. regions[i].end <= r.start \/ r.end <= regions[i].start
      BY DEF Clear
    <2>5. QED
      BY <1>1, <1>2, <2>3, <2>4
  <1>7. /\ L \in Seq(Region) /\ Len(L) = n + 1
        /\ \A k \in 1 .. n + 1 : L[k] = IF k < pos THEN regions[k] ELSE IF k = pos THEN r ELSE regions[k - 1]
    BY <1>1, <1>4, InsertedAt
  <1> HIDE DEF L, Places
  <1>8. ASSUME NEW k \in 1 .. n + 1
        PROVE  \/ k = pos /\ L[k] = r
               \/ k < pos /\ k \in 1 .. n /\ L[k] = regions[k]
               \/ k > pos /\ k - 1 \in 1 .. n /\ ~(k - 1 < pos) /\ L[k] = regions[k - 1]
    <2> HIDE DEF n
    <2>1. k = pos \/ k < pos \/ (k > pos /\ ~(k < pos) /\ k # pos)
      BY <1>1, <1>4
    <2>2. k < pos => k \in 1 .. n
      BY <1>1, <1>4
    <2>3. k > pos => k - 1 \in 1 .. n /\ ~(k - 1 < pos)
      BY <1>1, <1>4
    <2>4. ~(pos < pos)
      BY <1>4
    <2>5. QED
      BY <1>7, <2>1, <2>2, <2>3, <2>4
  <1>9. ASSUME NEW k \in 1 .. n + 1 PROVE L[k].start < L[k].end
    BY <1>1, <1>8
  <1>10. ASSUME NEW i \in 1 .. n + 1, NEW j \in 1 .. n + 1, i < j PROVE L[i].end <= L[j].start
    <2>1. CASE i = pos
      <3>1. j > pos
        BY <1>10, <2>1
      <3>2. j - 1 \in 1 .. n /\ ~(j - 1 < pos) /\ L[j] = regions[j - 1] /\ L[i] = r
        BY <1>1, <1>4, <1>8, <2>1, <3>1
      <3>3. QED
        BY <1>6, <3>2
    <2>2. CASE i < pos /\ i \in 1 .. n /\ L[i] = regions[i]
      <3>1. CASE j = pos
        BY <1>5, <1>8, <2>2, <3>1, <1>4
      <3>2. CASE j < pos /\ j \in 1 .. n /\ L[j] = regions[j]
        BY <1>1, <1>10, <2>2, <3>2
      <3>3. CASE j > pos /\ j - 1 \in 1 .. n /\ ~(j - 1 < pos) /\ L[j] = regions[j - 1]
        <4>1. i < j - 1
          BY <1>1, <1>4, <2>2, <3>3
        <4>2. QED
          BY <1>1, <2>2, <3>3, <4>1
      <3>4. QED
        BY <1>8, <3>1, <3>2, <3>3
    <2>3. CASE i > pos /\ i - 1 \in 1 .. n /\ ~(i - 1 < pos) /\ L[i] = regions[i - 1]
      <3>1. j > pos
        BY <1>1, <1>4, <1>10, <2>3
      <3>2. j - 1 \in 1 .. n /\ L[j] = regions[j - 1]
        BY <1>1, <1>4, <1>8, <3>1
      <3>3. i - 1 < j - 1
        BY <1>1, <1>10
      <3>4. QED
        BY <1>1, <2>3, <3>2, <3>3
    <2>4. QED
      BY <1>8, <2>1, <2>2, <2>3
  <1>11. Well(L)
    BY <1>7, <1>9, <1>10 DEF Well
  <1>12. ASSUME NEW p \in Nat, NEW ty
         PROVE  Holds(L, p, ty) <=> (D!Covers(r, p) /\ r.type = ty) \/ Holds(regions, p, ty)
    <2>1. ASSUME Holds(L, p, ty) PROVE (D!Covers(r, p) /\ r.type = ty) \/ Holds(regions, p, ty)
      <3>1. PICK k \in 1 .. n + 1 : D!Covers(L[k], p) /\ L[k].type = ty
        BY <1>7, <2>1 DEF Holds
      <3>2. L[k] = r \/ \E i \in 1 .. n : L[k] = regions[i]
        BY <1>8
      <3>3. QED
        BY <3>1, <3>2 DEF Holds, n
    <2>2. ASSUME D!Covers(r, p), r.type = ty PROVE Holds(L, p, ty)
      <3>1. L[pos] = r
        BY <1>4, <1>8
      <3>2. QED
        BY <1>4, <1>7, <2>2, <3>1 DEF Holds
    <2>3. ASSUME Holds(regions, p, ty) PROVE Holds(L, p, ty)
      <3>1. PICK i \in 1 .. n : D!Covers(regions[i], p) /\ regions[i].type = ty
        BY <2>3 DEF Holds, n
      <3>2. \E k \in 1 .. n + 1 : L[k] = regions[i]
        <4>1. CASE i < pos
          <5>1. i \in 1 .. n + 1
            BY <1>1
          <5>2. QED
            BY <1>7, <4>1, <5>1
        <4>2. CASE ~(i < pos)
          <5> DEFINE k == i + 1
          <5>1. k \in 1 .. n + 1 /\ ~(k < pos) /\ k # pos /\ k - 1 = i
            BY <1>1, <1>4, <4>2
          <5> HIDE DEF k
          <5>2. L[k] = regions[k - 1]
            BY <1>7, <5>1
          <5>3. QED
            BY <5>1, <5>2
        <4>3. QED
          BY <4>1, <4>2
      <3>3. QED
        BY <1>7, <3>1, <3>2 DEF Holds
    <2>4. QED
      BY <2>1, <2>2, <2>3
  <1>13. QED
    BY <1>11, <1>12 DEF L, pos

\* What an allocation does to the list is a claim of free pages, or nothing.
LEMMA AllocateStep ==
  ASSUME Listed, NEW w \in Windows, NEW len \in Lens, NEW al \in Aligns, NEW ty \in Types,
         D!DmemAllocate(w[1], w[2], len, al, ty)
  PROVE  Listed' /\ (D!Abstract!PoolNext \/ UNCHANGED D!Owner)
  <1> DEFINE at == D!Placement(w[1], w[2], len, al)
             r == [start |-> at, end |-> at + len, type |-> ty]
             S == at .. at + len - 1
  <1>1. /\ Total \in Nat /\ w[1] \in Nat /\ w[2] \in Nat /\ len \in Nat /\ al \in Nat
        /\ Types \subseteq Nat
    BY PoolAssumption DEF D!DmemAssumptions
  <1>2. regions' = IF at < 0 THEN regions ELSE D!InsertAt(regions, D!Position(at), r)
    BY DEF D!DmemAllocate
  <1>3. /\ at # D!EINVAL => len > 0
        /\ at \in {D!EINVAL, D!ENOMEM} \/ (at \in Nat /\ at + len <= Total /\ Clear(at, at + len))
    <2> DEFINE lo == w[1]
               hi == w[2]
    <2>1. lo \in Nat /\ hi \in Nat /\ at = D!Placement(lo, hi, len, al)
      BY <1>1
    <2> HIDE DEF lo, hi, at
    <2>2. QED
      BY <1>1, <2>1, PlacementIs
  <1> HIDE DEF at
  <1>4. CASE at \in {D!EINVAL, D!ENOMEM}
    <2>1. at < 0
      BY <1>4 DEF D!EINVAL, D!ENOMEM
    <2>2. regions' = regions
      BY <1>2, <2>1
    <2>3. QED
      BY <2>2, ListedIsWell, OwnerIs
  <1>5. CASE at \in Nat /\ at + len <= Total /\ Clear(at, at + len) /\ at # D!EINVAL
    <2>1. len > 0 /\ ~(at < 0)
      BY <1>3, <1>5
    <2>2. r \in Region /\ r.start = at /\ r.end = at + len /\ r.type = ty /\ r.start < r.end
      BY <1>1, <1>5, <2>1 DEF Region
    <2>3. regions' = D!InsertAt(regions, D!Position(r.start), r)
      BY <1>2, <2>1, <2>2
    <2> HIDE DEF r
    <2>4. /\ Well(regions')
          /\ \A p \in Nat : \A t : Holds(regions', p, t) <=> (D!Covers(r, p) /\ r.type = t) \/ Holds(regions, p, t)
      BY <1>5, <2>2, <2>3, Inserted
    <2>5. Well(regions)
      BY ListedIsWell
    <2>6. /\ Len(regions) \in Nat
          /\ \A i \in 1 .. Len(regions) : regions[i].start \in Nat /\ regions[i].end \in Nat
      BY ListFacts
    <2>7. \A p \in Nat : D!Covers(r, p) <=> p \in S
      BY <1>1, <1>5, <2>2 DEF D!Covers
    <2>8. ASSUME NEW p \in S, NEW t PROVE p \in Nat /\ p \in 0 .. Total - 1 /\ ~Holds(regions, p, t)
      <3>1. p \in Nat /\ p \in 0 .. Total - 1
        BY <1>1, <1>5
      <3>2. \A i \in 1 .. Len(regions) : regions[i].end <= at \/ at + len <= regions[i].start
        BY <1>5 DEF Clear
      <3>3. ASSUME NEW i \in 1 .. Len(regions) PROVE ~D!Covers(regions[i], p)
        <4>1. at <= p /\ p < at + len
          BY <1>1, <1>5
        <4>2. \A a, z, x, y, q \in Nat :
                a <= q /\ q < z /\ (y <= a \/ z <= x) => ~(x <= q /\ q < y)
          OBVIOUS
        <4>3. regions[i].end <= at \/ at + len <= regions[i].start
          BY <3>2
        <4>4. at + len \in Nat /\ regions[i].start \in Nat /\ regions[i].end \in Nat
          BY <1>1, <1>5, <2>6
        <4>5. ~(regions[i].start <= p /\ p < regions[i].end)
          BY <1>5, <3>1, <4>1, <4>2, <4>3, <4>4
        <4>6. QED
          BY <4>5 DEF D!Covers
      <3>4. QED
        BY <3>1, <3>3 DEF Holds
    <2> DEFINE new == [p \in 0 .. Total - 1 |-> IF p \in S THEN ty ELSE OwnerOf(regions)[p]]
    <2>9. ASSUME NEW p \in 0 .. Total - 1 PROVE OwnerOf(regions')[p] = new[p]
      <3>1. p \in Nat
        BY <1>1
      <3>2. CASE p \in S
        <4>1. Holds(regions', p, ty)
          BY <2>2, <2>4, <2>7, <3>1, <3>2
        <4>2. QED
          BY <2>4, <3>2, <4>1, OwnerReads
      <3>3. CASE p \notin S
        <4>1. \A t : Holds(regions', p, t) <=> Holds(regions, p, t)
          BY <2>4, <2>7, <3>1, <3>3
        <4>2. OwnerOf(regions')[p] = OwnerOf(regions)[p]
          <5>1. CASE \E t : Holds(regions, p, t)
            BY <2>4, <2>5, <4>1, <5>1, OwnerReads
          <5>2. CASE \A t : ~Holds(regions, p, t)
            BY <2>4, <2>5, <4>1, <5>2, OwnerReads
          <5>3. QED
            BY <5>1, <5>2
        <4>3. QED
          BY <3>3, <4>2
      <3>4. QED
        BY <3>2, <3>3
    <2>10. OwnerOf(regions') = new
      <3>1. OwnerOf(regions') = [p \in 0 .. Total - 1 |-> OwnerOf(regions')[p]]
        BY DEF OwnerOf
      <3>2. QED
        BY <2>9, <3>1
    <2>11. \A p \in S : OwnerOf(regions)[p] = D!NoType
      BY <2>5, <2>8, OwnerReads
    <2>12. at \in 0 .. Total /\ at + len \in 0 .. Total
      BY <1>1, <1>5
    <2>13. D!Abstract!PoolNext
      <3> DEFINE top == at + len
      <3>1. top \in 0 .. Total /\ S = at .. top - 1
        BY <1>1, <1>5, <2>12
      <3> HIDE DEF S, new
      <3>2. \A p \in at .. top - 1 : OwnerOf(regions)[p] = D!NoType
        BY <2>11, <3>1
      <3>3. OwnerOf(regions') = [p \in 0 .. Total - 1 |-> IF p \in at .. top - 1 THEN ty ELSE OwnerOf(regions)[p]]
        BY <2>10, <3>1 DEF new
      <3> HIDE DEF top
      <3>4. D!Abstract!Claim(at .. top - 1, ty)
        BY <3>2, <3>3, OwnerIs DEF D!Abstract!Claim, D!Abstract!Pool
      <3>5. QED
        BY <2>12, <3>1, <3>4 DEF D!Abstract!PoolNext
    <2>14. QED
      BY <2>4, <2>13, ListedIsWell
  <1>6. QED
    BY <1>3, <1>4, <1>5

\* Two lists one after the other.
LEMMA Joined ==
  ASSUME NEW L, NEW M, Well(L), Well(M),
         \A i \in 1 .. Len(L), j \in 1 .. Len(M) : L[i].end <= M[j].start
  PROVE  /\ Well(L \o M)
         /\ \A k \in 1 .. Len(L \o M) : \/ \E i \in 1 .. Len(L) : (L \o M)[k] = L[i]
                                        \/ \E j \in 1 .. Len(M) : (L \o M)[k] = M[j]
         /\ \A p, ty : Holds(L \o M, p, ty) <=> Holds(L, p, ty) \/ Holds(M, p, ty)
  <1> DEFINE l == Len(L)
             m == Len(M)
             J == L \o M
  <1>1. L \in Seq(Region) /\ M \in Seq(Region) /\ l \in Nat /\ m \in Nat
    BY LenProperties DEF Well
  <1>2. /\ J \in Seq(Region) /\ Len(J) = l + m
        /\ \A k \in 1 .. l + m : J[k] = IF k <= l THEN L[k] ELSE M[k - l]
    BY <1>1, ConcatProperties
  <1> HIDE DEF J, l, m
  <1>3. ASSUME NEW k \in 1 .. l + m
        PROVE  \/ k \in 1 .. l /\ J[k] = L[k]
               \/ k > l /\ k - l \in 1 .. m /\ J[k] = M[k - l]
    BY <1>1, <1>2
  <1>4. \A i \in 1 .. l : i \in 1 .. l + m /\ J[i] = L[i]
    BY <1>1, <1>2
  <1>5. ASSUME NEW j \in 1 .. m PROVE \E k \in 1 .. l + m : J[k] = M[j]
    <2> DEFINE k == l + j
    <2>1. k \in 1 .. l + m /\ ~(k <= l) /\ k - l = j
      BY <1>1
    <2> HIDE DEF k
    <2>2. J[k] = M[j]
      BY <1>2, <2>1
    <2>3. QED
      BY <2>1, <2>2
  <1>6. \A k \in 1 .. l + m : J[k].start < J[k].end
    BY <1>3 DEF Well, l, m
  <1>7. ASSUME NEW i \in 1 .. l + m, NEW j \in 1 .. l + m, i < j PROVE J[i].end <= J[j].start
    <2>1. CASE i \in 1 .. l /\ J[i] = L[i]
      <3>1. CASE j \in 1 .. l /\ J[j] = L[j]
        BY <1>7, <2>1, <3>1 DEF Well, l
      <3>2. CASE j > l /\ j - l \in 1 .. m /\ J[j] = M[j - l]
        BY <2>1, <3>2 DEF l, m
      <3>3. QED
        BY <1>3, <3>1, <3>2
    <2>2. CASE i > l /\ i - l \in 1 .. m /\ J[i] = M[i - l]
      <3>1. j > l /\ i - l < j - l
        BY <1>1, <1>7, <2>2
      <3>2. j - l \in 1 .. m /\ J[j] = M[j - l]
        BY <1>1, <1>3, <3>1
      <3>3. QED
        BY <2>2, <3>1, <3>2 DEF Well, m
    <2>3. QED
      BY <1>3, <2>1, <2>2
  <1>8. Well(J)
    BY <1>2, <1>6, <1>7 DEF Well
  <1>9. \A k \in 1 .. Len(J) : (\E i \in 1 .. l : J[k] = L[i]) \/ (\E j \in 1 .. m : J[k] = M[j])
    BY <1>2, <1>3
  <1>10. ASSUME NEW p, NEW ty PROVE Holds(J, p, ty) <=> Holds(L, p, ty) \/ Holds(M, p, ty)
    <2>1. Holds(J, p, ty) => Holds(L, p, ty) \/ Holds(M, p, ty)
      BY <1>9 DEF Holds, l, m
    <2>2. Holds(L, p, ty) => Holds(J, p, ty)
      BY <1>2, <1>4 DEF Holds, l
    <2>3. Holds(M, p, ty) => Holds(J, p, ty)
      BY <1>2, <1>5 DEF Holds, m
    <2>4. QED
      BY <2>1, <2>2, <2>3
  <1>11. QED
    BY <1>8, <1>9, <1>10 DEF J, l, m

\* A list of at most one region.
LEMMA Single ==
  ASSUME NEW r \in Region, r.start < r.end
  PROVE  Well(<<r>>) /\ Len(<<r>>) = 1 /\ <<r>>[1] = r
         /\ \A p, ty : Holds(<<r>>, p, ty) <=> D!Covers(r, p) /\ r.type = ty
  <1>1. <<r>> \in Seq(Region) /\ Len(<<r>>) = 1 /\ <<r>>[1] = r /\ \A i \in 1 .. 1 : i = 1
    OBVIOUS
  <1> DEFINE L == <<r>>
  <1> HIDE DEF L
  <1>2. L \in Seq(Region) /\ Len(L) = 1 /\ L[1] = r /\ \A i \in 1 .. Len(L) : i = 1
    BY <1>1 DEF L
  <1>3. ASSUME NEW i \in 1 .. Len(L), NEW j \in 1 .. Len(L) PROVE ~(i < j)
    BY <1>2
  <1>4. Well(L)
    BY <1>2, <1>3 DEF Well
  <1>5. 1 \in 1 .. Len(L)
    BY <1>2
  <1>6. \A p, ty : Holds(L, p, ty) <=> D!Covers(r, p) /\ r.type = ty
    BY <1>2, <1>5 DEF Holds
  <1>7. QED
    BY <1>2, <1>4, <1>6 DEF L

LEMMA NoRegion == Well(<<>>) /\ Len(<<>>) = 0 /\ \A p, ty : ~Holds(<<>>, p, ty)
  <1>1. <<>> \in Seq(Region) /\ Len(<<>>) = 0 /\ \A i \in 1 .. 0 : FALSE
    OBVIOUS
  <1>2. QED
    BY <1>1 DEF Well, Holds

\* What is left of a region lies in it and holds its pages outside [start, end).
LEMMA RemainsIs ==
  ASSUME NEW r \in Region, r.start < r.end, NEW s \in Nat, NEW e \in Nat, s <= e
  PROVE  LET M == D!Remains(r, s, e)
         IN  /\ Well(M)
             /\ \A i \in 1 .. Len(M) : r.start <= M[i].start /\ M[i].end <= r.end
             /\ \A p \in Nat : \A ty :
                  Holds(M, p, ty) <=> D!Covers(r, p) /\ r.type = ty /\ ~(s <= p /\ p < e)
  <1> DEFINE M == D!Remains(r, s, e)
             h == [r EXCEPT !.end = s]
             t == [r EXCEPT !.start = e]
             H == IF r.start < s THEN <<h>> ELSE <<>>
             T == IF r.end > e THEN <<t>> ELSE <<>>
  <1>1. Total \in Nat /\ r.start \in 0 .. Total /\ r.end \in 0 .. Total /\ r.start \in Nat /\ r.end \in Nat
    BY PoolAssumption DEF Region, D!DmemAssumptions
  <1>2. CASE r.end <= s \/ r.start >= e
    <2>1. M = <<r>>
      BY <1>2 DEF D!Remains
    <2>2. \A i \in 1 .. 1 : i = 1
      OBVIOUS
    <2>3. \A p \in Nat : D!Covers(r, p) => ~(s <= p /\ p < e)
      BY <1>1, <1>2 DEF D!Covers
    <2> HIDE DEF M
    <2>4. Well(M) /\ Len(M) = 1 /\ M[1] = r /\ \A p, ty : Holds(M, p, ty) <=> D!Covers(r, p) /\ r.type = ty
      BY <2>1, Single
    <2>5. \A i \in 1 .. Len(M) : M[i] = r
      BY <2>2, <2>4
    <2>6. QED
      BY <1>1, <2>3, <2>4, <2>5 DEF M
  <1>3. CASE ~(r.end <= s \/ r.start >= e)
    <2>1. M = H \o T
      BY <1>3 DEF D!Remains
    <2>2. /\ h.start = r.start /\ h.end = s /\ h.type = r.type
          /\ t.start = e /\ t.end = r.end /\ t.type = r.type
      BY DEF Region
    <2>3. r.start < s => h \in Region /\ h.start < h.end
      BY <1>1, <1>3, <2>2 DEF Region
    <2>4. r.end > e => t \in Region /\ t.start < t.end
      BY <1>1, <1>3, <2>2 DEF Region
    <2> HIDE DEF h, t, M
    <2>5. /\ Well(H) /\ \A i \in 1 .. Len(H) : r.start < s /\ H[i] = h
          /\ \A p, ty : Holds(H, p, ty) <=> r.start < s /\ D!Covers(h, p) /\ h.type = ty
      <3>1. CASE r.start < s
        <4>1. H = <<h>> /\ \A i \in 1 .. 1 : i = 1
          BY <3>1
        <4> HIDE DEF H
        <4>2. Well(H) /\ Len(H) = 1 /\ H[1] = h /\ \A p, ty : Holds(H, p, ty) <=> D!Covers(h, p) /\ h.type = ty
          BY <2>3, <3>1, <4>1, Single
        <4>3. QED
          BY <3>1, <4>1, <4>2
      <3>2. CASE ~(r.start < s)
        <4>1. H = <<>> /\ \A i \in 1 .. 0 : FALSE
          BY <3>2
        <4> HIDE DEF H
        <4>2. QED
          BY <3>2, <4>1, NoRegion
      <3>3. QED
        BY <3>1, <3>2
    <2>6. /\ Well(T) /\ \A i \in 1 .. Len(T) : r.end > e /\ T[i] = t
          /\ \A p, ty : Holds(T, p, ty) <=> r.end > e /\ D!Covers(t, p) /\ t.type = ty
      <3>1. CASE r.end > e
        <4>1. T = <<t>> /\ \A i \in 1 .. 1 : i = 1
          BY <3>1
        <4> HIDE DEF T
        <4>2. Well(T) /\ Len(T) = 1 /\ T[1] = t /\ \A p, ty : Holds(T, p, ty) <=> D!Covers(t, p) /\ t.type = ty
          BY <2>4, <3>1, <4>1, Single
        <4>3. QED
          BY <3>1, <4>1, <4>2
      <3>2. CASE ~(r.end > e)
        <4>1. T = <<>> /\ \A i \in 1 .. 0 : FALSE
          BY <3>2
        <4> HIDE DEF T
        <4>2. QED
          BY <3>2, <4>1, NoRegion
      <3>3. QED
        BY <3>1, <3>2
    <2> HIDE DEF H, T
    <2>7. \A i \in 1 .. Len(H), j \in 1 .. Len(T) : H[i].end <= T[j].start
      BY <2>2, <2>5, <2>6
    <2>8. /\ Well(M)
          /\ \A k \in 1 .. Len(M) : (\E i \in 1 .. Len(H) : M[k] = H[i]) \/ (\E j \in 1 .. Len(T) : M[k] = T[j])
          /\ \A p, ty : Holds(M, p, ty) <=> Holds(H, p, ty) \/ Holds(T, p, ty)
      BY <2>1, <2>5, <2>6, <2>7, Joined
    <2>9. ASSUME NEW k \in 1 .. Len(M) PROVE r.start <= M[k].start /\ M[k].end <= r.end
      <3>1. M[k] = h \/ M[k] = t
        BY <2>5, <2>6, <2>8
      <3>2. QED
        BY <1>1, <1>3, <2>2, <3>1
    <2>10. ASSUME NEW p \in Nat, NEW ty
           PROVE  Holds(M, p, ty) <=> D!Covers(r, p) /\ r.type = ty /\ ~(s <= p /\ p < e)
      <3>1. /\ D!Covers(h, p) <=> r.start <= p /\ p < s
            /\ D!Covers(t, p) <=> e <= p /\ p < r.end
            /\ D!Covers(r, p) <=> r.start <= p /\ p < r.end
        BY <2>2 DEF D!Covers
      <3>2. (r.start < s /\ D!Covers(h, p)) \/ (r.end > e /\ D!Covers(t, p))
              <=> D!Covers(r, p) /\ ~(s <= p /\ p < e)
        BY <1>1, <1>3, <3>1
      <3>3. Holds(M, p, ty) <=> \/ r.start < s /\ D!Covers(h, p) /\ r.type = ty
                                \/ r.end > e /\ D!Covers(t, p) /\ r.type = ty
        BY <2>2, <2>5, <2>6, <2>8
      <3>4. QED
        BY <3>2, <3>3
    <2>11. QED
      BY <2>8, <2>9, <2>10 DEF M
  <1>4. QED
    BY <1>2, <1>3
LEMMA FreeRuns ==
  ASSUME Listed, NEW s \in Nat, NEW e \in Nat, s <= e
  PROVE  /\ D!FreeLoop(s, e)[0] = <<>>
         /\ \A i \in 1 .. Len(regions) :
              D!FreeLoop(s, e)[i] = D!FreeLoop(s, e)[i - 1] \o D!Remains(regions[i], s, e)
  <1> DEFINE n == Len(regions)
             C == Seq(Region)
             c0 == <<>>
             F == [i \in 1 .. n |-> [c \in C |-> c \o D!Remains(regions[i], s, e)]]
             Runs(g) == g = [i \in 0 .. n |-> IF i = 0 THEN c0 ELSE g[i - 1] \o D!Remains(regions[i], s, e)]
             r == D!FreeLoop(s, e)
  <1>1. n \in Nat /\ c0 \in C
    BY ListFacts
  <1>2. ASSUME NEW i \in 1 .. n, NEW c \in C
        PROVE  c \o D!Remains(regions[i], s, e) \in C
    <2>1. regions[i] \in Region /\ regions[i].start < regions[i].end
      BY ListFacts
    <2>2. D!Remains(regions[i], s, e) \in C
      BY <2>1, RemainsIs DEF Well
    <2> DEFINE M == D!Remains(regions[i], s, e)
    <2> HIDE DEF M
    <2>3. c \o M \in C
      BY <2>2, ConcatProperties DEF M
    <2>4. QED
      BY <2>3 DEF M
  <1>3. \A i \in 1 .. n, c \in C : F[i][c] \in C /\ F[i][c] = c \o D!Remains(regions[i], s, e)
    BY <1>2
  <1> HIDE DEF F, c0, C
  <1>4. PICK g : /\ g = [i \in 0 .. n |-> IF i = 0 THEN c0 ELSE F[i][g[i - 1]]]
                 /\ \A i \in 0 .. n : g[i] \in C
    <2> HIDE DEF n
    <2>1. \A i \in 1 .. n, c \in C : F[i][c] \in C
      BY <1>3
    <2>2. \E g : IsLoop(g, n, C, c0, F)
      BY <1>1, <2>1, Iterates
    <2>3. QED
      BY <2>2 DEF IsLoop
  <1>5. Runs(g)
    <2>1. \A i \in 0 .. n : g[i] = IF i = 0 THEN c0 ELSE g[i - 1] \o D!Remains(regions[i], s, e)
      <3>1. SUFFICES ASSUME NEW i \in 0 .. n, i # 0
                     PROVE  g[i] = g[i - 1] \o D!Remains(regions[i], s, e)
        BY <1>1, <1>4
      <3>2. i \in 1 .. n /\ i - 1 \in 0 .. n
        BY <1>1, <3>1
      <3>3. QED
        BY <1>3, <1>4, <3>1, <3>2
    <2>2. g = [i \in 0 .. n |-> g[i]]
      BY <1>4
    <2>3. QED
      BY <2>1, <2>2
  <1>6. Runs(r)
    BY <1>5, Zenon DEF D!FreeLoop, c0
  <1> HIDE DEF r
  <1>7. r[0] = c0 /\ \A i \in 1 .. n : r[i] = r[i - 1] \o D!Remains(regions[i], s, e)
    <2>1. 0 \in 0 .. n /\ \A i \in 1 .. n : i \in 0 .. n /\ i # 0
      BY <1>1
    <2>2. QED
      BY <1>6, <2>1
  <1>8. QED
    BY <1>7 DEF r, c0

\* DmemFree leaves a list that holds exactly the pages outside [start, end).
LEMMA FreeIs ==
  ASSUME Listed, NEW s \in Nat, NEW e \in Nat, s <= e
  PROVE  LET L == D!FreeLoop(s, e)[Len(regions)]
         IN  /\ Well(L)
             /\ \A p \in Nat : \A ty : Holds(L, p, ty) <=> Holds(regions, p, ty) /\ ~(s <= p /\ p < e)
  <1> DEFINE n == Len(regions)
             c(i) == D!FreeLoop(s, e)[i]
             Seen(i, p, ty) == \E j \in 1 .. i : D!Covers(regions[j], p) /\ regions[j].type = ty
             Good(i) == /\ Well(c(i))
                        /\ \A k \in 1 .. Len(c(i)), j \in 1 .. n : j > i => c(i)[k].end <= regions[j].start
                        /\ \A p \in Nat : \A ty : Holds(c(i), p, ty) <=> Seen(i, p, ty) /\ ~(s <= p /\ p < e)
             T == {i \in 0 .. n : Good(i)}
  <1>1. /\ n \in Nat
        /\ \A i \in 1 .. n : /\ regions[i] \in Region /\ regions[i].start < regions[i].end
                             /\ regions[i].start \in Nat /\ regions[i].end \in Nat
        /\ \A i, j \in 1 .. n : i < j => regions[i].end <= regions[j].start
    BY ListFacts
  <1>2. c(0) = <<>> /\ \A i \in 1 .. n : c(i) = c(i - 1) \o D!Remains(regions[i], s, e)
    BY FreeRuns
  <1> HIDE DEF c
  <1>3. 0 \in T
    <2>1. Well(c(0)) /\ Len(c(0)) = 0 /\ \A p, ty : ~Holds(c(0), p, ty)
      BY <1>2, NoRegion
    <2>2. \A p, ty : ~Seen(0, p, ty)
      OBVIOUS
    <2> HIDE DEF Seen
    <2>3. \A k \in 1 .. Len(c(0)) : FALSE
      BY <2>1
    <2>4. Good(0)
      BY <2>1, <2>2, <2>3
    <2> HIDE DEF Good
    <2>5. QED
      BY <1>1, <2>4
  <1>4. ASSUME NEW i \in 1 .. n, i - 1 \in T PROVE i \in T
    <2> DEFINE L == c(i - 1)
               M == D!Remains(regions[i], s, e)
    <2>1. Good(i - 1)
      BY <1>4
    <2>2. /\ Well(M)
          /\ \A k \in 1 .. Len(M) : regions[i].start <= M[k].start /\ M[k].end <= regions[i].end
          /\ \A p \in Nat : \A ty :
               Holds(M, p, ty) <=> D!Covers(regions[i], p) /\ regions[i].type = ty /\ ~(s <= p /\ p < e)
      BY <1>1, RemainsIs
    <2>3. c(i) = L \o M
      BY <1>2
    <2>4. /\ Well(L)
          /\ \A k \in 1 .. Len(L), j \in 1 .. n : j > i - 1 => L[k].end <= regions[j].start
          /\ \A p \in Nat : \A ty : Holds(L, p, ty) <=> Seen(i - 1, p, ty) /\ ~(s <= p /\ p < e)
      BY <2>1
    <2> HIDE DEF L, M
    <2>5. ASSUME NEW k \in 1 .. Len(L), NEW j \in 1 .. n, j > i - 1
          PROVE  L[k].end \in Nat /\ L[k].end <= regions[j].start
      BY <2>4, <2>5, WellFacts
    <2>6. ASSUME NEW k \in 1 .. Len(M)
          PROVE  /\ M[k].start \in Nat /\ M[k].end \in Nat
                 /\ regions[i].start <= M[k].start /\ M[k].end <= regions[i].end
      BY <2>2, WellFacts
    <2>7. i \in 1 .. n /\ i > i - 1 /\ i - 1 \in Nat
      BY <1>1
    <2>8. \A k \in 1 .. Len(L), j \in 1 .. Len(M) : L[k].end <= M[j].start
      <3>1. SUFFICES ASSUME NEW k \in 1 .. Len(L), NEW j \in 1 .. Len(M) PROVE L[k].end <= M[j].start
        OBVIOUS
      <3>2. L[k].end \in Nat /\ L[k].end <= regions[i].start
        BY <2>5, <2>7
      <3>3. M[j].start \in Nat /\ regions[i].start <= M[j].start
        BY <2>6
      <3>4. QED
        BY <1>1, <3>2, <3>3
    <2> DEFINE J == L \o M
    <2>9. /\ Well(J)
          /\ \A k \in 1 .. Len(J) : (\E x \in 1 .. Len(L) : J[k] = L[x]) \/ (\E y \in 1 .. Len(M) : J[k] = M[y])
          /\ \A p, ty : Holds(J, p, ty) <=> Holds(L, p, ty) \/ Holds(M, p, ty)
      BY <2>2, <2>4, <2>8, Joined
    <2> HIDE DEF J
    <2>10. ASSUME NEW k \in 1 .. Len(J), NEW j \in 1 .. n, j > i PROVE J[k].end <= regions[j].start
      <3>1. CASE \E x \in 1 .. Len(L) : J[k] = L[x]
        <4>1. j > i - 1
          BY <1>1, <2>10
        <4>2. QED
          BY <2>5, <3>1, <4>1
      <3>2. CASE \E y \in 1 .. Len(M) : J[k] = M[y]
        <4>1. J[k].end \in Nat /\ J[k].end <= regions[i].end
          BY <2>6, <3>2
        <4>2. regions[i].end <= regions[j].start
          BY <1>1, <2>10
        <4>3. QED
          BY <1>1, <4>1, <4>2
      <3>3. QED
        BY <2>9, <3>1, <3>2
    <2>11. ASSUME NEW p \in Nat, NEW ty
           PROVE  Holds(J, p, ty) <=> Seen(i, p, ty) /\ ~(s <= p /\ p < e)
      <3>1. Seen(i, p, ty) <=> Seen(i - 1, p, ty) \/ (D!Covers(regions[i], p) /\ regions[i].type = ty)
        <4>1. \A j : j \in 1 .. i <=> j \in 1 .. i - 1 \/ j = i
          BY <2>7
        <4>2. QED
          BY <4>1
      <3> HIDE DEF Seen
      <3>2. Holds(L, p, ty) <=> Seen(i - 1, p, ty) /\ ~(s <= p /\ p < e)
        BY <2>4
      <3>3. Holds(M, p, ty) <=> D!Covers(regions[i], p) /\ regions[i].type = ty /\ ~(s <= p /\ p < e)
        BY <2>2
      <3>4. QED
        BY <2>9, <3>1, <3>2, <3>3
    <2>12. c(i) = J
      BY <2>3 DEF J
    <2> HIDE DEF Seen
    <2>13. Good(i)
      BY <2>9, <2>10, <2>11, <2>12
    <2> HIDE DEF Good
    <2>14. i \in 0 .. n
      BY <1>1
    <2>15. QED
      BY <2>13, <2>14
  <1>5. Good(n)
    <2> HIDE DEF T
    <2>1. \A i \in 0 .. n : i \in T
      BY <1>1, <1>3, <1>4, UpTo
    <2>2. n \in T
      BY <1>1, <2>1
    <2>3. QED
      BY <2>2 DEF T
  <1>6. QED
    BY <1>5 DEF c, Holds

\* What a release does to the list is a release of the pages it names.
LEMMA FreeStep ==
  ASSUME Listed, NEW start \in 0 .. Total, NEW len \in Lens, D!DmemFree(start, len)
  PROVE  Listed' /\ D!Abstract!PoolNext
  <1> DEFINE e == start + len
             top == IF e > Total THEN Total ELSE e
  <1>1. Total \in Nat /\ start \in Nat /\ len \in Nat
    BY PoolAssumption DEF D!DmemAssumptions
  <1>2. e \in Nat /\ start <= e /\ top \in 0 .. Total
    BY <1>1
  <1>3. regions' = D!FreeLoop(start, e)[Len(regions)]
    BY DEF D!DmemFree
  <1>4. \A p \in 0 .. Total - 1 : p \in start .. top - 1 <=> start <= p /\ p < e
    BY <1>1
  <1> HIDE DEF e, top
  <1>5. /\ Well(regions')
        /\ \A p \in Nat : \A ty : Holds(regions', p, ty) <=> Holds(regions, p, ty) /\ ~(start <= p /\ p < e)
    BY <1>1, <1>2, <1>3, FreeIs
  <1>6. Well(regions)
    BY ListedIsWell
  <1>7. ASSUME NEW p \in 0 .. Total - 1
        PROVE  OwnerOf(regions')[p] = IF p \in start .. top - 1 THEN D!NoType ELSE OwnerOf(regions)[p]
    <2>1. \A ty : Holds(regions', p, ty) <=> Holds(regions, p, ty) /\ ~(p \in start .. top - 1)
      <3>1. p \in Nat
        BY <1>1
      <3>2. QED
        BY <1>4, <1>5, <3>1
    <2>2. CASE p \in start .. top - 1
      BY <1>5, <2>1, <2>2, OwnerReads
    <2>3. CASE p \notin start .. top - 1
      <3>1. CASE \E ty : Holds(regions, p, ty)
        BY <1>5, <1>6, <2>1, <2>3, <3>1, OwnerReads
      <3>2. CASE \A ty : ~Holds(regions, p, ty)
        BY <1>5, <1>6, <2>1, <2>3, <3>2, OwnerReads
      <3>3. QED
        BY <3>1, <3>2
    <2>4. QED
      BY <2>2, <2>3
  <1>8. OwnerOf(regions') =
          [p \in 0 .. Total - 1 |-> IF p \in start .. top - 1 THEN D!NoType ELSE OwnerOf(regions)[p]]
    <2>1. OwnerOf(regions') = [p \in 0 .. Total - 1 |-> OwnerOf(regions')[p]]
      BY DEF OwnerOf
    <2>2. QED
      BY <1>7, <2>1
  <1>9. D!Abstract!Release(start .. top - 1)
    BY <1>8, OwnerIs DEF D!Abstract!Release, D!Abstract!Pool
  <1>10. D!Abstract!PoolNext
    BY <1>2, <1>9 DEF D!Abstract!PoolNext
  <1>11. QED
    BY <1>5, <1>10, ListedIsWell

LEMMA PoolStep ==
  ASSUME Listed, [D!Next]_regions
  PROVE  Listed' /\ (D!Abstract!PoolNext \/ UNCHANGED D!Owner)
  <1>1. CASE UNCHANGED regions
    BY <1>1, ListedIsWell, OwnerIs
  <1>2. ASSUME NEW w \in Windows, NEW len \in Lens, NEW al \in Aligns, NEW ty \in Types,
               D!DmemAllocate(w[1], w[2], len, al, ty)
        PROVE  Listed' /\ (D!Abstract!PoolNext \/ UNCHANGED D!Owner)
    BY <1>2, AllocateStep
  <1>3. ASSUME NEW start \in D!Offsets, NEW len \in Lens, D!DmemFree(start, len)
        PROVE  Listed' /\ (D!Abstract!PoolNext \/ UNCHANGED D!Owner)
    BY <1>3, FreeStep DEF D!Offsets
  <1>4. QED
    BY <1>1, <1>2, <1>3 DEF D!Next

\* The list starts empty, and every page free.
LEMMA PoolStart == ASSUME D!Init PROVE Listed /\ D!Abstract!PoolInit
  <1>1. regions = <<>> /\ DOMAIN regions = {} /\ regions \in Seq(Region)
    BY DEF D!Init
  <1>2. Listed
    BY <1>1 DEF Listed, D!TypeOK, D!SortedDisjoint
  <1>3. D!Owner = [p \in 0 .. Total - 1 |-> D!NoType]
    BY <1>1 DEF D!Owner, D!FreePages
  <1>4. QED
    BY <1>2, <1>3 DEF D!Abstract!PoolInit, D!Abstract!Pool

\* In every behaviour of the allocator the reservations stay in range, sorted and
\* disjoint; DmemAllocate answers the lowest aligned free offset in the window asked
\* for, or above kDmemBase when none is, and refuses only when nothing fits there;
\* and the hole DmemLargestHole reports can be had, and no larger one.
\* This holds for a pool of any size and any lengths, windows and alignments.
THEOREM DmemSafe ==
  /\ D!Spec => []D!DmemInv
  /\ AllSpec => []DmemInv
  <1>1. D!Init => Listed
    BY PoolStart
  <1>2. Listed /\ [D!Next]_regions => Listed'
    BY PoolStep
  <1>3. Listed => D!DmemInv
    BY ListedSearches
  <1>4. D!Spec => []D!DmemInv
    BY <1>1, <1>2, <1>3, PTL DEF D!Spec
  <1>5. AllInit => Listed
    BY <1>1 DEF AllInit
  <1>6. [AllNext]_<<vars, regions, used>> => [D!Next]_regions
    BY DEF AllNext
  <1>7. Listed => DmemInv
    BY <1>3 DEF DmemInv
  <1>8. AllSpec => []DmemInv
    BY <1>2, <1>5, <1>6, <1>7, PTL DEF AllSpec
  <1>9. QED
    BY <1>4, <1>8

\* The list implements the pool of pages (FramePool): an allocation gives free pages
\* the type asked for or changes nothing, a release frees the pages it names, and
\* neither changes another page.
THEOREM ImplementsFramePool ==
  /\ D!Spec => D!KeepsFramePool
  /\ AllSpec => KeepsFramePool
  <1>1. D!Init => Listed /\ D!Abstract!PoolInit
    BY PoolStart
  <1>2. Listed /\ [D!Next]_regions => Listed' /\ [D!Abstract!PoolNext]_D!Owner
    BY PoolStep
  <1>3. D!Spec => D!KeepsFramePool
    BY <1>1, <1>2, PTL DEF D!Spec, D!KeepsFramePool, D!Abstract!PoolSpec
  <1>4. AllInit => Listed /\ D!Abstract!PoolInit
    BY <1>1 DEF AllInit
  <1>5. [AllNext]_<<vars, regions, used>> => [D!Next]_regions
    BY DEF AllNext
  <1>6. Listed /\ [D!Next]_regions
          => Listed' /\ [used = "pool" => D!Abstract!PoolNext \/ UNCHANGED D!Owner]_regions
    BY PoolStep
  <1>7. AllSpec => KeepsFramePool
    BY <1>4, <1>5, <1>6, PTL DEF AllSpec, KeepsFramePool
  <1>8. QED
    BY <1>3, <1>7
=============================================================================
