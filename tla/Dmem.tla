-------------------------------- MODULE Dmem --------------------------------
(***************************************************************************)
(* The direct-memory allocator of /dev/dmem (DmemAllocate, DmemFree and    *)
(* DmemLargestHole): a sorted list of reservations and two searches in it. *)
(* Offsets and lengths are in pages; g_dmem_mutex makes each call atomic.  *)
(* DmemFree's call of VmMap::RemoveDirect is VmMap's ReleaseDirect.        *)
(***************************************************************************)
EXTENDS Integers, Sequences, SequencesExt

CONSTANTS
    Total,      \* DmemTotal()
    Base,       \* kDmemBase, the floor of requests without a window
    Lens,       \* lengths a title asks for
    Aligns,     \* alignments a title asks for, not all of them powers of two
    Windows,    \* search ranges <<searchStart, searchEnd>> a title asks for
    Types       \* memory types

NoType == -1
EINVAL == -22
ENOMEM == -12

DmemAssumptions ==
    /\ Total \in Nat /\ Base \in 0 .. Total
    /\ Lens \subseteq Nat /\ Aligns \subseteq Nat /\ Windows \subseteq Nat \X Nat
    /\ Types \subseteq Nat

VARIABLE
    regions     \* g_dmem_regions: <<[start, end, type], ...>>

Offsets == 0 .. Total
Bigger(a, b) == IF a > b THEN a ELSE b
Up(x, al) == ((x + al - 1) \div al) * al
Down(x, al) == (x \div al) * al
PowerOfTwo(n) == n > 0 /\ \E k \in 0 .. n : n = 2^k
-----------------------------------------------------------------------------
(* The searches.                                                           *)

\* Mutant of FirstFitStep: a hole of exactly the right length is passed over.
FirstFitStep_Strict(c, r, len, al) ==
    IF c.found \/ r.end <= c.at THEN c
    ELSE IF r.start > c.at + len THEN [c EXCEPT !.found = TRUE]
    ELSE [c EXCEPT !.at = Up(Bigger(r.end, c.at), al)]

\* The loop that moves a candidate up past every region in its way, and stops
\* at the first hole that is long enough.
FirstFitStep(c, r, len, al) ==
    IF c.found \/ r.end <= c.at THEN c
    ELSE IF r.start >= c.at + len THEN [c EXCEPT !.found = TRUE]
    ELSE [c EXCEPT !.at = Up(Bigger(r.end, c.at), al)]

\* The candidate after each region.
FirstFitLoop(from, len, al) ==
    LET after[i \in 0 .. Len(regions)] ==
          IF i = 0 THEN [at |-> Up(from, al), found |-> FALSE]
          ELSE FirstFitStep(after[i - 1], regions[i], len, al)
    IN  after

FirstFit(from, len, al) == FirstFitLoop(from, len, al)[Len(regions)].at

\* The loop that walks the holes downwards from hi.
HighestStep(c, r, len, al) ==
    LET at == Down(c.top - len, al)
    IN  IF c.at # ENOMEM THEN c
        ELSE IF r.start < c.top /\ c.top >= len /\ at >= r.end /\ at >= Base
             THEN [c EXCEPT !.at = at]
             ELSE [c EXCEPT !.top = r.start]

HighestLoop(hi, len, al) ==
    LET after[i \in 0 .. Len(regions)] ==
          IF i = 0 THEN [top |-> hi, at |-> ENOMEM]
          ELSE HighestStep(after[i - 1], regions[Len(regions) + 1 - i], len, al)
    IN  after

HighestFit(hi, len, al) ==
    LET c == HighestLoop(hi, len, al)[Len(regions)]
        at == Down(c.top - len, al)
    IN  IF c.at # ENOMEM THEN c.at
        ELSE IF c.top < len \/ at < Base THEN ENOMEM ELSE at

Ceiling(hi) == IF hi = 0 \/ hi > Total THEN Total ELSE hi
Windowed(lo, hi) == lo # 0 \/ (hi # 0 /\ hi < Total)

\* DmemAllocate's answer: an offset or an error.
Placement(lo, hi, len, al) ==
    LET top == Ceiling(hi)
        at == FirstFit(IF Windowed(lo, hi) THEN lo ELSE Base, len, al)
    IN  IF len = 0 \/ ~PowerOfTwo(al) \/ lo >= top THEN EINVAL
        ELSE IF at + len <= top THEN at
        ELSE IF Windowed(lo, hi) THEN ENOMEM
        ELSE HighestFit(top, len, al)

\* DmemLargestHole: the base and size of the largest hole in [lo, hi).
HoleStep(c, end) ==
    IF end > c.cur /\ end - c.cur > c.size
    THEN [c EXCEPT !.base = c.cur, !.size = end - c.cur] ELSE c

HoleWalk(c, r, top, al) ==
    IF r.end <= c.cur \/ r.start >= top THEN c
    ELSE [HoleStep(c, r.start) EXCEPT !.cur = Up(Bigger(r.end, c.cur), al)]

HoleLoop(lo, top, al) ==
    LET after[i \in 0 .. Len(regions)] ==
          IF i = 0 THEN [cur |-> Up(IF lo = 0 THEN Base ELSE lo, al), base |-> 0, size |-> 0]
          ELSE HoleWalk(after[i - 1], regions[i], top, al)
    IN  after

LargestHole(lo, hi, al) ==
    LET top == Ceiling(hi) IN HoleStep(HoleLoop(lo, top, al)[Len(regions)], top)
-----------------------------------------------------------------------------
(* The calls.                                                              *)

Init == regions = <<>>

\* The first region that does not start before off, or the end of the list.
Position(off) ==
    Min({i \in 1 .. Len(regions) + 1 : i = Len(regions) + 1 \/ regions[i].start >= off})

DmemAllocate(lo, hi, len, al, ty) ==
    LET at == Placement(lo, hi, len, al)
        new == [start |-> at, end |-> at + len, type |-> ty]
    IN  regions' = IF at < 0 THEN regions
                   ELSE InsertAt(regions, Position(at), new)

\* Mutant of Remains: the tail loses its memory type.
Remains_NoType(r, start, end) ==
    IF r.end <= start \/ r.start >= end THEN <<r>>
    ELSE (IF r.start < start THEN <<[r EXCEPT !.end = start]>> ELSE <<>>)
         \o (IF r.end > end THEN <<[r EXCEPT !.start = end, !.type = 0]>> ELSE <<>>)

\* What DmemFree leaves of one region: its head, its tail, both or nothing.
Remains(r, start, end) ==
    IF r.end <= start \/ r.start >= end THEN <<r>>
    ELSE (IF r.start < start THEN <<[r EXCEPT !.end = start]>> ELSE <<>>)
         \o (IF r.end > end THEN <<[r EXCEPT !.start = end]>> ELSE <<>>)

\* The list after each region.
FreeLoop(start, end) ==
    LET after[i \in 0 .. Len(regions)] ==
          IF i = 0 THEN <<>> ELSE after[i - 1] \o Remains(regions[i], start, end)
    IN  after

DmemFree(start, len) == regions' = FreeLoop(start, start + len)[Len(regions)]

Next ==
    \/ \E w \in Windows, len \in Lens, al \in Aligns, ty \in Types :
          DmemAllocate(w[1], w[2], len, al, ty)
    \/ \E start \in Offsets, len \in Lens : DmemFree(start, len)

Spec == Init /\ [][Next]_regions
-----------------------------------------------------------------------------
(* Properties.                                                             *)

\* A region is a non-empty part of the pool with a memory type.
TypeOK ==
    \A i \in DOMAIN regions :
        /\ regions[i].start \in Offsets /\ regions[i].end \in Offsets
        /\ regions[i].start < regions[i].end
        /\ regions[i].type \in Types

\* "Sorted by start so allocation walks holes in order": the list the searches
\* rely on stays sorted, and reservations never overlap.
SortedDisjoint ==
    \A i, j \in DOMAIN regions : i < j => regions[i].end <= regions[j].start

Covers(r, p) == r.start <= p /\ p < r.end
FreePages == {p \in 0 .. Total - 1 : \A i \in DOMAIN regions : ~Covers(regions[i], p)}

\* The aligned offsets in [from, hi) where len pages are free.
Fits(from, hi, len, al) ==
    {off \in from .. hi - len : off % al = 0 /\ off .. off + len - 1 \subseteq FreePages}

\* "First-fit hole search in [lo, hi); the window is contract, not hint":
\* DmemAllocate answers the lowest aligned free offset of the window, or of
\* the pool above kDmemBase when there is none, and refuses only when nothing
\* there fits.  So the search for the highest hole never finds one either.
AllocIsFirstFit ==
    \A w \in Windows, len \in Lens, al \in Aligns :
        LET at == Placement(w[1], w[2], len, al)
            fits == Fits(IF Windowed(w[1], w[2]) THEN w[1] ELSE Base,
                         Ceiling(w[2]), len, al)
        IN  at # EINVAL =>
              IF fits = {} THEN at = ENOMEM
              ELSE at \in fits /\ \A off \in fits : at <= off

\* AvailableDirectMemorySize tells a title what it can have: asking for the
\* hole it reports, in the same range, is answered with that hole, and no
\* larger request could be.
HoleIsAllocatable ==
    \A lo \in 1 .. Total, hi \in 1 .. Total, al \in {a \in Aligns : PowerOfTwo(a)} :
        LET hole == LargestHole(lo, hi, al)
        IN  lo < hi =>
              /\ hole.size > 0 => Placement(hole.base, hi, hole.size, al) = hole.base
              /\ Fits(lo, hi, hole.size + 1, al) = {}

\* The reservations are in range, sorted and disjoint, and both searches answer
\* what a search of every free page would.
DmemInv == TypeOK /\ SortedDisjoint /\ AllocIsFirstFit /\ HoleIsAllocatable

\* The list implements the page pool: what is released is free, what is
\* allocated was free, and no other page changes its owner or type.
Owner == [p \in 0 .. Total - 1 |->
    IF p \in FreePages THEN NoType
    ELSE regions[CHOOSE i \in DOMAIN regions : Covers(regions[i], p)].type]
Abstract == INSTANCE FramePool WITH owner <- Owner
KeepsFramePool == Abstract!PoolSpec
=============================================================================
