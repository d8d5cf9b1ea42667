------------------------------- MODULE VmMap -------------------------------
(***************************************************************************)
(* kern::VmMap, the list of the guest's mappings, together with the host   *)
(* pages that back them and the system calls that change both: sys_mmap,   *)
(* sys_munmap, sys_mprotect and the release of direct memory (DmemFree).   *)
(*                                                                         *)
(* The list has one lock, taken once per VmMap method.  sys_mmap places    *)
(* the host pages first and records the mapping in a later critical        *)
(* section, and sys_munmap looks the region up in one and removes it in    *)
(* another, so the calls of two guest threads interleave between the two.  *)
(*                                                                         *)
(* Addresses are page numbers 0 .. NPages-1, direct memory is page numbers *)
(* 0 .. NFrames-1.  The list is a set of entries: no method depends on     *)
(* their order as long as they are disjoint, which is checked and proved.  *)
(***************************************************************************)
EXTENDS Integers, FiniteSets

CONSTANTS
    NPages,         \* pages of guest address space
    NFrames,        \* pages of direct memory (DmemBackingSize)
    MapEnd,         \* bound: titles map and release offsets up to here
    SharedDmem,     \* does /dev/dmem map its backing file?  PS5 yes, PS4 no
    Prots,          \* protections a guest asks for; 0 is PROT_NONE
    Threads

ASSUME SizesAreNat == NPages \in Nat /\ NFrames \in Nat /\ MapEnd \in Nat
ASSUME ProtNone == 0 \in Prots

VARIABLES
    entries,        \* VmMap::rt_pages_
    host,           \* host[v]: what the host has at page v
    call            \* call[t]: the system call t is half-way through

vars == <<entries, host, call>>

Pages == 0 .. NPages - 1
Frames == 0 .. NFrames - 1

Unmapped == -2      \* no host page
Private == -1       \* a private, zeroed host page

Span(lo, hi) == lo .. hi - 1
Ranges == {r \in (0 .. NPages) \X (0 .. NPages) : r[1] < r[2]}
FrameRanges == {r \in (0 .. MapEnd) \X (0 .. MapEnd) : r[1] < r[2]}

Entry == [lo : 0 .. NPages, hi : 0 .. NPages, phys : Int, direct : BOOLEAN,
          prot : Prots]

Idle == [op |-> "idle"]
Mapping == [op : {"map"}, entry : Entry]
Unmapping == [op : {"unmap"}, lo : 0 .. NPages, hi : 0 .. NPages]
-----------------------------------------------------------------------------
(* The interval list.                                                      *)

\* Mutant of Overlap: only the start of the range is looked up.
Overlap_StartOnly(e, lo, hi) == e.lo <= lo /\ lo < e.hi /\ lo < hi

Overlap(e, lo, hi) == lo < e.hi /\ e.lo < hi

\* Mutant of Cut: the tail keeps the physical offset.
Cut_SamePhys(e, lo, hi) ==
    IF Overlap(e, lo, hi)
    THEN {p \in {[e EXCEPT !.hi = lo], [e EXCEPT !.lo = hi]} : p.lo < p.hi}
    ELSE {e}

\* What PunchHoleLocked leaves of one entry when [lo, hi) is erased: all of
\* it, its head, its tail (whose physical offset moves along), both or none.
Cut(e, lo, hi) ==
    LET head == [e EXCEPT !.hi = lo]
        tail == [lo |-> hi, hi |-> e.hi, phys |-> e.phys + (hi - e.lo),
                 direct |-> e.direct, prot |-> e.prot]
    IN  IF Overlap(e, lo, hi)
        THEN {p \in {head, tail} : p.lo < p.hi}
        ELSE {e}

PunchHole(lo, hi) == UNION {Cut(e, lo, hi) : e \in entries}

\* The frames an entry maps, and the ones of them in [plo, phi).
Overlay(e, plo, phi) ==
    e.direct /\ plo < e.phys + (e.hi - e.lo) /\ e.phys < phi
Larger(a, b) == IF a > b THEN a ELSE b
Smaller(a, b) == IF a < b THEN a ELSE b
VaOf(e, p) == e.lo + (p - e.phys)
DirectLo(e, plo) == VaOf(e, Larger(plo, e.phys))
DirectHi(e, phi) == VaOf(e, Smaller(phi, e.phys + (e.hi - e.lo)))

\* Each range that RemoveDirect collects lies in one entry, and the entries
\* are disjoint, so punching it out of the list cuts that entry alone.
PunchDirect(plo, phi) ==
    UNION {IF Overlay(e, plo, phi)
           THEN Cut(e, DirectLo(e, plo), DirectHi(e, phi))
           ELSE {e} : e \in entries}

\* Mutant of DirectIn: an entry that reaches out of the range is left alone.
DirectIn_Whole(lo, hi) ==
    {v \in Span(lo, hi) : \E e \in entries :
        e.direct /\ v \in Span(e.lo, e.hi) /\ lo <= e.lo /\ e.hi <= hi}

\* The pages of [lo, hi) the list calls direct, and the pages mapping a frame.
DirectIn(lo, hi) ==
    {v \in Span(lo, hi) : \E e \in entries : e.direct /\ v \in Span(e.lo, e.hi)}
PagesOfFrames(plo, phi) ==
    {v \in Pages : \E e \in entries :
        /\ Overlay(e, plo, phi)
        /\ v \in Span(DirectLo(e, plo), DirectHi(e, phi))}

\* VmMap::Get at the start of a region: a whole reservation holds no data.
WholeReservation(lo, hi) ==
    \E e \in entries : e.lo = lo /\ e.hi = hi /\ e.prot = 0
-----------------------------------------------------------------------------
(* The system calls.                                                       *)

Init ==
    /\ entries = {}
    /\ host = [v \in Pages |-> Unmapped]
    /\ call = [t \in Threads |-> Idle]

\* Two guest threads whose calls cover the same pages race in the guest
\* itself, and so does one that releases the frames another is mapping; the
\* model leaves both out.
NoRival(t, lo, hi) ==
    \A u \in Threads \ {t} :
        /\ call[u].op = "map" => ~Overlap(call[u].entry, lo, hi)
        /\ call[u].op = "unmap" => ~Overlap(call[u], lo, hi)
NoneMapping(plo, phi) ==
    \A t \in Threads : call[t].op = "map" => ~Overlay(call[t].entry, plo, phi)

\* DmaDevicePs5::Map maps the backing file; it refuses a range that leaves
\* the pool, and DmaDevice::Map (PS4) refuses every range.
Shared(e) == e.direct /\ SharedDmem /\ e.phys + (e.hi - e.lo) <= NFrames

Backing(e) == [v \in Pages |->
    IF v \notin Span(e.lo, e.hi) THEN host[v]
    ELSE IF Shared(e) THEN e.phys + (v - e.lo) ELSE Private]

\* What a title asks sys_mmap for.
Requests ==
    {e \in [lo : 0 .. NPages, hi : 0 .. NPages, phys : 0 .. MapEnd, direct : BOOLEAN,
             prot : Prots] :
        /\ e.lo < e.hi
        /\ e.direct => e.phys + (e.hi - e.lo) <= MapEnd
        /\ ~e.direct => e.phys = 0}

\* sys_mmap up to the host mapping: what the device does not map gets private
\* pages, also a direct mapping, which is recorded as one all the same.
\* A hint the host can grant and MAP_FIXED place the pages alike, wherever
\* the range is.  A MAP_VOID reservation is a private range of protection 0.
MmapPlace(t, e) ==
    /\ call[t] = Idle
    /\ NoRival(t, e.lo, e.hi)
    /\ host' = Backing(e)
    /\ call' = [call EXCEPT ![t] = [op |-> "map", entry |-> e]]
    /\ UNCHANGED entries

\* VmMap::Add and VmMap::AddDirect, the end of sys_mmap.
MmapAdd(t) ==
    /\ call[t].op = "map"
    /\ entries' = PunchHole(call[t].entry.lo, call[t].entry.hi)
                    \cup {call[t].entry}
    /\ call' = [call EXCEPT ![t] = Idle]
    /\ UNCHANGED host

\* sys_munmap up to VmMap::Remove: the host pages stay, except those of a
\* whole reservation.
MunmapFree(t, lo, hi) ==
    /\ call[t] = Idle
    /\ NoRival(t, lo, hi)
    /\ host' = [v \in Pages |->
                  IF WholeReservation(lo, hi) /\ v \in Span(lo, hi)
                  THEN Unmapped ELSE host[v]]
    /\ call' = [call EXCEPT ![t] = [op |-> "unmap", lo |-> lo, hi |-> hi]]
    /\ UNCHANGED entries

\* VmMap::Remove: direct pages get private backing, then the hole is punched.
MunmapRemove(t) ==
    /\ call[t].op = "unmap"
    /\ host' = [v \in Pages |->
                  IF v \in DirectIn(call[t].lo, call[t].hi)
                  THEN Private ELSE host[v]]
    /\ entries' = PunchHole(call[t].lo, call[t].hi)
    /\ call' = [call EXCEPT ![t] = Idle]

\* DmemFree: VmMap::RemoveDirect detaches every page that maps the range.
ReleaseDirect(plo, phi) ==
    /\ NoneMapping(plo, phi)
    /\ host' = [v \in Pages |->
                  IF v \in PagesOfFrames(plo, phi) THEN Private ELSE host[v]]
    /\ entries' = PunchDirect(plo, phi)
    /\ UNCHANGED call

\* sys_mprotect: whole entries change, also where they reach out of the range.
ProtectRange(lo, hi, prot) ==
    /\ entries' = {IF Overlap(e, lo, hi) THEN [e EXCEPT !.prot = prot] ELSE e
                     : e \in entries}
    /\ UNCHANGED <<host, call>>

Next ==
    \/ \E t \in Threads, e \in Requests : MmapPlace(t, e)
    \/ \E t \in Threads : MmapAdd(t)
    \/ \E t \in Threads, r \in Ranges : MunmapFree(t, r[1], r[2])
    \/ \E t \in Threads : MunmapRemove(t)
    \/ \E r \in FrameRanges : ReleaseDirect(r[1], r[2])
    \/ \E r \in Ranges, prot \in Prots : ProtectRange(r[1], r[2], prot)

Spec == Init /\ [][Next]_vars
-----------------------------------------------------------------------------
(* Properties.                                                             *)

\* The fields of every entry, host page and half-done call are in range, and
\* no entry is empty (VmMap's methods never leave a zero-length PageInfo).
TypeOK ==
    /\ entries \subseteq Entry
    /\ \A e \in entries : e.lo < e.hi
    /\ host \in [Pages -> Frames \cup {Private, Unmapped}]
    /\ call \in [Threads -> {Idle} \cup Mapping \cup Unmapping]
    /\ \A t \in Threads :
          /\ call[t].op = "map" => /\ call[t].entry.lo < call[t].entry.hi
                                  /\ call[t].entry.phys \in 0 .. MapEnd
          /\ call[t].op = "unmap" => call[t].lo < call[t].hi

\* "Keeps entries DISJOINT, which is what makes get() unambiguous": no page
\* is in two entries of VmMap::rt_pages_, whatever was mapped over, unmapped
\* or released before.
Disjoint ==
    \A e, f \in entries : e # f => e.hi <= f.lo \/ f.hi <= e.lo

\* The list is well formed: typed, no entry empty, no two overlapping.
MapInv == TypeOK /\ Disjoint

\* "Direct-memory aliases are detached from their backing so stale pointers
\* cannot access a reused allocation": a host page shares a frame of direct
\* memory only while the list maps that page to that frame, or a thread is
\* still in the sys_mmap that is about to record it.
StalePointerDetached ==
    \A v \in Pages : host[v] \in Frames =>
        \/ \E e \in entries : /\ e.direct /\ v \in Span(e.lo, e.hi)
                              /\ host[v] = e.phys + (v - e.lo)
        \/ \E t \in Threads : /\ call[t].op = "map"
                              /\ v \in Span(call[t].entry.lo, call[t].entry.hi)

\* "every VA mapping a physical offset maps this fd there (MAP_SHARED), so
\* aliases share bytes": with no call under way, a page the list maps to a
\* frame has that frame behind it on the host (PS5, mappings inside the pool).
DirectPagesShared ==
    (\A t \in Threads : call[t] = Idle) =>
        \A e \in entries : e.direct =>
            \A v \in Span(e.lo, e.hi) : host[v] = e.phys + (v - e.lo)

\* VmMap implements the page table: the entries, read as translations, change
\* only the way PageTable allows, splitting and truncation included.
FrameOf(e, v) == IF e.direct THEN e.phys + (v - e.lo) ELSE -1
Reading == UNION {{<<v, FrameOf(e, v)>> : v \in Span(e.lo, e.hi)} : e \in entries}
Abstract == INSTANCE PageTable WITH pt <- Reading, NFrames <- MapEnd
KeepsPageTable == Abstract!PtSpec
=============================================================================
