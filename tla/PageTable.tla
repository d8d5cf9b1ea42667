----------------------------- MODULE PageTable -----------------------------
(***************************************************************************)
(* What the guest may assume of its address space: a translation from      *)
(* pages to what backs them.  A translation is a pair <<page, frame>>,     *)
(* where frame is a direct-memory page or Anon.  Mapping a range replaces  *)
(* every translation in it, unmapping forgets them, and releasing direct   *)
(* memory forgets every translation to it, wherever it is mapped.  There   *)
(* are no entries, no splitting and no order here: this is the promise     *)
(* that kern::VmMap's interval list is shown to keep.                      *)
(***************************************************************************)
EXTENDS Integers

CONSTANTS NPages, NFrames

Anon == -1

VARIABLE pt

Span(lo, hi) == lo .. hi - 1

\* Page v of a range mapped at lo is backed by frame phys + (v - lo).
Translations(lo, hi, frame(_)) == {<<v, frame(v)>> : v \in Span(lo, hi)}

Without(pages) == {x \in pt : x[1] \notin pages}

PtInit == pt = {}

Bind(lo, hi, phys) ==
    pt' = Without(Span(lo, hi))
            \cup Translations(lo, hi, LAMBDA v : phys + (v - lo))

BindAnon(lo, hi) ==
    pt' = Without(Span(lo, hi)) \cup Translations(lo, hi, LAMBDA v : Anon)

Unbind(lo, hi) == pt' = Without(Span(lo, hi))

ReleaseFrames(plo, phi) == pt' = {x \in pt : x[2] \notin Span(plo, phi)}

PtNext ==
    \/ \E lo, hi \in 0 .. NPages :
          /\ lo <= hi
          /\ \/ BindAnon(lo, hi)
             \/ Unbind(lo, hi)
             \/ \E phys \in 0 .. NFrames : Bind(lo, hi, phys)
    \/ \E plo, phi \in 0 .. NFrames : plo < phi /\ ReleaseFrames(plo, phi)

PtSpec == PtInit /\ [][PtNext]_pt
=============================================================================
