----------------------------- MODULE KapiLayout -----------------------------
(***************************************************************************)
(* The address-space table of experiments/kapi: the loop of                *)
(* print_global_constants() over its regions, which fills the space        *)
(* between them with reserved gaps.  The bounds of the regions depend on   *)
(* the running kernel (KASLR, RAM size, paging levels), so they are any    *)
(* values here, in any order.                                              *)
(***************************************************************************)
EXTENDS Naturals

CONSTANTS Top,     \* ULONG_MAX
          Count    \* ARRAY_SIZE(regions)

ASSUME LayoutAssumption == Top \in Nat /\ Count \in Nat

Region == [start : 0 .. Top, end : 0 .. Top]

VARIABLES regions, i, cursor,
          gaps, spans,    \* what print_region() reported, with bytes > 0
          done

layout_vars == <<regions, i, cursor, gaps, spans, done>>

Covers(r, a) == r.start <= a /\ a < r.end
NonEmpty(r)  == {x \in {r} : x.start < x.end}   \* print_region() reports bytes=0 otherwise

LayoutTypeOK ==
  /\ regions \in [1 .. Count -> Region]
  /\ i \in 1 .. Count + 1
  /\ cursor \in 0 .. Top
  /\ gaps \subseteq Region
  /\ spans \subseteq Region
  /\ done \in BOOLEAN

LayoutInit ==
  /\ regions \in [1 .. Count -> Region]
  /\ i = 1 /\ cursor = 0
  /\ gaps = {} /\ spans = {}
  /\ done = FALSE

(* Mutant: the gap ends at the end of the next region. *)
PrintRegionLongGap ==
  LET r == regions[i]
  IN /\ i <= Count
     /\ gaps' = gaps \cup (IF r.start > cursor
                             THEN NonEmpty([start |-> cursor, end |-> r.end]) ELSE {})
     /\ spans' = spans \cup NonEmpty(r)
     /\ cursor' = IF r.end > cursor THEN r.end ELSE cursor
     /\ i' = i + 1
     /\ UNCHANGED <<regions, done>>

(* One turn of the loop: the gap before the region, the region, the cursor. *)
PrintRegion ==
  LET r == regions[i]
  IN /\ i <= Count
     /\ gaps' = gaps \cup NonEmpty([start |-> cursor, end |-> r.start])
     /\ spans' = spans \cup NonEmpty(r)
     /\ cursor' = IF r.end > cursor THEN r.end ELSE cursor
     /\ i' = i + 1
     /\ UNCHANGED <<regions, done>>

(* Mutant: nothing is printed above the last region. *)
PrintTopNot ==
  /\ i = Count + 1 /\ ~done
  /\ done' = TRUE
  /\ UNCHANGED <<regions, i, cursor, spans, gaps>>

(* After the loop: reserved_top. *)
PrintTop ==
  /\ i = Count + 1 /\ ~done
  /\ gaps' = gaps \cup NonEmpty([start |-> cursor, end |-> Top])
  /\ done' = TRUE
  /\ UNCHANGED <<regions, i, cursor, spans>>

LayoutNext == PrintRegion \/ PrintTop

LayoutSpec == LayoutInit /\ [][LayoutNext]_layout_vars

-----------------------------------------------------------------------------
(* Properties *)

(* The table has no holes: every address below ULONG_MAX is in some line, whatever the
   kernel's bounds are, also when regions overlap, are empty or are out of order. *)
TableCovers ==
  done => \A a \in 0 .. Top - 1 : \E r \in gaps \cup spans : Covers(r, a)

Sorted == \A j, k \in 1 .. Count : j <= k => regions[j].start <= regions[k].start

(* If the regions are listed by their start, nothing is called reserved that a region of
   the table claims. *)
GapsAreUnclaimed ==
  Sorted => \A g \in gaps, k \in 1 .. Count, a \in 0 .. Top - 1 :
              ~(Covers(g, a) /\ Covers(regions[k], a))

(* The inductive strengthening: everything below the cursor is printed, and every gap lies
   between the regions already printed and the ones still to come. *)
LayoutInv ==
  /\ LayoutTypeOK
  /\ \A a \in 0 .. Top - 1 : a < cursor => \E r \in gaps \cup spans : Covers(r, a)
  /\ done => \A a \in 0 .. Top - 1 : \E r \in gaps \cup spans : Covers(r, a)
  /\ done => i = Count + 1
  /\ \A k \in 1 .. Count : k < i => regions[k].end <= cursor
  /\ Sorted => \A g \in gaps, k \in 1 .. Count :
                 \/ k < i /\ (regions[k].end <= g.start \/ g.end <= regions[k].start)
                 \/ k >= i /\ g.end <= regions[k].start
=============================================================================
