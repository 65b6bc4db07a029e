-------------------------------- MODULE Heap --------------------------------
(***************************************************************************)
(* What a memory pool promises its callers, whatever its bookkeeping: the  *)
(* regions that are handed out are word aligned, lie inside the pool, are  *)
(* disjoint, never move, and come back one at a time.  DynMem is shown to  *)
(* implement this specification.                                           *)
(***************************************************************************)
EXTENDS Naturals

CONSTANTS HeapSize,  \* bytes of the pool
          Align      \* every region starts and ends at a multiple of Align

VARIABLE regions     \* the regions callers hold, <<first byte, end>>

HeapAddr == {a \in 0 .. HeapSize : a % Align = 0}

Disjoint(r, s) == r[2] <= s[1] \/ s[2] <= r[1]

HeapInit == regions = {}

(* A caller is given a fresh region that overlaps none of the others. *)
HeapGrant ==
  \E lo, hi \in HeapAddr :
    /\ lo < hi
    /\ \A r \in regions : Disjoint(<<lo, hi>>, r)
    /\ regions' = regions \cup {<<lo, hi>>}

(* A caller gives back one region; the others stay as they are. *)
HeapRelease == \E r \in regions : regions' = regions \ {r}

HeapNext == HeapGrant \/ HeapRelease

HeapSpec == HeapInit /\ [][HeapNext]_regions
=============================================================================
