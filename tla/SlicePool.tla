------------------------------ MODULE SlicePool ------------------------------
(***************************************************************************)
(* What a memory pool promises its clients (doc/txt/MemPool.txt): alloc    *)
(* hands out a slice that nobody holds, and the pool asks the system for   *)
(* more memory only when every slice it owns is held.                      *)
(***************************************************************************)
VARIABLES
  slices,   \* every slice the pool has carved out so far
  inUse     \* the slices clients hold

Init == slices = {} /\ inUse = {}

Hand(s) == inUse' = inUse \cup {s}

Reuse == /\ \E s \in slices \ inUse : Hand(s)
         /\ UNCHANGED slices

Grow == /\ slices = inUse
        /\ slices \subseteq slices'
        /\ \E s \in slices' \ slices : Hand(s)

Release == /\ \E s \in inUse : inUse' = inUse \ {s}
           /\ UNCHANGED slices

Next == Reuse \/ Grow \/ Release

Spec == Init /\ [][Next]_<<slices, inUse>>
=============================================================================
