-------------------------- MODULE AllocatorLattice --------------------------
(***************************************************************************)
(* The lattice of what an allocator can resolve to, which the provenance   *)
(* pass climbs and the ownership pass joins the allocations of a field in. *)
(***************************************************************************)

AllocatorClass == {"Unset", "Global", "Arena", "Conflicting"}

\* A class that names one real allocator.
Concrete == {"Global", "Arena"}

Join(left, right) ==
  IF left = "Unset" THEN right
  ELSE IF right = "Unset" \/ left = right THEN left
  ELSE "Conflicting"

\* Unset below everything, Conflicting above it; Join is its least upper bound.
Leq(lower, upper) ==
  lower = "Unset" \/ lower = upper \/ upper = "Conflicting"

=============================================================================
