----------------------------- MODULE MCVMMManager -----------------------------
(***************************************************************************)
(* VMMManager, and the promise it refines, for TLC.  ImplementsFleet is an *)
(* initial predicate and a box of an action, both symmetric in machines    *)
(* and in addresses, as every other property of the run is.                *)
(***************************************************************************)
EXTENDS FleetRefinement, TLC

\* Machines are interchangeable, and so are addresses.
Symmetry == Permutations(Machine) \cup Permutations(Address)

\* Bound: one result of a probe on its way at a time, and two of a machine that is
\* the only one so far.
FewResults ==
  \A v, w \in Machine :
    v # w => InFlight(v) + InFlight(w) <= IF call[w] = "idle" THEN 2 ELSE 1

===============================================================================
