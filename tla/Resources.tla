----------------------------- MODULE Resources -----------------------------
(***************************************************************************)
(* Fixed-point resource sets (resources.rs).  A ResourceSet is a map from  *)
(* a resource name to milli-units; a name that is not in the map counts as *)
(* zero, and the code drops a name whose quantity becomes zero, so the map *)
(* is modelled as a total function to Nat.                                 *)
(***************************************************************************)
EXTENDS Integers

CONSTANT ResourceKind    \* "cpu", "gpu"

ResourceSet == [ResourceKind -> Nat]

\* Is there enough of everything that is needed?
CanFit(have, needed) == \A k \in ResourceKind : have[k] >= needed[k]

\* What is left after `subtract`; the caller has checked CanFit.
Subtract(have, needed) == [k \in ResourceKind |-> have[k] - needed[k]]

\* `add_capped` refuses to return more than the worker's total, and is then
\* atomic: nothing is added.
CanAdd(have, returned, total) ==
  \A k \in ResourceKind : returned[k] > 0 => have[k] + returned[k] <= total[k]

Add(have, returned) == [k \in ResourceKind |-> have[k] + returned[k]]
=============================================================================
