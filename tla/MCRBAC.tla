------------------------------- MODULE MCRBAC -------------------------------
(* Instances of RBAC for TLC.                                              *)
EXTENDS RBAC, TLC

CONSTANTS p1, p2, child, parent

NoFailures == {}
WritesFail == {"row", "spice"}

(* whatever does not make a request that others can meet write again       *)
Abandoned == Benign \cup {"cancel", "spiceLost", "unlink", "zed"}

(* one resource, or a resource below another                               *)
OneResource == {child}
AboveOne    == child :> {child}
Hierarchy   == {child, parent}
AboveTwo    == child :> {child, parent} @@ parent :> {parent}

Symmetry == Permutations(Procs)
=============================================================================
