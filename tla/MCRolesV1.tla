----------------------------- MODULE MCRolesV1 -----------------------------
(* Instances of RolesV1Readers for TLC.                                    *)
EXTENDS RolesV1Readers, TLC

CONSTANT tenant

NoFailures  == {}
AllFailures == FailureKinds

(* V1 roles belong to one resource and are not inherited                   *)
AboveNone == tenant :> {}

Symmetry == Permutations(Procs) \cup Permutations(Actions)
=============================================================================
