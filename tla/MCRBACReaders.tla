---------------------------- MODULE MCRBACReaders ----------------------------
(* Instances of RBACReaders for TLC.                                       *)
EXTENDS RBACReaders, TLC

CONSTANTS child, parent

NoFailures == {}

(* what rollbackUpdates is there for: everything it can still repair       *)
Repaired == Benign \cup {"lateRow", "commit"}

Hierarchy   == {child, parent}
AboveTwo    == child :> {child, parent} @@ parent :> {parent}
=============================================================================
