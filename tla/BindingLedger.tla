---------------------------- MODULE BindingLedger ----------------------------
(***************************************************************************)
(* What the role-binding operations promise their callers: a binding is    *)
(* one record that comes into being with its role, its resource and its    *)
(* subjects, changes its subjects as a whole, keeps its role and resource  *)
(* for life, disappears as a whole, and never returns.  An operation that  *)
(* is refused or fails leaves no trace.                                    *)
(***************************************************************************)
CONSTANTS RoleIDs, BindingIDs, Resources, Subjects, NoBinding

VARIABLES binding,   \* the record of each binding, or NoBinding
          spent      \* the identifiers of bindings created so far

Records == [role : RoleIDs, res : Resources, subjects : SUBSET Subjects]

Init == binding = [b \in BindingIDs |-> NoBinding] /\ spent = {}

Create(b, rec) ==
    /\ b \notin spent
    /\ binding' = [binding EXCEPT ![b] = rec]
    /\ spent' = spent \cup {b}

SetSubjects(b, subjs) ==
    /\ binding[b] # NoBinding
    /\ binding' = [binding EXCEPT ![b].subjects = subjs]
    /\ UNCHANGED spent

Delete(b) ==
    /\ binding[b] # NoBinding
    /\ binding' = [binding EXCEPT ![b] = NoBinding]
    /\ UNCHANGED spent

Next == \E b \in BindingIDs :
          \/ \E rec \in Records : Create(b, rec)
          \/ \E subjs \in SUBSET Subjects : SetSubjects(b, subjs)
          \/ Delete(b)

Spec == Init /\ [][Next]_<<binding, spent>>
=============================================================================
