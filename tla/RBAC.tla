-------------------------------- MODULE RBAC --------------------------------
(***************************************************************************)
(* Roles and role bindings together: any number of requests, each running  *)
(* one of the six operations at a time, interleaved at every call to       *)
(* either store.                                                           *)
(***************************************************************************)
EXTENDS RolesV2, RoleBindings

Start(p) == StartRole(p) \/ StartBinding(p)

Work(p) == RoleStep(p) \/ BindingStep(p) \/ RequestEnd(p) \/ AbortTx(p)

Next == \E p \in Procs : Start(p) \/ Work(p) \/ Cancel(p)

Spec == Init /\ [][Next]_vars

(* A request that can take its next step takes it: goroutines are          *)
(* scheduled and calls return.  Waiting for a row is fair too: the         *)
(* database queues the transactions that wait for a row.                   *)
RowWait(p) == ReadRole(p) \/ LockRole(p) \/ LockBinding(p) \/ UpsertZedToken(p)

Fairness == \A p \in Procs : WF_vars(Work(p)) /\ SF_vars(RowWait(p))

FairSpec == Spec /\ Fairness

-----------------------------------------------------------------------------
(* The failures after which no handler writes to SpiceDB without its SQL   *)
(* transaction still protecting the row it writes for.                     *)
Benign == {"begin", "lock", "read", "row", "spice"}

RolesOf(b)     == {r \in RoleIDs : BindingRole(b, r) \in tuples}
ResourcesOf(b) == {x \in Resources : Grant(x, b) \in tuples}

(* No transaction holds the row and no rollback of its tuples is pending:  *)
(* what the stores say of it is final.                                     *)
Settled(id) ==
    /\ lock[id] = None
    /\ \A p \in Procs : pc[p] \in {"undo", "undoTwice"} => req[p].rb # id

(* Whenever no request is working on a binding its two halves agree: its   *)
(* row exists exactly if its tuples do, they name one role, and they grant *)
(* on the row's resource and no other (the SQL row is inserted before and  *)
(* deleted after the SpiceDB write, under the row's lock).                 *)
BindingsAgree ==
    \A b \in BindingIDs : Settled(b) =>
        IF rbRow[b] = None
        THEN FromBinding(b) = {} /\ ToBinding(b) = {}
        ELSE Cardinality(RolesOf(b)) = 1 /\ ResourcesOf(b) = {rbRow[b]}

(* Whenever no request is working on a role, its row exists exactly if     *)
(* SpiceDB knows its owner and lists it among its owner's roles, and a     *)
(* role without a row has left no tuple (CreateRoleV2 and DeleteRoleV2).   *)
RolesAgree ==
    \A r \in RoleIDs : Settled(r) =>
        IF roleRow[r] = None
        THEN FromRole(r) = {} /\ ToRole(r) = {}
        ELSE /\ RoleOwner(r, roleRow[r]) \in tuples
             /\ ToRole(r) = {MemberRole(roleRow[r], r)}

(* A role that was deleted has left nothing in SpiceDB, whatever fails: as *)
(* the deletions there cannot be undone, DeleteRoleV2 must keep the row    *)
(* when either of them fails, and no update may write tuples after them.   *)
DeletedRoleGone ==
    \A r \in RoleIDs : Settled(r) /\ r \in born /\ roleRow[r] = None
        => FromRole(r) = {} /\ ToRole(r) = {}

(* No binding ever names a role whose row was never committed, whatever    *)
(* fails: the comment in CreateRoleV2's failed commit counts on it, as the *)
(* role's tuples stay in SpiceDB.                                          *)
DiscardedRoleUnused ==
    \A b \in BindingIDs : RolesOf(b) \subseteq born

(* The subjects of a binding when UpdateRoleBinding answers without error  *)
(* are the ones it was given: no other update, reading the same subjects,  *)
(* has added or removed any since its diff.                                *)
UpdateTakesEffect ==
    [][\A p \in Procs :
         (req[p].op = "UpdateBinding" /\ pc[p] = "commit" /\ ans'[p] = "ok")
            => SubjectsOf(req[p].rb) = req[p].subjects]_vars

(* ... and the actions of a role when UpdateRoleV2 answers, likewise.      *)
RoleUpdateTakesEffect ==
    [][\A p \in Procs :
         (req[p].op = "UpdateRole" /\ pc[p] = "commit" /\ ans'[p] = "ok"
             /\ req[p].actions # {})
            => ActionsOf(req[p].role) = req[p].actions]_vars

(* "reject delete if role is in use" (DeleteRoleV2): a binding that no     *)
(* request is working on names a role that exists.                         *)
NoBindingToDeletedRole ==
    \A b \in BindingIDs, r \in RoleIDs :
        Settled(b) /\ rbRow[b] # None /\ BindingRole(b, r) \in tuples => roleRow[r] # None

(* Every request is answered, and with it every row it locked is released: *)
(* no two requests wait for each other's rows of roles, rolebindings and   *)
(* zedtokens.                                                              *)
EveryRequestEnds == \A p \in Procs : (pc[p] # "idle") ~> (pc[p] = "idle")

-----------------------------------------------------------------------------
(* The bindings as their callers see them: a change counts once its SQL    *)
(* transaction commits, so the SpiceDB writes of a request that has not    *)
(* committed are read as not made.                                         *)
Dirty == {p \in Procs : /\ req[p].op \in BindingOps
                        /\ pc[p] \in {"zed", "touchBinding", "deleteBinding", "commit",
                                      "undo", "undoTwice"}}

Visible == (tuples \ UNION {upd[p].add : p \in Dirty}) \cup UNION {upd[p].del : p \in Dirty}

RoleShown(b) ==
    LET rs == {r \in RoleIDs : BindingRole(b, r) \in Visible} IN
    IF Cardinality(rs) = 1 THEN CHOOSE r \in rs : TRUE ELSE None

(* what is shown of a binding that has a row; no such record is None       *)
Views == [role : RoleIDs \cup {None}, res : Resources, subjects : SUBSET Subjects]

ASSUME ViewAssumption == None \notin Views

Shown(b) ==
    IF rbRow[b] = None THEN None
    ELSE [role |-> RoleShown(b),
          res |-> rbRow[b],
          subjects |-> {s \in Subjects : BindingSubject(b, s) \in Visible}]

Ledger == INSTANCE BindingLedger WITH
    NoBinding <- None,
    binding <- [b \in BindingIDs |-> Shown(b)],
    spent <- born \cap BindingIDs

(* The operations on bindings implement the ledger of whole records.       *)
LedgerImplemented == Ledger!Spec
=============================================================================
