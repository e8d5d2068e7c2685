---------------------------- MODULE RoleBindings ----------------------------
(***************************************************************************)
(* The role-binding operations of the query engine that change state:      *)
(* CreateRoleBinding, UpdateRoleBinding and DeleteRoleBinding.  A binding  *)
(* is a row of the table rolebindings (its resource) and, in SpiceDB, the  *)
(* tuple naming its role, one tuple per subject, and the grant tuple from  *)
(* the resource.  Failures after the SpiceDB write are answered by         *)
(* rollbackUpdates, which writes the inverse updates.                      *)
(***************************************************************************)
EXTENDS RBACStore

BindingTuples(b, r, x, subjs) ==
    {BindingRole(b, r), Grant(x, b)} \cup {BindingSubject(b, s) : s \in subjs}

(* diff(current, incoming, TRUE): an empty list of subjects removes them   *)
SubjectDiff(b, incoming) ==
    Update({BindingSubject(b, s) : s \in incoming \ SubjectsOf(b)},
           {BindingSubject(b, s) : s \in SubjectsOf(b) \ incoming})

-----------------------------------------------------------------------------
StartBinding(p) ==
    \/ \E b \in BindingIDs \ issued, r \in RoleIDs \cap issued, x \in Resources,
          subjs \in SUBSET Subjects :
          /\ StartAt(p, [op |-> "CreateBinding", rb |-> b, role |-> r, res |-> x,
                         subjects |-> subjs], "bindable")
          /\ issued' = issued \cup {b}
    \/ \E b \in BindingIDs \cap issued, subjs \in SUBSET Subjects :
          /\ StartAt(p, [op |-> "UpdateBinding", rb |-> b, subjects |-> subjs], "begin")
          /\ UNCHANGED issued
    \/ \E b \in BindingIDs \cap issued :
          /\ StartAt(p, [op |-> "DeleteBinding", rb |-> b], "begin")
          /\ UNCHANGED issued

(* isRoleBindable: the role is available on the resource, in SpiceDB.      *)
CheckBindable(p) ==
    /\ pc[p] = "bindable"
    /\ \/ /\ Up(p) /\ Available(req[p].role, req[p].res)
          /\ Goto(p, "readRole")
          /\ UNCHANGED <<dbVars, issued, tuples, over, req, upd, zed, ans>>
       \/ /\ Fails(p, "read") \/ ~Available(req[p].role, req[p].res)
          /\ FailOpen(p)

(* mutant: the role's row is not looked up                                 *)
ReadRoleSkipped(p) ==
    /\ pc[p] = "readRole"
    /\ Goto(p, "begin")
    /\ UNCHANGED <<dbVars, issued, tuples, over, req, upd, zed, ans>>

(* GetRoleByID, outside any transaction and without locking the row.       *)
ReadRole(p) ==
    /\ pc[p] = "readRole"
    /\ \/ /\ Up(p) /\ RoleFound(p, req[p].role)
          /\ Goto(p, "begin")
          /\ UNCHANGED <<dbVars, issued, tuples, over, req, upd, zed, ans>>
       \/ (Fails(p, "read") \/ RoleMissing(p, req[p].role)) /\ FailOpen(p)

BeginBinding(p) ==
    /\ req[p].op \in BindingOps
    /\ Begin(p, IF req[p].op = "CreateBinding" THEN "insertBinding" ELSE "lockBinding")

InsertBinding(p) ==
    /\ pc[p] = "insertBinding"
    /\ \/ /\ WriteRow(p, Write(req[p].rb, req[p].res), "apply")
          /\ upd' = [upd EXCEPT ![p] = Update(BindingTuples(req[p].rb, req[p].role, req[p].res,
                                                            req[p].subjects), {})]
          /\ UNCHANGED tuples
       \/ Fails(p, "row") /\ RollbackAndFail(p)

(* mutant: the row is selected without FOR UPDATE                          *)
LockBindingShared(p) ==
    /\ pc[p] = "lockBinding"
    /\ \/ /\ Up(p) /\ rbRow[req[p].rb] # None
          /\ Goto(p, IF req[p].op = "UpdateBinding" THEN "getBinding" ELSE "readFrom")
          /\ UNCHANGED <<dbVars, issued, tuples, over, req, upd, zed, ans>>
       \/ (rbRow[req[p].rb] = None \/ Fails(p, "lock")) /\ RollbackAndFail(p)

(* mutant: a row that is taken is an error (NOWAIT), answered by a retry   *)
LockBindingRetried(p) ==
    /\ pc[p] = "lockBinding"
    /\ \/ LockForUpdate(p, req[p].rb, rbRow[req[p].rb] # None,
                        IF req[p].op = "UpdateBinding" THEN "getBinding" ELSE "readFrom")
       \/ /\ lock[req[p].rb] # None
          /\ RollbackContext(p) /\ Goto(p, "begin")
          /\ UNCHANGED <<issued, tuples, over, req, upd, zed, ans>>

LockBinding(p) ==
    /\ pc[p] = "lockBinding"
    /\ LockForUpdate(p, req[p].rb, rbRow[req[p].rb] # None,
                     IF req[p].op = "UpdateBinding" THEN "getBinding" ELSE "readFrom")

(* GetRoleBinding: a row without relationships is an error.  When nothing  *)
(* changes UpdateRoleBinding returns with its transaction open.            *)
GetBindingForUpdate(p) ==
    LET b == req[p].rb
        u == SubjectDiff(b, req[p].subjects) IN
    /\ pc[p] = "getBinding"
    /\ \/ /\ Up(p) /\ FromBinding(b) # {} /\ u # NoUpdate
          /\ Goto(p, "apply")
          /\ upd' = [upd EXCEPT ![p] = u]
          /\ UNCHANGED <<dbVars, issued, tuples, over, req, zed, ans>>
       \/ /\ Up(p) /\ FromBinding(b) # {} /\ u = NoUpdate
          /\ Return(p, "ok")
          /\ UNCHANGED <<dbVars, issued, tuples, over, req, upd, zed>>
       \/ /\ \/ Fails(p, "read") \/ FromBinding(b) = {}
             \/ "row" \in Failures /\ u # NoUpdate
          /\ RollbackAndFail(p)

(* DeleteRoleBinding reads the tuples from the binding, then those to it;  *)
(* the row, read first, is locked by its own transaction.                  *)
ReadFrom(p) ==
    /\ pc[p] = "readFrom"
    /\ \/ /\ Up(p)
          /\ Goto(p, "readTo")
          /\ upd' = [upd EXCEPT ![p] = Update({}, FromBinding(req[p].rb))]
          /\ UNCHANGED <<dbVars, issued, tuples, over, req, zed, ans>>
       \/ Fails(p, "read") /\ (RollbackAndFail(p) \/ FailOpen(p))

ReadTo(p) ==
    /\ pc[p] = "readTo"
    /\ \/ /\ Up(p)
          /\ Goto(p, "apply")
          /\ upd' = [upd EXCEPT ![p] = Update({}, @.del \cup ToBinding(req[p].rb))]
          /\ UNCHANGED <<dbVars, issued, tuples, over, req, zed, ans>>
       \/ Fails(p, "read") /\ RollbackAndFail(p)

-----------------------------------------------------------------------------
(* mutant: a rejected SpiceDB write does not stop the request              *)
ApplyUpdatesUnchecked(p) ==
    /\ pc[p] = "apply"
    /\ \/ /\ Up(p)
          /\ tuples' = (tuples \ upd[p].del) \cup upd[p].add
       \/ Fails(p, "spice") /\ UNCHANGED tuples
    /\ zed' = [zed EXCEPT ![p] = Written(upd[p])]
    /\ Goto(p, "zed")
    /\ UNCHANGED <<dbVars, issued, over, req, upd, ans>>

(* applyUpdates: one SpiceDB write, then one zedtoken per object written.  *)
(* When it fails only the SQL transaction is rolled back.                  *)
ApplyUpdates(p) ==
    /\ pc[p] = "apply"
    /\ \/ /\ Up(p)
          /\ tuples' = (tuples \ upd[p].del) \cup upd[p].add
          /\ zed' = [zed EXCEPT ![p] = Written(upd[p])]
          /\ Goto(p, "zed")
          /\ UNCHANGED <<dbVars, issued, over, req, upd, ans>>
       \/ Fails(p, "spice") /\ RollbackAndFail(p)
       \/ /\ "spiceLost" \in Failures /\ Up(p)
          /\ tuples' = (tuples \ upd[p].del) \cup upd[p].add
          /\ RollbackContext(p) /\ Return(p, "error")
          /\ UNCHANGED <<issued, over, req, upd, zed>>

(* UPSERT of a zedtoken in the request's transaction, the binding's first  *)
(* as its updates come first; it waits for a transaction holding the row.  *)
UpsertZedToken(p) ==
    /\ pc[p] = "zed"
    /\ \/ \E id \in zed[p] :
          /\ Up(p) /\ zlock[id] \in {None, p}
          /\ id \in Resources => zed[p] \cap BindingIDs = {}
          /\ zlock' = [zlock EXCEPT ![id] = p]
          /\ zed' = [zed EXCEPT ![p] = @ \ {id}]
          /\ UNCHANGED <<roleRow, rbRow, born, tx, pend, lock, issued, tuples, over, pc, req, upd, ans>>
       \/ /\ zed[p] = {}
          /\ Goto(p, CASE req[p].op = "CreateBinding" -> "commit"
                       [] req[p].op = "UpdateBinding" -> "touchBinding"
                       [] req[p].op = "DeleteBinding" -> "deleteBinding")
          /\ UNCHANGED <<dbVars, issued, tuples, over, req, upd, zed, ans>>
       \/ zed[p] # {} /\ Fails(p, "zed") /\ RollbackAndFail(p)

RollbackTo(p, l) ==
    RollbackContext(p) /\ Goto(p, l) /\ UNCHANGED <<issued, tuples, over, req, upd, zed, ans>>

(* store.UpdateRoleBinding sets updated_by and updated_at.  Its error path *)
(* rolls both stores back and then runs into the commit, which fails on    *)
(* the finished transaction and rolls SpiceDB back once more.              *)
TouchBinding(p) ==
    /\ pc[p] = "touchBinding"
    /\ \/ WriteRow(p, Write(req[p].rb, rbRow[req[p].rb]), "commit") /\ UNCHANGED <<tuples, upd>>
       \/ Fails(p, "lateRow") /\ RollbackTo(p, "undoTwice")

(* mutant: the failed DELETE only rolls the transaction back               *)
DeleteBindingRowNoUndo(p) ==
    /\ pc[p] = "deleteBinding"
    /\ \/ WriteRow(p, Write(req[p].rb, None), "commit") /\ UNCHANGED <<tuples, upd>>
       \/ Fails(p, "lateRow") /\ RollbackAndFail(p)

DeleteBindingRow(p) ==
    /\ pc[p] = "deleteBinding"
    /\ \/ WriteRow(p, Write(req[p].rb, None), "commit") /\ UNCHANGED <<tuples, upd>>
       \/ Fails(p, "lateRow") /\ RollbackTo(p, "undo")

(* mutant: SpiceDB is not rolled back when the commit fails                *)
CommitBindingNoUndo(p) ==
    /\ pc[p] = "commit" /\ req[p].op \in BindingOps
    /\ \/ /\ Up(p)
          /\ CommitContext(p) /\ Return(p, "ok")
          /\ UNCHANGED <<issued, tuples, over, req, upd, zed>>
       \/ Fails(p, "commit") /\ RollbackAndFail(p)

CommitBinding(p) ==
    /\ pc[p] = "commit" /\ req[p].op \in BindingOps
    /\ \/ /\ Up(p)
          /\ CommitContext(p) /\ Return(p, "ok")
          /\ UNCHANGED <<issued, tuples, over, req, upd, zed>>
       \/ Fails(p, "commit") /\ RollbackTo(p, "undo")
       \/ /\ "commitLost" \in Failures /\ Up(p)
          /\ CommitContext(p) /\ Goto(p, "undo")
          /\ UNCHANGED <<issued, tuples, over, req, upd, zed, ans>>

(* rollbackUpdates, after the SQL transaction and its locks are gone; its  *)
(* own failure is only logged.                                             *)
RollbackUpdates(p) ==
    /\ pc[p] \in {"undo", "undoTwice"}
    /\ \/ Up(p) /\ tuples' = (tuples \ upd[p].add) \cup upd[p].del
       \/ Fails(p, "undo") /\ UNCHANGED tuples
    /\ \/ pc[p] = "undoTwice" /\ Goto(p, "undo") /\ UNCHANGED ans
       \/ pc[p] = "undo" /\ Return(p, "error")
    /\ UNCHANGED <<dbVars, issued, over, req, upd, zed>>

BindingStep(p) ==
    \/ CheckBindable(p) \/ ReadRole(p) \/ BeginBinding(p) \/ InsertBinding(p)
    \/ LockBinding(p) \/ GetBindingForUpdate(p) \/ ReadFrom(p) \/ ReadTo(p)
    \/ ApplyUpdates(p) \/ UpsertZedToken(p) \/ TouchBinding(p)
    \/ DeleteBindingRow(p) \/ CommitBinding(p) \/ RollbackUpdates(p)

=============================================================================
