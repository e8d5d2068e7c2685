------------------------------ MODULE RolesV1 ------------------------------
(***************************************************************************)
(* The V1 roles and their assignments, as the HTTP handlers run them:      *)
(* CreateRole, UpdateRole, DeleteRole, AssignSubjectRole and               *)
(* UnassignSubjectRole of the query engine, and GetRoleResource before all *)
(* but the first.  A role is a row of the table roles and, in SpiceDB, one *)
(* tuple on its owner per action; an assignment is one tuple on the role.  *)
(*                                                                         *)
(* The caller is allowed to do what it asks for, and what it asks for is   *)
(* valid.  A role's name is abstracted as in RolesV2.                      *)
(***************************************************************************)
EXTENDS RBACStore

AssignOps == {"Assign", "Unassign"}

(* names of relations: actionToRelation adds a suffix that relationToAction *)
(* cuts off                                                                *)
Name(w)             == [word |-> w, suffix |-> ""]
actionToRelation(a) == [word |-> a, suffix |-> "_rel"]
relationToAction(n) == n.word

OnOwner(x, n, r) == [obj |-> x, rel |-> n, sub |-> r]
Assignment(r, s) == [obj |-> r, rel |-> Name("subject"), sub |-> s]

TuplesV1 == [obj : Resources, rel : {actionToRelation(a) : a \in Actions}, sub : RoleIDs]
       \cup [obj : RoleIDs, rel : {Name("subject")}, sub : Subjects]

(* listRoleResourceActions: the role's actions on its owner x              *)
ActionsOn(x, r) ==
    {relationToAction(t.rel) : t \in {u \in tuples : u.obj = x /\ u.sub = r}}

(* mutant: the relation is the name of the action                          *)
GrantedBare(x, r, acts) == {OnOwner(x, Name(a), r) : a \in acts}

Granted(x, r, acts) == {OnOwner(x, actionToRelation(a), r) : a \in acts}

RequestsV1 ==
         [op : {"CreateRole"}, role : RoleIDs, res : Resources, actions : SUBSET Actions]
    \cup [op : {"UpdateRole"}, role : RoleIDs, rename : BOOLEAN, actions : SUBSET Actions]
    \cup [op : {"DeleteRole"}, role : RoleIDs]
    \cup [op : AssignOps, role : RoleIDs, sub : Subjects]

LabelsV1 == {"idle", "getResource", "begin", "insertRole", "readRole", "lockRole", "getRole",
             "updateRole", "writeRole", "listActions", "deleteRole", "unlink", "commit",
             "assign", "unassign", "returned"}

-----------------------------------------------------------------------------
StartV1(p) ==
    \/ \E r \in RoleIDs \ issued, x \in Resources, acts \in SUBSET Actions :
          /\ StartAt(p, [op |-> "CreateRole", role |-> r, res |-> x, actions |-> acts], "begin")
          /\ issued' = issued \cup {r}
    \/ \E r \in RoleIDs \cap issued, n \in BOOLEAN, acts \in SUBSET Actions :
          /\ StartAt(p, [op |-> "UpdateRole", role |-> r, rename |-> n, actions |-> acts],
                     "getResource")
          /\ UNCHANGED issued
    \/ \E r \in RoleIDs \cap issued :
          /\ StartAt(p, [op |-> "DeleteRole", role |-> r], "getResource")
          /\ UNCHANGED issued
    \/ \E o \in AssignOps, r \in RoleIDs \cap issued, s \in Subjects :
          /\ StartAt(p, [op |-> o, role |-> r, sub |-> s], "getResource")
          /\ UNCHANGED issued

(* mutant: the handler does not look for the role                          *)
GetRoleResourceUnread(p) ==
    /\ pc[p] = "getResource" /\ Up(p)
    /\ Goto(p, CASE req[p].op = "Assign"   -> "assign"
                 [] req[p].op = "Unassign" -> "unassign"
                 [] OTHER                  -> "begin")
    /\ UNCHANGED <<dbVars, issued, tuples, over, req, upd, zed, ans>>

(* The handlers look the role's owner up to check the caller's permission  *)
(* on it; the row is read and not locked.                                  *)
GetRoleResource(p) ==
    /\ pc[p] = "getResource"
    /\ \/ /\ Up(p) /\ RoleFound(p, req[p].role)
          /\ Goto(p, CASE req[p].op = "Assign"   -> "assign"
                       [] req[p].op = "Unassign" -> "unassign"
                       [] OTHER                  -> "begin")
          /\ UNCHANGED <<dbVars, issued, tuples, over, req, upd, zed, ans>>
       \/ /\ Up(p) /\ RoleMissing(p, req[p].role)
          /\ FailOpen(p)
       \/ Fails(p, "read") /\ FailOpen(p)

BeginV1(p) ==
    Begin(p, CASE req[p].op = "CreateRole" -> "insertRole"
               [] req[p].op = "UpdateRole" -> "lockRole"
               [] OTHER                    -> "readRole")

(* An INSERT that fails leaves the transaction open.                       *)
InsertRole(p) ==
    /\ pc[p] = "insertRole"
    /\ \/ /\ WriteRow(p, Write(req[p].role, req[p].res), "writeRole")
          /\ upd' = [upd EXCEPT ![p] =
                        Update(Granted(req[p].res, req[p].role, req[p].actions), {})]
          /\ UNCHANGED tuples
       \/ Fails(p, "row") /\ FailOpen(p)

(* DeleteRole reads the role in no transaction before it locks it; failing *)
(* leaves the transaction it has begun open.                               *)
ReadRole(p) ==
    /\ pc[p] = "readRole"
    /\ \/ /\ Up(p) /\ RoleFound(p, req[p].role)
          /\ Goto(p, "lockRole")
          /\ UNCHANGED <<dbVars, issued, tuples, over, req, upd, zed, ans>>
       \/ /\ Up(p) /\ RoleMissing(p, req[p].role)
          /\ FailOpen(p)
       \/ Fails(p, "read") /\ FailOpen(p)

(* mutant: SELECT without FOR UPDATE                                       *)
LockRoleShared(p) ==
    /\ pc[p] = "lockRole"
    /\ \/ /\ Up(p) /\ roleRow[req[p].role] # None
          /\ Goto(p, IF req[p].op = "UpdateRole" THEN "getRole" ELSE "listActions")
          /\ UNCHANGED <<dbVars, issued, tuples, over, req, upd, zed, ans>>
       \/ (roleRow[req[p].role] = None \/ Fails(p, "lock")) /\ RollbackAndFail(p)

LockRole(p) ==
    /\ pc[p] = "lockRole"
    /\ LockForUpdate(p, req[p].role, roleRow[req[p].role] # None,
                     IF req[p].op = "UpdateRole" THEN "getRole" ELSE "listActions")

(* mutant: diff(current, incoming, TRUE), as UpdateRoleBinding calls it     *)
RoleDiffV1Empty(x, r, incoming) ==
    Update(Granted(x, r, incoming \ ActionsOn(x, r)), Granted(x, r, ActionsOn(x, r) \ incoming))

(* diff(current, incoming, FALSE): no incoming action means no change      *)
RoleDiffV1(x, r, incoming) ==
    IF incoming = {} THEN NoUpdate
    ELSE Update(Granted(x, r, incoming \ ActionsOn(x, r)), Granted(x, r, ActionsOn(x, r) \ incoming))

(* GetRole and the diff.  When nothing changes UpdateRole returns at once  *)
(* and leaves the transaction open.                                        *)
GetRole(p) ==
    LET r == req[p].role
        u == RoleDiffV1(roleRow[r], r, req[p].actions) IN
    /\ pc[p] = "getRole"
    /\ \/ /\ Up(p) /\ u = NoUpdate /\ ~req[p].rename
          /\ Return(p, "ok")
          /\ UNCHANGED <<dbVars, issued, tuples, over, req, upd, zed>>
       \/ /\ Up(p) /\ (u # NoUpdate \/ req[p].rename)
          /\ Goto(p, "updateRole")
          /\ upd' = [upd EXCEPT ![p] = u]
          /\ UNCHANGED <<dbVars, issued, tuples, over, req, zed, ans>>
       \/ Fails(p, "read") /\ RollbackAndFail(p)

UpdateRoleRow(p) ==
    /\ pc[p] = "updateRole"
    /\ \/ /\ WriteRow(p, Write(req[p].role, roleRow[req[p].role]),
                      IF upd[p] = NoUpdate THEN "commit" ELSE "writeRole")
          /\ UNCHANGED <<tuples, upd>>
       \/ Fails(p, "row") /\ RollbackAndFail(p)

(* The WriteRelationships of CreateRole and UpdateRole.                    *)
WriteRole(p) ==
    /\ pc[p] = "writeRole"
    /\ \/ /\ Up(p)
          /\ tuples' = (tuples \ upd[p].del) \cup upd[p].add
          /\ Goto(p, "commit")
          /\ UNCHANGED <<dbVars, issued, over, req, upd, zed, ans>>
       \/ Fails(p, "spice") /\ RollbackAndFail(p)
       \/ /\ "spiceLost" \in Failures /\ Up(p)
          /\ tuples' = (tuples \ upd[p].del) \cup upd[p].add
          /\ RollbackContext(p) /\ Return(p, "error")
          /\ UNCHANGED <<issued, over, req, upd, zed>>

(* DeleteRole makes one filter per action listed.  A filter that names the *)
(* owner, the relation and the role matches one tuple at most, and is      *)
(* written as that tuple; its relation is the name of the action.          *)
ListActions(p) ==
    LET r == req[p].role
        x == roleRow[r] IN
    /\ pc[p] = "listActions"
    /\ \/ /\ Up(p)
          /\ upd' = [upd EXCEPT ![p] = Update({}, {OnOwner(x, Name(a), r) : a \in ActionsOn(x, r)})]
          /\ Goto(p, "deleteRole")
          /\ UNCHANGED <<dbVars, issued, tuples, over, req, zed, ans>>
       \/ Fails(p, "read") /\ RollbackAndFail(p)

DeleteRoleRow(p) ==
    /\ pc[p] = "deleteRole"
    /\ \/ WriteRow(p, Write(req[p].role, None), "unlink") /\ UNCHANGED <<tuples, upd>>
       \/ Fails(p, "row") /\ RollbackAndFail(p)

(* One DeleteRelationships per filter; the first that fails ends it.       *)
Unlink(p) ==
    /\ pc[p] = "unlink"
    /\ \/ \E f \in upd[p].del :
             /\ Up(p)
             /\ tuples' = tuples \ {f}
             /\ upd' = [upd EXCEPT ![p].del = @ \ {f}]
             /\ UNCHANGED <<dbVars, issued, over, pc, req, zed, ans>>
       \/ /\ upd[p].del = {}
          /\ Goto(p, "commit")
          /\ UNCHANGED <<dbVars, issued, tuples, over, req, upd, zed, ans>>
       \/ upd[p].del # {} /\ Fails(p, "unlink") /\ RollbackAndFail(p)

(* A failed commit is answered with the error; SpiceDB keeps its changes.  *)
CommitRole(p) ==
    /\ pc[p] = "commit"
    /\ \/ /\ Up(p)
          /\ CommitContext(p) /\ Return(p, "ok")
          /\ UNCHANGED <<issued, tuples, over, req, upd, zed>>
       \/ Fails(p, "commit") /\ RollbackAndFail(p)
       \/ /\ "commitLost" \in Failures /\ Up(p)
          /\ CommitContext(p) /\ Return(p, "error")
          /\ UNCHANGED <<issued, tuples, over, req, upd, zed>>

(* AssignSubjectRole and UnassignSubjectRole: one write to SpiceDB.  The   *)
(* first is an OPERATION_CREATE, which fails if the tuple is there.        *)
AssignSubjectRole(p) ==
    LET t == Assignment(req[p].role, req[p].sub) IN
    /\ pc[p] = "assign"
    /\ \/ /\ Up(p) /\ t \notin tuples
          /\ tuples' = tuples \cup {t} /\ Return(p, "ok")
       \/ /\ "spiceLost" \in Failures /\ Up(p) /\ t \notin tuples
          /\ tuples' = tuples \cup {t} /\ Return(p, "error")
       \/ /\ t \in tuples \/ Fails(p, "spice")
          /\ Return(p, "error") /\ UNCHANGED tuples
    /\ UNCHANGED <<dbVars, issued, over, req, upd, zed>>

UnassignSubjectRole(p) ==
    /\ pc[p] = "unassign"
    /\ \/ /\ Up(p)
          /\ tuples' = tuples \ {Assignment(req[p].role, req[p].sub)}
          /\ \/ Return(p, "ok")
             \/ "spiceLost" \in Failures /\ Return(p, "error")
       \/ Fails(p, "spice") /\ Return(p, "error") /\ UNCHANGED tuples
    /\ UNCHANGED <<dbVars, issued, over, req, upd, zed>>

WorkV1(p) ==
    \/ GetRoleResource(p) \/ BeginV1(p) \/ InsertRole(p) \/ ReadRole(p) \/ LockRole(p)
    \/ GetRole(p) \/ UpdateRoleRow(p) \/ WriteRole(p) \/ ListActions(p) \/ DeleteRoleRow(p)
    \/ Unlink(p) \/ CommitRole(p) \/ AssignSubjectRole(p) \/ UnassignSubjectRole(p)
    \/ RequestEnd(p) \/ AbortTx(p)

NextV1 == \E p \in Procs : StartV1(p) \/ WorkV1(p) \/ Cancel(p)

SpecV1 == Init /\ [][NextV1]_vars

-----------------------------------------------------------------------------
TypeOKV1 ==
    /\ roleRow \in [RoleIDs -> Resources \cup {None}]
    /\ born \subseteq RoleIDs \cup BindingIDs /\ issued \subseteq RoleIDs
    /\ tuples \subseteq TuplesV1
    /\ tx \subseteq Procs /\ over \subseteq Procs
    /\ pend \in [Procs -> Writes \cup {None}]
    /\ lock \in [RoleIDs \cup BindingIDs -> Procs \cup {None}]
    /\ pc \in [Procs -> LabelsV1]
    /\ req \in [Procs -> RequestsV1 \cup {NoRequest}]
    /\ \A p \in Procs : upd[p].add \subseteq TuplesV1
    /\ ans \in [Procs -> {"none", "ok", "error"}]

(* "there are no assignments to these newly created and now discarded      *)
(* roles and so they won't be used" (CreateRole, where COMMIT fails):      *)
(* nobody is ever assigned a role whose row was never committed, whatever  *)
(* fails.                                                                  *)
DiscardedUnassigned ==
    \A r \in RoleIDs, s \in Subjects : Assignment(r, s) \in tuples => r \in born

(* An action is given to a role only while the role exists or its creation *)
(* is in progress: no update that began before a deletion writes after it. *)
GivenToTheLiving ==
    [][\A x \in Resources, a \in Actions, r \in RoleIDs :
         OnOwner(x, actionToRelation(a), r) \in tuples' \ tuples
            => \/ roleRow[r] = x
               \/ \E p \in Procs : pend[p] = Write(r, x)]_vars

(* When UpdateRole answers without error the role has the actions it was   *)
(* given, on its owner: no other request came between reading them and the *)
(* answer, the answer that leaves the transaction open included.           *)
UpdateTakesEffectV1 ==
    [][\A p \in Procs :
         (req[p].op = "UpdateRole" /\ req[p].actions # {} /\ ans[p] = "none" /\ ans'[p] = "ok")
            => ActionsOn(roleRow[req[p].role], req[p].role) = req[p].actions]_vars

(* "DeleteRole removes all role actions from the assigned resource."       *)
DeletedRoleHasNoActions ==
    \A r \in RoleIDs : r \in born /\ roleRow[r] = None /\ lock[r] = None
        => \A x \in Resources : ActionsOn(x, r) = {}
=============================================================================
