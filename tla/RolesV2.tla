------------------------------ MODULE RolesV2 ------------------------------
(***************************************************************************)
(* The V2 role operations of the query engine that change state:           *)
(* CreateRoleV2, UpdateRoleV2 and DeleteRoleV2.  A role is a row of the    *)
(* table roles and, in SpiceDB, one wildcard tuple per action, the tuple   *)
(* naming its owner and the owner's member_role tuple.                     *)
(*                                                                         *)
(* The tuples of an action, one per subject type, are always written and   *)
(* deleted together and are one tuple here.  The role's name is abstracted *)
(* to whether the request changes it; a name that is taken is a "row"      *)
(* failure.                                                                *)
(***************************************************************************)
EXTENDS RBACStore

RoleTuples(r, owner, acts) ==
    {RoleAction(r, a) : a \in acts} \cup {RoleOwner(r, owner), MemberRole(owner, r)}

(* diff(current, incoming, FALSE): no incoming action means no change      *)
RoleDiff(r, incoming) ==
    IF incoming = {} THEN NoUpdate
    ELSE Update({RoleAction(r, a) : a \in incoming \ ActionsOf(r)},
                {RoleAction(r, a) : a \in ActionsOf(r) \ incoming})

-----------------------------------------------------------------------------
StartRole(p) ==
    \/ \E r \in RoleIDs \ issued, x \in Resources, acts \in SUBSET Actions :
          /\ StartAt(p, [op |-> "CreateRole", role |-> r, res |-> x, actions |-> acts], "begin")
          /\ issued' = issued \cup {r}
    \/ \E r \in RoleIDs \cap issued, n \in BOOLEAN, acts \in SUBSET Actions :
          /\ StartAt(p, [op |-> "UpdateRole", role |-> r, rename |-> n, actions |-> acts], "begin")
          /\ UNCHANGED issued
    \/ \E r \in RoleIDs \cap issued :
          /\ StartAt(p, [op |-> "DeleteRole", role |-> r], "begin")
          /\ UNCHANGED issued

BeginRole(p) ==
    /\ req[p].op \in RoleOps
    /\ Begin(p, IF req[p].op = "CreateRole" THEN "insertRole" ELSE "lockRole")

InsertRole(p) ==
    /\ pc[p] = "insertRole"
    /\ \/ /\ WriteRow(p, Write(req[p].role, req[p].res), "writeRole")
          /\ upd' = [upd EXCEPT ![p] =
                        Update(RoleTuples(req[p].role, req[p].res, req[p].actions), {})]
          /\ UNCHANGED tuples
       \/ Fails(p, "row") /\ RollbackAndFail(p)

(* mutant: the row is selected without FOR UPDATE                          *)
LockRoleShared(p) ==
    /\ pc[p] = "lockRole"
    /\ \/ /\ Up(p) /\ roleRow[req[p].role] # None
          /\ Goto(p, IF req[p].op = "UpdateRole" THEN "getRole" ELSE "findBindings")
          /\ UNCHANGED <<dbVars, issued, tuples, over, req, upd, zed, ans>>
       \/ (roleRow[req[p].role] = None \/ Fails(p, "lock")) /\ RollbackAndFail(p)

LockRole(p) ==
    /\ pc[p] = "lockRole"
    /\ LockForUpdate(p, req[p].role, roleRow[req[p].role] # None,
                     IF req[p].op = "UpdateRole" THEN "getRole" ELSE "findBindings")

(* GetRoleV2, the diff, and the early commit when nothing changes.         *)
GetRoleForUpdate(p) ==
    /\ pc[p] = "getRole"
    /\ \/ LET u == RoleDiff(req[p].role, req[p].actions) IN
          /\ Up(p)
          /\ Goto(p, IF u = NoUpdate /\ ~req[p].rename THEN "commit" ELSE "updateRole")
          /\ upd' = [upd EXCEPT ![p] = u]
          /\ UNCHANGED <<dbVars, issued, tuples, over, req, zed, ans>>
       \/ Fails(p, "read") /\ RollbackAndFail(p)

UpdateRoleRow(p) ==
    /\ pc[p] = "updateRole"
    /\ \/ /\ WriteRow(p, Write(req[p].role, roleRow[req[p].role]), "writeRole")
          /\ UNCHANGED <<tuples, upd>>
       \/ Fails(p, "row") /\ RollbackAndFail(p)

(* The single WriteRelationships of CreateRoleV2 and UpdateRoleV2.         *)
WriteRole(p) ==
    /\ pc[p] = "writeRole"
    /\ \/ /\ Up(p)
          /\ tuples' = (tuples \ upd[p].del) \cup upd[p].add
          /\ Goto(p, "commit")
          /\ UNCHANGED <<dbVars, issued, over, req, upd, zed, ans>>
       \/ Fails(p, "spice") /\ RollbackAndFail(p)
       \/ /\ "spiceLost" \in Failures /\ Up(p)
          /\ tuples' = (tuples \ upd[p].del) \cup upd[p].add
          /\ RollbackContext(p) /\ Return(p, "error")
          /\ UNCHANGED <<issued, over, req, upd, zed>>

(* DeleteRoleV2 is refused while a binding names the role; refusing it, or *)
(* failing to read, leaves the transaction open.                           *)
FindBindings(p) ==
    /\ pc[p] = "findBindings"
    /\ \/ /\ Up(p)
          /\ \A b \in BindingIDs : BindingRole(b, req[p].role) \notin tuples
          /\ Goto(p, "deleteRole")
          /\ UNCHANGED <<dbVars, issued, tuples, over, req, upd, zed, ans>>
       \/ /\ Up(p)
          /\ \E b \in BindingIDs : BindingRole(b, req[p].role) \in tuples
          /\ FailOpen(p)
       \/ Fails(p, "read") /\ FailOpen(p)

DeleteRoleRow(p) ==
    /\ pc[p] = "deleteRole"
    /\ \/ WriteRow(p, Write(req[p].role, None), "unlinkFrom") /\ UNCHANGED <<tuples, upd>>
       \/ Fails(p, "row") /\ RollbackAndFail(p)

(* 2.a and 2.b: both deletions are tried; an error of either is returned   *)
(* after both.  ans remembers it.                                          *)
Unlink(p, at, gone, next) ==
    /\ pc[p] = at
    /\ \/ Up(p) /\ tuples' = tuples \ gone /\ UNCHANGED ans
       \/ /\ Fails(p, "unlink")
          /\ ans' = [ans EXCEPT ![p] = "error"]
          /\ UNCHANGED tuples
    /\ Goto(p, next)
    /\ UNCHANGED <<dbVars, issued, over, req, upd, zed>>

UnlinkFrom(p) == Unlink(p, "unlinkFrom", FromRole(req[p].role), "unlinkTo")

(* mutant: the second deletion repeats the first one's filter              *)
UnlinkFromTwice(p) == Unlink(p, "unlinkTo", FromRole(req[p].role), "unlinked")

UnlinkTo(p)   == Unlink(p, "unlinkTo", ToRole(req[p].role), "unlinked")

(* mutant: the errors are collected and never looked at                   *)
UnlinkedAnyway(p) ==
    /\ pc[p] = "unlinked"
    /\ Goto(p, "commit")
    /\ UNCHANGED <<dbVars, issued, tuples, over, req, upd, zed, ans>>

Unlinked(p) ==
    /\ pc[p] = "unlinked"
    /\ \/ ans[p] = "error" /\ RollbackAndFail(p)
       \/ /\ ans[p] # "error"
          /\ Goto(p, "commit")
          /\ UNCHANGED <<dbVars, issued, tuples, over, req, upd, zed, ans>>

(* A failed commit is answered with the error; SpiceDB keeps its changes.  *)
CommitRole(p) ==
    /\ pc[p] = "commit" /\ req[p].op \in RoleOps
    /\ \/ /\ Up(p)
          /\ CommitContext(p) /\ Return(p, "ok")
          /\ UNCHANGED <<issued, tuples, over, req, upd, zed>>
       \/ Fails(p, "commit") /\ RollbackAndFail(p)
       \/ /\ "commitLost" \in Failures /\ Up(p)
          /\ CommitContext(p) /\ Return(p, "error")
          /\ UNCHANGED <<issued, tuples, over, req, upd, zed>>

RoleStep(p) ==
    \/ BeginRole(p) \/ InsertRole(p) \/ LockRole(p) \/ GetRoleForUpdate(p)
    \/ UpdateRoleRow(p) \/ WriteRole(p) \/ FindBindings(p) \/ DeleteRoleRow(p)
    \/ UnlinkFrom(p) \/ UnlinkTo(p) \/ Unlinked(p) \/ CommitRole(p)

=============================================================================
