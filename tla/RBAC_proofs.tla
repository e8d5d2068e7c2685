---------------------------- MODULE RBAC_proofs ----------------------------
(***************************************************************************)
(* What is proved of RBAC, for any number of requests, roles, bindings,    *)
(* resources, subjects and actions, and for every set of failures:         *)
(* the types, and that no binding ever names a role that was rolled back.  *)
(***************************************************************************)
EXTENDS RBAC, TLAPS

(* where a request is tells its operation                                  *)
OpAt ==
    \A p \in Procs :
      /\ pc[p] = "insertRole" => req[p].op = "CreateRole"
      /\ pc[p] = "writeRole" => req[p].op \in {"CreateRole", "UpdateRole"}
      /\ pc[p] = "lockRole" => req[p].op \in {"UpdateRole", "DeleteRole"}
      /\ pc[p] \in {"getRole", "updateRole"} => req[p].op = "UpdateRole"
      /\ pc[p] \in {"findBindings", "deleteRole", "unlinkFrom", "unlinkTo", "unlinked"}
            => req[p].op = "DeleteRole"
      /\ pc[p] \in {"bindable", "readRole", "insertBinding"} => req[p].op = "CreateBinding"
      /\ pc[p] = "lockBinding" => req[p].op \in {"UpdateBinding", "DeleteBinding"}
      /\ pc[p] \in {"getBinding", "touchBinding"} => req[p].op = "UpdateBinding"
      /\ pc[p] \in {"readFrom", "readTo", "deleteBinding"} => req[p].op = "DeleteBinding"
      /\ pc[p] \in {"apply", "zed"} => req[p].op \in BindingOps

(* the updates of a binding write a binding or its resource                *)
BindingUpdates ==
    \A p \in Procs : pc[p] \in {"readTo", "apply"} =>
        \A t \in upd[p].add \cup upd[p].del : t.rel \in {"role", "subject", "grant"}

(* a role that a binding names, or is about to name, was committed         *)
RolesBorn ==
    /\ \A r \in RoleIDs : roleRow[r] # None => r \in born
    /\ \A t \in tuples : t.rel = "role" => t.sub \in born
    /\ \A p \in Procs : \A t \in upd[p].add \cup upd[p].del : t.rel = "role" => t.sub \in born
    /\ \A p \in Procs : /\ pc[p] \in {"begin", "insertBinding"}
                        /\ req[p].op = "CreateBinding"
                        => req[p].role \in born

IInv == TypeOK /\ OpAt /\ BindingUpdates /\ RolesBorn

-----------------------------------------------------------------------------
(* The fields of a request, by its operation.                              *)
LEMMA RequestFields ==
    ASSUME NEW q \in Requests \cup {NoRequest}
    PROVE  /\ q.op \in RoleOps => q.role \in RoleIDs
           /\ q.op \in BindingOps => q.rb \in BindingIDs
           /\ q.op \in {"CreateRole", "CreateBinding"} => q.res \in Resources
           /\ q.op \in {"CreateRole", "UpdateRole"} => q.actions \subseteq Actions
           /\ q.op = "CreateBinding" => q.role \in RoleIDs
           /\ q.op \in {"CreateBinding", "UpdateBinding"} => q.subjects \subseteq Subjects
           /\ q.op \in RoleOps \cup BindingOps \cup {"none"}
BY DEF Requests, NoRequest, RoleOps, BindingOps

LEMMA TupleTypes ==
    /\ \A r \in RoleIDs, a \in Actions : RoleAction(r, a) \in Tuples
    /\ \A r \in RoleIDs, x \in Resources : RoleOwner(r, x) \in Tuples /\ MemberRole(x, r) \in Tuples
    /\ \A b \in BindingIDs, r \in RoleIDs : BindingRole(b, r) \in Tuples
    /\ \A b \in BindingIDs, s \in Subjects : BindingSubject(b, s) \in Tuples
    /\ \A b \in BindingIDs, x \in Resources : Grant(x, b) \in Tuples
BY DEF Tuples, RoleAction, RoleOwner, MemberRole, BindingRole, BindingSubject, Grant

(* The end of a transaction frees rows and nothing else.                   *)
LEMMA EndTxType ==
    ASSUME TypeOK, NEW p \in Procs, EndTx(p)
    PROVE  /\ tx' \subseteq Procs
           /\ pend' \in [Procs -> Writes \cup {None}]
           /\ lock' \in [RoleIDs \cup BindingIDs -> Procs \cup {None}]
           /\ zlock' \in [BindingIDs \cup Resources -> Procs \cup {None}]
BY DEF TypeOK, EndTx, Released

LEMMA InitInv == Init => IInv
<1> SUFFICES ASSUME Init PROVE IInv
  OBVIOUS
<1>1. TypeOK
  BY DEF Init, TypeOK, NoUpdate, Update, Labels
<1>2. OpAt /\ BindingUpdates /\ RolesBorn
  BY DEF Init, OpAt, BindingUpdates, RolesBorn, NoUpdate, Update
<1> QED BY <1>1, <1>2 DEF IInv

LEMMA RollbackAndFailInv == ASSUME IInv, NEW p \in Procs, RollbackAndFail(p) PROVE IInv'
<1>1. /\ EndTx(p) /\ pc' = [pc EXCEPT ![p] = "returned"] /\ ans' = [ans EXCEPT ![p] = "error"]
      /\ UNCHANGED <<roleRow, rbRow, born, issued, tuples, over, req, upd, zed>>
  BY DEF RollbackAndFail, RollbackContext, Return, Goto
<1>2. TypeOK'
  BY <1>1, EndTxType DEF IInv, TypeOK, Labels
<1>3. OpAt' /\ BindingUpdates' /\ RolesBorn'
  BY <1>1 DEF IInv, TypeOK, OpAt, BindingUpdates, RolesBorn
<1> QED BY <1>2, <1>3 DEF IInv

LEMMA FailOpenInv == ASSUME IInv, NEW p \in Procs, FailOpen(p) PROVE IInv'
<1>1. /\ pc' = [pc EXCEPT ![p] = "returned"] /\ ans' = [ans EXCEPT ![p] = "error"]
      /\ UNCHANGED <<dbVars, issued, tuples, over, req, upd, zed>>
  BY DEF FailOpen, Return, Goto
<1>2. TypeOK'
  BY <1>1 DEF IInv, TypeOK, Labels, dbVars
<1>3. OpAt' /\ BindingUpdates' /\ RolesBorn'
  BY <1>1 DEF IInv, TypeOK, OpAt, BindingUpdates, RolesBorn, dbVars
<1> QED BY <1>2, <1>3 DEF IInv

-----------------------------------------------------------------------------
(* The steps every request takes.                                          *)

LEMMA StartAtInv ==
    ASSUME IInv, NEW p \in Procs, NEW r \in Requests, NEW l \in {"begin", "bindable"},
           StartAt(p, r, l), issued' \subseteq RoleIDs \cup BindingIDs,
           r.op \in RoleOps \cup BindingOps, l = "bindable" <=> r.op = "CreateBinding"
    PROVE  IInv'
<1> USE DEF IInv
<1>1. /\ pc' = [pc EXCEPT ![p] = l] /\ req' = [req EXCEPT ![p] = r]
      /\ UNCHANGED <<dbVars, tuples, over, upd, zed, ans>>
  BY DEF StartAt, Goto
<1>2. TypeOK'
  BY <1>1 DEF TypeOK, dbVars, Labels
<1>3. OpAt' /\ BindingUpdates' /\ RolesBorn'
  BY <1>1 DEF TypeOK, OpAt, BindingUpdates, RolesBorn, dbVars
<1> QED BY <1>2, <1>3

LEMMA StartRoleInv == ASSUME IInv, NEW p \in Procs, StartRole(p) PROVE IInv'
<1>0. issued \subseteq RoleIDs \cup BindingIDs
  BY DEF IInv, TypeOK
<1>1. ASSUME NEW r \in RoleIDs \ issued, NEW x \in Resources, NEW acts \in SUBSET Actions,
             StartAt(p, [op |-> "CreateRole", role |-> r, res |-> x, actions |-> acts], "begin"),
             issued' = issued \cup {r}
      PROVE  IInv'
  <2> DEFINE q == [op |-> "CreateRole", role |-> r, res |-> x, actions |-> acts]
  <2>1. q \in Requests /\ q.op \in RoleOps /\ q.op # "CreateBinding"
    BY DEF Requests, RoleOps
  <2> QED BY <1>0, <1>1, <2>1, StartAtInv
<1>2. ASSUME NEW r \in RoleIDs, NEW n \in BOOLEAN, NEW acts \in SUBSET Actions, UNCHANGED issued,
             StartAt(p, [op |-> "UpdateRole", role |-> r, rename |-> n, actions |-> acts], "begin")
      PROVE  IInv'
  <2> DEFINE q == [op |-> "UpdateRole", role |-> r, rename |-> n, actions |-> acts]
  <2>1. q \in Requests /\ q.op \in RoleOps /\ q.op # "CreateBinding"
    BY DEF Requests, RoleOps
  <2> QED BY <1>0, <1>2, <2>1, StartAtInv
<1>3. ASSUME NEW r \in RoleIDs, StartAt(p, [op |-> "DeleteRole", role |-> r], "begin"),
             UNCHANGED issued
      PROVE  IInv'
  <2> DEFINE q == [op |-> "DeleteRole", role |-> r]
  <2>1. q \in Requests /\ q.op \in RoleOps /\ q.op # "CreateBinding"
    BY DEF Requests, RoleOps
  <2> QED BY <1>0, <1>3, <2>1, StartAtInv
<1> QED BY <1>1, <1>2, <1>3 DEF StartRole

LEMMA StartBindingInv == ASSUME IInv, NEW p \in Procs, StartBinding(p) PROVE IInv'
<1>0. issued \subseteq RoleIDs \cup BindingIDs
  BY DEF IInv, TypeOK
<1>1. ASSUME NEW b \in BindingIDs \ issued, NEW r \in RoleIDs, NEW x \in Resources,
             NEW subjs \in SUBSET Subjects,
             StartAt(p, [op |-> "CreateBinding", rb |-> b, role |-> r, res |-> x,
                         subjects |-> subjs], "bindable"),
             issued' = issued \cup {b}
      PROVE  IInv'
  <2> DEFINE q == [op |-> "CreateBinding", rb |-> b, role |-> r, res |-> x, subjects |-> subjs]
  <2>1. q \in Requests /\ q.op \in BindingOps /\ q.op = "CreateBinding"
    BY DEF Requests, BindingOps
  <2> QED BY <1>0, <1>1, <2>1, StartAtInv
<1>2. ASSUME NEW b \in BindingIDs, NEW subjs \in SUBSET Subjects, UNCHANGED issued,
             StartAt(p, [op |-> "UpdateBinding", rb |-> b, subjects |-> subjs], "begin")
      PROVE  IInv'
  <2> DEFINE q == [op |-> "UpdateBinding", rb |-> b, subjects |-> subjs]
  <2>1. q \in Requests /\ q.op \in BindingOps /\ q.op # "CreateBinding"
    BY DEF Requests, BindingOps
  <2> QED BY <1>0, <1>2, <2>1, StartAtInv
<1>3. ASSUME NEW b \in BindingIDs, StartAt(p, [op |-> "DeleteBinding", rb |-> b], "begin"),
             UNCHANGED issued
      PROVE  IInv'
  <2> DEFINE q == [op |-> "DeleteBinding", rb |-> b]
  <2>1. q \in Requests /\ q.op \in BindingOps /\ q.op # "CreateBinding"
    BY DEF Requests, BindingOps
  <2> QED BY <1>0, <1>3, <2>1, StartAtInv
<1> QED BY <1>1, <1>2, <1>3 DEF StartBinding

(* Beginning a transaction leads to a step of the request's own operation. *)
LEMMA BeginInv ==
    ASSUME IInv, NEW p \in Procs, NEW l \in Labels, Begin(p, l),
           \/ l = "insertRole" /\ req[p].op = "CreateRole"
           \/ l = "lockRole" /\ req[p].op \in {"UpdateRole", "DeleteRole"}
           \/ l = "insertBinding" /\ req[p].op = "CreateBinding"
           \/ l = "lockBinding" /\ req[p].op \in {"UpdateBinding", "DeleteBinding"}
    PROVE  IInv'
<1> USE DEF IInv
<1>1. PICK m \in {l, "returned"} :
        /\ pc[p] = "begin" /\ pc' = [pc EXCEPT ![p] = m]
        /\ tx' \subseteq Procs /\ ans' \in [Procs -> {"none", "ok", "error"}]
        /\ UNCHANGED <<roleRow, rbRow, born, pend, lock, zlock, issued, tuples, over, req, upd, zed>>
  BY DEF Begin, Goto, Return, TypeOK
<1>2. TypeOK'
  BY <1>1 DEF TypeOK, Labels
<1>3. OpAt' /\ BindingUpdates' /\ RolesBorn'
  BY <1>1 DEF TypeOK, OpAt, BindingUpdates, RolesBorn
<1> QED BY <1>2, <1>3

LEMMA BeginRoleInv == ASSUME IInv, NEW p \in Procs, BeginRole(p) PROVE IInv'
BY BeginInv DEF BeginRole, RoleOps, Labels

LEMMA BeginBindingInv == ASSUME IInv, NEW p \in Procs, BeginBinding(p) PROVE IInv'
BY BeginInv DEF BeginBinding, BindingOps, Labels

LEMMA RequestEndInv == ASSUME IInv, NEW p \in Procs, RequestEnd(p) PROVE IInv'
<1> USE DEF IInv
<1>1. /\ EndTx(p) /\ pc' = [pc EXCEPT ![p] = "idle"] /\ req' = [req EXCEPT ![p] = NoRequest]
      /\ upd' = [upd EXCEPT ![p] = NoUpdate] /\ zed' = [zed EXCEPT ![p] = {}]
      /\ ans' = [ans EXCEPT ![p] = "none"] /\ over' = over \ {p}
      /\ UNCHANGED <<roleRow, rbRow, born, issued, tuples>>
  BY DEF RequestEnd, RollbackContext, Goto
<1>2. TypeOK'
  BY <1>1, EndTxType DEF TypeOK, Labels, NoUpdate, Update
<1>3. OpAt' /\ BindingUpdates' /\ RolesBorn'
  BY <1>1 DEF TypeOK, OpAt, BindingUpdates, RolesBorn, NoUpdate, Update
<1> QED BY <1>2, <1>3

LEMMA CancelInv == ASSUME IInv, NEW p \in Procs, Cancel(p) PROVE IInv'
BY DEF IInv, Cancel, TypeOK, OpAt, BindingUpdates, RolesBorn, dbVars, procVars

LEMMA AbortTxInv == ASSUME IInv, NEW p \in Procs, AbortTx(p) PROVE IInv'
<1>1. EndTx(p) /\ UNCHANGED <<roleRow, rbRow, born, issued, tuples, over, pc, req, upd, zed, ans>>
  BY DEF AbortTx, RollbackContext, procVars
<1>2. TypeOK'
  BY <1>1, EndTxType DEF IInv, TypeOK
<1>3. OpAt' /\ BindingUpdates' /\ RolesBorn'
  BY <1>1 DEF IInv, OpAt, BindingUpdates, RolesBorn
<1> QED BY <1>2, <1>3 DEF IInv

(* A step of p that changes its place and the updates it is to write, from *)
(* what SpiceDB holds, and leaves both stores alone.                       *)
LEMMA MoveInv ==
    ASSUME IInv, NEW p \in Procs, NEW l \in Labels, NEW u \in [add : SUBSET Tuples, del : SUBSET Tuples],
           pc' = [pc EXCEPT ![p] = l], upd' = [upd EXCEPT ![p] = u],
           UNCHANGED <<dbVars, issued, tuples, over, req, zed>>,
           ans' \in [Procs -> {"none", "ok", "error"}],
           OpAt', BindingUpdates',
           \A t \in u.add \cup u.del : t.rel = "role" => t.sub \in born,
           l \in {"begin", "insertBinding"} /\ req[p].op = "CreateBinding" => req[p].role \in born
    PROVE  IInv'
<1>1. TypeOK'
  BY DEF IInv, TypeOK, dbVars
<1>2. RolesBorn'
  BY DEF IInv, TypeOK, RolesBorn, dbVars
<1> QED BY <1>1, <1>2 DEF IInv

(* ... or not even those updates.                                          *)
LEMMA StepInv ==
    ASSUME IInv, NEW p \in Procs, NEW l \in Labels,
           pc' = [pc EXCEPT ![p] = l], UNCHANGED <<dbVars, issued, tuples, over, req, upd, zed>>,
           ans' \in [Procs -> {"none", "ok", "error"}],
           OpAt', l \notin {"readTo", "apply"},
           l \in {"begin", "insertBinding"} /\ req[p].op = "CreateBinding" => req[p].role \in born
    PROVE  IInv'
<1>1. upd[p] \in [add : SUBSET Tuples, del : SUBSET Tuples] /\ upd' = [upd EXCEPT ![p] = upd[p]]
  BY DEF IInv, TypeOK
<1>2. \A t \in upd[p].add \cup upd[p].del : t.rel = "role" => t.sub \in born
  BY DEF IInv, RolesBorn
<1>3. BindingUpdates'
  BY DEF IInv, TypeOK, BindingUpdates
<1> QED BY <1>1, <1>2, <1>3, MoveInv

-----------------------------------------------------------------------------
(* Locking, writing and committing a row.                                  *)

LEMMA LockForUpdateInv ==
    ASSUME IInv, NEW p \in Procs, NEW id \in RoleIDs \cup BindingIDs, NEW present \in BOOLEAN,
           NEW l \in Labels \ {"begin", "insertBinding", "readTo", "apply"},
           LockForUpdate(p, id, present, l),
           pc' = [pc EXCEPT ![p] = l] /\ UNCHANGED req => OpAt'
    PROVE  IInv'
<1> USE DEF IInv
<1>1. CASE RollbackAndFail(p)
  BY <1>1, RollbackAndFailInv
<1>2. CASE /\ lock' = [lock EXCEPT ![id] = p] /\ pc' = [pc EXCEPT ![p] = l]
           /\ UNCHANGED <<roleRow, rbRow, born, tx, pend, zlock, issued, tuples, over, req, upd, zed, ans>>
  <2>1. TypeOK'
    BY <1>2 DEF TypeOK
  <2>2. OpAt' /\ BindingUpdates' /\ RolesBorn'
    BY <1>2 DEF TypeOK, BindingUpdates, RolesBorn
  <2> QED BY <2>1, <2>2
<1> QED BY <1>1, <1>2 DEF LockForUpdate, Goto

LEMMA WriteRowInv ==
    ASSUME IInv, NEW p \in Procs, NEW w \in Writes,
           NEW u \in [add : SUBSET Tuples, del : SUBSET Tuples],
           NEW l \in Labels \ {"begin", "insertBinding"},
           WriteRow(p, w, l), UNCHANGED tuples, upd' = [upd EXCEPT ![p] = u],
           OpAt', BindingUpdates',
           \A t \in u.add \cup u.del : t.rel = "role" => t.sub \in born
    PROVE  IInv'
<1> USE DEF IInv
<1>1. /\ pend' = [pend EXCEPT ![p] = w] /\ lock' = [lock EXCEPT ![w.id] = p]
      /\ pc' = [pc EXCEPT ![p] = l]
      /\ UNCHANGED <<roleRow, rbRow, born, tx, zlock, issued, tuples, over, req, zed, ans>>
  BY DEF WriteRow, Goto
<1>2. TypeOK'
  BY <1>1 DEF TypeOK, Writes
<1>3. RolesBorn'
  BY <1>1 DEF TypeOK, RolesBorn
<1> QED BY <1>2, <1>3

(* A commit adds to born the identifier whose row it creates.              *)
LEMMA CommitInv ==
    ASSUME IInv, NEW p \in Procs, CommitContext(p), NEW l \in {"returned", "undo"},
           pc' = [pc EXCEPT ![p] = l], ans' \in [Procs -> {"none", "ok", "error"}],
           UNCHANGED <<issued, tuples, over, req, upd, zed>>
    PROVE  IInv'
<1> USE DEF IInv
<1>1. EndTx(p) /\ ApplyWrite(p)
  BY DEF CommitContext
<1>2. pend[p] # None => pend[p] \in Writes
  BY DEF TypeOK
<1>3. /\ roleRow' \in [RoleIDs -> Resources \cup {None}]
      /\ rbRow' \in [BindingIDs -> Resources \cup {None}]
      /\ born \subseteq born' /\ born' \subseteq RoleIDs \cup BindingIDs
      /\ \A r \in RoleIDs : roleRow'[r] # None => r \in born'
  BY <1>1, <1>2 DEF ApplyWrite, TypeOK, Writes, RolesBorn
<1>4. TypeOK'
  BY <1>1, <1>3, EndTxType DEF TypeOK, Labels
<1>5. OpAt' /\ BindingUpdates'
  BY DEF TypeOK, OpAt, BindingUpdates
<1>6. RolesBorn'
  <2>1. \A t \in tuples : t.rel = "role" => t.sub \in born'
    BY <1>3 DEF RolesBorn
  <2>2. \A q \in Procs : \A t \in upd[q].add \cup upd[q].del : t.rel = "role" => t.sub \in born'
    BY <1>3 DEF RolesBorn
  <2>3. \A q \in Procs : pc'[q] \in {"begin", "insertBinding"} => pc'[q] = pc[q]
    BY DEF TypeOK
  <2>4. \A q \in Procs : pc'[q] \in {"begin", "insertBinding"} /\ req[q].op = "CreateBinding"
            => req[q].role \in born'
    BY <1>3, <2>3 DEF RolesBorn
  <2> QED BY <1>3, <2>1, <2>2, <2>4 DEF RolesBorn
<1> QED BY <1>4, <1>5, <1>6

(* Writing to SpiceDB an update of p's list, or its inverse, or removing   *)
(* tuples, keeps the roles that bindings name.                             *)
LEMMA TuplesKept ==
    ASSUME IInv, NEW p \in Procs,
           \/ tuples' = (tuples \ upd[p].del) \cup upd[p].add
           \/ tuples' = (tuples \ upd[p].add) \cup upd[p].del
           \/ tuples' \subseteq tuples
    PROVE  tuples' \subseteq Tuples /\ \A t \in tuples' : t.rel = "role" => t.sub \in born
<1>1. upd[p].add \subseteq Tuples /\ upd[p].del \subseteq Tuples /\ tuples \subseteq Tuples
  BY DEF IInv, TypeOK
<1>2. \A t \in tuples \cup upd[p].add \cup upd[p].del : t.rel = "role" => t.sub \in born
  BY DEF IInv, RolesBorn
<1> QED BY <1>1, <1>2

LEMMA SpiceWriteInv ==
    ASSUME IInv, NEW p \in Procs, NEW l \in Labels \ {"begin", "insertBinding", "readTo", "apply"},
           NEW z \in SUBSET (BindingIDs \cup Resources),
           \/ tuples' = (tuples \ upd[p].del) \cup upd[p].add
           \/ tuples' = (tuples \ upd[p].add) \cup upd[p].del
           \/ tuples' \subseteq tuples,
           \/ UNCHANGED dbVars
           \/ RollbackContext(p),
           pc' = [pc EXCEPT ![p] = l], zed' = [zed EXCEPT ![p] = z],
           ans' \in [Procs -> {"none", "ok", "error"}], OpAt',
           UNCHANGED <<issued, over, req, upd>>
    PROVE  IInv'
<1> USE DEF IInv
<1>1. /\ UNCHANGED <<roleRow, rbRow, born>>
      /\ tx' \subseteq Procs
      /\ pend' \in [Procs -> Writes \cup {None}]
      /\ lock' \in [RoleIDs \cup BindingIDs -> Procs \cup {None}]
      /\ zlock' \in [BindingIDs \cup Resources -> Procs \cup {None}]
  BY EndTxType DEF RollbackContext, dbVars, TypeOK
<1>2. tuples' \subseteq Tuples /\ \A t \in tuples' : t.rel = "role" => t.sub \in born
  BY TuplesKept
<1>3. TypeOK'
  BY <1>1, <1>2 DEF TypeOK
<1>4. BindingUpdates' /\ RolesBorn'
  BY <1>1, <1>2 DEF TypeOK, BindingUpdates, RolesBorn
<1> QED BY <1>3, <1>4

-----------------------------------------------------------------------------
(* The steps of a role operation.                                          *)

LEMMA RoleTupleTypes ==
    ASSUME NEW r \in RoleIDs, NEW x \in Resources, NEW acts \in SUBSET Actions
    PROVE  RoleTuples(r, x, acts) \subseteq Tuples /\ \A t \in RoleTuples(r, x, acts) : t.rel # "role"
<1>1. \A a \in acts : RoleAction(r, a) \in Tuples /\ RoleAction(r, a).rel # "role"
  BY TupleTypes DEF RoleAction
<1>2. /\ RoleOwner(r, x) \in Tuples /\ RoleOwner(r, x).rel # "role"
      /\ MemberRole(x, r) \in Tuples /\ MemberRole(x, r).rel # "role"
  BY TupleTypes DEF RoleOwner, MemberRole
<1> QED BY <1>1, <1>2 DEF RoleTuples

LEMMA RoleDiffTypes ==
    ASSUME NEW r \in RoleIDs, NEW acts \in SUBSET Actions
    PROVE  /\ RoleDiff(r, acts) \in [add : SUBSET Tuples, del : SUBSET Tuples]
           /\ \A t \in RoleDiff(r, acts).add \cup RoleDiff(r, acts).del : t.rel # "role"
<1> DEFINE A == {RoleAction(r, a) : a \in acts \ ActionsOf(r)}
           D == {RoleAction(r, a) : a \in ActionsOf(r) \ acts}
<1>1. \A a \in Actions : RoleAction(r, a) \in Tuples /\ RoleAction(r, a).rel # "role"
  BY TupleTypes DEF RoleAction
<1>2. A \subseteq Tuples /\ D \subseteq Tuples /\ \A t \in A \cup D : t.rel # "role"
  BY <1>1 DEF ActionsOf
<1> QED BY <1>2 DEF RoleDiff, NoUpdate, Update

LEMMA InsertRoleInv == ASSUME IInv, NEW p \in Procs, InsertRole(p) PROVE IInv'
<1>1. CASE RollbackAndFail(p)
  BY <1>1, RollbackAndFailInv
<1>2. CASE /\ WriteRow(p, Write(req[p].role, req[p].res), "writeRole")
           /\ upd' = [upd EXCEPT ![p] =
                         Update(RoleTuples(req[p].role, req[p].res, req[p].actions), {})]
           /\ UNCHANGED tuples
  <2> DEFINE u == Update(RoleTuples(req[p].role, req[p].res, req[p].actions), {})
  <2>1. req[p].op = "CreateRole" /\ req[p] \in Requests \cup {NoRequest}
    BY DEF InsertRole, IInv, OpAt, TypeOK
  <2>2. req[p].role \in RoleIDs /\ req[p].res \in Resources /\ req[p].actions \subseteq Actions
    BY <2>1, RequestFields DEF RoleOps
  <2>3. Write(req[p].role, req[p].res) \in Writes
    BY <2>2 DEF Write, Writes
  <2>4. u \in [add : SUBSET Tuples, del : SUBSET Tuples] /\ \A t \in u.add \cup u.del : t.rel # "role"
    BY <2>2, RoleTupleTypes DEF Update
  <2>5. OpAt' /\ BindingUpdates'
    BY <1>2, <2>1 DEF WriteRow, Goto, IInv, TypeOK, OpAt, BindingUpdates
  <2> QED BY <1>2, <2>3, <2>4, <2>5, WriteRowInv DEF Labels
<1> QED BY <1>1, <1>2 DEF InsertRole

LEMMA LockRoleInv == ASSUME IInv, NEW p \in Procs, LockRole(p) PROVE IInv'
<1> DEFINE l == IF req[p].op = "UpdateRole" THEN "getRole" ELSE "findBindings"
<1>1. req[p].op \in {"UpdateRole", "DeleteRole"} /\ req[p] \in Requests \cup {NoRequest}
  BY DEF LockRole, IInv, OpAt, TypeOK
<1>2. req[p].role \in RoleIDs
  BY <1>1, RequestFields DEF RoleOps
<1>3. l \in Labels \ {"begin", "insertBinding", "readTo", "apply"}
  BY DEF Labels
<1>4. ASSUME pc' = [pc EXCEPT ![p] = l], UNCHANGED req PROVE OpAt'
  BY <1>1, <1>4 DEF IInv, TypeOK, OpAt
<1> QED BY <1>2, <1>3, <1>4, LockForUpdateInv DEF LockRole

LEMMA GetRoleForUpdateInv == ASSUME IInv, NEW p \in Procs, GetRoleForUpdate(p) PROVE IInv'
<1>1. CASE RollbackAndFail(p)
  BY <1>1, RollbackAndFailInv
<1> DEFINE u == RoleDiff(req[p].role, req[p].actions)
           l == IF u = NoUpdate /\ ~req[p].rename THEN "commit" ELSE "updateRole"
<1>2. CASE /\ Goto(p, l) /\ upd' = [upd EXCEPT ![p] = u]
           /\ UNCHANGED <<dbVars, issued, tuples, over, req, zed, ans>>
  <2>1. req[p].op = "UpdateRole" /\ req[p] \in Requests \cup {NoRequest}
    BY DEF GetRoleForUpdate, IInv, OpAt, TypeOK
  <2>2. req[p].role \in RoleIDs /\ req[p].actions \subseteq Actions
    BY <2>1, RequestFields DEF RoleOps
  <2>3. /\ u \in [add : SUBSET Tuples, del : SUBSET Tuples]
        /\ \A t \in u.add \cup u.del : t.rel # "role"
    BY <2>2, RoleDiffTypes
  <2> HIDE DEF u
  <2>4. l \in {"commit", "updateRole"} /\ l \in Labels
    BY DEF Labels
  <2> HIDE DEF l
  <2>5. OpAt' /\ BindingUpdates'
    BY <1>2, <2>1, <2>4 DEF Goto, IInv, TypeOK, OpAt, BindingUpdates
  <2>6. ans' \in [Procs -> {"none", "ok", "error"}]
    BY <1>2 DEF IInv, TypeOK
  <2> QED BY <1>2, <2>3, <2>4, <2>5, <2>6, MoveInv DEF Goto
<1> QED BY <1>1, <1>2 DEF GetRoleForUpdate

(* The write of a row by an operation that leaves its updates alone.       *)
LEMMA RowInv ==
    ASSUME IInv, NEW p \in Procs, NEW w \in Writes,
           NEW l \in Labels \ {"begin", "insertBinding", "readTo", "apply"},
           WriteRow(p, w, l), UNCHANGED <<tuples, upd>>, OpAt'
    PROVE  IInv'
<1>1. upd[p] \in [add : SUBSET Tuples, del : SUBSET Tuples] /\ upd' = [upd EXCEPT ![p] = upd[p]]
  BY DEF IInv, TypeOK
<1>2. \A t \in upd[p].add \cup upd[p].del : t.rel = "role" => t.sub \in born
  BY DEF IInv, RolesBorn
<1>3. BindingUpdates'
  BY DEF WriteRow, Goto, IInv, TypeOK, BindingUpdates
<1> QED BY <1>1, <1>2, <1>3, WriteRowInv

LEMMA UpdateRoleRowInv == ASSUME IInv, NEW p \in Procs, UpdateRoleRow(p) PROVE IInv'
<1>1. CASE RollbackAndFail(p)
  BY <1>1, RollbackAndFailInv
<1>2. CASE WriteRow(p, Write(req[p].role, roleRow[req[p].role]), "writeRole") /\ UNCHANGED <<tuples, upd>>
  <2>1. req[p].op = "UpdateRole" /\ req[p].role \in RoleIDs
    BY RequestFields DEF UpdateRoleRow, IInv, OpAt, TypeOK, RoleOps
  <2>2. Write(req[p].role, roleRow[req[p].role]) \in Writes
    BY <2>1 DEF IInv, TypeOK, Write, Writes
  <2>3. OpAt'
    BY <1>2, <2>1 DEF WriteRow, Goto, IInv, TypeOK, OpAt
  <2> QED BY <1>2, <2>2, <2>3, RowInv DEF Labels
<1> QED BY <1>1, <1>2 DEF UpdateRoleRow

LEMMA DeleteRoleRowInv == ASSUME IInv, NEW p \in Procs, DeleteRoleRow(p) PROVE IInv'
<1>1. CASE RollbackAndFail(p)
  BY <1>1, RollbackAndFailInv
<1>2. CASE WriteRow(p, Write(req[p].role, None), "unlinkFrom") /\ UNCHANGED <<tuples, upd>>
  <2>1. req[p].op = "DeleteRole" /\ req[p].role \in RoleIDs
    BY RequestFields DEF DeleteRoleRow, IInv, OpAt, TypeOK, RoleOps
  <2>2. Write(req[p].role, None) \in Writes
    BY <2>1 DEF Write, Writes
  <2>3. OpAt'
    BY <1>2, <2>1 DEF WriteRow, Goto, IInv, TypeOK, OpAt
  <2> QED BY <1>2, <2>2, <2>3, RowInv DEF Labels
<1> QED BY <1>1, <1>2 DEF DeleteRoleRow

LEMMA WriteRoleInv == ASSUME IInv, NEW p \in Procs, WriteRole(p) PROVE IInv'
<1>1. CASE RollbackAndFail(p)
  BY <1>1, RollbackAndFailInv
<1>2. ASSUME NEW l \in {"commit", "returned"}, pc' = [pc EXCEPT ![p] = l],
             tuples' = (tuples \ upd[p].del) \cup upd[p].add,
             UNCHANGED dbVars \/ RollbackContext(p),
             ans' \in [Procs -> {"none", "ok", "error"}], UNCHANGED <<issued, over, req, upd, zed>>
      PROVE  IInv'
  <2>1. OpAt'
    BY <1>2 DEF IInv, TypeOK, OpAt
  <2>2. zed' = [zed EXCEPT ![p] = zed[p]] /\ zed[p] \in SUBSET (BindingIDs \cup Resources)
    BY <1>2 DEF IInv, TypeOK
  <2> QED BY <1>2, <2>1, <2>2, SpiceWriteInv DEF Labels
<1>3. ans \in [Procs -> {"none", "ok", "error"}]
      /\ [ans EXCEPT ![p] = "error"] \in [Procs -> {"none", "ok", "error"}]
  BY DEF IInv, TypeOK
<1> QED BY <1>1, <1>2, <1>3 DEF WriteRole, Goto, Return

LEMMA FindBindingsInv == ASSUME IInv, NEW p \in Procs, FindBindings(p) PROVE IInv'
<1>1. CASE FailOpen(p)
  BY <1>1, FailOpenInv
<1>2. CASE Goto(p, "deleteRole") /\ UNCHANGED <<dbVars, issued, tuples, over, req, upd, zed, ans>>
  <2>1. OpAt' /\ ans' \in [Procs -> {"none", "ok", "error"}]
    BY <1>2 DEF FindBindings, Goto, IInv, TypeOK, OpAt
  <2> QED BY <1>2, <2>1, StepInv DEF Goto, Labels
<1> QED BY <1>1, <1>2 DEF FindBindings

LEMMA UnlinkInv == ASSUME IInv, NEW p \in Procs, UnlinkFrom(p) \/ UnlinkTo(p) PROVE IInv'
<1>1. PICK l \in {"unlinkTo", "unlinked"} :
        /\ pc' = [pc EXCEPT ![p] = l] /\ pc[p] \in {"unlinkFrom", "unlinkTo"}
        /\ tuples' \subseteq tuples /\ ans' \in [Procs -> {"none", "ok", "error"}]
        /\ UNCHANGED <<dbVars, issued, over, req, upd, zed>>
  BY DEF UnlinkFrom, UnlinkTo, Unlink, Goto, IInv, TypeOK
<1>2. OpAt'
  BY <1>1 DEF IInv, TypeOK, OpAt
<1>3. zed' = [zed EXCEPT ![p] = zed[p]] /\ zed[p] \in SUBSET (BindingIDs \cup Resources)
  BY <1>1 DEF IInv, TypeOK
<1> QED BY <1>1, <1>2, <1>3, SpiceWriteInv DEF Labels

LEMMA UnlinkedInv == ASSUME IInv, NEW p \in Procs, Unlinked(p) PROVE IInv'
<1>1. CASE RollbackAndFail(p)
  BY <1>1, RollbackAndFailInv
<1>2. CASE Goto(p, "commit") /\ UNCHANGED <<dbVars, issued, tuples, over, req, upd, zed, ans>>
  <2>1. OpAt' /\ ans' \in [Procs -> {"none", "ok", "error"}]
    BY <1>2 DEF Goto, IInv, TypeOK, OpAt
  <2> QED BY <1>2, <2>1, StepInv DEF Goto, Labels
<1> QED BY <1>1, <1>2 DEF Unlinked

LEMMA CommitRoleInv == ASSUME IInv, NEW p \in Procs, CommitRole(p) PROVE IInv'
<1>1. CASE RollbackAndFail(p)
  BY <1>1, RollbackAndFailInv
<1>2. ASSUME NEW a \in {"ok", "error"}, CommitContext(p), Return(p, a),
             UNCHANGED <<issued, tuples, over, req, upd, zed>>
      PROVE  IInv'
  <2>1. ans' \in [Procs -> {"none", "ok", "error"}]
    BY <1>2 DEF Return, IInv, TypeOK
  <2> QED BY <1>2, <2>1, CommitInv DEF Return, Goto
<1> QED BY <1>1, <1>2 DEF CommitRole

LEMMA RoleStepInv == ASSUME IInv, NEW p \in Procs, RoleStep(p) PROVE IInv'
BY BeginRoleInv, InsertRoleInv, LockRoleInv, GetRoleForUpdateInv, UpdateRoleRowInv, WriteRoleInv,
   FindBindingsInv, DeleteRoleRowInv, UnlinkInv, UnlinkedInv, CommitRoleInv DEF RoleStep

-----------------------------------------------------------------------------
(* The steps of a binding operation.                                       *)

LEMMA BindingTupleTypes ==
    ASSUME NEW b \in BindingIDs, NEW r \in RoleIDs, NEW x \in Resources,
           NEW subjs \in SUBSET Subjects
    PROVE  /\ BindingTuples(b, r, x, subjs) \subseteq Tuples
           /\ \A t \in BindingTuples(b, r, x, subjs) :
                 t.rel \in {"role", "subject", "grant"} /\ (t.rel = "role" => t.sub = r)
<1>1. \A s \in subjs : BindingSubject(b, s) \in Tuples /\ BindingSubject(b, s).rel = "subject"
  BY TupleTypes DEF BindingSubject
<1>2. /\ BindingRole(b, r) \in Tuples /\ BindingRole(b, r).rel = "role" /\ BindingRole(b, r).sub = r
      /\ Grant(x, b) \in Tuples /\ Grant(x, b).rel = "grant"
  BY TupleTypes DEF BindingRole, Grant
<1> QED BY <1>1, <1>2 DEF BindingTuples

LEMMA SubjectDiffTypes ==
    ASSUME NEW b \in BindingIDs, NEW subjs \in SUBSET Subjects
    PROVE  /\ SubjectDiff(b, subjs) \in [add : SUBSET Tuples, del : SUBSET Tuples]
           /\ \A t \in SubjectDiff(b, subjs).add \cup SubjectDiff(b, subjs).del : t.rel = "subject"
<1> DEFINE A == {BindingSubject(b, s) : s \in subjs \ SubjectsOf(b)}
           D == {BindingSubject(b, s) : s \in SubjectsOf(b) \ subjs}
<1>1. \A s \in Subjects : BindingSubject(b, s) \in Tuples /\ BindingSubject(b, s).rel = "subject"
  BY TupleTypes DEF BindingSubject
<1>2. A \subseteq Tuples /\ D \subseteq Tuples /\ \A t \in A \cup D : t.rel = "subject"
  BY <1>1 DEF SubjectsOf
<1> QED BY <1>2 DEF SubjectDiff, Update

LEMMA CheckBindableInv == ASSUME IInv, NEW p \in Procs, CheckBindable(p) PROVE IInv'
<1>1. CASE FailOpen(p)
  BY <1>1, FailOpenInv
<1>2. CASE Goto(p, "readRole") /\ UNCHANGED <<dbVars, issued, tuples, over, req, upd, zed, ans>>
  <2>1. OpAt' /\ ans' \in [Procs -> {"none", "ok", "error"}]
    BY <1>2 DEF CheckBindable, Goto, IInv, TypeOK, OpAt
  <2> QED BY <1>2, <2>1, StepInv DEF Goto, Labels
<1> QED BY <1>1, <1>2 DEF CheckBindable

(* The role's row exists, so it was committed, at some time.               *)
LEMMA ReadRoleInv == ASSUME IInv, NEW p \in Procs, ReadRole(p) PROVE IInv'
<1>1. CASE FailOpen(p)
  BY <1>1, FailOpenInv
<1>2. CASE /\ roleRow[req[p].role] # None /\ Goto(p, "begin")
           /\ UNCHANGED <<dbVars, issued, tuples, over, req, upd, zed, ans>>
  <2>1. req[p].op = "CreateBinding" /\ req[p].role \in RoleIDs
    BY RequestFields DEF ReadRole, IInv, TypeOK, OpAt
  <2>2. req[p].role \in born
    BY <1>2, <2>1 DEF IInv, RolesBorn
  <2>3. OpAt' /\ ans' \in [Procs -> {"none", "ok", "error"}]
    BY <1>2 DEF Goto, IInv, TypeOK, OpAt
  <2> QED BY <1>2, <2>2, <2>3, StepInv DEF Goto, Labels
<1> QED BY <1>1, <1>2 DEF ReadRole, RoleFound

LEMMA InsertBindingInv == ASSUME IInv, NEW p \in Procs, InsertBinding(p) PROVE IInv'
<1>1. CASE RollbackAndFail(p)
  BY <1>1, RollbackAndFailInv
<1> DEFINE u == Update(BindingTuples(req[p].rb, req[p].role, req[p].res, req[p].subjects), {})
<1>2. CASE /\ WriteRow(p, Write(req[p].rb, req[p].res), "apply")
           /\ upd' = [upd EXCEPT ![p] = u] /\ UNCHANGED tuples
  <2>1. /\ req[p].op = "CreateBinding" /\ req[p] \in Requests \cup {NoRequest}
        /\ req[p].role \in born
    BY DEF InsertBinding, IInv, OpAt, TypeOK, RolesBorn
  <2>2. /\ req[p].rb \in BindingIDs /\ req[p].res \in Resources /\ req[p].role \in RoleIDs
        /\ req[p].subjects \in SUBSET Subjects
    BY <2>1, RequestFields DEF BindingOps
  <2>3. Write(req[p].rb, req[p].res) \in Writes
    BY <2>2 DEF Write, Writes
  <2>4. /\ u \in [add : SUBSET Tuples, del : SUBSET Tuples]
        /\ \A t \in u.add \cup u.del :
              t.rel \in {"role", "subject", "grant"} /\ (t.rel = "role" => t.sub \in born)
    BY <2>1, <2>2, BindingTupleTypes DEF Update
  <2> HIDE DEF u
  <2>5. OpAt' /\ BindingUpdates'
    BY <1>2, <2>1, <2>4 DEF WriteRow, Goto, IInv, TypeOK, OpAt, BindingUpdates, BindingOps
  <2> QED BY <1>2, <2>3, <2>4, <2>5, WriteRowInv DEF Labels
<1> QED BY <1>1, <1>2 DEF InsertBinding

LEMMA LockBindingInv == ASSUME IInv, NEW p \in Procs, LockBinding(p) PROVE IInv'
<1> DEFINE l == IF req[p].op = "UpdateBinding" THEN "getBinding" ELSE "readFrom"
<1>1. req[p].op \in {"UpdateBinding", "DeleteBinding"} /\ req[p] \in Requests \cup {NoRequest}
  BY DEF LockBinding, IInv, OpAt, TypeOK
<1>2. req[p].rb \in BindingIDs
  BY <1>1, RequestFields DEF BindingOps
<1>3. l \in Labels \ {"begin", "insertBinding", "readTo", "apply"}
  BY DEF Labels
<1>4. ASSUME pc' = [pc EXCEPT ![p] = l], UNCHANGED req PROVE OpAt'
  BY <1>1, <1>4 DEF IInv, TypeOK, OpAt
<1> QED BY <1>2, <1>3, <1>4, LockForUpdateInv DEF LockBinding

LEMMA GetBindingForUpdateInv == ASSUME IInv, NEW p \in Procs, GetBindingForUpdate(p) PROVE IInv'
<1>0. req[p].op = "UpdateBinding" /\ req[p] \in Requests \cup {NoRequest}
  BY DEF GetBindingForUpdate, IInv, OpAt, TypeOK
<1>1. CASE RollbackAndFail(p)
  BY <1>1, RollbackAndFailInv
<1> DEFINE u == SubjectDiff(req[p].rb, req[p].subjects)
<1>2. CASE /\ Goto(p, "apply") /\ upd' = [upd EXCEPT ![p] = u]
           /\ UNCHANGED <<dbVars, issued, tuples, over, req, zed, ans>>
  <2>1. req[p].rb \in BindingIDs /\ req[p].subjects \in SUBSET Subjects
    BY <1>0, RequestFields DEF BindingOps
  <2>2. /\ u \in [add : SUBSET Tuples, del : SUBSET Tuples]
        /\ \A t \in u.add \cup u.del : t.rel = "subject"
    BY <2>1, SubjectDiffTypes
  <2> HIDE DEF u
  <2>3. OpAt' /\ BindingUpdates' /\ ans' \in [Procs -> {"none", "ok", "error"}]
    BY <1>0, <1>2, <2>2 DEF Goto, IInv, TypeOK, OpAt, BindingUpdates, BindingOps
  <2> QED BY <1>2, <2>2, <2>3, MoveInv DEF Goto, Labels
<1>3. CASE Return(p, "ok") /\ UNCHANGED <<dbVars, issued, tuples, over, req, upd, zed>>
  <2>1. OpAt' /\ ans' \in [Procs -> {"none", "ok", "error"}]
    BY <1>3 DEF Return, Goto, IInv, TypeOK, OpAt
  <2> QED BY <1>3, <2>1, StepInv DEF Return, Goto, Labels
<1> QED BY <1>1, <1>2, <1>3 DEF GetBindingForUpdate

(* What DeleteRoleBinding deletes is what it read.                         *)
LEMMA ReadFromInv == ASSUME IInv, NEW p \in Procs, ReadFrom(p) PROVE IInv'
<1>1. CASE RollbackAndFail(p) \/ FailOpen(p)
  BY <1>1, RollbackAndFailInv, FailOpenInv
<1> DEFINE u == Update({}, FromBinding(req[p].rb))
<1>2. CASE /\ Goto(p, "readTo") /\ upd' = [upd EXCEPT ![p] = u]
           /\ UNCHANGED <<dbVars, issued, tuples, over, req, zed, ans>>
  <2>1. u \in [add : SUBSET Tuples, del : SUBSET Tuples]
        /\ \A t \in u.add \cup u.del :
              t.rel \in {"role", "subject", "grant"} /\ (t.rel = "role" => t.sub \in born)
    BY DEF Update, FromBinding, IInv, TypeOK, RolesBorn
  <2> HIDE DEF u
  <2>2. OpAt' /\ BindingUpdates' /\ ans' \in [Procs -> {"none", "ok", "error"}]
    BY <1>2, <2>1 DEF ReadFrom, Goto, IInv, TypeOK, OpAt, BindingUpdates
  <2> QED BY <1>2, <2>1, <2>2, MoveInv DEF Goto, Labels
<1> QED BY <1>1, <1>2 DEF ReadFrom

LEMMA ReadToInv == ASSUME IInv, NEW p \in Procs, ReadTo(p) PROVE IInv'
<1>1. CASE RollbackAndFail(p)
  BY <1>1, RollbackAndFailInv
<1> DEFINE u == Update({}, upd[p].del \cup ToBinding(req[p].rb))
<1>2. CASE /\ Goto(p, "apply") /\ upd' = [upd EXCEPT ![p] = u]
           /\ UNCHANGED <<dbVars, issued, tuples, over, req, zed, ans>>
  <2>1. u \in [add : SUBSET Tuples, del : SUBSET Tuples]
        /\ \A t \in u.add \cup u.del :
              t.rel \in {"role", "subject", "grant"} /\ (t.rel = "role" => t.sub \in born)
    BY DEF ReadTo, Update, ToBinding, IInv, TypeOK, RolesBorn, BindingUpdates
  <2> HIDE DEF u
  <2>2. OpAt' /\ BindingUpdates' /\ ans' \in [Procs -> {"none", "ok", "error"}]
    BY <1>2, <2>1 DEF ReadTo, Goto, IInv, TypeOK, OpAt, BindingUpdates, BindingOps
  <2> QED BY <1>2, <2>1, <2>2, MoveInv DEF Goto, Labels
<1>3. [upd EXCEPT ![p] = Update({}, @.del \cup ToBinding(req[p].rb))] = [upd EXCEPT ![p] = u]
  BY DEF IInv, TypeOK
<1> QED BY <1>1, <1>2, <1>3 DEF ReadTo

(* The objects of a binding's updates are bindings and resources.          *)
LEMMA ApplyUpdatesInv == ASSUME IInv, NEW p \in Procs, ApplyUpdates(p) PROVE IInv'
<1>0. pc[p] = "apply" /\ req[p].op \in BindingOps
  BY DEF ApplyUpdates, IInv, OpAt
<1>1. CASE RollbackAndFail(p)
  BY <1>1, RollbackAndFailInv
<1>2. ASSUME NEW l \in {"zed", "returned"}, NEW z \in SUBSET (BindingIDs \cup Resources),
             pc' = [pc EXCEPT ![p] = l], zed' = [zed EXCEPT ![p] = z],
             tuples' = (tuples \ upd[p].del) \cup upd[p].add,
             UNCHANGED dbVars \/ RollbackContext(p),
             ans' \in [Procs -> {"none", "ok", "error"}], UNCHANGED <<issued, over, req, upd>>
      PROVE  IInv'
  <2>1. OpAt'
    BY <1>0, <1>2 DEF IInv, TypeOK, OpAt
  <2> QED BY <1>2, <2>1, SpiceWriteInv DEF Labels
<1>3. Written(upd[p]) \in SUBSET (BindingIDs \cup Resources)
  <2>1. \A t \in upd[p].add \cup upd[p].del :
            t \in Tuples /\ t.rel \in {"role", "subject", "grant"}
    BY <1>0 DEF IInv, TypeOK, BindingUpdates
  <2>2. \A t \in Tuples : t.rel \in {"role", "subject", "grant"} => t.obj \in BindingIDs \cup Resources
    BY DEF Tuples
  <2> QED BY <2>1, <2>2 DEF Written
<1>4. /\ ans \in [Procs -> {"none", "ok", "error"}]
      /\ [ans EXCEPT ![p] = "error"] \in [Procs -> {"none", "ok", "error"}]
      /\ zed[p] \in SUBSET (BindingIDs \cup Resources) /\ zed = [zed EXCEPT ![p] = zed[p]]
  BY DEF IInv, TypeOK
<1> QED BY <1>1, <1>2, <1>3, <1>4 DEF ApplyUpdates, Goto, Return

LEMMA UpsertZedTokenInv == ASSUME IInv, NEW p \in Procs, UpsertZedToken(p) PROVE IInv'
<1>0. req[p].op \in BindingOps
  BY DEF UpsertZedToken, IInv, OpAt
<1>1. CASE RollbackAndFail(p)
  BY <1>1, RollbackAndFailInv
<1>2. ASSUME NEW id \in zed[p], zlock' = [zlock EXCEPT ![id] = p],
             zed' = [zed EXCEPT ![p] = @ \ {id}],
             UNCHANGED <<roleRow, rbRow, born, tx, pend, lock, issued, tuples, over, pc, req, upd, ans>>
      PROVE  IInv'
  BY <1>2 DEF IInv, TypeOK, OpAt, BindingUpdates, RolesBorn
<1>3. ASSUME NEW l \in {"commit", "touchBinding", "deleteBinding"},
             l = "touchBinding" => req[p].op = "UpdateBinding",
             l = "deleteBinding" => req[p].op = "DeleteBinding",
             Goto(p, l), UNCHANGED <<dbVars, issued, tuples, over, req, upd, zed, ans>>
      PROVE  IInv'
  <2>1. OpAt' /\ ans' \in [Procs -> {"none", "ok", "error"}]
    BY <1>3 DEF Goto, IInv, TypeOK, OpAt
  <2> QED BY <1>3, <2>1, StepInv DEF Goto, Labels
<1> QED BY <1>0, <1>1, <1>2, <1>3 DEF UpsertZedToken, BindingOps

(* A rollback of the SQL transaction before the one of SpiceDB.            *)
LEMMA RollbackToInv ==
    ASSUME IInv, NEW p \in Procs, NEW l \in {"undo", "undoTwice"}, RollbackTo(p, l) PROVE IInv'
<1>1. /\ EndTx(p) /\ pc' = [pc EXCEPT ![p] = l]
      /\ UNCHANGED <<roleRow, rbRow, born, issued, tuples, over, req, upd, zed, ans>>
  BY DEF RollbackTo, RollbackContext, Goto
<1>2. TypeOK'
  BY <1>1, EndTxType DEF IInv, TypeOK, Labels
<1>3. OpAt' /\ BindingUpdates' /\ RolesBorn'
  BY <1>1 DEF IInv, TypeOK, OpAt, BindingUpdates, RolesBorn
<1> QED BY <1>2, <1>3 DEF IInv

LEMMA TouchBindingInv == ASSUME IInv, NEW p \in Procs, TouchBinding(p) PROVE IInv'
<1>1. CASE RollbackTo(p, "undoTwice")
  BY <1>1, RollbackToInv
<1>2. CASE WriteRow(p, Write(req[p].rb, rbRow[req[p].rb]), "commit") /\ UNCHANGED <<tuples, upd>>
  <2>1. req[p].op = "UpdateBinding" /\ req[p].rb \in BindingIDs
    BY RequestFields DEF TouchBinding, IInv, OpAt, TypeOK, BindingOps
  <2>2. Write(req[p].rb, rbRow[req[p].rb]) \in Writes
    BY <2>1 DEF IInv, TypeOK, Write, Writes
  <2>3. OpAt'
    BY <1>2, <2>1 DEF WriteRow, Goto, IInv, TypeOK, OpAt
  <2> QED BY <1>2, <2>2, <2>3, RowInv DEF Labels
<1> QED BY <1>1, <1>2 DEF TouchBinding

LEMMA DeleteBindingRowInv == ASSUME IInv, NEW p \in Procs, DeleteBindingRow(p) PROVE IInv'
<1>1. CASE RollbackTo(p, "undo")
  BY <1>1, RollbackToInv
<1>2. CASE WriteRow(p, Write(req[p].rb, None), "commit") /\ UNCHANGED <<tuples, upd>>
  <2>1. req[p].op = "DeleteBinding" /\ req[p].rb \in BindingIDs
    BY RequestFields DEF DeleteBindingRow, IInv, OpAt, TypeOK, BindingOps
  <2>2. Write(req[p].rb, None) \in Writes
    BY <2>1 DEF Write, Writes
  <2>3. OpAt'
    BY <1>2, <2>1 DEF WriteRow, Goto, IInv, TypeOK, OpAt
  <2> QED BY <1>2, <2>2, <2>3, RowInv DEF Labels
<1> QED BY <1>1, <1>2 DEF DeleteBindingRow

LEMMA CommitBindingInv == ASSUME IInv, NEW p \in Procs, CommitBinding(p) PROVE IInv'
<1>1. CASE RollbackTo(p, "undo")
  BY <1>1, RollbackToInv
<1>2. CASE /\ CommitContext(p) /\ Return(p, "ok")
           /\ UNCHANGED <<issued, tuples, over, req, upd, zed>>
  <2>1. ans' \in [Procs -> {"none", "ok", "error"}]
    BY <1>2 DEF Return, IInv, TypeOK
  <2> QED BY <1>2, <2>1, CommitInv DEF Return, Goto
<1>3. CASE /\ CommitContext(p) /\ Goto(p, "undo")
           /\ UNCHANGED <<issued, tuples, over, req, upd, zed, ans>>
  <2>1. ans' \in [Procs -> {"none", "ok", "error"}]
    BY <1>3 DEF IInv, TypeOK
  <2> QED BY <1>3, <2>1, CommitInv DEF Goto
<1> QED BY <1>1, <1>2, <1>3 DEF CommitBinding

LEMMA RollbackUpdatesInv == ASSUME IInv, NEW p \in Procs, RollbackUpdates(p) PROVE IInv'
<1>1. PICK l \in {"undo", "returned"} :
        /\ pc' = [pc EXCEPT ![p] = l] /\ ans' \in [Procs -> {"none", "ok", "error"}]
        /\ tuples' = (tuples \ upd[p].add) \cup upd[p].del \/ tuples' \subseteq tuples
        /\ UNCHANGED <<dbVars, issued, over, req, upd, zed>>
  BY DEF RollbackUpdates, Goto, Return, IInv, TypeOK
<1>2. OpAt'
  BY <1>1 DEF IInv, TypeOK, OpAt
<1>3. zed' = [zed EXCEPT ![p] = zed[p]] /\ zed[p] \in SUBSET (BindingIDs \cup Resources)
  BY <1>1 DEF IInv, TypeOK
<1> QED BY <1>1, <1>2, <1>3, SpiceWriteInv DEF Labels

LEMMA BindingStepInv == ASSUME IInv, NEW p \in Procs, BindingStep(p) PROVE IInv'
BY CheckBindableInv, ReadRoleInv, BeginBindingInv, InsertBindingInv, LockBindingInv,
   GetBindingForUpdateInv, ReadFromInv, ReadToInv, ApplyUpdatesInv, UpsertZedTokenInv,
   TouchBindingInv, DeleteBindingRowInv, CommitBindingInv, RollbackUpdatesInv DEF BindingStep

-----------------------------------------------------------------------------
LEMMA NextInv == IInv /\ [Next]_vars => IInv'
<1> SUFFICES ASSUME IInv, [Next]_vars PROVE IInv'
  OBVIOUS
<1>1. CASE UNCHANGED vars
  BY <1>1 DEF vars, dbVars, procVars, IInv, TypeOK, OpAt, BindingUpdates, RolesBorn
<1>2. ASSUME NEW p \in Procs, Start(p) \/ Work(p) \/ Cancel(p) PROVE IInv'
  BY <1>2, StartRoleInv, StartBindingInv, RoleStepInv, BindingStepInv, RequestEndInv, AbortTxInv,
     CancelInv DEF Start, Work
<1> QED BY <1>1, <1>2 DEF Next

LEMMA RBACInv == Spec => []IInv
BY InitInv, NextInv, PTL DEF Spec

(* Every variable keeps its type, whatever fails; in particular each       *)
(* zedtoken a binding operation stores is that of a binding or a resource. *)
THEOREM RBACTypes == Spec => []TypeOK
<1>1. IInv => TypeOK
  BY DEF IInv
<1> QED BY <1>1, RBACInv, PTL

(* No role that was rolled back, or whose commit failed after its tuples   *)
(* were written, is ever named by a binding: the read of the role's row    *)
(* guards every binding's creation, and no rollback of SpiceDB brings in a *)
(* role that was not named before.                                         *)
THEOREM DiscardedNeverBound == Spec => []DiscardedRoleUnused
<1>1. IInv => DiscardedRoleUnused
  BY DEF IInv, RolesBorn, DiscardedRoleUnused, RolesOf, BindingRole
<1> QED BY <1>1, RBACInv, PTL
=============================================================================
