------------------------- MODULE RBACLedger_proofs -------------------------
(***************************************************************************)
(* The operations on role bindings implement the ledger of whole records,  *)
(* for any number of requests, roles, bindings, resources and subjects,    *)
(* with the failures of Benign.  A request that has written to SpiceDB and *)
(* not committed is read as if it had not written; so its write must be    *)
(* what it can be read back from: nothing it adds was there, and all that  *)
(* it deletes was.                                                         *)
(*                                                                         *)
(* And the listings beside them are exact about what nobody touches,       *)
(* whatever fails: only a request that holds the row of an identifier, or  *)
(* is about to roll its tuples back, changes what a store says of it.      *)
(***************************************************************************)
EXTENDS RBACAgree_proofs, RBACReaders

(* the labels between a binding's SpiceDB write and its commit             *)
AfterWrite == {"zed", "touchBinding", "deleteBinding", "commit", "undo", "undoTwice"}

(* rows are of born bindings, and a binding is not born before its commit  *)
Births ==
    /\ born \subseteq issued
    /\ \A b \in BindingIDs : rbRow[b] # None => b \in born
    /\ \A p \in Procs : req[p].op = "CreateBinding" /\ pc[p] # "returned"
                           => req[p].rb \notin born

(* the difference that an update of a binding is about to write            *)
Exact(u) == u.add \cap tuples = {} /\ u.del \subseteq tuples

Differences ==
    \A p \in Procs : req[p].op = "UpdateBinding" /\ pc[p] = "apply" => Exact(upd[p])

(* what a request has written and not committed is of its own binding      *)
OfItsOwn(p) ==
    \A t \in upd[p].add \cup upd[p].del :
        /\ Of(t, req[p].rb)
        /\ req[p].op = "UpdateBinding" => t.rel = "subject"

Uncommitted == \A p \in Dirty : OfItsOwn(p)

LInv == Births /\ Differences /\ Uncommitted

(* nothing changes for the callers                                         *)
SameShown ==
    /\ \A b \in BindingIDs : Shown(b)' = Shown(b)
    /\ born' \cap BindingIDs = born \cap BindingIDs

-----------------------------------------------------------------------------
(* What is shown depends on the rows and on the visible tuples.            *)
LEMMA RoleShownKept ==
    ASSUME NEW b \in BindingIDs,
           \A r \in RoleIDs : BindingRole(b, r) \in Visible' <=> BindingRole(b, r) \in Visible
    PROVE  RoleShown(b)' = RoleShown(b)
<1> DEFINE rs     == {r \in RoleIDs : BindingRole(b, r) \in Visible}
           One(S) == IF Cardinality(S) = 1 THEN CHOOSE r \in S : TRUE ELSE None
<1>1. RoleShown(b) = One(rs)
  BY DEF RoleShown
<1>2. RoleShown(b)' = One(rs')
  BY DEF RoleShown, BindingRole
<1>3. rs' = rs
  BY DEF BindingRole
<1> HIDE DEF rs, One
<1> QED BY <1>1, <1>2, <1>3

LEMMA ShownKept ==
    ASSUME NEW b \in BindingIDs, rbRow'[b] = rbRow[b],
           \A r \in RoleIDs : BindingRole(b, r) \in Visible' <=> BindingRole(b, r) \in Visible,
           \A s \in Subjects :
               BindingSubject(b, s) \in Visible' <=> BindingSubject(b, s) \in Visible
    PROVE  Shown(b)' = Shown(b)
<1>1. RoleShown(b)' = RoleShown(b)
  BY RoleShownKept
<1>2. {s \in Subjects : BindingSubject(b, s) \in Visible'}
         = {s \in Subjects : BindingSubject(b, s) \in Visible}
  OBVIOUS
<1> QED BY <1>1, <1>2 DEF Shown, BindingSubject

LEMMA ShownTypes ==
    ASSUME IInv, NEW b \in BindingIDs, rbRow[b] # None
    PROVE  Shown(b) \in Views
<1>1. RoleShown(b) \in RoleIDs \cup {None}
  <2> DEFINE rs == {r \in RoleIDs : BindingRole(b, r) \in Visible}
  <2>1. CASE Cardinality(rs) = 1
    <3>1. rs # {}
      BY <2>1, FS_EmptySet
    <3>2. RoleShown(b) = CHOOSE r \in rs : TRUE
      BY <2>1 DEF RoleShown
    <3>3. (CHOOSE r \in rs : TRUE) \in rs
      BY <3>1
    <3> QED BY <3>2, <3>3
  <2>2. CASE Cardinality(rs) # 1
    BY <2>2 DEF RoleShown
  <2> QED BY <2>1, <2>2
<1>2. rbRow[b] \in Resources
  BY DEF IInv, TypeOK
<1> QED BY <1>1, <1>2 DEF Shown, Views

LEMMA AllShownKept ==
    ASSUME rbRow' = rbRow, Visible' = Visible, born' \cap BindingIDs = born \cap BindingIDs
    PROVE  SameShown
BY ShownKept DEF SameShown

(* Who is between its write and its commit holds its binding's row.        *)
LEMMA DirtyTarget ==
    ASSUME IInv, AInv, NEW p \in Dirty
    PROVE  /\ p \in Procs /\ req[p].rb \in BindingIDs /\ req[p].rb \in IDs
           /\ req[p].rb = Target(p) /\ lock[req[p].rb] = p
           /\ pc[p] \in AfterWrite \cap Holding
<1>1. p \in Procs /\ req[p].op \in BindingOps /\ pc[p] \in AfterWrite \cap Holding
  BY DEF Dirty, AfterWrite, Holding, AInv, Calm
<1> QED BY <1>1, BindingTarget, StageOf

(* What a request that holds its row has written, or is about to, is of no *)
(* other request's binding.                                                *)
LEMMA Apart ==
    ASSUME IInv, AInv, LInv, NEW p \in Procs, NEW id \in IDs, id = Target(p), lock[id] = p,
           NEW q \in Dirty, q # p, NEW t \in upd[q].add \cup upd[q].del
    PROVE  ~Of(t, id)
<1>1. Of(t, req[q].rb) /\ req[q].rb \in IDs /\ lock[req[q].rb] = q
  BY DirtyTarget DEF LInv, Uncommitted, OfItsOwn
<1> QED BY <1>1, OfOne

-----------------------------------------------------------------------------
(* Steps that the callers cannot see.                                      *)
Quiet(p) ==
    /\ UNCHANGED <<tuples, rbRow, born, issued, req>>
    /\ \A q \in Procs \ {p} : pc'[q] = pc[q] /\ upd'[q] = upd[q]
    /\ pc[p] # "returned"
    /\ req[p].op \in BindingOps => /\ pc'[p] \in AfterWrite <=> pc[p] \in AfterWrite
                                   /\ pc[p] \in AfterWrite => upd'[p] = upd[p]
    /\ req[p].op = "UpdateBinding" /\ pc'[p] = "apply" => Exact(upd'[p])

LEMMA QuietShows ==
    ASSUME IInv, AInv, LInv, NEW p \in Procs, Quiet(p)
    PROVE  LInv' /\ SameShown
<1>1. Dirty' = Dirty
  BY DEF Quiet, Dirty, AfterWrite
<1>2. \A q \in Dirty : upd'[q] = upd[q] /\ req'[q] = req[q]
  BY DEF Quiet, Dirty, AfterWrite
<1>3. Births'
  BY DEF Quiet, LInv, Births
<1>4. Differences'
  BY DEF Quiet, LInv, Differences, Exact
<1>5. Uncommitted'
  BY <1>1, <1>2 DEF LInv, Uncommitted, OfItsOwn
<1>6. Visible' = Visible
  <2>1. UNION {upd'[q].add : q \in Dirty'} = UNION {upd[q].add : q \in Dirty}
    BY <1>1, <1>2
  <2>2. UNION {upd'[q].del : q \in Dirty'} = UNION {upd[q].del : q \in Dirty}
    BY <1>1, <1>2
  <2> QED BY <2>1, <2>2 DEF Visible, Quiet
<1> QED BY <1>3, <1>4, <1>5, <1>6, AllShownKept DEF LInv, Quiet

LEMMA EndsQuietly ==
    ASSUME IInv, NEW p \in Procs, RollbackAndFail(p) \/ FailOpen(p),
           pc[p] \notin AfterWrite \cup {"returned"}
    PROVE  Quiet(p)
<1>1. pc' = [pc EXCEPT ![p] = "returned"] /\ UNCHANGED <<tuples, rbRow, born, issued, req, upd>>
  BY DEF RollbackAndFail, RollbackContext, FailOpen, Return, Goto, dbVars
<1> QED BY <1>1 DEF Quiet, AfterWrite, IInv, TypeOK

LEMMA MovesQuietly ==
    ASSUME IInv, NEW p \in Procs, NEW l, Goto(p, l), l # "apply", pc[p] # "returned",
           UNCHANGED <<tuples, rbRow, born, issued, req, upd>>,
           req[p].op \in BindingOps => (l \in AfterWrite <=> pc[p] \in AfterWrite)
    PROVE  Quiet(p)
BY DEF Quiet, Goto, IInv, TypeOK

LEMMA UpdatesQuietly ==
    ASSUME IInv, NEW p \in Procs, NEW l, Goto(p, l), pc[p] \notin AfterWrite \cup {"returned"},
           UNCHANGED <<tuples, rbRow, born, issued, req>>,
           NEW u, upd' = [upd EXCEPT ![p] = u],
           req[p].op \in BindingOps => l \notin AfterWrite,
           req[p].op = "UpdateBinding" /\ l = "apply" => Exact(u)
    PROVE  Quiet(p)
BY DEF Quiet, Goto, IInv, TypeOK

LEMMA RoleStepQuiet ==
    ASSUME IInv, AInv, NEW p \in Procs,
           \/ BeginRole(p) \/ InsertRole(p) \/ LockRole(p) \/ GetRoleForUpdate(p)
           \/ UpdateRoleRow(p) \/ FindBindings(p) \/ DeleteRoleRow(p) \/ Unlinked(p)
    PROVE  Quiet(p)
<1>1. CASE BeginRole(p)
  <2>1. PICK l : Goto(p, l) /\ l \in {"insertRole", "lockRole", "returned"}
    BY <1>1 DEF BeginRole, Begin, Return
  <2> QED BY <1>1, <2>1, MovesQuietly DEF BeginRole, Begin, AfterWrite
<1>2. CASE InsertRole(p)
  <2> DEFINE u == Update(RoleTuples(req[p].role, req[p].res, req[p].actions), {})
  <2>1. pc[p] = "insertRole" /\ req[p].op \notin BindingOps
    BY <1>2 DEF InsertRole, IInv, OpAt, BindingOps
  <2>2. CASE RollbackAndFail(p)
    BY <2>1, <2>2, EndsQuietly DEF AfterWrite
  <2>3. CASE /\ WriteRow(p, Write(req[p].role, req[p].res), "writeRole")
             /\ upd' = [upd EXCEPT ![p] = u] /\ UNCHANGED tuples
    <3> HIDE DEF u
    <3>1. /\ Goto(p, "writeRole") /\ UNCHANGED <<tuples, rbRow, born, issued, req>>
          /\ pc[p] \notin AfterWrite \cup {"returned"}
          /\ ~(req[p].op = "UpdateBinding" /\ "writeRole" = "apply")
      BY <2>1, <2>3 DEF WriteRow, AfterWrite
    <3> QED BY <2>1, <2>3, <3>1, UpdatesQuietly
  <2> QED BY <1>2, <2>2, <2>3 DEF InsertRole
<1>3. CASE LockRole(p)
  <2>1. pc[p] = "lockRole"
    BY <1>3 DEF LockRole
  <2>2. CASE RollbackAndFail(p)
    BY <2>1, <2>2, EndsQuietly DEF AfterWrite
  <2>3. CASE ~RollbackAndFail(p)
    <3>1. PICK l : Goto(p, l) /\ l \in {"getRole", "findBindings"}
                   /\ UNCHANGED <<tuples, rbRow, born, issued, req, upd>>
      BY <1>3, <2>3 DEF LockRole, LockForUpdate
    <3> QED BY <2>1, <3>1, MovesQuietly DEF AfterWrite
  <2> QED BY <2>2, <2>3
<1>4. CASE GetRoleForUpdate(p)
  <2> DEFINE u == RoleDiff(req[p].role, req[p].actions)
  <2>1. pc[p] = "getRole" /\ req[p].op \notin BindingOps
    BY <1>4 DEF GetRoleForUpdate, IInv, OpAt, BindingOps
  <2>2. CASE RollbackAndFail(p)
    BY <2>1, <2>2, EndsQuietly DEF AfterWrite
  <2>3. CASE ~RollbackAndFail(p)
    <3>1. PICK l : /\ Goto(p, l) /\ upd' = [upd EXCEPT ![p] = u]
                   /\ UNCHANGED <<tuples, rbRow, born, issued, req>>
      BY <1>4, <2>3 DEF GetRoleForUpdate, dbVars
    <3> HIDE DEF u
    <3> QED BY <2>1, <3>1, UpdatesQuietly DEF AfterWrite, BindingOps
  <2> QED BY <2>2, <2>3
<1>5. CASE UpdateRoleRow(p)
  <2>1. pc[p] = "updateRole" /\ req[p].op \notin BindingOps
    BY <1>5 DEF UpdateRoleRow, IInv, OpAt, BindingOps
  <2> QED BY <1>5, <2>1, EndsQuietly, MovesQuietly DEF UpdateRoleRow, WriteRow, AfterWrite
<1>6. CASE FindBindings(p)
  <2>1. pc[p] = "findBindings"
    BY <1>6 DEF FindBindings
  <2> QED BY <1>6, <2>1, EndsQuietly, MovesQuietly DEF FindBindings, AfterWrite, dbVars
<1>7. CASE DeleteRoleRow(p)
  <2>1. pc[p] = "deleteRole"
    BY <1>7 DEF DeleteRoleRow
  <2> QED BY <1>7, <2>1, EndsQuietly, MovesQuietly DEF DeleteRoleRow, WriteRow, AfterWrite
<1>8. CASE Unlinked(p)
  <2>1. pc[p] = "unlinked" /\ req[p].op \notin BindingOps
    BY <1>8 DEF Unlinked, IInv, OpAt, BindingOps
  <2> QED BY <1>8, <2>1, EndsQuietly, MovesQuietly DEF Unlinked, AfterWrite, dbVars
<1> QED BY <1>1, <1>2, <1>3, <1>4, <1>5, <1>6, <1>7, <1>8

LEMMA SubjectDiffExact ==
    ASSUME NEW b, NEW S, S \subseteq Subjects
    PROVE  Exact(SubjectDiff(b, S))
<1> DEFINE u == SubjectDiff(b, S)
<1>1. ASSUME NEW t \in u.add PROVE t \notin tuples
  <2>1. PICK s \in S \ SubjectsOf(b) : t = BindingSubject(b, s)
    BY <1>1 DEF SubjectDiff, Update
  <2> QED BY <2>1 DEF SubjectsOf
<1>2. ASSUME NEW t \in u.del PROVE t \in tuples
  <2>1. PICK s \in SubjectsOf(b) : t = BindingSubject(b, s)
    BY <1>2 DEF SubjectDiff, Update
  <2> QED BY <2>1 DEF SubjectsOf
<1> QED BY <1>1, <1>2 DEF Exact

LEMMA BindingStepQuiet ==
    ASSUME Failures \subseteq Benign, IInv, AInv, NEW p \in Procs,
           \/ CheckBindable(p) \/ ReadRole(p) \/ BeginBinding(p) \/ InsertBinding(p)
           \/ LockBinding(p) \/ GetBindingForUpdate(p) \/ ReadFrom(p) \/ ReadTo(p)
           \/ UpsertZedToken(p) \/ TouchBinding(p) \/ DeleteBindingRow(p)
    PROVE  Quiet(p)
<1>1. CASE CheckBindable(p) \/ ReadRole(p)
  <2>1. pc[p] \in {"bindable", "readRole"}
    BY <1>1 DEF CheckBindable, ReadRole
  <2>2. CASE FailOpen(p)
    BY <2>1, <2>2, EndsQuietly DEF AfterWrite
  <2>3. CASE ~FailOpen(p)
    <3>1. PICK l : Goto(p, l) /\ l \in {"readRole", "begin"}
                   /\ UNCHANGED <<tuples, rbRow, born, issued, req, upd>>
      BY <1>1, <2>3 DEF CheckBindable, ReadRole, dbVars
    <3> QED BY <2>1, <3>1, MovesQuietly DEF AfterWrite
  <2> QED BY <2>2, <2>3
<1>2. CASE BeginBinding(p)
  <2>1. PICK l : Goto(p, l) /\ l \in {"insertBinding", "lockBinding", "returned"}
    BY <1>2 DEF BeginBinding, Begin, Return
  <2> QED BY <1>2, <2>1, MovesQuietly DEF BeginBinding, Begin, AfterWrite
<1>3. CASE InsertBinding(p)
  <2> DEFINE u == Update(BindingTuples(req[p].rb, req[p].role, req[p].res, req[p].subjects), {})
  <2>1. pc[p] = "insertBinding" /\ req[p].op = "CreateBinding"
    BY <1>3 DEF InsertBinding, IInv, OpAt
  <2>2. CASE RollbackAndFail(p)
    BY <2>1, <2>2, EndsQuietly DEF AfterWrite
  <2>3. CASE /\ WriteRow(p, Write(req[p].rb, req[p].res), "apply")
             /\ upd' = [upd EXCEPT ![p] = u] /\ UNCHANGED tuples
    <3> HIDE DEF u
    <3>1. /\ Goto(p, "apply") /\ UNCHANGED <<tuples, rbRow, born, issued, req>>
          /\ pc[p] \notin AfterWrite \cup {"returned"} /\ "apply" \notin AfterWrite
      BY <2>1, <2>3 DEF WriteRow, AfterWrite
    <3> QED BY <2>1, <2>3, <3>1, UpdatesQuietly
  <2> QED BY <1>3, <2>2, <2>3 DEF InsertBinding
<1>4. CASE LockBinding(p)
  <2>1. pc[p] = "lockBinding"
    BY <1>4 DEF LockBinding
  <2>2. CASE RollbackAndFail(p)
    BY <2>1, <2>2, EndsQuietly DEF AfterWrite
  <2>3. CASE ~RollbackAndFail(p)
    <3>1. PICK l : Goto(p, l) /\ l \in {"getBinding", "readFrom"}
                   /\ UNCHANGED <<tuples, rbRow, born, issued, req, upd>>
      BY <1>4, <2>3 DEF LockBinding, LockForUpdate
    <3> QED BY <2>1, <3>1, MovesQuietly DEF AfterWrite
  <2> QED BY <2>2, <2>3
<1>5. CASE GetBindingForUpdate(p)
  <2> DEFINE u == SubjectDiff(req[p].rb, req[p].subjects)
  <2>1. pc[p] = "getBinding" /\ req[p].op = "UpdateBinding"
    BY <1>5 DEF GetBindingForUpdate, IInv, OpAt
  <2>2. CASE RollbackAndFail(p)
    BY <2>1, <2>2, EndsQuietly DEF AfterWrite
  <2>3. CASE Goto(p, "apply") /\ upd' = [upd EXCEPT ![p] = u]
             /\ UNCHANGED <<dbVars, issued, tuples, req>>
    <3>1. Exact(u)
      BY <2>1, SubjectDiffExact, RequestSets
    <3> HIDE DEF u
    <3>2. /\ Goto(p, "apply") /\ UNCHANGED <<tuples, rbRow, born, issued, req>>
          /\ pc[p] \notin AfterWrite \cup {"returned"} /\ "apply" \notin AfterWrite
      BY <2>1, <2>3 DEF AfterWrite, dbVars
    <3> QED BY <2>3, <3>1, <3>2, UpdatesQuietly
  <2>4. CASE Return(p, "ok") /\ UNCHANGED <<dbVars, issued, tuples, req, upd>>
    BY <2>1, <2>4, MovesQuietly DEF Return, AfterWrite, dbVars
  <2> QED BY <1>5, <2>2, <2>3, <2>4 DEF GetBindingForUpdate
<1>6. CASE ReadFrom(p) \/ ReadTo(p)
  <2>1. pc[p] \in {"readFrom", "readTo"} /\ req[p].op = "DeleteBinding"
    BY <1>6 DEF ReadFrom, ReadTo, IInv, OpAt
  <2>2. CASE RollbackAndFail(p) \/ FailOpen(p)
    BY <2>1, <2>2, EndsQuietly DEF AfterWrite
  <2>3. CASE ~(RollbackAndFail(p) \/ FailOpen(p))
    <3>1. PICK l, u : /\ Goto(p, l) /\ upd' = [upd EXCEPT ![p] = u] /\ l \in {"readTo", "apply"}
                      /\ UNCHANGED <<tuples, rbRow, born, issued, req>>
      BY <1>6, <2>3 DEF ReadFrom, ReadTo, dbVars
    <3> QED BY <2>1, <3>1, UpdatesQuietly DEF AfterWrite
  <2> QED BY <2>2, <2>3
<1>7. CASE UpsertZedToken(p)
  <2>1. pc[p] = "zed" /\ req[p].op \in BindingOps /\ ~Fails(p, "zed")
    BY <1>7, NothingLate DEF UpsertZedToken, IInv, OpAt
  <2>2. CASE UNCHANGED <<rbRow, born, issued, tuples, pc, req, upd>>
    BY <2>1, <2>2 DEF Quiet, AfterWrite
  <2>3. CASE /\ Goto(p, CASE req[p].op = "CreateBinding" -> "commit"
                          [] req[p].op = "UpdateBinding" -> "touchBinding"
                          [] req[p].op = "DeleteBinding" -> "deleteBinding")
             /\ UNCHANGED <<dbVars, issued, tuples, req, upd>>
    <3>1. PICK l : Goto(p, l) /\ l \in {"commit", "touchBinding", "deleteBinding"}
      BY <2>1, <2>3 DEF BindingOps
    <3> QED BY <2>1, <2>3, <3>1, MovesQuietly DEF AfterWrite, dbVars
  <2> QED BY <1>7, <2>1, <2>2, <2>3 DEF UpsertZedToken
<1>8. CASE TouchBinding(p) \/ DeleteBindingRow(p)
  <2>1. pc[p] \in {"touchBinding", "deleteBinding"} /\ ~Fails(p, "lateRow")
    BY <1>8, NothingLate DEF TouchBinding, DeleteBindingRow
  <2>2. Goto(p, "commit") /\ UNCHANGED <<tuples, rbRow, born, issued, req, upd>>
    BY <1>8, <2>1 DEF TouchBinding, DeleteBindingRow, WriteRow
  <2> QED BY <2>1, <2>2, MovesQuietly DEF AfterWrite
<1> QED BY <1>1, <1>2, <1>3, <1>4, <1>5, <1>6, <1>7, <1>8

-----------------------------------------------------------------------------
(* Writes of tuples.                                                       *)

(* What is about to be written is of the binding, and can be undone.       *)
LEMMA AtApply ==
    ASSUME IInv, AInv, LInv, NEW p \in Procs, pc[p] = "apply"
    PROVE  OfItsOwn(p) /\ Exact(upd[p])
<1>1. PICK b \in BindingIDs : b = req[p].rb /\ b = Target(p) /\ b \in IDs /\ b \notin RoleIDs
  BY BindingTarget DEF IInv, OpAt
<1>2. Stage(p, b) /\ req[p].op \in BindingOps
  BY <1>1, StageOf DEF IInv, OpAt
<1>3. CASE req[p].op = "CreateBinding"
  <2>1. /\ About(b) = {} /\ upd[p].del = {} /\ \A t \in upd[p].add : Of(t, b)
    BY <1>2, <1>3 DEF Stage, Creation, Creates
  <2> QED BY <1>1, <1>3, <2>1 DEF OfItsOwn, Exact, About
<1>4. CASE req[p].op = "UpdateBinding"
  <2>1. \A t \in upd[p].add \cup upd[p].del : t.rel \in {"action", "subject"} /\ t.obj = b
    BY <1>2, <1>4 DEF Stage, Change, Changes, Ready
  <2>2. Exact(upd[p])
    BY <1>4 DEF LInv, Differences
  <2>3. \A t \in upd[p].add \cup upd[p].del : t.rel \in {"role", "subject", "grant"}
    BY DEF IInv, BindingUpdates
  <2> QED BY <1>1, <2>1, <2>2, <2>3 DEF OfItsOwn, Of
<1>5. CASE req[p].op = "DeleteBinding"
  <2>1. upd[p].add = {} /\ upd[p].del = About(b)
    BY <1>2, <1>5 DEF Stage, Removal, Removes
  <2> QED BY <1>1, <1>5, <2>1 DEF OfItsOwn, Exact, About
<1> QED BY <1>2, <1>3, <1>4, <1>5 DEF BindingOps

(* A write of tuples of one role or binding leaves the differences of the  *)
(* requests that hold other rows.                                          *)
LEMMA DifferencesKept ==
    ASSUME IInv, AInv, LInv, NEW p \in Procs, NEW id \in IDs, id = Target(p), lock[id] = p,
           \A t : Of(t, id) \/ (t \in tuples' <=> t \in tuples),
           UNCHANGED <<req, upd>>, \A q \in Procs \ {p} : pc'[q] = pc[q], pc'[p] # "apply"
    PROVE  Differences'
<1> SUFFICES ASSUME NEW q \in Procs \ {p}, req[q].op = "UpdateBinding", pc[q] = "apply"
             PROVE  /\ \A t \in upd[q].add : t \notin tuples'
                    /\ \A t \in upd[q].del : t \in tuples'
  BY DEF Differences, Exact
<1>1. PICK b \in BindingIDs : b = req[q].rb /\ b = Target(q) /\ b \in IDs
  BY BindingTarget DEF IInv, OpAt
<1>2. b # id
  BY <1>1, StageOf DEF Holding
<1>3. OfItsOwn(q) /\ Exact(upd[q])
  BY AtApply
<1>4. \A t \in upd[q].add \cup upd[q].del : ~Of(t, id)
  BY <1>1, <1>2, <1>3, OfOne DEF OfItsOwn
<1> QED BY <1>3, <1>4 DEF Exact

(* A role's tuples are none of a binding's.                                *)
LEMMA RoleWriteShows ==
    ASSUME IInv, AInv, LInv, NEW p \in Procs, NEW r \in RoleIDs, r = Target(p), lock[r] = p,
           req[p].op \in RoleOps, pc[p] # "returned",
           \A t : Of(t, r) \/ (t \in tuples' <=> t \in tuples),
           UNCHANGED <<rbRow, issued, req, upd>>,
           \A q \in Procs \ {p} : pc'[q] = pc[q], pc'[p] # "apply",
           born \subseteq born', born' \subseteq issued, born' \subseteq born \cup {r}
    PROVE  LInv' /\ SameShown
<1>1. req[p].op \notin BindingOps /\ r \in IDs /\ r \notin BindingIDs
  BY StoreAssumption DEF RoleOps, BindingOps, IDs
<1>2. Dirty' = Dirty
  BY <1>1 DEF Dirty
<1>3. Differences'
  BY <1>1, DifferencesKept
<1>4. Uncommitted'
  BY <1>2 DEF LInv, Uncommitted, OfItsOwn
<1>5. \A q \in Procs : req[q].op = "CreateBinding" => req[q].rb \in BindingIDs
  BY BindingTarget DEF BindingOps
<1>6. Births'
  BY <1>1, <1>5 DEF LInv, Births, BindingOps
<1>7. \A t : ~Of(t, r) => (t \in Visible' <=> t \in Visible)
  <2>1. /\ UNION {upd'[q].add : q \in Dirty'} = UNION {upd[q].add : q \in Dirty}
        /\ UNION {upd'[q].del : q \in Dirty'} = UNION {upd[q].del : q \in Dirty}
    BY <1>2
  <2> QED BY <2>1 DEF Visible
<1>8. ASSUME NEW b \in BindingIDs PROVE Shown(b)' = Shown(b)
  <2>1. b # r
    BY <1>1
  <2>2. /\ \A s \in RoleIDs : ~Of(BindingRole(b, s), r)
        /\ \A s \in Subjects : ~Of(BindingSubject(b, s), r)
    BY <2>1 DEF Of, BindingRole, BindingSubject
  <2> QED BY <1>7, <2>2, ShownKept
<1> QED BY <1>1, <1>3, <1>4, <1>6, <1>8 DEF LInv, SameShown

LEMMA WriteRoleShows ==
    ASSUME Failures \subseteq Benign, IInv, AInv, LInv, NEW p \in Procs, WriteRole(p)
    PROVE  LInv' /\ SameShown
<1>1. pc[p] = "writeRole" /\ req[p].op \in {"CreateRole", "UpdateRole"}
  BY DEF WriteRole, IInv, OpAt
<1>2. PICK r \in RoleIDs : r = Target(p) /\ r \in IDs
  BY <1>1, RoleTarget DEF RoleOps
<1>3. Stage(p, r) /\ lock[r] = p
  BY <1>1, <1>2, StageOf DEF Holding
<1>4. \A t \in upd[p].add \cup upd[p].del : Of(t, r)
  BY <1>1, <1>3 DEF Stage, Creation, Change, Creates, Changes, Ready, Of
<1>5. CASE RollbackAndFail(p)
  BY <1>1, <1>5, EndsQuietly, QuietShows DEF AfterWrite
<1>6. CASE /\ tuples' = (tuples \ upd[p].del) \cup upd[p].add /\ Goto(p, "commit")
           /\ UNCHANGED <<dbVars, issued, over, req, upd, zed, ans>>
  <2>1. \A t : Of(t, r) \/ (t \in tuples' <=> t \in tuples)
    BY <1>4, <1>6
  <2>2. /\ UNCHANGED <<rbRow, issued, req, upd, born>> /\ pc'[p] = "commit"
        /\ \A q \in Procs \ {p} : pc'[q] = pc[q]
    BY <1>6 DEF dbVars, Goto, IInv, TypeOK
  <2>3. born' \subseteq issued
    BY <2>2 DEF LInv, Births
  <2> QED BY <1>1, <1>2, <1>3, <2>1, <2>2, <2>3, RoleWriteShows DEF RoleOps
<1> QED BY <1>5, <1>6, NothingLate DEF WriteRole

LEMMA UnlinkShows ==
    ASSUME IInv, AInv, LInv, NEW p \in Procs, UnlinkFrom(p) \/ UnlinkTo(p)
    PROVE  LInv' /\ SameShown
<1>1. pc[p] \in {"unlinkFrom", "unlinkTo"} /\ req[p].op = "DeleteRole"
  BY DEF UnlinkFrom, UnlinkTo, Unlink, IInv, OpAt
<1>2. PICK r \in RoleIDs : r = Target(p) /\ r \in IDs /\ r = req[p].role
  BY <1>1, RoleTarget DEF RoleOps
<1>3. lock[r] = p
  BY <1>1, <1>2, StageOf DEF Holding
<1>4. \A t \in FromRole(r) \cup ToRole(r) : Of(t, r)
  BY DEF FromRole, ToRole, Of
<1>5. \A t : Of(t, r) \/ (t \in tuples' <=> t \in tuples)
  BY <1>2, <1>4 DEF UnlinkFrom, UnlinkTo, Unlink
<1>6. /\ UNCHANGED <<rbRow, issued, req, upd, born>> /\ pc'[p] \in {"unlinkTo", "unlinked"}
      /\ \A q \in Procs \ {p} : pc'[q] = pc[q]
  BY DEF UnlinkFrom, UnlinkTo, Unlink, dbVars, Goto, IInv, TypeOK
<1>7. born' \subseteq issued
  BY <1>6 DEF LInv, Births
<1> QED BY <1>1, <1>2, <1>3, <1>5, <1>6, <1>7, RoleWriteShows DEF RoleOps

(* The write of a binding is seen when it is committed.                    *)
LEMMA WriteHidden ==
    ASSUME NEW T, NEW A, NEW D, NEW a, NEW d,
           a \cap T = {}, d \subseteq T, d \cap A = {}
    PROVE  ((((T \ d) \cup a) \ (A \cup a)) \cup (D \cup d)) = (T \ A) \cup D
OBVIOUS

LEMMA ApplyShows ==
    ASSUME Failures \subseteq Benign, IInv, AInv, LInv, NEW p \in Procs, ApplyUpdates(p)
    PROVE  LInv' /\ SameShown
<1>1. pc[p] = "apply" /\ req[p].op \in BindingOps
  BY DEF ApplyUpdates, IInv, OpAt
<1>2. CASE RollbackAndFail(p)
  BY <1>1, <1>2, EndsQuietly, QuietShows DEF AfterWrite
<1>3. CASE /\ tuples' = (tuples \ upd[p].del) \cup upd[p].add /\ Goto(p, "zed")
           /\ UNCHANGED <<dbVars, issued, over, req, upd, ans>>
  <2>1. PICK b \in BindingIDs : b = Target(p) /\ b \in IDs /\ b = req[p].rb
    BY <1>1, BindingTarget
  <2>2. lock[b] = p
    BY <1>1, <2>1, StageOf DEF Holding
  <2>3. OfItsOwn(p) /\ Exact(upd[p])
    BY <1>1, AtApply
  <2>4. /\ UNCHANGED <<rbRow, born, issued, req, upd>> /\ pc'[p] = "zed"
        /\ \A q \in Procs \ {p} : pc'[q] = pc[q]
    BY <1>3 DEF dbVars, Goto, IInv, TypeOK
  <2>5. Dirty' = Dirty \cup {p} /\ p \notin Dirty
    BY <1>1, <2>4 DEF Dirty
  <2>6. Differences'
    <3>1. \A t : Of(t, b) \/ (t \in tuples' <=> t \in tuples)
      BY <1>3, <2>1, <2>3 DEF OfItsOwn
    <3> QED BY <2>1, <2>2, <2>4, <3>1, DifferencesKept
  <2>7. Uncommitted'
    BY <2>3, <2>4, <2>5 DEF LInv, Uncommitted, OfItsOwn
  <2>8. Births'
    BY <1>1, <2>4 DEF LInv, Births
  <2>9. Visible' = Visible
    <3> DEFINE A == UNION {upd[q].add : q \in Dirty}
               D == UNION {upd[q].del : q \in Dirty}
    <3>1. UNION {upd'[q].add : q \in Dirty'} = A \cup upd[p].add
      BY <2>4, <2>5
    <3>2. UNION {upd'[q].del : q \in Dirty'} = D \cup upd[p].del
      BY <2>4, <2>5
    <3>3. upd[p].del \cap A = {}
      <4> SUFFICES ASSUME NEW q \in Dirty, NEW t \in upd[q].add, t \in upd[p].del PROVE FALSE
        OBVIOUS
      <4>1. ~Of(t, b)
        BY <2>1, <2>2, <2>5, Apart
      <4> QED BY <2>1, <2>3, <4>1 DEF OfItsOwn
    <3>4. Visible = (tuples \ A) \cup D
      BY DEF Visible
    <3>5. Visible' = (tuples' \ (A \cup upd[p].add)) \cup (D \cup upd[p].del)
      BY <3>1, <3>2 DEF Visible
    <3> HIDE DEF A, D
    <3> QED BY <1>3, <2>3, <3>3, <3>4, <3>5, WriteHidden DEF Exact
  <2> QED BY <2>4, <2>6, <2>7, <2>8, <2>9, AllShownKept DEF LInv
<1> QED BY <1>2, <1>3, NothingLate DEF ApplyUpdates

-----------------------------------------------------------------------------
(* Commits.                                                                *)

Committed(p, id) ==
    /\ \A other \in IDs \ {id} : Row(other)' = Row(other)
    /\ \/ /\ req[p].op \in Creates /\ Row(id) = None
          /\ Row(id)' = req[p].res /\ req[p].res \in Resources
          /\ Whole(id, req[p].res, About(id))
          /\ born' = born \cup {id}
       \/ /\ req[p].op \in Changes /\ Row(id) # None
          /\ Row(id)' = Row(id)
          /\ born' = born \/ born' = born \cup {id}
       \/ /\ req[p].op \in Removes
          /\ Row(id)' = None /\ born' = born

LEMMA CommitDoes ==
    ASSUME IInv, AInv, NEW p \in Procs, NEW id \in IDs, id = Target(p), pc[p] = "commit",
           CommitContext(p)
    PROVE  Committed(p, id)
<1>1. ApplyWrite(p)
  BY DEF CommitContext
<1>2. Stage(p, id) /\ req[p].op \in Creates \cup Changes \cup Removes
  BY StageOf DEF AInv, Calm, Creates, Changes, Removes, RoleOps, BindingOps
<1>3. pend[p] = None \/ pend[p].id = id
  BY <1>2 DEF Stage, Creation, Change, Removal, Write, Holding
<1>4. \A other \in IDs \ {id} : Row(other)' = Row(other)
  BY <1>1, <1>3, ApplyWriteRow
<1>5. CASE req[p].op \in Creates
  <2>1. pend[p] = Write(id, req[p].res) /\ Whole(id, req[p].res, About(id))
    BY <1>2, <1>5 DEF Stage, Creation
  <2>2. pend[p] # None /\ req[p].res \in Resources /\ req[p].res # None
    BY <1>5, <2>1, RequestRes, NoneNoWrite
  <2>3. Row(id)' = req[p].res /\ Row(id) = None
    BY <1>1, <1>5, <2>1, <2>2, ApplyWriteRow, StageOf DEF Write
  <2>4. born' = born \cup {id}
    BY <1>1, <2>1, <2>2 DEF ApplyWrite, Write
  <2> QED BY <1>4, <1>5, <2>1, <2>2, <2>3, <2>4 DEF Committed
<1>6. CASE req[p].op \in Changes
  <2>1. Row(id) # None /\ pend[p] \in {None, Write(id, Row(id))}
    BY <1>2, <1>6 DEF Stage, Change, Holding
  <2>2. Row(id)' = Row(id)
    BY <1>1, <2>1, ApplyWriteRow DEF Write
  <2>3. born' = born \/ born' = born \cup {id}
    BY <1>1, <2>1 DEF ApplyWrite, Write
  <2> QED BY <1>4, <1>6, <2>1, <2>2, <2>3 DEF Committed
<1>7. CASE req[p].op \in Removes
  <2>1. pend[p] = Write(id, None)
    BY <1>2, <1>7 DEF Stage, Removal
  <2>2. Row(id)' = None /\ born' = born
    BY <1>1, <2>1, NoneNoWrite, ApplyWriteRow DEF ApplyWrite, Write
  <2> QED BY <1>4, <1>7, <2>2 DEF Committed
<1> QED BY <1>2, <1>5, <1>6, <1>7

LEMMA CommitBirths ==
    ASSUME IInv, AInv, LInv, NEW p \in Procs, NEW id \in IDs, id = Target(p), pc[p] = "commit",
           Committed(p, id), pc' = [pc EXCEPT ![p] = "returned"], UNCHANGED <<req, issued>>
    PROVE  Births'
<1>1. \A b \in BindingIDs : b \in IDs /\ Row(b) = rbRow[b] /\ Row(b)' = rbRow'[b]
  BY StoreAssumption DEF IDs, Row
<1>2. born \subseteq born'
  BY DEF Committed
<1>3. id \in born' => id \in issued
  BY DEF AInv, Fresh, Committed, LInv, Births
<1>4. born' \subseteq issued
  BY <1>3 DEF LInv, Births, Committed
<1>5. ASSUME NEW b \in BindingIDs, rbRow'[b] # None PROVE b \in born'
  <2>1. CASE b # id
    BY <1>1, <1>2, <1>5, <2>1 DEF LInv, Births, Committed
  <2>2. CASE b = id
    BY <1>1, <1>2, <1>5, <2>2 DEF LInv, Births, Committed
  <2> QED BY <2>1, <2>2
<1>6. ASSUME NEW q \in Procs, req[q].op = "CreateBinding", pc'[q] # "returned"
      PROVE  req[q].rb \notin born'
  <2>1. q # p /\ pc[q] # "returned"
    BY <1>6 DEF IInv, TypeOK
  <2>2. PICK b \in BindingIDs : b = req[q].rb /\ b = Target(q) /\ b \in IDs
    BY <1>6, BindingTarget DEF BindingOps
  <2>3. b \notin born /\ Row(b) = None
    BY <1>6, <2>1, <2>2, StageOf DEF LInv, Births, Creates
  <2>4. req[p].op \notin Creates \/ b # id
    BY <1>6, <2>1, <2>2 DEF AInv, Fresh, Creates
  <2> QED BY <2>2, <2>3, <2>4 DEF Committed
<1> QED BY <1>4, <1>5, <1>6 DEF Births

LEMMA CommitRoleShows ==
    ASSUME Failures \subseteq Benign, IInv, AInv, LInv, NEW p \in Procs, CommitRole(p)
    PROVE  LInv' /\ SameShown
<1>1. /\ pc[p] = "commit" /\ req[p].op \in RoleOps /\ CommitContext(p)
      /\ Return(p, "ok") /\ UNCHANGED <<issued, tuples, over, req, upd, zed>>
  BY NothingLate DEF CommitRole
<1>2. PICK r \in RoleIDs : r = Target(p) /\ r \in IDs
  BY <1>1, RoleTarget
<1>3. Committed(p, r) /\ lock[r] = p
  BY <1>1, <1>2, CommitDoes, StageOf DEF Holding
<1>4. pc' = [pc EXCEPT ![p] = "returned"]
  BY <1>1 DEF Return, Goto
<1>5. Births'
  BY <1>1, <1>2, <1>3, <1>4, CommitBirths
<1>6. rbRow' = rbRow
  <2>1. Stage(p, r)
    BY <1>2, StageOf
  <2>2. pend[p] = None \/ pend[p].id = r
    BY <1>1, <2>1 DEF Stage, Creation, Change, Removal, Write, Holding, Creates, Changes,
                      Removes, RoleOps
  <2> QED BY <1>1, <1>2, <2>2, StoreAssumption DEF CommitContext, ApplyWrite
<1>7. born \subseteq born' /\ born' \subseteq issued /\ born' \subseteq born \cup {r}
  BY <1>1, <1>3, <1>5 DEF Committed, Births
<1>8. pc'[p] = "returned" /\ \A q \in Procs \ {p} : pc'[q] = pc[q]
  BY <1>4 DEF IInv, TypeOK
<1> QED BY <1>1, <1>2, <1>3, <1>6, <1>7, <1>8, RoleWriteShows

(* What a commit of a binding shows: a step of the ledger.                 *)
LEMMA CommitSees ==
    ASSUME IInv, AInv, LInv, NEW p \in Procs, NEW b \in BindingIDs, b = Target(p), b = req[p].rb,
           req[p].op \in BindingOps, pc[p] = "commit", lock[b] = p,
           pc' = [pc EXCEPT ![p] = "returned"], UNCHANGED <<tuples, req, upd>>
    PROVE  /\ Dirty' = Dirty \ {p} /\ p \in Dirty
           /\ \A t : Of(t, b) => (t \in Visible' <=> t \in tuples)
           /\ \A t : t \notin upd[p].add \cup upd[p].del => (t \in Visible' <=> t \in Visible)
<1> DEFINE A == UNION {upd[q].add : q \in Dirty \ {p}}
           D == UNION {upd[q].del : q \in Dirty \ {p}}
<1>1. Dirty' = Dirty \ {p} /\ p \in Dirty
  BY DEF Dirty, IInv, TypeOK
<1>2. Visible' = (tuples \ A) \cup D
  BY <1>1 DEF Visible
<1>3. Visible = (tuples \ (A \cup upd[p].add)) \cup (D \cup upd[p].del)
  <2>1. /\ UNION {upd[q].add : q \in Dirty} = A \cup upd[p].add
        /\ UNION {upd[q].del : q \in Dirty} = D \cup upd[p].del
    BY <1>1
  <2> QED BY <2>1 DEF Visible
<1>4. \A t \in A \cup D : ~Of(t, b)
  <2>1. ASSUME NEW q \in Dirty \ {p}, NEW t \in upd[q].add \cup upd[q].del PROVE ~Of(t, b)
    BY <2>1, Apart DEF IDs
  <2> QED BY <2>1
<1> HIDE DEF A, D
<1> QED BY <1>1, <1>2, <1>3, <1>4

LEMMA CommitBindingStep ==
    ASSUME Failures \subseteq Benign, IInv, AInv, LInv, NEW p \in Procs, CommitBinding(p)
    PROVE  /\ LInv'
           /\ \E b \in BindingIDs :
                 /\ \A c \in BindingIDs \ {b} : Shown(c)' = Shown(c)
                 /\ \/ /\ Shown(b)' \in Ledger!Records /\ b \notin born
                       /\ born' = born \cup {b}
                    \/ /\ Shown(b) \in Views /\ born' = born
                       /\ \E S \in SUBSET Subjects :
                             Shown(b)' = [Shown(b) EXCEPT !.subjects = S]
                    \/ Shown(b)' = None /\ born' = born
<1>1. /\ pc[p] = "commit" /\ req[p].op \in BindingOps /\ CommitContext(p)
      /\ Return(p, "ok") /\ UNCHANGED <<issued, tuples, over, req, upd, zed>>
  BY NothingLate DEF CommitBinding
<1>2. PICK b \in BindingIDs : b = Target(p) /\ b = req[p].rb /\ b \in IDs /\ b \notin RoleIDs
  BY <1>1, BindingTarget
<1>3. Committed(p, b) /\ lock[b] = p
  BY <1>1, <1>2, CommitDoes, StageOf DEF Holding
<1>4. pc' = [pc EXCEPT ![p] = "returned"]
  BY <1>1 DEF Return, Goto
<1>5. /\ Dirty' = Dirty \ {p} /\ p \in Dirty
      /\ \A t : Of(t, b) => (t \in Visible' <=> t \in tuples)
      /\ \A t : t \notin upd[p].add \cup upd[p].del => (t \in Visible' <=> t \in Visible)
  BY <1>1, <1>2, <1>3, <1>4, CommitSees
<1>6. OfItsOwn(p)
  BY <1>5 DEF LInv, Uncommitted
<1>7. \A c \in BindingIDs : Row(c) = rbRow[c] /\ Row(c)' = rbRow'[c]
  BY StoreAssumption DEF Row
<1>8. LInv'
  <2>1. Births'
    BY <1>1, <1>2, <1>3, <1>4, CommitBirths
  <2>2. Differences'
    BY <1>1, <1>4 DEF LInv, Differences, Exact, IInv, TypeOK
  <2>3. Uncommitted'
    BY <1>1, <1>5 DEF LInv, Uncommitted, OfItsOwn
  <2> QED BY <2>1, <2>2, <2>3 DEF LInv
<1>9. ASSUME NEW c \in BindingIDs \ {b} PROVE Shown(c)' = Shown(c)
  <2>1. rbRow'[c] = rbRow[c]
    BY <1>3, <1>7 DEF Committed, IDs
  <2>2. /\ \A r \in RoleIDs : ~Of(BindingRole(c, r), b)
        /\ \A s \in Subjects : ~Of(BindingSubject(c, s), b)
    BY <1>9 DEF Of, BindingRole, BindingSubject
  <2>3. \A t : ~Of(t, b) => (t \in Visible' <=> t \in Visible)
    BY <1>2, <1>5, <1>6 DEF OfItsOwn
  <2> QED BY <2>1, <2>2, <2>3, ShownKept
<1>10. CASE req[p].op \in Creates
  <2>1. /\ rbRow'[b] = req[p].res /\ req[p].res \in Resources /\ req[p].res # None
        /\ Whole(b, req[p].res, About(b)) /\ born' = born \cup {b} /\ rbRow[b] = None
    BY <1>3, <1>7, <1>10, RequestRes DEF Committed, Creates, Changes, Removes
  <2>2. b \notin born
    BY <1>1, <1>2, <1>10 DEF LInv, Births, Creates, BindingOps
  <2>3. PICK r \in RoleIDs : /\ BindingRole(b, r) \in About(b)
                             /\ \A t \in About(b) : t.rel = "role" => t = BindingRole(b, r)
    BY <1>2, <2>1 DEF Whole
  <2>4. \A s \in RoleIDs : BindingRole(b, s) \in Visible' <=> s = r
    <3>1. \A s \in RoleIDs : Of(BindingRole(b, s), b)
      BY DEF Of, BindingRole
    <3>2. \A s \in RoleIDs : BindingRole(b, s) \in tuples <=> s = r
      BY <2>3, <3>1 DEF About, BindingRole
    <3> QED BY <1>5, <3>1, <3>2
  <2>5. {s \in RoleIDs : BindingRole(b, s) \in Visible'} = {r}
    BY <2>4
  <2>6. RoleShown(b)' = r
    <3>1. Cardinality({s \in RoleIDs : BindingRole(b, s) \in Visible'}) = 1
      BY <2>5, FS_Singleton
    <3>2. RoleShown(b)' = CHOOSE s \in {s \in RoleIDs : BindingRole(b, s) \in Visible'} : TRUE
      BY <3>1 DEF RoleShown, BindingRole
    <3> QED BY <2>5, <3>2
  <2>7. Shown(b)' = [role |-> r, res |-> req[p].res,
                     subjects |-> {s \in Subjects : BindingSubject(b, s) \in Visible'}]
    BY <2>1, <2>6 DEF Shown, BindingSubject
  <2>8. Shown(b)' \in Ledger!Records
    BY <2>1, <2>7 DEF Ledger!Records
  <2> QED BY <1>8, <1>9, <2>1, <2>2, <2>8
<1>11. CASE req[p].op \in Changes
  <2>1. /\ rbRow[b] # None /\ rbRow'[b] = rbRow[b]
        /\ born' = born \/ born' = born \cup {b}
    BY <1>3, <1>7, <1>11 DEF Committed, Creates, Changes, Removes
  <2>2. born' = born
    BY <2>1 DEF LInv, Births
  <2>3. req[p].op = "UpdateBinding"
    BY <1>1, <1>11 DEF Changes, BindingOps
  <2>4. \A r \in RoleIDs : BindingRole(b, r) \in Visible' <=> BindingRole(b, r) \in Visible
    <3>1. \A t \in upd[p].add \cup upd[p].del : t.rel = "subject"
      BY <1>6, <2>3 DEF OfItsOwn
    <3>2. \A r \in RoleIDs : BindingRole(b, r).rel # "subject"
      BY DEF BindingRole
    <3> QED BY <1>5, <3>1, <3>2
  <2>5. RoleShown(b)' = RoleShown(b)
    BY <2>4, RoleShownKept
  <2> DEFINE S == {s \in Subjects : BindingSubject(b, s) \in Visible}
  <2>6. Shown(b) = [role |-> RoleShown(b), res |-> rbRow[b], subjects |-> S]
    BY <2>1 DEF Shown
  <2>7. Shown(b)' = [role |-> RoleShown(b), res |-> rbRow[b], subjects |-> S']
    BY <2>1, <2>5 DEF Shown, BindingSubject
  <2>8. Shown(b) \in Views
    BY <2>1, ShownTypes
  <2>9. S' \in SUBSET Subjects
    OBVIOUS
  <2> HIDE DEF S
  <2>10. Shown(b)' = [Shown(b) EXCEPT !.subjects = S']
    BY <2>6, <2>7
  <2> QED BY <1>8, <1>9, <2>2, <2>8, <2>9, <2>10
<1>12. CASE req[p].op \in Removes
  <2>1. rbRow'[b] = None /\ born' = born
    BY <1>3, <1>7, <1>12 DEF Committed, Creates, Changes, Removes
  <2>2. Shown(b)' = None
    BY <2>1 DEF Shown
  <2> QED BY <1>8, <1>9, <2>1, <2>2
<1> QED BY <1>3, <1>10, <1>11, <1>12 DEF Committed

-----------------------------------------------------------------------------
(* Requests come and go.                                                   *)

(* A request that arrives changes nothing that is shown; a new binding is   *)
(* unborn, its identifier being new.                                       *)
LEMMA StartAtShows ==
    ASSUME IInv, AInv, LInv, NEW p \in Procs, NEW r \in Requests,
           NEW l \in {"begin", "bindable"}, StartAt(p, r, l), issued \subseteq issued',
           r.op = "CreateBinding" => r.rb \notin issued
    PROVE  LInv' /\ SameShown
<1>1. issued \subseteq issued' /\ l \in {"begin", "bindable"}
      /\ (r.op = "CreateBinding" => r.rb \notin issued)
  OBVIOUS
<1>2. /\ pc[p] = "idle" /\ pc' = [pc EXCEPT ![p] = l] /\ req' = [req EXCEPT ![p] = r]
      /\ UNCHANGED <<rbRow, born, tuples, upd>>
  BY DEF StartAt, Goto, dbVars
<1>3. Dirty' = Dirty /\ p \notin Dirty
  BY <1>1, <1>2 DEF Dirty, IInv, TypeOK
<1>4. \A q \in Procs \ {p} : pc'[q] = pc[q] /\ req'[q] = req[q]
  BY <1>2 DEF IInv, TypeOK
<1>5. pc'[p] = l /\ req'[p] = r
  BY <1>2 DEF IInv, TypeOK
<1>6. Births'
  BY <1>1, <1>2, <1>4, <1>5 DEF LInv, Births
<1>7. Differences'
  BY <1>1, <1>2, <1>4, <1>5 DEF LInv, Differences, Exact
<1>8. Uncommitted'
  BY <1>2, <1>3, <1>4 DEF LInv, Uncommitted, OfItsOwn, Dirty
<1>9. Visible' = Visible
  BY <1>2, <1>3 DEF Visible
<1> QED BY <1>2, <1>6, <1>7, <1>8, <1>9, AllShownKept DEF LInv

LEMMA StartShows ==
    ASSUME IInv, AInv, LInv, NEW p \in Procs, Start(p)
    PROVE  LInv' /\ SameShown
<1>1. ASSUME NEW r \in RoleIDs \ issued, NEW x \in Resources, NEW acts \in SUBSET Actions,
             StartAt(p, [op |-> "CreateRole", role |-> r, res |-> x, actions |-> acts], "begin"),
             issued' = issued \cup {r}
      PROVE  LInv' /\ SameShown
  <2> DEFINE q == [op |-> "CreateRole", role |-> r, res |-> x, actions |-> acts]
  <2>1. q \in Requests /\ q.op # "CreateBinding"
    BY DEF Requests
  <2> HIDE DEF q
  <2> QED BY <1>1, <2>1, StartAtShows DEF q
<1>2. ASSUME NEW r \in RoleIDs, NEW n \in BOOLEAN, NEW acts \in SUBSET Actions,
             StartAt(p, [op |-> "UpdateRole", role |-> r, rename |-> n, actions |-> acts], "begin"),
             UNCHANGED issued
      PROVE  LInv' /\ SameShown
  <2> DEFINE q == [op |-> "UpdateRole", role |-> r, rename |-> n, actions |-> acts]
  <2>1. q \in Requests /\ q.op # "CreateBinding"
    BY DEF Requests
  <2> HIDE DEF q
  <2> QED BY <1>2, <2>1, StartAtShows DEF q
<1>3. ASSUME NEW r \in RoleIDs,
             StartAt(p, [op |-> "DeleteRole", role |-> r], "begin"),
             UNCHANGED issued
      PROVE  LInv' /\ SameShown
  <2> DEFINE q == [op |-> "DeleteRole", role |-> r]
  <2>1. q \in Requests /\ q.op # "CreateBinding"
    BY DEF Requests
  <2> HIDE DEF q
  <2> QED BY <1>3, <2>1, StartAtShows DEF q
<1>4. ASSUME NEW b \in BindingIDs \ issued, NEW r \in RoleIDs, NEW x \in Resources,
             NEW subjs \in SUBSET Subjects,
             StartAt(p, [op |-> "CreateBinding", rb |-> b, role |-> r, res |-> x,
                         subjects |-> subjs], "bindable"),
             issued' = issued \cup {b}
      PROVE  LInv' /\ SameShown
  <2> DEFINE q == [op |-> "CreateBinding", rb |-> b, role |-> r, res |-> x, subjects |-> subjs]
  <2>1. q \in Requests /\ q.rb \notin issued
    BY DEF Requests
  <2> HIDE DEF q
  <2> QED BY <1>4, <2>1, StartAtShows DEF q
<1>5. ASSUME NEW b \in BindingIDs, NEW subjs \in SUBSET Subjects,
             StartAt(p, [op |-> "UpdateBinding", rb |-> b, subjects |-> subjs], "begin"),
             UNCHANGED issued
      PROVE  LInv' /\ SameShown
  <2> DEFINE q == [op |-> "UpdateBinding", rb |-> b, subjects |-> subjs]
  <2>1. q \in Requests /\ q.op # "CreateBinding"
    BY DEF Requests
  <2> HIDE DEF q
  <2> QED BY <1>5, <2>1, StartAtShows DEF q
<1>6. ASSUME NEW b \in BindingIDs,
             StartAt(p, [op |-> "DeleteBinding", rb |-> b], "begin"),
             UNCHANGED issued
      PROVE  LInv' /\ SameShown
  <2> DEFINE q == [op |-> "DeleteBinding", rb |-> b]
  <2>1. q \in Requests /\ q.op # "CreateBinding"
    BY DEF Requests
  <2> HIDE DEF q
  <2> QED BY <1>6, <2>1, StartAtShows DEF q
<1> QED BY <1>1, <1>2, <1>3, <1>4, <1>5, <1>6 DEF Start, StartRole, StartBinding

LEMMA RequestEndShows ==
    ASSUME IInv, AInv, LInv, NEW p \in Procs, RequestEnd(p)
    PROVE  LInv' /\ SameShown
<1>1. /\ pc[p] = "returned" /\ pc' = [pc EXCEPT ![p] = "idle"]
      /\ req' = [req EXCEPT ![p] = NoRequest] /\ upd' = [upd EXCEPT ![p] = NoUpdate]
      /\ UNCHANGED <<rbRow, born, issued, tuples>>
  BY DEF RequestEnd, RollbackContext, Goto
<1>2. Dirty' = Dirty /\ p \notin Dirty
  BY <1>1 DEF Dirty, IInv, TypeOK
<1>3. \A q \in Procs \ {p} : pc'[q] = pc[q] /\ req'[q] = req[q] /\ upd'[q] = upd[q]
  BY <1>1 DEF IInv, TypeOK
<1>4. pc'[p] = "idle" /\ req'[p].op = "none"
  BY <1>1 DEF IInv, TypeOK, NoRequest
<1>5. Births'
  BY <1>1, <1>3, <1>4 DEF LInv, Births
<1>6. Differences'
  BY <1>1, <1>3, <1>4 DEF LInv, Differences, Exact
<1>7. Uncommitted'
  BY <1>2, <1>3 DEF LInv, Uncommitted, OfItsOwn, Dirty
<1>8. Visible' = Visible
  <2>1. /\ UNION {upd'[q].add : q \in Dirty'} = UNION {upd[q].add : q \in Dirty}
        /\ UNION {upd'[q].del : q \in Dirty'} = UNION {upd[q].del : q \in Dirty}
    BY <1>2, <1>3 DEF Dirty
  <2> QED BY <1>1, <2>1 DEF Visible
<1> QED BY <1>1, <1>5, <1>6, <1>7, <1>8, AllShownKept DEF LInv

-----------------------------------------------------------------------------
(* The refinement.                                                         *)

LEMMA InitShows == Init => LInv /\ Ledger!Init
<1> SUFFICES ASSUME Init PROVE LInv /\ Ledger!Init
  OBVIOUS
<1>1. LInv
  BY DEF Init, LInv, Births, Differences, Uncommitted, Dirty, NoRequest, BindingOps
<1>2. [b \in BindingIDs |-> Shown(b)] = [b \in BindingIDs |-> None]
  BY DEF Init, Shown
<1>3. born \cap BindingIDs = {}
  BY DEF Init
<1> QED BY <1>1, <1>2, <1>3 DEF Ledger!Init

SeenBindings == [b \in BindingIDs |-> Shown(b)]
SeenSpent    == born \cap BindingIDs

LEMMA CommitIsLedgerStep ==
    ASSUME Failures \subseteq Benign, IInv, AInv, LInv, NEW p \in Procs, CommitBinding(p)
    PROVE  LInv' /\ [Ledger!Next]_<<SeenBindings, SeenSpent>>
<1> DEFINE f == SeenBindings
<1>1. LInv'
  BY CommitBindingStep
<1>2. PICK b \in BindingIDs :
         /\ \A c \in BindingIDs \ {b} : Shown(c)' = Shown(c)
         /\ \/ /\ Shown(b)' \in Ledger!Records /\ b \notin born
               /\ born' = born \cup {b}
            \/ /\ Shown(b) \in Views /\ born' = born
               /\ \E S \in SUBSET Subjects :
                     Shown(b)' = [Shown(b) EXCEPT !.subjects = S]
            \/ Shown(b)' = None /\ born' = born
  BY CommitBindingStep
<1>3. \A new : Shown(b)' = new => SeenBindings' = [SeenBindings EXCEPT ![b] = new]
  BY <1>2 DEF SeenBindings
<1>4. SeenBindings[b] = Shown(b)
  BY DEF SeenBindings
<1>5. CASE Shown(b)' \in Ledger!Records /\ b \notin born /\ born' = born \cup {b}
  <2>1. Ledger!Create(b, Shown(b)')
    BY <1>3, <1>5 DEF Ledger!Create, SeenBindings
  <2> QED BY <1>1, <1>5, <2>1 DEF Ledger!Next
<1>6. CASE /\ Shown(b) \in Views /\ born' = born
           /\ \E S \in SUBSET Subjects : Shown(b)' = [Shown(b) EXCEPT !.subjects = S]
  <2>1. PICK S \in SUBSET Subjects : Shown(b)' = [Shown(b) EXCEPT !.subjects = S]
    BY <1>6
  <2>2. Shown(b) # None
    BY <1>6, ViewAssumption
  <2>3. SeenBindings' = [SeenBindings EXCEPT ![b].subjects = S]
    BY <1>3, <1>4, <2>1
  <2>4. Ledger!SetSubjects(b, S)
    BY <1>4, <1>6, <2>2, <2>3 DEF Ledger!SetSubjects, SeenBindings
  <2> QED BY <1>1, <2>4 DEF Ledger!Next
<1>7. CASE Shown(b)' = None /\ born' = born
  <2>1. CASE Shown(b) = None
    <3>1. UNCHANGED <<SeenBindings, SeenSpent>>
      BY <1>2, <1>7, <2>1 DEF SeenBindings, SeenSpent
    <3> QED BY <1>1, <3>1
  <2>2. CASE Shown(b) # None
    <3>1. Ledger!Delete(b)
      BY <1>3, <1>4, <1>7, <2>2 DEF Ledger!Delete, SeenBindings
    <3> QED BY <1>1, <3>1 DEF Ledger!Next
  <2> QED BY <2>1, <2>2
<1> QED BY <1>2, <1>5, <1>6, <1>7

LEMMA NextShows ==
    ASSUME Failures \subseteq Benign
    PROVE  IInv /\ AInv /\ LInv /\ [Next]_vars
              => LInv' /\ [Ledger!Next]_<<SeenBindings, SeenSpent>>
<1> SUFFICES ASSUME IInv, AInv, LInv, [Next]_vars
             PROVE  LInv' /\ [Ledger!Next]_<<SeenBindings, SeenSpent>>
  OBVIOUS
<1>1. ASSUME LInv' /\ SameShown PROVE LInv' /\ [Ledger!Next]_<<SeenBindings, SeenSpent>>
  BY <1>1 DEF SameShown, SeenBindings, SeenSpent
<1>2. CASE UNCHANGED vars
  <2>1. Dirty' = Dirty /\ Visible' = Visible
    BY <1>2 DEF vars, dbVars, procVars, Dirty, Visible
  <2>2. LInv'
    BY <1>2, <2>1 DEF vars, dbVars, procVars, LInv, Births, Differences, Exact, Uncommitted,
                      OfItsOwn
  <2>3. SameShown
    BY <1>2, <2>1, AllShownKept DEF vars, dbVars
  <2> QED BY <1>1, <2>2, <2>3
<1>3. ASSUME NEW p \in Procs, Start(p) \/ Work(p) \/ Cancel(p)
      PROVE  LInv' /\ [Ledger!Next]_<<SeenBindings, SeenSpent>>
  <2>1. ~Cancel(p) /\ ~AbortTx(p) /\ ~RollbackUpdates(p)
    BY NothingLate DEF Cancel, AbortTx, RollbackUpdates, AInv, Calm
  <2>2. CASE Start(p) \/ RequestEnd(p)
    BY <1>1, <2>2, StartShows, RequestEndShows
  <2>3. CASE RoleStep(p)
    BY <1>1, <2>3, RoleStepQuiet, QuietShows, WriteRoleShows, UnlinkShows, CommitRoleShows
       DEF RoleStep
  <2>4. CASE BindingStep(p)
    BY <1>1, <2>1, <2>4, BindingStepQuiet, QuietShows, ApplyShows, CommitIsLedgerStep
       DEF BindingStep
  <2> QED BY <1>3, <2>1, <2>2, <2>3, <2>4 DEF Work
<1> QED BY <1>2, <1>3 DEF Next

(* The operations on role bindings are those of the ledger: whatever runs  *)
(* beside them, a binding appears, changes and disappears as one record,   *)
(* at the COMMIT of one request, and its identifier never returns.         *)
THEOREM BindingsAreALedger ==
    ASSUME Failures \subseteq Benign
    PROVE  Spec => LedgerImplemented
<1>1. [Ledger!Next]_<<SeenBindings, SeenSpent>>
         <=> [Ledger!Next]_<<[b \in BindingIDs |-> Shown(b)], born \cap BindingIDs>>
  BY DEF SeenBindings, SeenSpent
<1> QED BY <1>1, InitShows, NextShows, RBACInv, AgreeInv, PTL
        DEF Spec, LedgerImplemented, Ledger!Spec
-----------------------------------------------------------------------------
(* The listings.                                                           *)

(* what a listing says of a binding with relationships                     *)
Told(b) == IF SubjectsOf(b) # {} THEN {Listed(b, r, SubjectsOf(b)) : r \in RolesOf(b)} ELSE {}

(* a binding that nobody touched is not granted, or still to be looked up, *)
(* or listed as it is                                                      *)
Placed(d, b) ==
    LET said == {e \in found[d] : e.rb = b} IN
    /\ b \in todo[d] => Grant(on[d], b) \in tuples /\ said = {}
    /\ Grant(on[d], b) \notin tuples => said = {}
    /\ Grant(on[d], b) \in tuples /\ b \notin todo[d] => errs[d] # {} \/ said = Told(b)

ListingBindings(d) ==
    /\ todo[d] \subseteq BindingIDs /\ on[d] \in Resources
    /\ rpc[d] = "rels" => cur[d] \in todo[d]
    /\ \A b \in BindingIDs \cap calm[d] : Settled(b) /\ Placed(d, b)

ListingRoles(d) ==
    /\ on[d] \in Resources
    /\ todo[d] \subseteq RoleIDs
    /\ \A r \in RoleIDs \cap calm[d] : Settled(r) /\ (r \in todo[d] <=> Available(r, on[d]))

ListTypes ==
    /\ rpc \in [Readers -> ReaderLabels] /\ DOMAIN on = Readers /\ DOMAIN todo = Readers
    /\ DOMAIN cur = Readers /\ DOMAIN found = Readers /\ DOMAIN errs = Readers
    /\ DOMAIN calm = Readers

Listings(d) ==
    /\ rpc[d] = "idle" => found[d] = {} /\ errs[d] = {}
    /\ rpc[d] \in {"row", "rels"} => ListingBindings(d)
    /\ "stream" \notin Failures /\ rpc[d] = "batch" => ListingRoles(d)

ListInv == OwnInv /\ ListTypes /\ \A d \in Readers : Listings(d)

-----------------------------------------------------------------------------
(* What a listing compares with depends on the identifier's tuples alone.  *)
LEMMA ToldKept ==
    ASSUME NEW b \in BindingIDs, About(b)' = About(b)
    PROVE  /\ \A x : Grant(x, b) \in tuples' <=> Grant(x, b) \in tuples
           /\ Told(b)' = Told(b)
<1>1. \A t : Of(t, b) => (t \in tuples' <=> t \in tuples)
  BY DEF About, Of
<1>2. \A x : Grant(x, b) \in tuples' <=> Grant(x, b) \in tuples
  BY <1>1 DEF Grant, Of
<1>3. \A r : BindingRole(b, r) \in tuples' <=> BindingRole(b, r) \in tuples
  BY <1>1 DEF BindingRole, Of
<1>4. \A s : BindingSubject(b, s) \in tuples' <=> BindingSubject(b, s) \in tuples
  BY <1>1 DEF BindingSubject, Of
<1>5. SubjectsOf(b)' = SubjectsOf(b) /\ RolesOf(b)' = RolesOf(b)
  BY <1>3, <1>4 DEF SubjectsOf, RolesOf
<1> QED
  BY <1>2, <1>5 DEF Told, Listed

(* A listing that takes no step, and whose calm identifiers are as before. *)
Rests(d) ==
    /\ rpc'[d] = rpc[d] /\ on'[d] = on[d] /\ todo'[d] = todo[d] /\ cur'[d] = cur[d]
    /\ found'[d] = found[d] /\ errs'[d] = errs[d]
    /\ calm'[d] \subseteq calm[d]
    /\ \A id \in IDs \cap calm'[d] : Settled(id) => Settled(id)' /\ About(id)' = About(id)

LEMMA ListingRests ==
    ASSUME NEW d \in Readers, Listings(d), Rests(d)
    PROVE  Listings(d)'
<1>1. rpc'[d] = "idle" => found'[d] = {} /\ errs'[d] = {}
  BY DEF Listings, Rests
<1>2. ASSUME rpc'[d] \in {"row", "rels"} PROVE ListingBindings(d)'
  <2>1. ListingBindings(d)
    BY <1>2 DEF Listings, Rests
  <2>2. ASSUME NEW b \in BindingIDs \cap calm'[d] PROVE Settled(b)' /\ Placed(d, b)'
    <3>1. b \in calm[d] /\ Settled(b) /\ Placed(d, b)
      BY <2>1 DEF ListingBindings, Rests
    <3>2. Settled(b)' /\ About(b)' = About(b)
      BY <3>1 DEF Rests, IDs
    <3>3. /\ Grant(on[d], b) \in tuples' <=> Grant(on[d], b) \in tuples
          /\ Told(b)' = Told(b)
      BY <3>2, ToldKept
    <3> QED
      BY <3>1, <3>2, <3>3 DEF Placed, Rests
  <2> QED
    BY <2>1, <2>2 DEF ListingBindings, Rests
<1>3. ASSUME "stream" \notin Failures, rpc'[d] = "batch" PROVE ListingRoles(d)'
  <2>1. ListingRoles(d)
    BY <1>3 DEF Listings, Rests
  <2>2. ASSUME NEW r \in RoleIDs \cap calm'[d]
        PROVE  Settled(r)' /\ (r \in todo'[d] <=> Available(r, on[d])')
    <3>1. r \in calm[d] /\ Settled(r) /\ (r \in todo[d] <=> Available(r, on[d]))
      BY <2>1 DEF ListingRoles, Rests
    <3>2. Settled(r)' /\ About(r)' = About(r)
      BY <3>1 DEF Rests, IDs
    <3>3. on'[d] = on[d] /\ todo'[d] = todo[d]
      BY DEF Rests
    <3>4. Available(r, on[d])' <=> \E y \in Above[on[d]] : MemberRole(y, r) \in tuples'
      BY <3>3 DEF Available
    <3>5. \A y : MemberRole(y, r) \in tuples' <=> MemberRole(y, r) \in tuples
      BY <3>2 DEF About, Of, MemberRole
    <3> QED
      BY <3>1, <3>2, <3>3, <3>4, <3>5 DEF Available
  <2> QED
    BY <2>1, <2>2 DEF ListingRoles, Rests
<1> QED
  BY <1>1, <1>2, <1>3 DEF Listings

LEMMA SameRests ==
    ASSUME UNCHANGED vars, NEW d \in Readers, rpc'[d] = rpc[d], on'[d] = on[d],
           todo'[d] = todo[d], cur'[d] = cur[d], found'[d] = found[d], errs'[d] = errs[d],
           calm'[d] = calm[d]
    PROVE  Rests(d)
BY DEF Rests, Settled, About, vars, dbVars, procVars

LEMMA InitList == ListInit => ListInv
<1> SUFFICES ASSUME ListInit PROVE ListInv
  OBVIOUS
<1>1. OwnInv
  BY InitOwn DEF ListInit
<1>2. ListTypes /\ \A d \in Readers : Listings(d)
  BY DEF ListInit, ListTypes, Listings, ReaderLabels
<1> QED
  BY <1>1, <1>2 DEF ListInv

LEMMA WriterLists == ASSUME ListInv, Writer PROVE ListInv'
<1>1. PICK q \in Procs : Deed(q)
  BY NextDeed DEF ListInv, Writer
<1>2. OwnInv'
  BY <1>1, NextInv, DeedKeeps DEF ListInv, OwnInv, Writer
<1>3. ListTypes'
  BY DEF ListInv, Writer, ListTypes
<1>4. ASSUME NEW d \in Readers PROVE Listings(d)'
  <2>1. /\ UNCHANGED <<rpc, on, todo, cur, found, errs>>
        /\ calm'[d] = {id \in calm[d] : Settled(id)'}
    BY DEF Writer
  <2>2. \A id \in IDs : Settled(id) => About(id)' = About(id)
    BY <1>1, SettledStays DEF ListInv
  <2>3. Rests(d)
    BY <2>1, <2>2 DEF Rests
  <2> QED
    BY <2>3, ListingRests DEF ListInv
<1> QED
  BY <1>2, <1>3, <1>4 DEF ListInv

(* What a step of a listing leaves alone: the stores, the requests and the *)
(* other listings.                                                         *)
Alone(d) ==
    /\ UNCHANGED vars
    /\ \A e \in Readers \ {d} :
          /\ rpc'[e] = rpc[e] /\ on'[e] = on[e] /\ todo'[e] = todo[e] /\ cur'[e] = cur[e]
          /\ found'[e] = found[e] /\ errs'[e] = errs[e] /\ calm'[e] = calm[e]

LEMMA ReaderAlone ==
    ASSUME ListTypes, NEW d \in Readers, Reader(d)
    PROVE  Alone(d) /\ ListTypes'
<1>1. CASE ReadGrants(d)
  BY <1>1 DEF ReadGrants, GotoR, ListTypes, ReaderLabels, Alone
<1>2. CASE FetchRow(d)
  BY <1>2 DEF FetchRow, GotoR, ListTypes, ReaderLabels, Alone
<1>3. CASE FetchRels(d)
  BY <1>3 DEF FetchRels, GotoR, ListTypes, ReaderLabels, Alone
<1>4. CASE AnswerBindings(d)
  BY <1>4 DEF AnswerBindings, GotoR, ListTypes, ReaderLabels, Alone
<1>5. CASE LookupRoles(d)
  BY <1>5 DEF LookupRoles, GotoR, ListTypes, ReaderLabels, Alone
<1>6. CASE BatchGetRoles(d)
  BY <1>6 DEF BatchGetRoles, GotoR, ListTypes, ReaderLabels, Alone
<1>7. CASE Forget(d)
  BY <1>7 DEF Forget, GotoR, ListTypes, ReaderLabels, Alone
<1> QED
  BY <1>1, <1>2, <1>3, <1>4, <1>5, <1>6, <1>7 DEF Reader

LEMMA ReadGrantsLists ==
    ASSUME ListTypes, NEW d \in Readers, Listings(d), ReadGrants(d)
    PROVE  Listings(d)'
<1>1. PICK x \in Resources :
         /\ on'[d] = x /\ todo'[d] = {b \in BindingIDs : Grant(x, b) \in tuples}
         /\ rpc'[d] = "row" /\ found'[d] = {} /\ errs' = errs /\ UNCHANGED vars
         /\ calm'[d] = {id \in RoleIDs \cup BindingIDs : Settled(id)}
  BY DEF ReadGrants, GotoR, ListTypes, Listings
<1>2. UNCHANGED <<tuples, lock, pc, req>>
  BY <1>1 DEF vars, dbVars, procVars
<1>3. ASSUME NEW b \in BindingIDs \cap calm'[d] PROVE Settled(b)' /\ Placed(d, b)'
  BY <1>1, <1>2, <1>3 DEF Settled, Placed
<1> QED
  BY <1>1, <1>3 DEF Listings, ListingBindings

LEMMA FetchRowLists ==
    ASSUME ListTypes, NEW d \in Readers, Listings(d), FetchRow(d)
    PROVE  Listings(d)'
<1>1. PICK b \in todo[d] :
         \/ /\ rpc'[d] = "rels" /\ cur'[d] = b /\ todo'[d] = todo[d] /\ errs'[d] = errs[d]
         \/ rpc'[d] = "row" /\ todo'[d] = todo[d] \ {b} /\ errs'[d] # {}
  BY DEF FetchRow, GotoR, ListTypes
<1>2. UNCHANGED <<tuples, lock, pc, req>> /\ on' = on /\ found' = found /\ calm' = calm
  BY DEF FetchRow, vars, dbVars, procVars
<1>3. ListingBindings(d)
  BY DEF FetchRow, Listings
<1>4. ASSUME NEW c \in BindingIDs \cap calm[d] PROVE Settled(c)' /\ Placed(d, c)'
  <2>1. Settled(c) /\ Placed(d, c)
    BY <1>3 DEF ListingBindings
  <2>2. Told(c)' = Told(c) /\ Settled(c)'
    BY <1>2, <2>1 DEF Told, SubjectsOf, RolesOf, Settled
  <2> QED
    BY <1>1, <1>2, <2>1, <2>2 DEF Placed
<1> QED
  BY <1>1, <1>2, <1>3, <1>4 DEF Listings, ListingBindings

LEMMA FetchRelsLists ==
    ASSUME ListTypes, NEW d \in Readers, Listings(d), FetchRels(d)
    PROVE  Listings(d)'
<1> DEFINE b == cur[d]
<1>1. /\ rpc[d] = "rels" /\ rpc'[d] = "row" /\ todo'[d] = todo[d] \ {b}
      /\ UNCHANGED <<tuples, lock, pc, req>> /\ on' = on /\ calm' = calm
  BY DEF FetchRels, GotoR, ListTypes, vars, dbVars, procVars
<1>2. ListingBindings(d) /\ b \in todo[d] /\ b \in BindingIDs
  BY <1>1 DEF Listings, ListingBindings
<1>3. \/ errs'[d] # {} /\ found'[d] = found[d]
      \/ errs'[d] = errs[d] /\ found'[d] = found[d] \cup Told(b)
  BY DEF FetchRels, ListTypes, Told
<1>4. \A e \in Told(b) : e.rb = b
  BY DEF Told, Listed
<1>5. ASSUME NEW c \in BindingIDs \cap calm[d] PROVE Settled(c)' /\ Placed(d, c)'
  <2>1. Settled(c) /\ Placed(d, c)
    BY <1>2 DEF ListingBindings
  <2>2. Told(c)' = Told(c) /\ Settled(c)'
    BY <1>1, <2>1 DEF Told, SubjectsOf, RolesOf, Settled
  <2>3. CASE c = b
    BY <1>1, <1>2, <1>3, <1>4, <2>1, <2>2, <2>3 DEF Placed
  <2>4. CASE c # b
    <3>1. {e \in found'[d] : e.rb = c} = {e \in found[d] : e.rb = c}
      BY <1>3, <1>4, <2>4
    <3>2. errs[d] # {} => errs'[d] # {}
      BY <1>3
    <3> QED
      BY <1>1, <2>1, <2>2, <2>4, <3>1, <3>2 DEF Placed
  <2> QED
    BY <2>3, <2>4
<1> QED
  BY <1>1, <1>2, <1>5 DEF Listings, ListingBindings

LEMMA LookupRolesLists ==
    ASSUME ListTypes, NEW d \in Readers, Listings(d), LookupRoles(d)
    PROVE  Listings(d)'
<1>1. PICK x \in Resources :
         /\ on'[d] = x /\ rpc'[d] = "batch"
         /\ todo'[d] \subseteq RoleIDs
         /\ "stream" \notin Failures => todo'[d] = {r \in RoleIDs : Available(r, x)}
         /\ calm'[d] = {id \in RoleIDs \cup BindingIDs : Settled(id)}
  BY DEF LookupRoles, GotoR, ListTypes
<1>2. UNCHANGED <<tuples, lock, pc, req>>
  BY DEF LookupRoles, vars, dbVars, procVars
<1>3. ASSUME "stream" \notin Failures, NEW r \in RoleIDs \cap calm'[d]
      PROVE  Settled(r)' /\ (r \in todo'[d] <=> Available(r, on[d])')
  BY <1>1, <1>2, <1>3 DEF Settled, Available
<1> QED
  BY <1>1, <1>3 DEF Listings, ListingRoles

LEMMA ReaderLists == ASSUME ListInv, NEW d \in Readers, Reader(d) PROVE ListInv'
<1>1. ListTypes /\ Listings(d) /\ Alone(d) /\ ListTypes'
  BY ReaderAlone DEF ListInv
<1>2. OwnInv'
  BY <1>1, OwnStutters DEF ListInv, Alone
<1>3. ASSUME NEW e \in Readers, e # d PROVE Listings(e)'
  <2>1. Rests(e)
    BY <1>1, <1>3, SameRests DEF Alone
  <2> QED
    BY <2>1, ListingRests DEF ListInv
<1>4. CASE AnswerBindings(d) \/ BatchGetRoles(d)
  <2>1. rpc'[d] = "answered"
    BY <1>1, <1>4 DEF AnswerBindings, BatchGetRoles, GotoR, ListTypes
  <2> QED
    BY <1>1, <1>2, <1>3, <2>1 DEF ListInv, Listings
<1>5. CASE Forget(d)
  <2>1. rpc'[d] = "idle" /\ found'[d] = {} /\ errs'[d] = {}
    BY <1>1, <1>5 DEF Forget, GotoR, ListTypes
  <2> QED
    BY <1>1, <1>2, <1>3, <2>1 DEF ListInv, Listings
<1>6. CASE ReadGrants(d) \/ FetchRow(d) \/ FetchRels(d) \/ LookupRoles(d)
  BY <1>1, <1>2, <1>3, <1>6, ReadGrantsLists, FetchRowLists, FetchRelsLists, LookupRolesLists
     DEF ListInv
<1> QED
  BY <1>4, <1>5, <1>6 DEF Reader

LEMMA NextLists == ListInv /\ [ListNext]_allVars => ListInv'
<1> SUFFICES ASSUME ListInv, [ListNext]_allVars PROVE ListInv'
  OBVIOUS
<1>1. CASE UNCHANGED allVars
  <2>1. UNCHANGED vars /\ UNCHANGED <<rpc, on, todo, cur, found, errs, calm>>
    BY <1>1 DEF allVars, readVars
  <2>2. OwnInv' /\ ListTypes'
    BY <2>1, OwnStutters DEF ListInv, ListTypes
  <2>3. \A d \in Readers : Listings(d)'
    BY <2>1, SameRests, ListingRests DEF ListInv
  <2> QED
    BY <2>2, <2>3 DEF ListInv
<1> QED
  BY <1>1, WriterLists, ReaderLists DEF ListNext

-----------------------------------------------------------------------------
(* Whatever fails, and whatever the requests beside it do, a listing of    *)
(* bindings without errors is exact about each binding that no request     *)
(* touched meanwhile: it lists it, once, with its role and subjects, if it *)
(* is granted on the resource and has subjects.                            *)
THEOREM BindingsListed == ListSpec => ListedExactly
<1>1. ASSUME ListInv, [ListNext]_allVars
      PROVE  [\A d \in Readers : EndsBindings(d) /\ errs[d] = {} =>
               \A b \in BindingIDs \cap calm[d] :
                  {e \in found[d] : e.rb = b} =
                     IF Grant(on[d], b) \in tuples /\ SubjectsOf(b) # {}
                     THEN {Listed(b, r, SubjectsOf(b)) : r \in RolesOf(b)} ELSE {}]_allVars
  <2> SUFFICES ASSUME ListNext, NEW d \in Readers, EndsBindings(d), errs[d] = {},
                      NEW b \in BindingIDs \cap calm[d]
               PROVE  {e \in found[d] : e.rb = b} =
                         IF Grant(on[d], b) \in tuples /\ SubjectsOf(b) # {}
                         THEN {Listed(b, r, SubjectsOf(b)) : r \in RolesOf(b)} ELSE {}
    BY <1>1
  <2>1. PICK e \in Readers : Reader(e)
    BY DEF ListNext, Writer, EndsBindings
  <2>2. e = d
    BY <1>1, <2>1, ReaderAlone DEF ListInv, Alone, EndsBindings
  <2>3. todo[d] = {}
    BY <1>1, <2>1, <2>2
       DEF ListInv, ListTypes, EndsBindings, Reader, ReadGrants, FetchRow, FetchRels,
           AnswerBindings, LookupRoles, BatchGetRoles, Forget, GotoR
  <2>4. Placed(d, b)
    BY <1>1 DEF ListInv, Listings, ListingBindings, EndsBindings
  <2> QED
    BY <2>3, <2>4 DEF Placed, Told
<1> QED
  BY <1>1, InitList, NextLists, PTL DEF ListSpec, ListedExactly

(* ... and a listing of roles whose stream does not break off returns, of  *)
(* the roles that no request touched meanwhile and whose halves agree,     *)
(* exactly those that the resource or one above it owns.                   *)
THEOREM RolesListed ==
    ASSUME "stream" \notin Failures
    PROVE  ListSpec => RolesListedExactly
<1>1. ASSUME ListInv, [ListNext]_allVars
      PROVE  [\A d \in Readers : EndsRoles(d) =>
               \A r \in RoleIDs \cap calm[d] :
                  (roleRow[r] # None => MemberRole(roleRow[r], r) \in tuples)
                     => (r \in found'[d] <=> roleRow[r] \in Above[on[d]])]_allVars
  <2> SUFFICES ASSUME ListNext, NEW d \in Readers, EndsRoles(d), NEW r \in RoleIDs \cap calm[d],
                      roleRow[r] # None => MemberRole(roleRow[r], r) \in tuples
               PROVE  r \in found'[d] <=> roleRow[r] \in Above[on[d]]
    BY <1>1
  <2>1. PICK e \in Readers : Reader(e)
    BY DEF ListNext, Writer, EndsRoles
  <2>2. e = d
    BY <1>1, <2>1, ReaderAlone DEF ListInv, Alone, EndsRoles
  <2>3. found'[d] = {i \in todo[d] : roleRow[i] # None}
    BY <1>1, <2>1, <2>2
       DEF ListInv, ListTypes, EndsRoles, Reader, ReadGrants, FetchRow, FetchRels,
           AnswerBindings, LookupRoles, BatchGetRoles, Forget, GotoR
  <2>4. on[d] \in Resources /\ (r \in todo[d] <=> Available(r, on[d]))
    BY <1>1 DEF ListInv, Listings, ListingRoles, EndsRoles
  <2>5. Above[on[d]] \subseteq Resources /\ None \notin Resources
    BY <2>4, StoreAssumption
  <2>6. \A x \in Resources : MemberRole(x, r) \in tuples => roleRow[r] \in {None, x}
    BY <1>1 DEF ListInv, OwnInv, ListedByOwner
  <2> QED
    BY <2>3, <2>4, <2>5, <2>6 DEF Available
<1> QED
  BY <1>1, InitList, NextLists, PTL DEF ListSpec, RolesListedExactly
=============================================================================
