-------------------------- MODULE RBACAgree_proofs --------------------------
(***************************************************************************)
(* The two halves of roles and bindings agree, for any number of requests, *)
(* roles, bindings, resources, subjects and actions, while nothing fails   *)
(* but calls that precede a request's SpiceDB write, and that write        *)
(* (Benign).  The argument follows the row locks: what the stores say of   *)
(* an identifier is written by the request that holds its row, and each    *)
(* stage of a request tells how far it has come with it.                   *)
(*                                                                         *)
(* The second half is about the updates, whatever fails: a request whose   *)
(* context lives holds its row (Own), others change only what they hold    *)
(* (Deed), and so what an update has read stays true until it answers      *)
(* (Due).  What a rollback puts back can interfere, with bindings only.    *)
(***************************************************************************)
EXTENDS RBAC_proofs, FiniteSetTheorems

IDs == RoleIDs \cup BindingIDs

(* the row and the tuples of a role or a binding                           *)
Row(id) == IF id \in RoleIDs THEN roleRow[id] ELSE rbRow[id]

Of(t, id) == \/ t.rel \in {"action", "owner", "role", "subject"} /\ t.obj = id
             \/ t.rel \in {"member_role", "grant"} /\ t.sub = id

About(id) == {t \in tuples : Of(t, id)}

(* the tuples A link id to its resource x as the create operations do      *)
Whole(id, x, A) ==
    IF id \in RoleIDs
    THEN /\ RoleOwner(id, x) \in A
         /\ \A t \in A : t.rel = "member_role" => t = MemberRole(x, id)
         /\ MemberRole(x, id) \in A
    ELSE /\ \E r \in RoleIDs : /\ BindingRole(id, r) \in A
                               /\ \A t \in A : t.rel = "role" => t = BindingRole(id, r)
         /\ \A t \in A : t.rel = "grant" => t = Grant(x, id)
         /\ Grant(x, id) \in A

Consistent(id) ==
    IF Row(id) = None THEN About(id) = {} ELSE Whole(id, Row(id), About(id))

(* the tuples A give the actions, or the subjects, that the update asks    *)
Reached(q, A) ==
    IF q.op = "UpdateRole"
    THEN q.actions # {} => {a \in Actions : RoleAction(q.role, a) \in A} = q.actions
    ELSE {s \in Subjects : BindingSubject(q.rb, s) \in A} = q.subjects

(* ... and will once the updates u are written                             *)
Ready(q, id, A, u) ==
    /\ \A t \in u.add \cup u.del : t.rel \in {"action", "subject"} /\ t.obj = id
    /\ Reached(q, (A \ u.del) \cup u.add)

-----------------------------------------------------------------------------
(* before a request takes its row's lock, and while it holds it            *)
Waiting == {"idle", "begin", "bindable", "readRole", "insertRole", "insertBinding",
            "lockRole", "lockBinding"}

Holding == {"writeRole", "getRole", "updateRole", "findBindings", "deleteRole", "unlinkFrom",
            "unlinkTo", "unlinked", "getBinding", "readFrom", "readTo", "apply", "zed",
            "touchBinding", "deleteBinding", "commit"}

Creates == {"CreateRole", "CreateBinding"}
Changes == {"UpdateRole", "UpdateBinding"}
Removes == {"DeleteRole", "DeleteBinding"}

Target(p) == IF req[p].op \in RoleOps THEN req[p].role
             ELSE IF req[p].op \in BindingOps THEN req[p].rb ELSE None

Creation(p, id) ==
    /\ pc[p] \in {"writeRole", "apply"} =>
          /\ About(id) = {} /\ upd[p].del = {}
          /\ Whole(id, req[p].res, upd[p].add)
          /\ \A t \in upd[p].add : Of(t, id)
    /\ pc[p] \in {"zed", "commit"} => Whole(id, req[p].res, About(id))
    /\ pc[p] \in {"writeRole", "apply", "zed", "commit"} => pend[p] = Write(id, req[p].res)

Change(p, id) ==
    /\ pc[p] \in Holding => /\ Row(id) # None /\ Whole(id, Row(id), About(id))
                            /\ pend[p] \in {None, Write(id, Row(id))}
    /\ pc[p] \in {"updateRole", "writeRole", "apply"} => Ready(req[p], id, About(id), upd[p])
    /\ pc[p] \in {"zed", "touchBinding", "commit"} => Reached(req[p], About(id))

Removal(p, id) ==
    /\ pc[p] \in {"findBindings", "deleteRole", "unlinkFrom", "readFrom", "readTo", "apply"}
          => Consistent(id)
    /\ pc[p] = "readTo" => /\ upd[p].add = {}
                           /\ upd[p].del = {t \in About(id) : t.rel \in {"role", "subject"}}
    /\ pc[p] = "apply" => upd[p].add = {} /\ upd[p].del = About(id)
    /\ pc[p] = "unlinkTo" => \A t \in About(id) : t.rel = "member_role"
    /\ pc[p] \in {"unlinked", "zed", "deleteBinding", "commit"} => About(id) = {}
    /\ pc[p] \in {"unlinkFrom", "unlinkTo", "unlinked", "commit"} => pend[p] = Write(id, None)

Stage(p, id) ==
    /\ req[p].op \in Creates => Creation(p, id)
    /\ req[p].op \in Changes => Change(p, id)
    /\ req[p].op \in Removes => Removal(p, id)

-----------------------------------------------------------------------------
(* no failure has happened after a SpiceDB write                           *)
Calm == /\ over = {}
        /\ \A p \in Procs : pc[p] \notin {"undo", "undoTwice"}
        /\ \A p \in Procs : pc[p] # "returned" => ans[p] = "none"
        /\ \A p \in Procs : pc[p] # "idle" => req[p].op \in RoleOps \cup BindingOps

(* a request holds the row of its own identifier and no other              *)
Locks == /\ \A p \in Procs : \A id \in IDs :
               id = Target(p) /\ pc[p] \in Holding => lock[id] = p
         /\ \A p \in Procs : \A id \in IDs :
               lock[id] = p => pc[p] \in Holding \cup {"returned"} /\ id = Target(p)
         /\ \A p \in Procs : pc[p] \in Waiting => pend[p] = None

(* an identifier is handed out to one creation                             *)
Fresh == /\ \A id \in IDs : Row(id) # None => id \in issued
         /\ \A p \in Procs : \A id \in IDs :
               req[p].op \in Creates /\ id = Target(p) => id \in issued
         /\ \A p, q \in Procs : \A id \in IDs :
               /\ req[p].op \in Creates /\ req[q].op \in Creates
               /\ id = Target(p) /\ id = Target(q)
               => p = q
         /\ \A p \in Procs : \A id \in IDs :
               req[p].op \in Creates /\ pc[p] # "returned" /\ id = Target(p) => Row(id) = None

Stages == \A p \in Procs : \A id \in IDs : id = Target(p) => Stage(p, id)

(* a row that no request is working on agrees with its tuples              *)
Free(id) == \A p \in Procs : lock[id] = p => pc[p] = "returned"

Rest == \A id \in IDs : Free(id) => Consistent(id)

AInv == Calm /\ Locks /\ Fresh /\ Stages /\ Rest

-----------------------------------------------------------------------------
(* What a step does to one identifier, and what it leaves alone.           *)
Untouched(id) == Row(id)' = Row(id) /\ About(id)' = About(id) /\ lock'[id] = lock[id]

OnlyFor(p, target) ==
    /\ \A q \in Procs \ {p} : /\ pc'[q] = pc[q] /\ upd'[q] = upd[q]
                              /\ pend'[q] = pend[q] /\ ans'[q] = ans[q]
    /\ \A id \in IDs \ {target} : Untouched(id)

LEMMA StageKept ==
    ASSUME NEW q \in Procs, NEW id \in IDs, Stage(q, id),
           pc'[q] = pc[q], req'[q] = req[q], upd'[q] = upd[q], pend'[q] = pend[q],
           Row(id)' = Row(id), About(id)' = About(id)
    PROVE  Stage(q, id)'
<1>1. Creation(q, id) => Creation(q, id)'
  BY DEF Creation
<1>2. Change(q, id) => Change(q, id)'
  BY DEF Change
<1>3. Removal(q, id) => Removal(q, id)'
  BY DEF Removal, Consistent
<1> QED BY <1>1, <1>2, <1>3 DEF Stage

LEMMA StageElsewhere ==
    ASSUME NEW q \in Procs, NEW id \in IDs, pc[q] \notin Holding
    PROVE  Stage(q, id)
BY DEF Stage, Creation, Change, Removal, Holding

LEMMA StageElsewhereNext ==
    ASSUME NEW q \in Procs, NEW id \in IDs, pc'[q] \notin Holding
    PROVE  Stage(q, id)'
BY DEF Stage, Creation, Change, Removal, Holding

LEMMA ConsistentKept ==
    ASSUME NEW id \in IDs, Row(id)' = Row(id), About(id)' = About(id)
    PROVE  Consistent(id)' <=> Consistent(id)
BY DEF Consistent

LEMMA TargetType ==
    ASSUME IInv, NEW p \in Procs, req[p].op \in RoleOps \cup BindingOps
    PROVE  /\ Target(p) \in IDs
           /\ req[p].op \in RoleOps => Target(p) = req[p].role /\ Target(p) \in RoleIDs
           /\ req[p].op \in BindingOps => Target(p) = req[p].rb /\ Target(p) \in BindingIDs
<1>1. req[p] \in Requests \cup {NoRequest}
  BY DEF IInv, TypeOK
<1>2. req[p].op \in RoleOps => req[p].role \in RoleIDs
  BY <1>1, RequestFields
<1>3. req[p].op \in BindingOps => req[p].rb \in BindingIDs
  BY <1>1, RequestFields
<1> QED BY <1>2, <1>3 DEF Target, RoleOps, BindingOps, IDs

(* A step of p keeps the agreement of everything if it writes nothing but  *)
(* p's own identifier, does not write it while another request holds it,   *)
(* and brings p to a stage that is true.                                   *)
LEMMA StepAgrees ==
    ASSUME IInv, AInv, NEW p \in Procs, NEW target \in IDs, target = Target(p),
           NEW l \in Labels \ {"idle", "undo", "undoTwice"},
           pc[p] \notin {"idle", "returned"},
           pc' = [pc EXCEPT ![p] = l], UNCHANGED <<issued, over, req>>,
           OnlyFor(p, target),
           lock'[target] \notin {p, None} => Untouched(target),
           \A q \in Procs \ {p} : lock[target] = q => Untouched(target),
           lock'[target] = p => l \in Holding \cup {"returned"},
           l \in Holding => lock'[target] = p,
           l \in Waiting => pend'[p] = None,
           l # "returned" => ans'[p] = "none",
           Row(target)' # None => Row(target) # None \/ req[p].op \in Creates,
           req[p].op \in Creates /\ l # "returned" => Row(target)' = Row(target),
           Stage(p, target)',
           lock'[target] = p /\ l = "returned" => Consistent(target)',
           lock'[target] = None => Consistent(target)'
    PROVE  AInv'
<1> USE DEF OnlyFor
<1>0. /\ pc'[p] = l
      /\ \A q \in Procs \ {p} : pc'[q] = pc[q]
      /\ \A q \in Procs : req'[q] = req[q]
  BY DEF IInv, TypeOK
<1>1. Calm'
  BY <1>0 DEF AInv, Calm
<1>2. \A q \in Procs : Target(q)' = Target(q)
  BY <1>0 DEF Target
<1>3. Locks'
  <2>1. \A q \in Procs : \A id \in IDs : id = Target(q) /\ pc'[q] \in Holding => lock'[id] = q
    BY <1>0, StoreAssumption DEF AInv, Locks, Untouched
  <2>2. \A q \in Procs : \A id \in IDs :
           lock'[id] = q => pc'[q] \in Holding \cup {"returned"} /\ id = Target(q)
    BY <1>0, StoreAssumption DEF AInv, Locks, Untouched
  <2>3. \A q \in Procs : pc'[q] \in Waiting => pend'[q] = None
    BY <1>0 DEF AInv, Locks
  <2> QED BY <1>2, <2>1, <2>2, <2>3 DEF Locks
<1>4. Fresh'
  <2>1. \A id \in IDs : Row(id)' # None => id \in issued
    BY DEF AInv, Fresh, Untouched
  <2>2. \A q \in Procs : \A id \in IDs :
           req[q].op \in Creates /\ pc'[q] # "returned" /\ id = Target(q) => Row(id)' = None
    BY <1>0 DEF AInv, Fresh, Calm, Untouched
  <2> QED BY <1>0, <1>2, <2>1, <2>2 DEF AInv, Fresh
<1>5. Stages'
  <2>1. ASSUME NEW q \in Procs \ {p}, NEW id \in IDs, id = Target(q) PROVE Stage(q, id)'
    <3>1. CASE pc[q] \in Holding
      <4>1. lock[id] = q
        BY <2>1, <3>1 DEF AInv, Locks
      <4> QED BY <1>0, <2>1, <4>1, StageKept DEF AInv, Stages, Untouched
    <3>2. CASE pc[q] \notin Holding
      BY <1>0, <3>2, StageElsewhereNext
    <3> QED BY <3>1, <3>2
  <2> QED BY <1>2, <2>1 DEF Stages
<1>6. Rest'
  <2>1. ASSUME NEW id \in IDs \ {target}, Free(id)' PROVE Consistent(id)'
    <3>1. Free(id)
      BY <1>0, <2>1 DEF Free, Untouched, AInv, Locks
    <3> QED BY <3>1, ConsistentKept DEF AInv, Rest, Untouched
  <2>2. ASSUME Free(target)' PROVE Consistent(target)'
    <3>1. CASE lock'[target] = p
      BY <1>0, <2>2, <3>1 DEF Free
    <3>2. CASE lock'[target] \notin {p, None}
      <4>1. Free(target)
        BY <1>0, <2>2, <3>2 DEF Free, Untouched
      <4> QED BY <3>2, <4>1, ConsistentKept DEF AInv, Rest, Untouched
    <3> QED BY <3>1, <3>2
  <2> QED BY <2>1, <2>2 DEF Rest
<1> QED BY <1>1, <1>3, <1>4, <1>5, <1>6 DEF AInv

-----------------------------------------------------------------------------
(* The kinds of step a request takes.                                      *)

(* A step that touches neither store, nor any lock.                        *)
LEMMA QuietAgrees ==
    ASSUME IInv, AInv, NEW p \in Procs, NEW target \in IDs, target = Target(p),
           NEW l \in Labels \ {"idle", "undo", "undoTwice"},
           pc[p] \in Waiting \cup Holding, pc[p] # "idle", pc' = [pc EXCEPT ![p] = l],
           UNCHANGED <<roleRow, rbRow, tuples, lock, pend, issued, over, req>>,
           \A q \in Procs \ {p} : upd'[q] = upd[q] /\ ans'[q] = ans[q],
           \/ pc[p] \in Waiting /\ l \in Waiting
           \/ pc[p] \in Holding /\ l \in Holding
           \/ l = "returned" /\ (pc[p] \in Holding => Consistent(target)),
           l # "returned" => ans'[p] = ans[p] /\ Stage(p, target)'
    PROVE  AInv'
<1>1. \A id \in IDs : Untouched(id)
  BY DEF Untouched, Row, About
<1>2. OnlyFor(p, target)
  BY <1>1 DEF OnlyFor, IInv, TypeOK
<1>3. Stage(p, target)'
  <2>1. CASE l = "returned"
    <3>1. pc'[p] \notin Holding
      BY <2>1 DEF IInv, TypeOK, Holding
    <3> QED BY <3>1, StageElsewhereNext
  <2> QED BY <2>1
<1>4. lock'[target] = p /\ l = "returned" => Consistent(target)'
  <2>1. lock[target] = p => pc[p] \in Holding \cup {"returned"}
    BY DEF AInv, Locks
  <2> QED BY <1>1, <2>1, ConsistentKept DEF Untouched, Waiting, Holding
<1>5. lock'[target] = None => Consistent(target)'
  <2>1. lock[target] = None => Free(target)
    BY StoreAssumption DEF Free
  <2> QED BY <1>1, <2>1, ConsistentKept DEF AInv, Rest, Untouched
<1>6. lock'[target] = p => l \in Holding \cup {"returned"}
  BY <1>1 DEF AInv, Locks, Untouched, Waiting, Holding
<1>7. l \in Holding => lock'[target] = p
  BY <1>1 DEF AInv, Locks, Untouched, Waiting, Holding
<1>8. l \in Waiting => pend'[p] = None
  BY DEF AInv, Locks, Waiting, Holding
<1>9. l # "returned" => ans'[p] = "none"
  BY DEF AInv, Calm, Waiting, Holding
<1>10. pc[p] \notin {"idle", "returned"}
  BY DEF Waiting, Holding
<1>11. Untouched(target)
  BY <1>1
<1> QED BY <1>2, <1>3, <1>4, <1>5, <1>6, <1>7, <1>8, <1>9, <1>10, <1>11, StepAgrees DEF Untouched

(* The end of a transaction frees what its request holds.                  *)
LEMMA EndTxFrees ==
    ASSUME IInv, AInv, NEW p \in Procs, EndTx(p)
    PROVE  /\ \A id \in IDs : lock'[id] = IF lock[id] = p THEN None ELSE lock[id]
           /\ \A id \in IDs : lock[id] = p => id = Target(p)
           /\ \A q \in Procs \ {p} : pend'[q] = pend[q]
           /\ pend'[p] = None
<1>1. \A id \in IDs : lock'[id] = IF lock[id] = p THEN None ELSE lock[id]
  BY DEF EndTx, Released, IInv, TypeOK, IDs
<1>2. /\ \A q \in Procs \ {p} : pend'[q] = pend[q]
      /\ pend'[p] = None
  BY DEF EndTx, IInv, TypeOK
<1> QED BY <1>1, <1>2 DEF AInv, Locks

(* A request gives up while what it holds agrees.                          *)
LEMMA FailAgrees ==
    ASSUME IInv, AInv, NEW p \in Procs, NEW target \in IDs, target = Target(p),
           pc[p] \in Waiting \cup Holding, pc[p] # "idle", RollbackAndFail(p),
           pc[p] \in Holding => Consistent(target)
    PROVE  AInv'
<1>1. /\ EndTx(p) /\ pc' = [pc EXCEPT ![p] = "returned"] /\ ans' = [ans EXCEPT ![p] = "error"]
      /\ UNCHANGED <<roleRow, rbRow, tuples, issued, over, req, upd>>
  BY DEF RollbackAndFail, RollbackContext, Return, Goto
<1>2. \A id \in IDs : Row(id)' = Row(id) /\ About(id)' = About(id)
  BY <1>1 DEF Row, About
<1>3. OnlyFor(p, target)
  BY <1>1, <1>2, EndTxFrees DEF OnlyFor, Untouched, IInv, TypeOK
<1>4. pc'[p] = "returned"
  BY <1>1 DEF IInv, TypeOK
<1>5. Stage(p, target)'
  BY <1>4, StageElsewhereNext DEF Holding
<1>6. lock'[target] # p
  BY <1>1, EndTxFrees, StoreAssumption
<1>7. lock'[target] \notin {p, None} => Untouched(target)
  BY <1>1, <1>2, EndTxFrees DEF Untouched
<1>8. \A q \in Procs \ {p} : lock[target] = q => Untouched(target)
  BY <1>1, <1>2, EndTxFrees DEF Untouched
<1>9. lock'[target] = None => Consistent(target)'
  <2>1. lock[target] = None => Free(target)
    BY StoreAssumption DEF Free
  <2>2. lock[target] = p => pc[p] \in Holding
    BY DEF AInv, Locks, Waiting
  <2>3. lock[target] \in {None, p} => Consistent(target)
    BY <2>1, <2>2 DEF AInv, Rest
  <2>4. lock'[target] = None => lock[target] \in {None, p}
    BY <1>1, EndTxFrees
  <2> QED BY <1>2, <2>3, <2>4, ConsistentKept
<1>10. pc[p] \notin {"idle", "returned"}
  BY DEF Waiting, Holding
<1>11. "returned" \in Labels /\ "returned" \notin Holding \cup Waiting
  BY DEF Labels, Holding, Waiting
<1> QED BY <1>1, <1>2, <1>3, <1>5, <1>6, <1>7, <1>8, <1>9, <1>10, <1>11, StepAgrees

(* A request takes the row of an identifier that nobody holds.             *)
LEMMA LockAgrees ==
    ASSUME IInv, AInv, NEW p \in Procs, NEW target \in IDs, target = Target(p),
           NEW l \in Labels \cap Holding,
           pc[p] \in Waiting \ {"idle"}, pc' = [pc EXCEPT ![p] = l],
           lock[target] = None, lock' = [lock EXCEPT ![target] = p],
           UNCHANGED <<roleRow, rbRow, tuples, pend, issued, over, req, upd, ans>>,
           Stage(p, target)'
    PROVE  AInv'
<1>1. \A id \in IDs : Row(id)' = Row(id) /\ About(id)' = About(id)
  BY DEF Row, About
<1>2. /\ lock'[target] = p
      /\ \A id \in IDs \ {target} : lock'[id] = lock[id]
  BY DEF IInv, TypeOK, IDs
<1>3. OnlyFor(p, target)
  BY <1>1, <1>2 DEF OnlyFor, Untouched, IInv, TypeOK
<1>4. ans'[p] = "none"
  BY DEF AInv, Calm, Waiting
<1>5. l \notin {"idle", "undo", "undoTwice", "returned"} /\ l \notin Waiting
  BY DEF Holding, Waiting
<1>6. pc[p] \notin {"idle", "returned"}
  BY DEF Waiting
<1>7. \A q \in Procs : lock[target] # q
  BY StoreAssumption
<1> QED BY <1>1, <1>2, <1>3, <1>4, <1>5, <1>6, <1>7, StoreAssumption, StepAgrees

(* A request writes its own row, which nobody else holds.                  *)
LEMMA RowAgrees ==
    ASSUME IInv, AInv, NEW p \in Procs, NEW target \in IDs, target = Target(p),
           NEW l \in Labels \cap Holding, NEW w, w.id = target,
           pc[p] \in Waiting \cup Holding, pc[p] # "idle", WriteRow(p, w, l), UNCHANGED tuples,
           \A q \in Procs \ {p} : upd'[q] = upd[q],
           Stage(p, target)'
    PROVE  AInv'
<1>1. /\ lock[target] \in {None, p} /\ lock' = [lock EXCEPT ![target] = p]
      /\ pend' = [pend EXCEPT ![p] = w] /\ pc' = [pc EXCEPT ![p] = l]
      /\ UNCHANGED <<roleRow, rbRow, issued, over, req, ans>>
  BY DEF WriteRow, Goto
<1>2. \A id \in IDs : Row(id)' = Row(id) /\ About(id)' = About(id)
  BY <1>1 DEF Row, About
<1>3. /\ lock'[target] = p
      /\ \A id \in IDs \ {target} : lock'[id] = lock[id]
  BY <1>1 DEF IInv, TypeOK, IDs
<1>4. OnlyFor(p, target)
  BY <1>1, <1>2, <1>3 DEF OnlyFor, Untouched, IInv, TypeOK
<1>5. ans'[p] = "none"
  BY <1>1 DEF AInv, Calm, Waiting, Holding
<1>6. l \notin {"idle", "undo", "undoTwice", "returned"} /\ l \notin Waiting
  BY DEF Holding, Waiting
<1>7. pc[p] \notin {"idle", "returned"}
  BY DEF Waiting, Holding
<1>8. \A q \in Procs \ {p} : lock[target] # q
  BY <1>1, StoreAssumption
<1>9. p # None /\ Row(target)' = Row(target) /\ l \in Labels \ {"idle", "undo", "undoTwice"}
  BY <1>2, <1>6, StoreAssumption
<1>10. pc' = [pc EXCEPT ![p] = l] /\ UNCHANGED <<issued, over, req>>
  BY <1>1
<1>11. /\ lock'[target] \notin {p, None} => Untouched(target)
       /\ \A q \in Procs \ {p} : lock[target] = q => Untouched(target)
       /\ lock'[target] = p => l \in Holding \cup {"returned"}
       /\ l \in Holding => lock'[target] = p
       /\ l \in Waiting => pend'[p] = None
       /\ l # "returned" => ans'[p] = "none"
       /\ lock'[target] = p /\ l = "returned" => Consistent(target)'
       /\ lock'[target] = None => Consistent(target)'
  BY <1>3, <1>5, <1>6, <1>8, <1>9
<1>12. /\ Row(target)' # None => Row(target) # None \/ req[p].op \in Creates
       /\ req[p].op \in Creates /\ l # "returned" => Row(target)' = Row(target)
  BY <1>9
<1> QED BY <1>4, <1>7, <1>9, <1>10, <1>11, <1>12, StepAgrees

(* Every tuple is about one role or one binding.                           *)
LEMMA OfOne ==
    ASSUME NEW t, NEW x \in IDs, NEW y \in IDs, Of(t, x), Of(t, y)
    PROVE  x = y
BY DEF Of

(* A request writes tuples of the identifier whose row it holds.           *)
LEMMA TuplesAgree ==
    ASSUME IInv, AInv, NEW p \in Procs, NEW target \in IDs, target = Target(p),
           NEW l \in Labels \cap Holding,
           pc[p] \in Holding, pc' = [pc EXCEPT ![p] = l],
           \A t : Of(t, target) \/ (t \in tuples' <=> t \in tuples),
           UNCHANGED <<roleRow, rbRow, lock, pend, issued, over, req, upd, ans>>,
           Stage(p, target)'
    PROVE  AInv'
<1>1. \A id \in IDs : Row(id)' = Row(id)
  BY DEF Row
<1>2. \A id \in IDs \ {target} : About(id)' = About(id)
  <2> SUFFICES ASSUME NEW id \in IDs \ {target} PROVE About(id)' = About(id)
    OBVIOUS
  <2>1. \A t : Of(t, id) => (t \in tuples' <=> t \in tuples)
    BY OfOne
  <2> QED BY <2>1 DEF About
<1>3. lock[target] = p
  BY DEF AInv, Locks
<1>4. OnlyFor(p, target)
  BY <1>1, <1>2 DEF OnlyFor, Untouched, IInv, TypeOK
<1>5. ans'[p] = "none"
  BY DEF AInv, Calm, Holding
<1>6. l \notin {"idle", "undo", "undoTwice", "returned"} /\ l \notin Waiting
  BY DEF Holding, Waiting
<1>7. pc[p] \notin {"idle", "returned"}
  BY DEF Holding
<1>8. lock'[target] = p /\ p # None
  BY <1>3, StoreAssumption
<1> QED BY <1>1, <1>3, <1>4, <1>5, <1>6, <1>7, <1>8, StepAgrees

LEMMA ApplyWriteRow ==
    ASSUME NEW p \in Procs, ApplyWrite(p), IInv, NEW id \in IDs
    PROVE  Row(id)' = IF pend[p] # None /\ pend[p].id = id THEN pend[p].val ELSE Row(id)
<1> DEFINE w == pend[p]
<1>1. CASE id \in RoleIDs
  BY <1>1 DEF ApplyWrite, IInv, TypeOK, Row
<1>2. CASE id \notin RoleIDs
  <2>1. id \in BindingIDs
    BY <1>2 DEF IDs
  <2> QED BY <1>2, <2>1 DEF ApplyWrite, IInv, TypeOK, Row
<1> QED BY <1>1, <1>2

LEMMA NoneNoWrite ==
    ASSUME NEW id \in IDs, NEW x \in Resources \cup {None}
    PROVE  Write(id, x) # None
BY WriteAssumption DEF Write, Writes, IDs

LEMMA RequestRes ==
    ASSUME IInv, NEW p \in Procs, req[p].op \in Creates
    PROVE  req[p].res \in Resources /\ req[p].res # None
<1>1. req[p] \in Requests \cup {NoRequest}
  BY DEF IInv, TypeOK
<1>2. req[p].res \in Resources
  BY <1>1, RequestFields DEF Creates
<1> QED BY <1>2, StoreAssumption

(* A commit ends the request's work on its identifier in agreement.        *)
LEMMA CommitAgrees ==
    ASSUME IInv, AInv, NEW p \in Procs, NEW target \in IDs, target = Target(p),
           pc[p] = "commit", CommitContext(p), Return(p, "ok"),
           UNCHANGED <<issued, tuples, over, req, upd, zed>>
    PROVE  AInv'
<1>1. EndTx(p) /\ ApplyWrite(p)
  BY DEF CommitContext
<1>2. pc' = [pc EXCEPT ![p] = "returned"] /\ ans' = [ans EXCEPT ![p] = "ok"]
  BY DEF Return, Goto
<1>3. Stage(p, target) /\ lock[target] = p
  BY DEF AInv, Stages, Locks, Holding
<1>4. pend[p] = None \/ pend[p].id = target
  BY <1>3 DEF AInv, Calm, Stage, Creation, Change, Removal, Write, Creates, Changes, Removes,
              RoleOps, BindingOps, Holding
<1>5. \A id \in IDs \ {target} : Row(id)' = Row(id)
  BY <1>1, <1>4, ApplyWriteRow
<1>6. \A id \in IDs : About(id)' = About(id)
  BY DEF About
<1>7. OnlyFor(p, target)
  BY <1>1, <1>2, <1>5, <1>6, EndTxFrees DEF OnlyFor, Untouched, IInv, TypeOK
<1>8. lock'[target] = None
  BY <1>1, <1>3, EndTxFrees
<1>9. Consistent(target)'
  <2>1. CASE req[p].op \in Creates
    <3>1. pend[p] = Write(target, req[p].res) /\ Whole(target, req[p].res, About(target))
      BY <1>3, <2>1 DEF Stage, Creation
    <3>2. pend[p] # None /\ req[p].res # None
      BY <2>1, <3>1, RequestRes, NoneNoWrite
    <3>3. Row(target)' = req[p].res
      BY <1>1, <3>1, <3>2, ApplyWriteRow DEF Write
    <3> QED BY <1>6, <3>1, <3>2, <3>3 DEF Consistent
  <2>2. CASE req[p].op \in Changes
    <3>1. /\ Row(target) # None /\ Whole(target, Row(target), About(target))
          /\ pend[p] \in {None, Write(target, Row(target))}
      BY <1>3, <2>2 DEF Stage, Change, Holding
    <3>2. Row(target)' = Row(target)
      BY <1>1, <3>1, ApplyWriteRow DEF Write
    <3> QED BY <1>6, <3>1, <3>2 DEF Consistent
  <2>3. CASE req[p].op \in Removes
    <3>1. About(target) = {} /\ pend[p] = Write(target, None)
      BY <1>3, <2>3 DEF Stage, Removal
    <3>2. Row(target)' = None
      BY <1>1, <3>1, NoneNoWrite, ApplyWriteRow DEF Write
    <3> QED BY <1>6, <3>1, <3>2 DEF Consistent
  <2> QED BY <2>1, <2>2, <2>3 DEF AInv, Calm, Creates, Changes, Removes, RoleOps, BindingOps
<1>10. Row(target)' # None => Row(target) # None \/ req[p].op \in Creates
  <2>1. CASE req[p].op \in Changes
    <3>1. Row(target) # None
      BY <1>3, <2>1 DEF Stage, Change, Holding
    <3> QED BY <3>1
  <2>2. CASE req[p].op \in Removes
    <3>1. pend[p] = Write(target, None)
      BY <1>3, <2>2 DEF Stage, Removal
    <3> QED BY <1>1, <3>1, NoneNoWrite, ApplyWriteRow DEF Write
  <2> QED BY <2>1, <2>2 DEF AInv, Calm, Creates, Changes, Removes, RoleOps, BindingOps
<1>11. Stage(p, target)'
  BY <1>2, StageElsewhereNext DEF Holding, IInv, TypeOK
<1>12. "returned" \in Labels /\ "returned" \notin Holding \cup Waiting
  BY DEF Labels, Holding, Waiting
<1> QED BY <1>2, <1>3, <1>7, <1>8, <1>9, <1>10, <1>11, <1>12, StoreAssumption, StepAgrees

-----------------------------------------------------------------------------
(* The beginning and the end of a request.                                 *)

LEMMA InitAgrees == Init => AInv
<1> SUFFICES ASSUME Init PROVE AInv
  OBVIOUS
<1>1. Calm
  BY DEF Init, Calm, NoRequest
<1>2. Locks
  BY StoreAssumption DEF Init, Locks, IDs, Holding
<1>3. \A id \in IDs : Row(id) = None /\ About(id) = {}
  BY DEF Init, Row, About, IDs
<1>4. Fresh
  BY <1>3 DEF Init, Fresh, NoRequest, Creates
<1>5. Stages
  BY StageElsewhere DEF Init, Stages, Holding
<1>6. Rest
  BY <1>3 DEF Rest, Consistent
<1> QED BY <1>1, <1>2, <1>4, <1>5, <1>6 DEF AInv

(* A request that arrives works on an identifier that exists, or on one    *)
(* that is new.                                                            *)
LEMMA StartAgrees ==
    ASSUME IInv, AInv, NEW p \in Procs, NEW r \in Requests, NEW l \in {"begin", "bindable"},
           NEW target \in IDs,
           r.op \in RoleOps \cup BindingOps,
           target = IF r.op \in RoleOps THEN r.role ELSE r.rb,
           StartAt(p, r, l),
           \/ r.op \notin Creates /\ UNCHANGED issued
           \/ target \notin issued /\ issued' = issued \cup {target}
    PROVE  AInv'
<1>1. /\ pc[p] = "idle" /\ pc' = [pc EXCEPT ![p] = l] /\ req' = [req EXCEPT ![p] = r]
      /\ UNCHANGED <<roleRow, rbRow, tuples, lock, pend, over, upd, ans>>
  BY DEF StartAt, Goto, dbVars
<1>2. /\ pc'[p] = l /\ req'[p] = r
      /\ \A q \in Procs \ {p} : pc'[q] = pc[q] /\ req'[q] = req[q]
  BY <1>1 DEF IInv, TypeOK
<1>3. /\ Target(p)' = target
      /\ \A q \in Procs \ {p} : Target(q)' = Target(q)
  BY <1>2 DEF Target
<1>4. \A id \in IDs : Row(id)' = Row(id) /\ About(id)' = About(id)
  BY <1>1 DEF Row, About
<1>5. Calm'
  BY <1>1, <1>2 DEF AInv, Calm
<1>6. l \in Waiting /\ l \notin Holding \cup {"returned"} /\ "idle" \in Waiting
      /\ "idle" \notin Holding \cup {"returned"}
  BY DEF Waiting, Holding
<1>7. Locks'
  <2>1. \A id \in IDs : lock[id] # p
    BY <1>1, <1>6 DEF AInv, Locks
  <2>2. \A q \in Procs : \A id \in IDs : id = Target(q)' /\ pc'[q] \in Holding => lock'[id] = q
    BY <1>1, <1>2, <1>3, <1>6 DEF AInv, Locks
  <2>3. \A q \in Procs : \A id \in IDs :
           lock'[id] = q => pc'[q] \in Holding \cup {"returned"} /\ id = Target(q)'
    BY <1>1, <1>2, <1>3, <2>1 DEF AInv, Locks
  <2>4. \A q \in Procs : pc'[q] \in Waiting => pend'[q] = None
    BY <1>1, <1>2, <1>6 DEF AInv, Locks
  <2> QED BY <2>2, <2>3, <2>4 DEF Locks
<1>8. Fresh'
  <2>1. \A id \in IDs : Row(id)' # None => id \in issued'
    BY <1>4 DEF AInv, Fresh
  <2>2. \A q \in Procs : \A id \in IDs :
           req'[q].op \in Creates /\ id = Target(q)' => id \in issued'
    BY <1>2, <1>3 DEF AInv, Fresh
  <2>3. \A q, s \in Procs : \A id \in IDs :
           /\ req'[q].op \in Creates /\ req'[s].op \in Creates
           /\ id = Target(q)' /\ id = Target(s)'
           => q = s
    <3>1. \A q \in Procs \ {p} :
             req[q].op \in Creates /\ r.op \in Creates => target # Target(q)
      BY DEF AInv, Fresh
    <3>2. \A q, s \in Procs \ {p} : \A id \in IDs :
             /\ req[q].op \in Creates /\ req[s].op \in Creates
             /\ id = Target(q) /\ id = Target(s)
             => q = s
      BY DEF AInv, Fresh
    <3> SUFFICES ASSUME NEW q \in Procs, NEW s \in Procs, NEW id \in IDs,
                        req'[q].op \in Creates, req'[s].op \in Creates,
                        id = Target(q)', id = Target(s)'
                 PROVE  q = s
      OBVIOUS
    <3>3. CASE q # p /\ s # p
      BY <1>2, <1>3, <3>2, <3>3
    <3>4. CASE q = p /\ s # p
      BY <1>2, <1>3, <3>1, <3>4
    <3>5. CASE q # p /\ s = p
      BY <1>2, <1>3, <3>1, <3>5
    <3> QED BY <3>3, <3>4, <3>5
  <2>4. \A q \in Procs : \A id \in IDs :
           req'[q].op \in Creates /\ pc'[q] # "returned" /\ id = Target(q)' => Row(id)' = None
    BY <1>2, <1>3, <1>4 DEF AInv, Fresh
  <2> QED BY <2>1, <2>2, <2>3, <2>4 DEF Fresh
<1>9. Stages'
  <2>1. ASSUME NEW q \in Procs \ {p}, NEW id \in IDs, id = Target(q) PROVE Stage(q, id)'
    BY <1>1, <1>2, <1>4, <2>1, StageKept DEF AInv, Stages
  <2>2. \A id \in IDs : Stage(p, id)'
    BY <1>2, <1>6, StageElsewhereNext
  <2> QED BY <1>3, <2>1, <2>2 DEF Stages
<1>10. Rest'
  <2> SUFFICES ASSUME NEW id \in IDs, Free(id)' PROVE Consistent(id)'
    BY DEF Rest
  <2>1. Free(id)
    BY <1>1, <1>2, <1>6 DEF Free, AInv, Locks
  <2> QED BY <1>4, <2>1, ConsistentKept DEF AInv, Rest
<1> QED BY <1>5, <1>7, <1>8, <1>9, <1>10 DEF AInv

LEMMA RequestEndAgrees == ASSUME IInv, AInv, NEW p \in Procs, RequestEnd(p) PROVE AInv'
<1>1. /\ pc[p] = "returned" /\ EndTx(p)
      /\ pc' = [pc EXCEPT ![p] = "idle"] /\ req' = [req EXCEPT ![p] = NoRequest]
      /\ upd' = [upd EXCEPT ![p] = NoUpdate] /\ ans' = [ans EXCEPT ![p] = "none"]
      /\ over' = over \ {p} /\ UNCHANGED <<roleRow, rbRow, tuples, issued>>
  BY DEF RequestEnd, RollbackContext, Goto
<1>2. /\ pc'[p] = "idle" /\ req'[p].op = "none" /\ ans'[p] = "none"
      /\ \A q \in Procs \ {p} : /\ pc'[q] = pc[q] /\ req'[q] = req[q]
                                /\ upd'[q] = upd[q] /\ ans'[q] = ans[q]
  BY <1>1 DEF IInv, TypeOK, NoRequest
<1>3. \A q \in Procs \ {p} : Target(q)' = Target(q)
  BY <1>2 DEF Target
<1>4. \A id \in IDs : Row(id)' = Row(id) /\ About(id)' = About(id)
  BY <1>1 DEF Row, About
<1>5. Calm'
  BY <1>1, <1>2 DEF AInv, Calm
<1>6. "idle" \notin Holding \cup {"returned"}
  BY DEF Holding
<1>7. /\ \A id \in IDs : lock'[id] = IF lock[id] = p THEN None ELSE lock[id]
      /\ \A q \in Procs \ {p} : pend'[q] = pend[q]
      /\ pend'[p] = None
  BY <1>1, EndTxFrees
<1>8. Locks'
  <2>1. \A q \in Procs : \A id \in IDs : id = Target(q)' /\ pc'[q] \in Holding => lock'[id] = q
    BY <1>2, <1>3, <1>6, <1>7 DEF AInv, Locks
  <2>2. \A q \in Procs : \A id \in IDs :
           lock'[id] = q => pc'[q] \in Holding \cup {"returned"} /\ id = Target(q)'
    BY <1>2, <1>3, <1>7, StoreAssumption DEF AInv, Locks
  <2>3. \A q \in Procs : pc'[q] \in Waiting => pend'[q] = None
    BY <1>2, <1>7 DEF AInv, Locks
  <2> QED BY <2>1, <2>2, <2>3 DEF Locks
<1>9. Fresh'
  BY <1>1, <1>2, <1>3, <1>4 DEF AInv, Fresh, Creates
<1>10. Stages'
  <2>1. ASSUME NEW q \in Procs \ {p}, NEW id \in IDs, id = Target(q) PROVE Stage(q, id)'
    BY <1>2, <1>4, <1>7, <2>1, StageKept DEF AInv, Stages
  <2>2. \A id \in IDs : Stage(p, id)'
    BY <1>2, <1>6, StageElsewhereNext
  <2> QED BY <1>3, <2>1, <2>2 DEF Stages
<1>11. Rest'
  <2> SUFFICES ASSUME NEW id \in IDs, Free(id)' PROVE Consistent(id)'
    BY DEF Rest
  <2>1. Free(id)
    BY <1>1, <1>2, <1>7, StoreAssumption DEF Free
  <2> QED BY <1>4, <2>1, ConsistentKept DEF AInv, Rest
<1> QED BY <1>5, <1>8, <1>9, <1>10, <1>11 DEF AInv

-----------------------------------------------------------------------------
(* While only benign failures happen, nothing fails from the SpiceDB write *)
(* on, and no context ends.                                                *)
LEMMA NothingLate ==
    ASSUME Failures \subseteq Benign, AInv, NEW p \in Procs
    PROVE  /\ Up(p) /\ p \notin over
           /\ ~Fails(p, "unlink") /\ ~Fails(p, "zed") /\ ~Fails(p, "lateRow")
           /\ ~Fails(p, "commit")
           /\ "spiceLost" \notin Failures /\ "commitLost" \notin Failures
           /\ "cancel" \notin Failures
BY DEF Benign, AInv, Calm, Up, Fails

LEMMA RoleTarget ==
    ASSUME IInv, AInv, NEW p \in Procs, req[p].op \in RoleOps
    PROVE  \E r \in RoleIDs : /\ r = req[p].role /\ r = Target(p) /\ r \in IDs
                              /\ Row(r) = roleRow[r]
BY TargetType DEF Row

LEMMA BindingTarget ==
    ASSUME IInv, AInv, NEW p \in Procs, req[p].op \in BindingOps
    PROVE  \E b \in BindingIDs : /\ b = req[p].rb /\ b = Target(p) /\ b \in IDs /\ b \notin RoleIDs
                                 /\ Row(b) = rbRow[b]
BY TargetType, StoreAssumption DEF Row

LEMMA StageOf ==
    ASSUME AInv, NEW p \in Procs, NEW id \in IDs, id = Target(p)
    PROVE  /\ Stage(p, id)
           /\ pc[p] \in Holding => lock[id] = p
           /\ pc[p] \in Waiting => lock[id] # p /\ pend[p] = None
           /\ lock[id] = None => Consistent(id)
           /\ req[p].op \in Creates /\ pc[p] # "returned" => Row(id) = None
<1>1. lock[id] = None => Free(id)
  BY StoreAssumption DEF Free
<1>2. Waiting \cap (Holding \cup {"returned"}) = {}
  BY DEF Waiting, Holding
<1> QED BY <1>1, <1>2 DEF AInv, Stages, Locks, Rest, Fresh

(* What a request holds agrees until it writes to SpiceDB.                 *)
LEMMA HeldConsistent ==
    ASSUME AInv, NEW p \in Procs, NEW id \in IDs, id = Target(p), pc[p] \in Holding,
           \/ req[p].op \in Changes
           \/ req[p].op \in Creates /\ pc[p] \in {"writeRole", "apply"}
           \/ /\ req[p].op \in Removes
              /\ pc[p] \in {"findBindings", "deleteRole", "unlinkFrom", "readFrom", "readTo",
                            "apply"}
    PROVE  Consistent(id)
<1>1. CASE req[p].op \in Changes
  BY <1>1, StageOf DEF Stage, Change, Consistent
<1>2. CASE req[p].op \in Creates /\ pc[p] \in {"writeRole", "apply"}
  BY <1>2, StageOf DEF Stage, Creation, Consistent
<1>3. CASE /\ req[p].op \in Removes
           /\ pc[p] \in {"findBindings", "deleteRole", "unlinkFrom", "readFrom", "readTo", "apply"}
  BY <1>3, StageOf DEF Stage, Removal
<1> QED BY <1>1, <1>2, <1>3

(* Steps that come before the request takes its row.                       *)
LEMMA WaitingAgrees ==
    ASSUME IInv, AInv, NEW p \in Procs, pc[p] \in Waiting, pc[p] # "idle",
           NEW l \in (Waiting \cup {"returned"}) \ {"idle"}, pc' = [pc EXCEPT ![p] = l],
           UNCHANGED <<roleRow, rbRow, tuples, lock, pend, issued, over, req, upd>>,
           \A q \in Procs \ {p} : ans'[q] = ans[q],
           l # "returned" => ans'[p] = ans[p]
    PROVE  AInv'
<1>1. PICK target \in IDs : target = Target(p)
  BY TargetType DEF AInv, Calm
<1>2. l \in Labels \ {"idle", "undo", "undoTwice"} /\ l \notin Holding /\ pc[p] \notin Holding
  BY DEF Waiting, Labels, Holding
<1>3. Stage(p, target)'
  BY <1>2, StageElsewhereNext DEF IInv, TypeOK
<1> QED BY <1>1, <1>2, <1>3, QuietAgrees

LEMMA BeginAgrees ==
    ASSUME IInv, AInv, NEW p \in Procs, NEW l \in Waiting \ {"idle"}, Begin(p, l)
    PROVE  AInv'
<1>1. PICK m \in {l, "returned"} :
        /\ pc[p] = "begin" /\ pc' = [pc EXCEPT ![p] = m]
        /\ \A q \in Procs \ {p} : ans'[q] = ans[q]
        /\ m # "returned" => ans' = ans
        /\ UNCHANGED <<roleRow, rbRow, pend, lock, issued, tuples, over, req, upd>>
  BY DEF Begin, Goto, Return, IInv, TypeOK
<1>2. pc[p] \in Waiting /\ pc[p] # "idle" /\ "returned" \notin Waiting
  BY <1>1 DEF Waiting
<1> QED BY <1>1, <1>2, WaitingAgrees

LEMMA FailOpenAgrees ==
    ASSUME IInv, AInv, NEW p \in Procs, FailOpen(p), NEW target \in IDs, target = Target(p),
           pc[p] \in Waiting \cup Holding, pc[p] # "idle",
           pc[p] \in Holding => Consistent(target)
    PROVE  AInv'
<1>1. /\ pc' = [pc EXCEPT ![p] = "returned"] /\ ans' = [ans EXCEPT ![p] = "error"]
      /\ UNCHANGED <<roleRow, rbRow, tuples, lock, pend, issued, over, req, upd>>
  BY DEF FailOpen, Return, Goto, dbVars
<1>2. \A q \in Procs \ {p} : upd'[q] = upd[q] /\ ans'[q] = ans[q]
  BY <1>1 DEF IInv, TypeOK
<1>3. "returned" \in Labels \ {"idle", "undo", "undoTwice"}
  BY DEF Labels
<1> QED BY <1>1, <1>2, <1>3, QuietAgrees

LEMMA RoleCreated ==
    ASSUME NEW r \in RoleIDs, NEW x \in Resources, NEW acts \in SUBSET Actions
    PROVE  /\ Whole(r, x, RoleTuples(r, x, acts))
           /\ \A t \in RoleTuples(r, x, acts) : Of(t, r)
BY DEF Whole, RoleTuples, Of, RoleAction, RoleOwner, MemberRole

LEMMA BindingCreated ==
    ASSUME NEW b \in BindingIDs, NEW r \in RoleIDs, NEW x \in Resources,
           NEW subjs \in SUBSET Subjects
    PROVE  /\ Whole(b, x, BindingTuples(b, r, x, subjs))
           /\ \A t \in BindingTuples(b, r, x, subjs) : Of(t, b)
BY StoreAssumption DEF Whole, BindingTuples, Of, BindingRole, BindingSubject, Grant

LEMMA RoleDiffReady ==
    ASSUME NEW r \in RoleIDs, NEW q, q.op = "UpdateRole", q.role = r, q.actions \subseteq Actions
    PROVE  Ready(q, r, About(r), RoleDiff(r, q.actions))
<1> DEFINE acts == q.actions
           A == About(r)
           add == {RoleAction(r, a) : a \in acts \ ActionsOf(r)}
           del == {RoleAction(r, a) : a \in ActionsOf(r) \ acts}
<1>1. \A a, c : RoleAction(r, a) = RoleAction(r, c) => a = c
  BY DEF RoleAction
<1>2. \A a \in Actions : RoleAction(r, a) \in A <=> a \in ActionsOf(r)
  BY DEF About, Of, ActionsOf, RoleAction
<1>3. \A a \in Actions : /\ RoleAction(r, a) \in add <=> a \in acts \ ActionsOf(r)
                         /\ RoleAction(r, a) \in del <=> a \in ActionsOf(r) \ acts
  BY <1>1
<1>4. \A t \in add \cup del : t.rel \in {"action", "subject"} /\ t.obj = r
  BY DEF RoleAction
<1> HIDE DEF A, add, del
<1>5. \A a \in Actions : RoleAction(r, a) \in (A \ del) \cup add <=> a \in acts
  BY <1>2, <1>3
<1>6. {a \in Actions : RoleAction(r, a) \in (A \ del) \cup add} = acts
  BY <1>5
<1>7. CASE q.actions = {}
  BY <1>7 DEF Ready, Reached, RoleDiff, NoUpdate, Update
<1>8. CASE q.actions # {}
  <2>1. RoleDiff(r, q.actions).add = add /\ RoleDiff(r, q.actions).del = del
    BY <1>8 DEF RoleDiff, Update, add, del
  <2> HIDE DEF acts
  <2> QED BY <1>4, <1>6, <2>1 DEF Ready, Reached, acts, A
<1> QED BY <1>7, <1>8

LEMMA SubjectDiffReady ==
    ASSUME NEW b \in BindingIDs, NEW q, q.op = "UpdateBinding", q.rb = b,
           q.subjects \subseteq Subjects
    PROVE  Ready(q, b, About(b), SubjectDiff(b, q.subjects))
<1> DEFINE acts == q.subjects
           A == About(b)
           add == {BindingSubject(b, a) : a \in acts \ SubjectsOf(b)}
           del == {BindingSubject(b, a) : a \in SubjectsOf(b) \ acts}
<1>1. \A a, c : BindingSubject(b, a) = BindingSubject(b, c) => a = c
  BY DEF BindingSubject
<1>2. \A a \in Subjects : BindingSubject(b, a) \in A <=> a \in SubjectsOf(b)
  BY DEF About, Of, SubjectsOf, BindingSubject
<1>3. \A a \in Subjects : /\ BindingSubject(b, a) \in add <=> a \in acts \ SubjectsOf(b)
                          /\ BindingSubject(b, a) \in del <=> a \in SubjectsOf(b) \ acts
  BY <1>1
<1>4. \A t \in add \cup del : t.rel \in {"action", "subject"} /\ t.obj = b
  BY DEF BindingSubject
<1> HIDE DEF A, add, del
<1>5. \A a \in Subjects : BindingSubject(b, a) \in (A \ del) \cup add <=> a \in acts
  BY <1>2, <1>3
<1>6. {a \in Subjects : BindingSubject(b, a) \in (A \ del) \cup add} = acts
  BY <1>5
<1>7. SubjectDiff(b, q.subjects).add = add /\ SubjectDiff(b, q.subjects).del = del
  BY DEF SubjectDiff, Update, add, del
<1> HIDE DEF acts
<1> QED BY <1>4, <1>6, <1>7 DEF Ready, Reached, acts, A

(* Updating actions or subjects leaves the rest of the tuples as it is.    *)
LEMMA ReadyWhole ==
    ASSUME NEW q, NEW id \in IDs, NEW x, NEW A, NEW u, Whole(id, x, A), Ready(q, id, A, u)
    PROVE  /\ Whole(id, x, (A \ u.del) \cup u.add)
           /\ Reached(q, (A \ u.del) \cup u.add)
           /\ \A t \in u.add \cup u.del : Of(t, id)
<1> DEFINE B == (A \ u.del) \cup u.add
<1>1. \A t \in u.add \cup u.del : t.rel \in {"action", "subject"} /\ t.obj = id
  BY DEF Ready
<1>2. \A t : t.rel \notin {"action", "subject"} => (t \in B <=> t \in A)
  BY <1>1
<1>3. \A t : t.rel \in {"owner", "member_role", "role", "grant"} => (t \in B <=> t \in A)
  BY <1>2
<1> HIDE DEF B
<1>4. ASSUME NEW r PROVE BindingRole(id, r) \in B <=> BindingRole(id, r) \in A
  <2>1. BindingRole(id, r).rel = "role"
    BY DEF BindingRole
  <2> QED BY <1>3, <2>1
<1>5. /\ RoleOwner(id, x) \in B <=> RoleOwner(id, x) \in A
      /\ MemberRole(x, id) \in B <=> MemberRole(x, id) \in A
      /\ Grant(x, id) \in B <=> Grant(x, id) \in A
  <2>1. RoleOwner(id, x).rel = "owner" /\ MemberRole(x, id).rel = "member_role"
        /\ Grant(x, id).rel = "grant"
    BY DEF RoleOwner, MemberRole, Grant
  <2> QED BY <1>3, <2>1
<1>6. ASSUME id \in RoleIDs PROVE Whole(id, x, B)
  <2>1. /\ RoleOwner(id, x) \in A /\ MemberRole(x, id) \in A
        /\ \A t \in A : t.rel = "member_role" => t = MemberRole(x, id)
    BY <1>6 DEF Whole
  <2>2. \A t \in B : t.rel = "member_role" => t = MemberRole(x, id)
    BY <1>3, <2>1
  <2> QED BY <1>5, <1>6, <2>1, <2>2 DEF Whole
<1>7. ASSUME id \notin RoleIDs PROVE Whole(id, x, B)
  <2>1. PICK r \in RoleIDs : /\ BindingRole(id, r) \in A
                             /\ \A t \in A : t.rel = "role" => t = BindingRole(id, r)
    BY <1>7 DEF Whole
  <2>2. Grant(x, id) \in A /\ \A t \in A : t.rel = "grant" => t = Grant(x, id)
    BY <1>7 DEF Whole
  <2>3. BindingRole(id, r) \in B /\ \A t \in B : t.rel = "role" => t = BindingRole(id, r)
    BY <1>3, <1>4, <2>1
  <2>4. Grant(x, id) \in B /\ \A t \in B : t.rel = "grant" => t = Grant(x, id)
    BY <1>3, <1>5, <2>2
  <2> QED BY <1>7, <2>3, <2>4 DEF Whole
<1>8. Whole(id, x, B)
  BY <1>6, <1>7
<1>9. Reached(q, B)
  BY DEF Ready, B
<1> QED BY <1>1, <1>8, <1>9 DEF Of, B

-----------------------------------------------------------------------------
(* The steps of a role operation.                                          *)

LEMMA RequestSets ==
    ASSUME IInv, NEW p \in Procs
    PROVE  /\ req[p].op \in {"CreateRole", "UpdateRole"} => req[p].actions \subseteq Actions
           /\ req[p].op \in {"CreateBinding", "UpdateBinding"} => req[p].subjects \subseteq Subjects
           /\ req[p].op = "CreateBinding" => req[p].role \in RoleIDs
<1>1. req[p] \in Requests \cup {NoRequest}
  BY DEF IInv, TypeOK
<1> QED BY <1>1, RequestFields

LEMMA InsertRoleAgrees == ASSUME IInv, AInv, NEW p \in Procs, InsertRole(p) PROVE AInv'
<1>1. pc[p] = "insertRole" /\ req[p].op = "CreateRole"
  BY DEF InsertRole, IInv, OpAt
<1>2. PICK r \in RoleIDs : r = req[p].role /\ r = Target(p) /\ r \in IDs /\ Row(r) = roleRow[r]
  BY <1>1, RoleTarget DEF RoleOps
<1>3. pc[p] \in Waiting /\ pc[p] # "idle" /\ pc[p] \notin Holding
  BY <1>1 DEF Waiting, Holding
<1>4. CASE RollbackAndFail(p)
  BY <1>2, <1>3, <1>4, FailAgrees
<1>5. CASE /\ WriteRow(p, Write(req[p].role, req[p].res), "writeRole")
           /\ upd' = [upd EXCEPT ![p] =
                        Update(RoleTuples(req[p].role, req[p].res, req[p].actions), {})]
           /\ UNCHANGED tuples
  <2> DEFINE add == RoleTuples(r, req[p].res, req[p].actions)
  <2>1. Row(r)' = Row(r) /\ About(r)' = About(r)
    BY <1>5 DEF WriteRow, Row, About
  <2>2. lock[r] \in {None, p}
    BY <1>2, <1>5 DEF WriteRow, Write
  <2>3. lock[r] = None /\ Row(r) = None /\ Consistent(r)
    BY <1>1, <1>2, <1>3, <2>2, StageOf DEF Creates
  <2>4. About(r)' = {}
    BY <2>1, <2>3 DEF Consistent
  <2>5. Whole(r, req[p].res, add) /\ \A t \in add : Of(t, r)
    BY <1>1, RoleCreated, RequestRes, RequestSets DEF Creates
  <2>6. /\ pc'[p] = "writeRole" /\ req' = req
        /\ upd'[p].add = add /\ upd'[p].del = {}
        /\ pend'[p] = Write(r, req[p].res)
    BY <1>2, <1>5 DEF WriteRow, Goto, Update, IInv, TypeOK
  <2> HIDE DEF add
  <2>7. Creation(p, r)'
    BY <2>4, <2>5, <2>6 DEF Creation
  <2>8. Stage(p, r)'
    BY <1>1, <2>6, <2>7 DEF Stage, Changes, Removes
  <2>9. \A q \in Procs \ {p} : upd'[q] = upd[q]
    BY <1>5 DEF IInv, TypeOK
  <2>10. "writeRole" \in Labels \cap Holding /\ Write(req[p].role, req[p].res).id = r
    BY <1>2 DEF Labels, Holding, Write
  <2> QED BY <1>2, <1>3, <1>5, <2>8, <2>9, <2>10, RowAgrees
<1> QED BY <1>4, <1>5 DEF InsertRole

LEMMA LockRoleAgrees == ASSUME IInv, AInv, NEW p \in Procs, LockRole(p) PROVE AInv'
<1>1. pc[p] = "lockRole" /\ req[p].op \in {"UpdateRole", "DeleteRole"}
  BY DEF LockRole, IInv, OpAt
<1>2. PICK r \in RoleIDs : r = req[p].role /\ r = Target(p) /\ r \in IDs /\ Row(r) = roleRow[r]
  BY <1>1, RoleTarget DEF RoleOps
<1>3. pc[p] \in Waiting \ {"idle"} /\ pc[p] \notin Holding
  BY <1>1 DEF Waiting, Holding
<1>4. CASE RollbackAndFail(p)
  BY <1>2, <1>3, <1>4, FailAgrees
<1>5. ASSUME NEW l \in {"getRole", "findBindings"},
             l = IF req[p].op = "UpdateRole" THEN "getRole" ELSE "findBindings",
             lock[r] = None, roleRow[r] # None, lock' = [lock EXCEPT ![r] = p], Goto(p, l),
             UNCHANGED <<roleRow, rbRow, born, tx, pend, zlock, issued, tuples, over, req, upd,
                         zed, ans>>
      PROVE  AInv'
  <2>1. Row(r)' = Row(r) /\ About(r)' = About(r)
    BY <1>5 DEF Row, About
  <2>2. Consistent(r) /\ pend[p] = None
    BY <1>2, <1>3, <1>5, StageOf
  <2>3. pc' = [pc EXCEPT ![p] = l] /\ pc'[p] = l /\ req' = req /\ pend'[p] = None
    BY <1>5, <2>2 DEF Goto, IInv, TypeOK
  <2>4. Change(p, r)'
    BY <1>2, <1>5, <2>1, <2>2, <2>3 DEF Change, Consistent
  <2>5. req[p].op = "DeleteRole" => Removal(p, r)'
    <3>1. Consistent(r)'
      BY <1>2, <2>1, <2>2, ConsistentKept
    <3> QED BY <1>5, <2>3, <3>1 DEF Removal
  <2>6. Stage(p, r)'
    BY <1>1, <2>3, <2>4, <2>5 DEF Stage, Creates, Removes
  <2>7. l \in Labels \cap Holding
    BY DEF Labels, Holding
  <2> QED BY <1>2, <1>3, <1>5, <2>3, <2>6, <2>7, LockAgrees
<1> QED BY <1>2, <1>4, <1>5 DEF LockRole, LockForUpdate

LEMMA GetRoleForUpdateAgrees ==
    ASSUME IInv, AInv, NEW p \in Procs, GetRoleForUpdate(p) PROVE AInv'
<1>1. pc[p] = "getRole" /\ req[p].op = "UpdateRole"
  BY DEF GetRoleForUpdate, IInv, OpAt
<1>2. PICK r \in RoleIDs : r = req[p].role /\ r = Target(p) /\ r \in IDs /\ Row(r) = roleRow[r]
  BY <1>1, RoleTarget DEF RoleOps
<1>3. pc[p] \in Holding /\ pc[p] # "idle"
  BY <1>1 DEF Holding
<1>4. Stage(p, r) /\ Consistent(r)
  BY <1>1, <1>2, <1>3, StageOf, HeldConsistent DEF Changes
<1>5. CASE RollbackAndFail(p)
  BY <1>2, <1>3, <1>4, <1>5, FailAgrees
<1>6. ASSUME NEW u, u = RoleDiff(r, req[p].actions),
             NEW l \in {"commit", "updateRole"}, l = "commit" => u = NoUpdate,
             Goto(p, l), upd' = [upd EXCEPT ![p] = u],
             UNCHANGED <<dbVars, issued, tuples, over, req, zed, ans>>
      PROVE  AInv'
  <2>1. Row(r)' = Row(r) /\ About(r)' = About(r)
    BY <1>6 DEF Row, About, dbVars
  <2>2. Ready(req[p], r, About(r), u)
    BY <1>1, <1>2, <1>6, RequestSets, RoleDiffReady
  <2>3. l = "commit" => Reached(req[p], About(r))
    <3> HAVE l = "commit"
    <3>1. u.add = {} /\ u.del = {}
      BY <1>6 DEF NoUpdate, Update
    <3>2. (About(r) \ u.del) \cup u.add = About(r)
      BY <3>1
    <3> QED BY <2>2, <3>2 DEF Ready
  <2>4. /\ pc' = [pc EXCEPT ![p] = l] /\ pc'[p] = l /\ req' = req /\ upd'[p] = u /\ pend' = pend
    BY <1>6 DEF Goto, IInv, TypeOK, dbVars
  <2>5. /\ Row(r) # None /\ Whole(r, Row(r), About(r))
        /\ pend[p] \in {None, Write(r, Row(r))}
    BY <1>1, <1>3, <1>4 DEF Stage, Change, Changes
  <2>6. Change(p, r)'
    BY <1>6, <2>1, <2>2, <2>3, <2>4, <2>5 DEF Change
  <2>7. Stage(p, r)'
    BY <1>1, <2>4, <2>6 DEF Stage, Creates, Removes
  <2>8. l \in Labels \ {"idle", "undo", "undoTwice"} /\ l \in Holding
    BY DEF Labels, Holding
  <2>9. \A q \in Procs \ {p} : upd'[q] = upd[q] /\ ans'[q] = ans[q]
    BY <1>6 DEF IInv, TypeOK
  <2> QED BY <1>2, <1>3, <1>6, <2>4, <2>7, <2>8, <2>9, QuietAgrees DEF dbVars
<1> QED BY <1>2, <1>5, <1>6 DEF GetRoleForUpdate

LEMMA UpdateRoleRowAgrees == ASSUME IInv, AInv, NEW p \in Procs, UpdateRoleRow(p) PROVE AInv'
<1>1. pc[p] = "updateRole" /\ req[p].op = "UpdateRole"
  BY DEF UpdateRoleRow, IInv, OpAt
<1>2. PICK r \in RoleIDs : r = req[p].role /\ r = Target(p) /\ r \in IDs /\ Row(r) = roleRow[r]
  BY <1>1, RoleTarget DEF RoleOps
<1>3. pc[p] \in Holding /\ pc[p] # "idle"
  BY <1>1 DEF Holding
<1>4. Stage(p, r) /\ Consistent(r)
  BY <1>1, <1>2, <1>3, StageOf, HeldConsistent DEF Changes
<1>5. CASE RollbackAndFail(p)
  BY <1>2, <1>3, <1>4, <1>5, FailAgrees
<1>6. CASE /\ WriteRow(p, Write(req[p].role, roleRow[req[p].role]), "writeRole")
           /\ UNCHANGED <<tuples, upd>>
  <2>1. Row(r)' = Row(r) /\ About(r)' = About(r)
    BY <1>6 DEF WriteRow, Row, About
  <2>2. /\ pc'[p] = "writeRole" /\ req' = req /\ upd' = upd /\ pend'[p] = Write(r, Row(r))
    BY <1>2, <1>6 DEF WriteRow, Goto, IInv, TypeOK
  <2>3. Change(p, r)
    BY <1>1, <1>4 DEF Stage, Changes
  <2>4. Change(p, r)'
    BY <1>1, <1>3, <2>1, <2>2, <2>3 DEF Change
  <2>5. Stage(p, r)'
    BY <1>1, <2>2, <2>4 DEF Stage, Creates, Removes
  <2>6. "writeRole" \in Labels \cap Holding /\ Write(req[p].role, roleRow[req[p].role]).id = r
    BY <1>2 DEF Labels, Holding, Write
  <2> QED BY <1>2, <1>3, <1>6, <2>5, <2>6, RowAgrees
<1> QED BY <1>5, <1>6 DEF UpdateRoleRow

(* The SpiceDB write of a request's updates takes it to the next stage.    *)
LEMMA WriteAgrees ==
    ASSUME IInv, AInv, NEW p \in Procs, NEW id \in IDs, id = Target(p),
           pc[p] \in {"writeRole", "apply"}, NEW l \in {"commit", "zed"},
           l = "commit" => req[p].op \notin Removes,
           req[p].op \in Removes => pc[p] = "apply",
           pc' = [pc EXCEPT ![p] = l], tuples' = (tuples \ upd[p].del) \cup upd[p].add,
           UNCHANGED <<roleRow, rbRow, lock, pend, issued, over, req, upd, ans>>
    PROVE  AInv'
<1> DEFINE A == (About(id) \ upd[p].del) \cup upd[p].add
<1>1. Stage(p, id) /\ pc[p] \in Holding
  BY StageOf DEF Holding
<1>2. pc'[p] = l
  BY DEF IInv, TypeOK
<1>3. Row(id)' = Row(id)
  BY DEF Row
<1>4. /\ \A t \in upd[p].add \cup upd[p].del : Of(t, id)
      /\ About(id)' = A => Stage(p, id)'
  <2>1. CASE req[p].op \in Creates
    <3>1. /\ About(id) = {} /\ upd[p].del = {} /\ Whole(id, req[p].res, upd[p].add)
          /\ \A t \in upd[p].add : Of(t, id)
          /\ pend[p] = Write(id, req[p].res)
      BY <1>1, <2>1 DEF Stage, Creation
    <3>2. A = upd[p].add
      BY <3>1
    <3>3. About(id)' = A => Creation(p, id)'
      BY <1>2, <3>1, <3>2 DEF Creation
    <3>4. About(id)' = A => Stage(p, id)'
      BY <2>1, <3>3 DEF Stage, Creates, Changes, Removes
    <3> QED BY <3>1, <3>4
  <2>2. CASE req[p].op \in Changes
    <3>1. /\ Row(id) # None /\ Whole(id, Row(id), About(id))
          /\ pend[p] \in {None, Write(id, Row(id))}
          /\ Ready(req[p], id, About(id), upd[p])
      BY <1>1, <2>2 DEF Stage, Change
    <3>2. /\ Whole(id, Row(id), A) /\ Reached(req[p], A)
          /\ \A t \in upd[p].add \cup upd[p].del : Of(t, id)
      BY <3>1, ReadyWhole
    <3> HIDE DEF A
    <3>3. About(id)' = A => Change(p, id)'
      BY <1>2, <1>3, <3>1, <3>2 DEF Change
    <3>4. About(id)' = A => Stage(p, id)'
      BY <2>2, <3>3 DEF Stage, Creates, Changes, Removes
    <3> QED BY <3>2, <3>4
  <2>3. CASE req[p].op \in Removes
    <3>1. upd[p].add = {} /\ upd[p].del = About(id) /\ l = "zed"
      BY <1>1, <2>3 DEF Stage, Removal
    <3>2. A = {} /\ \A t \in About(id) : Of(t, id)
      BY <3>1 DEF About
    <3>3. About(id)' = A => Removal(p, id)'
      BY <1>2, <3>1, <3>2 DEF Removal
    <3>4. About(id)' = A => Stage(p, id)'
      BY <2>3, <3>3 DEF Stage, Creates, Changes, Removes
    <3> QED BY <3>1, <3>2, <3>4
  <2>4. req[p].op \in RoleOps \cup BindingOps
    BY DEF AInv, Calm
  <2> QED BY <2>1, <2>2, <2>3, <2>4 DEF Creates, Changes, Removes, RoleOps, BindingOps
<1>5. About(id)' = A /\ \A t : Of(t, id) \/ (t \in tuples' <=> t \in tuples)
  <2>1. \A t \in upd[p].add \cup upd[p].del : Of(t, id)
    BY <1>4
  <2> QED BY <2>1 DEF About
<1>6. l \in Labels \cap Holding
  BY DEF Labels, Holding
<1> QED BY <1>1, <1>4, <1>5, <1>6, TuplesAgree

LEMMA WriteRoleAgrees ==
    ASSUME Failures \subseteq Benign, IInv, AInv, NEW p \in Procs, WriteRole(p) PROVE AInv'
<1>1. pc[p] = "writeRole" /\ req[p].op \in {"CreateRole", "UpdateRole"}
  BY DEF WriteRole, IInv, OpAt
<1>2. PICK r \in RoleIDs : r = req[p].role /\ r = Target(p) /\ r \in IDs /\ Row(r) = roleRow[r]
  BY <1>1, RoleTarget DEF RoleOps
<1>3. pc[p] \in Holding /\ pc[p] # "idle"
  BY <1>1 DEF Holding
<1>4. CASE RollbackAndFail(p)
  <2>1. Consistent(r)
    BY <1>1, <1>2, <1>3, HeldConsistent DEF Creates, Changes
  <2> QED BY <1>2, <1>3, <1>4, <2>1, FailAgrees
<1>5. CASE /\ tuples' = (tuples \ upd[p].del) \cup upd[p].add
           /\ Goto(p, "commit")
           /\ UNCHANGED <<dbVars, issued, over, req, upd, zed, ans>>
  <2>1. req[p].op \notin Removes
    BY <1>1 DEF Removes
  <2> QED BY <1>1, <1>2, <1>5, <2>1, WriteAgrees DEF Goto, dbVars
<1> QED BY <1>4, <1>5, NothingLate DEF WriteRole

LEMMA FindBindingsAgrees == ASSUME IInv, AInv, NEW p \in Procs, FindBindings(p) PROVE AInv'
<1>1. pc[p] = "findBindings" /\ req[p].op = "DeleteRole"
  BY DEF FindBindings, IInv, OpAt
<1>2. PICK r \in RoleIDs : r = req[p].role /\ r = Target(p) /\ r \in IDs /\ Row(r) = roleRow[r]
  BY <1>1, RoleTarget DEF RoleOps
<1>3. pc[p] \in Holding /\ pc[p] # "idle"
  BY <1>1 DEF Holding
<1>4. Consistent(r)
  BY <1>1, <1>2, <1>3, HeldConsistent DEF Removes
<1>5. CASE FailOpen(p)
  BY <1>2, <1>3, <1>4, <1>5, FailOpenAgrees
<1>6. CASE Goto(p, "deleteRole") /\ UNCHANGED <<dbVars, issued, tuples, over, req, upd, zed, ans>>
  <2>1. pc' = [pc EXCEPT ![p] = "deleteRole"] /\ pc'[p] = "deleteRole" /\ req' = req
    BY <1>6 DEF Goto, IInv, TypeOK
  <2>2. Consistent(r)'
    BY <1>2, <1>4, <1>6, ConsistentKept DEF Row, About, dbVars
  <2>3. Stage(p, r)'
    BY <1>1, <2>1, <2>2 DEF Stage, Removal, Creates, Changes
  <2>4. "deleteRole" \in Labels \ {"idle", "undo", "undoTwice"} /\ "deleteRole" \in Holding
    BY DEF Labels, Holding
  <2> QED BY <1>2, <1>3, <1>6, <2>1, <2>3, <2>4, QuietAgrees DEF dbVars
<1> QED BY <1>5, <1>6 DEF FindBindings

LEMMA DeleteRoleRowAgrees == ASSUME IInv, AInv, NEW p \in Procs, DeleteRoleRow(p) PROVE AInv'
<1>1. pc[p] = "deleteRole" /\ req[p].op = "DeleteRole"
  BY DEF DeleteRoleRow, IInv, OpAt
<1>2. PICK r \in RoleIDs : r = req[p].role /\ r = Target(p) /\ r \in IDs /\ Row(r) = roleRow[r]
  BY <1>1, RoleTarget DEF RoleOps
<1>3. pc[p] \in Holding /\ pc[p] # "idle"
  BY <1>1 DEF Holding
<1>4. Consistent(r)
  BY <1>1, <1>2, <1>3, HeldConsistent DEF Removes
<1>5. CASE RollbackAndFail(p)
  BY <1>2, <1>3, <1>4, <1>5, FailAgrees
<1>6. CASE WriteRow(p, Write(req[p].role, None), "unlinkFrom") /\ UNCHANGED <<tuples, upd>>
  <2>1. pc'[p] = "unlinkFrom" /\ req' = req /\ pend'[p] = Write(r, None)
    BY <1>2, <1>6 DEF WriteRow, Goto, IInv, TypeOK
  <2>2. Consistent(r)'
    BY <1>2, <1>4, <1>6, ConsistentKept DEF WriteRow, Row, About
  <2>3. Stage(p, r)'
    BY <1>1, <2>1, <2>2 DEF Stage, Removal, Creates, Changes
  <2>4. "unlinkFrom" \in Labels \cap Holding /\ Write(req[p].role, None).id = r
    BY <1>2 DEF Labels, Holding, Write
  <2> QED BY <1>2, <1>3, <1>6, <2>3, <2>4, RowAgrees
<1> QED BY <1>5, <1>6 DEF DeleteRoleRow

(* What is about a role starts at it, or comes from its owner.             *)
LEMMA TupleOfRole ==
    ASSUME IInv, NEW r \in RoleIDs, NEW t \in About(r)
    PROVE  t \in FromRole(r) \/ t.rel = "member_role"
<1>1. t \in Tuples /\ t \in tuples /\ Of(t, r)
  BY DEF About, IInv, TypeOK
<1>2. t.rel \in {"role", "subject"} => t.obj \in BindingIDs
  BY <1>1 DEF Tuples
<1>3. t.rel = "grant" => t.sub \in BindingIDs
  BY <1>1 DEF Tuples
<1> QED BY <1>1, <1>2, <1>3, StoreAssumption DEF Of, FromRole

LEMMA UnlinkAgrees ==
    ASSUME IInv, AInv, NEW p \in Procs, NEW r \in RoleIDs, r = Target(p), r \in IDs,
           req[p].op = "DeleteRole", NEW gone, NEW l \in {"unlinkTo", "unlinked"},
           \/ pc[p] = "unlinkFrom" /\ l = "unlinkTo" /\ gone = FromRole(r)
           \/ pc[p] = "unlinkTo" /\ l = "unlinked" /\ gone = ToRole(r),
           tuples' = tuples \ gone, pc' = [pc EXCEPT ![p] = l],
           UNCHANGED <<dbVars, issued, over, req, upd, zed, ans>>
    PROVE  AInv'
<1>1. pc[p] \in Holding /\ pc[p] # "idle"
  BY DEF Holding
<1>2. \A t \in gone : Of(t, r)
  BY DEF FromRole, ToRole, Of
<1>3. /\ About(r)' = About(r) \ gone
      /\ \A t : Of(t, r) \/ (t \in tuples' <=> t \in tuples)
  BY <1>2 DEF About
<1>4. pc'[p] = l /\ req' = req /\ pend' = pend
  BY DEF IInv, TypeOK, dbVars
<1>5. Removal(p, r)
  BY StageOf DEF Stage, Removes
<1>6. CASE pc[p] = "unlinkFrom"
  <2>1. \A t \in About(r) \ FromRole(r) : t.rel = "member_role"
    BY TupleOfRole
  <2>2. Removal(p, r)'
    BY <1>3, <1>4, <1>5, <1>6, <2>1 DEF Removal
  <2>3. Stage(p, r)'
    BY <1>4, <2>2 DEF Stage, Creates, Changes
  <2>4. l \in Labels \cap Holding
    BY DEF Labels, Holding
  <2> QED BY <1>1, <1>3, <2>3, <2>4, TuplesAgree DEF dbVars
<1>7. CASE pc[p] = "unlinkTo"
  <2>1. \A t \in About(r) : t.rel = "member_role"
    BY <1>5, <1>7 DEF Removal
  <2>2. About(r) \ ToRole(r) = {}
    BY <2>1 DEF About, ToRole, Of
  <2>3. Removal(p, r)'
    BY <1>3, <1>4, <1>5, <1>7, <2>2 DEF Removal
  <2>4. Stage(p, r)'
    BY <1>4, <2>3 DEF Stage, Creates, Changes
  <2>5. l \in Labels \cap Holding
    BY DEF Labels, Holding
  <2> QED BY <1>1, <1>3, <2>4, <2>5, TuplesAgree DEF dbVars
<1> QED BY <1>6, <1>7

LEMMA UnlinkStepAgrees ==
    ASSUME Failures \subseteq Benign, IInv, AInv, NEW p \in Procs, UnlinkFrom(p) \/ UnlinkTo(p)
    PROVE  AInv'
<1>1. pc[p] \in {"unlinkFrom", "unlinkTo"} /\ req[p].op = "DeleteRole"
  BY DEF UnlinkFrom, UnlinkTo, Unlink, IInv, OpAt
<1>2. PICK r \in RoleIDs : r = req[p].role /\ r = Target(p) /\ r \in IDs /\ Row(r) = roleRow[r]
  BY <1>1, RoleTarget DEF RoleOps
<1>3. CASE UnlinkFrom(p)
  <2>1. /\ pc[p] = "unlinkFrom" /\ tuples' = tuples \ FromRole(r)
        /\ pc' = [pc EXCEPT ![p] = "unlinkTo"]
        /\ UNCHANGED <<dbVars, issued, over, req, upd, zed, ans>>
    BY <1>2, <1>3, NothingLate DEF UnlinkFrom, Unlink, Goto
  <2> QED BY <1>1, <1>2, <2>1, UnlinkAgrees
<1>4. CASE UnlinkTo(p)
  <2>1. /\ pc[p] = "unlinkTo" /\ tuples' = tuples \ ToRole(r)
        /\ pc' = [pc EXCEPT ![p] = "unlinked"]
        /\ UNCHANGED <<dbVars, issued, over, req, upd, zed, ans>>
    BY <1>2, <1>4, NothingLate DEF UnlinkTo, Unlink, Goto
  <2> QED BY <1>1, <1>2, <2>1, UnlinkAgrees
<1> QED BY <1>3, <1>4

LEMMA UnlinkedAgrees == ASSUME IInv, AInv, NEW p \in Procs, Unlinked(p) PROVE AInv'
<1>1. pc[p] = "unlinked" /\ req[p].op = "DeleteRole"
  BY DEF Unlinked, IInv, OpAt
<1>2. PICK r \in RoleIDs : r = req[p].role /\ r = Target(p) /\ r \in IDs /\ Row(r) = roleRow[r]
  BY <1>1, RoleTarget DEF RoleOps
<1>3. pc[p] \in Holding /\ pc[p] # "idle"
  BY <1>1 DEF Holding
<1>4. ans[p] = "none"
  BY <1>1 DEF AInv, Calm
<1>5. Goto(p, "commit") /\ UNCHANGED <<dbVars, issued, tuples, over, req, upd, zed, ans>>
  BY <1>4 DEF Unlinked
<1>6. pc' = [pc EXCEPT ![p] = "commit"] /\ pc'[p] = "commit" /\ req' = req /\ pend' = pend
  BY <1>5 DEF Goto, IInv, TypeOK, dbVars
<1>7. Removal(p, r) /\ About(r)' = About(r)
  BY <1>1, <1>2, <1>5, StageOf DEF Stage, Removes, About
<1>8. Removal(p, r)'
  BY <1>1, <1>6, <1>7 DEF Removal
<1>9. Stage(p, r)'
  BY <1>1, <1>6, <1>8 DEF Stage, Creates, Changes
<1>10. "commit" \in Labels \ {"idle", "undo", "undoTwice"} /\ "commit" \in Holding
  BY DEF Labels, Holding
<1> QED BY <1>2, <1>3, <1>5, <1>6, <1>9, <1>10, QuietAgrees DEF dbVars

LEMMA CommitRoleAgrees ==
    ASSUME Failures \subseteq Benign, IInv, AInv, NEW p \in Procs, CommitRole(p) PROVE AInv'
<1>1. pc[p] = "commit" /\ req[p].op \in RoleOps
  BY DEF CommitRole
<1>2. PICK r \in RoleIDs : r = req[p].role /\ r = Target(p) /\ r \in IDs /\ Row(r) = roleRow[r]
  BY <1>1, RoleTarget
<1>3. /\ CommitContext(p) /\ Return(p, "ok")
      /\ UNCHANGED <<issued, tuples, over, req, upd, zed>>
  BY NothingLate DEF CommitRole
<1> QED BY <1>1, <1>2, <1>3, CommitAgrees

LEMMA RoleStepAgrees ==
    ASSUME Failures \subseteq Benign, IInv, AInv, NEW p \in Procs, RoleStep(p) PROVE AInv'
<1>1. ASSUME BeginRole(p) PROVE AInv'
  BY <1>1, BeginAgrees DEF BeginRole, Waiting
<1> QED BY <1>1, InsertRoleAgrees, LockRoleAgrees, GetRoleForUpdateAgrees, UpdateRoleRowAgrees,
           WriteRoleAgrees, FindBindingsAgrees, DeleteRoleRowAgrees, UnlinkStepAgrees,
           UnlinkedAgrees,
           CommitRoleAgrees DEF RoleStep

-----------------------------------------------------------------------------
(* The steps of a binding operation.                                       *)

LEMMA CheckBindableAgrees == ASSUME IInv, AInv, NEW p \in Procs, CheckBindable(p) PROVE AInv'
<1>1. PICK l \in {"readRole", "returned"} :
        /\ pc[p] = "bindable" /\ pc' = [pc EXCEPT ![p] = l]
        /\ \A q \in Procs \ {p} : ans'[q] = ans[q]
        /\ l # "returned" => ans' = ans
        /\ UNCHANGED <<dbVars, issued, tuples, over, req, upd>>
  BY DEF CheckBindable, FailOpen, Return, Goto, IInv, TypeOK
<1>2. pc[p] \in Waiting /\ pc[p] # "idle" /\ l \in (Waiting \cup {"returned"}) \ {"idle"}
  BY <1>1 DEF Waiting
<1> QED BY <1>1, <1>2, WaitingAgrees DEF dbVars

LEMMA ReadRoleAgrees == ASSUME IInv, AInv, NEW p \in Procs, ReadRole(p) PROVE AInv'
<1>1. PICK l \in {"begin", "returned"} :
        /\ pc[p] = "readRole" /\ pc' = [pc EXCEPT ![p] = l]
        /\ \A q \in Procs \ {p} : ans'[q] = ans[q]
        /\ l # "returned" => ans' = ans
        /\ UNCHANGED <<dbVars, issued, tuples, over, req, upd>>
  BY DEF ReadRole, FailOpen, Return, Goto, IInv, TypeOK
<1>2. pc[p] \in Waiting /\ pc[p] # "idle" /\ l \in (Waiting \cup {"returned"}) \ {"idle"}
  BY <1>1 DEF Waiting
<1> QED BY <1>1, <1>2, WaitingAgrees DEF dbVars

LEMMA InsertBindingAgrees == ASSUME IInv, AInv, NEW p \in Procs, InsertBinding(p) PROVE AInv'
<1>1. pc[p] = "insertBinding" /\ req[p].op = "CreateBinding"
  BY DEF InsertBinding, IInv, OpAt
<1>2. PICK b \in BindingIDs : /\ b = req[p].rb /\ b = Target(p) /\ b \in IDs /\ b \notin RoleIDs
                              /\ Row(b) = rbRow[b]
  BY <1>1, BindingTarget DEF BindingOps
<1>3. pc[p] \in Waiting /\ pc[p] # "idle" /\ pc[p] \notin Holding
  BY <1>1 DEF Waiting, Holding
<1>4. CASE RollbackAndFail(p)
  BY <1>2, <1>3, <1>4, FailAgrees
<1>5. CASE /\ WriteRow(p, Write(req[p].rb, req[p].res), "apply")
           /\ upd' = [upd EXCEPT ![p] = Update(BindingTuples(req[p].rb, req[p].role, req[p].res,
                                                             req[p].subjects), {})]
           /\ UNCHANGED tuples
  <2> DEFINE add == BindingTuples(b, req[p].role, req[p].res, req[p].subjects)
  <2>1. Row(b)' = Row(b) /\ About(b)' = About(b)
    BY <1>5 DEF WriteRow, Row, About
  <2>2. lock[b] \in {None, p}
    BY <1>2, <1>5 DEF WriteRow, Write
  <2>3. lock[b] = None /\ Row(b) = None /\ Consistent(b)
    BY <1>1, <1>2, <1>3, <2>2, StageOf DEF Creates
  <2>4. About(b)' = {}
    BY <2>1, <2>3 DEF Consistent
  <2>5. Whole(b, req[p].res, add) /\ \A t \in add : Of(t, b)
    BY <1>1, BindingCreated, RequestRes, RequestSets DEF Creates
  <2>6. /\ pc'[p] = "apply" /\ req' = req
        /\ upd'[p].add = add /\ upd'[p].del = {}
        /\ pend'[p] = Write(b, req[p].res)
    BY <1>2, <1>5 DEF WriteRow, Goto, Update, IInv, TypeOK
  <2> HIDE DEF add
  <2>7. Creation(p, b)'
    BY <2>4, <2>5, <2>6 DEF Creation
  <2>8. Stage(p, b)'
    BY <1>1, <2>6, <2>7 DEF Stage, Changes, Removes
  <2>9. \A q \in Procs \ {p} : upd'[q] = upd[q]
    BY <1>5 DEF IInv, TypeOK
  <2>10. "apply" \in Labels \cap Holding /\ Write(req[p].rb, req[p].res).id = b
    BY <1>2 DEF Labels, Holding, Write
  <2> QED BY <1>2, <1>3, <1>5, <2>8, <2>9, <2>10, RowAgrees
<1> QED BY <1>4, <1>5 DEF InsertBinding

LEMMA LockBindingAgrees == ASSUME IInv, AInv, NEW p \in Procs, LockBinding(p) PROVE AInv'
<1>1. pc[p] = "lockBinding" /\ req[p].op \in {"UpdateBinding", "DeleteBinding"}
  BY DEF LockBinding, IInv, OpAt
<1>2. PICK b \in BindingIDs : /\ b = req[p].rb /\ b = Target(p) /\ b \in IDs /\ b \notin RoleIDs
                              /\ Row(b) = rbRow[b]
  BY <1>1, BindingTarget DEF BindingOps
<1>3. pc[p] \in Waiting \ {"idle"} /\ pc[p] \notin Holding
  BY <1>1 DEF Waiting, Holding
<1>4. CASE RollbackAndFail(p)
  BY <1>2, <1>3, <1>4, FailAgrees
<1>5. ASSUME NEW l \in {"getBinding", "readFrom"},
             l = IF req[p].op = "UpdateBinding" THEN "getBinding" ELSE "readFrom",
             lock[b] = None, rbRow[b] # None, lock' = [lock EXCEPT ![b] = p], Goto(p, l),
             UNCHANGED <<roleRow, rbRow, born, tx, pend, zlock, issued, tuples, over, req, upd,
                         zed, ans>>
      PROVE  AInv'
  <2>1. Row(b)' = Row(b) /\ About(b)' = About(b)
    BY <1>5 DEF Row, About
  <2>2. Consistent(b) /\ pend[p] = None
    BY <1>2, <1>3, <1>5, StageOf
  <2>3. pc' = [pc EXCEPT ![p] = l] /\ pc'[p] = l /\ req' = req /\ pend'[p] = None
    BY <1>5, <2>2 DEF Goto, IInv, TypeOK
  <2>4. Change(p, b)'
    BY <1>2, <1>5, <2>1, <2>2, <2>3 DEF Change, Consistent
  <2>5. req[p].op = "DeleteBinding" => Removal(p, b)'
    <3>1. Consistent(b)'
      BY <1>2, <2>1, <2>2, ConsistentKept
    <3> QED BY <1>5, <2>3, <3>1 DEF Removal
  <2>6. Stage(p, b)'
    BY <1>1, <2>3, <2>4, <2>5 DEF Stage, Creates, Removes
  <2>7. l \in Labels \cap Holding
    BY DEF Labels, Holding
  <2> QED BY <1>2, <1>3, <1>5, <2>3, <2>6, <2>7, LockAgrees
<1> QED BY <1>2, <1>4, <1>5 DEF LockBinding, LockForUpdate

LEMMA GetBindingForUpdateAgrees ==
    ASSUME IInv, AInv, NEW p \in Procs, GetBindingForUpdate(p) PROVE AInv'
<1>1. pc[p] = "getBinding" /\ req[p].op = "UpdateBinding"
  BY DEF GetBindingForUpdate, IInv, OpAt
<1>2. PICK b \in BindingIDs : /\ b = req[p].rb /\ b = Target(p) /\ b \in IDs /\ b \notin RoleIDs
                              /\ Row(b) = rbRow[b]
  BY <1>1, BindingTarget DEF BindingOps
<1>3. pc[p] \in Holding /\ pc[p] # "idle"
  BY <1>1 DEF Holding
<1>4. Stage(p, b) /\ Consistent(b)
  BY <1>1, <1>2, <1>3, StageOf, HeldConsistent DEF Changes
<1>5. CASE RollbackAndFail(p)
  BY <1>2, <1>3, <1>4, <1>5, FailAgrees
<1>6. ASSUME NEW u, u = SubjectDiff(b, req[p].subjects), Goto(p, "apply"),
             upd' = [upd EXCEPT ![p] = u],
             UNCHANGED <<dbVars, issued, tuples, over, req, zed, ans>>
      PROVE  AInv'
  <2>1. Row(b)' = Row(b) /\ About(b)' = About(b)
    BY <1>6 DEF Row, About, dbVars
  <2>2. Ready(req[p], b, About(b), u)
    BY <1>1, <1>2, <1>6, RequestSets, SubjectDiffReady
  <2>3. /\ pc' = [pc EXCEPT ![p] = "apply"] /\ pc'[p] = "apply" /\ req' = req
        /\ upd'[p] = u /\ pend' = pend
    BY <1>6 DEF Goto, IInv, TypeOK, dbVars
  <2>4. /\ Row(b) # None /\ Whole(b, Row(b), About(b))
        /\ pend[p] \in {None, Write(b, Row(b))}
    BY <1>1, <1>3, <1>4 DEF Stage, Change, Changes
  <2>5. Change(p, b)'
    BY <2>1, <2>2, <2>3, <2>4 DEF Change
  <2>6. Stage(p, b)'
    BY <1>1, <2>3, <2>5 DEF Stage, Creates, Removes
  <2>7. "apply" \in Labels \ {"idle", "undo", "undoTwice"} /\ "apply" \in Holding
    BY DEF Labels, Holding
  <2>8. \A q \in Procs \ {p} : upd'[q] = upd[q] /\ ans'[q] = ans[q]
    BY <1>6 DEF IInv, TypeOK
  <2> QED BY <1>2, <1>3, <1>6, <2>3, <2>6, <2>7, <2>8, QuietAgrees DEF dbVars
<1>7. CASE Return(p, "ok") /\ UNCHANGED <<dbVars, issued, tuples, over, req, upd, zed>>
  <2>1. \A q \in Procs \ {p} : upd'[q] = upd[q] /\ ans'[q] = ans[q]
    BY <1>7 DEF Return, IInv, TypeOK
  <2>2. "returned" \in Labels \ {"idle", "undo", "undoTwice"}
    BY DEF Labels
  <2> QED BY <1>2, <1>3, <1>4, <1>7, <2>1, <2>2, QuietAgrees DEF Return, Goto, dbVars
<1> QED BY <1>2, <1>5, <1>6, <1>7 DEF GetBindingForUpdate

(* What is about a binding starts at it, or comes from its resource.       *)
LEMMA TupleOfBinding ==
    ASSUME IInv, NEW b \in BindingIDs
    PROVE  About(b) = FromBinding(b) \cup ToBinding(b)
<1>1. ASSUME NEW t \in About(b) PROVE t \in FromBinding(b) \cup ToBinding(b)
  <2>1. t \in Tuples /\ t \in tuples /\ Of(t, b)
    BY <1>1 DEF About, IInv, TypeOK
  <2>2. t.rel \in {"action", "owner"} => t.obj \in RoleIDs
    BY <2>1 DEF Tuples
  <2>3. t.rel = "member_role" => t.sub \in RoleIDs
    BY <2>1 DEF Tuples
  <2> QED BY <2>1, <2>2, <2>3, StoreAssumption DEF Of, FromBinding, ToBinding
<1>2. FromBinding(b) \cup ToBinding(b) \subseteq About(b)
  BY DEF FromBinding, ToBinding, About, Of
<1> QED BY <1>1, <1>2

LEMMA ReadFromAgrees == ASSUME IInv, AInv, NEW p \in Procs, ReadFrom(p) PROVE AInv'
<1>1. pc[p] = "readFrom" /\ req[p].op = "DeleteBinding"
  BY DEF ReadFrom, IInv, OpAt
<1>2. PICK b \in BindingIDs : /\ b = req[p].rb /\ b = Target(p) /\ b \in IDs /\ b \notin RoleIDs
                              /\ Row(b) = rbRow[b]
  BY <1>1, BindingTarget DEF BindingOps
<1>3. pc[p] \in Holding /\ pc[p] # "idle"
  BY <1>1 DEF Holding
<1>4. Consistent(b)
  BY <1>1, <1>2, <1>3, HeldConsistent DEF Removes
<1>5. CASE RollbackAndFail(p)
  BY <1>2, <1>3, <1>4, <1>5, FailAgrees
<1>6. CASE FailOpen(p)
  BY <1>2, <1>3, <1>4, <1>6, FailOpenAgrees
<1>7. CASE /\ Goto(p, "readTo")
           /\ upd' = [upd EXCEPT ![p] = Update({}, FromBinding(req[p].rb))]
           /\ UNCHANGED <<dbVars, issued, tuples, over, req, zed, ans>>
  <2>1. /\ pc' = [pc EXCEPT ![p] = "readTo"] /\ pc'[p] = "readTo" /\ req' = req
        /\ upd'[p].add = {} /\ upd'[p].del = FromBinding(b)
    BY <1>2, <1>7 DEF Goto, Update, IInv, TypeOK
  <2>2. Consistent(b)' /\ About(b)' = About(b)
    BY <1>2, <1>4, <1>7, ConsistentKept DEF Row, About, dbVars
  <2>3. FromBinding(b) = {t \in About(b) : t.rel \in {"role", "subject"}}
    BY DEF FromBinding, About, Of
  <2>4. Removal(p, b)'
    BY <2>1, <2>2, <2>3 DEF Removal
  <2>5. Stage(p, b)'
    BY <1>1, <2>1, <2>4 DEF Stage, Creates, Changes
  <2>6. "readTo" \in Labels \ {"idle", "undo", "undoTwice"} /\ "readTo" \in Holding
    BY DEF Labels, Holding
  <2>7. \A q \in Procs \ {p} : upd'[q] = upd[q] /\ ans'[q] = ans[q]
    BY <1>7 DEF IInv, TypeOK
  <2> QED BY <1>2, <1>3, <1>7, <2>1, <2>5, <2>6, <2>7, QuietAgrees DEF dbVars
<1> QED BY <1>5, <1>6, <1>7 DEF ReadFrom

LEMMA ReadToAgrees == ASSUME IInv, AInv, NEW p \in Procs, ReadTo(p) PROVE AInv'
<1>1. pc[p] = "readTo" /\ req[p].op = "DeleteBinding"
  BY DEF ReadTo, IInv, OpAt
<1>2. PICK b \in BindingIDs : /\ b = req[p].rb /\ b = Target(p) /\ b \in IDs /\ b \notin RoleIDs
                              /\ Row(b) = rbRow[b]
  BY <1>1, BindingTarget DEF BindingOps
<1>3. pc[p] \in Holding /\ pc[p] # "idle"
  BY <1>1 DEF Holding
<1>4. Consistent(b) /\ Removal(p, b)
  BY <1>1, <1>2, <1>3, HeldConsistent, StageOf DEF Stage, Removes
<1>5. CASE RollbackAndFail(p)
  BY <1>2, <1>3, <1>4, <1>5, FailAgrees
<1>6. CASE /\ Goto(p, "apply")
           /\ upd' = [upd EXCEPT ![p] = Update({}, @.del \cup ToBinding(req[p].rb))]
           /\ UNCHANGED <<dbVars, issued, tuples, over, req, zed, ans>>
  <2>1. /\ pc' = [pc EXCEPT ![p] = "apply"] /\ pc'[p] = "apply" /\ req' = req
        /\ upd'[p].add = {} /\ upd'[p].del = upd[p].del \cup ToBinding(b)
    BY <1>2, <1>6 DEF Goto, Update, IInv, TypeOK
  <2>2. Consistent(b)' /\ About(b)' = About(b)
    BY <1>2, <1>4, <1>6, ConsistentKept DEF Row, About, dbVars
  <2>3. upd[p].del = FromBinding(b)
    <3>1. upd[p].del = {t \in About(b) : t.rel \in {"role", "subject"}}
      BY <1>1, <1>4 DEF Removal
    <3> QED BY <3>1 DEF FromBinding, About, Of
  <2>4. Removal(p, b)'
    BY <2>1, <2>2, <2>3, TupleOfBinding DEF Removal
  <2>5. Stage(p, b)'
    BY <1>1, <2>1, <2>4 DEF Stage, Creates, Changes
  <2>6. "apply" \in Labels \ {"idle", "undo", "undoTwice"} /\ "apply" \in Holding
    BY DEF Labels, Holding
  <2>7. \A q \in Procs \ {p} : upd'[q] = upd[q] /\ ans'[q] = ans[q]
    BY <1>6 DEF IInv, TypeOK
  <2> QED BY <1>2, <1>3, <1>6, <2>1, <2>5, <2>6, <2>7, QuietAgrees DEF dbVars
<1> QED BY <1>5, <1>6 DEF ReadTo

LEMMA ApplyUpdatesAgrees ==
    ASSUME Failures \subseteq Benign, IInv, AInv, NEW p \in Procs, ApplyUpdates(p) PROVE AInv'
<1>1. pc[p] = "apply" /\ req[p].op \in BindingOps
  BY DEF ApplyUpdates, IInv, OpAt
<1>2. PICK b \in BindingIDs : /\ b = req[p].rb /\ b = Target(p) /\ b \in IDs /\ b \notin RoleIDs
                              /\ Row(b) = rbRow[b]
  BY <1>1, BindingTarget
<1>3. pc[p] \in Holding /\ pc[p] # "idle"
  BY <1>1 DEF Holding
<1>4. CASE RollbackAndFail(p)
  <2>1. Consistent(b)
    BY <1>1, <1>2, <1>3, HeldConsistent DEF Creates, Changes, Removes, BindingOps
  <2> QED BY <1>2, <1>3, <1>4, <2>1, FailAgrees
<1>5. CASE /\ tuples' = (tuples \ upd[p].del) \cup upd[p].add
           /\ Goto(p, "zed")
           /\ UNCHANGED <<dbVars, issued, over, req, upd, ans>>
  BY <1>1, <1>2, <1>5, WriteAgrees DEF Goto, dbVars
<1> QED BY <1>4, <1>5, NothingLate DEF ApplyUpdates

LEMMA UpsertZedTokenAgrees ==
    ASSUME Failures \subseteq Benign, IInv, AInv, NEW p \in Procs, UpsertZedToken(p) PROVE AInv'
<1>1. pc[p] = "zed" /\ req[p].op \in BindingOps
  BY DEF UpsertZedToken, IInv, OpAt
<1>2. PICK b \in BindingIDs : /\ b = req[p].rb /\ b = Target(p) /\ b \in IDs /\ b \notin RoleIDs
                              /\ Row(b) = rbRow[b]
  BY <1>1, BindingTarget
<1>3. pc[p] \in Holding /\ pc[p] # "idle"
  BY <1>1 DEF Holding
<1>4. Stage(p, b)
  BY <1>2, StageOf
<1>5. ASSUME NEW l \in {"zed", "commit", "touchBinding", "deleteBinding"},
             \/ l = "zed"
             \/ l = "commit" /\ req[p].op = "CreateBinding"
             \/ l = "touchBinding" /\ req[p].op = "UpdateBinding"
             \/ l = "deleteBinding" /\ req[p].op = "DeleteBinding",
             pc' = [pc EXCEPT ![p] = l],
             UNCHANGED <<roleRow, rbRow, lock, pend, issued, tuples, over, req, upd, ans>>
      PROVE  AInv'
  <2>1. Row(b)' = Row(b) /\ About(b)' = About(b)
    BY <1>5 DEF Row, About
  <2>2. pc'[p] = l
    BY <1>5 DEF IInv, TypeOK
  <2>3. req[p].op \in Creates => l \in {"zed", "commit"} /\ Creation(p, b)'
    BY <1>1, <1>4, <1>5, <2>1, <2>2 DEF Stage, Creation, Creates
  <2>4. req[p].op \in Changes => Change(p, b)'
    BY <1>1, <1>3, <1>4, <1>5, <2>1, <2>2 DEF Stage, Change, Changes
  <2>5. req[p].op \in Removes => Removal(p, b)'
    BY <1>1, <1>4, <1>5, <2>1, <2>2 DEF Stage, Removal, Removes, BindingOps
  <2>6. Stage(p, b)'
    BY <1>5, <2>3, <2>4, <2>5 DEF Stage
  <2>7. l \in Labels \ {"idle", "undo", "undoTwice"} /\ l \in Holding
    BY DEF Labels, Holding
  <2> QED BY <1>2, <1>3, <1>5, <2>6, <2>7, QuietAgrees
<1>6. CASE \E id \in zed[p] :
              /\ zlock' = [zlock EXCEPT ![id] = p]
              /\ UNCHANGED <<roleRow, rbRow, born, tx, pend, lock, issued, tuples, over, pc, req,
                             upd, ans>>
  <2>1. pc' = [pc EXCEPT ![p] = "zed"]
    BY <1>1, <1>6 DEF IInv, TypeOK
  <2> QED BY <1>5, <1>6, <2>1
<1>7. CASE /\ Goto(p, CASE req[p].op = "CreateBinding" -> "commit"
                        [] req[p].op = "UpdateBinding" -> "touchBinding"
                        [] req[p].op = "DeleteBinding" -> "deleteBinding")
           /\ UNCHANGED <<dbVars, issued, tuples, over, req, upd, zed, ans>>
  <2>1. PICK l \in {"commit", "touchBinding", "deleteBinding"} :
          /\ pc' = [pc EXCEPT ![p] = l]
          /\ \/ l = "commit" /\ req[p].op = "CreateBinding"
             \/ l = "touchBinding" /\ req[p].op = "UpdateBinding"
             \/ l = "deleteBinding" /\ req[p].op = "DeleteBinding"
    BY <1>1, <1>7 DEF Goto, BindingOps
  <2> QED BY <1>5, <1>7, <2>1 DEF dbVars
<1> QED BY <1>6, <1>7, NothingLate DEF UpsertZedToken

LEMMA TouchBindingAgrees ==
    ASSUME Failures \subseteq Benign, IInv, AInv, NEW p \in Procs, TouchBinding(p) PROVE AInv'
<1>1. pc[p] = "touchBinding" /\ req[p].op = "UpdateBinding"
  BY DEF TouchBinding, IInv, OpAt
<1>2. PICK b \in BindingIDs : /\ b = req[p].rb /\ b = Target(p) /\ b \in IDs /\ b \notin RoleIDs
                              /\ Row(b) = rbRow[b]
  BY <1>1, BindingTarget DEF BindingOps
<1>3. pc[p] \in Holding /\ pc[p] # "idle"
  BY <1>1 DEF Holding
<1>4. WriteRow(p, Write(req[p].rb, rbRow[req[p].rb]), "commit") /\ UNCHANGED <<tuples, upd>>
  BY NothingLate DEF TouchBinding
<1>5. Row(b)' = Row(b) /\ About(b)' = About(b)
  BY <1>4 DEF WriteRow, Row, About
<1>6. pc'[p] = "commit" /\ req' = req /\ upd' = upd /\ pend'[p] = Write(b, Row(b))
  BY <1>2, <1>4 DEF WriteRow, Goto, IInv, TypeOK
<1>7. Change(p, b)
  BY <1>1, <1>2, StageOf DEF Stage, Changes
<1>8. Change(p, b)'
  BY <1>1, <1>3, <1>5, <1>6, <1>7 DEF Change
<1>9. Stage(p, b)'
  BY <1>1, <1>6, <1>8 DEF Stage, Creates, Removes
<1>10. "commit" \in Labels \cap Holding /\ Write(req[p].rb, rbRow[req[p].rb]).id = b
  BY <1>2 DEF Labels, Holding, Write
<1> QED BY <1>2, <1>3, <1>4, <1>9, <1>10, RowAgrees

LEMMA DeleteBindingRowAgrees ==
    ASSUME Failures \subseteq Benign, IInv, AInv, NEW p \in Procs, DeleteBindingRow(p) PROVE AInv'
<1>1. pc[p] = "deleteBinding" /\ req[p].op = "DeleteBinding"
  BY DEF DeleteBindingRow, IInv, OpAt
<1>2. PICK b \in BindingIDs : /\ b = req[p].rb /\ b = Target(p) /\ b \in IDs /\ b \notin RoleIDs
                              /\ Row(b) = rbRow[b]
  BY <1>1, BindingTarget DEF BindingOps
<1>3. pc[p] \in Holding /\ pc[p] # "idle"
  BY <1>1 DEF Holding
<1>4. WriteRow(p, Write(req[p].rb, None), "commit") /\ UNCHANGED <<tuples, upd>>
  BY NothingLate DEF DeleteBindingRow
<1>5. About(b)' = About(b)
  BY <1>4 DEF About
<1>6. pc'[p] = "commit" /\ req' = req /\ pend'[p] = Write(b, None)
  BY <1>2, <1>4 DEF WriteRow, Goto, IInv, TypeOK
<1>7. Removal(p, b)
  BY <1>1, <1>2, StageOf DEF Stage, Removes
<1>8. Removal(p, b)'
  BY <1>1, <1>5, <1>6, <1>7 DEF Removal
<1>9. Stage(p, b)'
  BY <1>1, <1>6, <1>8 DEF Stage, Creates, Changes
<1>10. "commit" \in Labels \cap Holding /\ Write(req[p].rb, None).id = b
  BY <1>2 DEF Labels, Holding, Write
<1> QED BY <1>2, <1>3, <1>4, <1>9, <1>10, RowAgrees

LEMMA CommitBindingAgrees ==
    ASSUME Failures \subseteq Benign, IInv, AInv, NEW p \in Procs, CommitBinding(p) PROVE AInv'
<1>1. pc[p] = "commit" /\ req[p].op \in BindingOps
  BY DEF CommitBinding
<1>2. PICK b \in BindingIDs : /\ b = req[p].rb /\ b = Target(p) /\ b \in IDs /\ b \notin RoleIDs
                              /\ Row(b) = rbRow[b]
  BY <1>1, BindingTarget
<1>3. /\ CommitContext(p) /\ Return(p, "ok")
      /\ UNCHANGED <<issued, tuples, over, req, upd, zed>>
  BY NothingLate DEF CommitBinding
<1> QED BY <1>1, <1>2, <1>3, CommitAgrees

LEMMA BindingStepAgrees ==
    ASSUME Failures \subseteq Benign, IInv, AInv, NEW p \in Procs, BindingStep(p) PROVE AInv'
<1>1. ASSUME BeginBinding(p) PROVE AInv'
  BY <1>1, BeginAgrees DEF BeginBinding, Waiting
<1>2. ~RollbackUpdates(p)
  BY DEF RollbackUpdates, AInv, Calm
<1> QED BY <1>1, <1>2, CheckBindableAgrees, ReadRoleAgrees, InsertBindingAgrees, LockBindingAgrees,
           GetBindingForUpdateAgrees, ReadFromAgrees, ReadToAgrees, ApplyUpdatesAgrees,
           UpsertZedTokenAgrees, TouchBindingAgrees, DeleteBindingRowAgrees, CommitBindingAgrees
        DEF BindingStep

-----------------------------------------------------------------------------
(* Requests arrive.                                                        *)

LEMMA StartRoleAgrees == ASSUME IInv, AInv, NEW p \in Procs, StartRole(p) PROVE AInv'
<1>1. ASSUME NEW r \in RoleIDs, NEW q \in Requests, q.op \in RoleOps, q.role = r,
             StartAt(p, q, "begin"),
             \/ q.op \notin Creates /\ UNCHANGED issued
             \/ r \notin issued /\ issued' = issued \cup {r}
      PROVE  AInv'
  BY <1>1, StartAgrees DEF IDs
<1>2. ASSUME NEW r \in RoleIDs \ issued, NEW x \in Resources, NEW acts \in SUBSET Actions,
             StartAt(p, [op |-> "CreateRole", role |-> r, res |-> x, actions |-> acts], "begin"),
             issued' = issued \cup {r}
      PROVE  AInv'
  <2> DEFINE q == [op |-> "CreateRole", role |-> r, res |-> x, actions |-> acts]
  <2>1. q \in Requests /\ q.op \in RoleOps /\ q.role = r
    BY DEF Requests, RoleOps
  <2> HIDE DEF q
  <2> QED BY <1>1, <1>2, <2>1 DEF q
<1>3. ASSUME NEW r \in RoleIDs, NEW n \in BOOLEAN, NEW acts \in SUBSET Actions, UNCHANGED issued,
             StartAt(p, [op |-> "UpdateRole", role |-> r, rename |-> n, actions |-> acts], "begin")
      PROVE  AInv'
  <2> DEFINE q == [op |-> "UpdateRole", role |-> r, rename |-> n, actions |-> acts]
  <2>1. q \in Requests /\ q.op \in RoleOps /\ q.op \notin Creates /\ q.role = r
    BY DEF Requests, RoleOps, Creates
  <2> HIDE DEF q
  <2> QED BY <1>1, <1>3, <2>1 DEF q
<1>4. ASSUME NEW r \in RoleIDs, StartAt(p, [op |-> "DeleteRole", role |-> r], "begin"),
             UNCHANGED issued
      PROVE  AInv'
  <2> DEFINE q == [op |-> "DeleteRole", role |-> r]
  <2>1. q \in Requests /\ q.op \in RoleOps /\ q.op \notin Creates /\ q.role = r
    BY DEF Requests, RoleOps, Creates
  <2> HIDE DEF q
  <2> QED BY <1>1, <1>4, <2>1 DEF q
<1> QED BY <1>2, <1>3, <1>4 DEF StartRole

LEMMA StartBindingAgrees == ASSUME IInv, AInv, NEW p \in Procs, StartBinding(p) PROVE AInv'
<1>1. ASSUME NEW b \in BindingIDs, NEW q \in Requests, q.op \in BindingOps, q.rb = b,
             NEW l \in {"begin", "bindable"}, StartAt(p, q, l),
             \/ q.op \notin Creates /\ UNCHANGED issued
             \/ b \notin issued /\ issued' = issued \cup {b}
      PROVE  AInv'
  <2>1. q.op \notin RoleOps /\ b \in IDs
    BY <1>1 DEF RoleOps, BindingOps, IDs
  <2> QED BY <1>1, <2>1, StartAgrees
<1>2. ASSUME NEW b \in BindingIDs \ issued, NEW r \in RoleIDs, NEW x \in Resources,
             NEW subjs \in SUBSET Subjects,
             StartAt(p, [op |-> "CreateBinding", rb |-> b, role |-> r, res |-> x,
                         subjects |-> subjs], "bindable"),
             issued' = issued \cup {b}
      PROVE  AInv'
  <2> DEFINE q == [op |-> "CreateBinding", rb |-> b, role |-> r, res |-> x, subjects |-> subjs]
  <2>1. q \in Requests /\ q.op \in BindingOps /\ q.rb = b
    BY DEF Requests, BindingOps
  <2> HIDE DEF q
  <2> QED BY <1>1, <1>2, <2>1 DEF q
<1>3. ASSUME NEW b \in BindingIDs, NEW subjs \in SUBSET Subjects, UNCHANGED issued,
             StartAt(p, [op |-> "UpdateBinding", rb |-> b, subjects |-> subjs], "begin")
      PROVE  AInv'
  <2> DEFINE q == [op |-> "UpdateBinding", rb |-> b, subjects |-> subjs]
  <2>1. q \in Requests /\ q.op \in BindingOps /\ q.op \notin Creates /\ q.rb = b
    BY DEF Requests, BindingOps, Creates
  <2> HIDE DEF q
  <2> QED BY <1>1, <1>3, <2>1 DEF q
<1>4. ASSUME NEW b \in BindingIDs, StartAt(p, [op |-> "DeleteBinding", rb |-> b], "begin"),
             UNCHANGED issued
      PROVE  AInv'
  <2> DEFINE q == [op |-> "DeleteBinding", rb |-> b]
  <2>1. q \in Requests /\ q.op \in BindingOps /\ q.op \notin Creates /\ q.rb = b
    BY DEF Requests, BindingOps, Creates
  <2> HIDE DEF q
  <2> QED BY <1>1, <1>4, <2>1 DEF q
<1> QED BY <1>2, <1>3, <1>4 DEF StartBinding

-----------------------------------------------------------------------------
LEMMA NextAgrees == ASSUME Failures \subseteq Benign PROVE IInv /\ AInv /\ [Next]_vars => AInv'
<1> SUFFICES ASSUME IInv, AInv, [Next]_vars PROVE AInv'
  OBVIOUS
<1>1. CASE UNCHANGED vars
  <2>1. /\ \A id \in IDs : Row(id)' = Row(id) /\ About(id)' = About(id)
        /\ \A q \in Procs : Target(q)' = Target(q)
    BY <1>1 DEF Row, About, Target, vars, dbVars, procVars
  <2>2. Calm' /\ Locks' /\ Fresh'
    BY <1>1, <2>1 DEF vars, dbVars, procVars, AInv, Calm, Locks, Fresh
  <2>3. Stages'
    BY <1>1, <2>1, StageKept DEF vars, dbVars, procVars, AInv, Stages
  <2>4. Rest'
    BY <1>1, <2>1, ConsistentKept DEF vars, dbVars, procVars, AInv, Rest, Free
  <2> QED BY <2>2, <2>3, <2>4 DEF AInv
<1>2. ASSUME NEW p \in Procs, Start(p) \/ Work(p) \/ Cancel(p) PROVE AInv'
  <2>1. ~Cancel(p) /\ ~AbortTx(p)
    BY NothingLate DEF Cancel, AbortTx
  <2> QED BY <1>2, <2>1, StartRoleAgrees, StartBindingAgrees, RoleStepAgrees, BindingStepAgrees,
             RequestEndAgrees DEF Start, Work
<1> QED BY <1>1, <1>2 DEF Next

LEMMA AgreeInv == ASSUME Failures \subseteq Benign PROVE Spec => []AInv
BY InitAgrees, NextAgrees, RBACInv, PTL DEF Spec

-----------------------------------------------------------------------------
(* Whenever no request is working on a binding, its row exists exactly if  *)
(* its tuples do, and they name one role and grant on the row's resource:  *)
(* FOR UPDATE and the INSERT hold the row until the commit.                *)
THEOREM BindingHalvesAgree ==
    ASSUME Failures \subseteq Benign
    PROVE  Spec => []BindingsAgree
<1>1. IInv /\ AInv => BindingsAgree
  <2> SUFFICES ASSUME IInv, AInv, NEW b \in BindingIDs, Settled(b)
               PROVE  IF rbRow[b] = None
                      THEN FromBinding(b) = {} /\ ToBinding(b) = {}
                      ELSE Cardinality(RolesOf(b)) = 1 /\ ResourcesOf(b) = {rbRow[b]}
    BY DEF BindingsAgree
  <2>1. b \in IDs /\ b \notin RoleIDs /\ Row(b) = rbRow[b]
    BY StoreAssumption DEF IDs, Row
  <2>2. Consistent(b)
    BY <2>1, StoreAssumption DEF Settled, AInv, Rest, Free
  <2>3. About(b) = FromBinding(b) \cup ToBinding(b)
    BY TupleOfBinding
  <2>4. CASE rbRow[b] = None
    BY <2>1, <2>2, <2>3, <2>4 DEF Consistent
  <2>5. CASE rbRow[b] # None
    <3>1. Whole(b, rbRow[b], About(b))
      BY <2>1, <2>2, <2>5 DEF Consistent
    <3>2. PICK r \in RoleIDs : /\ BindingRole(b, r) \in About(b)
                               /\ \A t \in About(b) : t.rel = "role" => t = BindingRole(b, r)
      BY <2>1, <3>1 DEF Whole
    <3>3. RolesOf(b) = {r}
      <4>1. \A s \in RoleIDs : BindingRole(b, s) \in tuples => BindingRole(b, s) \in About(b)
        BY DEF About, Of, BindingRole
      <4>2. \A s \in RoleIDs : BindingRole(b, s) \in tuples <=> s = r
        BY <3>2, <4>1 DEF BindingRole, About
      <4> QED BY <4>2 DEF RolesOf
    <3>4. Cardinality(RolesOf(b)) = 1
      BY <3>3, FS_Singleton
    <3>5. ResourcesOf(b) = {rbRow[b]}
      <4>1. \A x \in Resources : Grant(x, b) \in tuples => Grant(x, b) \in About(b)
        BY DEF About, Of, Grant
      <4>2. /\ Grant(rbRow[b], b) \in tuples /\ rbRow[b] \in Resources
            /\ \A t \in About(b) : t.rel = "grant" => t = Grant(rbRow[b], b)
        BY <2>1, <2>5, <3>1 DEF Whole, About, IInv, TypeOK
      <4>3. \A x \in Resources : Grant(x, b) \in tuples <=> x = rbRow[b]
        BY <4>1, <4>2 DEF Grant
      <4> QED BY <4>2, <4>3 DEF ResourcesOf
    <3> QED BY <2>5, <3>4, <3>5
  <2> QED BY <2>4, <2>5
<1> QED BY <1>1, RBACInv, AgreeInv, PTL

(* Whenever no request is working on a role, its row exists exactly if     *)
(* SpiceDB knows its owner and lists it among its owner's roles, and a     *)
(* role without a row has left no tuple.                                   *)
THEOREM RoleHalvesAgree ==
    ASSUME Failures \subseteq Benign
    PROVE  Spec => []RolesAgree
<1>1. IInv /\ AInv => RolesAgree
  <2> SUFFICES ASSUME IInv, AInv, NEW r \in RoleIDs, Settled(r)
               PROVE  IF roleRow[r] = None
                      THEN FromRole(r) = {} /\ ToRole(r) = {}
                      ELSE /\ RoleOwner(r, roleRow[r]) \in tuples
                           /\ ToRole(r) = {MemberRole(roleRow[r], r)}
    BY DEF RolesAgree
  <2>1. r \in IDs /\ Row(r) = roleRow[r]
    BY DEF IDs, Row
  <2>2. Consistent(r)
    BY <2>1, StoreAssumption DEF Settled, AInv, Rest, Free
  <2>3. FromRole(r) \subseteq About(r) /\ ToRole(r) \subseteq About(r)
    BY DEF FromRole, ToRole, About, Of
  <2>4. CASE roleRow[r] = None
    BY <2>1, <2>2, <2>3, <2>4 DEF Consistent
  <2>5. CASE roleRow[r] # None
    <3>1. Whole(r, roleRow[r], About(r))
      BY <2>1, <2>2, <2>5 DEF Consistent
    <3>2. /\ RoleOwner(r, roleRow[r]) \in tuples /\ MemberRole(roleRow[r], r) \in tuples
          /\ \A t \in About(r) : t.rel = "member_role" => t = MemberRole(roleRow[r], r)
      BY <3>1 DEF Whole, About
    <3>3. MemberRole(roleRow[r], r) \in ToRole(r)
      BY <3>2 DEF ToRole, MemberRole
    <3>4. \A t \in ToRole(r) : t = MemberRole(roleRow[r], r)
      BY <2>3, <3>2 DEF ToRole
    <3> QED BY <2>5, <3>2, <3>3, <3>4
  <2> QED BY <2>4, <2>5
<1> QED BY <1>1, RBACInv, AgreeInv, PTL

-----------------------------------------------------------------------------
(* Whatever fails, a request that may write what SpiceDB or SQL say of an  *)
(* identifier holds its row, or is about to roll SpiceDB back; Own says so *)
(* of each request, and what it has planned to write.                      *)
CreatesOwner(p) == req[p].op = "CreateRole"

(* a pending write of a role's row inserts it, keeps its owner, or deletes *)
PendingKeepsOwner(p) ==
    pend[p].id \in RoleIDs =>
        \/ pend[p].val \in {None, roleRow[pend[p].id]}
        \/ CreatesOwner(p) /\ pend[p] = Write(req[p].role, req[p].res)

OwnPlan(p) ==
    /\ \A t \in upd[p].add \cup upd[p].del : Of(t, Target(p))
    /\ \A t \in upd[p].add : t.rel = "member_role" =>
          CreatesOwner(p) /\ t = MemberRole(req[p].res, req[p].role)

Own(p) ==
    /\ pc[p] # "idle" => req[p].op \in RoleOps \cup BindingOps
    /\ pc[p] \in {"undo", "undoTwice"} => req[p].op \in BindingOps
    /\ pc[p] = "idle" => upd[p] = NoUpdate /\ pend[p] = None
    /\ p \notin over /\ pc[p] \in Holding => lock[Target(p)] = p
    /\ pend[p] # None => lock[pend[p].id] = p /\ PendingKeepsOwner(p)
    /\ OwnPlan(p)

(* A role is listed on one resource: its owner, for as long as it has one. *)
ListedByOwner ==
    /\ \A r \in RoleIDs, x \in Resources : MemberRole(x, r) \in tuples =>
          /\ r \in issued
          /\ roleRow[r] \in {None, x}
          /\ \A p \in Procs : CreatesOwner(p) /\ req[p].role = r => req[p].res = x
          /\ \A y \in Resources : MemberRole(y, r) \in tuples => y = x
    /\ \A r \in RoleIDs : roleRow[r] # None =>
          /\ r \in issued
          /\ \A p \in Procs : CreatesOwner(p) /\ req[p].role = r => req[p].res = roleRow[r]

(* one creation for each role                                              *)
OneCreation ==
    \A p \in Procs : CreatesOwner(p) =>
        /\ req[p].role \in issued
        /\ \A q \in Procs : CreatesOwner(q) /\ req[q].role = req[p].role => q = p

OwnInv == IInv /\ (\A p \in Procs : Own(p)) /\ ListedByOwner /\ OneCreation


-----------------------------------------------------------------------------
(* What a step of q does to the stores, and what it leaves to the others.  *)
Elsewhere(q) ==
    /\ \A p \in Procs \ {q} : /\ pc'[p] = pc[p] /\ req'[p] = req[p] /\ upd'[p] = upd[p]
                              /\ pend'[p] = pend[p] /\ (p \in over => p \in over')
    /\ \A id \in IDs, p \in Procs \ {q} : lock[id] = p => lock'[id] = p

(* q may write the tuples of its own identifier                            *)
Licensed(q) ==
    Target(q) \in IDs /\ (pc[q] \in {"undo", "undoTwice"} \/ lock[Target(q)] = q)

Stores(q) ==
    /\ \A t \in (tuples \ tuples') \cup (tuples' \ tuples) : Of(t, Target(q)) /\ Licensed(q)
    /\ \A t \in tuples' \ tuples : t.rel = "member_role" =>
          CreatesOwner(q) /\ t = MemberRole(req[q].res, req[q].role)
    /\ \A id \in IDs : Row(id)' # Row(id) =>
          pend[q] # None /\ pend[q].id = id /\ Row(id)' = pend[q].val

Asks(q) ==
    /\ issued \subseteq issued'
    /\ CreatesOwner(q)' => req'[q] = req[q] \/ req'[q].role \in issued' \ issued

Deed(q) == Elsewhere(q) /\ Stores(q) /\ Asks(q) /\ Own(q)'

(* Nobody writes what is settled.                                          *)
LEMMA SettledStays ==
    ASSUME OwnInv, NEW q \in Procs, Deed(q), NEW id \in IDs, Settled(id)
    PROVE  Row(id)' = Row(id) /\ About(id)' = About(id)
<1>1. lock[id] # q /\ (pc[q] \in {"undo", "undoTwice"} => req[q].rb # id)
  BY StoreAssumption DEF Settled
<1>2. pend[q] # None => pend[q].id # id
  BY <1>1 DEF OwnInv, Own
<1>3. Row(id)' = Row(id)
  BY <1>2 DEF Deed, Stores
<1>4. ~ (Target(q) = id /\ Licensed(q))
  <2>1. pc[q] \in {"undo", "undoTwice"} => req[q].op \in BindingOps
    BY DEF OwnInv, Own
  <2>2. pc[q] \in {"undo", "undoTwice"} => Target(q) = req[q].rb
    BY <2>1, TargetType DEF OwnInv
  <2> QED
    BY <1>1, <2>2 DEF Licensed
<1>5. \A t : Of(t, id) => (t \in tuples' <=> t \in tuples)
  <2> SUFFICES ASSUME NEW t, Of(t, id), ~ (t \in tuples' <=> t \in tuples) PROVE FALSE
    OBVIOUS
  <2>1. Of(t, Target(q)) /\ Licensed(q)
    BY DEF Deed, Stores
  <2>2. Target(q) = id
    BY <2>1, OfOne DEF Licensed
  <2> QED
    BY <1>4, <2>1, <2>2
<1>6. About(id)' = About(id)
  BY <1>5 DEF About, Of
<1> QED
  BY <1>3, <1>6

LEMMA OwnKept ==
    ASSUME OwnInv, NEW q \in Procs, Deed(q), NEW p \in Procs, p # q
    PROVE  Own(p)'
<1>1. /\ pc'[p] = pc[p] /\ req'[p] = req[p] /\ upd'[p] = upd[p] /\ pend'[p] = pend[p]
      /\ p \in over => p \in over'
      /\ \A id \in IDs : lock[id] = p => lock'[id] = p
  BY DEF Deed, Elsewhere
<1>2. Target(p)' = Target(p) /\ CreatesOwner(p)' = CreatesOwner(p)
  BY <1>1 DEF Target, CreatesOwner
<1>3. Own(p)
  BY DEF OwnInv
<1>4. p \notin over' /\ pc'[p] \in Holding => lock'[Target(p)] = p
  <2> SUFFICES ASSUME p \notin over', pc'[p] \in Holding PROVE lock'[Target(p)] = p
    OBVIOUS
  <2>1. lock[Target(p)] = p /\ pc[p] # "idle"
    BY <1>1, <1>3 DEF Own, Holding
  <2>2. Target(p) \in IDs
    BY <1>3, <2>1, TargetType DEF OwnInv, Own
  <2> QED
    BY <1>1, <2>1, <2>2
<1>5. pend'[p] # None => lock'[pend'[p].id] = p /\ PendingKeepsOwner(p)'
  <2> SUFFICES ASSUME pend[p] # None
               PROVE  lock'[pend[p].id] = p /\ PendingKeepsOwner(p)'
    BY <1>1
  <2>1. lock[pend[p].id] = p /\ PendingKeepsOwner(p)
    BY <1>3 DEF Own
  <2>2. PICK id \in IDs : id = pend[p].id
    BY DEF OwnInv, IInv, TypeOK, Writes, IDs
  <2>3. pend[q] # None => pend[q].id # id
    BY <2>1, <2>2 DEF OwnInv, Own
  <2>4. Row(id)' = Row(id)
    BY <2>3 DEF Deed, Stores
  <2>5. id \in RoleIDs => roleRow'[id] = roleRow[id]
    BY <2>4 DEF Row
  <2> QED
    BY <1>1, <1>2, <2>1, <2>2, <2>5 DEF PendingKeepsOwner
<1>6. OwnPlan(p)'
  BY <1>1, <1>2, <1>3 DEF Own, OwnPlan
<1> QED
  BY <1>1, <1>2, <1>3, <1>4, <1>5, <1>6 DEF Own

(* The owner that a step gives a role is the one it is created for.        *)
LEMMA OwnersKept ==
    ASSUME OwnInv, IInv', NEW q \in Procs, Deed(q)
    PROVE  ListedByOwner' /\ OneCreation'
<1>1. ASSUME NEW p \in Procs, CreatesOwner(p)'
      PROVE  \/ CreatesOwner(p) /\ req'[p] = req[p]
             \/ p = q /\ req'[p].role \in issued' \ issued
  <2>1. CASE p # q
    <3>1. req'[p] = req[p]
      BY <2>1 DEF Deed, Elsewhere
    <3> QED
      BY <1>1, <3>1 DEF CreatesOwner
  <2>2. CASE p = q
    <3>1. req'[q] = req[q] \/ req'[q].role \in issued' \ issued
      BY <1>1, <2>2 DEF Deed, Asks
    <3> QED
      BY <1>1, <2>2, <3>1 DEF CreatesOwner
  <2> QED
    BY <2>1, <2>2
<1>2. issued \subseteq issued'
  BY DEF Deed, Asks
<1>3. OneCreation'
  <2>1. ASSUME NEW p \in Procs, CreatesOwner(p)' PROVE req'[p].role \in issued'
    BY <1>1, <1>2, <2>1 DEF OwnInv, OneCreation
  <2>2. ASSUME NEW p \in Procs, CreatesOwner(p)', NEW z \in Procs, CreatesOwner(z)',
               req'[z].role = req'[p].role
        PROVE  z = p
    BY <1>1, <2>2 DEF OwnInv, OneCreation
  <2> QED
    BY <2>1, <2>2 DEF OneCreation
<1>4. ASSUME NEW r \in RoleIDs
      PROVE  \/ roleRow'[r] \in {None, roleRow[r]}
             \/ CreatesOwner(q) /\ req[q].role = r /\ roleRow'[r] = req[q].res
  <2> SUFFICES ASSUME roleRow'[r] # roleRow[r]
               PROVE  \/ roleRow'[r] = None
                      \/ CreatesOwner(q) /\ req[q].role = r /\ roleRow'[r] = req[q].res
    OBVIOUS
  <2>1. r \in IDs /\ Row(r)' # Row(r) /\ Row(r)' = roleRow'[r]
    BY DEF Row, IDs
  <2>2. pend[q] # None /\ pend[q].id = r /\ roleRow'[r] = pend[q].val
    BY <2>1 DEF Deed, Stores
  <2>3. PendingKeepsOwner(q)
    BY <2>2 DEF OwnInv, Own
  <2> QED
    BY <2>2, <2>3 DEF PendingKeepsOwner, Write
<1>5. ASSUME NEW r \in RoleIDs, NEW x \in Resources, MemberRole(x, r) \in tuples'
      PROVE  \/ MemberRole(x, r) \in tuples
             \/ CreatesOwner(q) /\ req[q].role = r /\ req[q].res = x
  <2> SUFFICES ASSUME MemberRole(x, r) \notin tuples
               PROVE  CreatesOwner(q) /\ req[q].role = r /\ req[q].res = x
    OBVIOUS
  <2>1. MemberRole(x, r).rel = "member_role"
    BY DEF MemberRole
  <2>2. CreatesOwner(q) /\ MemberRole(x, r) = MemberRole(req[q].res, req[q].role)
    BY <1>5, <2>1 DEF Deed, Stores
  <2> QED
    BY <2>2 DEF MemberRole
<1>6. ASSUME NEW r \in RoleIDs, CreatesOwner(q), req[q].role = r
      PROVE  /\ r \in issued
             /\ roleRow[r] \in {None, req[q].res}
             /\ \A x \in Resources : MemberRole(x, r) \in tuples => x = req[q].res
             /\ \A p \in Procs : CreatesOwner(p)' /\ req'[p].role = r => req'[p].res = req[q].res
  <2>1. r \in issued
    BY <1>6 DEF OwnInv, OneCreation
  <2>2. ASSUME NEW p \in Procs, CreatesOwner(p)', req'[p].role = r
        PROVE  req'[p].res = req[q].res
    <3>1. CreatesOwner(p) /\ req'[p] = req[p]
      BY <1>1, <2>1, <2>2
    <3>2. p = q
      BY <1>6, <2>2, <3>1 DEF OwnInv, OneCreation
    <3> QED
      BY <3>1, <3>2
  <2>3. roleRow[r] # None => req[q].res = roleRow[r]
    BY <1>6 DEF OwnInv, ListedByOwner
  <2>4. \A x \in Resources : MemberRole(x, r) \in tuples => req[q].res = x
    BY <1>6 DEF OwnInv, ListedByOwner
  <2> QED
    BY <2>1, <2>2, <2>3, <2>4
<1>7. ASSUME NEW r \in RoleIDs, NEW x \in Resources, MemberRole(x, r) \in tuples'
      PROVE  /\ r \in issued'
             /\ roleRow'[r] \in {None, x}
             /\ \A p \in Procs : CreatesOwner(p)' /\ req'[p].role = r => req'[p].res = x
             /\ \A y \in Resources : MemberRole(y, r) \in tuples' => y = x
  <2>1. CASE CreatesOwner(q) /\ req[q].role = r
    <3>1. \A y \in Resources : MemberRole(y, r) \in tuples' => y = req[q].res
      BY <1>5, <1>6, <2>1
    <3>2. x = req[q].res
      BY <1>7, <3>1
    <3>3. roleRow'[r] \in {None, x}
      BY <1>4, <1>6, <2>1, <3>2
    <3> QED
      BY <1>2, <1>6, <2>1, <3>1, <3>2, <3>3
  <2>2. CASE ~ (CreatesOwner(q) /\ req[q].role = r)
    <3>1. \A y \in Resources : MemberRole(y, r) \in tuples' => MemberRole(y, r) \in tuples
      BY <1>5, <2>2
    <3>2. MemberRole(x, r) \in tuples
      BY <1>7, <3>1
    <3>3. /\ r \in issued /\ roleRow[r] \in {None, x}
          /\ \A p \in Procs : CreatesOwner(p) /\ req[p].role = r => req[p].res = x
          /\ \A y \in Resources : MemberRole(y, r) \in tuples => y = x
      BY <3>2 DEF OwnInv, ListedByOwner
    <3>4. roleRow'[r] \in {None, x}
      BY <1>4, <2>2, <3>3
    <3>5. \A p \in Procs : CreatesOwner(p)' /\ req'[p].role = r => req'[p].res = x
      BY <1>1, <3>3
    <3> QED
      BY <1>2, <3>1, <3>3, <3>4, <3>5
  <2> QED
    BY <2>1, <2>2
<1>8. ASSUME NEW r \in RoleIDs, roleRow'[r] # None
      PROVE  /\ r \in issued'
             /\ \A p \in Procs : CreatesOwner(p)' /\ req'[p].role = r => req'[p].res = roleRow'[r]
  <2>1. CASE CreatesOwner(q) /\ req[q].role = r
    <3>1. roleRow'[r] = req[q].res
      BY <1>4, <1>6, <1>8, <2>1
    <3> QED
      BY <1>2, <1>6, <2>1, <3>1
  <2>2. CASE ~ (CreatesOwner(q) /\ req[q].role = r)
    <3>1. roleRow'[r] = roleRow[r]
      BY <1>4, <1>8, <2>2
    <3>2. /\ r \in issued
          /\ \A p \in Procs : CreatesOwner(p) /\ req[p].role = r => req[p].res = roleRow[r]
      BY <1>8, <3>1 DEF OwnInv, ListedByOwner
    <3> QED
      BY <1>1, <1>2, <3>1, <3>2
  <2> QED
    BY <2>1, <2>2
<1>9. ListedByOwner'
  BY <1>7, <1>8 DEF ListedByOwner, MemberRole
<1> QED
  BY <1>3, <1>9

LEMMA DeedKeeps ==
    ASSUME OwnInv, IInv', NEW q \in Procs, Deed(q)
    PROVE  OwnInv'
<1>1. \A p \in Procs : Own(p)'
  BY OwnKept DEF Deed
<1> QED
  BY <1>1, OwnersKept DEF OwnInv

-----------------------------------------------------------------------------
(* The kinds of step.                                                      *)
PlanOf(q, u) ==
    /\ \A t \in u.add \cup u.del : Of(t, Target(q))
    /\ \A t \in u.add : t.rel = "member_role" =>
          CreatesOwner(q) /\ t = MemberRole(req[q].res, req[q].role)

LEMMA OwnFacts ==
    ASSUME OwnInv, NEW q \in Procs, pc[q] # "idle"
    PROVE  /\ req[q].op \in RoleOps \cup BindingOps
           /\ Target(q) \in IDs
           /\ req[q].op \in RoleOps => Target(q) = req[q].role /\ Target(q) \in RoleIDs
           /\ req[q].op \in BindingOps => Target(q) = req[q].rb /\ Target(q) \in BindingIDs
           /\ q \notin over /\ pc[q] \in Holding => lock[Target(q)] = q
           /\ pend[q] # None => lock[pend[q].id] = q /\ PendingKeepsOwner(q)
           /\ pc[q] \in {"undo", "undoTwice"} => req[q].op \in BindingOps
           /\ PlanOf(q, upd[q])
           /\ upd = [upd EXCEPT ![q] = upd[q]]
<1>1. Own(q) /\ IInv
  BY DEF OwnInv
<1>2. req[q].op \in RoleOps \cup BindingOps
  BY <1>1 DEF Own
<1>3. /\ Target(q) \in IDs
      /\ req[q].op \in RoleOps => Target(q) = req[q].role /\ Target(q) \in RoleIDs
      /\ req[q].op \in BindingOps => Target(q) = req[q].rb /\ Target(q) \in BindingIDs
  BY <1>1, <1>2, TargetType
<1>4. PlanOf(q, upd[q])
  BY <1>1 DEF Own, OwnPlan, PlanOf
<1>5. upd = [upd EXCEPT ![q] = upd[q]]
  BY <1>1 DEF IInv, TypeOK
<1> QED
  BY <1>1, <1>2, <1>3, <1>4, <1>5 DEF Own

LEMMA StoresSame ==
    ASSUME NEW q \in Procs, UNCHANGED <<roleRow, rbRow, tuples>>
    PROVE  Stores(q)
BY DEF Stores, Row

LEMMA MoveDeed ==
    ASSUME OwnInv, NEW q \in Procs, NEW l \in Labels \ {"idle"}, pc[q] # "idle",
           NEW u, PlanOf(q, u), pc' = [pc EXCEPT ![q] = l], upd' = [upd EXCEPT ![q] = u],
           UNCHANGED <<req, issued>>, over \subseteq over',
           l \in {"undo", "undoTwice"} => req[q].op \in BindingOps,
           \A p \in Procs \ {q} : pend'[p] = pend[p],
           \A id \in IDs, p \in Procs \ {q} : lock[id] = p => lock'[id] = p,
           q \notin over' /\ l \in Holding => lock'[Target(q)] = q,
           pend'[q] # None => lock'[pend'[q].id] = q /\ PendingKeepsOwner(q)',
           Stores(q)
    PROVE  Deed(q)
<1>1. /\ \A p \in Procs \ {q} : pc'[p] = pc[p] /\ upd'[p] = upd[p]
      /\ pc'[q] = l /\ upd'[q] = u
  BY DEF OwnInv, IInv, TypeOK
<1>2. Elsewhere(q)
  BY <1>1 DEF Elsewhere
<1>3. Asks(q)
  BY DEF Asks
<1>4. Target(q)' = Target(q) /\ CreatesOwner(q)' = CreatesOwner(q)
  BY DEF Target, CreatesOwner
<1>5. OwnPlan(q)'
  BY <1>1, <1>4 DEF OwnPlan, PlanOf
<1>6. req[q].op \in RoleOps \cup BindingOps
  BY OwnFacts
<1>7. Own(q)'
  BY <1>1, <1>4, <1>5, <1>6 DEF Own
<1> QED
  BY <1>2, <1>3, <1>7 DEF Deed

(* A step within one transaction, or outside of any.                       *)
LEMMA InTxDeed ==
    ASSUME OwnInv, NEW q \in Procs, NEW l \in Labels \ {"idle"}, pc[q] # "idle",
           NEW u, PlanOf(q, u), pc' = [pc EXCEPT ![q] = l], upd' = [upd EXCEPT ![q] = u],
           UNCHANGED <<roleRow, pend, lock, req, issued, over>>,
           l \in {"undo", "undoTwice"} => req[q].op \in BindingOps,
           l \in Holding => pc[q] \in Holding, Stores(q)
    PROVE  Deed(q)
<1>1. q \notin over /\ pc[q] \in Holding => lock[Target(q)] = q
  BY OwnFacts
<1>2. pend'[q] # None => lock'[pend'[q].id] = q /\ PendingKeepsOwner(q)'
  BY OwnFacts DEF PendingKeepsOwner, CreatesOwner
<1> QED
  BY <1>1, <1>2, MoveDeed

(* ... with the plan it had: it writes to SpiceDB, or reads.               *)
LEMMA SpiceDeed ==
    ASSUME OwnInv, NEW q \in Procs, NEW l \in Labels \ {"idle"}, pc[q] # "idle",
           pc' = [pc EXCEPT ![q] = l], UNCHANGED <<roleRow, pend, lock, req, issued, over, upd>>,
           l \in {"undo", "undoTwice"} => req[q].op \in BindingOps,
           l \in Holding => pc[q] \in Holding, Stores(q)
    PROVE  Deed(q)
<1>1. PlanOf(q, upd[q]) /\ upd' = [upd EXCEPT ![q] = upd[q]]
  BY OwnFacts
<1> QED
  BY <1>1, InTxDeed

LEMMA StepDeed ==
    ASSUME OwnInv, NEW q \in Procs, NEW l \in Labels \ {"idle", "undo", "undoTwice"},
           pc[q] # "idle", pc' = [pc EXCEPT ![q] = l],
           UNCHANGED <<roleRow, rbRow, tuples, pend, lock, req, issued, over, upd>>,
           l \in Holding => pc[q] \in Holding
    PROVE  Deed(q)
BY SpiceDeed, StoresSame

LEMMA EndTxFree ==
    ASSUME OwnInv, NEW q \in Procs, EndTx(q)
    PROVE  /\ pend'[q] = None
           /\ \A p \in Procs \ {q} : pend'[p] = pend[p]
           /\ \A id \in IDs, p \in Procs \ {q} : lock[id] = p => lock'[id] = p
<1>1. DOMAIN pend = Procs /\ DOMAIN lock = IDs
  BY DEF OwnInv, IInv, TypeOK, IDs
<1> QED
  BY <1>1 DEF EndTx, Released

(* ... that ends it.                                                       *)
LEMMA EndDeed ==
    ASSUME OwnInv, NEW q \in Procs, NEW l \in Labels \ {"idle"}, pc[q] # "idle",
           l \notin Holding, pc' = [pc EXCEPT ![q] = l], EndTx(q),
           UNCHANGED <<req, issued, over, upd>>,
           l \in {"undo", "undoTwice"} => req[q].op \in BindingOps,
           Stores(q)
    PROVE  Deed(q)
<1>1. PlanOf(q, upd[q]) /\ upd' = [upd EXCEPT ![q] = upd[q]]
  BY OwnFacts
<1>2. /\ pend'[q] = None
      /\ \A p \in Procs \ {q} : pend'[p] = pend[p]
      /\ \A id \in IDs, p \in Procs \ {q} : lock[id] = p => lock'[id] = p
  BY EndTxFree
<1> QED
  BY <1>1, <1>2, MoveDeed

LEMMA FailDeed ==
    ASSUME OwnInv, NEW q \in Procs, pc[q] # "idle", RollbackAndFail(q)
    PROVE  Deed(q)
<1>1. /\ EndTx(q) /\ pc' = [pc EXCEPT ![q] = "returned"]
      /\ UNCHANGED <<roleRow, rbRow, tuples, req, issued, over, upd>>
  BY DEF RollbackAndFail, RollbackContext, Return, Goto
<1>2. "returned" \in Labels \ {"idle"} /\ "returned" \notin Holding
  BY DEF Labels, Holding
<1> QED
  BY <1>1, <1>2, StoresSame, EndDeed

LEMMA FailOpenDeed ==
    ASSUME OwnInv, NEW q \in Procs, pc[q] # "idle", FailOpen(q)
    PROVE  Deed(q)
<1>1. /\ pc' = [pc EXCEPT ![q] = "returned"]
      /\ UNCHANGED <<roleRow, rbRow, tuples, pend, lock, req, issued, over, upd>>
  BY DEF FailOpen, Return, Goto, dbVars
<1>2. "returned" \in Labels \ {"idle", "undo", "undoTwice"} /\ "returned" \notin Holding
  BY DEF Labels, Holding
<1> QED
  BY <1>1, <1>2, StepDeed

(* A lock is taken on the request's own row, when nobody has it.           *)
LEMMA LockDeed ==
    ASSUME OwnInv, NEW q \in Procs, NEW present, pc[q] # "idle",
           NEW l \in Labels \ {"idle", "undo", "undoTwice"}, LockForUpdate(q, Target(q), present, l)
    PROVE  Deed(q)
<1>1. CASE RollbackAndFail(q)
  BY <1>1, FailDeed
<1>2. CASE /\ lock[Target(q)] = None /\ lock' = [lock EXCEPT ![Target(q)] = q]
           /\ pc' = [pc EXCEPT ![q] = l]
           /\ UNCHANGED <<roleRow, rbRow, pend, issued, tuples, over, req, upd>>
  <2>1. /\ \A id \in IDs, p \in Procs \ {q} : lock[id] = p => lock'[id] = p
        /\ lock'[Target(q)] = q
        /\ \A id \in IDs : lock[id] = q => lock'[id] = q
    BY <1>2, OwnFacts, StoreAssumption DEF OwnInv, IInv, TypeOK, IDs
  <2>2. PlanOf(q, upd[q]) /\ upd' = [upd EXCEPT ![q] = upd[q]]
    BY <1>2, OwnFacts
  <2>3. pend[q] # None => lock[pend[q].id] = q /\ PendingKeepsOwner(q) /\ pend[q].id \in IDs
    BY OwnFacts DEF OwnInv, IInv, TypeOK, Writes, IDs
  <2>4. pend'[q] # None => lock'[pend'[q].id] = q /\ PendingKeepsOwner(q)'
    BY <1>2, <2>1, <2>3 DEF PendingKeepsOwner, CreatesOwner
  <2> QED
    BY <1>2, <2>1, <2>2, <2>4, StoresSame, MoveDeed
<1> QED
  BY <1>1, <1>2 DEF LockForUpdate, Goto

(* The request's own row is written, in its transaction.                   *)
LEMMA RowDeed ==
    ASSUME OwnInv, NEW q \in Procs, pc[q] # "idle", NEW v,
           NEW l \in Labels \ {"idle", "undo", "undoTwice"}, NEW u, PlanOf(q, u),
           upd' = [upd EXCEPT ![q] = u], UNCHANGED tuples, WriteRow(q, Write(Target(q), v), l),
           Target(q) \in RoleIDs =>
              \/ v \in {None, roleRow[Target(q)]}
              \/ CreatesOwner(q) /\ v = req[q].res
    PROVE  Deed(q)
<1>1. /\ lock[Target(q)] \in {None, q} /\ lock' = [lock EXCEPT ![Target(q)] = q]
      /\ pend' = [pend EXCEPT ![q] = Write(Target(q), v)] /\ pc' = [pc EXCEPT ![q] = l]
      /\ UNCHANGED <<roleRow, rbRow, issued, over, req>>
  BY DEF WriteRow, Goto, Write
<1>2. /\ \A id \in IDs, p \in Procs \ {q} : lock[id] = p => lock'[id] = p
      /\ lock'[Target(q)] = q
  BY <1>1, OwnFacts, StoreAssumption DEF OwnInv, IInv, TypeOK, IDs
<1>3. /\ \A p \in Procs \ {q} : pend'[p] = pend[p]
      /\ pend'[q] = Write(Target(q), v)
  BY <1>1 DEF OwnInv, IInv, TypeOK
<1>4. pend'[q].id = Target(q) /\ pend'[q].val = v
  BY <1>3 DEF Write
<1>5. CreatesOwner(q) => Target(q) = req[q].role
  BY OwnFacts DEF CreatesOwner, RoleOps
<1>6. PendingKeepsOwner(q)'
  BY <1>1, <1>3, <1>4, <1>5 DEF PendingKeepsOwner, CreatesOwner
<1> QED
  BY <1>1, <1>2, <1>3, <1>4, <1>6, StoresSame, MoveDeed

(* What a request writes to SpiceDB it has planned, or it undoes it.       *)
LEMMA PlannedStores ==
    ASSUME OwnInv, NEW q \in Procs, pc[q] # "idle", Licensed(q), UNCHANGED <<roleRow, rbRow>>,
           \/ tuples' = (tuples \ upd[q].del) \cup upd[q].add
           \/ req[q].op \in BindingOps /\ tuples' = (tuples \ upd[q].add) \cup upd[q].del
           \/ tuples' \subseteq tuples /\ \A t \in tuples \ tuples' : Of(t, Target(q))
    PROVE  Stores(q)
<1>1. PlanOf(q, upd[q])
  BY OwnFacts
<1>2. \A t \in (tuples \ tuples') \cup (tuples' \ tuples) : Of(t, Target(q))
  BY <1>1 DEF PlanOf
<1>3. ASSUME NEW t \in tuples' \ tuples, t.rel = "member_role"
      PROVE  CreatesOwner(q) /\ t = MemberRole(req[q].res, req[q].role)
  <2>1. CASE t \in upd[q].add
    BY <1>1, <1>3, <2>1 DEF PlanOf
  <2>2. CASE req[q].op \in BindingOps /\ t \in upd[q].del
    <3>1. t.sub = Target(q) /\ Target(q) \in BindingIDs
      BY <1>2, <1>3, <2>2, OwnFacts DEF Of
    <3>2. t \in Tuples
      BY <2>2 DEF OwnInv, IInv, TypeOK
    <3>3. t.sub \in RoleIDs
      BY <1>3, <3>2 DEF Tuples
    <3> QED
      BY <3>1, <3>3, StoreAssumption
  <2> QED
    BY <1>3, <2>1, <2>2
<1>4. \A id \in IDs : Row(id)' = Row(id)
  BY DEF Row
<1> QED
  BY <1>2, <1>3, <1>4 DEF Stores

LEMMA CommitStores ==
    ASSUME OwnInv, NEW q \in Procs, ApplyWrite(q), UNCHANGED tuples
    PROVE  Stores(q)
<1>1. pend[q] # None => pend[q].id \in IDs
  BY DEF OwnInv, IInv, TypeOK, Writes, IDs
<1>2. DOMAIN roleRow = RoleIDs /\ DOMAIN rbRow = BindingIDs
  BY DEF OwnInv, IInv, TypeOK
<1>3. ASSUME NEW id \in IDs, Row(id)' # Row(id)
      PROVE  pend[q] # None /\ pend[q].id = id /\ Row(id)' = pend[q].val
  <2>1. CASE id \in RoleIDs
    <3>1. roleRow'[id] # roleRow[id] /\ Row(id)' = roleRow'[id]
      BY <1>3, <2>1 DEF Row
    <3> QED
      BY <1>2, <3>1 DEF ApplyWrite
  <2>2. CASE id \notin RoleIDs
    <3>1. rbRow'[id] # rbRow[id] /\ Row(id)' = rbRow'[id]
      BY <1>3, <2>2 DEF Row
    <3> QED
      BY <1>2, <3>1 DEF ApplyWrite
  <2> QED
    BY <2>1, <2>2
<1> QED
  BY <1>3 DEF Stores

LEMMA CommitDeed ==
    ASSUME OwnInv, NEW q \in Procs, NEW l \in {"returned", "undo"}, pc[q] # "idle",
           pc' = [pc EXCEPT ![q] = l], CommitContext(q),
           UNCHANGED <<issued, tuples, over, req, upd>>,
           l = "undo" => req[q].op \in BindingOps
    PROVE  Deed(q)
<1>1. EndTx(q) /\ Stores(q)
  BY CommitStores DEF CommitContext
<1>2. l \in Labels \ {"idle"} /\ l \notin Holding
  BY DEF Labels, Holding
<1> QED
  BY <1>1, <1>2, EndDeed

-----------------------------------------------------------------------------
(* The steps.                                                              *)
LEMMA StartAtDeed ==
    ASSUME OwnInv, NEW q \in Procs, NEW m \in Requests, NEW l \in {"begin", "bindable"},
           StartAt(q, m, l), m.op \in RoleOps \cup BindingOps, issued \subseteq issued',
           m.op = "CreateRole" => m.role \in issued' \ issued
    PROVE  Deed(q)
<1>1. /\ pc[q] = "idle" /\ pc' = [pc EXCEPT ![q] = l] /\ req' = [req EXCEPT ![q] = m]
      /\ UNCHANGED <<roleRow, rbRow, tuples, pend, lock, over, upd>>
  BY DEF StartAt, Goto, dbVars
<1>2. /\ pc'[q] = l /\ req'[q] = m
      /\ \A p \in Procs \ {q} : pc'[p] = pc[p] /\ req'[p] = req[p]
  BY <1>1 DEF OwnInv, IInv, TypeOK
<1>3. Elsewhere(q)
  BY <1>1, <1>2 DEF Elsewhere
<1>4. Asks(q)
  BY <1>2 DEF Asks, CreatesOwner
<1>5. upd'[q] = NoUpdate /\ pend'[q] = None
  BY <1>1 DEF OwnInv, Own
<1>6. OwnPlan(q)'
  BY <1>5 DEF OwnPlan, NoUpdate, Update
<1>7. Own(q)'
  BY <1>2, <1>5, <1>6 DEF Own, Holding
<1> QED
  BY <1>1, <1>3, <1>4, <1>7, StoresSame DEF Deed

LEMMA StartDeed == ASSUME OwnInv, NEW q \in Procs, Start(q) PROVE Deed(q)
<1>1. ASSUME NEW r \in RoleIDs \ issued, NEW x \in Resources, NEW acts \in SUBSET Actions,
             StartAt(q, [op |-> "CreateRole", role |-> r, res |-> x, actions |-> acts], "begin"),
             issued' = issued \cup {r}
      PROVE  Deed(q)
  <2> DEFINE m == [op |-> "CreateRole", role |-> r, res |-> x, actions |-> acts]
  <2>1. m \in Requests /\ m.op \in RoleOps /\ m.role = r
    BY DEF Requests, RoleOps
  <2> QED
    BY <1>1, <2>1, StartAtDeed
<1>2. ASSUME NEW r \in RoleIDs, NEW n \in BOOLEAN, NEW acts \in SUBSET Actions, UNCHANGED issued,
             StartAt(q, [op |-> "UpdateRole", role |-> r, rename |-> n, actions |-> acts], "begin")
      PROVE  Deed(q)
  <2> DEFINE m == [op |-> "UpdateRole", role |-> r, rename |-> n, actions |-> acts]
  <2>1. m \in Requests /\ m.op \in RoleOps /\ m.op # "CreateRole"
    BY DEF Requests, RoleOps
  <2> QED
    BY <1>2, <2>1, StartAtDeed
<1>3. ASSUME NEW r \in RoleIDs, StartAt(q, [op |-> "DeleteRole", role |-> r], "begin"),
             UNCHANGED issued
      PROVE  Deed(q)
  <2> DEFINE m == [op |-> "DeleteRole", role |-> r]
  <2>1. m \in Requests /\ m.op \in RoleOps /\ m.op # "CreateRole"
    BY DEF Requests, RoleOps
  <2> QED
    BY <1>3, <2>1, StartAtDeed
<1>4. ASSUME NEW b \in BindingIDs, NEW r \in RoleIDs, NEW x \in Resources,
             NEW subjs \in SUBSET Subjects,
             StartAt(q, [op |-> "CreateBinding", rb |-> b, role |-> r, res |-> x,
                         subjects |-> subjs], "bindable"),
             issued' = issued \cup {b}
      PROVE  Deed(q)
  <2> DEFINE m == [op |-> "CreateBinding", rb |-> b, role |-> r, res |-> x, subjects |-> subjs]
  <2>1. m \in Requests /\ m.op \in BindingOps /\ m.op # "CreateRole"
    BY DEF Requests, BindingOps
  <2> QED
    BY <1>4, <2>1, StartAtDeed
<1>5. ASSUME NEW b \in BindingIDs, NEW subjs \in SUBSET Subjects, UNCHANGED issued,
             StartAt(q, [op |-> "UpdateBinding", rb |-> b, subjects |-> subjs], "begin")
      PROVE  Deed(q)
  <2> DEFINE m == [op |-> "UpdateBinding", rb |-> b, subjects |-> subjs]
  <2>1. m \in Requests /\ m.op \in BindingOps /\ m.op # "CreateRole"
    BY DEF Requests, BindingOps
  <2> QED
    BY <1>5, <2>1, StartAtDeed
<1>6. ASSUME NEW b \in BindingIDs, StartAt(q, [op |-> "DeleteBinding", rb |-> b], "begin"),
             UNCHANGED issued
      PROVE  Deed(q)
  <2> DEFINE m == [op |-> "DeleteBinding", rb |-> b]
  <2>1. m \in Requests /\ m.op \in BindingOps /\ m.op # "CreateRole"
    BY DEF Requests, BindingOps
  <2> QED
    BY <1>6, <2>1, StartAtDeed
<1> QED
  BY <1>1, <1>2, <1>3, <1>4, <1>5, <1>6 DEF Start, StartRole, StartBinding

LEMMA EndDeeds ==
    ASSUME OwnInv, NEW q \in Procs, RequestEnd(q) \/ AbortTx(q) \/ Cancel(q)
    PROVE  Deed(q)
<1>1. CASE RequestEnd(q)
  <2>1. /\ EndTx(q) /\ pc' = [pc EXCEPT ![q] = "idle"] /\ req' = [req EXCEPT ![q] = NoRequest]
        /\ upd' = [upd EXCEPT ![q] = NoUpdate] /\ over' = over \ {q}
        /\ UNCHANGED <<roleRow, rbRow, issued, tuples>>
    BY <1>1 DEF RequestEnd, RollbackContext, Goto
  <2>2. /\ pc'[q] = "idle" /\ req'[q] = NoRequest /\ upd'[q] = NoUpdate
        /\ \A p \in Procs \ {q} : pc'[p] = pc[p] /\ req'[p] = req[p] /\ upd'[p] = upd[p]
    BY <2>1 DEF OwnInv, IInv, TypeOK
  <2>3. /\ pend'[q] = None
        /\ \A p \in Procs \ {q} : pend'[p] = pend[p]
        /\ \A id \in IDs, p \in Procs \ {q} : lock[id] = p => lock'[id] = p
    BY <2>1, EndTxFree
  <2>4. Elsewhere(q)
    BY <2>1, <2>2, <2>3 DEF Elsewhere
  <2>5. Asks(q)
    BY <2>1, <2>2 DEF Asks, CreatesOwner, NoRequest
  <2>6. OwnPlan(q)'
    BY <2>2 DEF OwnPlan, NoUpdate, Update
  <2>7. Own(q)'
    BY <2>2, <2>3, <2>6 DEF Own, Holding
  <2> QED
    BY <2>1, <2>4, <2>5, <2>7, StoresSame DEF Deed
<1>2. ASSUME UNCHANGED <<roleRow, rbRow, tuples, pc, req, upd, issued>>, over \subseteq over',
             \A p \in Procs \ {q} : pend'[p] = pend[p],
             \A id \in IDs, p \in Procs \ {q} : lock[id] = p => lock'[id] = p,
             q \in over',
             pend'[q] = None \/ UNCHANGED <<pend, lock>>
      PROVE  Deed(q)
  <2>1. Elsewhere(q) /\ Asks(q)
    BY <1>2 DEF Elsewhere, Asks
  <2>2. Own(q)
    BY DEF OwnInv
  <2>3. OwnPlan(q)'
    BY <1>2, <2>2 DEF Own, OwnPlan, Target, CreatesOwner
  <2>4. PendingKeepsOwner(q) /\ UNCHANGED <<pend, lock>> => PendingKeepsOwner(q)'
    BY <1>2 DEF PendingKeepsOwner, CreatesOwner
  <2>5. Own(q)'
    BY <1>2, <2>2, <2>3, <2>4 DEF Own
  <2> QED
    BY <1>2, <2>1, <2>5, StoresSame DEF Deed
<1>3. CASE AbortTx(q)
  <2>1. EndTx(q) /\ q \in over /\ UNCHANGED <<roleRow, rbRow, tuples, pc, req, upd, issued, over>>
    BY <1>3 DEF AbortTx, RollbackContext, procVars
  <2> QED
    BY <1>2, <2>1, EndTxFree
<1>4. CASE Cancel(q)
  BY <1>2, <1>4 DEF Cancel, dbVars, procVars
<1> QED
  BY <1>1, <1>3, <1>4

LEMMA BeginDeed ==
    ASSUME OwnInv, NEW q \in Procs,
           NEW l \in {"insertRole", "lockRole", "insertBinding", "lockBinding"}, Begin(q, l)
    PROVE  Deed(q)
<1>1. PICK m \in {l, "returned"} :
        /\ pc[q] = "begin" /\ pc' = [pc EXCEPT ![q] = m]
        /\ UNCHANGED <<roleRow, rbRow, tuples, pend, lock, req, issued, over, upd>>
  BY DEF Begin, Goto, Return
<1>2. m \in Labels \ {"idle", "undo", "undoTwice"} /\ m \notin Holding
  BY DEF Labels, Holding
<1> QED
  BY <1>1, <1>2, StepDeed

LEMMA RolePlans ==
    ASSUME OwnInv, NEW q \in Procs, pc[q] # "idle"
    PROVE  /\ CreatesOwner(q) =>
                PlanOf(q, Update(RoleTuples(req[q].role, req[q].res, req[q].actions), {}))
           /\ req[q].op \in RoleOps => PlanOf(q, RoleDiff(req[q].role, req[q].actions))
<1>1. req[q].op \in RoleOps => Target(q) = req[q].role
  BY OwnFacts
<1>2. \A a : /\ RoleAction(req[q].role, a).rel = "action"
             /\ RoleAction(req[q].role, a).obj = req[q].role
  BY DEF RoleAction
<1>3. ASSUME CreatesOwner(q)
      PROVE  PlanOf(q, Update(RoleTuples(req[q].role, req[q].res, req[q].actions), {}))
  <2>1. Target(q) = req[q].role
    BY <1>1, <1>3 DEF CreatesOwner, RoleOps
  <2>2. /\ RoleOwner(req[q].role, req[q].res).rel = "owner"
        /\ RoleOwner(req[q].role, req[q].res).obj = req[q].role
        /\ MemberRole(req[q].res, req[q].role).rel = "member_role"
        /\ MemberRole(req[q].res, req[q].role).sub = req[q].role
    BY DEF RoleOwner, MemberRole
  <2>3. ASSUME NEW t \in RoleTuples(req[q].role, req[q].res, req[q].actions)
        PROVE  /\ Of(t, Target(q))
               /\ t.rel = "member_role" => t = MemberRole(req[q].res, req[q].role)
    BY <1>2, <2>1, <2>2, <2>3 DEF RoleTuples, Of
  <2> QED
    BY <1>3, <2>3 DEF PlanOf, Update
<1>4. ASSUME req[q].op \in RoleOps
      PROVE  PlanOf(q, RoleDiff(req[q].role, req[q].actions))
  <2>1. \A t \in RoleDiff(req[q].role, req[q].actions).add
               \cup RoleDiff(req[q].role, req[q].actions).del :
           \E a : t = RoleAction(req[q].role, a)
    BY DEF RoleDiff, NoUpdate, Update
  <2>2. \A t \in RoleDiff(req[q].role, req[q].actions).add
               \cup RoleDiff(req[q].role, req[q].actions).del :
           t.rel = "action" /\ t.obj = req[q].role
    BY <1>2, <2>1
  <2> QED
    BY <1>1, <1>4, <2>2 DEF PlanOf, Of
<1> QED
  BY <1>3, <1>4

LEMMA BindingPlans ==
    ASSUME OwnInv, NEW q \in Procs, req[q].op \in BindingOps, pc[q] # "idle"
    PROVE  /\ PlanOf(q, Update(BindingTuples(req[q].rb, req[q].role, req[q].res,
                                            req[q].subjects), {}))
           /\ PlanOf(q, SubjectDiff(req[q].rb, req[q].subjects))
           /\ PlanOf(q, Update({}, FromBinding(req[q].rb)))
           /\ PlanOf(q, Update({}, upd[q].del \cup ToBinding(req[q].rb)))
<1> DEFINE b == req[q].rb
<1>1. Target(q) = b
  BY OwnFacts
<1>2. \A t \in BindingTuples(b, req[q].role, req[q].res, req[q].subjects) :
         Of(t, b) /\ t.rel # "member_role"
  BY DEF BindingTuples, BindingRole, BindingSubject, Grant, Of
<1>3. \A s : BindingSubject(b, s).rel = "subject" /\ BindingSubject(b, s).obj = b
  BY DEF BindingSubject
<1>4. \A t \in SubjectDiff(b, req[q].subjects).add \cup SubjectDiff(b, req[q].subjects).del :
         t.rel = "subject" /\ t.obj = b
  <2>1. \A t \in SubjectDiff(b, req[q].subjects).add \cup SubjectDiff(b, req[q].subjects).del :
           \E s : t = BindingSubject(b, s)
    BY DEF SubjectDiff, Update
  <2> QED
    BY <1>3, <2>1
<1>5. \A t \in FromBinding(b) \cup ToBinding(b) : Of(t, b)
  BY DEF FromBinding, ToBinding, Of
<1>6. \A t \in upd[q].del : Of(t, b)
  BY <1>1, OwnFacts DEF PlanOf
<1>7. PlanOf(q, Update(BindingTuples(b, req[q].role, req[q].res, req[q].subjects), {}))
  BY <1>1, <1>2 DEF PlanOf, Update
<1>8. PlanOf(q, SubjectDiff(b, req[q].subjects))
  BY <1>1, <1>4 DEF PlanOf, Of
<1>9. PlanOf(q, Update({}, FromBinding(b)))
  BY <1>1, <1>5 DEF PlanOf, Update
<1>10. PlanOf(q, Update({}, upd[q].del \cup ToBinding(b)))
  BY <1>1, <1>5, <1>6 DEF PlanOf, Update
<1> QED
  BY <1>7, <1>8, <1>9, <1>10

LEMMA RoleDeed == ASSUME OwnInv, NEW q \in Procs, RoleStep(q) PROVE Deed(q)
<1>0. OpAt /\ upd \in [Procs -> [add : SUBSET Tuples, del : SUBSET Tuples]]
  BY DEF OwnInv, IInv, TypeOK
<1>1. CASE BeginRole(q)
  BY <1>1, BeginDeed DEF BeginRole
<1>2. CASE InsertRole(q)
  <2>1. pc[q] # "idle" /\ CreatesOwner(q)
    BY <1>0, <1>2 DEF InsertRole, OpAt, CreatesOwner
  <2>2. Target(q) = req[q].role
    BY <2>1, OwnFacts DEF CreatesOwner, RoleOps
  <2>3. "writeRole" \in Labels \ {"idle", "undo", "undoTwice"}
    BY DEF Labels
  <2> QED
    BY <1>2, <2>1, <2>2, <2>3, RolePlans, FailDeed, RowDeed DEF InsertRole
<1>3. CASE LockRole(q)
  <2>1. pc[q] # "idle" /\ req[q].op \in RoleOps
    BY <1>0, <1>3 DEF LockRole, OpAt, RoleOps
  <2>2. Target(q) = req[q].role
    BY <2>1, OwnFacts
  <2>3. {"getRole", "findBindings"} \subseteq Labels \ {"idle", "undo", "undoTwice"}
    BY DEF Labels
  <2> QED
    BY <1>3, <2>1, <2>2, <2>3, LockDeed DEF LockRole
<1>4. CASE GetRoleForUpdate(q)
  <2>1. pc[q] = "getRole" /\ req[q].op \in RoleOps
    BY <1>0, <1>4 DEF GetRoleForUpdate, OpAt, RoleOps
  <2>2. PlanOf(q, RoleDiff(req[q].role, req[q].actions))
    BY <2>1, RolePlans
  <2>3. CASE RollbackAndFail(q)
    BY <2>1, <2>3, FailDeed
  <2>4. ASSUME NEW l \in {"commit", "updateRole"}, Goto(q, l),
               upd' = [upd EXCEPT ![q] = RoleDiff(req[q].role, req[q].actions)],
               UNCHANGED <<dbVars, issued, tuples, over, req, zed, ans>>
        PROVE  Deed(q)
    <3>1. l \in Labels \ {"idle"} /\ l \notin {"undo", "undoTwice"} /\ "getRole" \in Holding
      BY DEF Labels, Holding
    <3>2. /\ pc' = [pc EXCEPT ![q] = l]
          /\ UNCHANGED <<roleRow, rbRow, tuples, pend, lock, req, issued, over>>
      BY <2>4 DEF Goto, dbVars
    <3> QED
      BY <2>1, <2>2, <2>4, <3>1, <3>2, StoresSame, InTxDeed
  <2> QED
    BY <1>4, <2>3, <2>4 DEF GetRoleForUpdate
<1>5. CASE UpdateRoleRow(q)
  <2>1. pc[q] # "idle" /\ req[q].op \in RoleOps
    BY <1>0, <1>5 DEF UpdateRoleRow, OpAt, RoleOps
  <2>2. Target(q) = req[q].role /\ PlanOf(q, upd[q]) /\ upd = [upd EXCEPT ![q] = upd[q]]
    BY <2>1, OwnFacts
  <2>3. "writeRole" \in Labels \ {"idle", "undo", "undoTwice"}
    BY DEF Labels
  <2>4. CASE /\ WriteRow(q, Write(req[q].role, roleRow[req[q].role]), "writeRole")
             /\ UNCHANGED <<tuples, upd>>
    BY <2>1, <2>2, <2>3, <2>4, RowDeed
  <2> QED
    BY <1>5, <2>1, <2>4, FailDeed DEF UpdateRoleRow
<1>6. CASE WriteRole(q)
  <2>1. pc[q] = "writeRole"
    BY <1>6 DEF WriteRole
  <2>2. Target(q) \in IDs /\ (q \notin over => lock[Target(q)] = q)
    BY <2>1, OwnFacts DEF Holding
  <2>3. ASSUME q \notin over, UNCHANGED <<roleRow, rbRow>>,
               tuples' = (tuples \ upd[q].del) \cup upd[q].add
        PROVE  Stores(q)
    BY <2>1, <2>2, <2>3, PlannedStores DEF Licensed
  <2>4. CASE RollbackAndFail(q)
    BY <2>1, <2>4, FailDeed
  <2>5. CASE /\ Up(q) /\ tuples' = (tuples \ upd[q].del) \cup upd[q].add /\ Goto(q, "commit")
             /\ UNCHANGED <<dbVars, issued, over, req, upd, zed, ans>>
    <3>1. /\ pc' = [pc EXCEPT ![q] = "commit"]
          /\ UNCHANGED <<roleRow, rbRow, pend, lock, req, issued, over, upd>>
      BY <2>5 DEF Goto, dbVars
    <3>2. "commit" \in Labels \ {"idle"} /\ "writeRole" \in Holding
      BY DEF Labels, Holding
    <3>3. Stores(q)
      BY <2>3, <2>5, <3>1 DEF Up
    <3> QED
      BY <2>1, <3>1, <3>2, <3>3, SpiceDeed
  <2>6. CASE /\ Up(q) /\ tuples' = (tuples \ upd[q].del) \cup upd[q].add
             /\ RollbackContext(q) /\ Return(q, "error")
             /\ UNCHANGED <<issued, over, req, upd, zed>>
    <3>1. /\ pc' = [pc EXCEPT ![q] = "returned"] /\ EndTx(q)
          /\ UNCHANGED <<roleRow, rbRow, req, issued, over, upd>>
      BY <2>6 DEF Return, Goto, RollbackContext
    <3>2. "returned" \in Labels \ {"idle"} /\ "returned" \notin Holding
      BY DEF Labels, Holding
    <3>3. Stores(q)
      BY <2>3, <2>6, <3>1 DEF Up
    <3> QED
      BY <2>1, <3>1, <3>2, <3>3, EndDeed
  <2> QED
    BY <1>6, <2>4, <2>5, <2>6 DEF WriteRole
<1>7. CASE FindBindings(q) \/ Unlinked(q)
  <2>1. pc[q] \in {"findBindings", "unlinked"}
    BY <1>7 DEF FindBindings, Unlinked
  <2>2. /\ {"deleteRole", "commit"} \subseteq Labels \ {"idle", "undo", "undoTwice"}
        /\ pc[q] \in Holding /\ pc[q] # "idle"
    BY <2>1 DEF Labels, Holding
  <2>3. ASSUME NEW l \in {"deleteRole", "commit"}, Goto(q, l),
               UNCHANGED <<dbVars, issued, tuples, over, req, upd, zed, ans>>
        PROVE  Deed(q)
    <3>1. /\ pc' = [pc EXCEPT ![q] = l]
          /\ UNCHANGED <<roleRow, rbRow, tuples, pend, lock, req, issued, over, upd>>
      BY <2>3 DEF Goto, dbVars
    <3> QED
      BY <2>2, <3>1, StepDeed
  <2> QED
    BY <1>7, <2>2, <2>3, FailDeed, FailOpenDeed DEF FindBindings, Unlinked
<1>8. CASE DeleteRoleRow(q)
  <2>1. pc[q] # "idle" /\ req[q].op \in RoleOps
    BY <1>0, <1>8 DEF DeleteRoleRow, OpAt, RoleOps
  <2>2. Target(q) = req[q].role /\ PlanOf(q, upd[q]) /\ upd = [upd EXCEPT ![q] = upd[q]]
    BY <2>1, OwnFacts
  <2>3. "unlinkFrom" \in Labels \ {"idle", "undo", "undoTwice"}
    BY DEF Labels
  <2>4. CASE WriteRow(q, Write(req[q].role, None), "unlinkFrom") /\ UNCHANGED <<tuples, upd>>
    BY <2>1, <2>2, <2>3, <2>4, RowDeed
  <2> QED
    BY <1>8, <2>1, <2>4, FailDeed DEF DeleteRoleRow
<1>9. CASE UnlinkFrom(q) \/ UnlinkTo(q)
  <2>1. PICK l \in {"unlinkTo", "unlinked"} :
          /\ pc[q] \in {"unlinkFrom", "unlinkTo"} /\ pc' = [pc EXCEPT ![q] = l]
          /\ UNCHANGED <<roleRow, rbRow, pend, lock, req, issued, over, upd>>
          /\ \/ /\ q \notin over /\ tuples' \subseteq tuples
                /\ \A t \in tuples \ tuples' : t \in FromRole(req[q].role) \cup ToRole(req[q].role)
             \/ tuples' = tuples
    BY <1>9 DEF UnlinkFrom, UnlinkTo, Unlink, Goto, Up, dbVars
  <2>2. req[q].op \in RoleOps /\ pc[q] # "idle"
    BY <1>0, <2>1 DEF OpAt, RoleOps
  <2>3. Target(q) = req[q].role /\ Target(q) \in IDs /\ (q \notin over => lock[Target(q)] = q)
    BY <2>1, <2>2, OwnFacts DEF Holding
  <2>4. \A t \in FromRole(req[q].role) \cup ToRole(req[q].role) : Of(t, Target(q))
    BY <2>3 DEF FromRole, ToRole, Of
  <2>5. Stores(q)
    <3>1. CASE tuples' = tuples
      BY <2>1, <3>1, StoresSame
    <3>2. CASE /\ q \notin over /\ tuples' \subseteq tuples
               /\ \A t \in tuples \ tuples' : t \in FromRole(req[q].role) \cup ToRole(req[q].role)
      BY <2>1, <2>2, <2>3, <2>4, <3>2, PlannedStores DEF Licensed
    <3> QED
      BY <2>1, <3>1, <3>2
  <2>6. l \in Labels \ {"idle"} /\ l \notin {"undo", "undoTwice"}
    BY DEF Labels
  <2> QED
    BY <2>1, <2>2, <2>5, <2>6, SpiceDeed DEF Holding
<1>10. CASE CommitRole(q)
  <2>1. pc[q] # "idle"
    BY <1>10 DEF CommitRole
  <2>2. ASSUME NEW a, CommitContext(q), Return(q, a),
               UNCHANGED <<issued, tuples, over, req, upd, zed>>
        PROVE  Deed(q)
    BY <2>1, <2>2, CommitDeed DEF Return, Goto
  <2> QED
    BY <1>10, <2>1, <2>2, FailDeed DEF CommitRole
<1> QED
  BY <1>1, <1>2, <1>3, <1>4, <1>5, <1>6, <1>7, <1>8, <1>9, <1>10 DEF RoleStep

LEMMA BindingDeed == ASSUME OwnInv, NEW q \in Procs, BindingStep(q) PROVE Deed(q)
<1>0. OpAt /\ upd \in [Procs -> [add : SUBSET Tuples, del : SUBSET Tuples]]
  BY DEF OwnInv, IInv, TypeOK
<1>1. CASE CheckBindable(q) \/ ReadRole(q)
  <2>1. pc[q] \in {"bindable", "readRole"}
    BY <1>1 DEF CheckBindable, ReadRole
  <2>2. /\ {"readRole", "begin"} \subseteq Labels \ {"idle", "undo", "undoTwice"}
        /\ {"readRole", "begin"} \cap Holding = {}
        /\ pc[q] # "idle"
    BY <2>1 DEF Labels, Holding
  <2>3. ASSUME NEW l \in {"readRole", "begin"}, Goto(q, l),
               UNCHANGED <<dbVars, issued, tuples, over, req, upd, zed, ans>>
        PROVE  Deed(q)
    <3>1. /\ pc' = [pc EXCEPT ![q] = l]
          /\ UNCHANGED <<roleRow, rbRow, tuples, pend, lock, req, issued, over, upd>>
      BY <2>3 DEF Goto, dbVars
    <3> QED
      BY <2>1, <2>2, <3>1, StepDeed
  <2> QED
    BY <1>1, <2>1, <2>3, FailOpenDeed DEF CheckBindable, ReadRole
<1>2. CASE BeginBinding(q)
  BY <1>2, BeginDeed DEF BeginBinding
<1>3. CASE InsertBinding(q)
  <2>1. pc[q] # "idle" /\ req[q].op \in BindingOps
    BY <1>0, <1>3 DEF InsertBinding, OpAt, BindingOps
  <2>2. Target(q) = req[q].rb /\ Target(q) \notin RoleIDs
    BY <2>1, OwnFacts, StoreAssumption
  <2>3. "apply" \in Labels \ {"idle", "undo", "undoTwice"}
    BY DEF Labels
  <2>4. PlanOf(q, Update(BindingTuples(req[q].rb, req[q].role, req[q].res, req[q].subjects), {}))
    BY <2>1, BindingPlans
  <2> QED
    BY <1>3, <2>1, <2>2, <2>3, <2>4, FailDeed, RowDeed DEF InsertBinding
<1>4. CASE LockBinding(q)
  <2>1. pc[q] # "idle" /\ req[q].op \in BindingOps
    BY <1>0, <1>4 DEF LockBinding, OpAt, BindingOps
  <2>2. Target(q) = req[q].rb
    BY <2>1, OwnFacts
  <2>3. {"getBinding", "readFrom"} \subseteq Labels \ {"idle", "undo", "undoTwice"}
    BY DEF Labels
  <2> QED
    BY <1>4, <2>1, <2>2, <2>3, LockDeed DEF LockBinding
<1>5. ASSUME pc[q] \in {"getBinding", "readFrom", "readTo"}, NEW u, PlanOf(q, u),
             NEW l \in {"apply", "readTo"}, Goto(q, l), upd' = [upd EXCEPT ![q] = u],
             UNCHANGED <<dbVars, issued, tuples, over, req, zed, ans>>
      PROVE  Deed(q)
  <2>1. /\ l \in Labels \ {"idle"} /\ l \notin {"undo", "undoTwice"}
        /\ pc[q] \in Holding /\ pc[q] # "idle"
    BY <1>5 DEF Labels, Holding
  <2>2. /\ pc' = [pc EXCEPT ![q] = l]
        /\ UNCHANGED <<roleRow, rbRow, tuples, pend, lock, req, issued, over>>
    BY <1>5 DEF Goto, dbVars
  <2> QED
    BY <1>5, <2>1, <2>2, StoresSame, InTxDeed
<1>6. CASE GetBindingForUpdate(q)
  <2>1. pc[q] = "getBinding" /\ req[q].op \in BindingOps
    BY <1>0, <1>6 DEF GetBindingForUpdate, OpAt, BindingOps
  <2>2. PlanOf(q, SubjectDiff(req[q].rb, req[q].subjects))
    BY <2>1, BindingPlans
  <2>3. CASE /\ Return(q, "ok")
             /\ UNCHANGED <<dbVars, issued, tuples, over, req, upd, zed>>
    <3>1. /\ pc' = [pc EXCEPT ![q] = "returned"]
          /\ UNCHANGED <<roleRow, rbRow, tuples, pend, lock, req, issued, over, upd>>
      BY <2>3 DEF Return, Goto, dbVars
    <3>2. "returned" \in Labels \ {"idle", "undo", "undoTwice"} /\ "returned" \notin Holding
      BY DEF Labels, Holding
    <3> QED
      BY <2>1, <3>1, <3>2, StepDeed
  <2> QED
    BY <1>5, <1>6, <2>1, <2>2, <2>3, FailDeed DEF GetBindingForUpdate
<1>7. CASE ReadFrom(q) \/ ReadTo(q)
  <2>1. pc[q] \in {"readFrom", "readTo"} /\ req[q].op \in BindingOps
    BY <1>0, <1>7 DEF ReadFrom, ReadTo, OpAt, BindingOps
  <2>2. /\ PlanOf(q, Update({}, FromBinding(req[q].rb)))
        /\ PlanOf(q, Update({}, upd[q].del \cup ToBinding(req[q].rb)))
    BY <2>1, BindingPlans
  <2>3. [upd EXCEPT ![q] = Update({}, @.del \cup ToBinding(req[q].rb))]
          = [upd EXCEPT ![q] = Update({}, upd[q].del \cup ToBinding(req[q].rb))]
    BY <1>0
  <2> QED
    BY <1>5, <1>7, <2>1, <2>2, <2>3, FailDeed, FailOpenDeed DEF ReadFrom, ReadTo
<1>8. CASE ApplyUpdates(q)
  <2>1. pc[q] = "apply"
    BY <1>8 DEF ApplyUpdates
  <2>2. Target(q) \in IDs /\ (q \notin over => lock[Target(q)] = q)
    BY <2>1, OwnFacts DEF Holding
  <2>3. ASSUME q \notin over, UNCHANGED <<roleRow, rbRow>>,
               tuples' = (tuples \ upd[q].del) \cup upd[q].add
        PROVE  Stores(q)
    BY <2>1, <2>2, <2>3, PlannedStores DEF Licensed
  <2>4. CASE RollbackAndFail(q)
    BY <2>1, <2>4, FailDeed
  <2>5. CASE /\ Up(q) /\ tuples' = (tuples \ upd[q].del) \cup upd[q].add /\ Goto(q, "zed")
             /\ UNCHANGED <<dbVars, issued, over, req, upd, ans>>
    <3>1. /\ pc' = [pc EXCEPT ![q] = "zed"]
          /\ UNCHANGED <<roleRow, rbRow, pend, lock, req, issued, over, upd>>
      BY <2>5 DEF Goto, dbVars
    <3>2. "zed" \in Labels \ {"idle"} /\ "apply" \in Holding
      BY DEF Labels, Holding
    <3>3. Stores(q)
      BY <2>3, <2>5, <3>1 DEF Up
    <3> QED
      BY <2>1, <3>1, <3>2, <3>3, SpiceDeed
  <2>6. CASE /\ Up(q) /\ tuples' = (tuples \ upd[q].del) \cup upd[q].add
             /\ RollbackContext(q) /\ Return(q, "error")
             /\ UNCHANGED <<issued, over, req, upd, zed>>
    <3>1. /\ pc' = [pc EXCEPT ![q] = "returned"] /\ EndTx(q)
          /\ UNCHANGED <<roleRow, rbRow, req, issued, over, upd>>
      BY <2>6 DEF Return, Goto, RollbackContext
    <3>2. "returned" \in Labels \ {"idle"} /\ "returned" \notin Holding
      BY DEF Labels, Holding
    <3>3. Stores(q)
      BY <2>3, <2>6, <3>1 DEF Up
    <3> QED
      BY <2>1, <3>1, <3>2, <3>3, EndDeed
  <2> QED
    BY <1>8, <2>4, <2>5, <2>6 DEF ApplyUpdates
<1>9. CASE UpsertZedToken(q)
  <2>1. pc[q] = "zed" /\ req[q].op \in BindingOps
    BY <1>0, <1>9 DEF UpsertZedToken, OpAt
  <2>2. ASSUME NEW l \in {"zed", "commit", "touchBinding", "deleteBinding"},
               pc' = [pc EXCEPT ![q] = l],
               UNCHANGED <<roleRow, rbRow, pend, lock, issued, tuples, over, req, upd>>
        PROVE  Deed(q)
    <3>1. l \in Labels \ {"idle", "undo", "undoTwice"} /\ "zed" \in Holding
      BY DEF Labels, Holding
    <3> QED
      BY <2>1, <2>2, <3>1, StepDeed
  <2>3. pc = [pc EXCEPT ![q] = "zed"]
    BY <2>1 DEF OwnInv, IInv, TypeOK
  <2> QED
    BY <1>9, <2>1, <2>2, <2>3, FailDeed DEF UpsertZedToken, Goto, BindingOps, dbVars
<1>10. ASSUME NEW l \in {"undo", "undoTwice"}, RollbackTo(q, l), req[q].op \in BindingOps,
              pc[q] # "idle"
       PROVE  Deed(q)
  <2>1. /\ EndTx(q) /\ pc' = [pc EXCEPT ![q] = l]
        /\ UNCHANGED <<roleRow, rbRow, tuples, req, issued, over, upd>>
    BY <1>10 DEF RollbackTo, RollbackContext, Goto
  <2>2. l \in Labels \ {"idle"} /\ l \notin Holding
    BY DEF Labels, Holding
  <2> QED
    BY <1>10, <2>1, <2>2, StoresSame, EndDeed
<1>11. CASE TouchBinding(q) \/ DeleteBindingRow(q)
  <2>1. pc[q] # "idle" /\ req[q].op \in BindingOps
    BY <1>0, <1>11 DEF TouchBinding, DeleteBindingRow, OpAt, BindingOps
  <2>2. /\ Target(q) = req[q].rb /\ Target(q) \notin RoleIDs
        /\ PlanOf(q, upd[q]) /\ upd = [upd EXCEPT ![q] = upd[q]]
    BY <2>1, OwnFacts, StoreAssumption
  <2>3. "commit" \in Labels \ {"idle", "undo", "undoTwice"}
    BY DEF Labels
  <2>4. ASSUME NEW v, WriteRow(q, Write(req[q].rb, v), "commit"), UNCHANGED <<tuples, upd>>
        PROVE  Deed(q)
    BY <2>1, <2>2, <2>3, <2>4, RowDeed
  <2> QED
    BY <1>10, <1>11, <2>1, <2>4 DEF TouchBinding, DeleteBindingRow
<1>12. CASE CommitBinding(q)
  <2>1. pc[q] = "commit" /\ req[q].op \in BindingOps
    BY <1>12 DEF CommitBinding
  <2>2. ASSUME NEW l \in {"returned", "undo"}, CommitContext(q), pc' = [pc EXCEPT ![q] = l],
               UNCHANGED <<issued, tuples, over, req, upd, zed>>
        PROVE  Deed(q)
    BY <2>1, <2>2, CommitDeed
  <2> QED
    BY <1>10, <1>12, <2>1, <2>2 DEF CommitBinding, Return, Goto
<1>13. CASE RollbackUpdates(q)
  <2>1. PICK l \in {"undo", "returned"} :
          /\ pc[q] \in {"undo", "undoTwice"} /\ pc' = [pc EXCEPT ![q] = l]
          /\ UNCHANGED <<roleRow, rbRow, pend, lock, req, issued, over, upd>>
          /\ tuples' = (tuples \ upd[q].add) \cup upd[q].del \/ tuples' = tuples
    BY <1>13 DEF RollbackUpdates, Goto, Return, dbVars
  <2>2. req[q].op \in BindingOps /\ Target(q) \in IDs /\ pc[q] # "idle"
    BY <2>1, OwnFacts
  <2>3. Stores(q)
    <3>1. CASE tuples' = tuples
      BY <2>1, <3>1, StoresSame
    <3>2. CASE tuples' = (tuples \ upd[q].add) \cup upd[q].del
      BY <2>1, <2>2, <3>2, PlannedStores DEF Licensed
    <3> QED
      BY <2>1, <3>1, <3>2
  <2>4. l \in Labels \ {"idle"} /\ l \notin Holding
    BY DEF Labels, Holding
  <2> QED
    BY <2>1, <2>2, <2>3, <2>4, SpiceDeed
<1> QED
  BY <1>1, <1>2, <1>3, <1>4, <1>6, <1>7, <1>8, <1>9, <1>11, <1>12, <1>13 DEF BindingStep

Takes(q) == Start(q) \/ Work(q) \/ Cancel(q)

LEMMA TakesDeed == ASSUME OwnInv, NEW q \in Procs, Takes(q) PROVE Deed(q)
BY StartDeed, RoleDeed, BindingDeed, EndDeeds DEF Takes, Work

LEMMA NextDeed == ASSUME OwnInv, Next PROVE \E q \in Procs : Takes(q) /\ Deed(q)
BY TakesDeed DEF Next, Takes

LEMMA InitOwn == Init => OwnInv
<1> SUFFICES ASSUME Init PROVE OwnInv
  OBVIOUS
<1>1. IInv
  BY InitInv
<1>2. (\A p \in Procs : Own(p)) /\ ListedByOwner /\ OneCreation
  BY DEF Init, Own, OwnPlan, NoUpdate, Update, NoRequest, ListedByOwner, OneCreation, CreatesOwner,
         Holding
<1> QED
  BY <1>1, <1>2 DEF OwnInv

LEMMA OwnStutters == ASSUME OwnInv, UNCHANGED vars PROVE OwnInv'
<1>1. IInv'
  BY NextInv DEF OwnInv
<1>2. UNCHANGED <<roleRow, tuples, pend, lock, pc, req, issued, over, upd>>
  BY DEF vars, dbVars, procVars
<1>3. \A p \in Procs : Own(p)'
  BY <1>2 DEF OwnInv, Own, OwnPlan, PendingKeepsOwner, CreatesOwner, Target
<1>4. ListedByOwner' /\ OneCreation'
  BY <1>2 DEF OwnInv, ListedByOwner, OneCreation, CreatesOwner
<1> QED
  BY <1>1, <1>3, <1>4 DEF OwnInv

LEMMA OwnStep == OwnInv /\ [Next]_vars => OwnInv'
<1> SUFFICES ASSUME OwnInv, [Next]_vars PROVE OwnInv'
  OBVIOUS
<1>1. CASE UNCHANGED vars
  BY <1>1, OwnStutters
<1>2. CASE Next
  BY <1>2, NextInv, NextDeed, DeedKeeps DEF OwnInv
<1> QED
  BY <1>1, <1>2

-----------------------------------------------------------------------------
(* The updates, whatever fails.  While the context of an update lives it   *)
(* holds its row, and what it has read of its role or binding stays true   *)
(* until its commit, unless the rollback of a binding writes meanwhile.    *)
Due(p, op) ==
    p \notin over /\ req[p].op = op =>
        LET id == Target(p) IN
        /\ pc[p] \in {"updateRole", "writeRole", "apply"} =>
              Ready(req[p], id, About(id), upd[p])
        /\ pc[p] \in {"zed", "touchBinding", "commit"} => Reached(req[p], About(id))

(* nobody has been told that a request succeeded that has not returned     *)
Unanswered == \A p \in Procs : pc[p] # "returned" => ans[p] # "ok"

(* Nobody else writes what a living request holds.                         *)
LEMMA HeldAlone ==
    ASSUME OwnInv, NEW q \in Procs, Deed(q), NEW p \in Procs, p # q, p \notin over,
           pc[p] \in Holding, NEW id \in IDs, id = Target(p),
           pc[q] \in {"undo", "undoTwice"} => id \in RoleIDs \/ UNCHANGED tuples
    PROVE  About(id)' = About(id)
<1>1. lock[id] = p
  BY DEF OwnInv, Own
<1>2. \A t : Of(t, id) => (t \in tuples' <=> t \in tuples)
  <2> SUFFICES ASSUME NEW t, Of(t, id), ~ (t \in tuples' <=> t \in tuples) PROVE FALSE
    OBVIOUS
  <2>1. Of(t, Target(q)) /\ Licensed(q)
    BY DEF Deed, Stores
  <2>2. Target(q) = id
    BY <2>1, OfOne DEF Licensed
  <2>3. pc[q] \in {"undo", "undoTwice"} /\ id \in RoleIDs
    BY <1>1, <2>1, <2>2 DEF Licensed
  <2>4. Target(q) \in BindingIDs
    BY <2>3, OwnFacts
  <2> QED
    BY <2>2, <2>3, <2>4, StoreAssumption
<1> QED
  BY <1>2 DEF About, Of

LEMMA DueKept ==
    ASSUME OwnInv, NEW q \in Procs, Deed(q), NEW p \in Procs, p # q, NEW op \in Changes, Due(p, op),
           pc[q] \in {"undo", "undoTwice"} => op = "UpdateRole" \/ UNCHANGED tuples
    PROVE  Due(p, op)'
<1> SUFFICES ASSUME p \notin over', req'[p].op = op, pc'[p] \in Holding PROVE Due(p, op)'
  BY DEF Due, Holding
<1>1. /\ pc'[p] = pc[p] /\ req'[p] = req[p] /\ upd'[p] = upd[p] /\ p \notin over
  BY DEF Deed, Elsewhere
<1>2. PICK id \in IDs : id = Target(p) /\ id = Target(p)'
  BY <1>1, OwnFacts DEF Target, Holding
<1>3. op = "UpdateRole" => id \in RoleIDs
  BY <1>1, <1>2, OwnFacts DEF RoleOps, Holding
<1>4. About(id)' = About(id)
  BY <1>1, <1>2, <1>3, HeldAlone
<1> QED
  BY <1>1, <1>2, <1>4 DEF Due

(* The updates are written as they were planned.                           *)
LEMMA DueWritten ==
    ASSUME NEW q, NEW id \in IDs, NEW u, Ready(q, id, About(id), u),
           tuples' = (tuples \ u.del) \cup u.add
    PROVE  Reached(q, About(id)')
<1>1. \A t \in u.add \cup u.del : Of(t, id)
  BY DEF Ready, Of
<1>2. About(id)' = (About(id) \ u.del) \cup u.add
  BY <1>1 DEF About, Of
<1> QED
  BY <1>2 DEF Ready

LEMMA OwnRoleDue ==
    ASSUME OwnInv, NEW q \in Procs, NEW op \in Changes, Due(q, op), RoleStep(q),
           q \notin over', req'[q].op = op,
           pc'[q] \in {"updateRole", "writeRole", "apply", "zed", "touchBinding", "commit"}
    PROVE  Due(q, op)'
<1>0. /\ OpAt /\ DOMAIN pc = Procs /\ DOMAIN upd = Procs
  BY DEF OwnInv, IInv, TypeOK
<1>1. ~ RollbackAndFail(q) /\ ~ FailOpen(q)
  BY <1>0 DEF RollbackAndFail, FailOpen, Return, Goto
<1>2. ~ BeginRole(q) /\ ~ LockRole(q)
  BY <1>0, <1>1 DEF BeginRole, Begin, LockRole, LockForUpdate, Return, Goto
<1>3. ~ InsertRole(q)
  BY <1>0, <1>1 DEF InsertRole, WriteRow, OpAt, Changes
<1>4. ~ FindBindings(q) /\ ~ DeleteRoleRow(q) /\ ~ UnlinkFrom(q) /\ ~ UnlinkTo(q)
  BY <1>0, <1>1 DEF FindBindings, DeleteRoleRow, UnlinkFrom, UnlinkTo, Unlink, WriteRow, Goto
<1>5. ~ Unlinked(q)
  BY <1>0, <1>1 DEF Unlinked, OpAt, Changes
<1>6. ~ CommitRole(q)
  BY <1>0, <1>1 DEF CommitRole, Return, Goto
<1>7. /\ req' = req /\ over' = over
      /\ GetRoleForUpdate(q) \/ UpdateRoleRow(q) \/ WriteRole(q)
  BY <1>1, <1>2, <1>3, <1>4, <1>5, <1>6
     DEF RoleStep, GetRoleForUpdate, UpdateRoleRow, WriteRow, WriteRole
<1>8. op = "UpdateRole" /\ pc[q] # "idle"
  BY <1>0, <1>7 DEF GetRoleForUpdate, UpdateRoleRow, WriteRole, OpAt, Changes
<1>9. PICK r \in RoleIDs : r = req[q].role /\ r = Target(q) /\ r = Target(q)' /\ r \in IDs
  BY <1>7, <1>8, OwnFacts DEF Target, RoleOps, IDs
<1>10. CASE GetRoleForUpdate(q)
  <2>1. /\ upd'[q] = RoleDiff(r, req[q].actions) /\ tuples' = tuples
        /\ (pc'[q] = "commit" /\ upd'[q] = NoUpdate) \/ pc'[q] = "updateRole"
    BY <1>0, <1>1, <1>9, <1>10 DEF GetRoleForUpdate, Goto
  <2>2. Ready(req[q], r, About(r), upd'[q])
    <3>1. req[q].actions \subseteq Actions
      BY <1>7, <1>8, RequestSets DEF OwnInv
    <3> QED
      BY <1>7, <1>8, <1>9, <2>1, <3>1, RoleDiffReady
  <2>3. upd'[q] = NoUpdate => Reached(req[q], About(r))
    <3>1. NoUpdate.add = {} /\ NoUpdate.del = {} /\ (About(r) \ {}) \cup {} = About(r)
      BY DEF NoUpdate, Update
    <3> QED
      BY <2>2, <3>1 DEF Ready
  <2>4. About(r)' = About(r)
    BY <2>1 DEF About
  <2> QED
    BY <1>7, <1>9, <2>1, <2>2, <2>3, <2>4 DEF Due
<1>11. CASE UpdateRoleRow(q)
  <2>1. pc[q] = "updateRole" /\ pc'[q] = "writeRole" /\ UNCHANGED <<tuples, upd>>
    BY <1>0, <1>1, <1>11 DEF UpdateRoleRow, WriteRow, Goto
  <2>2. About(r)' = About(r)
    BY <2>1 DEF About
  <2> QED
    BY <1>7, <1>9, <2>1, <2>2 DEF Due
<1>12. CASE WriteRole(q)
  <2>1. /\ pc[q] = "writeRole" /\ pc'[q] = "commit"
        /\ tuples' = (tuples \ upd[q].del) \cup upd[q].add
    BY <1>0, <1>1, <1>12 DEF WriteRole, Return, Goto
  <2>2. Ready(req[q], r, About(r), upd[q])
    BY <1>7, <1>9, <2>1 DEF Due
  <2>3. Reached(req[q], About(r)')
    BY <1>9, <2>1, <2>2, DueWritten
  <2> QED
    BY <1>7, <1>9, <2>1, <2>3 DEF Due
<1> QED
  BY <1>7, <1>10, <1>11, <1>12

LEMMA OwnBindingDue ==
    ASSUME OwnInv, NEW q \in Procs, NEW op \in Changes, Due(q, op), BindingStep(q),
           q \notin over', req'[q].op = op,
           pc'[q] \in {"updateRole", "writeRole", "apply", "zed", "touchBinding", "commit"}
    PROVE  Due(q, op)'
<1>0. /\ OpAt /\ DOMAIN pc = Procs /\ DOMAIN upd = Procs
  BY DEF OwnInv, IInv, TypeOK
<1>1. ~ RollbackAndFail(q) /\ ~ FailOpen(q) /\ \A l \in {"undo", "undoTwice"} : ~ RollbackTo(q, l)
  BY <1>0 DEF RollbackAndFail, FailOpen, RollbackTo, Return, Goto
<1>2. ~ CheckBindable(q) /\ ~ ReadRole(q) /\ ~ BeginBinding(q)
  BY <1>0, <1>1 DEF CheckBindable, ReadRole, BeginBinding, Begin, Return, Goto
<1>3. ~ LockBinding(q)
  BY <1>0, <1>1 DEF LockBinding, LockForUpdate, Goto
<1>4. ~ InsertBinding(q)
  BY <1>0, <1>1 DEF InsertBinding, WriteRow, OpAt, Changes
<1>5. ~ ReadFrom(q) /\ ~ ReadTo(q) /\ ~ DeleteBindingRow(q)
  BY <1>0, <1>1 DEF ReadFrom, ReadTo, DeleteBindingRow, WriteRow, OpAt, Changes
<1>6. ~ CommitBinding(q) /\ ~ RollbackUpdates(q)
  BY <1>0, <1>1 DEF CommitBinding, RollbackUpdates, Return, Goto
<1>7. /\ req' = req /\ over' = over
      /\ GetBindingForUpdate(q) \/ ApplyUpdates(q) \/ UpsertZedToken(q) \/ TouchBinding(q)
  BY <1>1, <1>2, <1>3, <1>4, <1>5, <1>6
     DEF BindingStep, GetBindingForUpdate, ApplyUpdates, UpsertZedToken, TouchBinding, WriteRow
<1>8. op = "UpdateBinding" /\ pc[q] # "idle"
  BY <1>0, <1>7 DEF GetBindingForUpdate, ApplyUpdates, UpsertZedToken, TouchBinding, OpAt, Changes,
                    BindingOps
<1>9. PICK b \in BindingIDs : b = req[q].rb /\ b = Target(q) /\ b = Target(q)' /\ b \in IDs
  BY <1>7, <1>8, OwnFacts DEF Target, RoleOps, BindingOps, IDs
<1>10. CASE GetBindingForUpdate(q)
  <2>1. upd'[q] = SubjectDiff(b, req[q].subjects) /\ tuples' = tuples /\ pc'[q] = "apply"
    BY <1>0, <1>1, <1>9, <1>10 DEF GetBindingForUpdate, Return, Goto
  <2>2. Ready(req[q], b, About(b), upd'[q])
    <3>1. req[q].subjects \subseteq Subjects
      BY <1>7, <1>8, RequestSets DEF OwnInv
    <3> QED
      BY <1>7, <1>8, <1>9, <2>1, <3>1, SubjectDiffReady
  <2>3. About(b)' = About(b)
    BY <2>1 DEF About
  <2> QED
    BY <1>7, <1>9, <2>1, <2>2, <2>3 DEF Due
<1>11. CASE ApplyUpdates(q)
  <2>1. /\ pc[q] = "apply" /\ pc'[q] = "zed"
        /\ tuples' = (tuples \ upd[q].del) \cup upd[q].add
    BY <1>0, <1>1, <1>11 DEF ApplyUpdates, Return, Goto
  <2>2. Ready(req[q], b, About(b), upd[q])
    BY <1>7, <1>9, <2>1 DEF Due
  <2>3. Reached(req[q], About(b)')
    BY <1>9, <2>1, <2>2, DueWritten
  <2> QED
    BY <1>7, <1>9, <2>1, <2>3 DEF Due
<1>12. CASE UpsertZedToken(q) \/ TouchBinding(q)
  <2>1. /\ pc[q] \in {"zed", "touchBinding"} /\ pc'[q] \in {"zed", "touchBinding", "commit"}
        /\ tuples' = tuples
    BY <1>0, <1>1, <1>7, <1>8, <1>12 DEF UpsertZedToken, TouchBinding, WriteRow, Goto
  <2>2. About(b)' = About(b)
    BY <2>1 DEF About
  <2> QED
    BY <1>7, <1>9, <2>1, <2>2 DEF Due
<1> QED
  BY <1>7, <1>10, <1>11, <1>12

LEMMA OwnDue ==
    ASSUME OwnInv, NEW q \in Procs, NEW op \in Changes, Due(q, op), Takes(q)
    PROVE  Due(q, op)'
<1> SUFFICES ASSUME q \notin over', req'[q].op = op,
                    pc'[q] \in {"updateRole", "writeRole", "apply", "zed", "touchBinding", "commit"}
             PROVE  Due(q, op)'
  BY DEF Due
<1>0. DOMAIN pc = Procs
  BY DEF OwnInv, IInv, TypeOK
<1>1. ~ Start(q) /\ ~ RequestEnd(q)
  BY <1>0 DEF Start, StartRole, StartBinding, StartAt, RequestEnd, Goto
<1>2. ~ Cancel(q) /\ ~ AbortTx(q)
  BY DEF Cancel, AbortTx
<1> QED
  BY <1>1, <1>2, OwnRoleDue, OwnBindingDue DEF Takes, Work

LEMMA StepAnswers ==
    ASSUME OwnInv, NEW q \in Procs, Takes(q)
    PROVE  /\ \A p \in Procs \ {q} : ans'[p] = ans[p] /\ pc'[p] = pc[p]
           /\ \/ pc'[q] = "returned" \/ ans'[q] \in {"error", "none"}
              \/ pc[q] # "returned" /\ ans'[q] = ans[q]
           /\ pc[q] = "commit" /\ ans'[q] = "ok" =>
                 q \notin over \/ ans[q] = "ok"
<1>0. DOMAIN pc = Procs /\ DOMAIN ans = Procs
  BY DEF OwnInv, IInv, TypeOK
<1>1. ASSUME UNCHANGED ans, NEW l, Goto(q, l)
      PROVE  /\ \A p \in Procs \ {q} : ans'[p] = ans[p] /\ pc'[p] = pc[p]
             /\ ans'[q] = ans[q]
  BY <1>0, <1>1 DEF Goto
<1>2. ASSUME NEW a, Return(q, a)
      PROVE  /\ \A p \in Procs \ {q} : ans'[p] = ans[p] /\ pc'[p] = pc[p]
             /\ pc'[q] = "returned" /\ ans'[q] = a
  BY <1>0, <1>2 DEF Return, Goto
<1>3. CASE RollbackAndFail(q) \/ FailOpen(q)
  BY <1>2, <1>3 DEF RollbackAndFail, FailOpen
<1>4. CASE Start(q) \/ Cancel(q) \/ AbortTx(q)
  BY <1>0, <1>4 DEF Start, StartRole, StartBinding, StartAt, Goto, Cancel, AbortTx, procVars
<1>5. CASE RequestEnd(q)
  BY <1>0, <1>5 DEF RequestEnd, Goto
<1>6. CASE BeginRole(q) \/ BeginBinding(q)
  BY <1>1, <1>2, <1>6 DEF BeginRole, BeginBinding, Begin
<1>7. CASE InsertRole(q) \/ LockRole(q) \/ GetRoleForUpdate(q) \/ UpdateRoleRow(q)
  BY <1>1, <1>3, <1>7
     DEF InsertRole, LockRole, LockForUpdate, GetRoleForUpdate, UpdateRoleRow, WriteRow
<1>8. CASE WriteRole(q) \/ FindBindings(q) \/ DeleteRoleRow(q) \/ Unlinked(q)
  BY <1>1, <1>2, <1>3, <1>8 DEF WriteRole, FindBindings, DeleteRoleRow, Unlinked, WriteRow
<1>9. CASE UnlinkFrom(q) \/ UnlinkTo(q)
  BY <1>0, <1>9 DEF UnlinkFrom, UnlinkTo, Unlink, Goto
<1>10. CASE CommitRole(q)
  BY <1>2, <1>3, <1>10 DEF CommitRole, Up
<1>11. CASE CheckBindable(q) \/ ReadRole(q) \/ InsertBinding(q) \/ LockBinding(q)
  BY <1>1, <1>3, <1>11
     DEF CheckBindable, ReadRole, InsertBinding, LockBinding, LockForUpdate, WriteRow
<1>12. CASE GetBindingForUpdate(q) \/ ReadFrom(q) \/ ReadTo(q)
  BY <1>1, <1>2, <1>3, <1>12 DEF GetBindingForUpdate, ReadFrom, ReadTo
<1>13. CASE ApplyUpdates(q) \/ UpsertZedToken(q)
  BY <1>0, <1>1, <1>2, <1>3, <1>13 DEF ApplyUpdates, UpsertZedToken
<1>14. CASE TouchBinding(q) \/ DeleteBindingRow(q)
  BY <1>1, <1>14 DEF TouchBinding, DeleteBindingRow, WriteRow, RollbackTo
<1>15. CASE CommitBinding(q)
  BY <1>1, <1>2, <1>15 DEF CommitBinding, RollbackTo, Up
<1>16. CASE RollbackUpdates(q)
  BY <1>1, <1>2, <1>16 DEF RollbackUpdates
<1> QED
  BY <1>4, <1>5, <1>6, <1>7, <1>8, <1>9, <1>10, <1>11, <1>12, <1>13, <1>14, <1>15, <1>16
     DEF Takes, Work, RoleStep, BindingStep

(* Rollbacks of SpiceDB that are pending write nothing if only the end of  *)
(* a context makes commits and late writes fail.                           *)
Late == {"lateRow", "commit", "commitLost"}

UndoneOver == \A p \in Procs : pc[p] \in {"undo", "undoTwice"} => p \in over

LEMMA UndoQuiet ==
    ASSUME OwnInv, UndoneOver, NEW q \in Procs, Takes(q), pc[q] \in {"undo", "undoTwice"}
    PROVE  UNCHANGED tuples
<1>0. OpAt
  BY DEF OwnInv, IInv
<1>1. q \in over
  BY DEF UndoneOver
<1>2. CASE RollbackUpdates(q)
  BY <1>1, <1>2 DEF RollbackUpdates, Up
<1>3. CASE Cancel(q) \/ AbortTx(q)
  BY <1>3 DEF Cancel, AbortTx
<1>4. ~ Start(q) /\ ~ RequestEnd(q)
  BY DEF Start, StartRole, StartBinding, StartAt, RequestEnd
<1>5. ~ RoleStep(q)
  BY DEF RoleStep, BeginRole, Begin, InsertRole, LockRole, GetRoleForUpdate, UpdateRoleRow,
         WriteRole, FindBindings, DeleteRoleRow, UnlinkFrom, UnlinkTo, Unlink, Unlinked, CommitRole
<1>6. BindingStep(q) => RollbackUpdates(q)
  BY DEF BindingStep, CheckBindable, ReadRole, BeginBinding, Begin, InsertBinding, LockBinding,
         GetBindingForUpdate, ReadFrom, ReadTo, ApplyUpdates, UpsertZedToken, TouchBinding,
         DeleteBindingRow, CommitBinding
<1> QED
  BY <1>2, <1>3, <1>4, <1>5, <1>6 DEF Takes, Work

LEMMA UndoneStays ==
    ASSUME Failures \cap Late = {}, OwnInv, UndoneOver, NEW q \in Procs, Takes(q), Deed(q)
    PROVE  UndoneOver'
<1>0. DOMAIN pc = Procs
  BY DEF OwnInv, IInv, TypeOK
<1>1. ASSUME NEW p \in Procs, p # q, pc'[p] \in {"undo", "undoTwice"} PROVE p \in over'
  BY <1>1 DEF Deed, Elsewhere, UndoneOver
<1>2. ASSUME pc'[q] \in {"undo", "undoTwice"} PROVE q \in over'
  <2>1. ~ RollbackAndFail(q) /\ ~ FailOpen(q)
    BY <1>0, <1>2 DEF RollbackAndFail, FailOpen, Return, Goto
  <2>2. CASE Cancel(q) \/ AbortTx(q)
    BY <1>2, <2>2 DEF Cancel, AbortTx, procVars, UndoneOver
  <2>3. ~ Start(q) /\ ~ RequestEnd(q)
    BY <1>0, <1>2 DEF Start, StartRole, StartBinding, StartAt, RequestEnd, Goto
  <2>4. ~ BeginRole(q) /\ ~ InsertRole(q) /\ ~ LockRole(q) /\ ~ GetRoleForUpdate(q)
    BY <1>0, <1>2, <2>1 DEF BeginRole, Begin, InsertRole, LockRole, LockForUpdate, GetRoleForUpdate,
                            WriteRow, Return, Goto
  <2>5. ~ UpdateRoleRow(q) /\ ~ WriteRole(q) /\ ~ FindBindings(q) /\ ~ DeleteRoleRow(q)
    BY <1>0, <1>2, <2>1 DEF UpdateRoleRow, WriteRole, FindBindings, DeleteRoleRow, WriteRow,
                            Return, Goto
  <2>6. ~ UnlinkFrom(q) /\ ~ UnlinkTo(q) /\ ~ Unlinked(q) /\ ~ CommitRole(q)
    BY <1>0, <1>2, <2>1 DEF UnlinkFrom, UnlinkTo, Unlink, Unlinked, CommitRole, Return, Goto
  <2>7. ~ CheckBindable(q) /\ ~ ReadRole(q) /\ ~ BeginBinding(q) /\ ~ InsertBinding(q)
    BY <1>0, <1>2, <2>1 DEF CheckBindable, ReadRole, BeginBinding, Begin, InsertBinding, WriteRow,
                            Return, Goto
  <2>8. ~ LockBinding(q) /\ ~ GetBindingForUpdate(q) /\ ~ ReadFrom(q) /\ ~ ReadTo(q)
    BY <1>0, <1>2, <2>1 DEF LockBinding, LockForUpdate, GetBindingForUpdate, ReadFrom, ReadTo,
                            Return, Goto
  <2>9. ~ ApplyUpdates(q)
    BY <1>0, <1>2, <2>1 DEF ApplyUpdates, Return, Goto
  <2>10. CASE UpsertZedToken(q)
    <3>1. pc'[q] \in {"zed", "commit", "touchBinding", "deleteBinding"}
      BY <1>0, <2>1, <2>10, OwnFacts DEF UpsertZedToken, Goto, OwnInv, IInv, OpAt, BindingOps
    <3> QED
      BY <1>2, <3>1
  <2>11. CASE TouchBinding(q) \/ DeleteBindingRow(q) \/ CommitBinding(q)
    BY <1>0, <1>2, <2>11 DEF TouchBinding, DeleteBindingRow, CommitBinding, RollbackTo, WriteRow,
                             Fails, Return, Goto, Late
  <2>12. CASE RollbackUpdates(q)
    BY <2>12 DEF RollbackUpdates, UndoneOver
  <2> QED
    BY <2>2, <2>3, <2>4, <2>5, <2>6, <2>7, <2>8, <2>9, <2>10, <2>11, <2>12
       DEF Takes, Work, RoleStep, BindingStep
<1> QED
  BY <1>1, <1>2 DEF UndoneOver

DueInv(op) == OwnInv /\ Unanswered /\ \A p \in Procs : Due(p, op)

LEMMA InitDue == ASSUME NEW op PROVE Init => DueInv(op)
BY InitOwn DEF Init, DueInv, Unanswered, Due

LEMMA NextDue ==
    ASSUME NEW op \in Changes, DueInv(op), [Next]_vars, op = "UpdateRole" \/ UndoneOver
    PROVE  DueInv(op)'
<1>1. OwnInv'
  BY OwnStep DEF DueInv
<1>2. CASE UNCHANGED vars
  <2>1. UNCHANGED <<tuples, pc, req, upd, over, ans>>
    BY <1>2 DEF vars, procVars
  <2>2. Unanswered'
    BY <2>1 DEF DueInv, Unanswered
  <2>3. \A p \in Procs : Due(p, op)'
    BY <2>1 DEF DueInv, Due, Target, About
  <2> QED
    BY <1>1, <2>2, <2>3 DEF DueInv
<1>3. ASSUME NEW q \in Procs, Takes(q)
      PROVE  DueInv(op)'
  <2>1. Deed(q)
    BY <1>3, TakesDeed DEF DueInv
  <2>2. Unanswered'
    BY <1>3, StepAnswers DEF DueInv, Unanswered
  <2>3. pc[q] \in {"undo", "undoTwice"} => op = "UpdateRole" \/ UNCHANGED tuples
    BY <1>3, UndoQuiet DEF DueInv
  <2>4. \A p \in Procs : Due(p, op)'
    BY <1>3, <2>1, <2>3, DueKept, OwnDue DEF DueInv
  <2> QED
    BY <1>1, <2>2, <2>4 DEF DueInv
<1> QED
  BY <1>2, <1>3 DEF Next, Takes

(* Who answers "ok" at the commit has reached what it was asked for.       *)
LEMMA AnswersDue ==
    ASSUME NEW op \in Changes, DueInv(op), Next, NEW p \in Procs, req[p].op = op, pc[p] = "commit",
           ans'[p] = "ok"
    PROVE  Reached(req[p], About(Target(p)))
<1>1. PICK q \in Procs : Takes(q)
  BY DEF Next, Takes
<1>2. ans[p] # "ok"
  BY DEF DueInv, Unanswered
<1>3. p \notin over
  BY <1>1, <1>2, StepAnswers DEF DueInv
<1> QED
  BY <1>3 DEF DueInv, Due

(* Whatever fails, an UpdateRoleV2 that answers without error leaves the   *)
(* role with the actions it was given: its row's lock covers the reading   *)
(* of the actions, the write and the commit, and no rollback of SpiceDB    *)
(* concerns roles.                                                         *)
THEOREM RoleUpdatesTakeEffect == Spec => RoleUpdateTakesEffect
<1>1. ASSUME DueInv("UpdateRole"), [Next]_vars
      PROVE  [\A p \in Procs :
                (req[p].op = "UpdateRole" /\ pc[p] = "commit" /\ ans'[p] = "ok"
                    /\ req[p].actions # {})
                   => ActionsOf(req[p].role) = req[p].actions]_vars
  <2> SUFFICES ASSUME Next, NEW p \in Procs, req[p].op = "UpdateRole", pc[p] = "commit",
                      ans'[p] = "ok", req[p].actions # {}
               PROVE  ActionsOf(req[p].role) = req[p].actions
    BY <1>1
  <2>1. PICK r \in RoleIDs : r = req[p].role /\ r = Target(p)
    BY <1>1, OwnFacts DEF DueInv, RoleOps
  <2>2. Reached(req[p], About(r))
    BY <1>1, <2>1, AnswersDue DEF Changes
  <2>3. {a \in Actions : RoleAction(r, a) \in About(r)} = req[p].actions
    BY <2>1, <2>2 DEF Reached
  <2>4. \A a \in Actions : RoleAction(r, a) \in About(r) <=> RoleAction(r, a) \in tuples
    BY DEF About, Of, RoleAction
  <2> QED
    BY <2>1, <2>3, <2>4 DEF ActionsOf
<1>2. DueInv("UpdateRole") /\ [Next]_vars => DueInv("UpdateRole")'
  BY NextDue DEF Changes
<1>3. Init => DueInv("UpdateRole")
  BY InitDue
<1> QED
  BY <1>1, <1>2, <1>3, PTL DEF Spec, RoleUpdateTakesEffect

(* ... and an UpdateRoleBinding the binding with the subjects it was       *)
(* given, unless a commit or a write after SpiceDB's may fail while the    *)
(* context lives: rollbackUpdates writes without any lock.                 *)
THEOREM BindingUpdatesTakeEffect ==
    ASSUME Failures \cap Late = {}
    PROVE  Spec => UpdateTakesEffect
<1> DEFINE I == DueInv("UpdateBinding") /\ UndoneOver
<1>1. ASSUME I, [Next]_vars
      PROVE  [\A p \in Procs :
                (req[p].op = "UpdateBinding" /\ pc[p] = "commit" /\ ans'[p] = "ok")
                   => SubjectsOf(req[p].rb) = req[p].subjects]_vars
  <2> SUFFICES ASSUME Next, NEW p \in Procs, req[p].op = "UpdateBinding", pc[p] = "commit",
                      ans'[p] = "ok"
               PROVE  SubjectsOf(req[p].rb) = req[p].subjects
    BY <1>1
  <2>1. PICK b \in BindingIDs : b = req[p].rb /\ b = Target(p)
    BY <1>1, OwnFacts DEF DueInv, BindingOps
  <2>2. Reached(req[p], About(b))
    BY <1>1, <2>1, AnswersDue DEF Changes
  <2>3. {s \in Subjects : BindingSubject(b, s) \in About(b)} = req[p].subjects
    BY <2>1, <2>2 DEF Reached
  <2>4. \A s \in Subjects : BindingSubject(b, s) \in About(b) <=> BindingSubject(b, s) \in tuples
    BY DEF About, Of, BindingSubject
  <2> QED
    BY <2>1, <2>3, <2>4 DEF SubjectsOf
<1>2. ASSUME I, [Next]_vars PROVE I'
  <2>1. DueInv("UpdateBinding")'
    BY <1>2, NextDue DEF Changes
  <2>2. CASE UNCHANGED vars
    BY <1>2, <2>1, <2>2 DEF UndoneOver, vars, procVars
  <2>3. ASSUME NEW q \in Procs, Takes(q) PROVE UndoneOver'
    BY <1>2, <2>3, TakesDeed, UndoneStays DEF DueInv
  <2> QED
    BY <1>2, <2>1, <2>2, <2>3 DEF Next, Takes
<1>3. Init => I
  BY InitDue DEF Init, UndoneOver
<1> QED
  BY <1>1, <1>2, <1>3, PTL DEF Spec, UpdateTakesEffect
=============================================================================
