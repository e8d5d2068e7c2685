--------------------------- MODULE RolesV1_proofs ---------------------------
(***************************************************************************)
(* What is proved of the V1 roles, for any number of requests and reads,   *)
(* roles, resources, subjects and actions, and for every set of failures.  *)
(*                                                                         *)
(* The argument is the row's lock.  Mine(p) is what a request p relies on  *)
(* while it works; Rely(q) bounds what a step of q does to the others: it  *)
(* changes rows, and actions of roles, only where q holds the lock.        *)
(***************************************************************************)
EXTENDS RolesV1Readers, TLAPS

FiltersV1 == [obj : Resources, rel : [word : Actions, suffix : {"", "_rel"}], sub : RoleIDs]

TypesV1 ==
    /\ TypeOKV1
    /\ pend \in [Procs -> [id : RoleIDs, val : Resources \cup {None}] \cup {None}]
    /\ upd \in [Procs -> [add : SUBSET TuplesV1, del : SUBSET FiltersV1]]

(* a role that has a row, or is assigned, was committed                    *)
BornV1 ==
    /\ \A r \in RoleIDs : roleRow[r] # None => r \in born
    /\ DiscardedUnassigned

(* where a request is tells its operation                                  *)
OpAtV1(p) ==
    /\ pc[p] = "getResource" => req[p].op \in {"UpdateRole", "DeleteRole"} \cup AssignOps
    /\ pc[p] \in {"begin", "commit"} => req[p].op \in RoleOps
    /\ pc[p] = "insertRole" => req[p].op = "CreateRole"
    /\ pc[p] = "writeRole" => req[p].op \in {"CreateRole", "UpdateRole"}
    /\ pc[p] = "lockRole" => req[p].op \in {"UpdateRole", "DeleteRole"}
    /\ pc[p] \in {"getRole", "updateRole"} => req[p].op = "UpdateRole"
    /\ pc[p] \in {"readRole", "listActions", "deleteRole", "unlink"} => req[p].op = "DeleteRole"
    /\ pc[p] = "assign" => req[p].op = "Assign"
    /\ pc[p] = "unassign" => req[p].op = "Unassign"

(* p has the row of its role to itself, and the role has an owner          *)
Holds(p) == lock[req[p].role] = p /\ roleRow[req[p].role] \in Resources

(* the updates of an UpdateRole are still the difference to what it read   *)
Current(p) == upd[p] = RoleDiffV1(roleRow[req[p].role], req[p].role, req[p].actions)

Mine(p) ==
    /\ OpAtV1(p)
    /\ pend[p] # None => lock[pend[p].id] = p
    /\ pc[p] \in {"deleteRole", "unlink"} => \A f \in upd[p].del : f.rel.suffix = ""
    /\ pc[p] = "assign" => req[p].role \in born
    /\ p \notin over =>
         /\ pc[p] \in {"getRole", "updateRole", "listActions", "deleteRole"} => Holds(p)
         /\ pc[p] = "updateRole" => Current(p)
         /\ pc[p] = "writeRole" /\ req[p].op = "UpdateRole" =>
               Holds(p) /\ Current(p) /\ pend[p] = Write(req[p].role, roleRow[req[p].role])
         /\ pc[p] = "writeRole" /\ req[p].op = "CreateRole" =>
               /\ lock[req[p].role] = p
               /\ pend[p] = Write(req[p].role, req[p].res)
               /\ upd[p] = Update(Granted(req[p].res, req[p].role, req[p].actions), {})
         /\ pc[p] = "commit" /\ req[p].op = "UpdateRole" =>
               /\ Holds(p)
               /\ req[p].actions # {} => ActionsOn(roleRow[req[p].role], req[p].role) = req[p].actions

IInvV1 == TypesV1 /\ BornV1 /\ \A p \in Procs : Mine(p)

(* what a step of q leaves to every other request                          *)
Rely(q) ==
    /\ \A p \in Procs \ {q} :
          /\ pc'[p] = pc[p] /\ req'[p] = req[p] /\ upd'[p] = upd[p] /\ pend'[p] = pend[p]
          /\ p \in over => p \in over'
          /\ \A r \in RoleIDs : lock[r] = p => lock'[r] = p
    /\ born \subseteq born'
    /\ \A r \in RoleIDs : roleRow'[r] # roleRow[r] => lock[r] = q
    /\ \A x \in Resources, r \in RoleIDs, a \in Actions :
          (OnOwner(x, actionToRelation(a), r) \in tuples' <=> OnOwner(x, actionToRelation(a), r) \in tuples)
          \/ lock[r] = q

Good(q) == TypesV1' /\ BornV1' /\ Rely(q) /\ Mine(q)'

-----------------------------------------------------------------------------
(* The fields of a request, by its operation.                              *)
LEMMA FieldsV1 ==
    ASSUME NEW q \in RequestsV1 \cup {NoRequest}
    PROVE  /\ q.op \in RoleOps \cup AssignOps => q.role \in RoleIDs
           /\ q.op = "CreateRole" => q.res \in Resources
           /\ q.op \in {"CreateRole", "UpdateRole"} => q.actions \subseteq Actions
           /\ q.op \in AssignOps => q.sub \in Subjects
BY DEF RequestsV1, NoRequest, RoleOps, AssignOps

(* An action a role has on x is a tuple there, and nothing else is; stated *)
(* of a set T so that it can be used before and after a step.              *)
ActionsIn(T, x, r) == {t.rel.word : t \in {u \in T : u.obj = x /\ u.sub = r}}

LEMMA ActionsInAre ==
    ASSUME NEW T \in SUBSET TuplesV1, NEW x \in Resources, NEW r \in RoleIDs
    PROVE  /\ ActionsIn(T, x, r) \subseteq Actions
           /\ \A a \in Actions : a \in ActionsIn(T, x, r) <=> OnOwner(x, actionToRelation(a), r) \in T
<1>1. ASSUME NEW t \in T, t.obj = x, t.sub = r
      PROVE  /\ t.rel.word \in Actions
             /\ t = OnOwner(x, actionToRelation(t.rel.word), r)
  <2>1. t \in [obj : Resources, rel : {actionToRelation(a) : a \in Actions}, sub : RoleIDs]
    BY <1>1, StoreAssumption DEF TuplesV1
  <2>2. PICK a \in Actions : t.rel = actionToRelation(a)
    BY <2>1
  <2>3. t.rel.word = a
    BY <2>2 DEF actionToRelation
  <2> QED BY <1>1, <2>1, <2>2, <2>3 DEF OnOwner
<1>2. ASSUME NEW a \in Actions, OnOwner(x, actionToRelation(a), r) \in T
      PROVE  a \in ActionsIn(T, x, r)
  <2> DEFINE t == OnOwner(x, actionToRelation(a), r)
  <2>1. t \in T /\ t.obj = x /\ t.sub = r /\ t.rel.word = a
    BY <1>2 DEF OnOwner, actionToRelation
  <2> QED BY <2>1 DEF ActionsIn
<1>3. ASSUME NEW a \in ActionsIn(T, x, r)
      PROVE  a \in Actions /\ OnOwner(x, actionToRelation(a), r) \in T
  <2>1. PICK t \in T : t.obj = x /\ t.sub = r /\ a = t.rel.word
    BY DEF ActionsIn
  <2> QED BY <1>1, <2>1
<1> QED BY <1>2, <1>3

LEMMA ActionsOnAre ==
    ASSUME tuples \subseteq TuplesV1, NEW x \in Resources, NEW r \in RoleIDs
    PROVE  /\ ActionsOn(x, r) \subseteq Actions
           /\ \A a \in Actions : a \in ActionsOn(x, r) <=> OnOwner(x, actionToRelation(a), r) \in tuples
<1>1. ActionsOn(x, r) = ActionsIn(tuples, x, r)
  BY DEF ActionsOn, ActionsIn, relationToAction
<1> QED BY <1>1, ActionsInAre

LEMMA ActionsOnAreNext ==
    ASSUME (tuples \subseteq TuplesV1)', NEW x \in Resources, NEW r \in RoleIDs
    PROVE  /\ ActionsOn(x, r)' \subseteq Actions
           /\ \A a \in Actions : a \in ActionsOn(x, r)' <=> OnOwner(x, actionToRelation(a), r) \in tuples'
<1>1. ActionsOn(x, r)' = ActionsIn(tuples', x, r)
  BY DEF ActionsOn, ActionsIn, relationToAction
<1>2. tuples' \in SUBSET TuplesV1
  BY DEF TuplesV1
<1> QED BY <1>1, <1>2, ActionsInAre

LEMMA GrantedTypes ==
    ASSUME NEW x \in Resources, NEW r \in RoleIDs, NEW acts \in SUBSET Actions
    PROVE  Granted(x, r, acts) \in SUBSET TuplesV1 /\ Granted(x, r, acts) \in SUBSET FiltersV1
<1> SUFFICES ASSUME NEW a \in acts
             PROVE  /\ OnOwner(x, actionToRelation(a), r) \in TuplesV1
                    /\ OnOwner(x, actionToRelation(a), r) \in FiltersV1
  BY DEF Granted
<1> QED BY DEF OnOwner, TuplesV1, FiltersV1, actionToRelation

LEMMA DiffTypes ==
    ASSUME tuples \subseteq TuplesV1, NEW x \in Resources, NEW r \in RoleIDs,
           NEW acts \in SUBSET Actions
    PROVE  RoleDiffV1(x, r, acts) \in [add : SUBSET TuplesV1, del : SUBSET FiltersV1]
<1>1. acts \ ActionsOn(x, r) \in SUBSET Actions /\ ActionsOn(x, r) \ acts \in SUBSET Actions
  BY ActionsOnAre
<1> QED BY <1>1, GrantedTypes DEF RoleDiffV1, NoUpdate, Update

(* Nothing to add and nothing to remove: the role has what was asked for.  *)
LEMMA NoDiff ==
    ASSUME tuples \subseteq TuplesV1, NEW x \in Resources, NEW r \in RoleIDs,
           NEW acts \in SUBSET Actions, acts # {}, RoleDiffV1(x, r, acts) = NoUpdate
    PROVE  ActionsOn(x, r) = acts
<1>1. Granted(x, r, acts \ ActionsOn(x, r)) = {} /\ Granted(x, r, ActionsOn(x, r) \ acts) = {}
  BY DEF RoleDiffV1, NoUpdate, Update
<1> QED BY <1>1, ActionsOnAre DEF Granted

(* Once the difference is written the role has what was asked for.         *)
LEMMA DiffWritten ==
    ASSUME tuples \subseteq TuplesV1, (tuples \subseteq TuplesV1)',
           NEW x \in Resources, NEW r \in RoleIDs, NEW acts \in SUBSET Actions, acts # {},
           tuples' = (tuples \ RoleDiffV1(x, r, acts).del) \cup RoleDiffV1(x, r, acts).add
    PROVE  ActionsOn(x, r)' = acts
<1> DEFINE T(a) == OnOwner(x, actionToRelation(a), r)
<1>1. \A a, b \in Actions : T(a) = T(b) => a = b
  BY DEF OnOwner, actionToRelation
<1>2. RoleDiffV1(x, r, acts).add = {T(a) : a \in acts \ ActionsOn(x, r)}
      /\ RoleDiffV1(x, r, acts).del = {T(a) : a \in ActionsOn(x, r) \ acts}
  BY DEF RoleDiffV1, Update, Granted
<1>3. ASSUME NEW a \in Actions
      PROVE  T(a) \in tuples' <=> a \in acts
  <2>1. T(a) \in RoleDiffV1(x, r, acts).add <=> a \in acts \ ActionsOn(x, r)
    BY <1>1, <1>2
  <2>2. T(a) \in RoleDiffV1(x, r, acts).del <=> a \in ActionsOn(x, r) \ acts
    BY <1>1, <1>2, ActionsOnAre
  <2>3. T(a) \in tuples <=> a \in ActionsOn(x, r)
    BY ActionsOnAre
  <2> QED BY <2>1, <2>2, <2>3
<1> QED BY <1>3, ActionsOnAreNext

(* What another request does under its own locks disturbs nobody.          *)
LEMMA RelyKeeps ==
    ASSUME IInvV1, TypesV1', NEW q \in Procs, Rely(q), NEW p \in Procs, p # q
    PROVE  Mine(p)'
<1>1. /\ pc'[p] = pc[p] /\ req'[p] = req[p] /\ upd'[p] = upd[p] /\ pend'[p] = pend[p]
      /\ p \in over => p \in over'
      /\ \A r \in RoleIDs : lock[r] = p => lock'[r] = p /\ roleRow'[r] = roleRow[r]
      /\ born \subseteq born'
  BY DEF Rely
<1>2. Mine(p) /\ req[p] \in RequestsV1 \cup {NoRequest}
  BY DEF IInvV1, TypesV1, TypeOKV1
<1>3. OpAtV1(p)'
  BY <1>1, <1>2 DEF Mine, OpAtV1
<1>4. (pend[p] # None => lock[pend[p].id] = p)'
  <2>1. pend[p] # None => pend[p].id \in RoleIDs
    BY DEF IInvV1, TypesV1
  <2> QED BY <1>1, <1>2, <2>1 DEF Mine
<1>5. ASSUME req[p].op = "UpdateRole", Holds(p)
      PROVE  /\ Holds(p)'
             /\ ActionsOn(roleRow[req[p].role], req[p].role)' = ActionsOn(roleRow[req[p].role], req[p].role)
             /\ Current(p) => Current(p)'
  <2>1. PICK r \in RoleIDs : r = req[p].role
    BY <1>2, <1>5, FieldsV1 DEF RoleOps
  <2>2. PICK x \in Resources : x = roleRow[r]
    BY <1>5, <2>1 DEF Holds
  <2>3. Holds(p)' /\ req'[p].role = r /\ roleRow'[r] = x /\ lock[r] # q
    BY <1>1, <1>5, <2>1, <2>2 DEF Holds
  <2>4. ActionsOn(x, r)' = ActionsOn(x, r)
    <3>1. \A a \in Actions : OnOwner(x, actionToRelation(a), r) \in tuples'
                            <=> OnOwner(x, actionToRelation(a), r) \in tuples
      BY <2>3 DEF Rely
    <3>2. tuples \subseteq TuplesV1 /\ (tuples \subseteq TuplesV1)'
      BY DEF IInvV1, TypesV1, TypeOKV1
    <3> QED BY <3>1, <3>2, ActionsOnAre, ActionsOnAreNext
  <2>5. ActionsOn(roleRow[req[p].role], req[p].role)' = ActionsOn(roleRow[req[p].role], req[p].role)
    <3>1. ActionsOn(roleRow[req[p].role], req[p].role)' = ActionsOn(x, r)'
      BY <2>3 DEF ActionsOn
    <3> QED BY <2>1, <2>2, <2>4, <3>1
  <2>6. Current(p) => Current(p)'
    <3>1. Current(p)' <=> upd'[p] = RoleDiffV1(x, r, req[p].actions)'
      BY <1>1, <2>3 DEF Current, RoleDiffV1, ActionsOn, Granted, Update, OnOwner, NoUpdate
    <3>2. RoleDiffV1(x, r, req[p].actions)' = RoleDiffV1(x, r, req[p].actions)
      BY <1>1, <2>4 DEF RoleDiffV1
    <3> QED BY <1>1, <2>1, <2>2, <3>1, <3>2 DEF Current
  <2> QED BY <2>3, <2>5, <2>6
<1>6. ASSUME p \notin over'
      PROVE  (/\ pc[p] \in {"getRole", "updateRole", "listActions", "deleteRole"} => Holds(p)
              /\ pc[p] = "updateRole" => Current(p)
              /\ pc[p] = "writeRole" /\ req[p].op = "UpdateRole" =>
                    Holds(p) /\ Current(p) /\ pend[p] = Write(req[p].role, roleRow[req[p].role])
              /\ pc[p] = "writeRole" /\ req[p].op = "CreateRole" =>
                    /\ lock[req[p].role] = p
                    /\ pend[p] = Write(req[p].role, req[p].res)
                    /\ upd[p] = Update(Granted(req[p].res, req[p].role, req[p].actions), {})
              /\ pc[p] = "commit" /\ req[p].op = "UpdateRole" =>
                    /\ Holds(p)
                    /\ req[p].actions # {} =>
                          ActionsOn(roleRow[req[p].role], req[p].role) = req[p].actions)'
  <2>1. p \notin over
    BY <1>1, <1>6
  <2>2. req[p].op \in RoleOps => req[p].role \in RoleIDs
    BY <1>2, FieldsV1
  <2>3. ASSUME pc[p] \in {"getRole", "updateRole", "listActions", "deleteRole"} PROVE Holds(p)'
    <3>1. Holds(p) /\ req[p].op \in RoleOps
      BY <1>2, <2>1, <2>3 DEF Mine, OpAtV1, RoleOps
    <3> QED BY <1>1, <2>2, <3>1 DEF Holds
  <2>4. ASSUME pc[p] = "updateRole" PROVE Current(p)'
    BY <1>2, <1>5, <2>1, <2>4 DEF Mine, OpAtV1
  <2>5. ASSUME pc[p] = "writeRole", req[p].op = "UpdateRole"
        PROVE  (Holds(p) /\ Current(p) /\ pend[p] = Write(req[p].role, roleRow[req[p].role]))'
    <3>1. Holds(p) /\ Current(p) /\ pend[p] = Write(req[p].role, roleRow[req[p].role])
      BY <1>2, <2>1, <2>5 DEF Mine
    <3>2. roleRow'[req[p].role] = roleRow[req[p].role]
      BY <1>1, <2>2, <2>5, <3>1 DEF Holds, RoleOps
    <3> QED BY <1>1, <1>5, <2>5, <3>1, <3>2 DEF Write
  <2>6. ASSUME pc[p] = "writeRole", req[p].op = "CreateRole"
        PROVE  (/\ lock[req[p].role] = p
                /\ pend[p] = Write(req[p].role, req[p].res)
                /\ upd[p] = Update(Granted(req[p].res, req[p].role, req[p].actions), {}))'
    <3>1. req[p].role \in RoleIDs
      BY <2>2, <2>6 DEF RoleOps
    <3> QED BY <1>1, <1>2, <2>1, <2>6, <3>1 DEF Mine, Write, Update, Granted
  <2>7. ASSUME pc[p] = "commit", req[p].op = "UpdateRole"
        PROVE  (/\ Holds(p)
                /\ req[p].actions # {} =>
                      ActionsOn(roleRow[req[p].role], req[p].role) = req[p].actions)'
    BY <1>1, <1>2, <1>5, <2>1, <2>7 DEF Mine
  <2> QED BY <1>1, <2>3, <2>4, <2>5, <2>6, <2>7
<1>7. (/\ pc[p] \in {"deleteRole", "unlink"} => \A f \in upd[p].del : f.rel.suffix = ""
       /\ pc[p] = "assign" => req[p].role \in born)'
  BY <1>1, <1>2 DEF Mine
<1> QED BY <1>3, <1>4, <1>6, <1>7 DEF Mine

-----------------------------------------------------------------------------
(* Steps.  What a step writes to SpiceDB must be in order; the rest of a   *)
(* step that keeps rows, requests and contexts is bounded by StepGood.     *)
TuplesGood(q) ==
    /\ tuples' \subseteq TuplesV1
    /\ DiscardedUnassigned'
    /\ \A x \in Resources, r \in RoleIDs, a \in Actions :
          (OnOwner(x, actionToRelation(a), r) \in tuples' <=> OnOwner(x, actionToRelation(a), r) \in tuples)
          \/ lock[r] = q

LEMMA TuplesKept ==
    ASSUME IInvV1, NEW q \in Procs, UNCHANGED <<tuples, born>>
    PROVE  TuplesGood(q)
BY DEF TuplesGood, IInvV1, TypesV1, TypeOKV1, BornV1, DiscardedUnassigned

LEMMA StepGood ==
    ASSUME IInvV1, NEW q \in Procs,
           NEW l \in LabelsV1, pc' = [pc EXCEPT ![q] = l],
           NEW u \in [add : SUBSET TuplesV1, del : SUBSET FiltersV1], upd' = [upd EXCEPT ![q] = u],
           NEW w \in [id : RoleIDs, val : Resources \cup {None}] \cup {None},
           pend' = [pend EXCEPT ![q] = w],
           ans' \in [Procs -> {"none", "ok", "error"}],
           tx' \subseteq Procs,
           lock' \in [RoleIDs \cup BindingIDs -> Procs \cup {None}],
           \A p \in Procs \ {q}, r \in RoleIDs : lock[r] = p => lock'[r] = p,
           UNCHANGED <<roleRow, born, issued, over, req>>,
           TuplesGood(q), Mine(q)'
    PROVE  Good(q)
<1>1. TypesV1'
  <2>1. /\ pend' \in [Procs -> [id : RoleIDs, val : Resources \cup {None}] \cup {None}]
        /\ upd' \in [Procs -> [add : SUBSET TuplesV1, del : SUBSET FiltersV1]]
    BY DEF IInvV1, TypesV1
  <2>2. pend' \in [Procs -> Writes \cup {None}]
    BY <2>1 DEF Writes
  <2>3. \A p \in Procs : upd'[p].add \subseteq TuplesV1
    BY <2>1
  <2>4. pc' \in [Procs -> LabelsV1]
    BY DEF IInvV1, TypesV1, TypeOKV1
  <2>5. /\ roleRow' \in [RoleIDs -> Resources \cup {None}]
        /\ born' \subseteq RoleIDs \cup BindingIDs /\ issued' \subseteq RoleIDs
        /\ tuples' \subseteq TuplesV1 /\ over' \subseteq Procs
        /\ req' \in [Procs -> RequestsV1 \cup {NoRequest}]
    BY DEF IInvV1, TypesV1, TypeOKV1, TuplesGood
  <2> QED BY <2>1, <2>2, <2>3, <2>4, <2>5 DEF TypesV1, TypeOKV1
<1>2. BornV1'
  BY DEF IInvV1, BornV1, TuplesGood
<1>3. Rely(q)
  BY DEF IInvV1, TypesV1, TypeOKV1, Rely, TuplesGood
<1> QED BY <1>1, <1>2, <1>3 DEF Good

(* The end of a transaction frees q's rows and forgets its write.          *)
LEMMA EndTxV1 ==
    ASSUME IInvV1, NEW q \in Procs, EndTx(q)
    PROVE  /\ tx' \subseteq Procs
           /\ pend' = [pend EXCEPT ![q] = None]
           /\ lock' \in [RoleIDs \cup BindingIDs -> Procs \cup {None}]
           /\ \A p \in Procs \ {q}, r \in RoleIDs : lock[r] = p => lock'[r] = p
BY DEF IInvV1, TypesV1, TypeOKV1, EndTx, Released

(* A step that answers: nothing is asked of q any more.                    *)
LEMMA ReturnGood ==
    ASSUME IInvV1, NEW q \in Procs,
           pc' = [pc EXCEPT ![q] = "returned"],
           ans' \in [Procs -> {"none", "ok", "error"}],
           EndTx(q) \/ UNCHANGED <<tx, pend, lock>>,
           UNCHANGED <<roleRow, born, issued, over, req, upd>>,
           TuplesGood(q)
    PROVE  Good(q)
<1>1. upd' = [upd EXCEPT ![q] = upd[q]]
      /\ upd[q] \in [add : SUBSET TuplesV1, del : SUBSET FiltersV1]
      /\ pend[q] \in [id : RoleIDs, val : Resources \cup {None}] \cup {None}
      /\ pc'[q] = "returned"
  BY DEF IInvV1, TypesV1, TypeOKV1
<1>2. CASE EndTx(q)
  <2>1. pend'[q] = None
    BY <1>2, EndTxV1 DEF IInvV1, TypesV1
  <2>2. Mine(q)'
    BY <1>1, <2>1 DEF Mine, OpAtV1
  <2> QED BY <1>1, <1>2, <2>2, EndTxV1, StepGood DEF LabelsV1
<1>3. CASE UNCHANGED <<tx, pend, lock>>
  <2>1. Mine(q)'
    BY <1>1, <1>3 DEF Mine, OpAtV1, IInvV1
  <2>2. pend' = [pend EXCEPT ![q] = pend[q]] /\ tx' \subseteq Procs
        /\ lock' \in [RoleIDs \cup BindingIDs -> Procs \cup {None}]
    BY <1>3 DEF IInvV1, TypesV1, TypeOKV1
  <2> QED BY <1>1, <1>3, <2>1, <2>2, StepGood DEF LabelsV1
<1> QED BY <1>2, <1>3

LEMMA RollbackAndFailGood ==
    ASSUME IInvV1, NEW q \in Procs, RollbackAndFail(q) PROVE Good(q)
<1>1. ans' \in [Procs -> {"none", "ok", "error"}]
  BY DEF RollbackAndFail, Return, IInvV1, TypesV1, TypeOKV1
<1> QED BY <1>1, TuplesKept, ReturnGood DEF RollbackAndFail, RollbackContext, Return, Goto

LEMMA FailOpenGood ==
    ASSUME IInvV1, NEW q \in Procs, FailOpen(q) PROVE Good(q)
<1>1. ans' \in [Procs -> {"none", "ok", "error"}]
  BY DEF FailOpen, Return, IInvV1, TypesV1, TypeOKV1
<1> QED BY <1>1, TuplesKept, ReturnGood DEF FailOpen, Return, Goto, dbVars

(* A step that only moves q on, having perhaps computed its updates.       *)
LEMMA MoveGood ==
    ASSUME IInvV1, NEW q \in Procs,
           NEW l \in LabelsV1, Goto(q, l),
           NEW u \in [add : SUBSET TuplesV1, del : SUBSET FiltersV1], upd' = [upd EXCEPT ![q] = u],
           UNCHANGED <<dbVars, issued, over, req, ans>>,
           TuplesGood(q), Mine(q)'
    PROVE  Good(q)
<1>1. /\ pend' = [pend EXCEPT ![q] = pend[q]] /\ tx' \subseteq Procs
      /\ pend[q] \in [id : RoleIDs, val : Resources \cup {None}] \cup {None}
      /\ lock' \in [RoleIDs \cup BindingIDs -> Procs \cup {None}]
      /\ ans' \in [Procs -> {"none", "ok", "error"}]
  BY DEF IInvV1, TypesV1, TypeOKV1, dbVars
<1> QED BY <1>1, StepGood DEF Goto, dbVars

-----------------------------------------------------------------------------
(* The steps, one by one.                                                  *)

(* what the invariant says of q itself                                     *)
LEMMA OwnFacts ==
    ASSUME IInvV1, NEW q \in Procs
    PROVE  /\ Mine(q)
           /\ req[q] \in RequestsV1 \cup {NoRequest}
           /\ req[q].op \in RoleOps \cup AssignOps => req[q].role \in RoleIDs
           /\ upd[q] \in [add : SUBSET TuplesV1, del : SUBSET FiltersV1]
           /\ upd' = upd => upd' = [upd EXCEPT ![q] = upd[q]]
           /\ pend[q] \in [id : RoleIDs, val : Resources \cup {None}] \cup {None}
           /\ \A l : Goto(q, l) => pc'[q] = l
           /\ \A u : upd' = [upd EXCEPT ![q] = u] => upd'[q] = u
BY FieldsV1 DEF IInvV1, TypesV1, TypeOKV1, Goto

LEMMA StartAtGood ==
    ASSUME IInvV1, NEW q \in Procs, NEW m \in RequestsV1, NEW l \in {"begin", "getResource"},
           StartAt(q, m, l), issued' \subseteq RoleIDs,
           l = "begin" => m.op = "CreateRole",
           l = "getResource" => m.op \in {"UpdateRole", "DeleteRole"} \cup AssignOps
    PROVE  Good(q)
<1>1. /\ pc' = [pc EXCEPT ![q] = l] /\ req' = [req EXCEPT ![q] = m]
      /\ UNCHANGED <<dbVars, tuples, over, upd, zed, ans>>
  BY DEF StartAt, Goto
<1>2. pc'[q] = l /\ req'[q] = m /\ pend'[q] = pend[q] /\ lock' = lock
  BY <1>1 DEF IInvV1, TypesV1, TypeOKV1, dbVars
<1>3. TypesV1' /\ BornV1'
  BY <1>1 DEF IInvV1, TypesV1, TypeOKV1, BornV1, DiscardedUnassigned, dbVars, LabelsV1
<1>4. Rely(q)
  BY <1>1 DEF IInvV1, TypesV1, TypeOKV1, Rely, dbVars
<1>5. Mine(q)'
  BY <1>2, OwnFacts DEF Mine, OpAtV1, RoleOps
<1> QED BY <1>3, <1>4, <1>5 DEF Good

LEMMA StartV1Good == ASSUME IInvV1, NEW q \in Procs, StartV1(q) PROVE Good(q)
<1>0. issued \subseteq RoleIDs
  BY DEF IInvV1, TypesV1, TypeOKV1
<1>1. ASSUME NEW r \in RoleIDs \ issued, NEW x \in Resources, NEW acts \in SUBSET Actions,
             StartAt(q, [op |-> "CreateRole", role |-> r, res |-> x, actions |-> acts], "begin"),
             issued' = issued \cup {r}
      PROVE  Good(q)
  <2> DEFINE m == [op |-> "CreateRole", role |-> r, res |-> x, actions |-> acts]
  <2>1. m \in RequestsV1 /\ m.op = "CreateRole"
    BY DEF RequestsV1
  <2> QED BY <1>0, <1>1, <2>1, StartAtGood
<1>2. ASSUME NEW r \in RoleIDs, NEW n \in BOOLEAN, NEW acts \in SUBSET Actions, UNCHANGED issued,
             StartAt(q, [op |-> "UpdateRole", role |-> r, rename |-> n, actions |-> acts],
                     "getResource")
      PROVE  Good(q)
  <2> DEFINE m == [op |-> "UpdateRole", role |-> r, rename |-> n, actions |-> acts]
  <2>1. m \in RequestsV1 /\ m.op = "UpdateRole"
    BY DEF RequestsV1
  <2> QED BY <1>0, <1>2, <2>1, StartAtGood
<1>3. ASSUME NEW r \in RoleIDs, UNCHANGED issued,
             StartAt(q, [op |-> "DeleteRole", role |-> r], "getResource")
      PROVE  Good(q)
  <2> DEFINE m == [op |-> "DeleteRole", role |-> r]
  <2>1. m \in RequestsV1 /\ m.op = "DeleteRole"
    BY DEF RequestsV1
  <2> QED BY <1>0, <1>3, <2>1, StartAtGood
<1>4. ASSUME NEW o \in AssignOps, NEW r \in RoleIDs, NEW s \in Subjects, UNCHANGED issued,
             StartAt(q, [op |-> o, role |-> r, sub |-> s], "getResource")
      PROVE  Good(q)
  <2> DEFINE m == [op |-> o, role |-> r, sub |-> s]
  <2>1. m \in RequestsV1 /\ m.op \in AssignOps
    BY DEF RequestsV1
  <2> QED BY <1>0, <1>4, <2>1, StartAtGood
<1> QED BY <1>1, <1>2, <1>3, <1>4 DEF StartV1

LEMMA GetRoleResourceGood == ASSUME IInvV1, NEW q \in Procs, GetRoleResource(q) PROVE Good(q)
<1>1. ASSUME NEW l \in {"assign", "unassign", "begin"}, Goto(q, l),
             roleRow[req[q].role] # None, pc[q] = "getResource",
             l = "assign" <=> req[q].op = "Assign", l = "unassign" <=> req[q].op = "Unassign",
             UNCHANGED <<dbVars, issued, tuples, over, req, upd, zed, ans>>
      PROVE  Good(q)
  <2>1. /\ req[q].op \in {"UpdateRole", "DeleteRole"} \cup AssignOps
        /\ req[q].role \in RoleIDs
    BY <1>1, OwnFacts DEF Mine, OpAtV1, RoleOps, AssignOps
  <2>2. req[q].role \in born
    BY <1>1, <2>1 DEF IInvV1, BornV1
  <2>3. Mine(q)'
    BY <1>1, <2>1, <2>2, OwnFacts DEF Mine, OpAtV1, RoleOps, AssignOps, dbVars
  <2>4. TuplesGood(q)
    BY <1>1, TuplesKept DEF dbVars
  <2> QED BY <1>1, <2>3, <2>4, OwnFacts, MoveGood DEF LabelsV1
<1>2. PICK l \in {"assign", "unassign", "begin"} :
        /\ l = CASE req[q].op = "Assign"   -> "assign"
                 [] req[q].op = "Unassign" -> "unassign"
                 [] OTHER                  -> "begin"
        /\ l = "assign" <=> req[q].op = "Assign"
        /\ l = "unassign" <=> req[q].op = "Unassign"
  BY SMT
<1> QED BY <1>1, <1>2, FailOpenGood DEF GetRoleResource, RoleFound

LEMMA BeginV1Good == ASSUME IInvV1, NEW q \in Procs, BeginV1(q) PROVE Good(q)
<1>1. PICK l \in {"insertRole", "lockRole", "readRole"} :
        /\ Begin(q, l)
        /\ l = "insertRole" <=> req[q].op = "CreateRole"
        /\ l = "lockRole" <=> req[q].op = "UpdateRole"
  BY SMT DEF BeginV1
<1>2. req[q].op \in RoleOps /\ pc[q] = "begin"
  BY <1>1, OwnFacts DEF Begin, Mine, OpAtV1
<1>3. CASE tx' = tx \cup {q} /\ Goto(q, l) /\ UNCHANGED ans
  <2>1. /\ UNCHANGED <<roleRow, born, pend, lock, issued, tuples, over, req, upd>>
        /\ pend' = [pend EXCEPT ![q] = pend[q]] /\ tx' \subseteq Procs
        /\ lock' \in [RoleIDs \cup BindingIDs -> Procs \cup {None}]
        /\ ans' \in [Procs -> {"none", "ok", "error"}]
    BY <1>1, <1>3 DEF Begin, IInvV1, TypesV1, TypeOKV1
  <2>2. Mine(q)'
    <3>1. pc'[q] = l /\ req'[q] = req[q] /\ pend'[q] = pend[q] /\ lock' = lock
      BY <1>3, <2>1, OwnFacts
    <3>2. OpAtV1(q)'
      BY <1>1, <1>2, <3>1 DEF OpAtV1, RoleOps
    <3>3. pend[q] # None => lock[pend[q].id] = q
      BY OwnFacts DEF Mine
    <3> QED BY <3>1, <3>2, <3>3 DEF Mine
  <2> QED BY <1>1, <1>3, <2>1, <2>2, OwnFacts, TuplesKept, StepGood DEF LabelsV1, Goto
<1>4. CASE /\ Return(q, IF req[q].op \in {"CreateRole", "CreateBinding"} THEN "ok" ELSE "error")
           /\ UNCHANGED tx
  <2>1. ans' \in [Procs -> {"none", "ok", "error"}]
    BY <1>4 DEF Return, IInvV1, TypesV1, TypeOKV1
  <2> QED BY <1>1, <1>4, <2>1, TuplesKept, ReturnGood DEF Begin, Return, Goto
<1> QED BY <1>1, <1>3, <1>4 DEF Begin

LEMMA ReadRoleGood == ASSUME IInvV1, NEW q \in Procs, ReadRole(q) PROVE Good(q)
<1>1. CASE /\ Goto(q, "lockRole")
           /\ UNCHANGED <<dbVars, issued, tuples, over, req, upd, zed, ans>>
  <2>1. Mine(q)'
    BY <1>1, OwnFacts DEF ReadRole, Mine, OpAtV1, dbVars
  <2>2. TuplesGood(q)
    BY <1>1, TuplesKept DEF dbVars
  <2> QED BY <1>1, <2>1, <2>2, OwnFacts, MoveGood DEF LabelsV1
<1> QED BY <1>1, FailOpenGood DEF ReadRole

LEMMA LockRoleGood == ASSUME IInvV1, NEW q \in Procs, LockRole(q) PROVE Good(q)
<1> DEFINE r == req[q].role
           l == IF req[q].op = "UpdateRole" THEN "getRole" ELSE "listActions"
<1>1. CASE /\ lock[r] = None /\ roleRow[r] # None
           /\ lock' = [lock EXCEPT ![r] = q]
           /\ Goto(q, l)
           /\ UNCHANGED <<roleRow, rbRow, born, tx, pend, zlock, issued, tuples, over, req, upd,
                          zed, ans>>
  <2>1. req[q].op \in {"UpdateRole", "DeleteRole"} /\ r \in RoleIDs
    BY OwnFacts DEF LockRole, Mine, OpAtV1, RoleOps
  <2>2. /\ pend' = [pend EXCEPT ![q] = pend[q]] /\ tx' \subseteq Procs
        /\ lock' \in [RoleIDs \cup BindingIDs -> Procs \cup {None}]
        /\ ans' \in [Procs -> {"none", "ok", "error"}]
        /\ lock'[r] = q /\ roleRow[r] \in Resources
        /\ \A id \in RoleIDs : lock[id] = q => lock'[id] = q
        /\ \A p \in Procs \ {q}, id \in RoleIDs : lock[id] = p => lock'[id] = p
    BY <1>1, <2>1, StoreAssumption DEF IInvV1, TypesV1, TypeOKV1
  <2>3. Mine(q)'
    <3>1. /\ \/ pc'[q] = "getRole" /\ req[q].op = "UpdateRole"
             \/ pc'[q] = "listActions" /\ req[q].op = "DeleteRole"
          /\ req'[q] = req[q] /\ upd'[q] = upd[q] /\ pend'[q] = pend[q]
      BY <1>1, <2>1, OwnFacts
    <3>2. pend'[q] # None => lock'[pend'[q].id] = q
      <4>1. pend[q] # None => pend[q].id \in RoleIDs /\ lock[pend[q].id] = q
        BY OwnFacts DEF Mine
      <4> QED BY <2>2, <3>1, <4>1
    <3>3. Holds(q)'
      BY <1>1, <2>2, <3>1 DEF Holds
    <3> QED BY <3>1, <3>2, <3>3 DEF Mine, OpAtV1
  <2> QED BY <1>1, <2>2, <2>3, OwnFacts, TuplesKept, StepGood DEF LabelsV1, Goto
<1> QED BY <1>1, RollbackAndFailGood DEF LockRole, LockForUpdate

(* WriteRow takes the row and remembers what to write there.               *)
RowTaken(q, r, w, l) ==
    /\ w \in [id : RoleIDs, val : Resources \cup {None}] /\ w.id = r
    /\ pend' = [pend EXCEPT ![q] = w] /\ pend'[q] = w /\ lock'[r] = q
    /\ Goto(q, l)
    /\ tx' \subseteq Procs /\ ans' \in [Procs -> {"none", "ok", "error"}]
    /\ lock' \in [RoleIDs \cup BindingIDs -> Procs \cup {None}]
    /\ \A p \in Procs \ {q}, id \in RoleIDs : lock[id] = p => lock'[id] = p
    /\ UNCHANGED <<roleRow, born, issued, over, req>>

LEMMA WriteRowFacts ==
    ASSUME IInvV1, NEW q \in Procs, NEW r \in RoleIDs, NEW v \in Resources \cup {None}, NEW l,
           WriteRow(q, Write(r, v), l)
    PROVE  RowTaken(q, r, Write(r, v), l)
BY StoreAssumption DEF WriteRow, Write, Up, IInvV1, TypesV1, TypeOKV1, RowTaken

LEMMA RowTakenGood ==
    ASSUME IInvV1, NEW q \in Procs, NEW r \in RoleIDs, NEW w, NEW l \in LabelsV1,
           RowTaken(q, r, w, l),
           NEW u \in [add : SUBSET TuplesV1, del : SUBSET FiltersV1], upd' = [upd EXCEPT ![q] = u],
           UNCHANGED tuples, Mine(q)'
    PROVE  Good(q)
<1>1. TuplesGood(q)
  BY TuplesKept DEF RowTaken
<1>2. /\ w \in [id : RoleIDs, val : Resources \cup {None}] \cup {None}
      /\ pend' = [pend EXCEPT ![q] = w] /\ pc' = [pc EXCEPT ![q] = l]
      /\ ans' \in [Procs -> {"none", "ok", "error"}] /\ tx' \subseteq Procs
      /\ lock' \in [RoleIDs \cup BindingIDs -> Procs \cup {None}]
      /\ \A p \in Procs \ {q}, id \in RoleIDs : lock[id] = p => lock'[id] = p
      /\ UNCHANGED <<roleRow, born, issued, over, req>>
  BY DEF RowTaken, Goto
<1> QED BY <1>1, <1>2, StepGood

LEMMA InsertRoleGood == ASSUME IInvV1, NEW q \in Procs, InsertRole(q) PROVE Good(q)
<1> DEFINE r == req[q].role
           x == req[q].res
           u == Update(Granted(x, r, req[q].actions), {})
<1>1. CASE WriteRow(q, Write(r, x), "writeRole") /\ upd' = [upd EXCEPT ![q] = u] /\ UNCHANGED tuples
  <2>1. /\ req[q].op = "CreateRole" /\ r \in RoleIDs /\ x \in Resources
        /\ req[q].actions \in SUBSET Actions
    BY OwnFacts, FieldsV1 DEF InsertRole, Mine, OpAtV1, RoleOps
  <2>2. u \in [add : SUBSET TuplesV1, del : SUBSET FiltersV1]
    BY <2>1, GrantedTypes DEF Update
  <2>3. RowTaken(q, r, Write(r, x), "writeRole")
    BY <1>1, <2>1, WriteRowFacts
  <2>4. Mine(q)'
    <3>1. pc'[q] = "writeRole" /\ upd'[q] = u /\ req'[q] = req[q]
      BY <1>1, <2>3, OwnFacts DEF RowTaken
    <3> QED BY <2>1, <2>3, <3>1 DEF Mine, OpAtV1, RowTaken
  <2> QED BY <1>1, <2>1, <2>2, <2>3, <2>4, RowTakenGood DEF LabelsV1
<1> QED BY <1>1, FailOpenGood DEF InsertRole

LEMMA GetRoleGood == ASSUME IInvV1, NEW q \in Procs, GetRole(q) PROVE Good(q)
<1> DEFINE r == req[q].role
           u == RoleDiffV1(roleRow[r], r, req[q].actions)
<1>1. CASE /\ Return(q, "ok")
           /\ UNCHANGED <<dbVars, issued, tuples, over, req, upd, zed>>
  <2>1. ans' \in [Procs -> {"none", "ok", "error"}]
    BY <1>1 DEF Return, IInvV1, TypesV1, TypeOKV1
  <2> QED BY <1>1, <2>1, TuplesKept, ReturnGood DEF Return, Goto, dbVars
<1>2. CASE /\ Up(q) /\ Goto(q, "updateRole") /\ upd' = [upd EXCEPT ![q] = u]
           /\ UNCHANGED <<dbVars, issued, tuples, over, req, zed, ans>>
  <2>1. req[q].op = "UpdateRole" /\ r \in RoleIDs /\ req[q].actions \in SUBSET Actions
    BY OwnFacts, FieldsV1 DEF GetRole, Mine, OpAtV1, RoleOps
  <2>2. Holds(q)
    BY <1>2, OwnFacts DEF GetRole, Mine, Up
  <2>3. u \in [add : SUBSET TuplesV1, del : SUBSET FiltersV1]
    BY <2>1, <2>2, DiffTypes DEF Holds, IInvV1, TypesV1, TypeOKV1
  <2>4. Mine(q)'
    <3>1. /\ pc'[q] = "updateRole" /\ upd'[q] = u /\ req' = req /\ pend' = pend /\ lock' = lock
          /\ roleRow' = roleRow /\ tuples' = tuples
      BY <1>2, OwnFacts DEF dbVars
    <3>2. Current(q)' /\ Holds(q)'
      BY <2>2, <3>1 DEF Current, Holds, RoleDiffV1, ActionsOn, Granted, Update, OnOwner, NoUpdate
    <3> QED BY <2>1, <3>1, <3>2, OwnFacts DEF Mine, OpAtV1
  <2>5. TuplesGood(q)
    BY <1>2, TuplesKept DEF dbVars
  <2> QED BY <1>2, <2>3, <2>4, <2>5, MoveGood DEF LabelsV1
<1> QED BY <1>1, <1>2, RollbackAndFailGood DEF GetRole

LEMMA UpdateRoleRowGood == ASSUME IInvV1, NEW q \in Procs, UpdateRoleRow(q) PROVE Good(q)
<1> DEFINE r == req[q].role
           x == roleRow[r]
           l == IF upd[q] = NoUpdate THEN "commit" ELSE "writeRole"
<1>1. CASE WriteRow(q, Write(r, x), l) /\ UNCHANGED <<tuples, upd>>
  <2>1. req[q].op = "UpdateRole" /\ r \in RoleIDs /\ req[q].actions \in SUBSET Actions
    BY OwnFacts, FieldsV1 DEF UpdateRoleRow, Mine, OpAtV1, RoleOps
  <2>2. Holds(q) /\ Current(q) /\ x \in Resources
    BY <1>1, OwnFacts DEF UpdateRoleRow, Mine, WriteRow, Up, Holds
  <2>3. RowTaken(q, r, Write(r, x), l)
    BY <1>1, <2>1, <2>2, WriteRowFacts
  <2>4. Mine(q)'
    <3>1. pc'[q] = l /\ upd'[q] = upd[q] /\ req' = req /\ roleRow' = roleRow /\ tuples' = tuples
      BY <1>1, <2>3, OwnFacts DEF RowTaken
    <3>2. Current(q)' /\ Holds(q)'
      <4>1. RoleDiffV1(roleRow[req[q].role], req[q].role, req[q].actions)'
              = RoleDiffV1(roleRow[req[q].role], req[q].role, req[q].actions)
        BY <3>1 DEF RoleDiffV1, ActionsOn
      <4>2. Current(q)'
        BY <2>2, <3>1, <4>1 DEF Current
      <4> QED BY <2>2, <2>3, <3>1, <4>2 DEF Holds, RowTaken
    <3>3. (upd[q] = NoUpdate /\ req[q].actions # {} => ActionsOn(x, r) = req[q].actions)
      <4>1. upd[q] = RoleDiffV1(x, r, req[q].actions) /\ tuples \subseteq TuplesV1
        BY <2>2 DEF Current, IInvV1, TypesV1, TypeOKV1
      <4>2. r \in RoleIDs /\ x \in Resources /\ req[q].actions \in SUBSET Actions
        BY <2>1, <2>2
      <4> HIDE DEF x, r
      <4>3. ASSUME upd[q] = NoUpdate, req[q].actions # {}
            PROVE  ActionsOn(x, r) = req[q].actions
        <5>1. RoleDiffV1(x, r, req[q].actions) = NoUpdate
          BY <4>1, <4>3
        <5> QED BY <4>1, <4>2, <4>3, <5>1, NoDiff, Zenon
      <4> QED BY <4>3
    <3>4. ActionsOn(roleRow[req[q].role], req[q].role)' = ActionsOn(x, r)
      BY <3>1 DEF ActionsOn
    <3>5. l \in {"commit", "writeRole"} /\ (l = "commit" => upd[q] = NoUpdate)
      OBVIOUS
    <3> QED BY <2>1, <2>3, <3>1, <3>2, <3>3, <3>4, <3>5 DEF Mine, OpAtV1, RoleOps, RowTaken
  <2>5. l \in LabelsV1 /\ upd' = [upd EXCEPT ![q] = upd[q]]
        /\ upd[q] \in [add : SUBSET TuplesV1, del : SUBSET FiltersV1]
    BY <1>1, OwnFacts DEF LabelsV1
  <2> HIDE DEF l
  <2> QED BY <1>1, <2>1, <2>3, <2>4, <2>5, RowTakenGood
<1> QED BY <1>1, RollbackAndFailGood DEF UpdateRoleRow

(* What is written on an owner of a role concerns that role alone, and     *)
(* assigns it to nobody.                                                   *)
LEMMA GrantsGood ==
    ASSUME IInvV1, NEW q \in Procs, NEW r \in RoleIDs, lock[r] = q, NEW x \in Resources,
           NEW A \in SUBSET Actions, NEW D \in SUBSET Actions,
           tuples' = (tuples \ Granted(x, r, D)) \cup Granted(x, r, A), UNCHANGED born
    PROVE  TuplesGood(q)
<1>1. tuples' \subseteq TuplesV1
  BY GrantedTypes DEF IInvV1, TypesV1, TypeOKV1
<1>2. DiscardedUnassigned'
  <2>1. \A i \in RoleIDs, s \in Subjects : Assignment(i, s) \notin Granted(x, r, A)
    BY DEF Granted, OnOwner, Assignment, actionToRelation, Name
  <2> QED BY <2>1 DEF DiscardedUnassigned, IInvV1, BornV1
<1>3. ASSUME NEW y \in Resources, NEW i \in RoleIDs, NEW a \in Actions, i # r
      PROVE  OnOwner(y, actionToRelation(a), i) \in tuples'
             <=> OnOwner(y, actionToRelation(a), i) \in tuples
  <2>1. OnOwner(y, actionToRelation(a), i) \notin Granted(x, r, A) \cup Granted(x, r, D)
    BY <1>3 DEF Granted, OnOwner
  <2> QED BY <2>1
<1> QED BY <1>1, <1>2, <1>3 DEF TuplesGood

LEMMA WriteRoleGood == ASSUME IInvV1, NEW q \in Procs, WriteRole(q) PROVE Good(q)
<1> DEFINE r == req[q].role
<1>0. Up(q) /\ req[q].op = "UpdateRole" => Holds(q) /\ Current(q)
  <2>1. Mine(q) /\ pc[q] = "writeRole"
    BY OwnFacts DEF WriteRole
  <2> QED BY <2>1 DEF Mine, Up
<1>1. ASSUME Up(q), tuples' = (tuples \ upd[q].del) \cup upd[q].add, UNCHANGED born
      PROVE  TuplesGood(q)
  <2>1. /\ req[q].op \in {"CreateRole", "UpdateRole"} /\ r \in RoleIDs
        /\ req[q].actions \in SUBSET Actions
        /\ req[q].op = "CreateRole" => req[q].res \in Resources
    BY OwnFacts, FieldsV1 DEF WriteRole, Mine, OpAtV1, RoleOps
  <2>2. CASE req[q].op = "CreateRole"
    <3>1. lock[r] = q /\ upd[q] = Update(Granted(req[q].res, r, req[q].actions), {})
      BY <1>1, <2>2, OwnFacts DEF WriteRole, Mine, Up
    <3>2. upd[q].add = Granted(req[q].res, r, req[q].actions) /\ upd[q].del = Granted(req[q].res, r, {})
      BY <3>1 DEF Update, Granted
    <3> QED BY <1>1, <2>1, <2>2, <3>1, <3>2, GrantsGood
  <2>3. CASE req[q].op = "UpdateRole"
    <3>1. PICK x \in Resources : x = roleRow[r] /\ lock[r] = q /\ upd[q] = RoleDiffV1(x, r, req[q].actions)
      BY <1>0, <1>1, <2>3 DEF Holds, Current
    <3>2. PICK A \in SUBSET Actions, D \in SUBSET Actions :
              upd[q].add = Granted(x, r, A) /\ upd[q].del = Granted(x, r, D)
      <4>1. CASE req[q].actions = {}
        <5>1. upd[q].add = Granted(x, r, {}) /\ upd[q].del = Granted(x, r, {})
          BY <3>1, <4>1 DEF RoleDiffV1, NoUpdate, Update, Granted
        <5> QED BY <5>1
      <4>2. CASE req[q].actions # {}
        <5>1. ActionsOn(x, r) \subseteq Actions
          BY <2>1, ActionsOnAre DEF IInvV1, TypesV1, TypeOKV1
        <5>2. /\ upd[q].add = Granted(x, r, req[q].actions \ ActionsOn(x, r))
              /\ upd[q].del = Granted(x, r, ActionsOn(x, r) \ req[q].actions)
          BY <3>1, <4>2 DEF RoleDiffV1, Update
        <5>3. req[q].actions \ ActionsOn(x, r) \in SUBSET Actions
              /\ ActionsOn(x, r) \ req[q].actions \in SUBSET Actions
          BY <2>1, <5>1
        <5> QED BY <5>2, <5>3
      <4> QED BY <4>1, <4>2
    <3> QED BY <1>1, <2>1, <3>1, <3>2, GrantsGood
  <2> QED BY <2>1, <2>2, <2>3
<1>2. CASE /\ Up(q) /\ tuples' = (tuples \ upd[q].del) \cup upd[q].add
           /\ Goto(q, "commit")
           /\ UNCHANGED <<dbVars, issued, over, req, upd, zed, ans>>
  <2>1. TuplesGood(q)
    BY <1>1, <1>2 DEF dbVars
  <2>2. /\ req[q].op \in {"CreateRole", "UpdateRole"} /\ r \in RoleIDs
        /\ req[q].actions \in SUBSET Actions
    BY OwnFacts, FieldsV1 DEF WriteRole, Mine, OpAtV1, RoleOps
  <2>3. /\ pc'[q] = "commit" /\ req' = req /\ roleRow' = roleRow /\ lock' = lock /\ pend' = pend
        /\ over' = over /\ upd' = [upd EXCEPT ![q] = upd[q]]
    BY <1>2, OwnFacts DEF dbVars
  <2>4. ASSUME req[q].op = "UpdateRole"
        PROVE  /\ Holds(q)'
               /\ req[q].actions # {} => ActionsOn(roleRow[r], r)' = req[q].actions
    <3>1. PICK x \in Resources : x = roleRow[r] /\ lock[r] = q /\ upd[q] = RoleDiffV1(x, r, req[q].actions)
      BY <1>0, <1>2, <2>4 DEF Holds, Current
    <3>2. Holds(q)'
      BY <2>3, <3>1 DEF Holds
    <3>3. tuples \subseteq TuplesV1 /\ tuples' \subseteq TuplesV1
      BY <2>1 DEF IInvV1, TypesV1, TypeOKV1, TuplesGood
    <3>4. (tuples \subseteq TuplesV1)'
      BY <3>3 DEF TuplesV1
    <3>5. req[q].actions # {} => ActionsOn(x, r)' = req[q].actions
      BY <1>2, <2>2, <3>1, <3>3, <3>4, DiffWritten
    <3>6. ActionsOn(roleRow[r], r)' = ActionsOn(x, r)'
      BY <2>3, <3>1 DEF ActionsOn
    <3> QED BY <3>2, <3>5, <3>6
  <2>5. Mine(q)'
    BY <2>2, <2>3, <2>4, OwnFacts DEF Mine, OpAtV1, RoleOps
  <2> QED BY <1>2, <2>1, <2>3, <2>5, OwnFacts, MoveGood DEF LabelsV1
<1>3. CASE /\ Up(q) /\ tuples' = (tuples \ upd[q].del) \cup upd[q].add
           /\ RollbackContext(q) /\ Return(q, "error")
           /\ UNCHANGED <<issued, over, req, upd, zed>>
  <2>1. TuplesGood(q)
    BY <1>1, <1>3 DEF RollbackContext
  <2>2. ans' \in [Procs -> {"none", "ok", "error"}]
    BY <1>3 DEF Return, IInvV1, TypesV1, TypeOKV1
  <2> QED BY <1>3, <2>1, <2>2, ReturnGood DEF RollbackContext, Return, Goto
<1> QED BY <1>2, <1>3, RollbackAndFailGood DEF WriteRole

LEMMA ListActionsGood == ASSUME IInvV1, NEW q \in Procs, ListActions(q) PROVE Good(q)
<1> DEFINE r == req[q].role
           x == roleRow[r]
           D == {OnOwner(x, Name(a), r) : a \in ActionsOn(x, r)}
<1>1. CASE /\ Up(q) /\ upd' = [upd EXCEPT ![q] = Update({}, D)] /\ Goto(q, "deleteRole")
           /\ UNCHANGED <<dbVars, issued, tuples, over, req, zed, ans>>
  <2>1. req[q].op = "DeleteRole" /\ r \in RoleIDs
    BY OwnFacts DEF ListActions, Mine, OpAtV1, RoleOps
  <2>2. Holds(q) /\ x \in Resources
    BY <1>1, OwnFacts DEF ListActions, Mine, Up, Holds
  <2>3. ActionsOn(x, r) \subseteq Actions
    BY <2>1, <2>2, ActionsOnAre DEF IInvV1, TypesV1, TypeOKV1
  <2>4. /\ Update({}, D) \in [add : SUBSET TuplesV1, del : SUBSET FiltersV1]
        /\ Update({}, D).del = D
        /\ \A f \in D : f.rel.suffix = ""
    <3>1. \A a \in Actions : OnOwner(x, Name(a), r) \in FiltersV1 /\ OnOwner(x, Name(a), r).rel.suffix = ""
      BY <2>1, <2>2 DEF FiltersV1, OnOwner, Name
    <3>2. D \subseteq FiltersV1 /\ \A f \in D : f.rel.suffix = ""
      BY <2>3, <3>1
    <3> HIDE DEF D
    <3> QED BY <3>2 DEF Update
  <2>5. Mine(q)'
    <3>1. /\ pc'[q] = "deleteRole" /\ req' = req /\ roleRow' = roleRow /\ lock' = lock
          /\ pend' = pend /\ upd'[q].del = D
      <4>1. upd'[q] = Update({}, D)
        BY <1>1, OwnFacts
      <4> QED BY <1>1, <2>4, <4>1, OwnFacts DEF dbVars
    <3>2. Holds(q)'
      BY <2>2, <3>1 DEF Holds
    <3> QED BY <2>1, <2>4, <3>1, <3>2, OwnFacts DEF Mine, OpAtV1
  <2>6. TuplesGood(q)
    BY <1>1, TuplesKept DEF dbVars
  <2> QED BY <1>1, <2>4, <2>5, <2>6, MoveGood DEF LabelsV1
<1> QED BY <1>1, RollbackAndFailGood DEF ListActions

LEMMA DeleteRoleRowGood == ASSUME IInvV1, NEW q \in Procs, DeleteRoleRow(q) PROVE Good(q)
<1> DEFINE r == req[q].role
<1>1. CASE WriteRow(q, Write(r, None), "unlink") /\ UNCHANGED <<tuples, upd>>
  <2>1. req[q].op = "DeleteRole" /\ r \in RoleIDs
    BY OwnFacts DEF DeleteRoleRow, Mine, OpAtV1, RoleOps
  <2>2. RowTaken(q, r, Write(r, None), "unlink")
    BY <1>1, <2>1, WriteRowFacts
  <2>3. Mine(q)'
    <3>1. pc'[q] = "unlink" /\ upd'[q] = upd[q] /\ req'[q] = req[q]
      BY <1>1, <2>2, OwnFacts DEF RowTaken
    <3>2. \A f \in upd'[q].del : f.rel.suffix = ""
      BY <3>1, OwnFacts DEF DeleteRoleRow, Mine
    <3> QED BY <2>1, <2>2, <3>1, <3>2 DEF Mine, OpAtV1, RowTaken
  <2>4. upd' = [upd EXCEPT ![q] = upd[q]] /\ upd[q] \in [add : SUBSET TuplesV1, del : SUBSET FiltersV1]
    BY <1>1, OwnFacts
  <2> QED BY <1>1, <2>1, <2>2, <2>3, <2>4, RowTakenGood DEF LabelsV1
<1> QED BY <1>1, RollbackAndFailGood DEF DeleteRoleRow

LEMMA UnlinkGood == ASSUME IInvV1, NEW q \in Procs, Unlink(q) PROVE Good(q)
<1>0. pc[q] = "unlink" /\ req[q].op = "DeleteRole" /\ \A f \in upd[q].del : f.rel.suffix = ""
  BY OwnFacts DEF Unlink, Mine, OpAtV1
<1>1. ASSUME NEW f \in upd[q].del, tuples' = tuples \ {f},
             upd' = [upd EXCEPT ![q].del = @ \ {f}],
             UNCHANGED <<dbVars, issued, over, pc, req, zed, ans>>
      PROVE  Good(q)
  <2> DEFINE u == [add |-> upd[q].add, del |-> upd[q].del \ {f}]
  <2>1. u \in [add : SUBSET TuplesV1, del : SUBSET FiltersV1] /\ upd' = [upd EXCEPT ![q] = u]
    BY <1>1, OwnFacts DEF IInvV1, TypesV1
  <2>2. Goto(q, "unlink") /\ pend' = pend /\ lock' = lock
    BY <1>0, <1>1 DEF Goto, IInvV1, TypesV1, TypeOKV1, dbVars
  <2>3. TuplesGood(q)
    <3>1. tuples' \subseteq TuplesV1 /\ DiscardedUnassigned'
      BY <1>1 DEF IInvV1, TypesV1, TypeOKV1, BornV1, DiscardedUnassigned, dbVars
    <3>2. \A y \in Resources, r \in RoleIDs, a \in Actions : OnOwner(y, actionToRelation(a), r) # f
      <4>1. f.rel.suffix = ""
        BY <1>0
      <4>2. \A y \in Resources, r \in RoleIDs, a \in Actions :
                OnOwner(y, actionToRelation(a), r).rel.suffix = "_rel"
        BY DEF OnOwner, actionToRelation
      <4> QED BY <4>1, <4>2
    <3> QED BY <1>1, <3>1, <3>2 DEF TuplesGood
  <2>4. Mine(q)'
    <3>1. /\ pc'[q] = "unlink" /\ req' = req
          /\ \A g \in upd'[q].del : g.rel.suffix = ""
      <4>1. upd'[q] = u
        BY <2>1, OwnFacts
      <4>2. u.del \subseteq upd[q].del
        OBVIOUS
      <4> HIDE DEF u
      <4> QED BY <1>0, <1>1, <4>1, <4>2
    <3> QED BY <1>0, <2>2, <3>1, OwnFacts DEF Mine, OpAtV1
  <2> QED BY <1>1, <2>1, <2>2, <2>3, <2>4, MoveGood DEF LabelsV1
<1>2. CASE /\ Goto(q, "commit")
           /\ UNCHANGED <<dbVars, issued, tuples, over, req, upd, zed, ans>>
  <2>1. pc'[q] = "commit" /\ upd' = upd /\ req' = req /\ pend' = pend /\ lock' = lock
    BY <1>2, OwnFacts DEF dbVars
  <2>2. Mine(q)'
    BY <1>0, <2>1, OwnFacts DEF Mine, OpAtV1, RoleOps
  <2>3. TuplesGood(q)
    BY <1>2, TuplesKept DEF dbVars
  <2> QED BY <1>2, <2>2, <2>3, OwnFacts, MoveGood DEF LabelsV1
<1> QED BY <1>1, <1>2, RollbackAndFailGood DEF Unlink

LEMMA CommitContextGood ==
    ASSUME IInvV1, NEW q \in Procs, CommitContext(q), NEW a \in {"ok", "error"}, Return(q, a),
           UNCHANGED <<issued, tuples, over, req, upd, zed>>
    PROVE  Good(q)
<1>1. /\ pend' = [pend EXCEPT ![q] = None] /\ pend'[q] = None
      /\ tx' \subseteq Procs
      /\ lock' \in [RoleIDs \cup BindingIDs -> Procs \cup {None}]
      /\ \A p \in Procs \ {q}, r \in RoleIDs : lock[r] = p => lock'[r] = p
  BY EndTxV1 DEF CommitContext, IInvV1, TypesV1
<1>2. /\ roleRow' \in [RoleIDs -> Resources \cup {None}]
      /\ born \subseteq born' /\ born' \subseteq RoleIDs \cup BindingIDs
      /\ \A r \in RoleIDs : /\ roleRow'[r] # roleRow[r] => lock[r] = q
                            /\ roleRow'[r] # None => r \in born'
  <2>1. CASE pend[q] = None
    BY <2>1 DEF CommitContext, ApplyWrite, IInvV1, BornV1, TypesV1, TypeOKV1
  <2>2. CASE pend[q] # None
    <3>1. PICK r \in RoleIDs, v \in Resources \cup {None} :
            /\ pend[q].id = r /\ pend[q].val = v /\ lock[r] = q
      BY <2>2, OwnFacts DEF Mine
    <3>2. /\ roleRow' = [roleRow EXCEPT ![r] = v]
          /\ born' = IF v # None THEN born \cup {r} ELSE born
      BY <2>2, <3>1 DEF CommitContext, ApplyWrite
    <3> QED BY <3>1, <3>2 DEF IInvV1, BornV1, TypesV1, TypeOKV1
  <2> QED BY <2>1, <2>2
<1>3. TypesV1'
  <2>1. /\ pend' \in [Procs -> [id : RoleIDs, val : Resources \cup {None}] \cup {None}]
        /\ pend' \in [Procs -> Writes \cup {None}]
    BY <1>1 DEF IInvV1, TypesV1, TypeOKV1
  <2>2. pc' \in [Procs -> LabelsV1] /\ ans' \in [Procs -> {"none", "ok", "error"}]
    BY DEF Return, Goto, LabelsV1, IInvV1, TypesV1, TypeOKV1
  <2> QED BY <1>1, <1>2, <2>1, <2>2 DEF IInvV1, TypesV1, TypeOKV1
<1>4. BornV1'
  BY <1>2 DEF IInvV1, BornV1, DiscardedUnassigned
<1>5. Rely(q)
  BY <1>1, <1>2 DEF Rely, Return, Goto, IInvV1, TypesV1, TypeOKV1
<1>6. Mine(q)'
  <2>1. pc'[q] = "returned"
    BY OwnFacts DEF Return
  <2> QED BY <1>1, <2>1 DEF Mine, OpAtV1
<1> QED BY <1>3, <1>4, <1>5, <1>6 DEF Good

LEMMA CommitRoleGood == ASSUME IInvV1, NEW q \in Procs, CommitRole(q) PROVE Good(q)
BY CommitContextGood, RollbackAndFailGood DEF CommitRole

LEMMA AssignSubjectRoleGood ==
    ASSUME IInvV1, NEW q \in Procs, AssignSubjectRole(q) PROVE Good(q)
<1> DEFINE r == req[q].role
           t == Assignment(r, req[q].sub)
<1>1. r \in RoleIDs /\ req[q].sub \in Subjects /\ r \in born
  BY OwnFacts, FieldsV1 DEF AssignSubjectRole, Mine, OpAtV1, AssignOps
<1>2. tuples' = tuples \/ tuples' = tuples \cup {t}
  BY DEF AssignSubjectRole
<1>3. t \in TuplesV1
  BY <1>1 DEF Assignment, TuplesV1, Name
<1>4. tuples' \subseteq TuplesV1 /\ born' = born
  BY <1>2, <1>3 DEF AssignSubjectRole, IInvV1, TypesV1, TypeOKV1, dbVars
<1>5. DiscardedUnassigned'
  <2>1. ASSUME NEW i \in RoleIDs, NEW s \in Subjects, Assignment(i, s) = t PROVE i = r
    BY <2>1 DEF Assignment
  <2> QED BY <1>1, <1>2, <1>4, <2>1 DEF DiscardedUnassigned, IInvV1, BornV1
<1>6. \A x \in Resources, i \in RoleIDs, a \in Actions : OnOwner(x, actionToRelation(a), i) # t
  BY DEF OnOwner, Assignment, actionToRelation, Name
<1>7. TuplesGood(q)
  BY <1>2, <1>4, <1>5, <1>6 DEF TuplesGood
<1>8. \E a \in {"ok", "error"} : Return(q, a)
  BY DEF AssignSubjectRole
<1>9. ans' \in [Procs -> {"none", "ok", "error"}]
  BY <1>8 DEF Return, IInvV1, TypesV1, TypeOKV1
<1> QED BY <1>7, <1>8, <1>9, ReturnGood DEF AssignSubjectRole, Return, Goto, dbVars

LEMMA UnassignSubjectRoleGood ==
    ASSUME IInvV1, NEW q \in Procs, UnassignSubjectRole(q) PROVE Good(q)
<1> DEFINE t == Assignment(req[q].role, req[q].sub)
<1>1. (tuples' = tuples \/ tuples' = tuples \ {t}) /\ born' = born
  BY DEF UnassignSubjectRole, dbVars
<1>2. \A x \in Resources, i \in RoleIDs, a \in Actions : OnOwner(x, actionToRelation(a), i) # t
  BY DEF OnOwner, Assignment, actionToRelation, Name
<1>3. TuplesGood(q)
  BY <1>1, <1>2
  DEF TuplesGood, IInvV1, TypesV1, TypeOKV1, BornV1, DiscardedUnassigned
<1>4. \E a \in {"ok", "error"} : Return(q, a)
  BY DEF UnassignSubjectRole
<1>5. ans' \in [Procs -> {"none", "ok", "error"}]
  BY <1>4 DEF Return, IInvV1, TypesV1, TypeOKV1
<1> QED BY <1>3, <1>4, <1>5, ReturnGood DEF UnassignSubjectRole, Return, Goto, dbVars

LEMMA RequestEndGood == ASSUME IInvV1, NEW q \in Procs, RequestEnd(q) PROVE Good(q)
<1>1. EndTx(q) /\ UNCHANGED <<roleRow, rbRow, born, issued, tuples>>
  BY DEF RequestEnd, RollbackContext
<1>2. /\ pend' = [pend EXCEPT ![q] = None] /\ pend'[q] = None
      /\ tx' \subseteq Procs
      /\ lock' \in [RoleIDs \cup BindingIDs -> Procs \cup {None}]
      /\ \A p \in Procs \ {q}, r \in RoleIDs : lock[r] = p => lock'[r] = p
  BY <1>1, EndTxV1 DEF IInvV1, TypesV1
<1>3. NoUpdate \in [add : SUBSET TuplesV1, del : SUBSET FiltersV1]
  BY DEF NoUpdate, Update
<1>4. /\ pc' = [pc EXCEPT ![q] = "idle"] /\ req' = [req EXCEPT ![q] = NoRequest]
      /\ upd' = [upd EXCEPT ![q] = NoUpdate] /\ ans' = [ans EXCEPT ![q] = "none"]
      /\ over' = over \ {q}
  BY DEF RequestEnd, Goto
<1>5. TypesV1'
  <2>1. /\ upd' \in [Procs -> [add : SUBSET TuplesV1, del : SUBSET FiltersV1]]
        /\ \A p \in Procs : upd'[p].add \subseteq TuplesV1
    BY <1>3, <1>4 DEF IInvV1, TypesV1
  <2>2. /\ pend' \in [Procs -> [id : RoleIDs, val : Resources \cup {None}] \cup {None}]
        /\ pend' \in [Procs -> Writes \cup {None}]
    BY <1>2 DEF IInvV1, TypesV1, TypeOKV1
  <2>3. /\ pc' \in [Procs -> LabelsV1] /\ ans' \in [Procs -> {"none", "ok", "error"}]
        /\ req' \in [Procs -> RequestsV1 \cup {NoRequest}] /\ over' \subseteq Procs
    BY <1>4 DEF LabelsV1, IInvV1, TypesV1, TypeOKV1
  <2> QED BY <1>1, <1>2, <2>1, <2>2, <2>3 DEF IInvV1, TypesV1, TypeOKV1
<1>6. BornV1'
  BY <1>1 DEF IInvV1, BornV1, DiscardedUnassigned
<1>7. Rely(q)
  BY <1>1, <1>2, <1>4 DEF Rely, IInvV1, TypesV1, TypeOKV1
<1>8. Mine(q)'
  <2>1. pc'[q] = "idle"
    BY <1>4 DEF IInvV1, TypesV1, TypeOKV1
  <2> QED BY <1>2, <2>1 DEF Mine, OpAtV1
<1> QED BY <1>5, <1>6, <1>7, <1>8 DEF Good

LEMMA AbortTxGood == ASSUME IInvV1, NEW q \in Procs, AbortTx(q) PROVE Good(q)
<1>1. EndTx(q) /\ q \in over
      /\ UNCHANGED <<roleRow, rbRow, born, issued, tuples, over, pc, req, upd, zed, ans>>
  BY DEF AbortTx, RollbackContext, procVars
<1>0. PICK l \in LabelsV1 : l = pc[q]
  BY DEF IInvV1, TypesV1, TypeOKV1
<1>2. pc' = [pc EXCEPT ![q] = l] /\ pc'[q] = pc[q]
      /\ ans' \in [Procs -> {"none", "ok", "error"}] /\ pend'[q] = None
  BY <1>0, <1>1, EndTxV1 DEF IInvV1, TypesV1, TypeOKV1
<1>3. Mine(q)'
  <2>1. Mine(q)
    BY OwnFacts
  <2>2. /\ UNCHANGED <<born, over, pc, req, upd>> /\ q \in over /\ pend'[q] = None
    BY <1>1, <1>2
  <2> QED BY <2>1, <2>2 DEF Mine, OpAtV1
<1>4. TuplesGood(q)
  BY <1>1, TuplesKept
<1>5. upd' = [upd EXCEPT ![q] = upd[q]] /\ upd[q] \in [add : SUBSET TuplesV1, del : SUBSET FiltersV1]
  BY <1>1, OwnFacts
<1>6. /\ tx' \subseteq Procs /\ pend' = [pend EXCEPT ![q] = None]
      /\ lock' \in [RoleIDs \cup BindingIDs -> Procs \cup {None}]
      /\ \A p \in Procs \ {q}, r \in RoleIDs : lock[r] = p => lock'[r] = p
  BY <1>1, EndTxV1
<1> QED BY <1>1, <1>2, <1>3, <1>4, <1>5, <1>6, StepGood

LEMMA CancelGood == ASSUME IInvV1, NEW q \in Procs, Cancel(q) PROVE Good(q)
<1>1. over' = over \cup {q} /\ UNCHANGED <<dbVars, issued, tuples, procVars>>
  BY DEF Cancel
<1>2. TypesV1' /\ BornV1'
  BY <1>1
  DEF IInvV1, TypesV1, TypeOKV1, BornV1, DiscardedUnassigned, dbVars, procVars
<1>3. Rely(q)
  BY <1>1 DEF Rely, dbVars, procVars
<1>4. Mine(q)'
  BY <1>1, OwnFacts DEF Mine, OpAtV1, dbVars, procVars
<1> QED BY <1>2, <1>3, <1>4 DEF Good

-----------------------------------------------------------------------------
(* The invariant.                                                          *)
LEMMA InitInvV1 == Init => IInvV1
<1> SUFFICES ASSUME Init PROVE IInvV1
  OBVIOUS
<1>1. NoUpdate \in [add : SUBSET TuplesV1, del : SUBSET FiltersV1] /\ NoUpdate.add = {}
  BY DEF NoUpdate, Update
<1>2. TypesV1
  BY <1>1 DEF Init, TypesV1, TypeOKV1, LabelsV1, Writes
<1>3. BornV1
  BY DEF Init, BornV1, DiscardedUnassigned
<1>4. \A p \in Procs : Mine(p)
  BY DEF Init, Mine, OpAtV1
<1> QED BY <1>2, <1>3, <1>4 DEF IInvV1

LEMMA StepsGood ==
    ASSUME IInvV1, NEW q \in Procs, StartV1(q) \/ WorkV1(q) \/ Cancel(q)
    PROVE  Good(q)
BY StartV1Good, GetRoleResourceGood, BeginV1Good, InsertRoleGood, ReadRoleGood, LockRoleGood,
   GetRoleGood, UpdateRoleRowGood, WriteRoleGood, ListActionsGood, DeleteRoleRowGood, UnlinkGood,
   CommitRoleGood, AssignSubjectRoleGood, UnassignSubjectRoleGood, RequestEndGood, AbortTxGood,
   CancelGood DEF WorkV1

LEMMA NextInvV1 == IInvV1 /\ [NextV1]_vars => IInvV1'
<1> SUFFICES ASSUME IInvV1, [NextV1]_vars PROVE IInvV1'
  OBVIOUS
<1>1. CASE NextV1
  <2>1. PICK q \in Procs : StartV1(q) \/ WorkV1(q) \/ Cancel(q)
    BY <1>1 DEF NextV1
  <2>2. Good(q)
    BY <2>1, StepsGood
  <2>3. TypesV1' /\ BornV1' /\ Rely(q) /\ Mine(q)'
    BY <2>2 DEF Good
  <2>4. \A p \in Procs : Mine(p)'
    BY <2>3, RelyKeeps
  <2> QED BY <2>3, <2>4 DEF IInvV1
<1>2. CASE UNCHANGED vars
  <2>1. TypesV1' /\ BornV1'
    BY <1>2 DEF vars, dbVars, procVars, IInvV1, TypesV1, TypeOKV1, BornV1, DiscardedUnassigned
  <2>2. ASSUME NEW p \in Procs PROVE Mine(p)'
    <3>1. UNCHANGED <<roleRow, born, pend, lock, tuples, over, pc, req, upd>>
      BY <1>2 DEF vars, dbVars, procVars
    <3>2. Current(p)' <=> Current(p)
      BY <3>1 DEF Current, RoleDiffV1, ActionsOn, Granted, Update, OnOwner, NoUpdate
    <3>3. ActionsOn(roleRow[req[p].role], req[p].role)' = ActionsOn(roleRow[req[p].role], req[p].role)
      BY <3>1 DEF ActionsOn
    <3>4. (Holds(p)' <=> Holds(p)) /\ OpAtV1(p)' /\ Mine(p)
      BY <3>1 DEF IInvV1, Mine, OpAtV1, Holds
    <3> QED BY <3>1, <3>2, <3>3, <3>4 DEF Mine
  <2> QED BY <2>1, <2>2 DEF IInvV1
<1> QED BY <1>1, <1>2

LEMMA InvariantV1 == SpecV1 => []IInvV1
BY InitInvV1, NextInvV1, PTL DEF SpecV1

-----------------------------------------------------------------------------
(* ListRoles and GetRole take no lock and write nothing: a read is no step *)
(* of the operations that change roles ...                                 *)
LEMMA ReadsAreSteps == [ReadNext]_allVars => [NextV1]_vars
BY DEF ReadNext, Writer, Reader, ListRows, GetRow, ReadRows, ReadActions, Answer, Forget, allVars

(* ... and to them every behaviour with reads is one without them.         *)
THEOREM ReadersOnlyRead == ReadSpec => SpecV1
<1>1. ReadInit => Init
  BY DEF ReadInit
<1> QED BY <1>1, ReadsAreSteps, PTL DEF ReadSpec, SpecV1

(* Every variable keeps its type, whatever fails.                          *)
THEOREM RolesV1Types == ReadSpec => []TypeOKV1
<1>1. IInvV1 => TypeOKV1
  BY DEF IInvV1, TypesV1
<1> QED BY <1>1, ReadersOnlyRead, InvariantV1, PTL

(* Nobody is ever assigned a role whose row was never committed: a role is *)
(* assigned only after its row was read, and a row is read only committed. *)
THEOREM NobodyHasADiscardedRole == ReadSpec => []DiscardedUnassigned
<1>1. IInvV1 => DiscardedUnassigned
  BY DEF IInvV1, BornV1
<1> QED BY <1>1, ReadersOnlyRead, InvariantV1, PTL

-----------------------------------------------------------------------------
(* Of all the steps, WriteRole alone gives a role an action on a resource, *)
(* and GetRole and CommitRole alone let an update succeed.                 *)
LEMMA WhoGives ==
    ASSUME IInvV1, NEW q \in Procs, StartV1(q) \/ WorkV1(q) \/ Cancel(q),
           NEW x \in Resources, NEW a \in Actions, NEW r \in RoleIDs,
           OnOwner(x, actionToRelation(a), r) \in tuples' \ tuples
    PROVE  WriteRole(q) /\ Up(q) /\ tuples' = (tuples \ upd[q].del) \cup upd[q].add
<1> DEFINE t == OnOwner(x, actionToRelation(a), r)
<1>1. ~ (tuples' \subseteq tuples)
  OBVIOUS
<1>2. ~ StartV1(q) /\ ~ Cancel(q)
  BY <1>1 DEF StartV1, StartAt, Cancel
<1>3. ~ RollbackAndFail(q) /\ ~ FailOpen(q)
  BY <1>1 DEF RollbackAndFail, FailOpen
<1>4. ~ GetRoleResource(q) /\ ~ BeginV1(q) /\ ~ InsertRole(q) /\ ~ ReadRole(q) /\ ~ LockRole(q)
  BY <1>1, <1>3 DEF GetRoleResource, BeginV1, Begin, InsertRole, ReadRole, LockRole, LockForUpdate
<1>5. ~ GetRole(q) /\ ~ UpdateRoleRow(q) /\ ~ ListActions(q) /\ ~ DeleteRoleRow(q) /\ ~ Unlink(q)
  BY <1>1, <1>3 DEF GetRole, UpdateRoleRow, ListActions, DeleteRoleRow, Unlink
<1>6. ~ CommitRole(q) /\ ~ RequestEnd(q) /\ ~ AbortTx(q) /\ ~ UnassignSubjectRole(q)
  BY <1>1, <1>3 DEF CommitRole, RequestEnd, AbortTx, UnassignSubjectRole
<1>7. ~ AssignSubjectRole(q)
  <2>1. t # Assignment(req[q].role, req[q].sub)
    BY DEF OnOwner, Assignment, actionToRelation, Name
  <2> QED BY <2>1 DEF AssignSubjectRole
<1>8. WriteRole(q)
  BY <1>2, <1>4, <1>5, <1>6, <1>7 DEF WorkV1
<1> QED BY <1>1, <1>3, <1>8 DEF WriteRole

LEMMA WhoUpdates ==
    ASSUME IInvV1, NEW q \in Procs, StartV1(q) \/ WorkV1(q) \/ Cancel(q),
           NEW p \in Procs, req[p].op = "UpdateRole", ans[p] = "none", ans'[p] = "ok"
    PROVE  /\ p = q /\ Up(q)
           /\ \/ pc[q] = "getRole" /\ RoleDiffV1(roleRow[req[q].role], req[q].role, req[q].actions) = NoUpdate
              \/ pc[q] = "commit"
<1>1. ~ (\E l \in {"error", "none"} : ans' = [ans EXCEPT ![q] = l]) /\ ans' # ans
  BY DEF IInvV1, TypesV1, TypeOKV1
<1>2. ~ StartV1(q) /\ ~ Cancel(q)
  BY <1>1 DEF StartV1, StartAt, Cancel, procVars
<1>3. ~ RollbackAndFail(q) /\ ~ FailOpen(q) /\ ~ RequestEnd(q) /\ ~ AbortTx(q)
  BY <1>1 DEF RollbackAndFail, FailOpen, Return, RequestEnd, AbortTx, procVars
<1>4. ~ GetRoleResource(q) /\ ~ InsertRole(q) /\ ~ ReadRole(q) /\ ~ LockRole(q)
  BY <1>1, <1>3 DEF GetRoleResource, InsertRole, ReadRole, LockRole, LockForUpdate, WriteRow
<1>5. ~ UpdateRoleRow(q) /\ ~ WriteRole(q) /\ ~ ListActions(q) /\ ~ DeleteRoleRow(q) /\ ~ Unlink(q)
  BY <1>1, <1>3 DEF UpdateRoleRow, WriteRole, ListActions, DeleteRoleRow, Unlink, WriteRow, Return
<1>6. BeginV1(q) \/ AssignSubjectRole(q) \/ UnassignSubjectRole(q) \/ GetRole(q) \/ CommitRole(q)
  BY <1>2, <1>3, <1>4, <1>5 DEF WorkV1
<1>7. p = q
  BY <1>6, <1>3
  DEF BeginV1, Begin, AssignSubjectRole, UnassignSubjectRole, GetRole, CommitRole, Return,
      IInvV1, TypesV1, TypeOKV1
<1>8. ~ BeginV1(q) /\ ~ AssignSubjectRole(q) /\ ~ UnassignSubjectRole(q)
  BY <1>1, <1>7, OwnFacts DEF BeginV1, Begin, AssignSubjectRole, UnassignSubjectRole, Return,
                              Mine, OpAtV1
<1> QED BY <1>1, <1>3, <1>6, <1>7, <1>8 DEF GetRole, CommitRole, Return

(* An action is given to a role only on its owner, and only while the row  *)
(* is there or its creation is in progress: UpdateRole writes what it read *)
(* under the row's lock, and keeps the lock until it has.                  *)
THEOREM OnlyTheLivingAreGiven == ReadSpec => GivenToTheLiving
<1>1. IInvV1 /\ [NextV1]_vars =>
        [\A x \in Resources, a \in Actions, r \in RoleIDs :
           OnOwner(x, actionToRelation(a), r) \in tuples' \ tuples
              => \/ roleRow[r] = x
                 \/ \E p \in Procs : pend[p] = Write(r, x)]_vars
  <2> SUFFICES ASSUME IInvV1, NextV1,
                      NEW x \in Resources, NEW a \in Actions, NEW r \in RoleIDs,
                      OnOwner(x, actionToRelation(a), r) \in tuples' \ tuples
               PROVE  roleRow[r] = x \/ \E p \in Procs : pend[p] = Write(r, x)
    OBVIOUS
  <2>1. PICK q \in Procs : StartV1(q) \/ WorkV1(q) \/ Cancel(q)
    BY DEF NextV1
  <2>2. WriteRole(q) /\ Up(q) /\ OnOwner(x, actionToRelation(a), r) \in upd[q].add
    BY <2>1, WhoGives
  <2>3. Mine(q) /\ q \notin over /\ pc[q] = "writeRole"
    BY <2>2, OwnFacts DEF WriteRole, Up
  <2>4. CASE req[q].op = "CreateRole"
    <3>1. /\ pend[q] = Write(req[q].role, req[q].res)
          /\ upd[q].add = Granted(req[q].res, req[q].role, req[q].actions)
      BY <2>3, <2>4 DEF Mine, Update
    <3>2. req[q].res = x /\ req[q].role = r
      BY <2>2, <3>1 DEF Granted, OnOwner
    <3> QED BY <3>1, <3>2
  <2>5. CASE req[q].op = "UpdateRole"
    <3>1. upd[q] = RoleDiffV1(roleRow[req[q].role], req[q].role, req[q].actions)
      BY <2>3, <2>5 DEF Mine, Current
    <3>2. roleRow[req[q].role] = x /\ req[q].role = r
      BY <2>2, <3>1 DEF RoleDiffV1, NoUpdate, Update, Granted, OnOwner
    <3> QED BY <3>2
  <2> QED BY <2>3, <2>4, <2>5 DEF Mine, OpAtV1
<1> QED BY <1>1, ReadersOnlyRead, InvariantV1, PTL DEF SpecV1, GivenToTheLiving

(* When UpdateRole answers without error the role has the actions it was   *)
(* given, also where it finds nothing to change: its lock is held from     *)
(* before the read of the actions until after the commit.                  *)
THEOREM UpdatesTakeEffect == ReadSpec => UpdateTakesEffectV1
<1>1. IInvV1 /\ [NextV1]_vars =>
        [\A p \in Procs :
           (req[p].op = "UpdateRole" /\ req[p].actions # {} /\ ans[p] = "none" /\ ans'[p] = "ok")
              => ActionsOn(roleRow[req[p].role], req[p].role) = req[p].actions]_vars
  <2> SUFFICES ASSUME IInvV1, NextV1, NEW p \in Procs,
                      req[p].op = "UpdateRole", req[p].actions # {}, ans[p] = "none", ans'[p] = "ok"
               PROVE  ActionsOn(roleRow[req[p].role], req[p].role) = req[p].actions
    OBVIOUS
  <2>1. PICK q \in Procs : StartV1(q) \/ WorkV1(q) \/ Cancel(q)
    BY DEF NextV1
  <2>2. /\ Up(p)
        /\ \/ pc[p] = "getRole" /\ RoleDiffV1(roleRow[req[p].role], req[p].role, req[p].actions) = NoUpdate
           \/ pc[p] = "commit"
    BY <2>1, WhoUpdates
  <2>3. CASE pc[p] = "commit"
    BY <2>2, <2>3, OwnFacts DEF Mine, Up
  <2>4. CASE pc[p] = "getRole" /\ RoleDiffV1(roleRow[req[p].role], req[p].role, req[p].actions) = NoUpdate
    <3>1. PICK r \in RoleIDs, x \in Resources, acts \in SUBSET Actions :
            r = req[p].role /\ x = roleRow[r] /\ acts = req[p].actions
      BY <2>2, <2>4, OwnFacts, FieldsV1 DEF Mine, Up, Holds, RoleOps
    <3>2. tuples \subseteq TuplesV1
      BY DEF IInvV1, TypesV1, TypeOKV1
    <3>3. RoleDiffV1(x, r, acts) = NoUpdate /\ acts # {}
      BY <2>4, <3>1
    <3> QED BY <3>1, <3>2, <3>3, NoDiff
  <2> QED BY <2>2, <2>3, <2>4
<1> QED BY <1>1, ReadersOnlyRead, InvariantV1, PTL DEF SpecV1, UpdateTakesEffectV1

-----------------------------------------------------------------------------
(* The reads.  A list is exact about the roles whose row nobody has held   *)
(* since its rows were read, because rows change under their locks.        *)
ReadTypes ==
    /\ rpc \in [Readers -> {"idle", "listing", "getting", "answered"}]
    /\ DOMAIN on = Readers /\ DOMAIN rows = Readers /\ DOMAIN found = Readers
    /\ DOMAIN calm = Readers

CalmRows ==
    \A d \in Readers : rpc[d] = "listing" =>
        \A r \in RoleIDs \cap calm[d] :
            lock[r] = None /\ (r \in rows[d] <=> roleRow[r] = on[d])

LInvV1 == IInvV1 /\ ReadTypes /\ CalmRows

LEMMA InitLists == ReadInit => LInvV1
BY InitInvV1 DEF ReadInit, LInvV1, ReadTypes, CalmRows

(* What a read does, and what it leaves alone.                             *)
LEMMA ReaderSteps ==
    ASSUME ReadTypes, NEW d \in Readers, Reader(d)
    PROVE  /\ UNCHANGED vars /\ UNCHANGED plain /\ ReadTypes'
           /\ \A e \in Readers \ {d} : /\ rpc'[e] = rpc[e] /\ on'[e] = on[e] /\ rows'[e] = rows[e]
                                       /\ found'[e] = found[e] /\ calm'[e] = calm[e]
           /\ \/ rpc'[d] = "idle"
              \/ /\ rpc'[d] = "answered" /\ rpc[d] \in {"listing", "getting"}
                 /\ found'[d] = {Shown(on[d], r) : r \in rows[d]}
              \/ /\ rpc'[d] = "listing" /\ rpc[d] = "idle" /\ on'[d] \in Resources
                 /\ rows'[d] = ListResourceRoles(on'[d])
                 /\ calm'[d] = {r \in RoleIDs : lock[r] = None}
              \/ /\ rpc'[d] = "getting" /\ rpc[d] = "idle"
                 /\ \E r \in RoleIDs : /\ rows'[d] = {r} /\ on'[d] = roleRow[r]
                                       /\ roleRow[r] # None
<1>1. ASSUME NEW l \in {"listing", "getting"}, NEW x, NEW rs, ReadRows(d, l, x, rs)
      PROVE  /\ UNCHANGED vars /\ UNCHANGED plain /\ ReadTypes'
             /\ \A e \in Readers \ {d} : /\ rpc'[e] = rpc[e] /\ on'[e] = on[e] /\ rows'[e] = rows[e]
                                         /\ found'[e] = found[e] /\ calm'[e] = calm[e]
             /\ rpc'[d] = l /\ rpc[d] = "idle" /\ on'[d] = x /\ rows'[d] = rs
             /\ calm'[d] = {r \in RoleIDs : lock[r] = None}
  BY <1>1 DEF ReadRows, ReadTypes
<1>2. CASE ListRows(d)
  <2>1. PICK x \in Resources : ReadRows(d, "listing", x, ListResourceRoles(x))
    BY <1>2 DEF ListRows
  <2>2. /\ on'[d] \in Resources /\ rows'[d] = ListResourceRoles(x) /\ on'[d] = x
    BY <1>1, <2>1
  <2> QED
    BY <1>1, <2>1, <2>2
<1>3. CASE GetRow(d)
  <2>1. PICK r \in RoleIDs : roleRow[r] # None /\ ReadRows(d, "getting", roleRow[r], {r})
    BY <1>3 DEF GetRow, RoleFound
  <2> QED
    BY <1>1, <2>1
<1>4. CASE ReadActions(d)
  BY <1>4 DEF ReadActions, Answer, ReadTypes
<1>5. CASE Forget(d)
  BY <1>5 DEF Forget, ReadTypes
<1> QED
  BY <1>2, <1>3, <1>4, <1>5 DEF Reader

(* A step of the operations leaves the reads alone.                        *)
LEMMA WriterSteps ==
    ASSUME IInvV1, ReadTypes, Writer
    PROVE  /\ ReadTypes' /\ UNCHANGED <<rpc, on, rows, found>>
           /\ plain \subseteq plain'
           /\ \A d \in Readers : calm'[d] = {r \in calm[d] : lock'[r] = None}
           /\ \E q \in Procs : (StartV1(q) \/ WorkV1(q) \/ Cancel(q)) /\ Good(q)
<1>1. PICK q \in Procs : StartV1(q) \/ WorkV1(q) \/ Cancel(q)
  BY DEF Writer, NextV1
<1>2. Good(q)
  BY <1>1, StepsGood
<1> QED
  BY <1>1, <1>2 DEF Writer, ReadTypes

LEMMA NextLists == LInvV1 /\ [ReadNext]_allVars => LInvV1'
<1> SUFFICES ASSUME LInvV1, [ReadNext]_allVars PROVE LInvV1'
  OBVIOUS
<1>1. IInvV1'
  BY ReadsAreSteps, NextInvV1 DEF LInvV1
<1>2. CASE UNCHANGED allVars
  BY <1>1, <1>2 DEF LInvV1, ReadTypes, CalmRows, allVars, readVars, vars, dbVars
<1>3. CASE Writer
  <2>1. /\ ReadTypes' /\ UNCHANGED <<rpc, on, rows, found>>
        /\ \A d \in Readers : calm'[d] = {r \in calm[d] : lock'[r] = None}
    BY <1>3, WriterSteps DEF LInvV1
  <2>2. \A r \in RoleIDs : lock[r] = None => roleRow'[r] = roleRow[r]
    BY <1>3, WriterSteps, StoreAssumption DEF LInvV1, Good, Rely
  <2>3. CalmRows'
    BY <2>1, <2>2 DEF CalmRows, LInvV1
  <2> QED
    BY <1>1, <2>1, <2>3 DEF LInvV1
<1>4. ASSUME NEW d \in Readers, Reader(d)
      PROVE  LInvV1'
  <2>1. /\ ReadTypes' /\ lock' = lock /\ roleRow' = roleRow
        /\ \A e \in Readers \ {d} : rpc'[e] = rpc[e] /\ on'[e] = on[e] /\ rows'[e] = rows[e]
                                    /\ calm'[e] = calm[e]
    BY <1>4, ReaderSteps DEF LInvV1, vars, dbVars
  <2>2. rpc'[d] = "listing" => /\ rows'[d] = {r \in RoleIDs : roleRow[r] = on'[d]}
                               /\ calm'[d] = {r \in RoleIDs : lock[r] = None}
    BY <1>4, ReaderSteps DEF LInvV1, ListResourceRoles
  <2>3. CalmRows'
    BY <2>1, <2>2 DEF CalmRows, LInvV1
  <2> QED
    BY <1>1, <2>1, <2>3 DEF LInvV1
<1> QED
  BY <1>2, <1>3, <1>4 DEF ReadNext

(* ListRoles, of the roles nobody touched meanwhile, returns exactly those *)
(* that the resource owns, with their actions.                             *)
THEOREM RolesV1Listed == ReadSpec => RolesListedExactlyV1
<1>1. ASSUME LInvV1, [ReadNext]_allVars
      PROVE  [\A d \in Readers : Answers(d) /\ rpc[d] = "listing" =>
                \A r \in RoleIDs \cap calm[d] :
                   {e \in found'[d] : e.role = r} =
                      IF roleRow[r] = on[d] THEN {Shown(on[d], r)} ELSE {}]_allVars
  <2> SUFFICES ASSUME ReadNext, NEW d \in Readers, Answers(d), rpc[d] = "listing",
                      NEW r \in RoleIDs \cap calm[d]
               PROVE  {e \in found'[d] : e.role = r} =
                         IF roleRow[r] = on[d] THEN {Shown(on[d], r)} ELSE {}
    BY <1>1
  <2>1. rpc'[d] = "answered" /\ rpc'[d] # rpc[d]
    BY DEF Answers
  <2>2. PICK e \in Readers : Reader(e)
    BY <1>1, <2>1, WriterSteps DEF ReadNext, LInvV1
  <2>3. e = d /\ found'[d] = {Shown(on[d], i) : i \in rows[d]}
    BY <1>1, <2>1, <2>2, ReaderSteps DEF LInvV1
  <2>4. r \in rows[d] <=> roleRow[r] = on[d]
    BY <1>1 DEF LInvV1, CalmRows
  <2>5. \A i : Shown(on[d], i).role = i
    BY DEF Shown
  <2> QED
    BY <2>3, <2>4, <2>5
<1> QED
  BY <1>1, InitLists, NextLists, PTL DEF ReadSpec, RolesListedExactlyV1

-----------------------------------------------------------------------------
(* A role created with actions always has some, on the resource that owns  *)
(* it or owned it: an update replaces them by others, and a deletion       *)
(* removes none (its filters name actions, not relations).                 *)
Clothed(T, P, x, r) == r \in P \/ ActionsIn(T, x, r) # {}

ClothedRows == \A r \in RoleIDs : roleRow[r] # None => Clothed(tuples, plain, roleRow[r], r)

(* ... before the row is committed, too, once its tuples are written       *)
ClothedWrite(p) ==
    p \notin over /\ pend[p] # None /\ pc[p] # "writeRole" =>
        pend[p].val = None \/ Clothed(tuples, plain, pend[p].val, pend[p].id)

PlainRequest(p) == req[p].op = "CreateRole" /\ req[p].actions = {} => req[p].role \in plain

ClothedReads ==
    \A d \in Readers : rpc[d] \in {"listing", "getting"} =>
        /\ on[d] \in Resources
        /\ \A r \in rows[d] : r \in RoleIDs /\ Clothed(tuples, plain, on[d], r)

Dressed == /\ ClothedRows /\ ClothedReads
           /\ \A p \in Procs : ClothedWrite(p) /\ PlainRequest(p)

BInvV1 == IInvV1 /\ ReadTypes /\ Dressed

LEMMA InitDressed == ReadInit => BInvV1
BY InitInvV1 DEF ReadInit, Init, BInvV1, ReadTypes, Dressed, ClothedRows, ClothedReads, ClothedWrite,
                 PlainRequest, NoRequest

(* What a request that writes or deletes tuples has planned.               *)
LEMMA Planned ==
    ASSUME IInvV1, NEW q \in Procs
    PROVE  /\ pc[q] = "unlink" => \A f \in upd[q].del : f.rel.suffix = ""
           /\ q \notin over /\ pc[q] = "writeRole" /\ req[q].op = "UpdateRole" =>
                Holds(q) /\ Current(q) /\ pend[q] = Write(req[q].role, roleRow[req[q].role])
           /\ q \notin over /\ pc[q] = "writeRole" /\ req[q].op = "CreateRole" =>
                /\ pend[q] = Write(req[q].role, req[q].res)
                /\ upd[q].add = Granted(req[q].res, req[q].role, req[q].actions)
                /\ upd[q].del = {}
<1>1. Mine(q)
  BY OwnFacts
<1>2. pc[q] = "unlink" => \A f \in upd[q].del : f.rel.suffix = ""
  BY <1>1 DEF Mine
<1>3. q \notin over /\ pc[q] = "writeRole" /\ req[q].op = "UpdateRole" =>
        Holds(q) /\ Current(q) /\ pend[q] = Write(req[q].role, roleRow[req[q].role])
  BY <1>1 DEF Mine
<1>4. ASSUME q \notin over, pc[q] = "writeRole", req[q].op = "CreateRole"
      PROVE  /\ pend[q] = Write(req[q].role, req[q].res)
             /\ upd[q].add = Granted(req[q].res, req[q].role, req[q].actions)
             /\ upd[q].del = {}
  <2>1. /\ pend[q] = Write(req[q].role, req[q].res)
        /\ upd[q] = Update(Granted(req[q].res, req[q].role, req[q].actions), {})
    BY <1>1, <1>4 DEF Mine
  <2> QED
    BY <2>1 DEF Update
<1> QED
  BY <1>2, <1>3, <1>4, Zenon

(* Of the steps of a request, WriteRole alone takes an action from a role. *)
LEMMA WhoTakes ==
    ASSUME IInvV1, NEW q \in Procs, StartV1(q) \/ WorkV1(q) \/ Cancel(q),
           NEW x \in Resources, NEW a \in Actions, NEW r \in RoleIDs,
           OnOwner(x, actionToRelation(a), r) \in tuples \ tuples'
    PROVE  WriteRole(q) /\ Up(q) /\ tuples' = (tuples \ upd[q].del) \cup upd[q].add
<1> DEFINE t == OnOwner(x, actionToRelation(a), r)
<1>1. ~ (tuples \subseteq tuples')
  OBVIOUS
<1>2. ~ StartV1(q) /\ ~ Cancel(q)
  BY <1>1 DEF StartV1, StartAt, Cancel
<1>3. ~ RollbackAndFail(q) /\ ~ FailOpen(q)
  BY <1>1 DEF RollbackAndFail, FailOpen
<1>4. ~ GetRoleResource(q) /\ ~ BeginV1(q) /\ ~ InsertRole(q) /\ ~ ReadRole(q) /\ ~ LockRole(q)
  BY <1>1, <1>3 DEF GetRoleResource, BeginV1, Begin, InsertRole, ReadRole, LockRole, LockForUpdate
<1>5. ~ GetRole(q) /\ ~ UpdateRoleRow(q) /\ ~ ListActions(q) /\ ~ DeleteRoleRow(q)
  BY <1>1, <1>3 DEF GetRole, UpdateRoleRow, ListActions, DeleteRoleRow
<1>6. ~ CommitRole(q) /\ ~ RequestEnd(q) /\ ~ AbortTx(q) /\ ~ AssignSubjectRole(q)
  BY <1>1, <1>3 DEF CommitRole, RequestEnd, AbortTx, AssignSubjectRole
<1>7. t.rel.suffix = "_rel"
  BY DEF OnOwner, actionToRelation
<1>8. ~ UnassignSubjectRole(q)
  <2>1. t # Assignment(req[q].role, req[q].sub)
    BY DEF OnOwner, Assignment, actionToRelation, Name
  <2> QED
    BY <2>1 DEF UnassignSubjectRole
<1>9. ~ Unlink(q)
  <2>1. \A f \in upd[q].del : pc[q] = "unlink" => f # t
    BY <1>7, Planned
  <2> QED
    BY <1>1, <1>3, <2>1 DEF Unlink
<1>10. WriteRole(q)
  BY <1>2, <1>4, <1>5, <1>6, <1>8, <1>9 DEF WorkV1
<1> QED
  BY <1>1, <1>3, <1>10 DEF WriteRole

(* ... and it leaves the role others.                                      *)
LEMMA StaysClothed ==
    ASSUME IInvV1, NEW q \in Procs, StartV1(q) \/ WorkV1(q) \/ Cancel(q), Good(q),
           NEW x \in Resources, NEW r \in RoleIDs, ActionsIn(tuples, x, r) # {}
    PROVE  ActionsIn(tuples', x, r) # {}
<1> SUFFICES ASSUME ActionsIn(tuples', x, r) = {} PROVE FALSE
  OBVIOUS
<1>1. tuples \subseteq TuplesV1 /\ (tuples \subseteq TuplesV1)'
  BY DEF IInvV1, Good, TypesV1, TypeOKV1
<1>0. tuples \in SUBSET TuplesV1 /\ tuples' \in SUBSET TuplesV1
  BY <1>1 DEF TuplesV1
<1>2. PICK a \in Actions : OnOwner(x, actionToRelation(a), r) \in tuples \ tuples'
  <2>1. PICK a \in Actions : a \in ActionsIn(tuples, x, r)
    BY <1>0, ActionsInAre
  <2>2. OnOwner(x, actionToRelation(a), r) \in tuples
    BY <1>0, <2>1, ActionsInAre
  <2>3. OnOwner(x, actionToRelation(a), r) \notin tuples'
    BY <1>0, ActionsInAre
  <2> QED
    BY <2>2, <2>3
<1>3. /\ pc[q] = "writeRole" /\ q \notin over
      /\ tuples' = (tuples \ upd[q].del) \cup upd[q].add
  BY <1>2, WhoTakes DEF WriteRole, Up
<1>4. OnOwner(x, actionToRelation(a), r) \in upd[q].del
  BY <1>2, <1>3
<1>5. req[q].op \in {"CreateRole", "UpdateRole"}
  BY <1>3, OwnFacts DEF Mine, OpAtV1
<1>6. req[q].op = "UpdateRole"
  <2>1. req[q].op = "CreateRole" => upd[q].del = {}
    BY <1>3, Planned
  <2> QED
    BY <1>4, <1>5, <2>1
<1>7. PICK i \in RoleIDs, y \in Resources, acts \in SUBSET Actions :
         /\ i = req[q].role /\ y = roleRow[i] /\ acts = req[q].actions
         /\ upd[q] = RoleDiffV1(y, i, acts)
  <2>1. Holds(q) /\ Current(q)
    BY <1>3, <1>6, Planned
  <2>2. req[q].role \in RoleIDs /\ req[q].actions \in SUBSET Actions
    BY <1>6, OwnFacts, FieldsV1 DEF RoleOps
  <2>3. roleRow[req[q].role] \in Resources
    BY <2>1 DEF Holds
  <2> QED
    BY <2>1, <2>2, <2>3 DEF Current
<1>8. acts # {} /\ x = y /\ r = i
  BY <1>4, <1>7 DEF RoleDiffV1, NoUpdate, Update, Granted, OnOwner
<1>9. ActionsOn(x, r)' = acts
  BY <1>1, <1>3, <1>7, <1>8, DiffWritten
<1>10. ActionsOn(x, r)' = ActionsIn(tuples', x, r)
  BY DEF ActionsOn, ActionsIn, relationToAction
<1> QED
  BY <1>8, <1>9, <1>10

(* A row changes when its request commits the write it has pending.        *)
LEMMA WhoCommits ==
    ASSUME IInvV1, NEW q \in Procs, StartV1(q) \/ WorkV1(q) \/ Cancel(q),
           NEW r \in RoleIDs, roleRow'[r] # roleRow[r]
    PROVE  /\ q \notin over /\ pc[q] = "commit" /\ UNCHANGED tuples
           /\ pend[q] # None /\ pend[q].id = r /\ pend[q].val = roleRow'[r]
<1>1. roleRow' # roleRow
  OBVIOUS
<1>2. ~ StartV1(q) /\ ~ Cancel(q)
  BY <1>1 DEF StartV1, StartAt, Cancel, dbVars
<1>3. ~ RollbackContext(q) /\ ~ RollbackAndFail(q) /\ ~ FailOpen(q)
  BY <1>1 DEF RollbackAndFail, RollbackContext, FailOpen, dbVars
<1>4. ~ GetRoleResource(q) /\ ~ BeginV1(q) /\ ~ InsertRole(q) /\ ~ ReadRole(q) /\ ~ LockRole(q)
  BY <1>1, <1>3 DEF GetRoleResource, BeginV1, Begin, InsertRole, ReadRole, LockRole, LockForUpdate,
                    WriteRow, dbVars
<1>5. ~ GetRole(q) /\ ~ UpdateRoleRow(q) /\ ~ WriteRole(q) /\ ~ ListActions(q)
  BY <1>1, <1>3 DEF GetRole, UpdateRoleRow, WriteRole, ListActions, WriteRow, dbVars
<1>6. ~ DeleteRoleRow(q) /\ ~ Unlink(q) /\ ~ RequestEnd(q) /\ ~ AbortTx(q)
  BY <1>1, <1>3 DEF DeleteRoleRow, Unlink, RequestEnd, AbortTx, WriteRow, dbVars
<1>7. ~ AssignSubjectRole(q) /\ ~ UnassignSubjectRole(q)
  BY <1>1 DEF AssignSubjectRole, UnassignSubjectRole, dbVars
<1>8. CommitRole(q)
  BY <1>2, <1>4, <1>5, <1>6, <1>7 DEF WorkV1
<1>9. /\ CommitContext(q) /\ q \notin over /\ pc[q] = "commit" /\ UNCHANGED tuples
  BY <1>3, <1>8 DEF CommitRole, Up
<1>10. /\ pend[q] # None /\ pend[q].id \in RoleIDs
       /\ roleRow' = [roleRow EXCEPT ![pend[q].id] = pend[q].val]
  BY <1>1, <1>9, OwnFacts DEF CommitContext, ApplyWrite
<1>11. DOMAIN roleRow = RoleIDs
  BY DEF IInvV1, TypesV1, TypeOKV1
<1> QED
  BY <1>9, <1>10, <1>11

(* What becomes of a request's pending write when the request takes a step *)
LEMMA OwnWrite ==
    ASSUME IInvV1, NEW q \in Procs, StartV1(q) \/ WorkV1(q) \/ Cancel(q),
           q \notin over', pend'[q] # None, pc'[q] # "writeRole"
    PROVE  /\ q \notin over
           /\ \/ pend'[q] = pend[q] /\ pc[q] # "writeRole"
              \/ pend'[q].val = None
              \/ pend'[q] = Write(req[q].role, roleRow[req[q].role]) /\ pc[q] = "updateRole"
              \/ /\ pend'[q] = pend[q] /\ pc[q] = "writeRole"
                 /\ tuples' = (tuples \ upd[q].del) \cup upd[q].add
<1>1. /\ DOMAIN pend = Procs /\ DOMAIN pc = Procs
  BY DEF IInvV1, TypesV1, TypeOKV1
<1>2. ~ EndTx(q)
  BY <1>1 DEF EndTx
<1>3. ~ RollbackContext(q) /\ ~ RollbackAndFail(q) /\ ~ CommitContext(q)
  BY <1>2 DEF RollbackAndFail, RollbackContext, CommitContext
<1>4. ~ RequestEnd(q) /\ ~ AbortTx(q) /\ ~ CommitRole(q)
  BY <1>3 DEF RequestEnd, AbortTx, CommitRole
<1>5. ~ Cancel(q)
  BY DEF Cancel
<1>6. CASE StartV1(q)
  BY <1>6 DEF StartV1, StartAt, dbVars
<1>7. CASE FailOpen(q) /\ pc[q] # "writeRole"
  BY <1>7 DEF FailOpen, dbVars
<1>8. CASE GetRoleResource(q) \/ BeginV1(q) \/ ReadRole(q) \/ LockRole(q)
  BY <1>3, <1>7, <1>8
  DEF GetRoleResource, BeginV1, Begin, ReadRole, LockRole, LockForUpdate, FailOpen, dbVars
<1>9. CASE GetRole(q) \/ ListActions(q) \/ Unlink(q)
  BY <1>3, <1>9 DEF GetRole, ListActions, Unlink, dbVars
<1>10. CASE AssignSubjectRole(q) \/ UnassignSubjectRole(q)
  BY <1>10 DEF AssignSubjectRole, UnassignSubjectRole, dbVars
<1>11. ASSUME NEW w, NEW l, WriteRow(q, w, l)
       PROVE  pend'[q] = w /\ pc'[q] = l /\ q \notin over
  BY <1>1, <1>11 DEF WriteRow, Goto, Up
<1>12. CASE InsertRole(q)
  BY <1>7, <1>11, <1>12 DEF InsertRole
<1>13. CASE UpdateRoleRow(q)
  BY <1>3, <1>11, <1>13 DEF UpdateRoleRow
<1>14. CASE DeleteRoleRow(q)
  BY <1>3, <1>11, <1>14 DEF DeleteRoleRow, Write
<1>15. CASE WriteRole(q)
  BY <1>3, <1>15 DEF WriteRole, dbVars
<1> QED
  BY <1>4, <1>5, <1>6, <1>8, <1>9, <1>10, <1>12, <1>13, <1>14, <1>15 DEF WorkV1

(* A request is new, over, or the same.                                    *)
LEMMA WhoAsks ==
    ASSUME IInvV1, NEW q \in Procs, StartV1(q) \/ WorkV1(q) \/ Cancel(q),
           NEW p \in Procs, req'[p].op = "CreateRole"
    PROVE  req'[p] = req[p] \/ req'[p].role \in issued' \ issued
<1>1. DOMAIN req = Procs
  BY DEF IInvV1, TypesV1, TypeOKV1
<1>2. CASE StartV1(q)
  BY <1>1, <1>2 DEF StartV1, StartAt, AssignOps
<1>3. CASE RequestEnd(q)
  BY <1>1, <1>3 DEF RequestEnd, NoRequest
<1>4. CASE Cancel(q) \/ AbortTx(q)
  BY <1>4 DEF Cancel, AbortTx, procVars
<1>5. ASSUME RollbackAndFail(q) \/ FailOpen(q) PROVE req' = req
  BY <1>5 DEF RollbackAndFail, FailOpen
<1>6. CASE GetRoleResource(q) \/ BeginV1(q) \/ InsertRole(q) \/ ReadRole(q) \/ LockRole(q)
  BY <1>5, <1>6 DEF GetRoleResource, BeginV1, Begin, InsertRole, ReadRole, LockRole, LockForUpdate,
                    WriteRow
<1>7. CASE GetRole(q) \/ UpdateRoleRow(q) \/ WriteRole(q) \/ ListActions(q)
  BY <1>5, <1>7 DEF GetRole, UpdateRoleRow, WriteRole, ListActions, WriteRow
<1>8. CASE DeleteRoleRow(q) \/ Unlink(q) \/ CommitRole(q)
  BY <1>5, <1>8 DEF DeleteRoleRow, Unlink, CommitRole, WriteRow
<1>9. CASE AssignSubjectRole(q) \/ UnassignSubjectRole(q)
  BY <1>9 DEF AssignSubjectRole, UnassignSubjectRole
<1> QED
  BY <1>2, <1>3, <1>4, <1>6, <1>7, <1>8, <1>9 DEF WorkV1

(* What a creation writes before its commit: the actions, if there are any *)
LEMMA WritesClothed ==
    ASSUME BInvV1, NEW q \in Procs, tuples' \in SUBSET TuplesV1,
           q \notin over, pc[q] = "writeRole", req[q].op = "CreateRole",
           tuples' = (tuples \ upd[q].del) \cup upd[q].add
    PROVE  Clothed(tuples', plain, req[q].res, req[q].role)
<1>1. PICK r \in RoleIDs, x \in Resources, acts \in SUBSET Actions :
         r = req[q].role /\ x = req[q].res /\ acts = req[q].actions
  BY OwnFacts, FieldsV1 DEF BInvV1, RoleOps
<1>2. upd[q].add = Granted(x, r, acts)
  BY <1>1, Planned DEF BInvV1
<1>3. CASE acts = {}
  BY <1>1, <1>3 DEF BInvV1, Dressed, PlainRequest, Clothed
<1>4. CASE acts # {}
  <2>1. PICK a \in Actions : a \in acts
    BY <1>4
  <2>2. OnOwner(x, actionToRelation(a), r) \in tuples'
    BY <1>2, <2>1 DEF Granted
  <2>3. a \in ActionsIn(tuples', x, r)
    BY <2>2, ActionsInAre
  <2> QED
    BY <1>1, <2>3 DEF Clothed
<1> QED
  BY <1>3, <1>4

LEMMA WriterDressed == ASSUME BInvV1, Writer PROVE Dressed'
<1>1. /\ UNCHANGED <<rpc, on, rows>> /\ plain \subseteq plain'
      /\ \A r \in issued' \ issued :
            (\E p \in Procs : /\ req'[p].op = "CreateRole" /\ req'[p].role = r
                              /\ req'[p].actions = {}) => r \in plain'
  BY WriterSteps DEF BInvV1, Writer
<1>2. PICK q \in Procs : (StartV1(q) \/ WorkV1(q) \/ Cancel(q)) /\ Good(q)
  BY WriterSteps DEF BInvV1
<1>3. IInvV1 /\ ClothedRows /\ ClothedReads /\ ClothedWrite(q)
  BY DEF BInvV1, Dressed
<1>4. ASSUME NEW x \in Resources, NEW r \in RoleIDs, Clothed(tuples, plain, x, r)
      PROVE  Clothed(tuples', plain', x, r)
  BY <1>1, <1>2, <1>3, <1>4, StaysClothed DEF Clothed
<1>5. /\ tuples' \in SUBSET TuplesV1 /\ roleRow' \in [RoleIDs -> Resources \cup {None}]
      /\ roleRow \in [RoleIDs -> Resources \cup {None}]
      /\ \A p \in Procs : pend[p] # None =>
            pend[p].id \in RoleIDs /\ pend[p].val \in Resources \cup {None}
  BY <1>2, <1>3 DEF Good, IInvV1, TypesV1, TypeOKV1
<1>6. ClothedRows'
  <2> SUFFICES ASSUME NEW r \in RoleIDs, roleRow'[r] # None
               PROVE  Clothed(tuples', plain', roleRow'[r], r)
    BY DEF ClothedRows
  <2>1. CASE roleRow'[r] = roleRow[r]
    BY <1>3, <1>4, <1>5, <2>1 DEF ClothedRows
  <2>2. CASE roleRow'[r] # roleRow[r]
    <3>1. /\ q \notin over /\ pc[q] = "commit"
          /\ pend[q] # None /\ pend[q].id = r /\ pend[q].val = roleRow'[r]
      BY <1>2, <1>3, <2>2, WhoCommits
    <3> QED
      BY <1>3, <1>4, <1>5, <3>1 DEF ClothedWrite
  <2> QED
    BY <2>1, <2>2
<1>7. ClothedReads'
  BY <1>1, <1>3, <1>4 DEF ClothedReads
<1>8. ASSUME NEW p \in Procs PROVE ClothedWrite(p)'
  <2> SUFFICES ASSUME p \notin over', pend'[p] # None, pc'[p] # "writeRole", pend'[p].val # None
               PROVE  Clothed(tuples', plain', pend'[p].val, pend'[p].id)
    BY DEF ClothedWrite
  <2>1. CASE p # q
    <3>1. p \notin over /\ pend'[p] = pend[p] /\ pc'[p] = pc[p]
      BY <1>2, <2>1 DEF Good, Rely
    <3>2. ClothedWrite(p)
      BY DEF BInvV1, Dressed
    <3> QED
      BY <1>4, <1>5, <3>1, <3>2 DEF ClothedWrite
  <2>2. CASE p = q
    <3>1. /\ q \notin over
          /\ \/ pend'[q] = pend[q] /\ pc[q] # "writeRole"
             \/ pend'[q].val = None
             \/ pend'[q] = Write(req[q].role, roleRow[req[q].role]) /\ pc[q] = "updateRole"
             \/ /\ pend'[q] = pend[q] /\ pc[q] = "writeRole"
                /\ tuples' = (tuples \ upd[q].del) \cup upd[q].add
      BY <1>2, <1>3, <2>2, OwnWrite
    <3>2. CASE pend'[q] = pend[q] /\ pc[q] # "writeRole"
      BY <1>3, <1>4, <1>5, <2>2, <3>1, <3>2 DEF ClothedWrite
    <3>3. ASSUME pend'[q] = Write(req[q].role, roleRow[req[q].role]), Holds(q),
                 req[q].role \in RoleIDs
          PROVE  Clothed(tuples', plain', pend'[q].val, pend'[q].id)
      <4>1. roleRow[req[q].role] \in Resources /\ roleRow[req[q].role] # None
        BY <3>3, StoreAssumption DEF Holds
      <4>2. Clothed(tuples', plain', roleRow[req[q].role], req[q].role)
        BY <1>3, <1>4, <3>3, <4>1 DEF ClothedRows
      <4> QED
        BY <3>3, <4>2 DEF Write
    <3>4. CASE pend'[q] = Write(req[q].role, roleRow[req[q].role]) /\ pc[q] = "updateRole"
      <4>1. Holds(q) /\ req[q].role \in RoleIDs
        BY <1>3, <3>1, <3>4, OwnFacts DEF Mine, OpAtV1, RoleOps
      <4> QED
        BY <2>2, <3>3, <3>4, <4>1
    <3>5. CASE /\ pend'[q] = pend[q] /\ pc[q] = "writeRole"
               /\ tuples' = (tuples \ upd[q].del) \cup upd[q].add
      <4>1. req[q].op \in {"CreateRole", "UpdateRole"} /\ req[q].role \in RoleIDs
        BY <1>3, <3>5, OwnFacts DEF Mine, OpAtV1, RoleOps
      <4>2. CASE req[q].op = "UpdateRole"
        <5>1. Holds(q) /\ pend[q] = Write(req[q].role, roleRow[req[q].role])
          BY <1>3, <3>1, <3>5, <4>2, Planned
        <5> QED
          BY <2>2, <3>3, <3>5, <4>1, <5>1
      <4>3. CASE req[q].op = "CreateRole"
        <5>1. pend[q] = Write(req[q].role, req[q].res)
          BY <1>3, <3>1, <3>5, <4>3, Planned
        <5>2. Clothed(tuples', plain, req[q].res, req[q].role)
          BY <1>5, <3>1, <3>5, <4>3, WritesClothed
        <5> QED
          <6>1. Clothed(tuples', plain', req[q].res, req[q].role)
            BY <1>1, <5>2 DEF Clothed
          <6>2. pend'[p].val = req[q].res /\ pend'[p].id = req[q].role
            BY <2>2, <3>5, <5>1 DEF Write
          <6> QED
            BY <6>1, <6>2
      <4> QED
        BY <4>1, <4>2, <4>3
    <3> QED
      BY <2>2, <3>1, <3>2, <3>4, <3>5
  <2> QED
    BY <2>1, <2>2
<1>9. ASSUME NEW p \in Procs PROVE PlainRequest(p)'
  <2> SUFFICES ASSUME req'[p].op = "CreateRole", req'[p].actions = {}
               PROVE  req'[p].role \in plain'
    BY DEF PlainRequest
  <2>1. PlainRequest(p)
    BY DEF BInvV1, Dressed
  <2>2. req'[p] = req[p] \/ req'[p].role \in issued' \ issued
    BY <1>2, <1>3, WhoAsks
  <2> QED
    BY <1>1, <2>1, <2>2 DEF PlainRequest
<1> QED
  BY <1>6, <1>7, <1>8, <1>9 DEF Dressed

LEMMA NextDressed == BInvV1 /\ [ReadNext]_allVars => BInvV1'
<1> SUFFICES ASSUME BInvV1, [ReadNext]_allVars PROVE BInvV1'
  OBVIOUS
<1>1. IInvV1'
  BY ReadsAreSteps, NextInvV1 DEF BInvV1
<1>2. ASSUME UNCHANGED vars, UNCHANGED plain
      PROVE  ClothedRows' /\ \A p \in Procs : ClothedWrite(p)' /\ PlainRequest(p)'
  <2>1. UNCHANGED <<roleRow, tuples, plain, over, pend, pc, req>>
    BY <1>2 DEF vars, dbVars, procVars
  <2>2. ClothedRows /\ \A p \in Procs : ClothedWrite(p) /\ PlainRequest(p)
    BY DEF BInvV1, Dressed
  <2> QED
    BY <2>1, <2>2 DEF ClothedRows, ClothedWrite, PlainRequest
<1>3. CASE UNCHANGED allVars
  <2>1. UNCHANGED <<vars, plain, tuples, rpc, on, rows, found, calm>>
    BY <1>3 DEF allVars, readVars, vars
  <2>2. ReadTypes' /\ ClothedReads'
    BY <2>1 DEF BInvV1, ReadTypes, Dressed, ClothedReads
  <2> QED
    BY <1>1, <1>2, <2>1, <2>2 DEF BInvV1, Dressed
<1>4. CASE Writer
  BY <1>1, <1>4, WriterDressed, WriterSteps DEF BInvV1
<1>5. ASSUME NEW d \in Readers, Reader(d)
      PROVE  BInvV1'
  <2>1. /\ ReadTypes' /\ UNCHANGED vars /\ UNCHANGED plain
        /\ \A e \in Readers \ {d} : rpc'[e] = rpc[e] /\ on'[e] = on[e] /\ rows'[e] = rows[e]
    BY <1>5, ReaderSteps DEF BInvV1
  <2>2. tuples' = tuples /\ plain' = plain
    BY <2>1 DEF vars
  <2>3. ClothedRows /\ ClothedReads /\ roleRow \in [RoleIDs -> Resources \cup {None}]
    BY DEF BInvV1, Dressed, IInvV1, TypesV1, TypeOKV1
  <2>4. ASSUME rpc'[d] \in {"listing", "getting"}
        PROVE  /\ on'[d] \in Resources
               /\ \A r \in rows'[d] : r \in RoleIDs /\ roleRow[r] = on'[d] /\ roleRow[r] # None
    <3>1. CASE rpc'[d] = "listing"
      <4>1. on'[d] \in Resources /\ rows'[d] = ListResourceRoles(on'[d])
        BY <1>5, <3>1, ReaderSteps DEF BInvV1
      <4> QED
        BY <4>1, StoreAssumption DEF ListResourceRoles
    <3>2. CASE rpc'[d] = "getting"
      <4>1. PICK r \in RoleIDs : rows'[d] = {r} /\ on'[d] = roleRow[r] /\ roleRow[r] # None
        BY <1>5, <3>2, ReaderSteps DEF BInvV1
      <4> QED
        BY <2>3, <4>1
    <3> QED
      BY <2>4, <3>1, <3>2
  <2>5. ClothedReads'
    <3> SUFFICES ASSUME NEW e \in Readers, rpc'[e] \in {"listing", "getting"}
                 PROVE  /\ on'[e] \in Resources
                        /\ \A r \in rows'[e] : r \in RoleIDs /\ Clothed(tuples', plain', on'[e], r)
      BY DEF ClothedReads
    <3>1. CASE e # d
      BY <2>1, <2>2, <2>3, <3>1 DEF ClothedReads
    <3>2. CASE e = d
      BY <2>2, <2>3, <2>4, <3>2 DEF ClothedRows
    <3> QED
      BY <3>1, <3>2
  <2> QED
    BY <1>1, <1>2, <2>1, <2>5 DEF BInvV1, Dressed
<1> QED
  BY <1>3, <1>4, <1>5 DEF ReadNext

(* Whatever fails and whoever writes meanwhile, neither ListRoles nor      *)
(* GetRole shows a role without actions that was created with some.        *)
THEOREM RolesV1NeverShownBare == ReadSpec => NeverShownBare
<1>1. ASSUME BInvV1, [ReadNext]_allVars
      PROVE  [\A d \in Readers : Answers(d) =>
                \A e \in found'[d] : e.actions = {} => e.role \in plain]_allVars
  <2> SUFFICES ASSUME ReadNext, NEW d \in Readers, Answers(d),
                      NEW e \in found'[d], e.actions = {}
               PROVE  e.role \in plain
    BY <1>1
  <2>1. rpc[d] \in {"listing", "getting"} /\ rpc'[d] = "answered" /\ rpc'[d] # rpc[d]
    BY DEF Answers
  <2>2. PICK f \in Readers : Reader(f)
    BY <1>1, <2>1, WriterSteps DEF ReadNext, BInvV1
  <2>3. f = d /\ found'[d] = {Shown(on[d], i) : i \in rows[d]}
    BY <1>1, <2>1, <2>2, ReaderSteps DEF BInvV1
  <2>4. PICK r \in rows[d] : e = Shown(on[d], r)
    BY <2>3
  <2>5. Clothed(tuples, plain, on[d], r)
    BY <1>1, <2>1 DEF BInvV1, Dressed, ClothedReads
  <2>6. e.role = r /\ ActionsIn(tuples, on[d], r) = {}
    BY <2>4 DEF Shown, ActionsOn, ActionsIn, relationToAction
  <2> QED
    BY <2>5, <2>6 DEF Clothed
<1> QED
  BY <1>1, InitDressed, NextDressed, PTL DEF ReadSpec, NeverShownBare
=============================================================================
