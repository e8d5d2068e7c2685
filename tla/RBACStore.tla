----------------------------- MODULE RBACStore -----------------------------
(***************************************************************************)
(* The two stores behind the query engine and what a request does to them. *)
(*                                                                         *)
(*  - the SQL database (CockroachDB): the tables roles, rolebindings and   *)
(*    zedtokens, one transaction per request, rows locked by SELECT ...    *)
(*    FOR UPDATE and by uncommitted writes until the transaction ends;     *)
(*  - SpiceDB: a set of relationship tuples, written atomically per call;  *)
(*  - the requests: goroutines of the HTTP server, each running one engine *)
(*    operation at a time.  One action is one call to one of the stores.   *)
(*                                                                         *)
(* Every engine operation writes both stores and no transaction spans      *)
(* them.  A call that can fail names its failure kind; the constant        *)
(* Failures says which kinds may occur.                                    *)
(***************************************************************************)
EXTENDS Naturals, FiniteSets

CONSTANTS
    Procs,       \* the requests being served at the same time
    RoleIDs,     \* identifiers gidx.NewID may hand out for roles
    BindingIDs,  \* ... and for role bindings
    Resources,   \* resources that own roles and carry role bindings
    Subjects,    \* users, clients, groups: what a role binding is for
    Actions,     \* the actions a role may hold
    Above,       \* Above[x]: the resources whose roles are available on x
    Failures,    \* the kinds of failure that may occur
    None         \* no process, no row, no pending write

(***************************************************************************)
(* The kinds of failure, by the call that fails:                           *)
(*   begin      BeginTx                                                    *)
(*   lock       SELECT ... FOR UPDATE                                      *)
(*   read       a SELECT, or a SpiceDB read or permission check            *)
(*   stream     the stream of a listing of roles breaks off                *)
(*   row        an INSERT, UPDATE or DELETE that precedes the SpiceDB      *)
(*              write, or building the updates of that write               *)
(*   spice      the SpiceDB write is rejected                              *)
(*   spiceLost  the SpiceDB write is applied and its answer is lost        *)
(*   unlink     one of the two deletions of DeleteRoleV2 is rejected       *)
(*   zed        the zedtoken UPSERT, after the SpiceDB write               *)
(*   lateRow    the UPDATE or DELETE of a binding, after the SpiceDB write *)
(*   commit     COMMIT fails, the transaction is aborted                   *)
(*   commitLost COMMIT is applied and its answer is lost                   *)
(*   undo       the SpiceDB write of rollbackUpdates                       *)
(*   cancel     the request's context ends: every later call fails         *)
(***************************************************************************)
FailureKinds == {"begin", "lock", "read", "stream", "row", "spice", "spiceLost",
                 "unlink", "zed", "lateRow", "commit", "commitLost", "undo", "cancel"}

RoleOps    == {"CreateRole", "UpdateRole", "DeleteRole"}
BindingOps == {"CreateBinding", "UpdateBinding", "DeleteBinding"}

ASSUME StoreAssumption ==
    /\ Failures \subseteq FailureKinds
    /\ Above \in [Resources -> SUBSET Resources]
    /\ None \notin Procs \cup Resources
    /\ RoleIDs \cap BindingIDs = {}
    /\ (RoleIDs \cup BindingIDs) \cap Resources = {}

VARIABLES
    roleRow,   \* table roles: owner of each role, or None
    rbRow,     \* table rolebindings: resource of each binding, or None
    born,      \* history: the identifiers whose row was ever committed
    issued,    \* the identifiers handed out so far
    tuples,    \* the relationships held by SpiceDB
    tx,        \* the requests whose transaction is open
    pend,      \* the uncommitted write of each transaction, or None
    lock,      \* holder of each row of roles and rolebindings, or None
    zlock,     \* holder of each row of zedtokens, or None
    over,      \* the requests whose context has ended
    pc,        \* where each request is
    req,       \* what each request asks for
    upd,       \* the updates of the request's SpiceDB write
    zed,       \* the zedtokens it has yet to store
    ans        \* what the operation returned

dbVars   == <<roleRow, rbRow, born, tx, pend, lock, zlock>>
procVars == <<pc, req, upd, zed, ans>>
vars     == <<dbVars, issued, tuples, over, procVars>>

-----------------------------------------------------------------------------
(* Relationships, by relation.  The identifiers carry their type.          *)

RoleAction(r, a)   == [rel |-> "action", obj |-> r, sub |-> a]
RoleOwner(r, x)    == [rel |-> "owner", obj |-> r, sub |-> x]
MemberRole(x, r)   == [rel |-> "member_role", obj |-> x, sub |-> r]
BindingRole(b, r)  == [rel |-> "role", obj |-> b, sub |-> r]
BindingSubject(b, s) == [rel |-> "subject", obj |-> b, sub |-> s]
Grant(x, b)        == [rel |-> "grant", obj |-> x, sub |-> b]

Tuples == [rel : {"action"}, obj : RoleIDs, sub : Actions]
     \cup [rel : {"owner"}, obj : RoleIDs, sub : Resources]
     \cup [rel : {"member_role"}, obj : Resources, sub : RoleIDs]
     \cup [rel : {"role"}, obj : BindingIDs, sub : RoleIDs]
     \cup [rel : {"subject"}, obj : BindingIDs, sub : Subjects]
     \cup [rel : {"grant"}, obj : Resources, sub : BindingIDs]

ActionsOf(r)   == {a \in Actions : RoleAction(r, a) \in tuples}
SubjectsOf(b)  == {s \in Subjects : BindingSubject(b, s) \in tuples}
FromRole(r)    == {t \in tuples : t.rel \in {"action", "owner"} /\ t.obj = r}
ToRole(r)      == {t \in tuples : t.rel = "member_role" /\ t.sub = r}
FromBinding(b) == {t \in tuples : t.rel \in {"role", "subject"} /\ t.obj = b}
ToBinding(b)   == {t \in tuples : t.rel = "grant" /\ t.sub = b}

(* mutant: roles are not inherited from the resources above                *)
AvailableOwn(r, x) == MemberRole(x, r) \in tuples

(* permission avail_role: the roles of the resource and of those above it  *)
Available(r, x) == \E y \in Above[x] : MemberRole(y, r) \in tuples

-----------------------------------------------------------------------------
(* Requests and their updates.                                             *)

NoRequest == [op |-> "none"]

Requests ==
         [op : {"CreateRole"}, role : RoleIDs, res : Resources, actions : SUBSET Actions]
    \cup [op : {"UpdateRole"}, role : RoleIDs, rename : BOOLEAN, actions : SUBSET Actions]
    \cup [op : {"DeleteRole"}, role : RoleIDs]
    \cup [op : {"CreateBinding"}, rb : BindingIDs, role : RoleIDs, res : Resources,
          subjects : SUBSET Subjects]
    \cup [op : {"UpdateBinding"}, rb : BindingIDs, subjects : SUBSET Subjects]
    \cup [op : {"DeleteBinding"}, rb : BindingIDs]

Update(touch, delete) == [add |-> touch, del |-> delete]
NoUpdate == Update({}, {})

(* mutant: the subjects' identifiers are stored instead                    *)
WrittenSubjects(u) == {t.sub : t \in u.add \cup u.del}

(* identifiers of the objects an update list writes: each gets a zedtoken  *)
Written(u) == {t.obj : t \in u.add \cup u.del}

Write(id, val) == [id |-> id, val |-> val]
Writes == [id : RoleIDs \cup BindingIDs, val : Resources \cup {None}]

ASSUME WriteAssumption == None \notin Writes

Labels == {"idle", "begin", "returned", "commit",
           "insertRole", "writeRole", "lockRole", "getRole", "updateRole",
           "findBindings", "deleteRole", "unlinkFrom", "unlinkTo", "unlinked",
           "bindable", "readRole", "insertBinding", "lockBinding", "getBinding",
           "readFrom", "readTo", "apply", "zed", "touchBinding", "deleteBinding",
           "undo", "undoTwice"}

-----------------------------------------------------------------------------
Goto(p, l) == pc' = [pc EXCEPT ![p] = l]

Return(p, a) == Goto(p, "returned") /\ ans' = [ans EXCEPT ![p] = a]

(* A call with p's context succeeds only while the context lives; it fails *)
(* when that kind of failure is considered, and always once it has ended.  *)
Up(p)       == p \notin over
Fails(p, k) == k \in Failures \/ p \in over

(* The row with this identifier is not being written by another request:   *)
(* a plain read waits for an uncommitted write.                            *)
Readable(p, id) == \A q \in Procs \ {p} : pend[q] # None => pend[q].id # id

(* GetRoleByID and GetRoleBindingByID, which take no lock.                 *)
RoleFound(p, r)      == Readable(p, r) /\ roleRow[r] # None
RoleMissing(p, r)    == Readable(p, r) /\ roleRow[r] = None
BindingFound(p, b)   == Readable(p, b) /\ rbRow[b] # None
BindingMissing(p, b) == Readable(p, b) /\ rbRow[b] = None

Released(l, p) == [x \in DOMAIN l |-> IF l[x] = p THEN None ELSE l[x]]

EndTx(p) ==
    /\ tx' = tx \ {p}
    /\ pend' = [pend EXCEPT ![p] = None]
    /\ lock' = Released(lock, p)
    /\ zlock' = Released(zlock, p)

(* tx.Rollback; rolling back a finished transaction is a logged error and  *)
(* changes nothing.                                                        *)
RollbackContext(p) == EndTx(p) /\ UNCHANGED <<roleRow, rbRow, born>>

ApplyWrite(p) ==
    LET w == pend[p] IN
    /\ roleRow' = IF w # None /\ w.id \in RoleIDs
                  THEN [roleRow EXCEPT ![w.id] = w.val] ELSE roleRow
    /\ rbRow' = IF w # None /\ w.id \in BindingIDs
                THEN [rbRow EXCEPT ![w.id] = w.val] ELSE rbRow
    /\ born' = IF w # None /\ w.val # None THEN born \cup {w.id} ELSE born

CommitContext(p) == EndTx(p) /\ ApplyWrite(p)

RollbackAndFail(p) ==
    RollbackContext(p) /\ Return(p, "error") /\ UNCHANGED <<issued, tuples, over, req, upd, zed>>

(* an early return that leaves the transaction open                        *)
FailOpen(p) ==
    Return(p, "error") /\ UNCHANGED <<dbVars, issued, tuples, over, req, upd, zed>>

-----------------------------------------------------------------------------
(* Steps every request takes.                                              *)

(* A request for operation r arrives and is served by p.                   *)
StartAt(p, r, l) ==
    /\ pc[p] = "idle"
    /\ Goto(p, l)
    /\ req' = [req EXCEPT ![p] = r]
    /\ UNCHANGED <<dbVars, tuples, over, upd, zed, ans>>

(* BeginContext.  The Create operations return a nil error when it fails.  *)
Begin(p, next) ==
    /\ pc[p] = "begin"
    /\ \/ /\ Up(p)
          /\ tx' = tx \cup {p}
          /\ Goto(p, next)
          /\ UNCHANGED ans
       \/ /\ Fails(p, "begin")
          /\ Return(p, IF req[p].op \in {"CreateRole", "CreateBinding"} THEN "ok" ELSE "error")
          /\ UNCHANGED tx
    /\ UNCHANGED <<roleRow, rbRow, born, pend, lock, zlock, issued, tuples, over, req, upd, zed>>

(* SELECT ... FOR UPDATE on the row of id: waits for the holder of the row *)
LockForUpdate(p, id, present, next) ==
    \/ /\ Up(p)
       /\ lock[id] = None /\ present
       /\ lock' = [lock EXCEPT ![id] = p]
       /\ Goto(p, next)
       /\ UNCHANGED <<roleRow, rbRow, born, tx, pend, zlock, issued, tuples, over, req, upd, zed, ans>>
    \/ /\ Up(p)
       /\ lock[id] = None /\ ~present
       /\ RollbackAndFail(p)
    \/ /\ Fails(p, "lock")
       /\ RollbackAndFail(p)

(* An INSERT, UPDATE or DELETE of one row, as the transaction's write.     *)
WriteRow(p, w, next) ==
    /\ Up(p) /\ lock[w.id] \in {None, p}
    /\ pend' = [pend EXCEPT ![p] = w]
    /\ lock' = [lock EXCEPT ![w.id] = p]
    /\ Goto(p, next)
    /\ UNCHANGED <<roleRow, rbRow, born, tx, zlock, issued, over, req, zed, ans>>

(* The handler has answered: the server ends the request's context, and    *)
(* database/sql rolls back a transaction still open on it.                 *)
RequestEnd(p) ==
    /\ pc[p] = "returned"
    /\ RollbackContext(p)
    /\ Goto(p, "idle")
    /\ req' = [req EXCEPT ![p] = NoRequest]
    /\ upd' = [upd EXCEPT ![p] = NoUpdate]
    /\ zed' = [zed EXCEPT ![p] = {}]
    /\ ans' = [ans EXCEPT ![p] = "none"]
    /\ over' = over \ {p}
    /\ UNCHANGED <<issued, tuples>>

(* The client goes away while the handler runs.                            *)
Cancel(p) ==
    /\ "cancel" \in Failures
    /\ pc[p] \notin {"idle", "returned"} /\ p \notin over
    /\ over' = over \cup {p}
    /\ UNCHANGED <<dbVars, issued, tuples, procVars>>

(* ... and database/sql rolls its transaction back while it still runs.    *)
AbortTx(p) ==
    /\ p \in over /\ p \in tx
    /\ RollbackContext(p)
    /\ UNCHANGED <<issued, tuples, over, procVars>>

Init ==
    /\ roleRow = [r \in RoleIDs |-> None]
    /\ rbRow = [b \in BindingIDs |-> None]
    /\ born = {} /\ issued = {} /\ tuples = {} /\ tx = {} /\ over = {}
    /\ pend = [p \in Procs |-> None]
    /\ lock = [id \in RoleIDs \cup BindingIDs |-> None]
    /\ zlock = [id \in BindingIDs \cup Resources |-> None]
    /\ pc = [p \in Procs |-> "idle"]
    /\ req = [p \in Procs |-> NoRequest]
    /\ upd = [p \in Procs |-> NoUpdate]
    /\ zed = [p \in Procs |-> {}]
    /\ ans = [p \in Procs |-> "none"]

TypeOK ==
    /\ roleRow \in [RoleIDs -> Resources \cup {None}]
    /\ rbRow \in [BindingIDs -> Resources \cup {None}]
    /\ born \subseteq RoleIDs \cup BindingIDs
    /\ issued \subseteq RoleIDs \cup BindingIDs
    /\ tuples \subseteq Tuples
    /\ tx \subseteq Procs /\ over \subseteq Procs
    /\ pend \in [Procs -> Writes \cup {None}]
    /\ lock \in [RoleIDs \cup BindingIDs -> Procs \cup {None}]
    /\ zlock \in [BindingIDs \cup Resources -> Procs \cup {None}]
    /\ pc \in [Procs -> Labels]
    /\ req \in [Procs -> Requests \cup {NoRequest}]
    /\ upd \in [Procs -> [add : SUBSET Tuples, del : SUBSET Tuples]]
    /\ zed \in [Procs -> SUBSET (BindingIDs \cup Resources)]
    /\ ans \in [Procs -> {"none", "ok", "error"}]
=============================================================================
