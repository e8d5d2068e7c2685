----------------------------- MODULE RBACReaders -----------------------------
(***************************************************************************)
(* The listings of the query engine, running beside the operations that    *)
(* change roles and bindings: listRoleBindings (ListRoleBindings and       *)
(* ListManagerRoleBindings, with GetRoleBinding for each grant) and        *)
(* ListRolesV2.  A listing reads SpiceDB, then SQL, then SpiceDB again,    *)
(* with no transaction and no lock.  Filtering by role or manager is left  *)
(* out: it only shortens the answer.                                       *)
(***************************************************************************)
EXTENDS RBAC

CONSTANT Readers   \* the listings being served at the same time

VARIABLES
    rpc,     \* where each listing is
    on,      \* the resource it lists
    todo,    \* identifiers it has yet to look up
    cur,     \* the binding it is looking up, or None
    found,   \* the answer gathered so far
    errs,    \* the errors gathered so far
    calm     \* history: identifiers settled since the listing began

readVars == <<rpc, on, todo, cur, found, errs, calm>>
allVars  == <<vars, readVars>>

ReaderLabels == {"idle", "row", "rels", "batch", "answered"}

ListInit ==
    /\ Init
    /\ rpc = [d \in Readers |-> "idle"]
    /\ on = [d \in Readers |-> None]
    /\ todo = [d \in Readers |-> {}]
    /\ cur = [d \in Readers |-> None]
    /\ found = [d \in Readers |-> {}]
    /\ errs = [d \in Readers |-> {}]
    /\ calm = [d \in Readers |-> {}]

GotoR(d, l) == rpc' = [rpc EXCEPT ![d] = l]

(* 1. list all grants on the resource                                      *)
ReadGrants(d) ==
    /\ rpc[d] = "idle"
    /\ \E x \in Resources :
          /\ on' = [on EXCEPT ![d] = x]
          /\ todo' = [todo EXCEPT ![d] = {b \in BindingIDs : Grant(x, b) \in tuples}]
    /\ calm' = [calm EXCEPT ![d] = {id \in RoleIDs \cup BindingIDs : Settled(id)}]
    /\ GotoR(d, "row")
    /\ UNCHANGED <<vars, cur, found, errs>>

(* 2. fetch role-binding details for each grant: its row ...               *)
FetchRow(d) ==
    /\ rpc[d] = "row"
    /\ \E b \in todo[d] :
          /\ \/ /\ BindingFound(None, b)
                /\ cur' = [cur EXCEPT ![d] = b] /\ GotoR(d, "rels")
                /\ UNCHANGED <<todo, errs>>
             \/ /\ BindingMissing(None, b)
                /\ errs' = [errs EXCEPT ![d] = @ \cup {"dangling"}]
                /\ todo' = [todo EXCEPT ![d] = @ \ {b}]
                /\ UNCHANGED <<rpc, cur>>
    /\ UNCHANGED <<vars, on, found, calm>>

Listed(b, r, subjs) == [rb |-> b, role |-> r, subjects |-> subjs]

(* mutant: a binding without subjects is listed like any other             *)
FetchRelsAll(d) ==
    LET b == cur[d] IN
    /\ rpc[d] = "rels"
    /\ found' = [found EXCEPT ![d] = @ \cup {Listed(b, r, SubjectsOf(b)) : r \in RolesOf(b)}]
    /\ todo' = [todo EXCEPT ![d] = @ \ {b}]
    /\ cur' = [cur EXCEPT ![d] = None]
    /\ GotoR(d, "row")
    /\ UNCHANGED <<vars, on, errs, calm>>

(* ... and its relationships; a binding without subjects is not listed.    *)
FetchRels(d) ==
    LET b == cur[d] IN
    /\ rpc[d] = "rels"
    /\ IF FromBinding(b) = {}
       THEN /\ errs' = [errs EXCEPT ![d] = @ \cup {"noRelationships"}]
            /\ UNCHANGED found
       ELSE /\ found' = [found EXCEPT ![d] = @ \cup
                          IF SubjectsOf(b) = {} THEN {}
                          ELSE {Listed(b, r, SubjectsOf(b)) : r \in RolesOf(b)}]
            /\ UNCHANGED errs
    /\ todo' = [todo EXCEPT ![d] = @ \ {b}]
    /\ cur' = [cur EXCEPT ![d] = None]
    /\ GotoR(d, "row")
    /\ UNCHANGED <<vars, on, calm>>

(* Any error gathered fails the whole listing.                             *)
AnswerBindings(d) ==
    /\ rpc[d] = "row" /\ todo[d] = {}
    /\ GotoR(d, "answered")
    /\ UNCHANGED <<vars, on, todo, cur, found, errs, calm>>

(* ListRolesV2: LookupSubjects of avail_role, streamed; an error in the    *)
(* stream ends the loop and the roles received so far are used.            *)
LookupRoles(d) ==
    /\ rpc[d] = "idle"
    /\ \E x \in Resources :
          LET all == {r \in RoleIDs : Available(r, x)} IN
          \E got \in SUBSET all :
             /\ got = all \/ "stream" \in Failures
             /\ on' = [on EXCEPT ![d] = x]
             /\ todo' = [todo EXCEPT ![d] = got]
    /\ calm' = [calm EXCEPT ![d] = {id \in RoleIDs \cup BindingIDs : Settled(id)}]
    /\ GotoR(d, "batch")
    /\ UNCHANGED <<vars, cur, found, errs>>

(* ... then BatchGetRoleByID: an identifier without a row is skipped.      *)
BatchGetRoles(d) ==
    /\ rpc[d] = "batch"
    /\ \A r \in todo[d] : Readable(None, r)
    /\ found' = [found EXCEPT ![d] = {r \in todo[d] : roleRow[r] # None}]
    /\ todo' = [todo EXCEPT ![d] = {}]
    /\ GotoR(d, "answered")
    /\ UNCHANGED <<vars, on, cur, errs, calm>>

Forget(d) ==
    /\ rpc[d] = "answered"
    /\ GotoR(d, "idle")
    /\ on' = [on EXCEPT ![d] = None]
    /\ found' = [found EXCEPT ![d] = {}]
    /\ errs' = [errs EXCEPT ![d] = {}]
    /\ calm' = [calm EXCEPT ![d] = {}]
    /\ UNCHANGED <<vars, todo, cur>>

Writer ==
    /\ Next
    /\ calm' = [d \in Readers |-> {id \in calm[d] : Settled(id)'}]
    /\ UNCHANGED <<rpc, on, todo, cur, found, errs>>

Reader(d) == \/ ReadGrants(d) \/ FetchRow(d) \/ FetchRels(d) \/ AnswerBindings(d)
             \/ LookupRoles(d) \/ BatchGetRoles(d) \/ Forget(d)

ListNext == Writer \/ \E d \in Readers : Reader(d)
ListSpec == ListInit /\ [][ListNext]_allVars

-----------------------------------------------------------------------------
(* The steps that end a listing of bindings, and of roles.                 *)
EndsBindings(d) == rpc[d] = "row" /\ rpc'[d] = "answered"
EndsRoles(d)    == rpc[d] = "batch" /\ rpc'[d] = "answered"

(* What a listing without errors says of a binding that no request touched *)
(* meanwhile is exact: the binding is listed once, with its role and its   *)
(* subjects, if and only if it is granted on the resource and has any.     *)
(* Changes to the other bindings do not blur it.                           *)
ListedExactly ==
    [][\A d \in Readers : EndsBindings(d) /\ errs[d] = {} =>
         \A b \in BindingIDs \cap calm[d] :
            {e \in found[d] : e.rb = b} =
               IF Grant(on[d], b) \in tuples /\ SubjectsOf(b) # {}
               THEN {Listed(b, r, SubjectsOf(b)) : r \in RolesOf(b)} ELSE {}]_allVars

(* A listing of roles returns, of the roles no request touched meanwhile   *)
(* and whose two halves agree, exactly those whose row names the resource  *)
(* or one above it as owner.                                               *)
RolesListedExactly ==
    [][\A d \in Readers : EndsRoles(d) =>
         \A r \in RoleIDs \cap calm[d] :
            (roleRow[r] # None => MemberRole(roleRow[r], r) \in tuples)
               => (r \in found'[d] <=> roleRow[r] \in Above[on[d]])]_allVars
=============================================================================
