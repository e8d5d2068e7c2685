--------------------------- MODULE RolesV1Readers ---------------------------
(***************************************************************************)
(* The reads of V1 roles beside the operations that change them: ListRoles *)
(* and GetRole.  Each reads rows and then SpiceDB, without a transaction   *)
(* or a lock.  ListManagerRoles is ListRoles with a filter on a column     *)
(* that is not modelled.                                                   *)
(***************************************************************************)
EXTENDS RolesV1

CONSTANT Readers   \* the reads being served at the same time

VARIABLES
    rpc,    \* where each read is
    on,     \* the resource it reads
    rows,   \* the roles whose rows it has read
    found,  \* what it answers
    calm,   \* history: the roles whose row nobody has held since it began
    plain   \* history: the roles created without any action

readVars == <<rpc, on, rows, found, calm, plain>>
allVars  == <<vars, readVars>>

ReadInit ==
    /\ Init
    /\ rpc = [d \in Readers |-> "idle"] /\ on = [d \in Readers |-> None]
    /\ rows = [d \in Readers |-> {}] /\ found = [d \in Readers |-> {}]
    /\ calm = [d \in Readers |-> {}]
    /\ plain = {}

ReadRows(d, l, x, rs) ==
    /\ rpc[d] = "idle"
    /\ rpc' = [rpc EXCEPT ![d] = l]
    /\ on' = [on EXCEPT ![d] = x]
    /\ rows' = [rows EXCEPT ![d] = rs]
    /\ calm' = [calm EXCEPT ![d] = {r \in RoleIDs : lock[r] = None}]
    /\ UNCHANGED <<vars, found, plain>>

ListResourceRoles(x) == {r \in RoleIDs : roleRow[r] = x}

(* ListRoles selects the rows of a resource, GetRole the row of a role.    *)
ListRows(d) ==
    /\ \A r \in RoleIDs : Readable(None, r)
    /\ \E x \in Resources : ReadRows(d, "listing", x, ListResourceRoles(x))

GetRow(d) ==
    \E r \in RoleIDs \cap issued :
        /\ RoleFound(None, r)
        /\ ReadRows(d, "getting", roleRow[r], {r})

(* relationshipsToRoles: what the tuples say each role may do on x         *)
Shown(x, r) == [role |-> r, actions |-> ActionsOn(x, r)]

Answer(d, f) ==
    /\ rpc[d] \in {"listing", "getting"}
    /\ rpc' = [rpc EXCEPT ![d] = "answered"]
    /\ found' = [found EXCEPT ![d] = f]
    /\ UNCHANGED <<vars, on, rows, calm, plain>>

(* mutant: the answer is made from the tuples and not from the rows        *)
ReadActionsOnly(d) == Answer(d, {e \in {Shown(on[d], r) : r \in RoleIDs} : e.actions # {}})

(* One read of SpiceDB.  A role without actions is listed without any, and *)
(* the actions of roles without a row are dropped.                         *)
ReadActions(d) == Answer(d, {Shown(on[d], r) : r \in rows[d]})

Forget(d) ==
    /\ rpc[d] = "answered"
    /\ rpc' = [rpc EXCEPT ![d] = "idle"] /\ on' = [on EXCEPT ![d] = None]
    /\ rows' = [rows EXCEPT ![d] = {}] /\ found' = [found EXCEPT ![d] = {}]
    /\ calm' = [calm EXCEPT ![d] = {}]
    /\ UNCHANGED <<vars, plain>>

Writer ==
    /\ NextV1
    /\ calm' = [d \in Readers |-> {r \in calm[d] : lock'[r] = None}]
    /\ plain' = plain \cup {r \in issued' \ issued :
                    \E p \in Procs : req'[p].op = "CreateRole" /\ req'[p].role = r
                                      /\ req'[p].actions = {}}
    /\ UNCHANGED <<rpc, on, rows, found>>

Reader(d) == ListRows(d) \/ GetRow(d) \/ ReadActions(d) \/ Forget(d)

ReadNext == Writer \/ \E d \in Readers : Reader(d)
ReadSpec == ReadInit /\ [][ReadNext]_allVars

-----------------------------------------------------------------------------
Answers(d) == rpc[d] \in {"listing", "getting"} /\ rpc'[d] = "answered"

(* ListRoles returns, of the roles nobody touched meanwhile, exactly those *)
(* whose row names the resource, each with the actions it has there: those *)
(* without actions too, and none that has lost its row.                    *)
RolesListedExactlyV1 ==
    [][\A d \in Readers : Answers(d) /\ rpc[d] = "listing" =>
         \A r \in RoleIDs \cap calm[d] :
            {e \in found'[d] : e.role = r} =
               IF roleRow[r] = on[d] THEN {Shown(on[d], r)} ELSE {}]_allVars

(* Rows are read before tuples, tuples are written before the row is       *)
(* committed, and an update without actions changes none: whatever fails   *)
(* and whoever writes meanwhile, a role created with actions is never      *)
(* shown without any.                                                      *)
NeverShownBare ==
    [][\A d \in Readers : Answers(d) =>
         \A e \in found'[d] : e.actions = {} => e.role \in plain]_allVars
=============================================================================
