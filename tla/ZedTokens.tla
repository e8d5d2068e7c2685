------------------------------ MODULE ZedTokens ------------------------------
(***************************************************************************)
(* Relationship updates that arrive over NATS, the zedtokens they store,   *)
(* and the permission checks that use them.                                *)
(*                                                                         *)
(* Each replica of the server listens for requests to write or delete the  *)
(* relationships of a resource, applies them to SpiceDB in one write,      *)
(* stores the write's token for every resource named, replies and acks.    *)
(* A check reads the token of its resource and asks SpiceDB for data at    *)
(* least as fresh, or, without a token, for whatever it has at hand.       *)
(*                                                                         *)
(* Only the age of the data matters here: SpiceDB is its latest revision,  *)
(* a token is the number of the revision it was issued at, 0 is no token.  *)
(***************************************************************************)
EXTENDS Naturals, FiniteSets

CONSTANTS
    Listeners,  \* the goroutines that serve requests, one per replica
    Objects,    \* resources and the subjects of their relationships
    Updates,    \* the requests: [res |-> a resource, subs |-> its subjects]
    Failures,   \* the kinds of failure that may occur
    MaxRev      \* bound on the number of SpiceDB writes

(* spice: the write is rejected; spiceLost: it is applied and its answer   *)
(* lost; begin, upsert, commit: of the transaction that stores the tokens; *)
(* reply: the reply or the Ack is lost; read: the token cannot be read.    *)
FailureKinds == {"spice", "spiceLost", "begin", "upsert", "commit", "reply", "read"}

ASSUME ZedTokensAssumption ==
    /\ Updates \subseteq [res : Objects, subs : SUBSET Objects]
    /\ Failures \subseteq FailureKinds
    /\ MaxRev \in Nat
    /\ "no listener" \notin Listeners

VARIABLES
    rev,        \* SpiceDB's latest revision
    low,        \* the oldest revision it may use to answer at once
    token,      \* table zedtokens
    holder,     \* the transaction that holds each of its rows, or NoOne
    pc, msg,    \* where each listener is and its request
    written,    \* the revision of its SpiceDB write, or 0
    todo,       \* resources whose token it has yet to store
    ans,        \* what it will reply
    redeliver,  \* requests to be delivered again
    kept,       \* history: the listeners whose tokens are committed
    alone,      \* history: resources no other request has named since
    acked,      \* history: revision of the last update answered "ok"
    spoiled     \* history: resources whose token is not to be relied on

listenVars == <<pc, msg, written, todo, ans, redeliver>>
history    == <<kept, alone, acked, spoiled>>
vars       == <<rev, low, token, holder, listenVars, history>>

NoOne  == "no listener"
NoMsg  == [res |-> "none", subs |-> {}]

(* every resource in the list of relationships, subjects included          *)
Named(u) == ({u.res} \cup u.subs) \ {"none"}

Init ==
    /\ rev = 0 /\ low = 0
    /\ token = [x \in Objects |-> 0]
    /\ holder = [x \in Objects |-> NoOne]
    /\ pc = [p \in Listeners |-> "idle"]
    /\ msg = [p \in Listeners |-> NoMsg]
    /\ written = [p \in Listeners |-> 0]
    /\ todo = [p \in Listeners |-> {}]
    /\ ans = [p \in Listeners |-> "none"]
    /\ redeliver = {}
    /\ kept = {}
    /\ alone = [p \in Listeners |-> {}]
    /\ acked = [x \in Objects |-> 0]
    /\ spoiled = {}

-----------------------------------------------------------------------------
(* The subscriber and the engine's CreateRelationships and                 *)
(* DeleteRelationships, which differ in the operation they write only.     *)

Goto(p, l) == pc' = [pc EXCEPT ![p] = l]

(* The message is parsed and validated: a request that is not valid is     *)
(* answered with its errors.                                               *)
Receive(p, u) ==
    /\ pc[p] = "idle"
    /\ msg' = [msg EXCEPT ![p] = u]
    /\ \/ /\ rev + Cardinality({q \in Listeners : pc[q] = "write"}) < MaxRev
          /\ Goto(p, "write")
          /\ UNCHANGED ans
       \/ Goto(p, "reply") /\ ans' = [ans EXCEPT ![p] = "error"]
    /\ alone' = [q \in Listeners |->
                    IF q = p THEN Named(u) \ UNION {Named(msg[o]) : o \in Listeners}
                    ELSE alone[q] \ Named(u)]
    /\ UNCHANGED <<rev, low, token, holder, written, todo, kept, acked, spoiled>>

Deliver(p)   == (\E u \in Updates : Receive(p, u)) /\ UNCHANGED redeliver
Redeliver(p) == \E u \in redeliver : Receive(p, u) /\ redeliver' = redeliver \ {u}

WriteRelationships(p) ==
    /\ pc[p] = "write"
    /\ \/ /\ rev' = rev + 1
          /\ written' = [written EXCEPT ![p] = rev + 1]
          /\ Goto(p, "begin")
          /\ UNCHANGED ans
       \/ /\ "spice" \in Failures
          /\ Goto(p, "reply") /\ ans' = [ans EXCEPT ![p] = "error"]
          /\ UNCHANGED <<rev, written>>
       \/ /\ "spiceLost" \in Failures
          /\ rev' = rev + 1
          /\ written' = [written EXCEPT ![p] = rev + 1]
          /\ Goto(p, "reply") /\ ans' = [ans EXCEPT ![p] = "error"]
    /\ UNCHANGED <<low, token, holder, msg, todo, redeliver, history>>

(* updateRelationshipZedTokens, in a transaction of its own.  Whatever     *)
(* becomes of it the request has succeeded.                                *)
Succeed(p) == Goto(p, "reply") /\ ans' = [ans EXCEPT ![p] = "ok"]

EndTx(p) == holder' = [x \in Objects |-> IF holder[x] = p THEN NoOne ELSE holder[x]]

BeginTokens(p) ==
    /\ pc[p] = "begin"
    /\ \/ /\ todo' = [todo EXCEPT ![p] = Named(msg[p])]
          /\ Goto(p, "upsert")
          /\ UNCHANGED ans
       \/ "begin" \in Failures /\ Succeed(p) /\ UNCHANGED todo
    /\ UNCHANGED <<rev, low, token, holder, msg, written, redeliver, history>>

(* Transactions that wait for each other's rows: the database aborts one.  *)
Deadlocked(p) ==
    \E S \in SUBSET Listeners :
        p \in S /\ \A q \in S :
            /\ pc[q] = "upsert" /\ todo[q] # {}
            /\ \A x \in todo[q] : holder[x] \in S \ {q}

(* The rows are written in the order of a map: any order.                  *)
UpsertZedToken(p) ==
    /\ pc[p] = "upsert"
    /\ \E x \in todo[p] :
          /\ holder[x] = NoOne
          /\ holder' = [holder EXCEPT ![x] = p]
          /\ todo' = [todo EXCEPT ![p] = @ \ {x}]
    /\ UNCHANGED <<rev, low, token, pc, msg, written, ans, redeliver, history>>

(* mutant: the transaction is left open                                    *)
UpsertFailsOpen(p) ==
    /\ pc[p] = "upsert" /\ todo[p] # {}
    /\ "upsert" \in Failures \/ Deadlocked(p)
    /\ todo' = [todo EXCEPT ![p] = {}]
    /\ Succeed(p)
    /\ UNCHANGED <<rev, low, token, holder, msg, written, redeliver, history>>

UpsertFails(p) ==
    /\ pc[p] = "upsert" /\ todo[p] # {}
    /\ "upsert" \in Failures \/ Deadlocked(p)
    /\ EndTx(p)
    /\ todo' = [todo EXCEPT ![p] = {}]
    /\ Succeed(p)
    /\ UNCHANGED <<rev, low, token, msg, written, redeliver, history>>

(* mutant: a resource keeps its first token (ON CONFLICT DO NOTHING)       *)
InsertedOnly(old, new) == IF old = 0 THEN new ELSE old

Upserted(old, new) == new

CommitTokens(p) ==
    /\ pc[p] = "upsert" /\ todo[p] = {}
    /\ \/ /\ token' = [x \in Objects |->
                        IF holder[x] = p THEN Upserted(token[x], written[p]) ELSE token[x]]
          /\ kept' = kept \cup {p}
       \/ "commit" \in Failures /\ UNCHANGED <<token, kept>>
    /\ EndTx(p)
    /\ Succeed(p)
    /\ UNCHANGED <<rev, low, msg, written, todo, redeliver, alone, acked, spoiled>>

(* mutant: the message is cleared before it is given back                  *)
NakCleared(p) == redeliver' = redeliver \cup {NoMsg}

Nak(p) == redeliver' = redeliver \cup {msg[p]}

(* respondRequest, then Ack, or Nak when the reply could not be sent.  The *)
(* stream delivers a message again after a Nak and when the Ack is lost,   *)
(* unless it gives up on it.                                               *)
Reply(p) ==
    /\ pc[p] = "reply"
    /\ \/ acked' = [x \in Objects |->
                       IF ans[p] = "ok" /\ x \in Named(msg[p]) /\ acked[x] < written[p]
                       THEN written[p] ELSE acked[x]]
       \/ "reply" \in Failures /\ UNCHANGED acked
    /\ \/ UNCHANGED redeliver
       \/ "reply" \in Failures /\ Nak(p)
    /\ spoiled' = IF written[p] = 0 THEN spoiled
                  ELSE IF p \in kept THEN (spoiled \cup Named(msg[p])) \ alone[p]
                  ELSE spoiled \cup Named(msg[p])
    /\ Goto(p, "idle")
    /\ msg' = [msg EXCEPT ![p] = NoMsg]
    /\ written' = [written EXCEPT ![p] = 0]
    /\ ans' = [ans EXCEPT ![p] = "none"]
    /\ kept' = kept \ {p}
    /\ alone' = [alone EXCEPT ![p] = {}]
    /\ UNCHANGED <<rev, low, token, holder, todo>>

-----------------------------------------------------------------------------
(* Permission checks.  They change nothing: what they may answer with is    *)
(* an expression of the state.  SpiceDB's revisions only grow, so the time  *)
(* between the two steps of a check can only make its answer fresher.       *)

(* determineConsistency: the token's row is read, once whoever is writing  *)
(* it has ended; when it cannot be read the check makes do without.        *)
DetermineConsistency(x) ==
    {token[x] : o \in {holder[x]} \cap {NoOne}}
        \cup {t \in {0} : "read" \in Failures}

(* at_least_as_fresh with a token, minimize_latency without: the revisions *)
(* that SpiceDB may use.                                                   *)
CheckPermission(x) ==
    {r \in low..rev : \E t \in DetermineConsistency(x) : r >= t}

(* SpiceDB moves on to a newer revision for the answers it gives at once.  *)
Quantize ==
    /\ low' \in (low + 1)..rev
    /\ UNCHANGED <<rev, token, holder, listenVars, history>>

(* A token expires after an hour; SpiceDB has long used its revision.      *)
Expire ==
    /\ \E x \in Objects :
          /\ token[x] # 0 /\ token[x] <= low /\ holder[x] = NoOne
          /\ token' = [token EXCEPT ![x] = 0]
    /\ UNCHANGED <<rev, low, holder, listenVars, history>>

Process(p) ==
    \/ WriteRelationships(p) \/ BeginTokens(p) \/ UpsertZedToken(p) \/ UpsertFails(p)
    \/ CommitTokens(p) \/ Reply(p)

Next ==
    \/ \E p \in Listeners : Deliver(p) \/ Redeliver(p) \/ Process(p)
    \/ Quantize \/ Expire

Spec == Init /\ [][Next]_vars

(* The listeners run, the calls they make return, and the database serves  *)
(* the transactions that wait for a row in turn, or aborts one of them when *)
(* they wait for each other.  No other failure need ever happen.           *)
Proceed(p) ==
    \/ WriteRelationships(p) \/ BeginTokens(p) \/ CommitTokens(p) \/ Reply(p)
    \/ Deadlocked(p) /\ UpsertFails(p)

FairSpec ==
    Spec /\ \A p \in Listeners : WF_vars(Proceed(p)) /\ SF_vars(UpsertZedToken(p))
-----------------------------------------------------------------------------
TypeOK ==
    /\ rev \in Nat /\ low \in 0..rev
    /\ token \in [Objects -> 0..rev]
    /\ holder \in [Objects -> Listeners \cup {NoOne}]
    /\ pc \in [Listeners -> {"idle", "write", "begin", "upsert", "reply"}]
    /\ msg \in [Listeners -> Updates \cup {NoMsg}]
    /\ written \in [Listeners -> 0..rev]
    /\ todo \in [Listeners -> SUBSET Objects]
    /\ ans \in [Listeners -> {"none", "ok", "error"}]
    /\ redeliver \subseteq Updates
    /\ kept \subseteq Listeners
    /\ alone \in [Listeners -> SUBSET Objects]
    /\ acked \in [Objects -> 0..rev]
    /\ spoiled \subseteq Objects

(* A check sees the last update of its resource that was answered without  *)
(* error, as long as the resource's updates did not overlap and the tokens *)
(* of the last one were stored: for subjects as for resources, through     *)
(* redeliveries, expiry and updates in progress.                           *)
FreshUnlessSpoiled ==
    \A x \in Objects \ spoiled : \A r \in CheckPermission(x) : r >= acked[x]

(* "Permissions checks made on a resource after it is updated must use     *)
(* data at least as fresh as the last update to that resource."            *)
ChecksFresh ==
    \A x \in Objects : \A r \in CheckPermission(x) : r >= acked[x]

(* Every request is answered and its listener takes the next: no           *)
(* transaction keeps the rows that another one waits for.                  *)
EveryRequestAnswered ==
    \A p \in Listeners : (pc[p] # "idle") ~> (pc[p] = "idle")
=============================================================================
