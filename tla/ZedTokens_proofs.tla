--------------------------- MODULE ZedTokens_proofs ---------------------------
(***************************************************************************)
(* What is proved of ZedTokens, for any number of listeners, resources and *)
(* SpiceDB writes, and for every failure: the types; and, as long as the   *)
(* tokens can be read, that checks see the updates they may rely on.       *)
(***************************************************************************)
EXTENDS ZedTokens, TLAPS

(* an idle listener has no request; only one that has been in SpiceDB can  *)
(* store tokens, and only one that replies has stored them                 *)
Stages ==
    \A p \in Listeners :
      /\ pc[p] = "idle" => msg[p] = NoMsg /\ written[p] = 0
      /\ pc[p] # "idle" => msg[p] \in Updates
      /\ pc[p] = "write" => written[p] = 0
      /\ pc[p] \in {"begin", "upsert"} => written[p] # 0
      /\ p \in kept => pc[p] = "reply"

(* nobody else works on a resource that a request has had to itself        *)
AloneIsAlone ==
    \A p \in Listeners : \A x \in alone[p] :
      /\ x \in Named(msg[p])
      /\ \A q \in Listeners \ {p} : x \notin Named(msg[q])

(* a transaction holds the rows it has written, and no others              *)
HoldsItsRows ==
    /\ \A p \in Listeners : pc[p] = "upsert" => todo[p] \subseteq Named(msg[p])
    /\ \A p \in Listeners, x \in Objects :
         /\ holder[x] = p => pc[p] = "upsert" /\ x \in Named(msg[p])
         /\ pc[p] = "upsert" /\ x \in Named(msg[p]) \ todo[p] => holder[x] = p

(* a request in progress is not older than what was answered               *)
NoneOlder ==
    \A p \in Listeners : written[p] # 0 =>
        \A x \in Named(msg[p]) : x \notin spoiled \/ x \in alone[p] => acked[x] <= written[p]

(* Data that is revision r or newer is what a check of x gets.             *)
Visible(x, r) == r <= token[x] \/ r <= low

(* the update of a request that had the resource to itself is visible      *)
KeptIsVisible ==
    \A p \in kept : \A x \in alone[p] : Visible(x, written[p])

AckedIsVisible ==
    \A x \in Objects \ spoiled : Visible(x, acked[x])

IInv ==
    /\ TypeOK /\ Stages /\ AloneIsAlone /\ HoldsItsRows
    /\ NoneOlder /\ KeptIsVisible /\ AckedIsVisible

-----------------------------------------------------------------------------
LEMMA NamedObjects ==
    /\ \A u \in Updates \cup {NoMsg} : Named(u) \subseteq Objects
    /\ Named(NoMsg) = {}
<1>1. Named(NoMsg) = {}
  BY DEF Named, NoMsg
<1>2. \A u \in Updates : u.res \in Objects /\ u.subs \subseteq Objects
  BY ZedTokensAssumption
<1> QED BY <1>1, <1>2 DEF Named

LEMMA InitInv == Init => IInv
<1> SUFFICES ASSUME Init PROVE IInv
  OBVIOUS
<1>1. TypeOK
  BY DEF Init, TypeOK
<1>2. Stages /\ AloneIsAlone
  BY DEF Init, Stages, AloneIsAlone
<1>3. HoldsItsRows
  BY ZedTokensAssumption DEF Init, HoldsItsRows, NoOne
<1>4. NoneOlder /\ KeptIsVisible /\ AckedIsVisible
  BY DEF Init, NoneOlder, KeptIsVisible, AckedIsVisible, Visible
<1> QED BY <1>1, <1>2, <1>3, <1>4 DEF IInv

(* A request that arrives takes its resources from those who had them to   *)
(* themselves.                                                             *)
LEMMA ReceiveInv ==
    ASSUME IInv, NEW p \in Listeners, NEW u \in Updates, Receive(p, u),
           redeliver' \subseteq Updates
    PROVE  IInv'
<1> USE DEF IInv
<1>1. /\ pc[p] = "idle" /\ msg[p] = NoMsg /\ written[p] = 0
      /\ msg' = [msg EXCEPT ![p] = u]
      /\ \E l \in {"write", "reply"} : pc' = [pc EXCEPT ![p] = l]
      /\ ans' \in {ans, [ans EXCEPT ![p] = "error"]}
      /\ UNCHANGED <<rev, low, token, holder, written, todo, kept, acked, spoiled>>
  BY DEF Receive, Goto, Stages
<1>2. alone' = [q \in Listeners |->
                  IF q = p THEN Named(u) \ UNION {Named(msg[o]) : o \in Listeners}
                  ELSE alone[q] \ Named(u)]
  BY DEF Receive
<1>3. Named(u) \subseteq Objects
  BY NamedObjects
<1>4. TypeOK'
  <2>1. alone' \in [Listeners -> SUBSET Objects]
    BY <1>2, <1>3 DEF TypeOK
  <2> QED BY <1>1, <2>1 DEF TypeOK
<1>5. Stages'
  BY <1>1 DEF TypeOK, Stages
<1>6. AloneIsAlone'
  <2>1. \A q \in Listeners : msg'[q] = IF q = p THEN u ELSE msg[q]
    BY <1>1 DEF TypeOK
  <2>2. \A x \in alone'[p] : x \in Named(u) /\ \A q \in Listeners : x \notin Named(msg[q])
    BY <1>2
  <2>3. \A q \in Listeners \ {p} : \A x \in alone'[q] : x \in alone[q] /\ x \notin Named(u)
    BY <1>2
  <2> QED BY <2>1, <2>2, <2>3 DEF AloneIsAlone
<1>7. HoldsItsRows'
  BY <1>1 DEF TypeOK, HoldsItsRows
<1>8. NoneOlder'
  <2>1. \A q \in Listeners \ {p} : msg'[q] = msg[q] /\ alone'[q] \subseteq alone[q]
    BY <1>1, <1>2 DEF TypeOK
  <2> QED BY <1>1, <2>1 DEF NoneOlder
<1>9. KeptIsVisible'
  <2>1. \A q \in kept : q # p /\ alone'[q] \subseteq alone[q]
    BY <1>1, <1>2 DEF TypeOK, Stages
  <2> QED BY <1>1, <2>1 DEF KeptIsVisible, Visible
<1>10. AckedIsVisible'
  BY <1>1 DEF AckedIsVisible, Visible
<1> QED BY <1>4, <1>5, <1>6, <1>7, <1>8, <1>9, <1>10

LEMMA DeliverInv == ASSUME IInv, NEW p \in Listeners, Deliver(p) PROVE IInv'
BY ReceiveInv DEF Deliver, IInv, TypeOK

LEMMA RedeliverInv == ASSUME IInv, NEW p \in Listeners, Redeliver(p) PROVE IInv'
<1>1. PICK u \in redeliver : Receive(p, u) /\ redeliver' = redeliver \ {u}
  BY DEF Redeliver
<1>2. u \in Updates /\ redeliver' \subseteq Updates
  BY <1>1 DEF IInv, TypeOK
<1> QED BY <1>1, <1>2, ReceiveInv

(* The revision of a new write is newer than every other.                  *)
LEMMA WriteInv == ASSUME IInv, NEW p \in Listeners, WriteRelationships(p) PROVE IInv'
<1> USE DEF IInv
<1>1. /\ pc[p] = "write"
      /\ \/ rev' = rev + 1 /\ written' = [written EXCEPT ![p] = rev + 1]
            /\ pc' = [pc EXCEPT ![p] = "begin"]
         \/ rev' = rev /\ written' = written /\ pc' = [pc EXCEPT ![p] = "reply"]
         \/ rev' = rev + 1 /\ written' = [written EXCEPT ![p] = rev + 1]
            /\ pc' = [pc EXCEPT ![p] = "reply"]
      /\ ans' \in {ans, [ans EXCEPT ![p] = "error"]}
      /\ UNCHANGED <<low, token, holder, msg, todo, redeliver, kept, alone, acked, spoiled>>
  BY DEF WriteRelationships, Goto, history
<1>2. rev \in Nat /\ rev' \in Nat /\ rev <= rev'
  BY <1>1 DEF TypeOK
<1>3. TypeOK'
  BY <1>1, <1>2 DEF TypeOK
<1>4. Stages'
  BY <1>1, <1>2 DEF TypeOK, Stages
<1>5. AloneIsAlone' /\ HoldsItsRows'
  BY <1>1 DEF TypeOK, AloneIsAlone, HoldsItsRows
<1>6. NoneOlder'
  <2>1. \A q \in Listeners \ {p} : written'[q] = written[q]
    BY <1>1 DEF TypeOK
  <2>2. \A x \in Named(msg[p]) : acked[x] <= rev
    BY NamedObjects DEF TypeOK
  <2>3. written'[p] \in {0, rev + 1}
    BY <1>1 DEF TypeOK, Stages
  <2>4. \A x \in Named(msg[p]) : acked[x] \in Nat
    BY NamedObjects DEF TypeOK
  <2> QED BY <1>1, <1>2, <2>1, <2>2, <2>3, <2>4 DEF NoneOlder
<1>7. KeptIsVisible' /\ AckedIsVisible'
  <2>1. \A q \in kept : written'[q] = written[q]
    BY <1>1 DEF TypeOK, Stages
  <2> QED BY <1>1, <2>1 DEF KeptIsVisible, AckedIsVisible, Visible
<1> QED BY <1>3, <1>4, <1>5, <1>6, <1>7

LEMMA BeginInv == ASSUME IInv, NEW p \in Listeners, BeginTokens(p) PROVE IInv'
<1> USE DEF IInv
<1>1. /\ pc[p] = "begin"
      /\ \/ /\ todo' = [todo EXCEPT ![p] = Named(msg[p])]
            /\ pc' = [pc EXCEPT ![p] = "upsert"]
         \/ todo' = todo /\ pc' = [pc EXCEPT ![p] = "reply"]
      /\ ans' \in {ans, [ans EXCEPT ![p] = "ok"]}
      /\ UNCHANGED <<rev, low, token, holder, msg, written, redeliver, kept, alone, acked, spoiled>>
  BY DEF BeginTokens, Succeed, Goto, history
<1>2. Named(msg[p]) \subseteq Objects
  BY NamedObjects DEF TypeOK
<1>3. TypeOK'
  BY <1>1, <1>2 DEF TypeOK
<1>4. Stages' /\ AloneIsAlone'
  BY <1>1 DEF TypeOK, Stages, AloneIsAlone
<1>5. HoldsItsRows'
  BY <1>1 DEF TypeOK, HoldsItsRows
<1>6. NoneOlder' /\ KeptIsVisible' /\ AckedIsVisible'
  BY <1>1 DEF NoneOlder, KeptIsVisible, AckedIsVisible, Visible
<1> QED BY <1>3, <1>4, <1>5, <1>6

LEMMA UpsertInv == ASSUME IInv, NEW p \in Listeners, UpsertZedToken(p) PROVE IInv'
<1> USE DEF IInv
<1>1. PICK x \in todo[p] :
        /\ holder[x] = NoOne
        /\ holder' = [holder EXCEPT ![x] = p]
        /\ todo' = [todo EXCEPT ![p] = @ \ {x}]
  BY DEF UpsertZedToken
<1>2. /\ pc[p] = "upsert"
      /\ UNCHANGED <<rev, low, token, pc, msg, written, ans, redeliver, kept, alone, acked, spoiled>>
  BY DEF UpsertZedToken, history
<1>3. TypeOK'
  BY <1>1, <1>2 DEF TypeOK
<1>4. Stages' /\ AloneIsAlone' /\ NoneOlder' /\ KeptIsVisible' /\ AckedIsVisible'
  BY <1>2 DEF Stages, AloneIsAlone, NoneOlder, KeptIsVisible, AckedIsVisible, Visible
<1>5. HoldsItsRows'
  <2>1. x \in todo[p] /\ todo[p] \subseteq Named(msg[p]) /\ x \in Named(msg[p])
    BY <1>1, <1>2 DEF HoldsItsRows
  <2>2. /\ todo'[p] = todo[p] \ {x} /\ \A q \in Listeners \ {p} : todo'[q] = todo[q]
        /\ \A y \in Objects : holder'[y] = IF y = x THEN p ELSE holder[y]
    BY <1>1, <2>1 DEF TypeOK
  <2>3. \A q \in Listeners : holder[x] # q
    BY <1>1, ZedTokensAssumption DEF NoOne
  <2>4. \A q \in Listeners : pc[q] = "upsert" => todo'[q] \subseteq Named(msg[q])
    BY <2>1, <2>2 DEF HoldsItsRows
  <2>5. \A q \in Listeners, y \in Objects :
           /\ holder'[y] = q => pc[q] = "upsert" /\ y \in Named(msg[q])
           /\ pc[q] = "upsert" /\ y \in Named(msg[q]) \ todo'[q] => holder'[y] = q
    BY <1>2, <2>1, <2>2, <2>3 DEF HoldsItsRows
  <2> QED BY <1>2, <2>4, <2>5 DEF HoldsItsRows
<1> QED BY <1>3, <1>4, <1>5

(* The end of a transaction frees its rows.                                *)
LEMMA EndTxRows ==
    ASSUME IInv, NEW p \in Listeners, EndTx(p), pc' = [pc EXCEPT ![p] = "reply"],
           msg' = msg, \A q \in Listeners \ {p} : todo'[q] = todo[q]
    PROVE  HoldsItsRows' /\ holder' \in [Objects -> Listeners \cup {NoOne}]
<1>1. \A x \in Objects : holder'[x] = IF holder[x] = p THEN NoOne ELSE holder[x]
  BY DEF EndTx
<1>2. \A q \in Listeners : pc'[q] = IF q = p THEN "reply" ELSE pc[q]
  BY DEF IInv, TypeOK
<1>3. \A q \in Listeners : q # NoOne
  BY ZedTokensAssumption DEF NoOne
<1>4. HoldsItsRows'
  BY <1>1, <1>2, <1>3 DEF IInv, HoldsItsRows
<1>5. holder' \in [Objects -> Listeners \cup {NoOne}]
  BY DEF EndTx, IInv, TypeOK
<1> QED BY <1>4, <1>5

LEMMA UpsertFailsInv == ASSUME IInv, NEW p \in Listeners, UpsertFails(p) PROVE IInv'
<1> USE DEF IInv
<1>1. /\ pc[p] = "upsert" /\ EndTx(p)
      /\ todo' = [todo EXCEPT ![p] = {}]
      /\ pc' = [pc EXCEPT ![p] = "reply"] /\ ans' = [ans EXCEPT ![p] = "ok"]
      /\ UNCHANGED <<rev, low, token, msg, written, redeliver, kept, alone, acked, spoiled>>
  BY DEF UpsertFails, Succeed, Goto, history
<1>2. HoldsItsRows' /\ holder' \in [Objects -> Listeners \cup {NoOne}]
  BY <1>1, EndTxRows DEF TypeOK
<1>3. TypeOK'
  BY <1>1, <1>2 DEF TypeOK
<1>4. Stages' /\ AloneIsAlone'
  BY <1>1 DEF TypeOK, Stages, AloneIsAlone
<1>5. NoneOlder' /\ KeptIsVisible' /\ AckedIsVisible'
  BY <1>1 DEF NoneOlder, KeptIsVisible, AckedIsVisible, Visible
<1> QED BY <1>2, <1>3, <1>4, <1>5

(* The tokens that a request stores are those of its write.                *)
LEMMA CommitInv == ASSUME IInv, NEW p \in Listeners, CommitTokens(p) PROVE IInv'
<1> USE DEF IInv
<1>1. /\ pc[p] = "upsert" /\ todo[p] = {} /\ EndTx(p)
      /\ pc' = [pc EXCEPT ![p] = "reply"] /\ ans' = [ans EXCEPT ![p] = "ok"]
      /\ UNCHANGED <<rev, low, msg, written, todo, redeliver, alone, acked, spoiled>>
  BY DEF CommitTokens, Succeed, Goto
<1>2. \/ /\ token' = [x \in Objects |-> IF holder[x] = p THEN written[p] ELSE token[x]]
         /\ kept' = kept \cup {p}
      \/ UNCHANGED <<token, kept>>
  BY DEF CommitTokens, Upserted
<1>3. HoldsItsRows' /\ holder' \in [Objects -> Listeners \cup {NoOne}]
  BY <1>1, EndTxRows
<1>4. TypeOK'
  <2>1. token' \in [Objects -> 0..rev] /\ kept' \subseteq Listeners
    BY <1>2 DEF TypeOK
  <2> QED BY <1>1, <1>3, <2>1 DEF TypeOK
<1>5. Stages' /\ AloneIsAlone'
  BY <1>1, <1>2 DEF TypeOK, Stages, AloneIsAlone
<1>6. NoneOlder'
  BY <1>1 DEF NoneOlder
<1>7. CASE UNCHANGED <<token, kept>>
  BY <1>1, <1>3, <1>4, <1>5, <1>6, <1>7 DEF KeptIsVisible, AckedIsVisible, Visible
<1>8. CASE /\ token' = [x \in Objects |-> IF holder[x] = p THEN written[p] ELSE token[x]]
           /\ kept' = kept \cup {p}
  <2>1. \A x \in Objects : token'[x] = IF holder[x] = p THEN written[p] ELSE token[x]
    BY <1>8
  <2>2. written[p] \in Nat /\ written[p] # 0
    BY <1>1 DEF TypeOK, Stages
  <2>3. KeptIsVisible'
    <3> SUFFICES ASSUME NEW q \in kept', NEW x \in alone[q] PROVE Visible(x, written[q])'
      BY <1>1 DEF KeptIsVisible, Visible
    <3>1. q \in Listeners /\ x \in Objects /\ x \in Named(msg[q])
      BY <1>8 DEF TypeOK, AloneIsAlone
    <3>2. CASE q = p
      <4>1. holder[x] = p
        BY <1>1, <3>1, <3>2 DEF HoldsItsRows
      <4> QED BY <1>1, <2>1, <2>2, <3>1, <3>2, <4>1 DEF Visible
    <3>3. CASE q # p
      <4>1. q \in kept /\ holder[x] # p
        BY <1>8, <3>1, <3>3 DEF AloneIsAlone, HoldsItsRows
      <4> QED BY <1>1, <2>1, <3>1, <4>1 DEF KeptIsVisible, Visible
    <3> QED BY <3>2, <3>3
  <2>4. AckedIsVisible'
    <3> SUFFICES ASSUME NEW x \in Objects \ spoiled PROVE Visible(x, acked[x])'
      BY <1>1 DEF AckedIsVisible
    <3>1. CASE holder[x] = p
      <4>1. acked[x] <= written[p]
        BY <2>2, <3>1 DEF HoldsItsRows, NoneOlder
      <4> QED BY <1>1, <2>1, <3>1, <4>1 DEF Visible
    <3>2. CASE holder[x] # p
      BY <1>1, <2>1, <3>2 DEF AckedIsVisible, Visible
    <3> QED BY <3>1, <3>2
  <2> QED BY <1>3, <1>4, <1>5, <1>6, <2>3, <2>4
<1> QED BY <1>2, <1>7, <1>8

(* What is answered is visible if it may be relied on, and no request in   *)
(* progress is older.                                                      *)
LEMMA ReplyInv == ASSUME IInv, NEW p \in Listeners, Reply(p) PROVE IInv'
<1> USE DEF IInv
<1>1. /\ pc[p] = "reply"
      /\ pc' = [pc EXCEPT ![p] = "idle"] /\ msg' = [msg EXCEPT ![p] = NoMsg]
      /\ written' = [written EXCEPT ![p] = 0] /\ ans' = [ans EXCEPT ![p] = "none"]
      /\ kept' = kept \ {p} /\ alone' = [alone EXCEPT ![p] = {}]
      /\ UNCHANGED <<rev, low, token, holder, todo>>
  BY DEF Reply, Goto
<1>2. acked' \in [Objects -> 0..rev]
      /\ \A x \in Objects :
           \/ acked'[x] = acked[x]
           \/ x \in Named(msg[p]) /\ acked[x] < written[p] /\ acked'[x] = written[p]
  BY DEF Reply, TypeOK
<1>3. redeliver' \subseteq redeliver \cup {msg[p]}
  BY DEF Reply, Nak
<1>4. spoiled' = IF written[p] = 0 THEN spoiled
                 ELSE IF p \in kept THEN (spoiled \cup Named(msg[p])) \ alone[p]
                 ELSE spoiled \cup Named(msg[p])
  BY DEF Reply
<1>5. Named(msg[p]) \subseteq Objects /\ Named(NoMsg) = {}
  BY NamedObjects DEF TypeOK
<1>6. TypeOK'
  BY <1>1, <1>2, <1>3, <1>4, <1>5 DEF TypeOK, Stages
<1>7. Stages'
  BY <1>1 DEF TypeOK, Stages
<1>8. \A q \in Listeners : /\ msg'[q] = IF q = p THEN NoMsg ELSE msg[q]
                           /\ alone'[q] = IF q = p THEN {} ELSE alone[q]
                           /\ written'[q] = IF q = p THEN 0 ELSE written[q]
                           /\ pc'[q] = IF q = p THEN "idle" ELSE pc[q]
  BY <1>1 DEF TypeOK
<1>9. AloneIsAlone'
  BY <1>5, <1>8 DEF AloneIsAlone
<1>10. HoldsItsRows'
  <2>1. \A x \in Objects : holder[x] # p
    BY <1>1 DEF HoldsItsRows
  <2> QED BY <1>1, <1>8, <2>1 DEF HoldsItsRows
(* Whatever may be relied on after a reply was either not named by it, or  *)
(* was its alone and is stored.                                            *)
<1>11. \A x \in Objects : written[p] # 0 /\ x \in Named(msg[p]) /\ x \notin spoiled'
           => p \in kept /\ x \in alone[p]
  BY <1>4
<1>12. \A x \in Objects : x \notin spoiled' => x \notin spoiled \/ (written[p] # 0 /\ p \in kept /\ x \in alone[p])
  BY <1>4
<1>13. \A q \in Listeners : written[q] \in Nat
  BY DEF TypeOK
<1>14. \A x \in Objects : acked[x] \in Nat
  BY DEF TypeOK
<1>15. NoneOlder'
  <2> SUFFICES ASSUME NEW q \in Listeners \ {p}, written[q] # 0, NEW x \in Named(msg[q]),
                      x \notin spoiled' \/ x \in alone[q]
               PROVE  acked'[x] <= written[q]
    BY <1>8 DEF NoneOlder
  <2>1. x \in Objects
    BY NamedObjects DEF TypeOK
  <2>2. x \notin alone[p]
    BY DEF AloneIsAlone
  <2>3. x \notin spoiled \/ x \in alone[q]
    BY <1>12, <2>1, <2>2
  <2>4. acked'[x] = acked[x]
    <3>1. CASE x \in alone[q]
      BY <1>2, <2>1, <3>1 DEF AloneIsAlone
    <3>2. CASE x \notin spoiled'
      BY <1>2, <1>11, <1>13, <1>14, <2>1, <2>2, <3>2
    <3> QED BY <3>1, <3>2
  <2> QED BY <2>3, <2>4 DEF NoneOlder
<1>16. KeptIsVisible'
  BY <1>1, <1>8 DEF TypeOK, KeptIsVisible, Visible
<1>17. AckedIsVisible'
  <2> SUFFICES ASSUME NEW x \in Objects, x \notin spoiled' PROVE Visible(x, acked[x])'
    BY DEF AckedIsVisible
  <2>1. CASE p \in kept /\ x \in alone[p] /\ written[p] # 0
    <3>1. Visible(x, written[p])
      BY <2>1 DEF KeptIsVisible
    <3>2. acked[x] <= written[p]
      BY <2>1 DEF NoneOlder, AloneIsAlone
    <3>3. acked'[x] <= written[p] /\ acked'[x] \in Nat
      BY <1>2, <1>13, <1>14, <3>2 DEF TypeOK
    <3>4. token[x] \in Nat /\ low \in Nat
      BY DEF TypeOK
    <3> QED BY <1>1, <1>13, <3>1, <3>3, <3>4 DEF Visible
  <2>2. CASE ~(p \in kept /\ x \in alone[p] /\ written[p] # 0)
    <3>1. x \notin spoiled
      BY <1>12, <2>2
    <3>2. acked'[x] = acked[x]
      BY <1>2, <1>11, <1>13, <1>14, <2>2
    <3> QED BY <1>1, <3>1, <3>2 DEF AckedIsVisible, Visible
  <2> QED BY <2>1, <2>2
<1> QED BY <1>6, <1>7, <1>9, <1>10, <1>15, <1>16, <1>17

LEMMA QuantizeInv == ASSUME IInv, Quantize PROVE IInv'
<1> USE DEF IInv
<1>1. /\ low' \in (low + 1)..rev
      /\ UNCHANGED <<rev, token, holder, pc, msg, written, todo, ans, redeliver, kept, alone, acked, spoiled>>
  BY DEF Quantize, listenVars, history
<1>2. TypeOK' /\ low <= low'
  BY <1>1 DEF TypeOK
<1>3. Stages' /\ AloneIsAlone' /\ HoldsItsRows' /\ NoneOlder'
  BY <1>1 DEF Stages, AloneIsAlone, HoldsItsRows, NoneOlder
<1>4. KeptIsVisible' /\ AckedIsVisible'
  <2>1. \A x \in Objects, r \in Nat : Visible(x, r) => Visible(x, r)'
    BY <1>1, <1>2 DEF TypeOK, Visible
  <2>2. \A p \in kept : written[p] \in Nat /\ alone[p] \subseteq Objects
    BY DEF TypeOK
  <2>3. \A x \in Objects : acked[x] \in Nat
    BY DEF TypeOK
  <2> QED BY <1>1, <2>1, <2>2, <2>3 DEF KeptIsVisible, AckedIsVisible, Visible
<1> QED BY <1>2, <1>3, <1>4

(* A token expires when SpiceDB no longer answers with older data.         *)
LEMMA ExpireInv == ASSUME IInv, Expire PROVE IInv'
<1> USE DEF IInv
<1>1. PICK y \in Objects :
        /\ token[y] # 0 /\ token[y] <= low /\ holder[y] = NoOne
        /\ token' = [token EXCEPT ![y] = 0]
  BY DEF Expire
<1>2. UNCHANGED <<rev, low, holder, pc, msg, written, todo, ans, redeliver, kept, alone, acked, spoiled>>
  BY DEF Expire, listenVars, history
<1>3. TypeOK'
  BY <1>1, <1>2 DEF TypeOK
<1>4. Stages' /\ AloneIsAlone' /\ HoldsItsRows' /\ NoneOlder'
  BY <1>2 DEF Stages, AloneIsAlone, HoldsItsRows, NoneOlder
<1>5. KeptIsVisible' /\ AckedIsVisible'
  <2>1. \A x \in Objects, r \in Nat : Visible(x, r) => Visible(x, r)'
    BY <1>1, <1>2 DEF TypeOK, Visible
  <2>2. \A p \in kept : written[p] \in Nat /\ alone[p] \subseteq Objects
    BY DEF TypeOK
  <2>3. \A x \in Objects : acked[x] \in Nat
    BY DEF TypeOK
  <2> QED BY <1>2, <2>1, <2>2, <2>3 DEF KeptIsVisible, AckedIsVisible, Visible
<1> QED BY <1>3, <1>4, <1>5

LEMMA StutterInv == ASSUME IInv, UNCHANGED vars PROVE IInv'
BY DEF IInv, TypeOK, Stages, AloneIsAlone, HoldsItsRows, NoneOlder, KeptIsVisible,
       AckedIsVisible, Visible, vars, listenVars, history

LEMMA NextInv == IInv /\ [Next]_vars => IInv'
<1> SUFFICES ASSUME IInv, [Next]_vars PROVE IInv'
  OBVIOUS
<1>1. ASSUME NEW p \in Listeners, Process(p) PROVE IInv'
  BY <1>1, WriteInv, BeginInv, UpsertInv, UpsertFailsInv, CommitInv, ReplyInv DEF Process
<1> QED BY <1>1, DeliverInv, RedeliverInv, QuantizeInv, ExpireInv, StutterInv DEF Next

LEMMA ZedTokensInv == Spec => []IInv
BY InitInv, NextInv, PTL DEF Spec

(* Every variable of the listeners, of SpiceDB and of the token table has  *)
(* its type; no token is newer than SpiceDB's latest revision.             *)
THEOREM ZedTokensTypes == Spec => []TypeOK
<1>1. IInv => TypeOK
  BY DEF IInv
<1> QED BY <1>1, ZedTokensInv, PTL

(* If tokens can be read, a check sees every update that was answered and  *)
(* did not overlap another, whatever else fails (updateZedTokens and       *)
(* determineConsistency).                                                  *)
THEOREM ChecksSeeUpdates ==
    ASSUME "read" \notin Failures PROVE Spec => []FreshUnlessSpoiled
<1>1. IInv => FreshUnlessSpoiled
  <2> SUFFICES ASSUME IInv, NEW x \in Objects \ spoiled, NEW r \in CheckPermission(x)
               PROVE  r >= acked[x]
    BY DEF FreshUnlessSpoiled
  <2>1. r \in low..rev /\ r >= token[x]
    BY DEF CheckPermission, DetermineConsistency
  <2>2. acked[x] <= token[x] \/ acked[x] <= low
    BY DEF IInv, AckedIsVisible, Visible
  <2>3. acked[x] \in Nat /\ token[x] \in Nat /\ low \in Nat /\ rev \in Nat
    BY DEF IInv, TypeOK
  <2> QED BY <2>1, <2>2, <2>3
<1> QED BY <1>1, ZedTokensInv, PTL
=============================================================================
