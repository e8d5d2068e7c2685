-------------------------- MODULE CheckAll_proofs --------------------------
(***************************************************************************)
(* CheckAll is proved to grant only what the engine allowed, for every     *)
(* number of actions and goroutines.  The argument counts: each result the *)
(* handler has counted is an error in a tally or a check in seen, and no   *)
(* check can be counted twice because it is in one place at a time - the   *)
(* channel, one goroutine, one slot of resultsCh, or seen.  With no error  *)
(* and N results, seen is every check.                                     *)
(***************************************************************************)
EXTENDS CheckAll, FiniteSetTheorems, SequenceTheorems, TLAPS

Holds(w) == at[w] \in {"checking", "sending"}

(* what has left requestsCh, and only that, is in hand                     *)
TakenOnly ==
    /\ \A w \in Workers : Holds(w) => cur[w] <= next
    /\ \A w \in Workers : at[w] = "checking" => cur[w] # 0
    /\ \A j \in 1..Len(results) : results[j] <= next
    /\ \A i \in seen : i <= next

(* a check is in one place                                                 *)
OnePlace ==
    /\ \A v, w \in Workers : Holds(v) /\ Holds(w) /\ cur[v] = cur[w] /\ cur[v] # 0 => v = w
    /\ \A w \in Workers, j \in 1..Len(results) :
          Holds(w) /\ cur[w] # 0 => results[j] # cur[w]
    /\ \A j, k \in 1..Len(results) : results[j] = results[k] /\ results[j] # 0 => j = k
    /\ \A w \in Workers : Holds(w) => cur[w] \notin seen
    /\ \A j \in 1..Len(results) : results[j] \notin seen

(* every result counted is an error or a check in seen                     *)
Counted ==
    got = Cardinality(seen) + tally["internal"] + tally["unauthorized"] + tally["badRequest"]

Granted ==
    /\ \A i \in seen : asked[i] = "allowed"
    /\ code = 200 => seen = Checks

IInv == TypeOK /\ TakenOnly /\ OnePlace /\ Counted /\ Granted

-----------------------------------------------------------------------------
(* A set of checks is finite, no larger than N, and of size N only when it *)
(* holds every check.                                                      *)
LEMMA SeenSize ==
    ASSUME NEW S \in SUBSET Checks
    PROVE  /\ IsFiniteSet(S) /\ Cardinality(S) \in 0..N
           /\ Cardinality(S) = N => S = Checks
           /\ \A i \in Checks \ S : Cardinality(S \cup {i}) = Cardinality(S) + 1
<1>1. IsFiniteSet(Checks) /\ Cardinality(Checks) = N
  BY FS_Interval, CheckAssumption DEF Checks
<1>2. IsFiniteSet(S) /\ Cardinality(S) \in Nat /\ Cardinality(S) <= N
  BY <1>1, FS_Subset, FS_CardinalityType
<1>3. Cardinality(S) = N => S = Checks
  BY <1>1, FS_Subset
<1>4. \A i \in Checks \ S : Cardinality(S \cup {i}) = Cardinality(S) + 1
  BY <1>2, FS_AddElement
<1> QED BY <1>2, <1>3, <1>4, CheckAssumption

(* Initially nothing is in hand.                                           *)
LEMMA InitInv == Init => IInv
<1> SUFFICES ASSUME Init PROVE IInv
  OBVIOUS
<1>1. TypeOK
  BY CheckAssumption DEF Init, TypeOK, Checks
<1>2. TakenOnly /\ OnePlace
  BY DEF Init, TakenOnly, OnePlace, Holds
<1>3. Counted /\ Granted
  BY FS_EmptySet DEF Init, Counted, Granted, Tallies
<1> QED BY <1>1, <1>2, <1>3 DEF IInv

-----------------------------------------------------------------------------
(* Steps of the handler that receive nothing.                              *)
LEMMA ParseInv == ASSUME IInv, Parse PROVE IInv'
<1>1. TypeOK'
  BY CheckAssumption DEF IInv, TypeOK, Parse
<1>2. /\ UNCHANGED <<next, results, cur, got, tally, seen, ctx, asked>>
      /\ \A w \in Workers : Holds(w)' => Holds(w) /\ at'[w] = at[w]
      /\ code' # 200 \/ code' = code
  BY DEF IInv, TypeOK, Parse, Holds
<1>3. TakenOnly' /\ OnePlace'
  BY <1>2 DEF IInv, TakenOnly, OnePlace, Holds
<1>4. Counted' /\ Granted'
  BY <1>2 DEF IInv, Counted, Granted
<1> QED BY <1>1, <1>3, <1>4 DEF IInv

LEMMA AnswerInv == ASSUME IInv, Answer PROVE IInv'
<1> USE DEF IInv
<1>1. TypeOK'
  BY DEF TypeOK, Answer, Status, workerVars
<1>2. TakenOnly' /\ OnePlace' /\ Counted'
  BY DEF Answer, workerVars, TakenOnly, OnePlace, Counted, Holds
<1>3. code' = 200 => Cardinality(seen) = N
  <2>1. Cardinality(seen) \in 0..N
    BY SeenSize DEF TypeOK
  <2> QED BY <2>1 DEF Answer, Status, Counted, TypeOK, Tallies
<1>4. code' = 200 => seen = Checks
  BY <1>3, SeenSize DEF TypeOK
<1>5. Granted'
  BY <1>4 DEF Granted, Answer
<1> QED BY <1>1, <1>2, <1>5

(* Giving a result up counts an error; the total stays within N.           *)
LEMMA MainSeesDoneInv == ASSUME IInv, MainSeesDone PROVE IInv'
<1> USE DEF IInv
<1>1. Counted' /\ tally' \in [Tallies -> Nat] /\ got' \in 0..N
  <2>1. Cardinality(seen) \in 0..N
    BY SeenSize DEF TypeOK
  <2> QED BY <2>1, CheckAssumption DEF MainSeesDone, Counted, TypeOK, Tallies
<1>2. tally' \in [Tallies -> 0..N]
  <2>1. Cardinality(seen') \in 0..N
    BY SeenSize DEF TypeOK, MainSeesDone
  <2> QED BY <2>1, <1>1, CheckAssumption DEF Counted, Tallies
<1>3. TypeOK'
  BY <1>1, <1>2 DEF TypeOK, MainSeesDone, workerVars
<1>4. TakenOnly' /\ OnePlace' /\ Granted'
  BY DEF MainSeesDone, workerVars, TakenOnly, OnePlace, Granted, Holds
<1> QED BY <1>1, <1>3, <1>4

(* A result moves from resultsCh into seen or into a tally.                *)
LEMMA ReceiveInv == ASSUME IInv, Receive PROVE IInv'
<1> USE DEF IInv
<1> DEFINE i == Head(results)
<1>1. /\ Len(results) \in Nat \ {0} /\ i = results[1] /\ i \in 0..N
      /\ results' = Tail(results) /\ results' \in Seq(0..N)
      /\ Len(results') = Len(results) - 1
      /\ \A j \in 1..Len(results') : results'[j] = results[j + 1]
      /\ \A j \in 1..Len(results') : j + 1 \in 1..Len(results)
  <2>1. results \in Seq(0..N) /\ results # <<>> /\ results' = Tail(results)
    BY DEF Receive, TypeOK
  <2>2. /\ Tail(results) \in Seq(0..N) /\ Len(Tail(results)) = Len(results) - 1
        /\ Len(results) \in Nat \ {0} /\ i \in 0..N /\ i = results[1]
        /\ \A j \in 1..Len(Tail(results)) : Tail(results)[j] = results[j + 1]
    <3>1. Len(results) \in Nat \ {0}
      BY <2>1, EmptySeq
    <3>2. i = results[1]
      BY <2>1
    <3> HIDE DEF i
    <3>3. i \in 0..N
      BY <2>1, HeadTailProperties DEF i
    <3> QED BY <2>1, <3>1, <3>2, <3>3, HeadTailProperties
  <2> QED BY <2>1, <2>2
<1>2. UNCHANGED <<next, at, cur, main, ctx, asked, code>>
  BY DEF Receive, workerVars
<1>3. CASE Allowed(i)
  <2>1. seen' = seen \cup {i} /\ tally' = tally /\ got' = got + 1 /\ got < N
    BY <1>3 DEF Receive
  <2>2. i \in Checks \ seen /\ i <= next
    BY <1>1, <1>3 DEF Allowed, Checks, OnePlace, TakenOnly
  <2>3. Cardinality(seen') = Cardinality(seen) + 1 /\ Cardinality(seen) \in Nat
    <3>1. seen \in SUBSET Checks
      BY DEF TypeOK
    <3>2. Cardinality(seen) \in 0..N /\ Cardinality(seen \cup {i}) = Cardinality(seen) + 1
      BY <3>1, <2>2, SeenSize
    <3> QED BY <3>2, <2>1
  <2>4. TypeOK'
    BY <1>1, <1>2, <2>1, <2>2, CheckAssumption DEF TypeOK
  <2>5. TakenOnly'
    BY <1>1, <1>2, <2>1, <2>2 DEF TakenOnly, Holds
  <2>6. OnePlace'
    <3>1. \A j \in 1..Len(results') : results'[j] # i
      BY <1>1, <2>2 DEF OnePlace, Checks
    <3>2. \A w \in Workers : Holds(w) => cur[w] # i
      BY <1>1, <2>2 DEF OnePlace, Checks
    <3> QED BY <1>1, <1>2, <2>1, <3>1, <3>2 DEF OnePlace, Holds
  <2>7. Counted'
    BY <2>1, <2>3 DEF Counted, TypeOK, Tallies
  <2>8. Granted'
    <3>1. code # 200
      BY <2>2 DEF Granted
    <3> QED BY <1>2, <1>3, <2>1, <3>1 DEF Granted, Allowed
  <2> QED BY <2>4, <2>5, <2>6, <2>7, <2>8
<1>4. CASE ~Allowed(i)
  <2> DEFINE t == TallyOf(i)
  <2>1. /\ seen' = seen /\ tally' = [tally EXCEPT ![t] = @ + 1] /\ got' = got + 1
        /\ got < N /\ t \in Tallies
    BY <1>4 DEF Receive, TallyOf, Tallies
  <2>2. Cardinality(seen) \in 0..N
    BY SeenSize DEF TypeOK
  <2>3. tally' \in [Tallies -> Nat] /\ got' \in 0..N
    BY <2>1, CheckAssumption DEF TypeOK
  <2>4. Counted'
    BY <2>1, <2>2 DEF Counted, TypeOK, Tallies
  <2>5. tally' \in [Tallies -> 0..N]
    BY <2>1, <2>2, <2>3, <2>4, CheckAssumption DEF Counted, Tallies
  <2>6. TypeOK'
    BY <1>1, <1>2, <2>1, <2>3, <2>5, CheckAssumption DEF TypeOK
  <2>7. TakenOnly' /\ OnePlace'
    BY <1>1, <1>2, <2>1 DEF TakenOnly, OnePlace, Holds
  <2>8. Granted'
    BY <1>2, <2>1 DEF Granted
  <2> QED BY <2>4, <2>6, <2>7, <2>8
<1> QED BY <1>3, <1>4

LEMMA ExpireInv == ASSUME IInv, Expire PROVE IInv'
BY DEF IInv, Expire, workerVars, mainVars, TypeOK, TakenOnly, OnePlace, Counted, Granted, Holds

-----------------------------------------------------------------------------
(* Steps of a goroutine.                                                   *)

(* The check taken is above every check in hand.                           *)
LEMMA TakeInv == ASSUME IInv, NEW w \in Workers, Take(w) PROVE IInv'
<1> USE DEF IInv
<1>1. /\ next < N /\ next' = next + 1 /\ next \in 0..N /\ N \in Nat
      /\ at' = [at EXCEPT ![w] = "checking"] /\ cur' = [cur EXCEPT ![w] = next + 1]
      /\ UNCHANGED <<results, main, got, tally, seen, code, ctx, asked>>
  BY CheckAssumption DEF Take, mainVars, TypeOK
<1>2. TypeOK'
  BY <1>1 DEF TypeOK
<1>3. \A v \in Workers : v # w => (Holds(v)' <=> Holds(v)) /\ cur'[v] = cur[v]
  BY <1>1 DEF Holds, TypeOK
<1>4. cur'[w] = next + 1 /\ (\A v \in Workers : cur[v] \in 0..N)
  BY <1>1 DEF TypeOK
<1>5. \A j \in 1..Len(results) : results[j] \in 0..N
  <2>1. results \in Seq(0..N)
    BY DEF TypeOK
  <2> QED BY <2>1, ElementOfSeq
<1>6. seen \subseteq 1..N
  BY DEF TypeOK, Checks
<1>7. TakenOnly'
  BY <1>1, <1>3, <1>4, <1>5, <1>6 DEF TakenOnly, TypeOK
<1>8. OnePlace'
  BY <1>1, <1>3, <1>4, <1>5, <1>6 DEF OnePlace, TakenOnly, TypeOK
<1>9. Counted' /\ Granted'
  BY <1>1 DEF Counted, Granted
<1> QED BY <1>2, <1>7, <1>8, <1>9

LEMMA QuitInv == ASSUME IInv, NEW w \in Workers, Quit(w) PROVE IInv'
BY DEF IInv, Quit, mainVars, TypeOK, TakenOnly, OnePlace, Counted, Granted, Holds

LEMMA SeeDoneInv == ASSUME IInv, NEW w \in Workers, SeeDone(w) PROVE IInv'
<1>1. /\ at' = [at EXCEPT ![w] = "sending"] /\ cur' = [cur EXCEPT ![w] = 0]
      /\ UNCHANGED <<next, results, main, got, tally, seen, code, ctx, asked>>
  BY DEF SeeDone, mainVars
<1>2. TypeOK'
  BY <1>1, CheckAssumption DEF IInv, TypeOK
<1>3. \A v \in Workers : v # w => (Holds(v)' <=> Holds(v)) /\ cur'[v] = cur[v]
                                  /\ at'[v] = at[v]
  BY <1>1 DEF Holds, IInv, TypeOK
<1>4. cur'[w] = 0 /\ at'[w] = "sending" /\ 0 \notin seen /\ next \in Nat
  BY <1>1 DEF IInv, TypeOK, Checks
<1>5. TakenOnly' /\ OnePlace'
  BY <1>1, <1>3, <1>4 DEF IInv, TakenOnly, OnePlace
<1>6. Counted' /\ Granted'
  BY <1>1 DEF IInv, Counted, Granted
<1> QED BY <1>2, <1>5, <1>6 DEF IInv

(* The answer recorded is that of a check not yet in seen.                 *)
LEMMA CheckInv == ASSUME IInv, NEW w \in Workers, Check(w) PROVE IInv'
<1>1. /\ at[w] = "checking" /\ at' = [at EXCEPT ![w] = "sending"]
      /\ UNCHANGED <<next, results, cur, main, got, tally, seen, code, ctx>>
  BY DEF Check, mainVars
<1>2. cur[w] \in Checks \ seen
  BY <1>1, CheckAssumption DEF IInv, TakenOnly, OnePlace, TypeOK, Holds, Checks
<1>3. PICK v \in Verdicts : asked' = [asked EXCEPT ![cur[w]] = v]
  BY DEF Check
<1>4. TypeOK'
  BY <1>1, <1>2, <1>3 DEF IInv, TypeOK
<1>5. TakenOnly' /\ OnePlace'
  BY <1>1 DEF IInv, TypeOK, TakenOnly, OnePlace, Holds
<1>6. Counted' /\ Granted'
  BY <1>1, <1>2, <1>3 DEF IInv, TypeOK, Counted, Granted
<1> QED BY <1>4, <1>5, <1>6 DEF IInv

(* A check moves from its goroutine to the last slot of resultsCh.         *)
LEMMA SendInv == ASSUME IInv, NEW w \in Workers, Send(w) PROVE IInv'
<1> USE DEF IInv
<1> DEFINE k == Len(results) + 1
<1>1. /\ at[w] = "sending" /\ at' = [at EXCEPT ![w] = "select"]
      /\ UNCHANGED <<next, cur, main, got, tally, seen, code, ctx, asked>>
  BY DEF Send, mainVars
<1>2. /\ results' \in Seq(0..N) /\ Len(results') = k /\ k \in Nat /\ k <= N
      /\ results'[k] = cur[w]
      /\ \A j \in 1..Len(results) : results'[j] = results[j]
      /\ \A j \in 1..k : j = k \/ j \in 1..Len(results)
  BY CheckAssumption DEF Send, TypeOK
<1>3. /\ Holds(w) /\ ~Holds(w)'
      /\ \A v \in Workers : v # w => at'[v] = at[v] /\ (Holds(v)' <=> Holds(v))
  BY <1>1 DEF Holds, TypeOK
<1>4. TypeOK'
  BY <1>1, <1>2 DEF TypeOK
<1>5. TakenOnly'
  BY <1>1, <1>2, <1>3 DEF TakenOnly, TypeOK
<1>6. OnePlace'
  BY <1>1, <1>2, <1>3 DEF OnePlace
<1>7. Counted' /\ Granted'
  BY <1>1 DEF Counted, Granted
<1> QED BY <1>4, <1>5, <1>6, <1>7

-----------------------------------------------------------------------------
LEMMA NextInv == IInv /\ [Next]_vars => IInv'
<1> SUFFICES ASSUME IInv, [Next]_vars PROVE IInv'
  OBVIOUS
<1>1. CASE UNCHANGED vars
  BY <1>1 DEF vars, workerVars, mainVars, IInv, TypeOK, TakenOnly, OnePlace, Counted, Granted,
              Holds
<1>2. CASE Main
  BY <1>2, ParseInv, ReceiveInv, MainSeesDoneInv, AnswerInv DEF Main
<1>3. CASE Expire
  BY <1>3, ExpireInv
<1>4. ASSUME NEW w \in Workers, Worker(w) PROVE IInv'
  BY <1>4, TakeInv, QuitInv, SeeDoneInv, CheckInv, SendInv DEF Worker, Goroutine
<1> QED BY <1>1, <1>2, <1>3, <1>4 DEF Next

LEMMA CheckAllInv == Spec => []IInv
BY InitInv, NextInv, PTL DEF Spec

(* Every variable keeps its type: no counter passes N and no send          *)
(* overfills resultsCh.                                                    *)
THEOREM CheckAllTypes == Spec => []TypeOK
<1>1. IInv => TypeOK
  BY DEF IInv
<1> QED BY <1>1, CheckAllInv, PTL

(* A request for any number of actions, checked by any number of           *)
(* goroutines, is answered 200 only if the engine allowed every action.    *)
THEOREM OnlyAllowedGranted == Spec => []GrantedOnlyIfAllAllowed
<1>1. IInv => GrantedOnlyIfAllAllowed
  BY DEF IInv, Granted, GrantedOnlyIfAllAllowed
<1> QED BY <1>1, CheckAllInv, PTL

-----------------------------------------------------------------------------
(* The answer is the one that the engine's verdicts call for.  As long as  *)
(* the context is live every result stands for a check, so the checks that *)
(* are nowhere any more were received, as many as got says, and the        *)
(* tallies tell their verdicts.  With N of them those are all the checks.  *)
InHand(i)   == \E w \in Workers : Holds(w) /\ cur[w] = i
InBuffer(i) == \E j \in 1..Len(results) : results[j] = i
Received    == {i \in 1..next : ~InHand(i) /\ ~InBuffer(i)}

SomeReceived(v) == \E i \in Received : asked[i] = v

Truthful ==
    /\ \A w \in Workers : Holds(w) => cur[w] # 0
    /\ \A j \in 1..Len(results) : results[j] # 0
    /\ \A w \in Workers : at[w] = "sending" => asked[cur[w]] # "unasked"
    /\ \A j \in 1..Len(results) : asked[results[j]] # "unasked"
    /\ got = Cardinality(Received)
    /\ tally["internal"] # 0 <=> SomeReceived("fault")
    /\ tally["unauthorized"] # 0 <=> SomeReceived("denied")
    /\ tally["badRequest"] # 0 <=> SomeReceived("badAction")

(* ... and nobody asks the engine any more once they were received.        *)
Settled ==
    /\ AnswerIsRight
    /\ next = N /\ \A w \in Workers : at[w] # "checking"

RightInv ==
    /\ ctx = "live" /\ main # "answered" => Truthful
    /\ ctx = "cancelled" => main = "answered" /\ Settled
    /\ main = "parse" => \A w \in Workers : at[w] = "unborn"

LEMMA ReceivedSize ==
    ASSUME IInv
    PROVE  /\ Received \in SUBSET Checks
           /\ Cardinality(Received) = N => Received = Checks
           /\ \A i \in Checks \ Received : Cardinality(Received \cup {i}) = Cardinality(Received) + 1
<1>1. Received \in SUBSET Checks
  BY CheckAssumption DEF IInv, TypeOK, Received, Checks
<1> QED
  BY <1>1, SeenSize

(* A step that leaves checks where they are, or moves one to a goroutine   *)
(* or from there to the buffer, receives none.                             *)
LEMMA SameReceived ==
    ASSUME Truthful, UNCHANGED <<got, tally>>,
           \A i : i \in Received' <=> i \in Received,
           \A i \in Received : asked'[i] = asked[i]
    PROVE  /\ got' = Cardinality(Received')
           /\ tally'["internal"] # 0 <=> SomeReceived("fault")'
           /\ tally'["unauthorized"] # 0 <=> SomeReceived("denied")'
           /\ tally'["badRequest"] # 0 <=> SomeReceived("badAction")'
<1>1. Received' = Received
  OBVIOUS
<1> QED
  BY <1>1 DEF Truthful, SomeReceived

LEMMA InitRight == Init => RightInv
<1> SUFFICES ASSUME Init PROVE RightInv
  OBVIOUS
<1>1. Received = {} /\ Cardinality(Received) = 0
  <2>1. Received = {}
    BY DEF Init, Received
  <2> QED
    BY <2>1, FS_EmptySet
<1>2. \A v : ~SomeReceived(v)
  BY <1>1 DEF SomeReceived
<1>3. Truthful
  BY <1>1, <1>2 DEF Init, Truthful, Tallies, Holds
<1> QED
  BY <1>3 DEF Init, RightInv

LEMMA ParseRight == ASSUME IInv, RightInv, Parse PROVE RightInv'
<1>1. /\ main = "parse" /\ main' \in {"collect", "answered"}
      /\ UNCHANGED <<next, results, cur, got, tally, ctx, asked>>
      /\ \A w \in Workers : at'[w] = "select" \/ at'[w] = at[w]
  BY DEF Parse
<1>2. \A w \in Workers : ~Holds(w) /\ ~Holds(w)' /\ at'[w] # "sending"
  BY <1>1 DEF RightInv, Holds
<1>3. \A i : i \in Received' <=> i \in Received
  BY <1>1, <1>2 DEF Received, InHand, InBuffer
<1>4. Truthful => Truthful'
  <2> SUFFICES ASSUME Truthful PROVE Truthful'
    OBVIOUS
  <2>1. /\ got' = Cardinality(Received')
        /\ tally'["internal"] # 0 <=> SomeReceived("fault")'
        /\ tally'["unauthorized"] # 0 <=> SomeReceived("denied")'
        /\ tally'["badRequest"] # 0 <=> SomeReceived("badAction")'
    BY <1>1, <1>3, SameReceived
  <2> QED
    BY <1>1, <1>2, <2>1 DEF Truthful
<1>5. ctx # "cancelled" /\ main # "answered" /\ main' # "parse"
  BY <1>1 DEF RightInv
<1> QED
  BY <1>1, <1>4, <1>5 DEF RightInv

LEMMA AnswerRight == ASSUME IInv, RightInv, Answer PROVE RightInv'
<1>1. /\ main = "collect" /\ got = N /\ main' = "answered" /\ code' = Status
      /\ ctx' = (IF ctx = "live" THEN "cancelled" ELSE ctx)
      /\ UNCHANGED <<next, results, at, cur, tally, asked>>
  BY DEF Answer, workerVars
<1>2. CASE ctx # "live"
  BY <1>1, <1>2 DEF RightInv
<1>3. CASE ctx = "live"
  <2>1. Truthful
    BY <1>1, <1>3 DEF RightInv
  <2>2. Received = Checks
    BY <1>1, <2>1, ReceivedSize DEF Truthful
  <2>3. next = N
    <3>1. N # 0 => N \in 1..next
      BY <2>2, CheckAssumption DEF Received, Checks
    <3>2. next \in 0..N /\ N \in Nat
      BY CheckAssumption DEF IInv, TypeOK
    <3> QED
      BY <3>1, <3>2
  <2>4. ASSUME NEW w \in Workers, at[w] = "checking"
        PROVE  FALSE
    <3>1. cur[w] \in Checks /\ InHand(cur[w])
      BY <2>4, CheckAssumption DEF IInv, TypeOK, TakenOnly, Holds, InHand, Checks
    <3> QED
      BY <2>2, <3>1 DEF Received
  <2>5. AnswerIsRight'
    <3>1. \A v : SomeReceived(v) <=> \E i \in Checks : asked[i] = v
      BY <2>2 DEF SomeReceived
    <3>2. \A v : (\E i \in Checks : asked[i] = v)' <=> \E i \in Checks : asked[i] = v
      BY <1>1
    <3> QED
      BY <1>1, <2>1, <3>1, <3>2 DEF AnswerIsRight, Status, Truthful
  <2> QED
    BY <1>1, <1>3, <2>3, <2>4, <2>5 DEF RightInv, Settled
<1> QED
  BY <1>2, <1>3

(* The result received is one more check, and its verdict is tallied.      *)
LEMMA ReceiveRight == ASSUME IInv, RightInv, Receive PROVE RightInv'
<1> DEFINE i == Head(results)
<1>1. /\ main = "collect" /\ results # <<>> /\ results' = Tail(results) /\ got' = got + 1
      /\ UNCHANGED <<next, at, cur, main, ctx, asked>>
      /\ IF Allowed(i) THEN UNCHANGED tally ELSE tally' = [tally EXCEPT ![TallyOf(i)] = @ + 1]
  BY DEF Receive, workerVars
<1>2. CASE ctx # "live"
  BY <1>1, <1>2 DEF RightInv
<1>3. CASE ctx = "live"
  <2>1. Truthful
    BY <1>1, <1>3 DEF RightInv
  <2>2. /\ Len(results) \in Nat \ {0} /\ i = results[1]
        /\ Len(results') = Len(results) - 1
        /\ \A j \in 1..Len(results') : results'[j] = results[j + 1] /\ j + 1 \in 1..Len(results)
    <3>1. results \in Seq(0..N) /\ results # <<>>
      BY <1>1 DEF IInv, TypeOK
    <3>2. Len(results) \in Nat \ {0}
      BY <3>1, EmptySeq
    <3> QED
      BY <1>1, <3>1, <3>2, HeadTailProperties
  <2> HIDE DEF i
  <2>3. 1 \in 1..Len(results) /\ InBuffer(i)
    BY <2>2 DEF InBuffer
  <2>4. i \in Checks /\ asked[i] # "unasked" /\ i <= next
    <3>1. results \in Seq(0..N)
      BY DEF IInv, TypeOK
    <3>2. results[1] \in 0..N
      BY <2>3, <3>1, ElementOfSeq
    <3> QED
      BY <2>1, <2>2, <2>3, <3>2, CheckAssumption DEF Truthful, Checks, IInv, TakenOnly
  <2>5. ~InHand(i)
    BY <2>2, <2>3, <2>4 DEF InHand, IInv, OnePlace, Checks
  <2>6. \A k : InBuffer(k)' <=> InBuffer(k) /\ k # i
    <3>1. \A j \in 1..Len(results) : j = 1 \/ (j - 1 \in 1..Len(results') /\ j - 1 + 1 = j)
      BY <2>2
    <3>2. \A j \in 1..Len(results') : results'[j] # i
      BY <2>2, <2>3, <2>4 DEF IInv, OnePlace, Checks
    <3>3. ASSUME NEW k, InBuffer(k), k # i
          PROVE  InBuffer(k)'
      <4>1. PICK j \in 1..Len(results) : results[j] = k
        BY <3>3 DEF InBuffer
      <4>2. j - 1 \in 1..Len(results') /\ results'[j - 1] = k
        BY <2>2, <3>1, <3>3, <4>1
      <4> QED
        BY <4>2 DEF InBuffer
    <3>4. ASSUME NEW k, InBuffer(k)'
          PROVE  InBuffer(k) /\ k # i
      BY <2>2, <3>2, <3>4 DEF InBuffer
    <3> QED
      BY <3>3, <3>4
  <2>7. \A k : InHand(k)' <=> InHand(k)
    BY <1>1 DEF InHand, Holds
  <2>8. Received' = Received \cup {i}
    <3>1. i \in 1..next
      BY <2>4, CheckAssumption DEF Checks, IInv, TypeOK
    <3> QED
      BY <1>1, <2>5, <2>6, <2>7, <3>1 DEF Received
  <2>9. got' = Cardinality(Received')
    <3>1. i \notin Received
      BY <2>3 DEF Received
    <3> QED
      BY <1>1, <2>1, <2>4, <2>8, <3>1, ReceivedSize DEF Truthful
  <2>10. \A v : SomeReceived(v)' <=> SomeReceived(v) \/ asked[i] = v
    BY <1>1, <2>8 DEF SomeReceived
  <2>11. /\ tally'["internal"] # 0 <=> tally["internal"] # 0 \/ asked[i] = "fault"
         /\ tally'["unauthorized"] # 0 <=> tally["unauthorized"] # 0 \/ asked[i] = "denied"
         /\ tally'["badRequest"] # 0 <=> tally["badRequest"] # 0 \/ asked[i] = "badAction"
    <3>1. asked[i] \in Verdicts /\ i # 0
      <4>1. asked \in [Checks -> Verdicts \cup {"unasked"}]
        BY DEF IInv, TypeOK
      <4>2. asked[i] \in Verdicts
        BY <2>4, <4>1
      <4>3. i \in 1..N /\ N \in Nat
        BY <2>4, CheckAssumption DEF Checks
      <4> QED
        BY <4>2, <4>3
    <3>2. tally \in [Tallies -> Nat]
      BY CheckAssumption DEF IInv, TypeOK
    <3> QED
      BY <1>1, <3>1, <3>2 DEF Allowed, TallyOf, Verdicts, Tallies
  <2>12. /\ \A w \in Workers : Holds(w)' => cur'[w] # 0
         /\ \A w \in Workers : at'[w] = "sending" => asked'[cur'[w]] # "unasked"
    BY <1>1, <2>1 DEF Truthful, Holds
  <2>13. \A j \in 1..Len(results') : results'[j] # 0 /\ asked'[results'[j]] # "unasked"
    BY <1>1, <2>1, <2>2 DEF Truthful
  <2>14. Truthful'
    BY <2>1, <2>9, <2>10, <2>11, <2>12, <2>13 DEF Truthful
  <2> QED
    BY <1>1, <1>3, <2>14 DEF RightInv
<1> QED
  BY <1>2, <1>3

(* A step of a goroutine that changes nothing but what is in its hand or   *)
(* the buffer keeps the invariant if it keeps Truthful.                    *)
LEMMA WorkerRight ==
    ASSUME RightInv, UNCHANGED <<main, ctx>>, main # "parse",
           ctx = "live" /\ Truthful => Truthful',
           ctx = "cancelled" /\ Settled => Settled'
    PROVE  RightInv'
BY DEF RightInv

LEMMA BornWhenStarted ==
    ASSUME RightInv, NEW w \in Workers, at[w] # "unborn"
    PROVE  main # "parse"
BY DEF RightInv

LEMMA TakeRight == ASSUME IInv, RightInv, NEW w \in Workers, Take(w) PROVE RightInv'
<1>1. /\ at[w] = "select" /\ next < N /\ next' = next + 1 /\ next \in 0..N /\ N \in Nat
      /\ at' = [at EXCEPT ![w] = "checking"] /\ cur' = [cur EXCEPT ![w] = next + 1]
      /\ UNCHANGED <<results, main, got, tally, code, ctx, asked>>
  BY CheckAssumption DEF Take, mainVars, IInv, TypeOK
<1>2. \A v \in Workers : v # w => (Holds(v)' <=> Holds(v)) /\ cur'[v] = cur[v] /\ at'[v] = at[v]
  BY <1>1 DEF Holds, IInv, TypeOK
<1>3. ~Holds(w) /\ Holds(w)' /\ at'[w] = "checking" /\ cur'[w] = next + 1
  BY <1>1 DEF Holds, IInv, TypeOK
<1>4. ctx = "live" /\ Truthful => Truthful'
  <2> SUFFICES ASSUME Truthful PROVE Truthful'
    OBVIOUS
  <2>1. \A k : InHand(k)' <=> InHand(k) \/ k = next + 1
    BY <1>2, <1>3 DEF InHand
  <2>2. \A k : k \in Received' <=> k \in Received
    BY <1>1, <2>1 DEF Received, InBuffer
  <2>3. /\ got' = Cardinality(Received')
        /\ tally'["internal"] # 0 <=> SomeReceived("fault")'
        /\ tally'["unauthorized"] # 0 <=> SomeReceived("denied")'
        /\ tally'["badRequest"] # 0 <=> SomeReceived("badAction")'
    BY <1>1, <2>2, SameReceived
  <2>4. /\ \A v \in Workers : Holds(v)' => cur'[v] # 0
        /\ \A v \in Workers : at'[v] = "sending" => asked'[cur'[v]] # "unasked"
    BY <1>1, <1>2, <1>3 DEF Truthful
  <2>5. \A j \in 1..Len(results') : results'[j] # 0 /\ asked'[results'[j]] # "unasked"
    BY <1>1 DEF Truthful
  <2> QED
    BY <2>3, <2>4, <2>5 DEF Truthful
<1>5. ~(ctx = "cancelled" /\ Settled)
  BY <1>1 DEF Settled
<1> QED
  BY <1>1, <1>4, <1>5, WorkerRight, BornWhenStarted

LEMMA QuitRight == ASSUME IInv, RightInv, NEW w \in Workers, Quit(w) PROVE RightInv'
<1>1. /\ at[w] = "select" /\ at' = [at EXCEPT ![w] = "gone"]
      /\ UNCHANGED <<next, results, cur, main, got, tally, code, ctx, asked>>
  BY DEF Quit, mainVars
<1>2. \A v \in Workers : /\ Holds(v)' <=> Holds(v)
                         /\ at'[v] \in {"checking", "sending"} => at'[v] = at[v]
  BY <1>1 DEF Holds, IInv, TypeOK
<1>3. ctx = "live" /\ Truthful => Truthful'
  <2> SUFFICES ASSUME Truthful PROVE Truthful'
    OBVIOUS
  <2>1. \A k : k \in Received' <=> k \in Received
    BY <1>1, <1>2 DEF Received, InHand, InBuffer
  <2>2. /\ got' = Cardinality(Received')
        /\ tally'["internal"] # 0 <=> SomeReceived("fault")'
        /\ tally'["unauthorized"] # 0 <=> SomeReceived("denied")'
        /\ tally'["badRequest"] # 0 <=> SomeReceived("badAction")'
    BY <1>1, <2>1, SameReceived
  <2> QED
    BY <1>1, <1>2, <2>2 DEF Truthful
<1>4. Settled => Settled'
  BY <1>1, <1>2 DEF Settled, AnswerIsRight
<1> QED
  BY <1>1, <1>3, <1>4, WorkerRight, BornWhenStarted

LEMMA SeeDoneRight == ASSUME IInv, RightInv, NEW w \in Workers, SeeDone(w) PROVE RightInv'
<1>1. /\ at[w] = "select" /\ ctx # "live" /\ at' = [at EXCEPT ![w] = "sending"]
      /\ UNCHANGED <<next, results, main, got, tally, code, ctx, asked>>
  BY DEF SeeDone, mainVars
<1>2. Settled => Settled'
  BY <1>1 DEF Settled, AnswerIsRight, IInv, TypeOK
<1> QED
  BY <1>1, <1>2, WorkerRight, BornWhenStarted

(* The check asked about is in hand, so it was not received.               *)
LEMMA CheckRight == ASSUME IInv, RightInv, NEW w \in Workers, Check(w) PROVE RightInv'
<1>1. /\ at[w] = "checking" /\ at' = [at EXCEPT ![w] = "sending"]
      /\ UNCHANGED <<next, results, cur, main, got, tally, code, ctx>>
  BY DEF Check, mainVars
<1>2. PICK verdict \in Verdicts : asked' = [asked EXCEPT ![cur[w]] = verdict]
  BY DEF Check
<1>3. \A v \in Workers : (Holds(v)' <=> Holds(v)) /\ (v # w => at'[v] = at[v])
  BY <1>1 DEF Holds, IInv, TypeOK
<1>4. cur[w] \in Checks /\ Holds(w)
  BY <1>1, CheckAssumption DEF IInv, TakenOnly, TypeOK, Holds, Checks
<1>5. asked'[cur[w]] # "unasked" /\ \A k : k # cur[w] => asked'[k] = asked[k]
  BY <1>2, <1>4 DEF IInv, TypeOK, Verdicts
<1>6. ctx = "live" /\ Truthful => Truthful'
  <2> SUFFICES ASSUME Truthful PROVE Truthful'
    OBVIOUS
  <2>1. \A k : k \in Received' <=> k \in Received
    BY <1>1, <1>3 DEF Received, InHand, InBuffer
  <2>2. cur[w] \notin Received
    BY <1>4 DEF Received, InHand
  <2>3. /\ got' = Cardinality(Received')
        /\ tally'["internal"] # 0 <=> SomeReceived("fault")'
        /\ tally'["unauthorized"] # 0 <=> SomeReceived("denied")'
        /\ tally'["badRequest"] # 0 <=> SomeReceived("badAction")'
    BY <1>1, <1>5, <2>1, <2>2, SameReceived
  <2>4. \A v \in Workers : at'[v] = "sending" => asked'[cur'[v]] # "unasked"
    BY <1>1, <1>3, <1>5 DEF Truthful
  <2>5. \A j \in 1..Len(results') : results'[j] # 0 /\ asked'[results'[j]] # "unasked"
    BY <1>1, <1>5 DEF Truthful
  <2>6. \A v \in Workers : Holds(v)' => cur'[v] # 0
    BY <1>1, <1>3 DEF Truthful
  <2> QED
    BY <2>3, <2>4, <2>5, <2>6 DEF Truthful
<1>7. ~Settled
  BY <1>1 DEF Settled
<1> QED
  BY <1>1, <1>6, <1>7, WorkerRight, BornWhenStarted

LEMMA SendRight == ASSUME IInv, RightInv, NEW w \in Workers, Send(w) PROVE RightInv'
<1> DEFINE k == Len(results) + 1
<1>1. /\ at[w] = "sending" /\ at' = [at EXCEPT ![w] = "select"]
      /\ UNCHANGED <<next, cur, main, got, tally, code, ctx, asked>>
  BY DEF Send, mainVars
<1>2. /\ Len(results') = k /\ k \in Nat \ {0} /\ results'[k] = cur[w]
      /\ \A j \in 1..Len(results) : results'[j] = results[j] /\ j \in 1..k
      /\ \A j \in 1..k : j = k \/ j \in 1..Len(results)
  BY DEF Send, IInv, TypeOK
<1>3. /\ Holds(w) /\ ~Holds(w)' /\ at'[w] = "select"
      /\ \A v \in Workers : v # w => at'[v] = at[v] /\ (Holds(v)' <=> Holds(v))
  BY <1>1 DEF Holds, IInv, TypeOK
<1> HIDE DEF k
<1>4. ctx = "live" /\ Truthful => Truthful'
  <2> SUFFICES ASSUME Truthful PROVE Truthful'
    OBVIOUS
  <2>1. \A i : InHand(i) \/ InBuffer(i) <=> InHand(i)' \/ InBuffer(i)'
    <3>1. \A i : InBuffer(i)' <=> InBuffer(i) \/ i = cur[w]
      <4>1. k \in 1..k
        BY <1>2
      <4> QED
        BY <1>2, <4>1 DEF InBuffer
    <3>2. \A i : InHand(i) <=> InHand(i)' \/ i = cur[w]
      BY <1>1, <1>3 DEF InHand
    <3> QED
      BY <3>1, <3>2
  <2>2. \A i : i \in Received' <=> i \in Received
    BY <1>1, <2>1 DEF Received
  <2>3. /\ got' = Cardinality(Received')
        /\ tally'["internal"] # 0 <=> SomeReceived("fault")'
        /\ tally'["unauthorized"] # 0 <=> SomeReceived("denied")'
        /\ tally'["badRequest"] # 0 <=> SomeReceived("badAction")'
    BY <1>1, <2>2, SameReceived
  <2>4. /\ \A v \in Workers : Holds(v)' => cur'[v] # 0
        /\ \A v \in Workers : at'[v] = "sending" => asked'[cur'[v]] # "unasked"
    BY <1>1, <1>3 DEF Truthful
  <2>5. \A j \in 1..Len(results') : results'[j] # 0 /\ asked'[results'[j]] # "unasked"
    BY <1>1, <1>2, <1>3 DEF Truthful
  <2> QED
    BY <2>3, <2>4, <2>5 DEF Truthful
<1>5. Settled => Settled'
  BY <1>1, <1>3 DEF Settled, AnswerIsRight
<1> QED
  BY <1>1, <1>4, <1>5, WorkerRight, BornWhenStarted

LEMMA NextRight == IInv /\ RightInv /\ [Next]_vars => RightInv'
<1> SUFFICES ASSUME IInv, RightInv, [Next]_vars PROVE RightInv'
  OBVIOUS
<1>1. CASE UNCHANGED vars
  BY <1>1 DEF vars, workerVars, mainVars, RightInv, Truthful, Settled, AnswerIsRight, Holds,
              Received, SomeReceived, InHand, InBuffer
<1>2. CASE MainSeesDone \/ Expire
  BY <1>2 DEF MainSeesDone, Expire, RightInv, mainVars, workerVars
<1>3. CASE Parse \/ Receive \/ Answer
  BY <1>3, ParseRight, ReceiveRight, AnswerRight
<1>4. ASSUME NEW w \in Workers, Worker(w) PROVE RightInv'
  BY <1>4, TakeRight, QuitRight, SeeDoneRight, CheckRight, SendRight DEF Worker, Goroutine
<1> QED
  BY <1>1, <1>2, <1>3, <1>4 DEF Next, Main

(* A request answered before its context expired gets the answer that the  *)
(* engine's verdicts call for, for any number of actions and goroutines.   *)
THEOREM AnswersRight == Spec => []AnswerIsRight
<1>1. IInv /\ RightInv => AnswerIsRight
  BY DEF RightInv, Settled, AnswerIsRight
<1> QED
  BY <1>1, InitRight, NextRight, CheckAllInv, PTL DEF Spec
=============================================================================
