------------------------------ MODULE CheckAll ------------------------------
(***************************************************************************)
(* POST /api/v1/allow: checkAllActions answers whether the caller may do   *)
(* all of N actions.  The checks are put in a closed channel, a pool of    *)
(* goroutines asks the engine about each, and the handler collects N       *)
(* results, or as many notices that its context is done.                   *)
(*                                                                         *)
(* What the engine answers to a check is nondeterministic; asked records   *)
(* it, so a result is the number of its check, and 0 stands for the result *)
(* of a goroutine that saw the context done.                               *)
(***************************************************************************)
EXTENDS Naturals, Sequences, FiniteSets

CONSTANTS N,        \* how many actions the request lists
          Workers   \* the goroutines: concurrentChecks of them

ASSUME CheckAssumption == N \in Nat

Checks   == 1..N
Verdicts == {"allowed", "denied", "badAction", "fault"}
Tallies  == {"internal", "unauthorized", "badRequest"}

VARIABLES next,      \* how many checks have left requestsCh
          results,   \* resultsCh, a buffered channel for N results
          at, cur,   \* where each goroutine is, and its check or 0
          main, got, \* where the handler is, and the results it counted
          tally,     \* its error counters
          seen,      \* history: the checks it received as allowed
          ctx,       \* the context: live, expired, or cancelled by return
          asked,     \* the engine's answer to each check, or "unasked"
          code       \* the HTTP status, or 0

workerVars == <<at, cur>>
mainVars   == <<main, got, tally, seen, code>>
vars       == <<next, results, workerVars, mainVars, ctx, asked>>

Init ==
    /\ next = 0 /\ results = <<>>
    /\ at = [w \in Workers |-> "unborn"] /\ cur = [w \in Workers |-> 0]
    /\ main = "parse" /\ got = 0
    /\ tally = [t \in Tallies |-> 0]
    /\ seen = {}
    /\ ctx = "live"
    /\ asked = [i \in Checks |-> "unasked"]
    /\ code = 0

-----------------------------------------------------------------------------
(* The handler.                                                            *)

(* Every action must be named and every resource known, or the request is  *)
(* refused before a goroutine starts.                                      *)
Parse ==
    /\ main = "parse"
    /\ \/ /\ main' = "collect"
          /\ at' = [w \in Workers |-> "select"]
          /\ UNCHANGED code
       \/ /\ N > 0
          /\ main' = "answered" /\ code' = 400
          /\ UNCHANGED at
    /\ UNCHANGED <<next, results, cur, got, tally, seen, ctx, asked>>

(* The tally an engine answer adds to; 0 is an error of the context.       *)
TallyOf(i) ==
    IF i = 0 \/ asked[i] = "fault" THEN "internal"
    ELSE IF asked[i] = "denied" THEN "unauthorized" ELSE "badRequest"

Allowed(i) == i # 0 /\ asked[i] = "allowed"

Receive ==
    /\ main = "collect" /\ got < N
    /\ results # <<>>
    /\ LET i == Head(results) IN
          IF Allowed(i)
          THEN seen' = seen \cup {i} /\ UNCHANGED tally
          ELSE tally' = [tally EXCEPT ![TallyOf(i)] = @ + 1] /\ UNCHANGED seen
    /\ results' = Tail(results)
    /\ got' = got + 1
    /\ UNCHANGED <<next, workerVars, main, ctx, asked, code>>

(* mutant: the loop runs once more than there are results                  *)
MainSeesDoneExtra ==
    /\ main = "collect" /\ got <= N
    /\ ctx # "live"
    /\ tally' = [tally EXCEPT !["internal"] = @ + 1]
    /\ got' = got + 1
    /\ UNCHANGED <<next, results, workerVars, main, seen, ctx, asked, code>>

(* mutant: a missing result is counted as received, but not as an error    *)
MainSeesDoneSilently ==
    /\ main = "collect" /\ got < N
    /\ ctx # "live"
    /\ got' = got + 1
    /\ UNCHANGED <<next, results, workerVars, main, tally, seen, ctx, asked, code>>

(* mutant: the handler waits for every result, whatever becomes of ctx     *)
MainNeverSeesDone == FALSE /\ UNCHANGED vars

(* ... <-ctx.Done(): one result is given up.                               *)
MainSeesDone ==
    /\ main = "collect" /\ got < N
    /\ ctx # "live"
    /\ tally' = [tally EXCEPT !["internal"] = @ + 1]
    /\ got' = got + 1
    /\ UNCHANGED <<next, results, workerVars, main, seen, ctx, asked, code>>

(* mutant: a denial is reported before an internal error                   *)
StatusDeniedFirst ==
    IF tally["unauthorized"] # 0 THEN 403
    ELSE IF tally["internal"] # 0 THEN 500
    ELSE IF tally["badRequest"] # 0 THEN 400 ELSE 200

Status ==
    IF tally["internal"] # 0 THEN 500
    ELSE IF tally["unauthorized"] # 0 THEN 403
    ELSE IF tally["badRequest"] # 0 THEN 400 ELSE 200

(* The return runs the deferred cancel.                                    *)
Answer ==
    /\ main = "collect" /\ got = N
    /\ main' = "answered" /\ code' = Status
    /\ ctx' = IF ctx = "live" THEN "cancelled" ELSE ctx
    /\ UNCHANGED <<next, results, workerVars, got, tally, seen, asked>>

(* maxCheckDuration has passed, or the caller has gone.                    *)
Expire ==
    /\ main = "collect" /\ ctx = "live"
    /\ ctx' = "expired"
    /\ UNCHANGED <<next, results, workerVars, mainVars, asked>>

-----------------------------------------------------------------------------
(* A goroutine.  A closed channel that is drained is always ready, so is   *)
(* the channel of a context that is done: select takes either.             *)

Take(w) ==
    /\ at[w] = "select" /\ next < N
    /\ next' = next + 1
    /\ cur' = [cur EXCEPT ![w] = next + 1]
    /\ at' = [at EXCEPT ![w] = "checking"]
    /\ UNCHANGED <<results, mainVars, ctx, asked>>

Quit(w) ==
    /\ at[w] = "select" /\ next = N
    /\ at' = [at EXCEPT ![w] = "gone"]
    /\ UNCHANGED <<next, results, cur, mainVars, ctx, asked>>

SeeDone(w) ==
    /\ at[w] = "select" /\ ctx # "live"
    /\ cur' = [cur EXCEPT ![w] = 0]
    /\ at' = [at EXCEPT ![w] = "sending"]
    /\ UNCHANGED <<next, results, mainVars, ctx, asked>>

(* SubjectHasPermission returns; "fault" is any error that is neither of   *)
(* the two the handler knows, a context that is done among them.           *)
Check(w) ==
    /\ at[w] = "checking"
    /\ \E v \in Verdicts : asked' = [asked EXCEPT ![cur[w]] = v]
    /\ at' = [at EXCEPT ![w] = "sending"]
    /\ UNCHANGED <<next, results, cur, mainVars, ctx>>

(* mutant: a buffer one result too small                                   *)
SendSmallBuffer(w) ==
    /\ at[w] = "sending" /\ Len(results) + 1 < N
    /\ results' = Append(results, cur[w])
    /\ at' = [at EXCEPT ![w] = "select"]
    /\ UNCHANGED <<next, cur, mainVars, ctx, asked>>

(* resultsCh <- result waits while the buffer is full.                     *)
Send(w) ==
    /\ at[w] = "sending" /\ Len(results) < N
    /\ results' = Append(results, cur[w])
    /\ at' = [at EXCEPT ![w] = "select"]
    /\ UNCHANGED <<next, cur, mainVars, ctx, asked>>

Main         == Parse \/ Receive \/ MainSeesDone \/ Answer
Goroutine(w) == Take(w) \/ Quit(w) \/ SeeDone(w) \/ Send(w)
Worker(w)    == Goroutine(w) \/ Check(w)

Next == Main \/ Expire \/ \E w \in Workers : Worker(w)

Spec == Init /\ [][Next]_vars

(* The handler, the timer and the goroutines run; the engine need never    *)
(* answer.                                                                 *)
FairSpec ==
    /\ Spec /\ WF_vars(Main) /\ WF_vars(Expire)
    /\ \A w \in Workers : WF_vars(Goroutine(w))

-----------------------------------------------------------------------------
TypeOK ==
    /\ next \in 0..N
    /\ results \in Seq(0..N) /\ Len(results) <= N
    /\ at \in [Workers -> {"unborn", "select", "checking", "sending", "gone"}]
    /\ cur \in [Workers -> 0..N]
    /\ main \in {"parse", "collect", "answered"}
    /\ got \in 0..N
    /\ tally \in [Tallies -> 0..N]
    /\ seen \subseteq Checks
    /\ ctx \in {"live", "expired", "cancelled"}
    /\ asked \in [Checks -> Verdicts \cup {"unasked"}]
    /\ code \in {0, 200, 400, 403, 500}

(* "It will return a 200 if the subject is allowed to perform all          *)
(* requested resource actions": with goroutines that answer for no check   *)
(* at all, results out of order and notices of a context that is done, 200 *)
(* still means that the engine allowed every single one.                   *)
GrantedOnlyIfAllAllowed ==
    code = 200 => \A i \in Checks : asked[i] = "allowed"

(* A request answered before its context expired gets the answer that the  *)
(* engine's verdicts call for, an internal error before a denial and a     *)
(* denial before an invalid action.                                        *)
AnswerIsRight ==
    LET Some(v) == \E i \in Checks : asked[i] = v IN
    main = "answered" /\ ctx = "cancelled" =>
        code = IF Some("fault") THEN 500
               ELSE IF Some("denied") THEN 403
               ELSE IF Some("badAction") THEN 400 ELSE 200

(* The handler answers even when the engine never does: it counts an error *)
(* for each result it gives up once its context is done.                   *)
AlwaysAnswers == <>(main = "answered")

(* "if channel is closed, quit the go routine": once the request has been  *)
(* answered its goroutines end, but for one the engine never answers and   *)
(* for those that, their context being done, have filled the buffer nobody *)
(* reads any more.                                                         *)
WorkersEnd ==
    \A w \in Workers :
        (main = "answered" /\ at[w] # "unborn")
            ~> (at[w] = "gone" \/ Len(results) = N \/ [](at[w] = "checking"))
=============================================================================
