------------------------------ MODULE Selector ------------------------------
(***************************************************************************)
(* The selector of the client library: DNS names the hosts that serve the  *)
(* API, a discovery goroutine looks them up, a checking goroutine probes   *)
(* them, and every HTTP request goes to the host selected at that moment,  *)
(* reports that host when the request fails and selects again.             *)
(*                                                                         *)
(* A host is an object: one that leaves the list and comes back is a new   *)
(* object with the same ID, while the selector, requests and checks may    *)
(* hold the old.  An error of an object that is not listed is never looked *)
(* at again, so here such an object is Gone to whoever held it, but for    *)
(* the selector, which goes on using it.                                   *)
(***************************************************************************)
CONSTANTS
    Hosts,      \* the IDs that SRV records may name
    prefer,     \* the preferred ID, or any other value for none
    Callers     \* the goroutines that make HTTP requests

VARIABLES
    quick,      \* option Quick
    phase,      \* of startOnce: "new", "starting", "started"
    once,       \* of checkOnce: "new", "running", "done"
    disc,       \* the first discovery and the goroutine that repeats it
    hosts, bad, \* the hosts listed, and those of them with an error
    selected,   \* the host that requests go to
    old,        \* it is an object that is no longer listed
    sticky,     \* stickyUntil has not passed
    round,      \* who is in checkHosts, and the hosts left to check
    pc, host,   \* each caller, and the host of its request
    stopped,    \* runCh is closed
    moved       \* history: the list changed since selectHost last ran

startVars  == <<quick, phase, once, disc>>
choiceVars == <<selected, old, sticky, moved>>
callVars   == <<pc, host>>
vars       == <<startVars, hosts, bad, choiceVars, round, callVars, stopped>>

Fallback == "fallback"
NoHost   == "none"
Gone     == "gone"

ASSUME SelectorAssumption == Hosts \cap {Fallback, NoHost, Gone} = {}

Init ==
    /\ quick \in BOOLEAN
    /\ phase = "new" /\ once = "new"
    /\ disc = [first |-> "off", ticker |-> "off"]
    /\ hosts = {} /\ bad = {}
    /\ selected = NoHost /\ old = FALSE /\ sticky = FALSE /\ moved = FALSE
    /\ round = [by |-> "nobody", todo |-> {}]
    /\ pc = [c \in Callers |-> "idle"]
    /\ host = [c \in Callers |-> NoHost]
    /\ stopped = FALSE

-----------------------------------------------------------------------------
Good == hosts \ bad

(* selectHost: the current host while it is sticky, the preferred host, the *)
(* first of the list, whatever its order, the fallback, which there always *)
(* is.  Every way through leaves a sticky period that has not ended.       *)
Current   == Good \cap {selected}
Preferred == Good \cap {prefer}

Candidates ==
    IF sticky /\ Current # {} THEN Current
    ELSE IF Preferred # {} THEN Preferred
    ELSE IF Good # {} THEN Good
    ELSE {Fallback}

SelectHost ==
    /\ selected' \in Candidates
    /\ old' = FALSE
    /\ sticky' = TRUE
    /\ moved' = FALSE

(* stickyUntil passes.                                                     *)
Unstick ==
    /\ sticky /\ sticky' = FALSE
    /\ UNCHANGED <<startVars, hosts, bad, selected, old, moved, round, callVars, stopped>>

-----------------------------------------------------------------------------
(* The start, which every GetHost goes through.                            *)

Start ==
    /\ phase = "new"
    /\ IF quick
       THEN /\ phase' = "started"
            /\ selected' = Fallback
            /\ disc' = [first |-> "lookup", ticker |-> "wait"]
       ELSE /\ phase' = "starting"
            /\ disc' = [disc EXCEPT !.first = "lookup"]
            /\ UNCHANGED selected
    /\ UNCHANGED <<quick, once, hosts, bad, old, sticky, moved, round, callVars, stopped>>

(* startOnce lets nobody pass before the first start has returned; then    *)
(* there is a host (StartedHasHost) and GetHost never waits for one.       *)
GetHost(c) ==
    /\ pc[c] = "idle" /\ phase = "started"
    /\ pc' = [pc EXCEPT ![c] = "send"]
    /\ host' = [host EXCEPT ![c] = selected]
    /\ UNCHANGED <<startVars, hosts, bad, choiceVars, round, stopped>>

-----------------------------------------------------------------------------
(* discoverRecords.                                                        *)

(* mutant: errors are kept by ID, so a host that comes back has its own    *)
LookupKeeps(d) ==
    /\ disc[d] = "lookup"
    /\ \E found \in SUBSET Hosts :
          /\ hosts' = found
          /\ old' = (old \/ selected \in hosts \ found)
          /\ host' = [c \in Callers |-> IF host[c] \in hosts \ found THEN Gone ELSE host[c]]
          /\ round' = [round EXCEPT !.todo = @ \cap found]
          /\ moved' = (moved \/ found # hosts)
    /\ disc' = [disc EXCEPT ![d] = "once"]
    /\ UNCHANGED <<quick, phase, once, bad, selected, sticky, pc, stopped>>

(* The list is replaced by the records found: a lookup that fails finds    *)
(* none.  New hosts have no error.                                         *)
Lookup(d) ==
    /\ disc[d] = "lookup"
    /\ \E found \in SUBSET Hosts :
          /\ hosts' = found
          /\ bad' = bad \cap found
          /\ old' = (old \/ selected \in hosts \ found)
          /\ host' = [c \in Callers |-> IF host[c] \in hosts \ found THEN Gone ELSE host[c]]
          /\ round' = [round EXCEPT !.todo = @ \cap found]
          /\ moved' = (moved \/ found # hosts)
    /\ disc' = [disc EXCEPT ![d] = "once"]
    /\ UNCHANGED <<quick, phase, once, selected, sticky, pc, stopped>>

(* mutant: checkOnce ends before the checks do                             *)
CheckOnceEarly(d) ==
    /\ disc[d] = "once" /\ once = "new"
    /\ once' = "done"
    /\ round' = [by |-> "once", todo |-> hosts]
    /\ UNCHANGED <<quick, phase, disc, hosts, bad, choiceVars, callVars, stopped>>

(* checkOnce: the first to come checks the hosts, whoever comes meanwhile  *)
(* waits for it.                                                           *)
CheckOnce(d) ==
    /\ disc[d] = "once" /\ once = "new"
    /\ once' = "running"
    /\ round' = [by |-> "once", todo |-> hosts]
    /\ UNCHANGED <<quick, phase, disc, hosts, bad, choiceVars, callVars, stopped>>

Discovered(d) ==
    /\ disc[d] = "once" /\ once = "done"
    /\ disc' = IF d = "ticker" THEN [disc EXCEPT !.ticker = "wait"]
               ELSE [first |-> "off",
                     ticker |-> IF quick THEN disc.ticker ELSE "wait"]
    /\ phase' = "started"
    /\ UNCHANGED <<quick, once, hosts, bad, choiceVars, round, callVars, stopped>>

(* select takes either channel when both are ready.                        *)
DiscoveryTick ==
    /\ disc.ticker = "wait"
    /\ \/ disc' = [disc EXCEPT !.ticker = "lookup"]
       \/ stopped /\ disc' = [disc EXCEPT !.ticker = "off"]
    /\ UNCHANGED <<quick, phase, once, hosts, bad, choiceVars, round, callVars, stopped>>

-----------------------------------------------------------------------------
(* checkHosts, once and then at every interval.                            *)

WatchTick ==
    /\ once = "done" /\ round.by = "nobody"
    /\ \/ round' = [by |-> "watch", todo |-> hosts]
       \/ stopped /\ round' = [by |-> "stopped", todo |-> {}]
    /\ UNCHANGED <<startVars, hosts, bad, choiceVars, callVars, stopped>>

(* host.check: its result replaces the host's error, whatever a request    *)
(* found out meanwhile.                                                    *)
CheckHost ==
    /\ \E o \in round.todo :
          /\ bad' \in {bad \cup {o}, bad \ {o}}
          /\ round' = [round EXCEPT !.todo = @ \ {o}]
    /\ UNCHANGED <<startVars, hosts, choiceVars, callVars, stopped>>

Checked == round.by \in {"once", "watch"} /\ round.todo = {}

FinishRound ==
    /\ once' = "done"
    /\ round' = [by |-> "nobody", todo |-> {}]
    /\ UNCHANGED <<quick, phase, disc, hosts, bad, callVars, stopped>>

(* mutant: with no host to check, nothing is selected either               *)
EndRoundEmpty ==
    /\ Checked
    /\ IF hosts = {} /\ selected # NoHost THEN UNCHANGED choiceVars ELSE SelectHost
    /\ FinishRound

EndRound == Checked /\ SelectHost /\ FinishRound

-----------------------------------------------------------------------------
(* Transport.RoundTrip.                                                    *)

Return(c) ==
    /\ pc' = [pc EXCEPT ![c] = "idle"]
    /\ host' = [host EXCEPT ![c] = NoHost]

Succeed(c) ==
    /\ pc[c] = "send"
    /\ Return(c)
    /\ UNCHANGED <<startVars, hosts, bad, choiceVars, round, stopped>>

Fail(c) ==
    /\ pc[c] = "send"
    /\ bad' = bad \cup ({host[c]} \cap hosts)
    /\ pc' = [pc EXCEPT ![c] = "select"]
    /\ host' = [host EXCEPT ![c] = NoHost]
    /\ UNCHANGED <<startVars, hosts, choiceVars, round, stopped>>

(* mutant: the sticky period holds for a host that fails too               *)
ReselectUnstuck(c) ==
    /\ pc[c] = "select"
    /\ IF sticky THEN UNCHANGED choiceVars ELSE SelectHost
    /\ Return(c)
    /\ UNCHANGED <<startVars, hosts, bad, round, stopped>>

Reselect(c) ==
    /\ pc[c] = "select"
    /\ SelectHost
    /\ Return(c)
    /\ UNCHANGED <<startVars, hosts, bad, round, stopped>>

Stop ==
    /\ ~stopped /\ stopped' = TRUE
    /\ UNCHANGED <<startVars, hosts, bad, choiceVars, round, callVars>>

-----------------------------------------------------------------------------
Discoverers == {"first", "ticker"}

Discover(d) == Lookup(d) \/ CheckOnce(d) \/ Discovered(d)
Watch       == WatchTick \/ CheckHost \/ EndRound
RoundTrip(c) ==
    GetHost(c) \/ Succeed(c) \/ Fail(c) \/ Reselect(c)

Next ==
    \/ Start
    \/ \E d \in Discoverers : Discover(d)
    \/ DiscoveryTick \/ Watch \/ Unstick \/ Stop
    \/ \E c \in Callers : RoundTrip(c)

Spec == Init /\ [][Next]_vars

(* The goroutines run, the ticker ticks and every lookup and every check   *)
(* ends: each has a timeout.                                               *)
FairSpec ==
    /\ Spec
    /\ \A d \in Discoverers : WF_vars(Discover(d))
    /\ WF_vars(Watch)
-----------------------------------------------------------------------------
TypeOK ==
    /\ quick \in BOOLEAN /\ sticky \in BOOLEAN /\ moved \in BOOLEAN /\ stopped \in BOOLEAN
    /\ phase \in {"new", "starting", "started"}
    /\ once \in {"new", "running", "done"}
    /\ disc \in [first : {"off", "lookup", "once"}, ticker : {"off", "wait", "lookup", "once"}]
    /\ hosts \subseteq Hosts /\ bad \subseteq hosts
    /\ selected \in Hosts \cup {Fallback, NoHost} /\ old \in BOOLEAN
    /\ round \in [by : {"nobody", "once", "watch", "stopped"}, todo : SUBSET Hosts]
    /\ round.todo \subseteq hosts
    /\ pc \in [Callers -> {"idle", "send", "select"}]
    /\ host \in [Callers -> Hosts \cup {Fallback, NoHost, Gone}]

(* Requests go to a host not known to be bad, and to the fallback only     *)
(* when no such host is known, except between a discovery and the next     *)
(* selection, while the hosts are checked, and while the caller whose      *)
(* request has failed is about to select: with requests that fail on hosts *)
(* removed, replaced or being checked at the same time.                    *)
SelectedWell ==
    \/ selected = NoHost \/ moved \/ round.by \in {"once", "watch"}
    \/ \E c \in Callers : pc[c] = "select"
    \/ IF Good # {} THEN selected \in Good /\ ~old ELSE selected = Fallback

(* Whoever passes startOnce finds a host: of GetHost's outcomes            *)
(* ErrHostNotFound, ErrWaitTimedout and ErrSelectorStopped never occur.    *)
StartedHasHost == phase = "started" => selected # NoHost

(* A host that discovery has removed does not serve requests for ever,     *)
(* though discovery selects nothing and may find no other host: the checks *)
(* do, as long as the selector runs.                                       *)
RemovedHostAbandoned == old ~> (~old \/ stopped)

=============================================================================
