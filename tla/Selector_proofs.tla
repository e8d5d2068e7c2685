--------------------------- MODULE Selector_proofs ---------------------------
(***************************************************************************)
(* Theorems about Selector, for any set of hosts and of callers.           *)
(***************************************************************************)
EXTENDS Selector, TLAPS

(* The candidates are the listed hosts without an error, or the fallback   *)
(* when there is none.                                                     *)
LEMMA CandidatesWell ==
    \A s \in Candidates : IF Good # {} THEN s \in Good ELSE s = Fallback
  BY DEF Candidates, Current, Preferred

(* Type correctness: the errors kept are those of listed hosts, and        *)
(* whoever holds a host holds a listed one, the fallback or none.          *)
THEOREM SelectorTypes == Spec => []TypeOK
<1>1. Init => TypeOK
  <2> SUFFICES ASSUME Init PROVE TypeOK
    OBVIOUS
  <2>1. quick \in BOOLEAN /\ sticky \in BOOLEAN /\ moved \in BOOLEAN /\ stopped \in BOOLEAN
        /\ old \in BOOLEAN
    BY Zenon DEF Init
  <2>2. disc \in [first : {"off", "lookup", "once"}, ticker : {"off", "wait", "lookup", "once"}]
    BY DEF Init
  <2>3. round \in [by : {"nobody", "once", "watch", "stopped"}, todo : SUBSET Hosts]
    BY DEF Init
  <2>4. pc \in [Callers -> {"idle", "send", "select"}]
        /\ host \in [Callers -> Hosts \cup {Fallback, NoHost, Gone}]
    BY DEF Init
  <2> QED
    BY <2>1, <2>2, <2>3, <2>4 DEF Init, TypeOK
<1>2. TypeOK /\ [Next]_vars => TypeOK'
  <2> SUFFICES ASSUME TypeOK, [Next]_vars PROVE TypeOK'
    OBVIOUS
  <2>1. SelectHost => selected' \in Hosts \cup {Fallback, NoHost} /\ old' \in BOOLEAN
                      /\ sticky' \in BOOLEAN /\ moved' \in BOOLEAN
    BY CandidatesWell DEF SelectHost, Good, TypeOK
  <2>2. CASE Start
    <3>1. CASE quick
      BY <2>2, <3>1 DEF Start, callVars, TypeOK
    <3>2. CASE ~quick
      BY <2>2, <3>2 DEF Start, callVars, TypeOK
    <3> QED
      BY <3>1, <3>2
  <2>3. ASSUME NEW d \in Discoverers, Lookup(d) PROVE TypeOK'
    <3> PICK found \in SUBSET Hosts :
          /\ hosts' = found
          /\ bad' = bad \cap found
          /\ old' = (old \/ selected \in hosts \ found)
          /\ host' = [c \in Callers |-> IF host[c] \in hosts \ found THEN Gone ELSE host[c]]
          /\ round' = [round EXCEPT !.todo = @ \cap found]
          /\ moved' = (moved \/ found # hosts)
      BY <2>3 DEF Lookup
    <3>1. host' \in [Callers -> Hosts \cup {Fallback, NoHost, Gone}]
      BY DEF TypeOK
    <3>2. round' \in [by : {"nobody", "once", "watch", "stopped"}, todo : SUBSET Hosts]
      BY DEF TypeOK
    <3>3. round'.todo \subseteq hosts'
      BY DEF TypeOK
    <3>4. disc' \in [first : {"off", "lookup", "once"}, ticker : {"off", "wait", "lookup", "once"}]
      BY <2>3 DEF Lookup, Discoverers, TypeOK
    <3>5. old' \in BOOLEAN /\ moved' \in BOOLEAN
      OBVIOUS
    <3> QED
      BY <2>3, <3>1, <3>2, <3>3, <3>4, <3>5 DEF Lookup, TypeOK
  <2>4. ASSUME NEW d \in Discoverers, CheckOnce(d) PROVE TypeOK'
    BY <2>4 DEF CheckOnce, choiceVars, callVars, TypeOK
  <2>5. ASSUME NEW d \in Discoverers, Discovered(d) PROVE TypeOK'
    BY <2>5 DEF Discovered, choiceVars, callVars, Discoverers, TypeOK
  <2>6. CASE DiscoveryTick
    BY <2>6 DEF DiscoveryTick, choiceVars, callVars, TypeOK
  <2>7. CASE WatchTick
    BY <2>7 DEF WatchTick, startVars, choiceVars, callVars, TypeOK
  <2>8. CASE CheckHost
    <3> PICK o \in round.todo : /\ bad' \in {bad \cup {o}, bad \ {o}}
                                /\ round' = [round EXCEPT !.todo = @ \ {o}]
      BY <2>8 DEF CheckHost
    <3>1. round' \in [by : {"nobody", "once", "watch", "stopped"}, todo : SUBSET Hosts]
      BY DEF TypeOK
    <3>2. bad' \subseteq hosts /\ round'.todo \subseteq hosts
      BY DEF TypeOK
    <3> QED
      BY <2>8, <3>1, <3>2 DEF CheckHost, startVars, choiceVars, callVars, TypeOK
  <2>9. CASE EndRound
    BY <2>9, <2>1 DEF EndRound, FinishRound, callVars, TypeOK
  <2>10. CASE Unstick
    <3>1. sticky' \in BOOLEAN
      BY <2>10, Zenon DEF Unstick
    <3> QED
      BY <2>10, <3>1 DEF Unstick, startVars, callVars, TypeOK
  <2>11. CASE Stop
    BY <2>11 DEF Stop, startVars, choiceVars, callVars, TypeOK
  <2>12. ASSUME NEW c \in Callers, GetHost(c) PROVE TypeOK'
    BY <2>12 DEF GetHost, startVars, choiceVars, TypeOK
  <2>13. ASSUME NEW c \in Callers, Succeed(c) PROVE TypeOK'
    BY <2>13 DEF Succeed, Return, startVars, choiceVars, TypeOK
  <2>14. ASSUME NEW c \in Callers, Fail(c) PROVE TypeOK'
    BY <2>14 DEF Fail, startVars, choiceVars, TypeOK
  <2>15. ASSUME NEW c \in Callers, Reselect(c) PROVE TypeOK'
    BY <2>15, <2>1 DEF Reselect, Return, startVars, TypeOK
  <2>16. CASE UNCHANGED vars
    BY <2>16 DEF vars, startVars, choiceVars, callVars, TypeOK
  <2> QED
    BY <2>2, <2>3, <2>4, <2>5, <2>6, <2>7, <2>8, <2>9, <2>10, <2>11, <2>12, <2>13, <2>14,
       <2>15, <2>16 DEF Next, Discover, Watch, RoundTrip
<1> QED
  BY <1>1, <1>2, PTL DEF Spec

-----------------------------------------------------------------------------
(* Somebody is about to select, or the list has changed since the last     *)
(* selection: nothing is said of the host in use.                          *)
Unsettled ==
    \/ selected = NoHost \/ moved \/ round.by \in {"once", "watch"}
    \/ \E c \in Callers : pc[c] = "select"

(* A selection leaves the selector with a good host, or with the fallback  *)
(* when there is none.                                                     *)
LEMMA SelectionIsGood ==
    ASSUME SelectHost, UNCHANGED <<hosts, bad>>
    PROVE  IF Good' # {} THEN selected' \in Good' /\ ~old' ELSE selected' = Fallback
  BY CandidatesWell DEF SelectHost, Good

(* Nothing runs before the first start, and there is nothing to check but  *)
(* in a round of checks.                                                   *)
Quiet ==
    /\ phase = "new" => /\ hosts = {} /\ once = "new" /\ round.by = "nobody"
                        /\ disc.first = "off" /\ disc.ticker = "off"
    /\ round.by \in {"nobody", "stopped"} => round.todo = {}

LEMMA QuietAlways == Spec => []Quiet
<1>1. Init => Quiet
  BY DEF Init, Quiet
<1>2. TypeOK /\ Quiet /\ [Next]_vars => Quiet'
  <2> SUFFICES ASSUME TypeOK, Quiet, [Next]_vars PROVE Quiet'
    OBVIOUS
  <2>1. CASE Start
    BY <2>1 DEF Start, Quiet, TypeOK
  <2>2. ASSUME NEW d \in Discoverers, Discover(d) PROVE Quiet'
    <3>1. disc[d] # "off"
      BY <2>2 DEF Discover, Lookup, CheckOnce, Discovered
    <3>2. phase # "new" /\ phase' # "new"
      BY <2>2, <3>1 DEF Quiet, Discoverers, Discover, Lookup, CheckOnce, Discovered
    <3>3. CASE Lookup(d)
      <4> PICK found \in SUBSET Hosts : round' = [round EXCEPT !.todo = @ \cap found]
        BY <3>3 DEF Lookup
      <4>1. round'.by = round.by /\ round'.todo = round.todo \cap found
        BY DEF TypeOK
      <4> QED
        BY <3>2, <4>1 DEF Quiet
    <3>4. CASE CheckOnce(d)
      BY <3>2, <3>4 DEF CheckOnce, Quiet
    <3>5. CASE Discovered(d)
      BY <3>2, <3>5 DEF Discovered, Quiet
    <3> QED
      BY <2>2, <3>3, <3>4, <3>5 DEF Discover
  <2>3. CASE DiscoveryTick
    BY <2>3 DEF DiscoveryTick, Quiet
  <2>4. CASE WatchTick
    BY <2>4 DEF WatchTick, Quiet, startVars
  <2>5. CASE CheckHost
    <3> PICK o \in round.todo : round' = [round EXCEPT !.todo = @ \ {o}]
      BY <2>5 DEF CheckHost
    <3>1. round'.by = round.by /\ round'.todo = round.todo \ {o}
      BY DEF TypeOK
    <3> QED
      BY <2>5, <3>1 DEF CheckHost, Quiet, startVars
  <2>6. CASE EndRound
    BY <2>6 DEF EndRound, Checked, FinishRound, Quiet
  <2>7. CASE Unstick \/ Stop
    BY <2>7 DEF Unstick, Stop, Quiet, startVars
  <2>8. ASSUME NEW c \in Callers, RoundTrip(c) PROVE Quiet'
    BY <2>8 DEF RoundTrip, GetHost, Succeed, Fail, Reselect, Quiet, startVars
  <2>9. CASE UNCHANGED vars
    BY <2>9 DEF vars, Quiet, startVars
  <2> QED
    BY <2>1, <2>2, <2>3, <2>4, <2>5, <2>6, <2>7, <2>8, <2>9 DEF Next, Watch
<1> QED
  BY <1>1, <1>2, SelectorTypes, PTL DEF Spec

(* Requests go to a good host while one is known, but for the windows that *)
(* the code leaves open: with any number of hosts, callers and requests    *)
(* that fail at once.  The property is inductive: whoever changes the      *)
(* error of a host is in one of the windows until it has selected.         *)
THEOREM SelectsWell == Spec => []SelectedWell
<1>1. Init => SelectedWell
  BY DEF Init, SelectedWell
<1>2. TypeOK /\ Quiet /\ SelectedWell /\ [Next]_vars => SelectedWell'
  <2> SUFFICES ASSUME TypeOK, Quiet, SelectedWell, [Next]_vars PROVE SelectedWell'
    OBVIOUS
  <2>1. ASSUME UNCHANGED <<hosts, bad, selected, old>>, Unsettled => Unsettled'
        PROVE  SelectedWell'
    BY <2>1 DEF SelectedWell, Unsettled, Good
  <2>2. ASSUME Unsettled' PROVE SelectedWell'
    BY <2>2 DEF SelectedWell, Unsettled
  <2>3. ASSUME SelectHost, UNCHANGED <<hosts, bad>> PROVE SelectedWell'
    BY <2>3, SelectionIsGood DEF SelectedWell
  <2>4. CASE Start
    <3>1. CASE quick
      <4>1. Good' = {} /\ selected' = Fallback
        BY <2>4, <3>1 DEF Start, Quiet, Good
      <4> QED
        BY <4>1 DEF SelectedWell
    <3>2. CASE ~quick
      BY <2>4, <3>2, <2>1 DEF Start, Unsettled, callVars
    <3> QED
      BY <3>1, <3>2
  <2>5. ASSUME NEW d \in Discoverers, Lookup(d) PROVE SelectedWell'
    <3>1. PICK found \in SUBSET Hosts :
            /\ hosts' = found
            /\ bad' = bad \cap found
            /\ old' = (old \/ selected \in hosts \ found)
            /\ round' = [round EXCEPT !.todo = @ \cap found]
            /\ moved' = (moved \/ found # hosts)
      BY <2>5 DEF Lookup
    <3>2. pc' = pc /\ selected' = selected /\ round'.by = round.by
      BY <2>5, <3>1 DEF Lookup, TypeOK
    <3>3. CASE found # hosts
      BY <3>1, <3>3, <2>2 DEF Unsettled
    <3>4. CASE found = hosts
      <4>1. hosts' = hosts /\ bad' = bad
        BY <3>1, <3>4 DEF TypeOK
      <4>2. (old' <=> old) /\ (moved' <=> moved)
        BY <3>1, <3>4
      <4> QED
        BY <4>1, <4>2, <3>2 DEF SelectedWell, Good
    <3> QED
      BY <3>3, <3>4
  <2>6. ASSUME NEW d \in Discoverers, CheckOnce(d) PROVE SelectedWell'
    BY <2>6, <2>2 DEF CheckOnce, Unsettled
  <2>7. ASSUME NEW d \in Discoverers, Discovered(d) PROVE SelectedWell'
    BY <2>7, <2>1 DEF Discovered, Unsettled, choiceVars, callVars
  <2>8. CASE DiscoveryTick
    BY <2>8, <2>1 DEF DiscoveryTick, Unsettled, choiceVars, callVars
  <2>9. CASE WatchTick
    BY <2>9, <2>1 DEF WatchTick, Unsettled, choiceVars, callVars
  <2>10. CASE CheckHost
    <3>1. round.by \in {"once", "watch"}
      BY <2>10 DEF CheckHost, Quiet, TypeOK
    <3>2. round'.by = round.by
      BY <2>10 DEF CheckHost, TypeOK
    <3> QED
      BY <3>1, <3>2, <2>2 DEF Unsettled
  <2>11. CASE EndRound
    BY <2>11, <2>3 DEF EndRound, FinishRound
  <2>12. CASE Unstick
    BY <2>12, <2>1 DEF Unstick, Unsettled, callVars
  <2>13. CASE Stop
    BY <2>13, <2>1 DEF Stop, Unsettled, choiceVars, callVars
  <2>14. ASSUME NEW c \in Callers, GetHost(c) PROVE SelectedWell'
    <3>1. \A e \in Callers : pc[e] = "select" => pc'[e] = "select"
      BY <2>14 DEF GetHost, TypeOK
    <3> QED
      BY <2>14, <3>1, <2>1 DEF GetHost, Unsettled, choiceVars
  <2>15. ASSUME NEW c \in Callers, Succeed(c) PROVE SelectedWell'
    <3>1. \A e \in Callers : pc[e] = "select" => pc'[e] = "select"
      BY <2>15 DEF Succeed, Return, TypeOK
    <3> QED
      BY <2>15, <3>1, <2>1 DEF Succeed, Unsettled, choiceVars
  <2>16. ASSUME NEW c \in Callers, Fail(c) PROVE SelectedWell'
    <3>1. pc'[c] = "select"
      BY <2>16 DEF Fail, TypeOK
    <3> QED
      BY <3>1, <2>2 DEF Unsettled
  <2>17. ASSUME NEW c \in Callers, Reselect(c) PROVE SelectedWell'
    BY <2>17, <2>3 DEF Reselect
  <2>18. CASE UNCHANGED vars
    BY <2>18, <2>1 DEF vars, choiceVars, callVars, Unsettled
  <2> QED
    BY <2>4, <2>5, <2>6, <2>7, <2>8, <2>9, <2>10, <2>11, <2>12, <2>13, <2>14, <2>15, <2>16,
       <2>17, <2>18 DEF Next, Discover, Watch, RoundTrip
<1> QED
  BY <1>1, <1>2, SelectorTypes, QuietAlways, PTL DEF Spec

-----------------------------------------------------------------------------
(* Who has started, or has checked the hosts once, has selected one.       *)
HasHost == phase = "started" \/ once = "done" => selected # NoHost

LEMMA SelectsSome ==
    ASSUME TypeOK, SelectHost
    PROVE  selected' # NoHost
<1>1. \A s \in Candidates : s \in hosts \cup {Fallback}
  BY CandidatesWell DEF Good
<1>2. Fallback # NoHost
  BY DEF Fallback, NoHost
<1> QED
  BY <1>1, <1>2, SelectorAssumption DEF SelectHost, TypeOK

(* Whoever passes startOnce finds a host, whatever DNS answered and        *)
(* however many callers, requests and checks fail meanwhile.               *)
THEOREM StartsWithHost == Spec => []StartedHasHost
<1>1. Init => HasHost
  BY DEF Init, HasHost
<1>2. TypeOK /\ HasHost /\ [Next]_vars => HasHost'
  <2> SUFFICES ASSUME TypeOK, HasHost, [Next]_vars PROVE HasHost'
    OBVIOUS
  <2>1. CASE Start
    BY <2>1 DEF Start, HasHost, Fallback, NoHost
  <2>2. ASSUME NEW d \in Discoverers, Discover(d) PROVE HasHost'
    BY <2>2 DEF Discover, Lookup, CheckOnce, Discovered, HasHost, choiceVars
  <2>3. CASE EndRound
    BY <2>3, SelectsSome DEF EndRound, HasHost
  <2>4. CASE DiscoveryTick \/ WatchTick \/ CheckHost \/ Unstick \/ Stop
    BY <2>4 DEF DiscoveryTick, WatchTick, CheckHost, Unstick, Stop, HasHost, startVars, choiceVars
  <2>5. ASSUME NEW c \in Callers, RoundTrip(c) PROVE HasHost'
    <3>1. CASE Reselect(c)
      BY <3>1, SelectsSome DEF Reselect, HasHost
    <3>2. CASE GetHost(c) \/ Succeed(c) \/ Fail(c)
      BY <3>2 DEF GetHost, Succeed, Fail, HasHost, startVars, choiceVars
    <3> QED
      BY <2>5, <3>1, <3>2 DEF RoundTrip
  <2>6. CASE UNCHANGED vars
    BY <2>6 DEF vars, HasHost, startVars, choiceVars
  <2> QED
    BY <2>1, <2>2, <2>3, <2>4, <2>5, <2>6 DEF Next, Watch
<1>3. HasHost => StartedHasHost
  BY DEF HasHost, StartedHasHost
<1> QED
  BY <1>1, <1>2, <1>3, SelectorTypes, PTL DEF Spec
=============================================================================
