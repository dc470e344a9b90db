------------------------------ MODULE Alerting ------------------------------
(***************************************************************************)
(* Metric alerts: the alert_rules and alert_history tables of              *)
(* internal/server/store/alerts.go, the engine of                          *)
(* internal/server/alerting/engine.go that checks every enabled rule       *)
(* against every node in a loop, and the administrator requests of         *)
(* internal/server/api/alerts.go and alert_history.go.                     *)
(*                                                                         *)
(* The engine keeps a state per (rule, node) in memory: pending while the  *)
(* condition has not lasted long enough, triggered once an alert row was   *)
(* written.  A step of this module is one SQL statement (or one reading    *)
(* followed by memory updates), or one round of deliveries to the rule's   *)
(* channels; the statements of two requests, and of the engine, interleave.*)
(* A threshold and its operator are the set of metric levels that meet it. *)
(*                                                                         *)
(* A definition marked "deviation" is not the code: it is a mistake the    *)
(* next definition could have contained, which a property must detect.     *)
(***************************************************************************)
EXTENDS Naturals, FiniteSets

CONSTANTS
    Nodes,          \* nodes that may register
    Levels,         \* metric values, told apart as far as a threshold does
    RulePlans,      \* what an administrator may submit as an alert rule
    Admins,         \* concurrent administrator requests
    Edits,          \* the administrator requests of this instance
    MaxRules,       \* bound: alert_rules rows ever inserted
    MaxAlerts,      \* bound: alert_history rows ever inserted
    MaxTime,        \* bound: the clock
    MaxFaults,      \* bound: failing database statements and Server crashes
    NoRow, NoState, NoMetric, NoRequest

Rules  == 1..MaxRules       \* AUTOINCREMENT ids: never used twice
Alerts == 1..MaxAlerts
NoAlert == 0
Keys   == Rules \X Nodes    \* the engine's "ruleID:nodeID"

Rule  == [enabled : BOOLEAN, alarm : SUBSET Levels, duration : Nat,
          scope : SUBSET Nodes, channels : BOOLEAN]
\* sent and recoverySent are the results of the two rounds of deliveries
Alert == [key : Keys, at : 0..MaxTime, resolved : BOOLEAN,
          sent : BOOLEAN, recoverySent : BOOLEAN]
State == [triggered : BOOLEAN, alert : Alerts \cup {NoAlert}, since : 0..MaxTime]

ASSUME BoundsAssumption ==
    /\ MaxRules \in Nat /\ MaxAlerts \in Nat /\ MaxTime \in Nat
    /\ MaxFaults \in Nat
ASSUME PlansAssumption == RulePlans \subseteq Rule
ASSUME NoneAssumption ==
    /\ NoRow \notin Rule \cup Alert
    /\ NoState \notin State
    /\ NoMetric \notin Levels

VARIABLES
    rules,      \* alert_rules: id -> row
    alerts,     \* alert_history: id -> row
    lastRule,   \* AUTOINCREMENT of alert_rules
    lastAlert,  \* AUTOINCREMENT of alert_history
    registered, \* the nodes table
    metric,     \* the latest metric of each node
    up,         \* the Server process runs
    states,     \* Engine.states
    check,      \* the running CheckRules
    request,    \* the administrator requests between two statements
    told,       \* rounds of deliveries sent to the channels for each alert
    loaded,     \* every start of the engine loaded its state
    now, faults

dbVars     == <<rules, alerts, lastRule, lastAlert>>
worldVars  == <<registered, metric, now>>
engineVars == <<up, states, check, told, loaded>>
vars == <<dbVars, worldVars, engineVars, request, faults>>

Idle == [stage |-> "idle", listed |-> [r \in Rules |-> NoRow], todo |-> {},
         key |-> NoState, alert |-> NoAlert, ok |-> FALSE]

Active(h) == alerts[h] # NoRow /\ ~alerts[h].resolved

NoStates == [k \in Keys |-> NoState]

Init ==
    /\ rules = [r \in Rules |-> NoRow]
    /\ alerts = [h \in Alerts |-> NoRow]
    /\ lastRule = 0
    /\ lastAlert = 0
    /\ registered = Nodes
    /\ metric = [n \in Nodes |-> NoMetric]
    /\ up = FALSE
    /\ states = NoStates
    /\ check = Idle
    /\ request = [a \in Admins |-> NoRequest]
    /\ told = [h \in Alerts |-> [trigger |-> 0, recovery |-> 0]]
    /\ loaded = TRUE
    /\ now = 0
    /\ faults = 0

-----------------------------------------------------------------------------
(* Statements of the alert store *)

Resolved(hs) == [h \in Alerts |->
    IF h \in hs /\ Active(h) THEN [alerts[h] EXCEPT !.resolved = TRUE] ELSE alerts[h]]

OfRule(r) == {h \in Alerts : alerts[h] # NoRow /\ alerts[h].key[1] = r}

OfNoRule == {}                                      \* deviation

OfDisabledRules ==
    UNION {OfRule(r) : r \in {q \in Rules : rules[q] # NoRow /\ ~rules[q].enabled}}

\* GetActiveAlertHistory lists the newest first, so in a map built from it the
\* oldest alert of a key is the one that stays.
ActiveOf(k) == {h \in Alerts : Active(h) /\ alerts[h].key = k}
Oldest(hs)  == CHOOSE h \in hs : \A g \in hs : h <= g

-----------------------------------------------------------------------------
(* The engine starts and stops *)

LoadPending(k) ==                                   \* deviation: forgets it was triggered
    IF ActiveOf(k) = {} THEN NoState
    ELSE [triggered |-> FALSE, alert |-> NoAlert, since |-> alerts[Oldest(ActiveOf(k))].at]

LoadState(k) ==
    IF ActiveOf(k) = {} THEN NoState
    ELSE [triggered |-> TRUE, alert |-> Oldest(ActiveOf(k)),
          since |-> alerts[Oldest(ActiveOf(k))].at]

\* A failing Initialize is only logged: the engine runs without its states.
Boot(ok) ==
    /\ ~up
    /\ ok \/ faults < MaxFaults
    /\ up' = TRUE
    /\ states' = IF ok THEN [k \in Keys |-> LoadState(k)] ELSE NoStates
    /\ loaded' = (loaded /\ ok)
    /\ faults' = IF ok THEN faults ELSE faults + 1
    /\ UNCHANGED <<dbVars, worldVars, check, request, told>>

Crash ==
    /\ up
    /\ faults < MaxFaults
    /\ up' = FALSE
    /\ states' = NoStates
    /\ check' = Idle
    /\ request' = [a \in Admins |-> NoRequest]
    /\ faults' = faults + 1
    /\ UNCHANGED <<dbVars, worldVars, told, loaded>>

-----------------------------------------------------------------------------
(* One CheckRules, from the ticker of startAlertingEngine *)

engineRest == <<worldVars, up, loaded, request, faults>>

BeginCheck ==
    /\ up
    /\ check = Idle
    /\ check' = [check EXCEPT !.stage = "sync"]
    /\ alerts' = Resolved(OfDisabledRules)
    /\ UNCHANGED <<rules, lastRule, lastAlert, states, told, engineRest>>

SyncState(k) ==
    IF states[k] = NoState THEN NoState
    ELSE IF ~states[k].triggered THEN states[k]
    ELSE IF ActiveOf(k) = {} THEN NoState
    ELSE [states[k] EXCEPT !.alert = Oldest(ActiveOf(k))]

Sync ==
    /\ check.stage = "sync"
    /\ check' = [check EXCEPT !.stage = "list"]
    /\ states' = [k \in Keys |-> SyncState(k)]
    /\ UNCHANGED <<dbVars, told, engineRest>>

EnabledRules == [r \in Rules |->
    IF rules[r] # NoRow /\ rules[r].enabled THEN rules[r] ELSE NoRow]

PairsOf(rows) == {k \in Keys : rows[k[1]] # NoRow /\ k[2] \in registered \cap rows[k[1]].scope}

PairsToCheck == PairsOf(EnabledRules)

\* The rules of the whole check are those enabled now.
ListRules ==
    /\ check.stage = "list"
    /\ check' = IF PairsToCheck = {} THEN Idle
                ELSE [check EXCEPT !.stage = "pairs", !.listed = EnabledRules, !.todo = PairsToCheck]
    /\ UNCHANGED <<dbVars, states, told, engineRest>>

NextPair(k) ==
    IF check.todo = {k} THEN Idle
    ELSE [check EXCEPT !.stage = "pairs", !.todo = @ \ {k}, !.key = NoState,
                       !.alert = NoAlert, !.ok = FALSE]

IsNext(k) ==                                        \* rules in the order of their ids
    /\ check.stage = "pairs"
    /\ k \in check.todo
    /\ \A j \in check.todo : k[1] <= j[1]

\* evaluateRule: the condition holds and has held for the rule's duration.
Listed(k)      == check.listed[k[1]]
ConditionMet(k) == metric[k[2]] \in Listed(k).alarm
FirstMet(k)    == IF states[k] = NoState
                  THEN [triggered |-> FALSE, alert |-> NoAlert, since |-> now] ELSE states[k]
Fires(k)       == ConditionMet(k) /\ now - FirstMet(k).since >= Listed(k).duration
Triggered(k)   == states[k] # NoState /\ states[k].triggered

Evaluated(k) ==
    IF ConditionMet(k) THEN [states EXCEPT ![k] = FirstMet(k)]
    ELSE IF Triggered(k) THEN states
    ELSE [states EXCEPT ![k] = NoState]

EvaluatePair(k) ==
    /\ IsNext(k)
    /\ IF metric[k[2]] = NoMetric
       THEN states' = states /\ check' = NextPair(k)
       ELSE /\ states' = Evaluated(k)
            /\ check' = IF Fires(k) # Triggered(k)
                        THEN [check EXCEPT !.key = k, !.stage = IF Fires(k) THEN "create" ELSE "load"]
                        ELSE NextPair(k)
    /\ UNCHANGED <<dbVars, told, engineRest>>

\* handleAlert.  The insertion is refused when the rule is gone (foreign key).
CreateAlert ==
    /\ check.stage = "create"
    /\ IF rules[check.key[1]] = NoRow
       THEN check' = Idle /\ UNCHANGED <<alerts, lastAlert>>
       ELSE /\ lastAlert < MaxAlerts
            /\ lastAlert' = lastAlert + 1
            /\ alerts' = [alerts EXCEPT ![lastAlert'] =
                            [key |-> check.key, at |-> now, resolved |-> FALSE,
                             sent |-> FALSE, recoverySent |-> FALSE]]
            /\ check' = [check EXCEPT !.stage = "notify", !.alert = lastAlert']
    /\ UNCHANGED <<rules, lastRule, states, told, engineRest>>

\* deliverNotifications returns when every channel has answered or given up;
\* it succeeds when all did, and there is nothing to tell without a channel.
Deliver(stage, kind, next) ==
    /\ check.stage = stage
    /\ \E ok \in IF Listed(check.key).channels THEN BOOLEAN ELSE {FALSE} :
          check' = [check EXCEPT !.stage = next, !.ok = ok]
    /\ told' = IF Listed(check.key).channels
               THEN [told EXCEPT ![check.alert][kind] = @ + 1] ELSE told
    /\ UNCHANGED <<dbVars, states, engineRest>>

NotifyTriggered == Deliver("notify", "trigger", "persist")

MarkTriggered(k) ==
    IF states[k] = NoState THEN states
    ELSE [states EXCEPT ![k].triggered = TRUE, ![k].alert = check.alert]

Marked(k, stored) == MarkTriggered(k)

\* The result of the deliveries is stored, or that fails and ends the check;
\* either way the state is triggered.
PersistTriggered(stored) ==
    /\ check.stage = "persist"
    /\ stored \/ faults < MaxFaults
    /\ alerts' = IF stored /\ alerts[check.alert] # NoRow
                 THEN [alerts EXCEPT ![check.alert].sent = check.ok] ELSE alerts
    /\ states' = Marked(check.key, stored)
    /\ check' = IF stored THEN NextPair(check.key) ELSE Idle
    /\ faults' = IF stored THEN faults ELSE faults + 1
    /\ UNCHANGED <<rules, lastRule, lastAlert, worldVars, up, loaded, request, told>>

\* checkResolution.  A row an administrator has deleted ends the check.
LoadAlert ==
    /\ check.stage = "load"
    /\ LET h == states[check.key].alert
       IN  check' = IF alerts[h] = NoRow THEN Idle
                    ELSE [check EXCEPT !.stage = "resolve", !.alert = h]
    /\ UNCHANGED <<dbVars, states, told, engineRest>>

LeaveAlert ==                                       \* deviation: the row stays active
    /\ check.stage = "resolve"
    /\ check' = [check EXCEPT !.stage = "recovered"]
    /\ UNCHANGED <<dbVars, states, told, engineRest>>

ResolveAlert ==
    /\ check.stage = "resolve"
    /\ alerts' = Resolved({check.alert})
    /\ check' = [check EXCEPT !.stage = "recovered"]
    /\ UNCHANGED <<rules, lastRule, lastAlert, states, told, engineRest>>

NotifyRecovered == Deliver("recovered", "recovery", "clear")

PersistRecovered(stored) ==
    /\ check.stage = "clear"
    /\ stored \/ faults < MaxFaults
    /\ alerts' = IF stored /\ alerts[check.alert] # NoRow
                 THEN [alerts EXCEPT ![check.alert].recoverySent = check.ok] ELSE alerts
    /\ states' = [states EXCEPT ![check.key] = NoState]
    /\ check' = IF stored THEN NextPair(check.key) ELSE Idle
    /\ faults' = IF stored THEN faults ELSE faults + 1
    /\ UNCHANGED <<rules, lastRule, lastAlert, worldVars, up, loaded, request, told>>

\* Any other failing statement ends the check where it stands.
CheckFails ==
    /\ check.stage \in {"sync", "list", "pairs", "create", "load", "resolve"}
    /\ faults < MaxFaults
    /\ check' = Idle
    /\ faults' = faults + 1
    /\ UNCHANGED <<dbVars, worldVars, up, states, told, loaded, request>>

CheckStep ==
    \/ BeginCheck \/ Sync \/ ListRules
    \/ \E k \in Keys : EvaluatePair(k)
    \/ CreateAlert \/ NotifyTriggered \/ \E stored \in BOOLEAN : PersistTriggered(stored)
    \/ LoadAlert \/ ResolveAlert
    \/ NotifyRecovered \/ \E stored \in BOOLEAN : PersistRecovered(stored)
    \/ CheckFails

-----------------------------------------------------------------------------
(* Administrator requests *)

requestRest == <<lastAlert, worldVars, engineVars, faults>>

CreateRule(p) ==
    /\ up
    /\ lastRule < MaxRules
    /\ lastRule' = lastRule + 1
    /\ rules' = [rules EXCEPT ![lastRule'] = p]
    /\ UNCHANGED <<alerts, request, requestRest>>

\* After a rule was stored disabled, its alerts are resolved by another statement.
StoreRule(a, r, p) ==
    /\ rules' = IF rules[r] = NoRow THEN rules ELSE [rules EXCEPT ![r] = p]
    /\ request' = [request EXCEPT ![a] =
                     IF p.enabled THEN NoRequest ELSE [kind |-> "resolve", rule |-> r]]
    /\ UNCHANGED <<alerts, lastRule, requestRest>>

UpdateRule(a, r, p) ==
    /\ up /\ "update" \in Edits
    /\ request[a] = NoRequest
    /\ rules[r] # NoRow
    /\ StoreRule(a, r, p)

\* The toggle reads the whole row and writes the whole row back.
BeginToggle(a, r, enabled) ==
    /\ up /\ "toggle" \in Edits
    /\ request[a] = NoRequest
    /\ rules[r] # NoRow
    /\ request' = [request EXCEPT ![a] =
                     [kind |-> "toggle", rule |-> r, row |-> [rules[r] EXCEPT !.enabled = enabled]]]
    /\ UNCHANGED <<rules, alerts, lastRule, requestRest>>

Toggle(a) ==
    /\ request[a] # NoRequest /\ request[a].kind = "toggle"
    /\ StoreRule(a, request[a].rule, request[a].row)

BeginDelete(a, r) ==
    /\ up /\ "delete" \in Edits
    /\ request[a] = NoRequest
    /\ rules[r] # NoRow
    /\ request' = [request EXCEPT ![a] = [kind |-> "delete", rule |-> r]]
    /\ UNCHANGED <<rules, alerts, lastRule, requestRest>>

ResolveOfRule(a) ==
    /\ request[a] # NoRequest /\ request[a].kind \in {"resolve", "delete"}
    /\ alerts' = Resolved(OfRule(request[a].rule))
    /\ request' = [request EXCEPT ![a] =
                     IF @.kind = "resolve" THEN NoRequest ELSE [@ EXCEPT !.kind = "drop"]]
    /\ UNCHANGED <<rules, lastRule, requestRest>>

\* ON DELETE CASCADE takes the rule's alerts with it.
DropRule(a) ==
    /\ request[a] # NoRequest /\ request[a].kind = "drop"
    /\ rules' = [rules EXCEPT ![request[a].rule] = NoRow]
    /\ alerts' = [h \in Alerts |-> IF h \in OfRule(request[a].rule) THEN NoRow ELSE alerts[h]]
    /\ request' = [request EXCEPT ![a] = NoRequest]
    /\ UNCHANGED <<lastRule, requestRest>>

RequestFails(a) ==
    /\ request[a] # NoRequest
    /\ faults < MaxFaults
    /\ request' = [request EXCEPT ![a] = NoRequest]
    /\ faults' = faults + 1
    /\ UNCHANGED <<dbVars, worldVars, engineVars>>

\* One statement: listing the history resolves the alerts of disabled rules, too.
ListHistory ==
    /\ up /\ "history" \in Edits
    /\ alerts' = Resolved(OfDisabledRules)
    /\ UNCHANGED <<rules, lastRule, request, requestRest>>

ResolveByHand(h) ==
    /\ up /\ "history" \in Edits
    /\ Active(h)
    /\ alerts' = Resolved({h})
    /\ UNCHANGED <<rules, lastRule, request, requestRest>>

DeleteResolved(hs) ==
    /\ up /\ "history" \in Edits
    /\ hs # {} /\ \A h \in hs : alerts[h] # NoRow /\ alerts[h].resolved
    /\ alerts' = [h \in Alerts |-> IF h \in hs THEN NoRow ELSE alerts[h]]
    /\ UNCHANGED <<rules, lastRule, request, requestRest>>

RequestStep(a) ==
    Toggle(a) \/ ResolveOfRule(a) \/ DropRule(a)

AdminStep ==
    \/ \E p \in RulePlans : CreateRule(p)
    \/ \E a \in Admins, r \in Rules, p \in RulePlans : UpdateRule(a, r, p)
    \/ \E a \in Admins, r \in Rules, enabled \in BOOLEAN : BeginToggle(a, r, enabled)
    \/ \E a \in Admins, r \in Rules : BeginDelete(a, r)
    \/ \E a \in Admins : RequestStep(a) \/ RequestFails(a)
    \/ ListHistory
    \/ \E h \in Alerts : ResolveByHand(h)
    \/ \E hs \in SUBSET Alerts : DeleteResolved(hs)

-----------------------------------------------------------------------------
(* The nodes and the clock *)

worldRest == <<dbVars, engineVars, request, faults>>

ReportMetric(n, level) ==
    /\ up
    /\ n \in registered
    /\ metric' = [metric EXCEPT ![n] = level]
    /\ UNCHANGED <<registered, now, worldRest>>

DeleteNode(n) ==
    /\ up /\ "nodes" \in Edits
    /\ n \in registered
    /\ registered' = registered \ {n}
    /\ metric' = [metric EXCEPT ![n] = NoMetric]
    /\ UNCHANGED <<now, worldRest>>

\* Retention removes the metrics of a node that has not reported for long.
ExpireMetric(n) ==
    /\ up /\ "nodes" \in Edits
    /\ metric' = [metric EXCEPT ![n] = NoMetric]
    /\ UNCHANGED <<registered, now, worldRest>>

RegisterNode(n) ==
    /\ up
    /\ n \notin registered
    /\ registered' = registered \cup {n}
    /\ UNCHANGED <<metric, now, worldRest>>

Tick ==
    /\ now < MaxTime
    /\ now' = now + 1
    /\ UNCHANGED <<registered, metric, worldRest>>

Next ==
    \/ \E ok \in BOOLEAN : Boot(ok)
    \/ Crash
    \/ CheckStep
    \/ AdminStep
    \/ \E n \in Nodes, level \in Levels : ReportMetric(n, level)
    \/ \E n \in Nodes : DeleteNode(n) \/ ExpireMetric(n) \/ RegisterNode(n)
    \/ Tick

Spec == Init /\ [][Next]_vars

\* The process is started again, its goroutines run, a request that began goes
\* on.  Nobody need ask for anything, and no fault or crash need happen.
Fairness ==
    /\ WF_vars(Boot(TRUE))
    /\ WF_vars(BeginCheck) /\ WF_vars(Sync) /\ WF_vars(ListRules)
    /\ WF_vars(\E k \in Keys : EvaluatePair(k))
    /\ WF_vars(CreateAlert) /\ WF_vars(NotifyTriggered) /\ WF_vars(PersistTriggered(TRUE))
    /\ WF_vars(LoadAlert) /\ WF_vars(ResolveAlert)
    /\ WF_vars(NotifyRecovered) /\ WF_vars(PersistRecovered(TRUE))
    /\ \A a \in Admins : WF_vars(RequestStep(a))
    /\ WF_vars(Tick)

FairSpec == Spec /\ Fairness

-----------------------------------------------------------------------------
(* Properties *)

Request ==
    {NoRequest}
    \cup [kind : {"resolve", "delete", "drop"}, rule : Rules]
    \cup [kind : {"toggle"}, rule : Rules, row : Rule]

Stages == {"idle", "sync", "list", "pairs", "create", "notify", "persist",
           "load", "resolve", "recovered", "clear"}

\* Every variable has its type; what CheckRules has left to do (engine.go:100)
\* are pairs of a rule it listed, and the stages that work on an alert have one.
TypeOK ==
    /\ rules \in [Rules -> Rule \cup {NoRow}]
    /\ alerts \in [Alerts -> Alert \cup {NoRow}]
    /\ lastRule \in 0..MaxRules /\ lastAlert \in 0..MaxAlerts
    /\ registered \subseteq Nodes
    /\ metric \in [Nodes -> Levels \cup {NoMetric}]
    /\ up \in BOOLEAN /\ loaded \in BOOLEAN
    /\ states \in [Keys -> State \cup {NoState}]
    /\ check \in [stage : Stages, listed : [Rules -> Rule \cup {NoRow}], todo : SUBSET Keys,
                  key : Keys \cup {NoState}, alert : Alerts \cup {NoAlert}, ok : BOOLEAN]
    /\ check.stage \in {"create", "notify", "persist", "load", "resolve", "recovered", "clear"}
         => check.key \in Keys /\ Listed(check.key) # NoRow
    /\ check.stage \in {"notify", "persist", "resolve", "recovered", "clear"}
         => check.alert \in Alerts
    /\ \A k \in check.todo : Listed(k) # NoRow
    /\ request \in [Admins -> Request]
    /\ told \in [Alerts -> [trigger : Nat, recovery : Nat]]
    /\ now \in 0..MaxTime /\ faults \in 0..MaxFaults

\* The engine knows every active alert it has to resolve one day: across
\* crashes, restarts (engine.go:62), failing statements and the requests of
\* administrators, an active alert has a triggered state or is the one being
\* notified.  (Unless a start of the engine could not read the table.)
ActiveIsTracked ==
    up /\ loaded => \A h \in Alerts : Active(h) =>
        \/ Triggered(alerts[h].key) /\ states[alerts[h].key].alert = h
        \/ check.alert = h /\ check.key = alerts[h].key /\ check.stage \in {"notify", "persist"}

\* CHANGELOG.md:473: the state in memory prevents duplicates.  A rule has at
\* most one active alert on a node, and the engine knows it.
OneActiveAlert ==
    /\ TypeOK
    /\ ActiveIsTracked
    /\ loaded => \A g, h \in Alerts : Active(g) /\ Active(h) /\ alerts[g].key = alerts[h].key => g = h

\* The channels hear at most once that an alert was triggered and at most once
\* that it recovered, whatever is restarted, fails or is resolved by hand in
\* between; what the history says was sent, was.
ToldOnce ==
    \A h \in Alerts :
        /\ told[h].trigger <= 1 /\ told[h].recovery <= 1
        /\ alerts[h] # NoRow =>
             /\ alerts[h].sent => told[h].trigger = 1
             /\ alerts[h].recoverySent => told[h].recovery = 1

Listens(r, n) == rules[r] # NoRow /\ rules[r].enabled /\ n \in rules[r].scope \cap registered

\* Where the bounds, and not the code, stop the engine
OutOfAlerts == check.stage = "create" /\ lastAlert = MaxAlerts
OutOfTime(k) == states[k] # NoState /\ states[k].since + rules[k[1]].duration > MaxTime

\* The alerts of a rule that stays disabled are resolved, those the engine
\* wrote from the list of rules it had read before included (engine.go:89).
DisabledIsResolved ==
    \A r \in Rules :
        []<>(\/ rules[r] = NoRow \/ rules[r].enabled
             \/ \A h \in OfRule(r) : ~Active(h)
             \/ OutOfAlerts)

\* A condition that holds for good leads to an active alert (engine.go:116).
HeldIsAlerted ==
    \A r \in Rules, n \in Nodes :
        []<>(\/ ~Listens(r, n)
             \/ metric[n] \notin rules[r].alarm
             \/ ActiveOf(<<r, n>>) # {}
             \/ OutOfAlerts \/ OutOfTime(<<r, n>>))

\* An active alert whose condition no longer holds is resolved (engine.go:122).
ClearedIsResolved ==
    \A r \in Rules, n \in Nodes :
        []<>(\/ ~Listens(r, n)
             \/ metric[n] \in rules[r].alarm \cup {NoMetric}
             \/ ActiveOf(<<r, n>>) = {}
             \/ OutOfAlerts \/ ~loaded)

\* Whatever an administrator does between two statements of a check, alerts follow
\* their conditions: they appear, end, and end with their rule (engine.go:89-122).
AlertsFollow == HeldIsAlerted /\ ClearedIsResolved /\ DisabledIsResolved

\* CHANGELOG.md:474: an alert is resolved when its condition is no longer met;
\* the engine sets out to resolve one only then (engine.go:256).
ResolvedWhenCleared ==
    [][\A k \in Keys : check.stage = "pairs" /\ check'.stage = "load" /\ check'.key = k
                          => ~ConditionMet(k)]_vars
=============================================================================
