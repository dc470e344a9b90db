--------------------------- MODULE AlertingProofs ---------------------------
(***************************************************************************)
(* OneActiveAlert and ToldOnce, for any number of nodes, rules, alerts,    *)
(* administrators, failing statements and crashes.                         *)
(***************************************************************************)
EXTENDS Alerting, WellFoundedInduction, TLAPS

(***************************************************************************)
(* What the stage of the running check says of the state it works on, and  *)
(* of the alert.                                                           *)
(***************************************************************************)
OfAlert == {"create", "notify", "persist", "load", "resolve", "recovered", "clear"}
Raising == {"create", "notify", "persist"}
Ending  == {"resolve", "recovered", "clear"}
Holding == {"notify", "persist"} \cup Ending

CheckType ==
    /\ check \in [stage : Stages, listed : [Rules -> Rule \cup {NoRow}], todo : SUBSET Keys,
                  key : Keys \cup {NoState}, alert : Alerts \cup {NoAlert}, ok : BOOLEAN]
    /\ check.stage \in OfAlert => check.key \in Keys /\ Listed(check.key) # NoRow
    /\ check.stage \in Holding => check.alert \in Alerts
    /\ \A k \in check.todo : Listed(k) # NoRow

TableType ==
    /\ rules \in [Rules -> Rule \cup {NoRow}]
    /\ alerts \in [Alerts -> Alert \cup {NoRow}]
    /\ lastRule \in 0..MaxRules /\ lastAlert \in 0..MaxAlerts

RestType ==
    /\ registered \subseteq Nodes
    /\ metric \in [Nodes -> Levels \cup {NoMetric}]
    /\ up \in BOOLEAN /\ loaded \in BOOLEAN
    /\ request \in [Admins -> Request]
    /\ now \in 0..MaxTime /\ faults \in 0..MaxFaults

StatesType == states \in [Keys -> State \cup {NoState}]
ToldType == told \in [Alerts -> [trigger : Nat, recovery : Nat]]

\* A check that raises an alert has left the state pending, one that ends an alert
\* found it triggered: nobody else touches Engine.states meanwhile.
StageMeans ==
    /\ ~up => check.stage = "idle"
    /\ check.stage \in Raising => states[check.key] # NoState /\ ~Triggered(check.key)
    /\ check.stage = "load" => Triggered(check.key)
    /\ check.stage \in Ending => Triggered(check.key) /\ states[check.key].alert = check.alert

\* A triggered state has an alert that was inserted, no two the same one, and not the one
\* that is just being notified.
StatesOwn ==
    /\ \A k \in Keys : Triggered(k) => states[k].alert \in 1..lastAlert
    /\ \A j, k \in Keys :
          Triggered(j) /\ Triggered(k) /\ states[j].alert = states[k].alert => j = k
    /\ check.stage \in {"notify", "persist"} =>
          /\ check.alert \in 1..lastAlert
          /\ \A k \in Keys : Triggered(k) => states[k].alert # check.alert

EngineInv == CheckType /\ StatesType /\ StageMeans /\ StatesOwn

\* An alert that was resolved stays so until the check forgets its state.
EndedIsResolved ==
    check.stage \in {"recovered", "clear"} =>
        /\ ~Active(check.alert)
        /\ loaded => ActiveOf(check.key) = {}

OneActive ==
    loaded => \A g, h \in Alerts : Active(g) /\ Active(h) /\ alerts[g].key = alerts[h].key => g = h

FreshAlerts == \A h \in Alerts : h > lastAlert => alerts[h] = NoRow

AlertInv == EndedIsResolved /\ OneActive /\ ActiveIsTracked /\ FreshAlerts

\* What was told of an alert fits its row, the state that still has it and the check.
ToldInv ==
    /\ ToldType
    /\ ToldOnce
    /\ \A h \in Alerts : h > lastAlert => told[h].trigger = 0 /\ told[h].recovery = 0
    /\ \A h \in Alerts : told[h].recovery > 0 => ~Active(h)
    /\ \A k \in Keys : Triggered(k) =>
          told[states[k].alert].recovery = 0 \/ (check.stage = "clear" /\ check.key = k)
    /\ check.stage = "notify" => told[check.alert].trigger = 0
    /\ check.stage \in {"notify", "persist"} => told[check.alert].recovery = 0
    /\ check.stage = "persist" /\ check.ok => told[check.alert].trigger = 1
    /\ check.stage = "clear" /\ check.ok => told[check.alert].recovery = 1

Inv == TableType /\ RestType /\ EngineInv /\ AlertInv /\ ToldInv

-----------------------------------------------------------------------------
(* The alerts                                                              *)

\* Alerts are resolved or deleted, and nothing else happens to them.
OnlyFewer ==
    \A h \in Alerts :
        alerts'[h] # NoRow =>
            /\ alerts[h] # NoRow
            /\ alerts'[h].key = alerts[h].key
            /\ alerts[h].resolved => alerts'[h].resolved
            /\ alerts'[h].sent = alerts[h].sent /\ alerts'[h].recoverySent = alerts[h].recoverySent

LEMMA SameAlerts == ASSUME UNCHANGED alerts PROVE OnlyFewer
BY DEF OnlyFewer

LEMMA AlertsAreNumbers == Alerts \subseteq Nat /\ NoAlert \notin Alerts
BY BoundsAssumption DEF Alerts, NoAlert

LEMMA ResolvedRows ==
    ASSUME TableType, NEW hs \in SUBSET Alerts
    PROVE  /\ Resolved(hs) \in [Alerts -> Alert \cup {NoRow}]
           /\ \A h \in Alerts :
                 /\ Resolved(hs)[h] # NoRow <=> alerts[h] # NoRow
                 /\ alerts[h] # NoRow =>
                      /\ Resolved(hs)[h].key = alerts[h].key /\ Resolved(hs)[h].at = alerts[h].at
                      /\ Resolved(hs)[h].resolved <=> alerts[h].resolved \/ h \in hs
                      /\ Resolved(hs)[h].sent = alerts[h].sent
                      /\ Resolved(hs)[h].recoverySent = alerts[h].recoverySent
<1>1. ASSUME NEW h \in Alerts
      PROVE  /\ Resolved(hs)[h] \in Alert \cup {NoRow}
             /\ Resolved(hs)[h] # NoRow <=> alerts[h] # NoRow
             /\ alerts[h] # NoRow =>
                      /\ Resolved(hs)[h].key = alerts[h].key /\ Resolved(hs)[h].at = alerts[h].at
                      /\ Resolved(hs)[h].resolved <=> alerts[h].resolved \/ h \in hs
                      /\ Resolved(hs)[h].sent = alerts[h].sent
                      /\ Resolved(hs)[h].recoverySent = alerts[h].recoverySent
  <2>1. CASE h \in hs /\ Active(h)
    <3>1. Resolved(hs)[h] = [alerts[h] EXCEPT !.resolved = TRUE]
      BY <2>1 DEF Resolved
    <3>2. alerts[h] \in Alert
      BY <2>1 DEF Active, TableType
    <3>3. [alerts[h] EXCEPT !.resolved = TRUE] \in Alert
      BY <3>2 DEF Alert
    <3> QED
      BY <2>1, <3>1, <3>2, <3>3, NoneAssumption DEF Active, Alert
  <2>2. CASE ~(h \in hs /\ Active(h))
    <3>1. Resolved(hs)[h] = alerts[h]
      BY <2>2 DEF Resolved
    <3> QED
      BY <2>2, <3>1 DEF Active, TableType, Alert
  <2> QED
    BY <2>1, <2>2
<1>2. Resolved(hs) = [h \in Alerts |-> Resolved(hs)[h]]
  BY DEF Resolved
<1> QED
  BY <1>1, <1>2

LEMMA ResolvedFewer ==
    ASSUME TableType, NEW hs \in SUBSET Alerts, alerts' = Resolved(hs)
    PROVE  OnlyFewer /\ alerts' \in [Alerts -> Alert \cup {NoRow}]
BY ResolvedRows DEF OnlyFewer

LEMMA OldestIsOne ==
    ASSUME NEW hs \in SUBSET Alerts, hs # {}
    PROVE  Oldest(hs) \in hs
<1> DEFINE Before == {p \in Nat \X Nat : p[1] < p[2]}
<1>1. IsWellFoundedOn(Before, Nat)
  BY NatLessThanWellFounded DEF OpToRel
<1>2. PICK h \in hs : \A g \in hs : <<g, h>> \notin Before
  BY <1>1, WFMin, AlertsAreNumbers
<1>3. ASSUME NEW g \in hs PROVE h <= g
  <2>1. h \in Nat /\ g \in Nat /\ <<g, h>> \notin Before
    BY <1>2, AlertsAreNumbers
  <2>2. g < h => <<g, h>> \in Before
    BY <2>1
  <2> QED
    BY <2>1, <2>2
<1> QED
  BY <1>3 DEF Oldest

-----------------------------------------------------------------------------
(* The check                                                               *)

LEMMA IdleCheck == ASSUME check' = Idle PROVE CheckType' /\ check'.stage = "idle"
<1>1. /\ Idle.stage = "idle" /\ Idle.todo = {}
      /\ Idle \in [stage : Stages, listed : [Rules -> Rule \cup {NoRow}], todo : SUBSET Keys,
                    key : Keys \cup {NoState}, alert : Alerts \cup {NoAlert}, ok : BOOLEAN]
  BY DEF Idle, Stages
<1> QED
  BY <1>1 DEF CheckType, OfAlert, Holding, Ending

LEMMA NextPairCheck ==
    ASSUME CheckType, NEW k \in Keys, check' = NextPair(k)
    PROVE  CheckType' /\ check'.stage \in {"idle", "pairs"}
<1>1. CASE check.todo = {k}
  BY <1>1, IdleCheck DEF NextPair
<1>2. CASE check.todo # {k}
  <2>1. check' = [check EXCEPT !.stage = "pairs", !.todo = @ \ {k}, !.key = NoState,
                               !.alert = NoAlert, !.ok = FALSE]
    BY <1>2 DEF NextPair
  <2>2. /\ check'.stage = "pairs" /\ check'.listed = check.listed
        /\ check'.todo = check.todo \ {k}
    BY <2>1 DEF CheckType
  <2>3. check' \in [stage : Stages, listed : [Rules -> Rule \cup {NoRow}], todo : SUBSET Keys,
                    key : Keys \cup {NoState}, alert : Alerts \cup {NoAlert}, ok : BOOLEAN]
    BY <2>1 DEF CheckType, Stages
  <2> QED
    BY <2>2, <2>3 DEF CheckType, OfAlert, Holding, Ending, Listed
<1> QED
  BY <1>1, <1>2

\* The check goes on to another stage, perhaps with another pair, alert or result.
LEMMA CheckGoes ==
    ASSUME CheckType, NEW stage \in Stages, NEW key \in Keys, NEW alert \in Alerts \cup {NoAlert},
           NEW ok \in BOOLEAN,
           check' = [check EXCEPT !.stage = stage, !.key = key, !.alert = alert, !.ok = ok],
           Listed(key) # NoRow,
           stage \in Holding => alert \in Alerts
    PROVE  /\ CheckType'
           /\ check'.stage = stage /\ check'.key = key /\ check'.alert = alert /\ check'.ok = ok
           /\ check'.listed = check.listed
<1>1. /\ check'.stage = stage /\ check'.key = key /\ check'.alert = alert /\ check'.ok = ok
      /\ check'.listed = check.listed /\ check'.todo = check.todo
  BY DEF CheckType
<1>2. check' \in [stage : Stages, listed : [Rules -> Rule \cup {NoRow}], todo : SUBSET Keys,
                  key : Keys \cup {NoState}, alert : Alerts \cup {NoAlert}, ok : BOOLEAN]
  BY DEF CheckType
<1> QED
  BY <1>1, <1>2 DEF CheckType, Listed

-----------------------------------------------------------------------------
(* Steps that leave the states and what was told alone                     *)

LEMMA FewerActive ==
    ASSUME OnlyFewer, NEW h \in Alerts, Active(h)'
    PROVE  Active(h) /\ alerts'[h].key = alerts[h].key
BY DEF OnlyFewer, Active

\* The check may go on, but not leave the alert it is raising.
LEMMA FewerAlertInv ==
    ASSUME AlertInv, OnlyFewer, UNCHANGED <<lastAlert, up, states, loaded>>,
           check.stage \notin {"notify", "persist"} \/ UNCHANGED check
    PROVE  OneActive' /\ ActiveIsTracked' /\ FreshAlerts'
<1>1. \A h \in Alerts : Active(h)' => Active(h) /\ alerts'[h].key = alerts[h].key
  BY FewerActive
<1>2. \A k : Triggered(k)' <=> Triggered(k)
  BY DEF Triggered
<1>3. FreshAlerts'
  BY DEF AlertInv, FreshAlerts, OnlyFewer
<1> QED
  BY <1>1, <1>2, <1>3 DEF AlertInv, OneActive, ActiveIsTracked

LEMMA FewerToldInv ==
    ASSUME ToldInv, OnlyFewer, UNCHANGED <<lastAlert, states, told>>,
           \/ check.stage # "clear" /\ check'.stage \notin {"notify", "persist", "clear"}
           \/ UNCHANGED check
    PROVE  ToldInv'
<1>1. \A h \in Alerts : Active(h)' => Active(h)
  BY FewerActive
<1>2. \A k : Triggered(k)' <=> Triggered(k)
  BY DEF Triggered
<1>3. ToldOnce'
  BY DEF ToldInv, ToldOnce, OnlyFewer
<1> QED
  BY <1>1, <1>2, <1>3 DEF ToldInv, ToldType

LEMMA FewerEngineInv ==
    ASSUME EngineInv, UNCHANGED <<lastAlert, up, states>>, CheckType',
           \/ check'.stage \notin OfAlert /\ up
           \/ UNCHANGED check
    PROVE  EngineInv'
<1>1. \A k : Triggered(k)' <=> Triggered(k)
  BY DEF Triggered
<1> QED
  BY <1>1 DEF EngineInv, StatesType, StageMeans, StatesOwn, OfAlert, Raising, Ending

\* Requests of administrators, nodes and the clock.
LEMMA OtherSteps ==
    ASSUME EngineInv, AlertInv, ToldInv, OnlyFewer,
           UNCHANGED <<lastAlert, up, states, check, told, loaded>>
    PROVE  EngineInv' /\ AlertInv' /\ ToldInv'
<1>1. CheckType'
  BY DEF EngineInv, CheckType, Listed
<1>2. EndedIsResolved'
  BY FewerActive DEF AlertInv, EndedIsResolved, ActiveOf, EngineInv, CheckType, Holding, Ending
<1> QED
  BY <1>1, <1>2, FewerEngineInv, FewerAlertInv, FewerToldInv DEF AlertInv

-----------------------------------------------------------------------------
(* The steps of a check                                                    *)

CheckInv == TableType /\ EngineInv /\ AlertInv /\ ToldInv

LEMMA BeginCheckInv == ASSUME CheckInv, BeginCheck PROVE CheckInv'
<1>1. check'.stage = "sync" /\ CheckType' /\ check.stage = "idle"
  <2>1. check' = [check EXCEPT !.stage = "sync"] /\ check = Idle
    BY DEF BeginCheck
  <2>2. check'.stage = "sync" /\ check'.todo = {} /\ check.stage = "idle"
    BY <2>1 DEF Idle
  <2>3. check' \in [stage : Stages, listed : [Rules -> Rule \cup {NoRow}], todo : SUBSET Keys,
                    key : Keys \cup {NoState}, alert : Alerts \cup {NoAlert}, ok : BOOLEAN]
    BY <2>1 DEF CheckInv, EngineInv, CheckType, Stages
  <2> QED
    BY <2>2, <2>3 DEF CheckType, OfAlert, Holding, Ending
<1>2. OfDisabledRules \in SUBSET Alerts
  BY DEF OfDisabledRules, OfRule
<1>3. OnlyFewer /\ TableType'
  BY <1>2, ResolvedFewer DEF BeginCheck, CheckInv, TableType
<1>4. UNCHANGED <<lastAlert, up, states, told, loaded>> /\ up
  BY DEF BeginCheck, engineRest
<1>5. EngineInv'
  BY <1>1, <1>4, FewerEngineInv DEF CheckInv, OfAlert
<1>6. OneActive' /\ ActiveIsTracked' /\ FreshAlerts'
  BY <1>1, <1>3, <1>4, FewerAlertInv DEF CheckInv
<1>7. ToldInv'
  BY <1>1, <1>3, <1>4, FewerToldInv DEF CheckInv
<1> QED
  BY <1>1, <1>3, <1>5, <1>6, <1>7 DEF CheckInv, AlertInv, EndedIsResolved

LEMMA ListRulesInv == ASSUME CheckInv, ListRules PROVE CheckInv'
<1>1. check'.stage \in {"idle", "pairs"} /\ CheckType' /\ check.stage = "list"
  <2>1. CASE PairsToCheck = {}
    BY <2>1, IdleCheck DEF ListRules
  <2>2. CASE PairsToCheck # {}
    <3>1. check' = [check EXCEPT !.stage = "pairs", !.listed = EnabledRules, !.todo = PairsToCheck]
      BY <2>2 DEF ListRules
    <3>2. EnabledRules \in [Rules -> Rule \cup {NoRow}] /\ PairsToCheck \in SUBSET Keys
      BY DEF EnabledRules, PairsToCheck, PairsOf, CheckInv, TableType
    <3>3. check'.stage = "pairs" /\ check'.listed = EnabledRules /\ check'.todo = PairsToCheck
      BY <3>1 DEF CheckInv, EngineInv, CheckType
    <3>4. check' \in [stage : Stages, listed : [Rules -> Rule \cup {NoRow}], todo : SUBSET Keys,
                    key : Keys \cup {NoState}, alert : Alerts \cup {NoAlert}, ok : BOOLEAN]
      BY <3>1, <3>2 DEF CheckInv, EngineInv, CheckType, Stages
    <3>5. \A k \in PairsToCheck : EnabledRules[k[1]] # NoRow
      BY DEF PairsToCheck, PairsOf
    <3> QED
      BY <3>3, <3>4, <3>5 DEF CheckType, OfAlert, Holding, Ending, Listed, ListRules
  <2> QED
    BY <2>1, <2>2
<1>2. UNCHANGED <<lastAlert, up, states, told, loaded, alerts, rules, lastRule>>
  BY DEF ListRules, engineRest, dbVars
<1>3. OnlyFewer /\ up
  BY <1>1, <1>2, SameAlerts DEF CheckInv, EngineInv, StageMeans, CheckType
<1>5. EngineInv'
  BY <1>1, <1>2, <1>3, FewerEngineInv DEF CheckInv, OfAlert
<1>6. OneActive' /\ ActiveIsTracked' /\ FreshAlerts'
  BY <1>1, <1>2, <1>3, FewerAlertInv DEF CheckInv
<1>7. ToldInv'
  BY <1>1, <1>2, <1>3, FewerToldInv DEF CheckInv
<1> QED
  BY <1>1, <1>2, <1>5, <1>6, <1>7 DEF CheckInv, AlertInv, EndedIsResolved, TableType

LEMMA CheckFailsInv == ASSUME CheckInv, CheckFails PROVE CheckInv'
<1>1. check'.stage = "idle" /\ CheckType'
      /\ check.stage \in {"sync", "list", "pairs", "create", "load", "resolve"}
  BY IdleCheck DEF CheckFails
<1>2. UNCHANGED <<lastAlert, up, states, told, loaded, alerts, rules, lastRule>>
  BY DEF CheckFails, dbVars
<1>3. OnlyFewer /\ up
  BY <1>1, <1>2, SameAlerts DEF CheckInv, EngineInv, StageMeans
<1>5. EngineInv'
  BY <1>1, <1>2, <1>3, FewerEngineInv DEF CheckInv, OfAlert
<1>6. OneActive' /\ ActiveIsTracked' /\ FreshAlerts'
  BY <1>1, <1>2, <1>3, FewerAlertInv DEF CheckInv
<1>7. ToldInv'
  BY <1>1, <1>2, <1>3, FewerToldInv DEF CheckInv
<1> QED
  BY <1>1, <1>2, <1>5, <1>6, <1>7 DEF CheckInv, AlertInv, EndedIsResolved, TableType

-----------------------------------------------------------------------------
(* States that are read from the table: Initialize and syncStates          *)

\* Such a state has an alert of its own key, and no check works on it.
ReadFromTable ==
    /\ UNCHANGED <<alerts, lastAlert, told>>
    /\ check'.stage \notin OfAlert
    /\ StatesType'
    /\ \A k \in Keys : Triggered(k)' => states'[k].alert \in ActiveOf(k)

LEMMA ReadStatesOwn ==
    ASSUME TableType, FreshAlerts, ToldInv, ReadFromTable
    PROVE  StatesOwn' /\ ToldInv'
<1>1. \A h \in Alerts : Active(h) => h \in 1..lastAlert
  BY AlertsAreNumbers DEF FreshAlerts, TableType, Active, Alerts
<1>2. \A k \in Keys : Triggered(k)' =>
        /\ states'[k].alert \in Alerts /\ Active(states'[k].alert)
        /\ alerts[states'[k].alert].key = k
  BY DEF ReadFromTable, ActiveOf
<1>3. StatesOwn'
  BY <1>1, <1>2 DEF StatesOwn, ReadFromTable, OfAlert
<1>4. \A k \in Keys : Triggered(k)' => told[states'[k].alert].recovery = 0
  BY <1>2 DEF ToldInv, ToldType
<1>5. \A h \in Alerts : Active(h)' <=> Active(h)
  BY DEF ReadFromTable, Active
<1>6. ToldOnce' /\ ToldType'
  BY DEF ToldInv, ToldOnce, ToldType, ReadFromTable
<1> QED
  BY <1>3, <1>4, <1>5, <1>6 DEF ToldInv, ReadFromTable, OfAlert

LEMMA SyncInv == ASSUME CheckInv, Sync PROVE CheckInv'
<1>1. check.stage = "sync" /\ check'.stage = "list" /\ CheckType' /\ up /\ up'
  <2>1. check.stage = "sync" /\ check' = [check EXCEPT !.stage = "list"] /\ up' = up
    BY DEF Sync, engineRest
  <2>2. /\ check'.stage = "list" /\ check'.listed = check.listed /\ check'.todo = check.todo
    BY <2>1 DEF CheckInv, EngineInv, CheckType
  <2>3. check' \in [stage : Stages, listed : [Rules -> Rule \cup {NoRow}], todo : SUBSET Keys,
                    key : Keys \cup {NoState}, alert : Alerts \cup {NoAlert}, ok : BOOLEAN]
    BY <2>1 DEF CheckInv, EngineInv, CheckType, Stages
  <2> QED
    BY <2>1, <2>2, <2>3 DEF CheckInv, EngineInv, StageMeans, CheckType, OfAlert, Holding, Ending, Listed
<1>2. UNCHANGED <<alerts, rules, lastRule, lastAlert, told, loaded>>
  BY DEF Sync, engineRest, dbVars
<1>3. ASSUME NEW k \in Keys
      PROVE  /\ states'[k] \in State \cup {NoState}
             /\ Triggered(k)' => Triggered(k) /\ states'[k].alert = Oldest(ActiveOf(k))
                                /\ Oldest(ActiveOf(k)) \in ActiveOf(k)
             /\ Triggered(k) /\ ActiveOf(k) # {} => Triggered(k)'
  <2>1. states'[k] = SyncState(k)
    BY DEF Sync
  <2>2. CASE Triggered(k) /\ ActiveOf(k) # {}
    <3>1. states'[k] = [states[k] EXCEPT !.alert = Oldest(ActiveOf(k))]
      BY <2>1, <2>2 DEF SyncState, Triggered
    <3>2. states[k] \in State /\ states[k].triggered
      BY <2>2 DEF Triggered, CheckInv, EngineInv, StatesType
    <3>3. Oldest(ActiveOf(k)) \in ActiveOf(k) /\ Oldest(ActiveOf(k)) \in Alerts
      BY <2>2, OldestIsOne DEF ActiveOf
    <3>4. states'[k] \in State /\ states'[k].triggered /\ states'[k].alert = Oldest(ActiveOf(k))
      BY <3>1, <3>2, <3>3 DEF State
    <3> QED
      BY <2>2, <3>3, <3>4, NoneAssumption DEF Triggered
  <2>3. CASE ~(Triggered(k) /\ ActiveOf(k) # {})
    <3>1. states'[k] = NoState \/ (states'[k] = states[k] /\ ~Triggered(k))
      BY <2>1, <2>3 DEF SyncState, Triggered
    <3> QED
      BY <2>3, <3>1 DEF Triggered, CheckInv, EngineInv, StatesType
  <2> QED
    BY <2>2, <2>3
<1>4. StatesType'
  BY <1>3 DEF StatesType, Sync
<1>5. StatesOwn' /\ ToldInv'
  BY <1>1, <1>2, <1>3, <1>4, ReadStatesOwn DEF ReadFromTable, OfAlert, CheckInv, AlertInv
<1>6. ASSUME loaded, NEW h \in Alerts, NEW k \in Keys, Active(h), alerts[h].key = k
      PROVE  Triggered(k)' /\ states'[k].alert = h
  <2>1. Triggered(k) /\ states[k].alert = h
    BY <1>1, <1>6 DEF CheckInv, AlertInv, ActiveIsTracked
  <2>2. h \in ActiveOf(k)
    BY <1>6 DEF ActiveOf
  <2>3. Triggered(k)' /\ states'[k].alert \in ActiveOf(k)
    BY <1>3, <2>1, <2>2
  <2> QED
    BY <1>6, <2>2, <2>3 DEF ActiveOf, CheckInv, AlertInv, OneActive
<1>7. OneActive' /\ ActiveIsTracked' /\ FreshAlerts' /\ EndedIsResolved'
  <2>1. \A h : Active(h)' <=> Active(h)
    BY <1>2 DEF Active
  <2>2. ActiveIsTracked'
    <3> SUFFICES ASSUME loaded, NEW h \in Alerts, Active(h)
                 PROVE  Triggered(alerts[h].key)' /\ states'[alerts[h].key].alert = h
      BY <1>2, <2>1 DEF ActiveIsTracked
    <3>1. alerts[h].key \in Keys
      BY DEF Active, CheckInv, TableType, Alert
    <3> QED
      BY <1>2, <1>6, <3>1 DEF Triggered
  <2> QED
    BY <1>1, <1>2, <2>1, <2>2 DEF CheckInv, AlertInv, OneActive, FreshAlerts, EndedIsResolved
<1> QED
  BY <1>1, <1>2, <1>4, <1>5, <1>7
     DEF CheckInv, AlertInv, EngineInv, StageMeans, TableType, Raising, Ending

-----------------------------------------------------------------------------
(* A pair is evaluated and an alert raised                                 *)

LEMMA FirstMetIsState ==
    ASSUME StatesType, now \in 0..MaxTime, NEW k \in Keys
    PROVE  /\ FirstMet(k) \in State /\ FirstMet(k) # NoState
           /\ Triggered(k) => FirstMet(k) = states[k]
           /\ ~Triggered(k) => ~FirstMet(k).triggered
<1>1. CASE states[k] = NoState
  <2>1. FirstMet(k) = [triggered |-> FALSE, alert |-> NoAlert, since |-> now]
    BY <1>1 DEF FirstMet
  <2>2. FirstMet(k) \in State /\ ~FirstMet(k).triggered
    BY <2>1 DEF State
  <2> QED
    BY <1>1, <2>2, NoneAssumption DEF Triggered
<1>2. CASE states[k] # NoState
  BY <1>2, NoneAssumption DEF FirstMet, Triggered, StatesType
<1> QED
  BY <1>1, <1>2

LEMMA EvaluatePairInv == ASSUME CheckInv, now \in 0..MaxTime, NEW k \in Keys, EvaluatePair(k) PROVE CheckInv'
<1>1. UNCHANGED <<alerts, rules, lastRule, lastAlert, told, loaded, up>> /\ check.stage = "pairs" /\ up
  BY DEF EvaluatePair, engineRest, dbVars, IsNext, CheckInv, EngineInv, StageMeans
<1>2. k \in check.todo /\ Listed(k) # NoRow
  BY DEF EvaluatePair, IsNext, CheckInv, EngineInv, CheckType
<1>3. /\ CheckType'
      /\ check'.stage \in {"idle", "pairs", "create", "load"}
      /\ check'.stage \in {"create", "load"} =>
            /\ check'.key = k /\ metric[k[2]] # NoMetric /\ states' = Evaluated(k)
            /\ check'.stage = "create" => Fires(k) /\ ~Triggered(k)
            /\ check'.stage = "load" => ~Fires(k) /\ Triggered(k)
  <2>1. CASE check' = NextPair(k)
    BY <2>1, NextPairCheck DEF CheckInv, EngineInv
  <2>2. CASE check' # NextPair(k)
    <3> DEFINE stage == IF Fires(k) THEN "create" ELSE "load"
    <3>0. /\ metric[k[2]] # NoMetric /\ states' = Evaluated(k) /\ Fires(k) # Triggered(k)
          /\ check' = [check EXCEPT !.key = k, !.stage = IF Fires(k) THEN "create" ELSE "load"]
      BY <2>2 DEF EvaluatePair
    <3>1. /\ metric[k[2]] # NoMetric /\ states' = Evaluated(k) /\ (Fires(k) <=> ~Triggered(k))
          /\ check' = [check EXCEPT !.key = k, !.stage = stage]
      BY <3>0 DEF Fires, Triggered
    <3>2. stage \in {"create", "load"} /\ stage \in Stages /\ stage \notin Holding
      BY DEF Stages, Holding, Ending
    <3>3. PICK next \in {"create", "load"} : next = stage
      BY <3>2
    <3>4. check' = [check EXCEPT !.key = k, !.stage = next]
      BY <3>1, <3>3
    <3>5. /\ check'.stage = next /\ check'.key = k /\ check'.listed = check.listed
          /\ check'.todo = check.todo
      BY <3>4 DEF CheckInv, EngineInv, CheckType
    <3>6. check' \in [stage : Stages, listed : [Rules -> Rule \cup {NoRow}], todo : SUBSET Keys,
                      key : Keys \cup {NoState}, alert : Alerts \cup {NoAlert}, ok : BOOLEAN]
      BY <3>4 DEF CheckInv, EngineInv, CheckType, Stages
    <3>7. CheckType'
      BY <1>2, <3>2, <3>3, <3>5, <3>6 DEF CheckInv, EngineInv, CheckType, Listed
    <3>8. (next = "create" => Fires(k)) /\ (next = "load" => ~Fires(k))
      BY <3>3
    <3> HIDE DEF stage
    <3> QED
      BY <3>1, <3>5, <3>7, <3>8
  <2> QED
    BY <2>1, <2>2
<1>4. /\ StatesType'
      /\ \A j \in Keys : j # k => states'[j] = states[j]
      /\ Triggered(k) => states'[k] = states[k]
      /\ ~Triggered(k) => ~Triggered(k)'
  <2>1. CASE states' = [states EXCEPT ![k] = FirstMet(k)]
    BY <2>1, FirstMetIsState, NoneAssumption DEF CheckInv, EngineInv, StatesType, Triggered
  <2>2. CASE states' = [states EXCEPT ![k] = NoState] /\ ~Triggered(k)
    BY <2>2 DEF CheckInv, EngineInv, StatesType, Triggered
  <2>3. CASE states' = states
    BY <2>3 DEF CheckInv, EngineInv, StatesType, Triggered
  <2> QED
    BY <2>1, <2>2, <2>3 DEF EvaluatePair, Evaluated
<1>5. check'.stage = "create" => states'[k] # NoState
  <2> SUFFICES ASSUME check'.stage = "create" PROVE states'[k] # NoState
    OBVIOUS
  <2>1. states' = [states EXCEPT ![k] = FirstMet(k)]
    BY <1>3 DEF Evaluated, Fires
  <2> QED
    BY <2>1, FirstMetIsState DEF CheckInv, EngineInv, StatesType
<1>6. \A j \in Keys : (Triggered(j)' <=> Triggered(j)) /\ (Triggered(j) => states'[j] = states[j])
  BY <1>4 DEF Triggered
<1>7. \A h : Active(h)' <=> Active(h)
  BY <1>1 DEF Active
<1>8. EngineInv'
  <2>1. StageMeans'
    BY <1>1, <1>3, <1>5, <1>6 DEF StageMeans, Raising, Ending
  <2>2. StatesOwn'
    BY <1>1, <1>3, <1>6 DEF StatesOwn, CheckInv, EngineInv
  <2> QED
    BY <1>3, <1>4, <2>1, <2>2 DEF EngineInv
<1>9. AlertInv'
  <2>1. ActiveIsTracked'
    <3> SUFFICES ASSUME loaded, NEW h \in Alerts, Active(h)
                 PROVE  Triggered(alerts[h].key)' /\ states'[alerts[h].key].alert = h
      BY <1>1, <1>7 DEF ActiveIsTracked
    <3>1. alerts[h].key \in Keys /\ Triggered(alerts[h].key) /\ states[alerts[h].key].alert = h
      BY <1>1 DEF Active, CheckInv, TableType, Alert, AlertInv, ActiveIsTracked
    <3> QED
      BY <1>1, <1>6, <3>1 DEF Triggered
  <2> QED
    BY <1>1, <1>3, <1>7, <2>1 DEF CheckInv, AlertInv, OneActive, FreshAlerts, EndedIsResolved
<1>10. ToldInv'
  BY <1>1, <1>3, <1>6, <1>7 DEF CheckInv, ToldInv, ToldType, ToldOnce
<1> QED
  BY <1>1, <1>8, <1>9, <1>10 DEF CheckInv, TableType

\* An insertion uses a new id: no state has it, nothing was told of it, and the pair of
\* the check has no active alert.
LEMMA CreateAlertInv == ASSUME CheckInv, now \in 0..MaxTime, CreateAlert PROVE CheckInv'
<1>1. /\ UNCHANGED <<rules, lastRule, states, told, loaded, up>> /\ check.stage = "create" /\ up
      /\ check.key \in Keys /\ Listed(check.key) # NoRow
      /\ states[check.key] # NoState /\ ~Triggered(check.key)
  BY DEF CreateAlert, engineRest, CheckInv, EngineInv, CheckType, StageMeans, OfAlert, Raising
<1>2. CASE rules[check.key[1]] = NoRow
  <2>1. check' = Idle /\ UNCHANGED <<alerts, lastAlert>>
    BY <1>2 DEF CreateAlert
  <2>2. CheckType' /\ check'.stage = "idle" /\ OnlyFewer
    BY <2>1, IdleCheck, SameAlerts
  <2>3. EngineInv'
    BY <1>1, <2>1, <2>2, FewerEngineInv DEF CheckInv, OfAlert
  <2>4. OneActive' /\ ActiveIsTracked' /\ FreshAlerts'
    BY <1>1, <2>1, <2>2, FewerAlertInv DEF CheckInv
  <2>5. ToldInv'
    BY <1>1, <2>1, <2>2, FewerToldInv DEF CheckInv
  <2> QED
    BY <1>1, <2>1, <2>2, <2>3, <2>4, <2>5 DEF CheckInv, AlertInv, EndedIsResolved, TableType
<1>3. CASE rules[check.key[1]] # NoRow
  <2> DEFINE new == lastAlert + 1
             row == [key |-> check.key, at |-> now, resolved |-> FALSE,
                     sent |-> FALSE, recoverySent |-> FALSE]
  <2>1. PICK h \in Alerts : h = lastAlert + 1 /\ h \notin 1..lastAlert /\ h > lastAlert
    BY <1>3, BoundsAssumption DEF CreateAlert, Alerts, CheckInv, TableType
  <2>2. /\ lastAlert' = h /\ alerts' = [alerts EXCEPT ![h] = row]
        /\ check' = [check EXCEPT !.stage = "notify", !.alert = h]
    BY <1>3, <2>1 DEF CreateAlert
  <2>3. row \in Alert /\ row.key = check.key /\ ~row.resolved /\ ~row.sent /\ ~row.recoverySent
    BY <1>1 DEF Alert
  <2>4. PICK r \in Alert : /\ r = row /\ r.key = check.key /\ ~r.resolved
                           /\ ~r.sent /\ ~r.recoverySent
    BY <2>3
  <2>5. alerts' = [alerts EXCEPT ![h] = r]
    BY <2>2, <2>4
  <2> HIDE DEF row, new
  <2>6. /\ alerts'[h] = r /\ \A g \in Alerts : g # h => alerts'[g] = alerts[g]
        /\ alerts' \in [Alerts -> Alert \cup {NoRow}]
    BY <2>5 DEF CheckInv, TableType
  <2>7. TableType'
    BY <1>1, <2>1, <2>2, <2>6, BoundsAssumption DEF CheckInv, TableType, Alerts
  <2>8. /\ check'.stage = "notify" /\ check'.key = check.key /\ check'.alert = h
        /\ CheckType'
    <3>1. /\ check'.stage = "notify" /\ check'.key = check.key /\ check'.alert = h
          /\ check'.listed = check.listed /\ check'.todo = check.todo
      BY <2>2 DEF CheckInv, EngineInv, CheckType
    <3>2. check' \in [stage : Stages, listed : [Rules -> Rule \cup {NoRow}], todo : SUBSET Keys,
                      key : Keys \cup {NoState}, alert : Alerts \cup {NoAlert}, ok : BOOLEAN]
      BY <2>2 DEF CheckInv, EngineInv, CheckType, Stages
    <3> QED
      BY <1>1, <3>1, <3>2 DEF CheckInv, EngineInv, CheckType, Listed
  <2>9. Active(h)' /\ ~Active(h) /\ \A g \in Alerts : g # h => (Active(g)' <=> Active(g))
    BY <2>1, <2>4, <2>6, NoneAssumption DEF Active, CheckInv, AlertInv, FreshAlerts
  <2>10. \A k : Triggered(k)' <=> Triggered(k)
    BY <1>1 DEF Triggered
  <2>11. EngineInv'
    <3>1. StageMeans'
      BY <1>1, <2>8, <2>10 DEF StageMeans, Raising, Ending
    <3>2. \A k \in Keys : Triggered(k) => states[k].alert \in 1..lastAlert /\ states[k].alert \in 1..h
      BY <2>1 DEF CheckInv, EngineInv, StatesOwn, TableType
    <3>3. h \in 1..h
      BY <2>1 DEF Alerts
    <3>4. StatesOwn'
      BY <1>1, <2>1, <2>2, <2>8, <2>10, <3>2, <3>3 DEF StatesOwn, CheckInv, EngineInv
    <3> QED
      BY <1>1, <2>8, <3>1, <3>4 DEF EngineInv, StatesType, CheckInv
  <2>12. ASSUME loaded, NEW g \in Alerts, Active(g)
         PROVE  /\ Triggered(alerts[g].key) /\ states[alerts[g].key].alert = g
                /\ g # h /\ alerts[g].key # check.key
    BY <1>1, <2>9, <2>12 DEF CheckInv, AlertInv, ActiveIsTracked
  <2>13. ActiveIsTracked'
    <3> SUFFICES ASSUME loaded, NEW g \in Alerts, Active(g)'
                 PROVE  (\/ Triggered(alerts[g].key) /\ states[alerts[g].key].alert = g
                         \/ check.alert = g /\ check.key = alerts[g].key /\ check.stage \in {"notify", "persist"})'
      BY <1>1 DEF ActiveIsTracked
    <3>1. CASE g = h
      BY <2>4, <2>6, <2>8, <3>1
    <3>2. CASE g # h
      BY <1>1, <2>6, <2>9, <2>12, <3>2 DEF Triggered
    <3> QED
      BY <3>1, <3>2
  <2>14. OneActive'
    BY <1>1, <2>4, <2>6, <2>9, <2>12 DEF OneActive, CheckInv, AlertInv
  <2>15. FreshAlerts'
    BY <2>1, <2>2, <2>6, AlertsAreNumbers DEF FreshAlerts, CheckInv, AlertInv, TableType
  <2>16. ToldInv'
    <3>1. told[h].trigger = 0 /\ told[h].recovery = 0
      BY <2>1 DEF CheckInv, ToldInv
    <3>2. ToldOnce'
      <4> SUFFICES ASSUME NEW g \in Alerts, alerts'[g] # NoRow
                   PROVE  /\ alerts'[g].sent => told[g].trigger = 1
                          /\ alerts'[g].recoverySent => told[g].recovery = 1
        BY <1>1 DEF CheckInv, ToldInv, ToldOnce
      <4> QED
        BY <2>4, <2>6 DEF CheckInv, ToldInv, ToldOnce
    <3>3. \A g \in Alerts : g > lastAlert' => told[g].trigger = 0 /\ told[g].recovery = 0
      BY <2>1, <2>2, AlertsAreNumbers DEF CheckInv, ToldInv, TableType
    <3>4. \A g \in Alerts : told[g].recovery > 0 => ~Active(g)'
      BY <2>9, <3>1 DEF CheckInv, ToldInv
    <3> QED
      BY <1>1, <2>8, <2>10, <3>1, <3>2, <3>3, <3>4 DEF CheckInv, ToldInv, ToldType
  <2> QED
    BY <2>7, <2>8, <2>11, <2>13, <2>14, <2>15, <2>16 DEF CheckInv, AlertInv, EndedIsResolved
<1> QED
  BY <1>2, <1>3

-----------------------------------------------------------------------------
(* Deliveries and their results                                            *)

\* The channels hear of the alert the check works on, and of no other.
LEMMA DeliverTells ==
    ASSUME CheckInv, NEW stage \in Holding, NEW next \in Holding, NEW kind \in {"trigger", "recovery"},
           Deliver(stage, kind, next)
    PROVE  /\ UNCHANGED <<alerts, rules, lastRule, lastAlert, states, loaded, up>>
           /\ check.stage = stage /\ check'.stage = next
           /\ check'.key = check.key /\ check'.alert = check.alert /\ check.alert \in Alerts
           /\ CheckType' /\ ToldType'
           /\ \A h \in Alerts : h # check.alert => told'[h] = told[h]
           /\ told'[check.alert][kind] \in {told[check.alert][kind], told[check.alert][kind] + 1}
           /\ \A other \in {"trigger", "recovery"} :
                 other # kind => told'[check.alert][other] = told[check.alert][other]
           /\ check'.ok => told'[check.alert][kind] = told[check.alert][kind] + 1
<1>1. /\ check.stage = stage /\ check.key \in Keys /\ Listed(check.key) # NoRow
      /\ check.alert \in Alerts
      /\ UNCHANGED <<alerts, rules, lastRule, lastAlert, states, loaded, up>>
  BY DEF Deliver, engineRest, dbVars, CheckInv, EngineInv, CheckType, Holding, Ending, OfAlert
<1>2. PICK ok \in BOOLEAN : check' = [check EXCEPT !.stage = next, !.ok = ok]
  BY DEF Deliver
<1>3. /\ check'.stage = next /\ check'.key = check.key /\ check'.alert = check.alert
      /\ check'.ok = ok /\ CheckType'
  <2>1. check' = [check EXCEPT !.stage = next, !.ok = ok] /\ next \in Stages
    <3>1. next \in Stages
      BY DEF Stages, Holding, Ending
    <3> QED
      BY <1>2, <3>1
  <2>2. check \in [stage : Stages, listed : [Rules -> Rule \cup {NoRow}], todo : SUBSET Keys,
                   key : Keys \cup {NoState}, alert : Alerts \cup {NoAlert}, ok : BOOLEAN]
    BY DEF CheckInv, EngineInv, CheckType
  <2>3. /\ check'.stage = next /\ check'.key = check.key /\ check'.alert = check.alert
        /\ check'.ok = ok /\ check'.listed = check.listed /\ check'.todo = check.todo
    BY <2>1, <2>2
  <2>4. check' \in [stage : Stages, listed : [Rules -> Rule \cup {NoRow}], todo : SUBSET Keys,
                    key : Keys \cup {NoState}, alert : Alerts \cup {NoAlert}, ok : BOOLEAN]
    BY <2>1, <2>2
  <2> QED
    BY <1>1, <2>3, <2>4 DEF CheckInv, EngineInv, CheckType, Listed
<1>4. PICK a \in Alerts : a = check.alert
  BY <1>1
<1>5. ~Listed(check.key).channels => check'.ok = FALSE
  <2> SUFFICES ASSUME ~Listed(check.key).channels PROVE check'.ok = FALSE
    OBVIOUS
  <2>1. check' = [check EXCEPT !.stage = next, !.ok = FALSE]
    BY DEF Deliver
  <2> QED
    BY <2>1 DEF CheckInv, EngineInv, CheckType
<1>6. /\ ToldType'
      /\ \A h \in Alerts : h # a => told'[h] = told[h]
      /\ told'[a][kind] \in {told[a][kind], told[a][kind] + 1}
      /\ \A other \in {"trigger", "recovery"} :
            other # kind => told'[a][other] = told[a][other]
      /\ Listed(check.key).channels => told'[a][kind] = told[a][kind] + 1
  <2>1. CASE Listed(check.key).channels
    <3>1. told' = [told EXCEPT ![a][kind] = @ + 1]
      BY <1>4, <2>1 DEF Deliver
    <3>2. told[a] \in [trigger : Nat, recovery : Nat] /\ told \in [Alerts -> [trigger : Nat, recovery : Nat]]
      BY DEF CheckInv, ToldInv, ToldType
    <3>3. CASE kind = "trigger"
      <4>1. told' = [told EXCEPT ![a].trigger = @ + 1]
        BY <3>1, <3>3
      <4> QED
        BY <3>2, <3>3, <4>1 DEF ToldType
    <3>4. CASE kind = "recovery"
      <4>1. told' = [told EXCEPT ![a].recovery = @ + 1]
        BY <3>1, <3>4
      <4> QED
        BY <3>2, <3>4, <4>1 DEF ToldType
    <3> QED
      BY <3>3, <3>4
  <2>2. CASE ~Listed(check.key).channels
    BY <2>2 DEF Deliver, CheckInv, ToldInv, ToldType
  <2> QED
    BY <2>1, <2>2
<1> QED
  BY <1>1, <1>3, <1>4, <1>5, <1>6

LEMMA NotifyTriggeredInv == ASSUME CheckInv, NotifyTriggered PROVE CheckInv'
<1>1. "notify" \in Holding /\ "persist" \in Holding
  BY DEF Holding
<1>2. /\ UNCHANGED <<alerts, rules, lastRule, lastAlert, states, loaded, up>>
      /\ check.stage = "notify" /\ check'.stage = "persist"
      /\ check'.key = check.key /\ check'.alert = check.alert /\ check.alert \in Alerts
      /\ CheckType' /\ ToldType'
      /\ \A h \in Alerts : h # check.alert => told'[h] = told[h]
      /\ told'[check.alert].trigger \in {told[check.alert].trigger, told[check.alert].trigger + 1}
      /\ told'[check.alert].recovery = told[check.alert].recovery
      /\ check'.ok => told'[check.alert].trigger = told[check.alert].trigger + 1
  BY <1>1, DeliverTells DEF NotifyTriggered
<1>3. \A h : (Active(h)' <=> Active(h)) /\ (Triggered(h)' <=> Triggered(h))
  BY <1>2 DEF Active, Triggered
<1>4. EngineInv'
  BY <1>2, <1>3 DEF CheckInv, EngineInv, StatesType, StageMeans, StatesOwn, Raising, Ending
<1>5. AlertInv'
  BY <1>2, <1>3 DEF CheckInv, AlertInv, OneActive, FreshAlerts, EndedIsResolved, ActiveIsTracked
<1>6. PICK a \in Alerts : a = check.alert
  BY <1>2
<1>7. told[a].trigger = 0 /\ a \in 1..lastAlert
      /\ \A k \in Keys : Triggered(k) => states[k].alert \in Alerts /\ states[k].alert # a
  BY <1>2, <1>6, BoundsAssumption DEF CheckInv, ToldInv, EngineInv, StatesOwn, TableType, Alerts
<1>8. told'[a].trigger \in {0, 1} /\ (check'.ok => told'[a].trigger = 1)
  BY <1>2, <1>6, <1>7
<1>9. \A h \in Alerts :
        /\ told'[h].trigger <= 1 /\ told'[h].recovery = told[h].recovery
        /\ told[h].trigger = 1 => told'[h].trigger = 1
        /\ h # a => told'[h] = told[h]
  BY <1>2, <1>6, <1>7, <1>8 DEF CheckInv, ToldInv, ToldOnce
<1>10. ToldInv'
  <2>1. ToldOnce'
    BY <1>2, <1>9 DEF CheckInv, ToldInv, ToldOnce
  <2>2. \A h \in Alerts : h > lastAlert => told'[h].trigger = 0 /\ told'[h].recovery = 0
    BY <1>7, <1>9, AlertsAreNumbers DEF CheckInv, ToldInv, TableType
  <2>3. \A k \in Keys : Triggered(k) => told'[states[k].alert].recovery = 0
    BY <1>2, <1>7, <1>9 DEF CheckInv, ToldInv
  <2> QED
    BY <1>2, <1>3, <1>6, <1>8, <1>9, <2>1, <2>2, <2>3 DEF CheckInv, ToldInv
<1> QED
  BY <1>2, <1>4, <1>5, <1>10 DEF CheckInv, TableType

LEMMA NotifyRecoveredInv == ASSUME CheckInv, NotifyRecovered PROVE CheckInv'
<1>1. "recovered" \in Holding /\ "clear" \in Holding
  BY DEF Holding, Ending
<1>2. /\ UNCHANGED <<alerts, rules, lastRule, lastAlert, states, loaded, up>>
      /\ check.stage = "recovered" /\ check'.stage = "clear"
      /\ check'.key = check.key /\ check'.alert = check.alert /\ check.alert \in Alerts
      /\ CheckType' /\ ToldType'
      /\ \A h \in Alerts : h # check.alert => told'[h] = told[h]
      /\ told'[check.alert].recovery \in {told[check.alert].recovery, told[check.alert].recovery + 1}
      /\ told'[check.alert].trigger = told[check.alert].trigger
      /\ check'.ok => told'[check.alert].recovery = told[check.alert].recovery + 1
  BY <1>1, DeliverTells DEF NotifyRecovered
<1>3. \A h : (Active(h)' <=> Active(h)) /\ (Triggered(h)' <=> Triggered(h))
  BY <1>2 DEF Active, Triggered
<1>4. EngineInv'
  BY <1>2, <1>3 DEF CheckInv, EngineInv, StatesType, StageMeans, StatesOwn, Raising, Ending
<1>5. AlertInv'
  BY <1>2, <1>3 DEF CheckInv, AlertInv, OneActive, FreshAlerts, EndedIsResolved, ActiveIsTracked, ActiveOf
<1>6. PICK a \in Alerts : a = check.alert
  BY <1>2
<1>7. /\ check.key \in Keys /\ Triggered(check.key) /\ states[check.key].alert = a
      /\ ~Active(a) /\ told[a].recovery = 0 /\ a \in 1..lastAlert
  BY <1>2, <1>6 DEF CheckInv, ToldInv, EngineInv, StatesOwn, StageMeans, CheckType, AlertInv,
                    EndedIsResolved, Ending, OfAlert
<1>8. told'[a].recovery \in {0, 1} /\ (check'.ok => told'[a].recovery = 1)
  BY <1>2, <1>6, <1>7
<1>9. \A h \in Alerts :
        /\ told'[h].recovery <= 1 /\ told'[h].trigger = told[h].trigger
        /\ told[h].recovery = 1 => told'[h].recovery = 1
        /\ h # a => told'[h] = told[h]
  BY <1>2, <1>6, <1>7, <1>8 DEF CheckInv, ToldInv, ToldOnce
<1>10. ToldInv'
  <2>1. ToldOnce'
    BY <1>2, <1>9 DEF CheckInv, ToldInv, ToldOnce
  <2>2. \A h \in Alerts : h > lastAlert => told'[h].trigger = 0 /\ told'[h].recovery = 0
    BY <1>7, <1>9, AlertsAreNumbers DEF CheckInv, ToldInv, TableType
  <2>3. ASSUME NEW k \in Keys, Triggered(k)
        PROVE  told'[states[k].alert].recovery = 0 \/ k = check.key
    <3>1. CASE states[k].alert = a
      BY <1>7, <2>3, <3>1 DEF CheckInv, EngineInv, StatesOwn
    <3>2. CASE states[k].alert # a
      <4>1. states[k].alert \in Alerts
        BY <2>3, BoundsAssumption DEF CheckInv, EngineInv, StatesOwn, TableType, Alerts
      <4>2. told[states[k].alert].recovery = 0
        BY <1>2, <2>3 DEF CheckInv, ToldInv
      <4> QED
        BY <1>9, <3>2, <4>1, <4>2
    <3> QED
      BY <3>1, <3>2
  <2>4. \A h \in Alerts : told'[h].recovery > 0 => ~Active(h)
    BY <1>7, <1>9 DEF CheckInv, ToldInv
  <2> QED
    BY <1>2, <1>3, <1>6, <1>8, <2>1, <2>2, <2>3, <2>4 DEF CheckInv, ToldInv
<1> QED
  BY <1>2, <1>4, <1>5, <1>10 DEF CheckInv, TableType

\* The result of a round of deliveries is noted in the row of the alert, and nothing else.
OnlyResults ==
    /\ alerts' \in [Alerts -> Alert \cup {NoRow}]
    /\ \A h \in Alerts :
          /\ alerts'[h] = NoRow <=> alerts[h] = NoRow
          /\ alerts[h] # NoRow => /\ alerts'[h].key = alerts[h].key
                                 /\ alerts'[h].resolved = alerts[h].resolved

LEMMA ResultsKeepActive ==
    ASSUME OnlyResults, NEW h \in Alerts
    PROVE  /\ Active(h)' <=> Active(h)
           /\ Active(h) => alerts'[h].key = alerts[h].key
BY DEF OnlyResults, Active

LEMMA SentIsNoted ==
    ASSUME CheckInv, NEW a \in Alerts, NEW ok \in BOOLEAN, NEW stored \in BOOLEAN,
           alerts' = IF stored /\ alerts[a] # NoRow
                     THEN [alerts EXCEPT ![a].sent = ok] ELSE alerts
    PROVE  /\ OnlyResults
           /\ \A h \in Alerts : alerts[h] # NoRow =>
                 /\ alerts'[h].recoverySent = alerts[h].recoverySent
                 /\ alerts'[h].sent = alerts[h].sent \/ (h = a /\ alerts'[h].sent = ok)
<1>1. CASE ~(stored /\ alerts[a] # NoRow)
  BY <1>1 DEF CheckInv, TableType, OnlyResults
<1>2. CASE stored /\ alerts[a] # NoRow
  <2>1. PICK row \in Alert : row = alerts[a]
    BY <1>2 DEF CheckInv, TableType
  <2>2. alerts' = [alerts EXCEPT ![a].sent = ok]
    BY <1>2
  <2>3. alerts' = [alerts EXCEPT ![a] = [row EXCEPT !.sent = ok]]
    BY <2>1, <2>2
  <2>4. PICK noted \in Alert : noted = [row EXCEPT !.sent = ok]
    BY DEF Alert
  <2>5. /\ noted.key = row.key /\ noted.resolved = row.resolved /\ noted.sent = ok
        /\ noted.recoverySent = row.recoverySent
    BY <2>4 DEF Alert
  <2>6. /\ alerts'[a] = noted /\ \A h \in Alerts : h # a => alerts'[h] = alerts[h]
        /\ alerts' \in [Alerts -> Alert \cup {NoRow}]
    BY <2>3, <2>4 DEF CheckInv, TableType
  <2> QED
    BY <2>1, <2>5, <2>6, NoneAssumption DEF OnlyResults
<1> QED
  BY <1>1, <1>2

LEMMA RecoverySentIsNoted ==
    ASSUME CheckInv, NEW a \in Alerts, NEW ok \in BOOLEAN, NEW stored \in BOOLEAN,
           alerts' = IF stored /\ alerts[a] # NoRow
                     THEN [alerts EXCEPT ![a].recoverySent = ok] ELSE alerts
    PROVE  /\ OnlyResults
           /\ \A h \in Alerts : alerts[h] # NoRow =>
                 /\ alerts'[h].sent = alerts[h].sent
                 /\ alerts'[h].recoverySent = alerts[h].recoverySent \/ (h = a /\ alerts'[h].recoverySent = ok)
<1>1. CASE ~(stored /\ alerts[a] # NoRow)
  BY <1>1 DEF CheckInv, TableType, OnlyResults
<1>2. CASE stored /\ alerts[a] # NoRow
  <2>1. PICK row \in Alert : row = alerts[a]
    BY <1>2 DEF CheckInv, TableType
  <2>2. alerts' = [alerts EXCEPT ![a].recoverySent = ok]
    BY <1>2
  <2>3. alerts' = [alerts EXCEPT ![a] = [row EXCEPT !.recoverySent = ok]]
    BY <2>1, <2>2
  <2>4. PICK noted \in Alert : noted = [row EXCEPT !.recoverySent = ok]
    BY DEF Alert
  <2>5. /\ noted.key = row.key /\ noted.resolved = row.resolved /\ noted.sent = row.sent
        /\ noted.recoverySent = ok
    BY <2>4 DEF Alert
  <2>6. /\ alerts'[a] = noted /\ \A h \in Alerts : h # a => alerts'[h] = alerts[h]
        /\ alerts' \in [Alerts -> Alert \cup {NoRow}]
    BY <2>3, <2>4 DEF CheckInv, TableType
  <2> QED
    BY <2>1, <2>5, <2>6, NoneAssumption DEF OnlyResults
<1> QED
  BY <1>1, <1>2

\* The state is triggered with the alert that was notified, whether that was stored or not.
LEMMA PersistTriggeredInv ==
    ASSUME CheckInv, NEW stored \in BOOLEAN, PersistTriggered(stored)
    PROVE  CheckInv'
<1>1. /\ UNCHANGED <<rules, lastRule, lastAlert, told, loaded, up>> /\ check.stage = "persist" /\ up
      /\ check.ok \in BOOLEAN
  BY DEF PersistTriggered, CheckInv, EngineInv, StageMeans, CheckType
<1>2. PICK k \in Keys, a \in Alerts :
        /\ k = check.key /\ a = check.alert /\ states[k] # NoState /\ ~Triggered(k)
        /\ a \in 1..lastAlert /\ \A j \in Keys : Triggered(j) => states[j].alert # a
        /\ check.ok => told[a].trigger = 1
  BY <1>1 DEF CheckInv, EngineInv, StageMeans, StatesOwn, CheckType, ToldInv, Raising, OfAlert, Holding
<1>3. CheckType' /\ check'.stage \in {"idle", "pairs"}
  <2>1. check' = NextPair(k) \/ check' = Idle
    BY <1>2 DEF PersistTriggered
  <2> QED
    BY <2>1, IdleCheck, NextPairCheck DEF CheckInv, EngineInv
<1>4. /\ states' \in [Keys -> State \cup {NoState}]
      /\ Triggered(k)' /\ states'[k].alert = a
      /\ \A j \in Keys : j # k => states'[j] = states[j]
  <2>1. states' = [states EXCEPT ![k].triggered = TRUE, ![k].alert = a]
    BY <1>2 DEF PersistTriggered, Marked, MarkTriggered
  <2>2. PICK old \in State : old = states[k]
    BY <1>2 DEF CheckInv, EngineInv, StatesType
  <2>3. PICK marked \in State : marked = [old EXCEPT !.triggered = TRUE, !.alert = a]
    BY DEF State
  <2>4. marked.triggered = TRUE /\ marked.alert = a
    BY <2>3 DEF State
  <2>5. states' = [states EXCEPT ![k] = marked]
    BY <2>1, <2>2, <2>3
  <2>6. states'[k] = marked
    BY <2>5 DEF CheckInv, EngineInv, StatesType
  <2> QED
    BY <2>4, <2>5, <2>6, NoneAssumption DEF CheckInv, EngineInv, StatesType, Triggered
<1>5. \A j \in Keys : j # k => (Triggered(j)' <=> Triggered(j))
  BY <1>4 DEF Triggered
<1>6. /\ OnlyResults
      /\ \A h \in Alerts : alerts[h] # NoRow =>
            /\ alerts'[h].recoverySent = alerts[h].recoverySent
            /\ alerts'[h].sent = alerts[h].sent \/ (h = a /\ alerts'[h].sent = check.ok)
  BY <1>1, <1>2, SentIsNoted DEF PersistTriggered
<1>7. \A h \in Alerts : (Active(h)' <=> Active(h)) /\ (Active(h) => alerts'[h].key = alerts[h].key)
  BY <1>6, ResultsKeepActive
<1>8. EngineInv'
  <2>1. StatesOwn'
    <3>1. \A j \in Keys : Triggered(j)' => states'[j].alert \in 1..lastAlert
      BY <1>2, <1>4, <1>5 DEF CheckInv, EngineInv, StatesOwn
    <3>2. ASSUME NEW i \in Keys, NEW j \in Keys, Triggered(i)', Triggered(j)',
                 states'[i].alert = states'[j].alert
          PROVE  i = j
      BY <1>2, <1>4, <1>5, <3>2 DEF CheckInv, EngineInv, StatesOwn
    <3> QED
      BY <1>1, <1>3, <3>1, <3>2 DEF StatesOwn
  <2> QED
    BY <1>1, <1>3, <1>4, <2>1 DEF EngineInv, StatesType, StageMeans, Raising, Ending
<1>9. AlertInv'
  <2>1. ActiveIsTracked'
    <3> SUFFICES ASSUME loaded, NEW h \in Alerts, Active(h)
                 PROVE  (Triggered(alerts[h].key) /\ states[alerts[h].key].alert = h)'
      BY <1>1, <1>7 DEF ActiveIsTracked
    <3>1. PICK j \in Keys : alerts[h].key = j /\ alerts'[h].key = j
      BY <1>7 DEF Active, CheckInv, TableType, Alert
    <3>2. (Triggered(j) /\ states[j].alert = h) \/ (h = a /\ j = k)
      BY <1>1, <1>2, <3>1 DEF CheckInv, AlertInv, ActiveIsTracked
    <3>3. Triggered(j)' /\ states'[j].alert = h
      BY <1>2, <1>4, <1>5, <3>2
    <3> QED
      BY <3>1, <3>3 DEF Triggered
  <2>2. OneActive'
    BY <1>1, <1>7 DEF CheckInv, AlertInv, OneActive
  <2>3. FreshAlerts'
    BY <1>1, <1>6 DEF CheckInv, AlertInv, FreshAlerts, OnlyResults
  <2> QED
    BY <1>3, <2>1, <2>2, <2>3 DEF AlertInv, EndedIsResolved
<1>10. ToldInv'
  <2>1. ToldOnce'
    BY <1>1, <1>2, <1>6 DEF CheckInv, ToldInv, ToldOnce, OnlyResults
  <2>2. told[a].recovery = 0
    BY <1>1, <1>2 DEF CheckInv, ToldInv
  <2>3. \A j \in Keys : Triggered(j)' => told[states'[j].alert].recovery = 0
    BY <1>1, <1>4, <1>5, <2>2 DEF CheckInv, ToldInv
  <2> QED
    BY <1>1, <1>3, <1>7, <2>1, <2>3 DEF CheckInv, ToldInv, ToldType
<1> QED
  BY <1>1, <1>6, <1>8, <1>9, <1>10 DEF CheckInv, TableType, OnlyResults

LEMMA PersistRecoveredInv ==
    ASSUME CheckInv, NEW stored \in BOOLEAN, PersistRecovered(stored)
    PROVE  CheckInv'
<1>1. /\ UNCHANGED <<rules, lastRule, lastAlert, told, loaded, up>> /\ check.stage = "clear" /\ up
      /\ check.ok \in BOOLEAN
  BY DEF PersistRecovered, CheckInv, EngineInv, StageMeans, CheckType
<1>2. PICK k \in Keys, a \in Alerts :
        /\ k = check.key /\ a = check.alert
        /\ check.ok => told[a].recovery = 1
        /\ loaded => ActiveOf(k) = {}
  BY <1>1 DEF CheckInv, EngineInv, CheckType, ToldInv, OfAlert, Holding, Ending, AlertInv, EndedIsResolved
<1>3. CheckType' /\ check'.stage \in {"idle", "pairs"}
  <2>1. check' = NextPair(k) \/ check' = Idle
    BY <1>2 DEF PersistRecovered
  <2> QED
    BY <2>1, IdleCheck, NextPairCheck DEF CheckInv, EngineInv
<1>4. /\ states' \in [Keys -> State \cup {NoState}]
      /\ ~Triggered(k)'
      /\ \A j \in Keys : j # k => states'[j] = states[j]
  <2>1. states' = [states EXCEPT ![k] = NoState]
    BY <1>2 DEF PersistRecovered
  <2> QED
    BY <2>1 DEF CheckInv, EngineInv, StatesType, Triggered
<1>5. \A j \in Keys : j # k => (Triggered(j)' <=> Triggered(j))
  BY <1>4 DEF Triggered
<1>6. /\ OnlyResults
      /\ \A h \in Alerts : alerts[h] # NoRow =>
            /\ alerts'[h].sent = alerts[h].sent
            /\ alerts'[h].recoverySent = alerts[h].recoverySent \/ (h = a /\ alerts'[h].recoverySent = check.ok)
  BY <1>1, <1>2, RecoverySentIsNoted DEF PersistRecovered
<1>7. \A h \in Alerts : (Active(h)' <=> Active(h)) /\ (Active(h) => alerts'[h].key = alerts[h].key)
  BY <1>6, ResultsKeepActive
<1>8. EngineInv'
  <2>1. StatesOwn'
    <3>1. \A j \in Keys : Triggered(j)' => Triggered(j) /\ states'[j] = states[j]
      BY <1>4, <1>5
    <3> QED
      BY <1>1, <1>3, <3>1 DEF StatesOwn, CheckInv, EngineInv
  <2> QED
    BY <1>1, <1>3, <1>4, <2>1 DEF EngineInv, StatesType, StageMeans, Raising, Ending
<1>9. AlertInv'
  <2>1. ActiveIsTracked'
    <3> SUFFICES ASSUME loaded, NEW h \in Alerts, Active(h)
                 PROVE  (Triggered(alerts[h].key) /\ states[alerts[h].key].alert = h)'
      BY <1>1, <1>7 DEF ActiveIsTracked
    <3>1. PICK j \in Keys : alerts[h].key = j /\ alerts'[h].key = j
      BY <1>7 DEF Active, CheckInv, TableType, Alert
    <3>2. Triggered(j) /\ states[j].alert = h
      BY <1>1, <3>1 DEF CheckInv, AlertInv, ActiveIsTracked
    <3>3. j # k
      BY <1>2, <3>1 DEF ActiveOf
    <3>4. Triggered(j)' /\ states'[j].alert = h
      BY <1>4, <1>5, <3>2, <3>3
    <3> QED
      BY <3>1, <3>4 DEF Triggered
  <2>2. OneActive'
    BY <1>1, <1>7 DEF CheckInv, AlertInv, OneActive
  <2>3. FreshAlerts'
    BY <1>1, <1>6 DEF CheckInv, AlertInv, FreshAlerts, OnlyResults
  <2> QED
    BY <1>3, <2>1, <2>2, <2>3 DEF AlertInv, EndedIsResolved
<1>10. ToldInv'
  <2>1. ToldOnce'
    BY <1>1, <1>2, <1>6 DEF CheckInv, ToldInv, ToldOnce, OnlyResults
  <2>2. \A j \in Keys : Triggered(j)' => told[states'[j].alert].recovery = 0
    BY <1>1, <1>2, <1>4, <1>5 DEF CheckInv, ToldInv
  <2> QED
    BY <1>1, <1>3, <1>7, <2>1, <2>2 DEF CheckInv, ToldInv, ToldType
<1> QED
  BY <1>1, <1>6, <1>8, <1>9, <1>10 DEF CheckInv, TableType, OnlyResults

-----------------------------------------------------------------------------
(* An alert is resolved                                                    *)

LEMMA LoadAlertInv == ASSUME CheckInv, LoadAlert PROVE CheckInv'
<1>1. /\ UNCHANGED <<alerts, rules, lastRule, lastAlert, states, told, loaded, up>>
      /\ check.stage = "load" /\ up
  BY DEF LoadAlert, engineRest, dbVars, CheckInv, EngineInv, StageMeans
<1>2. PICK k \in Keys, h \in Alerts :
        k = check.key /\ h = states[k].alert /\ Triggered(k) /\ Listed(k) # NoRow
  <2>1. /\ check.key \in Keys /\ Triggered(check.key) /\ Listed(check.key) # NoRow
        /\ states[check.key].alert \in 1..lastAlert
    BY <1>1 DEF CheckInv, EngineInv, StageMeans, StatesOwn, CheckType, OfAlert
  <2>2. states[check.key].alert \in Alerts
    BY <2>1, BoundsAssumption DEF Alerts, CheckInv, TableType
  <2> QED
    BY <2>1, <2>2
<1>3. OnlyFewer
  BY <1>1, SameAlerts
<1>4. CASE check' = Idle
  <2>1. CheckType' /\ check'.stage = "idle"
    BY <1>4, IdleCheck
  <2>2. EngineInv'
    BY <1>1, <2>1, FewerEngineInv DEF CheckInv, OfAlert
  <2>3. OneActive' /\ ActiveIsTracked' /\ FreshAlerts'
    BY <1>1, <1>3, FewerAlertInv DEF CheckInv
  <2>4. ToldInv'
    BY <1>1, <1>3, <2>1, FewerToldInv DEF CheckInv
  <2> QED
    BY <1>1, <2>1, <2>2, <2>3, <2>4 DEF CheckInv, AlertInv, EndedIsResolved, TableType
<1>5. CASE check' = [check EXCEPT !.stage = "resolve", !.alert = h]
  <2>1. /\ check'.stage = "resolve" /\ check'.key = k /\ check'.alert = h
        /\ check'.listed = check.listed /\ check'.todo = check.todo
    BY <1>2, <1>5 DEF CheckInv, EngineInv, CheckType
  <2>2. check' \in [stage : Stages, listed : [Rules -> Rule \cup {NoRow}], todo : SUBSET Keys,
                    key : Keys \cup {NoState}, alert : Alerts \cup {NoAlert}, ok : BOOLEAN]
    BY <1>5 DEF CheckInv, EngineInv, CheckType, Stages
  <2>3. CheckType'
    BY <1>2, <2>1, <2>2 DEF CheckInv, EngineInv, CheckType, Listed
  <2>4. \A j : Triggered(j)' <=> Triggered(j)
    BY <1>1 DEF Triggered
  <2>5. EngineInv'
    BY <1>1, <1>2, <2>1, <2>3, <2>4
       DEF CheckInv, EngineInv, StatesType, StageMeans, StatesOwn, Raising, Ending
  <2>6. OneActive' /\ ActiveIsTracked' /\ FreshAlerts'
    BY <1>1, <1>3, FewerAlertInv DEF CheckInv
  <2>7. ToldInv'
    BY <1>1, <1>3, <2>1, FewerToldInv DEF CheckInv
  <2> QED
    BY <1>1, <2>1, <2>5, <2>6, <2>7 DEF CheckInv, AlertInv, EndedIsResolved, TableType
<1> QED
  BY <1>2, <1>4, <1>5 DEF LoadAlert

\* The state and the check agree on the alert: when it is resolved the pair has none.
LEMMA ResolveAlertInv == ASSUME CheckInv, ResolveAlert PROVE CheckInv'
<1>1. /\ UNCHANGED <<rules, lastRule, lastAlert, states, told, loaded, up>>
      /\ check.stage = "resolve" /\ up
  BY DEF ResolveAlert, engineRest, CheckInv, EngineInv, StageMeans
<1>2. PICK k \in Keys, a \in Alerts :
        /\ k = check.key /\ a = check.alert /\ Triggered(k) /\ states[k].alert = a
        /\ Listed(k) # NoRow
  BY <1>1 DEF CheckInv, EngineInv, StageMeans, CheckType, OfAlert, Holding, Ending
<1>3. alerts' = Resolved({a})
  BY <1>2 DEF ResolveAlert
<1>4. OnlyFewer /\ alerts' \in [Alerts -> Alert \cup {NoRow}] /\ ~Active(a)'
  <2>1. OnlyFewer /\ alerts' \in [Alerts -> Alert \cup {NoRow}]
    BY <1>3, ResolvedFewer DEF CheckInv
  <2>2. ~Active(a)'
    BY <1>3, ResolvedRows DEF CheckInv, Active
  <2> QED
    BY <2>1, <2>2
<1>5. /\ check'.stage = "recovered" /\ check'.key = k /\ check'.alert = a /\ CheckType'
  <2>1. check' = [check EXCEPT !.stage = "recovered"]
    BY DEF ResolveAlert
  <2>2. /\ check'.stage = "recovered" /\ check'.key = k /\ check'.alert = a
        /\ check'.listed = check.listed /\ check'.todo = check.todo
    BY <1>2, <2>1 DEF CheckInv, EngineInv, CheckType
  <2>3. check' \in [stage : Stages, listed : [Rules -> Rule \cup {NoRow}], todo : SUBSET Keys,
                    key : Keys \cup {NoState}, alert : Alerts \cup {NoAlert}, ok : BOOLEAN]
    BY <2>1 DEF CheckInv, EngineInv, CheckType, Stages
  <2> QED
    BY <1>2, <2>2, <2>3 DEF CheckInv, EngineInv, CheckType, Listed
<1>6. \A j : Triggered(j)' <=> Triggered(j)
  BY <1>1 DEF Triggered
<1>7. EngineInv'
  BY <1>1, <1>2, <1>5, <1>6
     DEF CheckInv, EngineInv, StatesType, StageMeans, StatesOwn, Raising, Ending
<1>8. OneActive' /\ ActiveIsTracked' /\ FreshAlerts'
  BY <1>1, <1>4, FewerAlertInv DEF CheckInv
<1>9. ToldInv'
  BY <1>1, <1>4, <1>5, FewerToldInv DEF CheckInv
<1>10. EndedIsResolved'
  <2> SUFFICES ASSUME loaded, NEW h \in Alerts, Active(h)', alerts'[h].key = k PROVE FALSE
    BY <1>1, <1>4, <1>5 DEF EndedIsResolved, ActiveOf
  <2>1. Active(h) /\ alerts[h].key = k
    BY <1>4, FewerActive
  <2>2. states[k].alert = h
    BY <1>1, <2>1 DEF CheckInv, AlertInv, ActiveIsTracked
  <2> QED
    BY <1>2, <1>4, <2>2
<1> QED
  BY <1>1, <1>4, <1>7, <1>8, <1>9, <1>10 DEF CheckInv, AlertInv, TableType

-----------------------------------------------------------------------------
(* The process starts and stops                                            *)

LEMMA NoStateTriggered ==
    ASSUME states' = NoStates
    PROVE  StatesType' /\ \A k \in Keys : ~Triggered(k)'
BY DEF NoStates, StatesType, Triggered

\* Initialize finds each active alert, and with it the state that is to resolve it.
LEMMA LoadedStates ==
    ASSUME CheckInv, states' = [k \in Keys |-> LoadState(k)]
    PROVE  /\ StatesType'
           /\ \A k \in Keys : Triggered(k)' => states'[k].alert \in ActiveOf(k)
           /\ \A k \in Keys : ActiveOf(k) # {} => Triggered(k)'
<1>1. ASSUME NEW k \in Keys
      PROVE  /\ states'[k] \in State \cup {NoState}
             /\ Triggered(k)' => states'[k].alert \in ActiveOf(k)
             /\ ActiveOf(k) # {} => Triggered(k)'
  <2>1. states'[k] = LoadState(k)
    OBVIOUS
  <2>2. CASE ActiveOf(k) = {}
    BY <2>1, <2>2 DEF LoadState, Triggered
  <2>3. CASE ActiveOf(k) # {}
    <3>1. PICK h \in Alerts : h = Oldest(ActiveOf(k)) /\ h \in ActiveOf(k)
      BY <2>3, OldestIsOne DEF ActiveOf
    <3>2. PICK t \in 0..MaxTime : t = alerts[h].at
      BY <3>1 DEF ActiveOf, Active, CheckInv, TableType, Alert
    <3>3. states'[k] = [triggered |-> TRUE, alert |-> h, since |-> t]
      BY <2>1, <2>3, <3>1, <3>2 DEF LoadState
    <3>4. PICK s \in State : s = [triggered |-> TRUE, alert |-> h, since |-> t]
      BY DEF State
    <3>5. s.triggered = TRUE /\ s.alert = h
      BY <3>4
    <3> QED
      BY <3>1, <3>3, <3>4, <3>5, NoneAssumption DEF Triggered
  <2> QED
    BY <2>2, <2>3
<1>2. states' = [k \in Keys |-> states'[k]]
  OBVIOUS
<1> QED
  BY <1>1, <1>2 DEF StatesType

LEMMA BootInv == ASSUME CheckInv, NEW ok \in BOOLEAN, Boot(ok) PROVE CheckInv'
<1>1. /\ UNCHANGED <<alerts, rules, lastRule, lastAlert, told, check>>
      /\ check.stage = "idle" /\ up' /\ CheckType'
  BY DEF Boot, dbVars, CheckInv, EngineInv, StageMeans, CheckType, Listed
<1>2. /\ StatesType'
      /\ \A k \in Keys : Triggered(k)' => states'[k].alert \in ActiveOf(k)
      /\ loaded' => loaded /\ \A k \in Keys : ActiveOf(k) # {} => Triggered(k)'
  <2>1. CASE ok = TRUE
    <3>1. states' = [k \in Keys |-> LoadState(k)] /\ (loaded' => loaded)
      BY <2>1 DEF Boot
    <3> QED
      BY <3>1, LoadedStates
  <2>2. CASE ok = FALSE
    <3>1. states' = NoStates /\ ~loaded'
      BY <2>2 DEF Boot
    <3> QED
      BY <3>1, NoStateTriggered
  <2> QED
    BY <2>1, <2>2
<1>3. StatesOwn' /\ ToldInv'
  BY <1>1, <1>2, ReadStatesOwn DEF ReadFromTable, OfAlert, CheckInv, AlertInv
<1>4. EngineInv'
  BY <1>1, <1>2, <1>3 DEF EngineInv, StageMeans, Raising, Ending
<1>5. \A h : Active(h)' <=> Active(h)
  BY <1>1 DEF Active
<1>6. ActiveIsTracked'
  <2> SUFFICES ASSUME loaded', NEW h \in Alerts, Active(h)
               PROVE  (Triggered(alerts[h].key) /\ states[alerts[h].key].alert = h)'
    BY <1>1, <1>5 DEF ActiveIsTracked
  <2>1. PICK k \in Keys : alerts[h].key = k
    BY DEF Active, CheckInv, TableType, Alert
  <2>2. h \in ActiveOf(k)
    BY <2>1 DEF ActiveOf
  <2>3. Triggered(k)' /\ states'[k].alert \in ActiveOf(k)
    BY <1>2, <2>2
  <2>4. states'[k].alert = h
    BY <1>2, <2>2, <2>3 DEF ActiveOf, CheckInv, AlertInv, OneActive
  <2> QED
    BY <1>1, <2>1, <2>3, <2>4 DEF Triggered
<1>7. AlertInv'
  BY <1>1, <1>2, <1>5, <1>6 DEF CheckInv, AlertInv, OneActive, FreshAlerts, EndedIsResolved
<1> QED
  BY <1>1, <1>3, <1>4, <1>7 DEF CheckInv, TableType

LEMMA CrashInv == ASSUME CheckInv, Crash PROVE CheckInv'
<1>1. /\ UNCHANGED <<alerts, rules, lastRule, lastAlert, told, loaded>> /\ ~up'
      /\ check' = Idle /\ states' = NoStates
  BY DEF Crash, dbVars
<1>2. CheckType' /\ check'.stage = "idle"
  BY <1>1, IdleCheck
<1>3. StatesType' /\ \A k \in Keys : ~Triggered(k)'
  BY <1>1, NoStateTriggered
<1>4. StatesOwn' /\ ToldInv'
  BY <1>1, <1>2, <1>3, ReadStatesOwn DEF ReadFromTable, OfAlert, CheckInv, AlertInv
<1>5. EngineInv'
  BY <1>1, <1>2, <1>3, <1>4 DEF EngineInv, StageMeans, Raising, Ending
<1>6. \A h : Active(h)' <=> Active(h)
  BY <1>1 DEF Active
<1>7. AlertInv'
  BY <1>1, <1>2, <1>6 DEF CheckInv, AlertInv, OneActive, FreshAlerts, EndedIsResolved, ActiveIsTracked
<1> QED
  BY <1>1, <1>4, <1>5, <1>7 DEF CheckInv, TableType

-----------------------------------------------------------------------------
(* Administrators                                                          *)

\* What a request does to the tables: rules come and change, alerts only become fewer.
RequestEffect ==
    /\ TableType' /\ OnlyFewer /\ request' \in [Admins -> Request]
    /\ UNCHANGED requestRest

LEMMA RequestTypes ==
    /\ NoRequest \in Request
    /\ \A r \in Rules : /\ [kind |-> "resolve", rule |-> r] \in Request
                        /\ [kind |-> "delete", rule |-> r] \in Request
                        /\ [kind |-> "drop", rule |-> r] \in Request
    /\ \A r \in Rules, p \in Rule : [kind |-> "toggle", rule |-> r, row |-> p] \in Request
BY DEF Request

LEMMA RequestParts ==
    ASSUME RestType, NEW a \in Admins, request[a] # NoRequest
    PROVE  /\ request[a].rule \in Rules
           /\ request[a].kind = "toggle" => request[a].row \in Rule
           /\ request[a].kind # "toggle" =>
                 request[a] = [kind |-> request[a].kind, rule |-> request[a].rule]
BY DEF RestType, Request

LEMMA StoreRuleEffect ==
    ASSUME TableType, RestType, NEW a \in Admins, NEW r \in Rules, NEW p \in Rule, StoreRule(a, r, p)
    PROVE  RequestEffect
<1>1. rules' \in [Rules -> Rule \cup {NoRow}]
  BY DEF StoreRule, TableType
<1>2. UNCHANGED <<alerts, lastRule, requestRest>>
  BY DEF StoreRule
<1>3. request' \in [Admins -> Request]
  <2>1. PICK q \in Request : request' = [request EXCEPT ![a] = q]
    BY RequestTypes DEF StoreRule
  <2> QED
    BY <2>1 DEF RestType
<1> QED
  BY <1>1, <1>2, <1>3, SameAlerts DEF RequestEffect, TableType, requestRest

LEMMA AdminEffect == ASSUME TableType, RestType, AdminStep PROVE RequestEffect \/ (UNCHANGED <<dbVars, worldVars, engineVars>> /\ RestType')
<1> SUFFICES ASSUME ~(UNCHANGED <<dbVars, worldVars, engineVars>> /\ RestType') PROVE RequestEffect
  OBVIOUS
<1>1. CASE \E p \in RulePlans : CreateRule(p)
  <2>1. PICK p \in Rule : CreateRule(p)
    BY <1>1, PlansAssumption
  <2>2. lastRule' \in Rules /\ lastRule' \in 0..MaxRules
    BY <2>1, BoundsAssumption DEF CreateRule, TableType, Rules
  <2>3. rules' \in [Rules -> Rule \cup {NoRow}]
    BY <2>1, <2>2 DEF CreateRule, TableType
  <2>4. UNCHANGED <<alerts, request, requestRest>>
    BY <2>1 DEF CreateRule
  <2> QED
    BY <2>2, <2>3, <2>4, SameAlerts DEF RequestEffect, TableType, RestType, requestRest
<1>2. CASE \E a \in Admins, r \in Rules, p \in RulePlans : UpdateRule(a, r, p)
  BY <1>2, StoreRuleEffect, PlansAssumption DEF UpdateRule
<1>3. CASE \E a \in Admins, r \in Rules, enabled \in BOOLEAN : BeginToggle(a, r, enabled)
  <2>1. PICK a \in Admins, r \in Rules, enabled \in BOOLEAN : BeginToggle(a, r, enabled)
    BY <1>3
  <2>2. PICK old \in Rule : old = rules[r]
    BY <2>1 DEF BeginToggle, TableType
  <2>3. PICK p \in Rule : p = [old EXCEPT !.enabled = enabled]
    BY DEF Rule
  <2>4. request' = [request EXCEPT ![a] = [kind |-> "toggle", rule |-> r, row |-> p]]
    BY <2>1, <2>2, <2>3 DEF BeginToggle
  <2>5. PICK q \in Request : request' = [request EXCEPT ![a] = q]
    BY <2>4, RequestTypes
  <2>6. UNCHANGED <<rules, alerts, lastRule, requestRest>>
    BY <2>1 DEF BeginToggle
  <2> QED
    BY <2>5, <2>6, SameAlerts DEF RequestEffect, TableType, RestType, requestRest
<1>4. CASE \E a \in Admins, r \in Rules : BeginDelete(a, r)
  <2>1. PICK a \in Admins, r \in Rules : BeginDelete(a, r)
    BY <1>4
  <2>2. PICK q \in Request : request' = [request EXCEPT ![a] = q]
    BY <2>1, RequestTypes DEF BeginDelete
  <2>3. UNCHANGED <<rules, alerts, lastRule, requestRest>>
    BY <2>1 DEF BeginDelete
  <2> QED
    BY <2>2, <2>3, SameAlerts DEF RequestEffect, TableType, RestType, requestRest
<1>5. CASE \E a \in Admins : Toggle(a)
  <2>1. PICK a \in Admins : Toggle(a)
    BY <1>5
  <2>2. request[a].rule \in Rules /\ request[a].row \in Rule
    BY <2>1, RequestParts DEF Toggle
  <2> QED
    BY <2>1, <2>2, StoreRuleEffect DEF Toggle
<1>6. CASE \E a \in Admins : ResolveOfRule(a)
  <2>1. PICK a \in Admins : ResolveOfRule(a)
    BY <1>6
  <2>2. PICK r \in Rules : r = request[a].rule
    BY <2>1, RequestParts DEF ResolveOfRule
  <2>3. OfRule(r) \in SUBSET Alerts /\ alerts' = Resolved(OfRule(r))
    BY <2>1, <2>2 DEF OfRule, ResolveOfRule
  <2>4. OnlyFewer /\ alerts' \in [Alerts -> Alert \cup {NoRow}]
    BY <2>3, ResolvedFewer
  <2>5. PICK q \in Request : request' = [request EXCEPT ![a] = q]
    <3>1. CASE request[a].kind = "resolve"
      <4>1. request' = [request EXCEPT ![a] = NoRequest]
        BY <2>1, <3>1 DEF ResolveOfRule
      <4> QED
        BY <4>1, RequestTypes
    <3>2. CASE request[a].kind = "delete"
      <4>1. request[a] = [kind |-> "delete", rule |-> r]
        BY <2>1, <2>2, <3>2, RequestParts DEF ResolveOfRule
      <4>2. [request[a] EXCEPT !.kind = "drop"] = [kind |-> "drop", rule |-> r]
        BY <4>1
      <4>3. request' = [request EXCEPT ![a] = [request[a] EXCEPT !.kind = "drop"]]
        BY <2>1, <3>2 DEF ResolveOfRule
      <4> QED
        BY <4>2, <4>3, RequestTypes
    <3> QED
      BY <2>1, <3>1, <3>2 DEF ResolveOfRule
  <2>6. UNCHANGED <<rules, lastRule, requestRest>>
    BY <2>1 DEF ResolveOfRule
  <2> QED
    BY <2>4, <2>5, <2>6 DEF RequestEffect, TableType, RestType, requestRest
<1>7. CASE \E a \in Admins : DropRule(a)
  <2>1. PICK a \in Admins : DropRule(a)
    BY <1>7
  <2>2. PICK r \in Rules : r = request[a].rule
    BY <2>1, RequestParts DEF DropRule
  <2>3. rules' \in [Rules -> Rule \cup {NoRow}] /\ UNCHANGED <<lastRule, requestRest>>
    BY <2>1, <2>2 DEF DropRule, TableType
  <2>4. alerts' = [h \in Alerts |-> IF h \in OfRule(r) THEN NoRow ELSE alerts[h]]
    BY <2>1, <2>2 DEF DropRule
  <2>5. OnlyFewer /\ alerts' \in [Alerts -> Alert \cup {NoRow}]
    BY <2>4 DEF OnlyFewer, TableType
  <2>6. request' \in [Admins -> Request]
    BY <2>1, RequestTypes DEF DropRule, RestType
  <2> QED
    BY <2>3, <2>5, <2>6 DEF RequestEffect, TableType, requestRest
<1>8. CASE \E a \in Admins : RequestFails(a)
  <2>1. PICK a \in Admins : RequestFails(a)
    BY <1>8
  <2>2. UNCHANGED <<dbVars, worldVars, engineVars>>
    BY <2>1 DEF RequestFails
  <2>3. request' \in [Admins -> Request] /\ faults' \in 0..MaxFaults
    BY <2>1, RequestTypes, BoundsAssumption DEF RequestFails, RestType
  <2>4. RestType'
    BY <2>2, <2>3 DEF RestType, worldVars, engineVars
  <2> QED
    BY <2>2, <2>4
<1>9. CASE ListHistory
  <2>1. OfDisabledRules \in SUBSET Alerts
    BY DEF OfDisabledRules, OfRule
  <2>2. OnlyFewer /\ alerts' \in [Alerts -> Alert \cup {NoRow}]
    BY <1>9, <2>1, ResolvedFewer DEF ListHistory
  <2> QED
    BY <1>9, <2>2 DEF ListHistory, RequestEffect, TableType, RestType, requestRest
<1>10. CASE \E h \in Alerts : ResolveByHand(h)
  <2>1. PICK h \in Alerts : ResolveByHand(h)
    BY <1>10
  <2>2. OnlyFewer /\ alerts' \in [Alerts -> Alert \cup {NoRow}]
    BY <2>1, ResolvedFewer DEF ResolveByHand
  <2> QED
    BY <2>1, <2>2 DEF ResolveByHand, RequestEffect, TableType, RestType, requestRest
<1>11. CASE \E hs \in SUBSET Alerts : DeleteResolved(hs)
  <2>1. PICK hs \in SUBSET Alerts : DeleteResolved(hs)
    BY <1>11
  <2>2. OnlyFewer /\ alerts' \in [Alerts -> Alert \cup {NoRow}]
    BY <2>1 DEF DeleteResolved, OnlyFewer, TableType
  <2> QED
    BY <2>1, <2>2 DEF DeleteResolved, RequestEffect, TableType, RestType, requestRest
<1> QED
  BY <1>1, <1>2, <1>3, <1>4, <1>5, <1>6, <1>7, <1>8, <1>9, <1>10, <1>11 DEF AdminStep, RequestStep

-----------------------------------------------------------------------------
(* The theorems                                                            *)

\* Nothing has been written, checked or told.
LEMMA InitAlertingInv == Init => RestType /\ CheckInv
<1> SUFFICES ASSUME Init PROVE RestType /\ CheckInv
  OBVIOUS
<1>1. TableType
  BY BoundsAssumption DEF Init, TableType
<1>8. request \in [Admins -> Request]
  <2>1. NoRequest \in Request
    BY DEF Request
  <2>2. request = [a \in Admins |-> NoRequest]
    BY DEF Init
  <2> QED
    BY <2>1, <2>2
<1>9. RestType
  <2>1. registered = Nodes /\ metric = [n \in Nodes |-> NoMetric] /\ now = 0 /\ faults = 0
    BY DEF Init
  <2>2. up = FALSE /\ loaded = TRUE
    BY DEF Init
  <2>3. up \in BOOLEAN /\ loaded \in BOOLEAN
    BY <2>2
  <2> QED
    BY <1>8, <2>1, <2>3, BoundsAssumption DEF RestType
<1>2. CheckType /\ check.stage = "idle"
  <2>1. /\ Idle.stage = "idle" /\ Idle.todo = {}
        /\ Idle \in [stage : Stages, listed : [Rules -> Rule \cup {NoRow}], todo : SUBSET Keys,
                      key : Keys \cup {NoState}, alert : Alerts \cup {NoAlert}, ok : BOOLEAN]
    BY DEF Idle, Stages
  <2> QED
    BY <2>1 DEF Init, CheckType, OfAlert, Holding, Ending
<1>3. \A k \in Keys : ~Triggered(k)
  BY DEF Init, NoStates, Triggered
<1>4. \A h \in Alerts : ~Active(h)
  BY DEF Init, Active
<1>5. EngineInv
  BY <1>2, <1>3 DEF Init, EngineInv, StatesType, StageMeans, StatesOwn, NoStates, Raising, Ending
<1>6. AlertInv
  BY <1>2, <1>4 DEF Init, AlertInv, EndedIsResolved, OneActive, ActiveIsTracked, FreshAlerts
<1>7. ToldInv
  BY <1>2, <1>3, <1>4 DEF Init, ToldInv, ToldType, ToldOnce
<1> QED
  BY <1>1, <1>5, <1>6, <1>7, <1>9 DEF CheckInv

LEMMA CheckStepInv == ASSUME CheckInv, RestType, CheckStep PROVE RestType' /\ CheckInv'
<1>1. now \in 0..MaxTime
  BY DEF RestType
<1>2. CheckInv'
  BY <1>1, BeginCheckInv, SyncInv, ListRulesInv, EvaluatePairInv, CreateAlertInv, NotifyTriggeredInv,
     PersistTriggeredInv, LoadAlertInv, ResolveAlertInv, NotifyRecoveredInv, PersistRecoveredInv,
     CheckFailsInv DEF CheckStep
<1>3. UNCHANGED <<worldVars, up, loaded, request>>
  BY DEF CheckStep, BeginCheck, Sync, ListRules, EvaluatePair, CreateAlert, NotifyTriggered, Deliver,
         PersistTriggered, LoadAlert, ResolveAlert, NotifyRecovered, PersistRecovered, CheckFails,
         engineRest
<1>4. faults' = faults \/ (faults < MaxFaults /\ faults' = faults + 1)
  BY DEF CheckStep, BeginCheck, Sync, ListRules, EvaluatePair, CreateAlert, NotifyTriggered, Deliver,
         PersistTriggered, LoadAlert, ResolveAlert, NotifyRecovered, PersistRecovered, CheckFails,
         engineRest
<1>5. RestType'
  BY <1>3, <1>4, BoundsAssumption DEF RestType, worldVars
<1> QED
  BY <1>2, <1>5

LEMMA StepAlertingInv == RestType /\ CheckInv /\ [Next]_vars => RestType' /\ CheckInv'
<1> SUFFICES ASSUME RestType, CheckInv, [Next]_vars PROVE RestType' /\ CheckInv'
  OBVIOUS
<1>1. CASE \E ok \in BOOLEAN : Boot(ok)
  <2>1. PICK ok \in BOOLEAN : Boot(ok)
    BY <1>1
  <2>2. /\ UNCHANGED <<worldVars, request>> /\ up' = TRUE /\ loaded' = (loaded /\ ok)
        /\ faults' \in 0..MaxFaults
    BY <2>1, BoundsAssumption DEF Boot, RestType
  <2>3. RestType'
    BY <2>2 DEF RestType, worldVars
  <2> QED
    BY <2>1, <2>3, BootInv
<1>2. CASE Crash
  <2>1. request' \in [Admins -> Request]
    BY <1>2, RequestTypes DEF Crash
  <2>2. faults' \in 0..MaxFaults
    BY <1>2, BoundsAssumption DEF Crash, RestType
  <2>3. UNCHANGED <<worldVars, loaded>> /\ up' = FALSE
    BY <1>2 DEF Crash
  <2>4. RestType'
    BY <2>1, <2>2, <2>3 DEF RestType, worldVars
  <2> QED
    BY <1>2, <2>4, CrashInv
<1>3. CASE CheckStep
  BY <1>3, CheckStepInv
<1>4. ASSUME OnlyFewer, TableType', UNCHANGED <<lastAlert, engineVars>> PROVE CheckInv'
  BY <1>4, OtherSteps DEF CheckInv, engineVars
<1>5. CASE AdminStep
  <2>1. CASE RequestEffect
    <3>1. RestType'
      BY <2>1 DEF RequestEffect, requestRest, worldVars, engineVars, RestType
    <3> QED
      BY <1>4, <2>1, <3>1 DEF RequestEffect, requestRest
  <2>2. CASE UNCHANGED <<dbVars, worldVars, engineVars>> /\ RestType'
    BY <1>4, <2>2, SameAlerts DEF dbVars, CheckInv, TableType
  <2> QED
    BY <1>5, <2>1, <2>2, AdminEffect DEF CheckInv
<1>6. CASE \/ \E n \in Nodes, level \in Levels : ReportMetric(n, level)
           \/ \E n \in Nodes : DeleteNode(n) \/ ExpireMetric(n) \/ RegisterNode(n)
           \/ Tick
  <2>1. UNCHANGED worldRest
    BY <1>6 DEF ReportMetric, DeleteNode, ExpireMetric, RegisterNode, Tick
  <2>2. /\ registered' \subseteq Nodes /\ metric' \in [Nodes -> Levels \cup {NoMetric}]
        /\ now' \in 0..MaxTime
    BY <1>6, BoundsAssumption DEF ReportMetric, DeleteNode, ExpireMetric, RegisterNode, Tick, RestType
  <2>3. RestType'
    BY <2>1, <2>2 DEF worldRest, engineVars, RestType
  <2> QED
    BY <1>4, <2>1, <2>3, SameAlerts DEF worldRest, dbVars, CheckInv, TableType
<1>7. CASE UNCHANGED vars
  <2>1. RestType'
    BY <1>7 DEF vars, worldVars, engineVars, RestType
  <2> QED
    BY <1>4, <1>7, <2>1, SameAlerts DEF vars, dbVars, CheckInv, TableType
<1> QED
  BY <1>1, <1>2, <1>3, <1>5, <1>6, <1>7 DEF Next

LEMMA AlertingTypes == RestType /\ CheckInv => TypeOK
BY DEF CheckInv, TableType, RestType, EngineInv, CheckType, StatesType, ToldInv, ToldType, TypeOK,
       OfAlert, Holding, Ending

\* Across crashes, restarts, failing statements and the requests of administrators a rule has
\* at most one active alert on a node, and the running engine knows it (engine.go:62-89).
THEOREM OneActiveAlertCorrect == Spec => []OneActiveAlert
<1>1. RestType /\ CheckInv => OneActiveAlert
  BY AlertingTypes DEF CheckInv, AlertInv, OneActive, OneActiveAlert
<1> QED
  BY <1>1, InitAlertingInv, StepAlertingInv, PTL DEF Spec

\* The channels hear at most once that an alert was triggered and at most once that it
\* recovered, and what the history says was sent, was (engine.go:180-300).
THEOREM ToldOnceCorrect == Spec => []ToldOnce
<1>1. RestType /\ CheckInv => ToldOnce
  BY DEF CheckInv, ToldInv
<1> QED
  BY <1>1, InitAlertingInv, StepAlertingInv, PTL DEF Spec
=============================================================================
