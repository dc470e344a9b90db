------------------------------- MODULE Uptime -------------------------------
(***************************************************************************)
(* Uptime monitors: the tables of internal/server/store/uptime.go, the     *)
(* engine of internal/server/uptime/engine.go that probes due monitors in  *)
(* sweeps and on request, and the administrator requests of                *)
(* internal/server/api/uptime.go.                                          *)
(*                                                                         *)
(* A job is a goroutine of the sweep or a request: while it works on a     *)
(* monitor it holds the monitor's entry in Engine.active, and while it     *)
(* probes a place in Engine.semaphore.  A step is one transaction, one     *)
(* query, one probe or one round of deliveries.  What an edit can change   *)
(* materially (target, interval, threshold, ...) is the monitor's plan.    *)
(*                                                                         *)
(* A definition marked "deviation" is not the code: it is a mistake the    *)
(* next definition could have contained, which a property must detect.     *)
(***************************************************************************)
EXTENDS Naturals, FiniteSets, Sequences

CONSTANTS
    Plans,          \* what an administrator may submit in an edit
    Created,        \* the monitors this instance creates
    Outcomes,       \* what a probe may find
    Callers,        \* concurrent requests
    Edits,          \* the requests of this instance
    Targets,        \* the monitors they are about
    MaxConcurrent,  \* capacity of Engine.semaphore
    MaxMonitors,    \* bound: uptime_monitors rows ever inserted
    MaxIncidents,   \* bound: uptime_incidents rows ever inserted
    MaxTime,        \* bound: the clock
    MaxRequests,    \* bound: requests ever made
    MaxFaults,      \* bound: failing statements, callers that give up, crashes
    Null, NoRow

Monitors  == 1..MaxMonitors       \* AUTOINCREMENT ids: never used twice
Incidents == 1..MaxIncidents
Kinds     == {"availability", "certificate"}

Monitor  == [plan : Plans, enabled : BOOLEAN, status : {"pending", "up", "warning", "down"},
             failures : Nat, checked : 0..MaxTime \cup {Null}]
Incident == [monitor : Monitors, kind : Kinds, active : BOOLEAN]
Notice   == [incident : Incidents, what : {"trigger", "recovery"}]

\* The goroutines of a sweep, one per monitor, and the requests
Sweepers == Monitors \X {"sweep"}
Jobs     == Sweepers \cup ({0} \X Callers)

ASSUME BoundsAssumption ==
    /\ MaxMonitors \in Nat /\ MaxIncidents \in Nat /\ MaxTime \in Nat
    /\ MaxRequests \in Nat /\ MaxFaults \in Nat /\ MaxConcurrent \in Nat \ {0}
ASSUME PlansAssumption == \A p \in Plans : p.interval \in Nat /\ p.threshold \in Nat \ {0}
ASSUME CreatedAssumption == Created \subseteq [plan : Plans, enabled : BOOLEAN]
ASSUME OutcomesAssumption ==
    Outcomes \subseteq {"up", "secure", "expiring", "down"} /\ Outcomes \cap {"up", "secure"} # {}
ASSUME CallersAssumption ==
    IsFiniteSet(Callers) /\ "sweep" \notin Callers /\ Null \notin Plans
ASSUME NoRowAssumption == NoRow \notin Monitor \cup Incident

VARIABLES
    monitors,      \* uptime_monitors: id -> row
    incidents,     \* uptime_incidents: id -> row
    latest,        \* the newest uptime_results row of each monitor
    lastMonitor, lastIncident,  \* AUTOINCREMENT counters
    up,            \* the Server process runs
    due,           \* monitors the sweep found due and has not turned to
    active,        \* Engine.active
    slots,         \* places taken in Engine.semaphore
    job,           \* what every goroutine and request is doing
    told,          \* history: rounds of deliveries sent of each notice
    about,         \* history: the plan under which each incident was opened
    now, requests, faults

dbVars     == <<monitors, incidents, latest, lastMonitor, lastIncident, about>>
engineVars == <<active, slots, job>>
vars == <<dbVars, up, due, engineVars, told, now, requests, faults>>

NoJob == [op |-> "none", stage |-> "none", monitor |-> 0, plan |-> Null, enabled |-> Null,
          outcome |-> "none", at |-> 0, queue |-> <<>>, cancelled |-> FALSE]

Init ==
    /\ monitors = [m \in Monitors |-> NoRow]
    /\ incidents = [i \in Incidents |-> NoRow]
    /\ latest = [m \in Monitors |-> "none"]
    /\ lastMonitor = 0 /\ lastIncident = 0
    /\ up = TRUE
    /\ due = {} /\ active = {} /\ slots = 0
    /\ job = [j \in Jobs |-> NoJob]
    /\ told = [n \in Notice |-> 0]
    /\ about = [i \in Incidents |-> Null]
    /\ now = 0 /\ requests = 0 /\ faults = 0

-----------------------------------------------------------------------------
(* The monitor's entry in Engine.active and the place in the semaphore *)

IsFree(m) == m \notin active

Unguarded(m) == TRUE                                 \* deviation
MayMutate(m) == IsFree(m)                            \* BeginMonitorMutation

Start(j, m, record) ==
    /\ job[j] = NoJob
    /\ active' = active \cup {m}
    /\ job' = [job EXCEPT ![j] = record]
    /\ UNCHANGED slots

HasSlot(j) == \/ job[j].stage \in {"probe", "apply", "read", "tell", "persist"}
              \/ job[j].op = "sweep" /\ job[j].stage = "load"

\* The deferred releases of a job that returns
KeepEntry(j) == IF job[j].stage = "load" THEN active ELSE active \ {job[j].monitor}  \* deviation
Entries(j)   == active \ {job[j].monitor}

End(j) ==
    /\ job' = [job EXCEPT ![j] = NoJob]
    /\ active' = Entries(j)
    /\ slots' = IF HasSlot(j) THEN slots - 1 ELSE slots

Goto(j, stage) ==
    /\ job' = [job EXCEPT ![j].stage = stage]
    /\ UNCHANGED <<active, slots>>

\* A statement fails, or is not even sent because the caller has given up.
Fault == faults < MaxFaults /\ faults' = faults + 1

GivesUp(j) == IF job[j].cancelled THEN UNCHANGED faults ELSE Fault

-----------------------------------------------------------------------------
(* Sweep and CheckNow *)

IsDue(m, t) ==
    /\ monitors[m] # NoRow /\ monitors[m].enabled
    /\ monitors[m].checked # Null => t >= monitors[m].checked + monitors[m].plan.interval

Check(op, m, stage) == [NoJob EXCEPT !.op = op, !.monitor = m, !.stage = stage]

Sweeping == due # {} \/ \E j \in Sweepers : job[j] # NoJob

BeginSweep ==
    /\ up /\ ~Sweeping
    /\ due' = {m \in Monitors : IsDue(m, now)}
    /\ due' # {}
    /\ UNCHANGED <<dbVars, up, engineVars, told, now, requests, faults>>

\* A monitor that somebody works on waits for a later sweep.
SweepTakes(m) ==
    /\ m \in due /\ \A n \in due : m <= n
    /\ due' = due \ {m}
    /\ IF IsFree(m) THEN Start(<<m, "sweep">>, m, Check("sweep", m, "slot"))
                    ELSE UNCHANGED engineVars
    /\ UNCHANGED <<dbVars, up, told, now, requests, faults>>

CheckNow(c, m) ==
    /\ "check" \in Edits
    /\ up /\ requests < MaxRequests /\ m \in Targets \cap 1..lastMonitor
    /\ IsFree(m)
    /\ Start(<<0, c>>, m, Check("now", m, "load"))
    /\ requests' = requests + 1
    /\ UNCHANGED <<dbVars, up, due, told, now, faults>>

AcquireSlot(j) ==
    /\ job[j].stage = "slot"
    /\ slots < MaxConcurrent
    /\ slots' = slots + 1
    /\ job' = [job EXCEPT ![j].stage = IF job[j].op = "sweep" THEN "load" ELSE "probe"]
    /\ UNCHANGED <<active, dbVars, up, due, told, now, requests, faults>>

AbandonSlot(j) ==
    /\ job[j].stage = "slot" /\ job[j].cancelled
    /\ End(j)
    /\ UNCHANGED <<dbVars, up, due, told, now, requests, faults>>

StillDue(m)   == IsDue(m, now)

MayCheck(j) ==
    LET m == job[j].monitor
    IN  IF job[j].op = "sweep" THEN StillDue(m)
        ELSE monitors[m] # NoRow /\ monitors[m].enabled

Load(j) ==
    /\ job[j].stage = "load"
    /\ \/ /\ MayCheck(j)
          /\ job' = [job EXCEPT ![j].stage = IF job[j].op = "sweep" THEN "probe" ELSE "slot",
                                ![j].plan = monitors[job[j].monitor].plan]
          /\ UNCHANGED <<active, slots, faults>>
       \/ ~MayCheck(j) /\ End(j) /\ UNCHANGED faults
       \/ End(j) /\ GivesUp(j)
    /\ UNCHANGED <<dbVars, up, due, told, now, requests>>

\* Bound: when the ids of incidents may run out, probes succeed.
Found == IF lastIncident + Cardinality({j \in Jobs : job[j].stage = "apply"}) < MaxIncidents
         THEN Outcomes ELSE Outcomes \ {"down", "expiring"}

\* The probe of a caller that gave up finds a failure.
Probe(j) ==
    /\ job[j].stage = "probe"
    /\ \E o \in IF job[j].cancelled THEN {"down"} ELSE Found :
          job' = [job EXCEPT ![j].stage = "apply", ![j].outcome = o, ![j].at = now]
    /\ UNCHANGED <<active, slots, dbVars, up, due, told, now, requests, faults>>

-----------------------------------------------------------------------------
(* ApplyProbe: one transaction *)

ActiveOf(m, kind) == {i \in Incidents :
    incidents[i] # NoRow /\ incidents[i].active /\ incidents[i].monitor = m /\ incidents[i].kind = kind}

Status(outcome) ==
    CASE outcome = "down" -> "down" [] outcome = "expiring" -> "warning" [] OTHER -> "up"

Failures(m, outcome) == IF outcome = "down" THEN monitors[m].failures + 1 ELSE 0

\* The kinds of incident the outcome opens and those it closes
Opens(m, outcome) ==
    {k \in Kinds : /\ ActiveOf(m, k) = {}
                   /\ IF k = "availability"
                      THEN outcome = "down" /\ Failures(m, outcome) >= monitors[m].plan.threshold
                      ELSE outcome = "expiring"}

ClosedBy(m, outcome) ==
    (IF outcome # "down" THEN ActiveOf(m, "availability") ELSE {})
    \cup (IF outcome = "secure" THEN ActiveOf(m, "certificate") ELSE {})

Trigger(i)  == [incident |-> i, what |-> "trigger"]
Recovery(i) == [incident |-> i, what |-> "recovery"]

\* Availability is handled before certificates.
Recoveries(hs) ==
    LET Of(k) == LET S == {i \in hs : incidents[i].kind = k}
                    IN  IF S = {} THEN <<>>
                        ELSE <<Recovery(CHOOSE i \in S : TRUE)>>
    IN  Of("availability") \o Of("certificate")

ApplyProbe(m, outcome, at) ==
    LET opens  == Opens(m, outcome)
        new    == lastIncident + 1
    IN  /\ monitors' = [monitors EXCEPT ![m].status = Status(outcome),
                                        ![m].failures = Failures(m, outcome),
                                        ![m].checked = at]
        /\ latest' = [latest EXCEPT ![m] = outcome]
        /\ lastIncident' = IF opens = {} THEN lastIncident ELSE new
        /\ incidents' = [i \in Incidents |->
              IF i \in ClosedBy(m, outcome) THEN [incidents[i] EXCEPT !.active = FALSE]
              ELSE IF opens # {} /\ i = new
                   THEN [monitor |-> m, kind |-> CHOOSE k \in opens : TRUE, active |-> TRUE]
                   ELSE incidents[i]]
        /\ about' = [i \in Incidents |-> IF opens # {} /\ i = new THEN monitors[m].plan ELSE about[i]]
        /\ UNCHANGED lastMonitor

Transitions(m, outcome) ==
    (IF Opens(m, outcome) = {} THEN <<>>
     ELSE <<Trigger(lastIncident + 1)>>)
    \o Recoveries(ClosedBy(m, outcome))

Apply(j) ==
    LET m == job[j].monitor
        gone == monitors[m] = NoRow
    IN  /\ job[j].stage = "apply"
        /\ \/ /\ ~gone /\ ~job[j].cancelled
              /\ ApplyProbe(m, job[j].outcome, job[j].at)
              /\ job' = [job EXCEPT ![j] = [Check(job[j].op, m, "read") EXCEPT
                                               !.queue = Transitions(m, job[j].outcome)]]
              /\ UNCHANGED <<active, slots, faults>>
           \/ End(j) /\ (IF gone THEN UNCHANGED faults ELSE GivesUp(j)) /\ UNCHANGED dbVars
        /\ UNCHANGED <<up, due, told, now, requests>>

\* The monitor is read once more for the notification.  An error here drops the
\* transitions that were just committed.
ReadBack(j) ==
    /\ job[j].stage = "read"
    /\ \/ /\ ~job[j].cancelled /\ monitors[job[j].monitor] # NoRow /\ job[j].queue # <<>>
          /\ Goto(j, "tell") /\ UNCHANGED faults
       \/ /\ monitors[job[j].monitor] = NoRow \/ job[j].queue = <<>>
          /\ End(j) /\ UNCHANGED faults
       \/ End(j) /\ GivesUp(j)
    /\ UNCHANGED <<dbVars, up, due, told, now, requests>>

\* deliverTransitions, under a context the caller cannot cancel
Tell(j) ==
    /\ job[j].stage = "tell"
    /\ told' = [told EXCEPT ![Head(job[j].queue)] = @ + 1]
    /\ Goto(j, "persist")
    /\ UNCHANGED <<dbVars, up, due, now, requests, faults>>

Persist(j) ==
    /\ job[j].stage = "persist"
    /\ \/ /\ Len(job[j].queue) > 1
          /\ job' = [job EXCEPT ![j].stage = "tell", ![j].queue = Tail(@)]
          /\ UNCHANGED <<active, slots, faults>>
       \/ Len(job[j].queue) = 1 /\ End(j) /\ UNCHANGED faults
       \/ End(j) /\ Fault
    /\ UNCHANGED <<dbVars, up, due, told, now, requests>>

-----------------------------------------------------------------------------
(* Administrator requests *)

Resolved(m) == [i \in Incidents |->
    IF incidents[i] # NoRow /\ incidents[i].monitor = m
    THEN [incidents[i] EXCEPT !.active = FALSE] ELSE incidents[i]]

CreateMonitor(new) ==
    /\ up /\ lastMonitor < MaxMonitors
    /\ lastMonitor' = lastMonitor + 1
    /\ monitors' = [monitors EXCEPT ![lastMonitor'] =
                      [plan |-> new.plan, enabled |-> new.enabled, status |-> "pending", failures |-> 0, checked |-> Null]]
    /\ UNCHANGED <<incidents, latest, lastIncident, about, up, due, engineVars, told, now, requests, faults>>

BeginMutation(c, m, record) ==
    /\ up /\ requests < MaxRequests /\ m \in Targets \cap 1..lastMonitor
    /\ MayMutate(m)
    /\ Start(<<0, c>>, m, record)
    /\ requests' = requests + 1
    /\ UNCHANGED <<dbVars, up, due, told, now, faults>>

\* enabled is Null in a PUT that does not mention it.
BeginPut(c, m, p, enabled) ==
    /\ "put" \in Edits
    /\ BeginMutation(c, m, [NoJob EXCEPT !.op = "put", !.stage = "update", !.monitor = m,
                                         !.plan = p, !.enabled = enabled])

BeginToggle(c, m, enabled) ==
    /\ "toggle" \in Edits
    /\ BeginMutation(c, m, [NoJob EXCEPT !.op = "toggle", !.stage = "enable", !.monitor = m,
                                         !.enabled = enabled])

BeginDelete(c, m) ==
    /\ "delete" \in Edits
    /\ BeginMutation(c, m, [NoJob EXCEPT !.op = "delete", !.stage = "delete", !.monitor = m])

KeepIncidents(m) == incidents                        \* deviation
ResolvedByEdit(m) == Resolved(m)

\* UpdateMonitor.  Its reading and its transaction are one step, because nobody
\* else writes what it compares without the entry in Engine.active.
Update(j) ==
    LET m == job[j].monitor
        p == job[j].plan
    IN  /\ job[j].stage = "update" /\ monitors[m] # NoRow
        /\ IF monitors[m].plan = p THEN UNCHANGED <<monitors, incidents>>
           ELSE /\ monitors' = [monitors EXCEPT ![m] = [@ EXCEPT !.plan = p, !.status = "pending",
                                                               !.failures = 0, !.checked = Null]]
                /\ incidents' = ResolvedByEdit(m)
        /\ IF job[j].enabled \in {Null, monitors[m].enabled} THEN End(j) ELSE Goto(j, "enable")
        /\ UNCHANGED <<latest, lastMonitor, lastIncident, about, up, due, told, now, requests, faults>>

SetEnabled(j) ==
    LET m == job[j].monitor
    IN  /\ job[j].stage = "enable" /\ monitors[m] # NoRow
        /\ IF job[j].enabled
           THEN /\ monitors' = [monitors EXCEPT ![m] = [@ EXCEPT !.enabled = TRUE, !.status = "pending",
                                                               !.failures = 0, !.checked = Null]]
                /\ UNCHANGED incidents
           ELSE /\ monitors' = [monitors EXCEPT ![m].enabled = FALSE]
                /\ incidents' = Resolved(m)
        /\ End(j)
        /\ UNCHANGED <<latest, lastMonitor, lastIncident, about, up, due, told, now, requests, faults>>

\* ON DELETE CASCADE takes the monitor's results and incidents with it.
Delete(j) ==
    LET m == job[j].monitor
    IN  /\ job[j].stage = "delete"
        /\ monitors' = [monitors EXCEPT ![m] = NoRow]
        /\ incidents' = [i \in Incidents |->
              IF incidents[i] # NoRow /\ incidents[i].monitor = m THEN NoRow ELSE incidents[i]]
        /\ latest' = [latest EXCEPT ![m] = "none"]
        /\ End(j)
        /\ UNCHANGED <<lastMonitor, lastIncident, about, up, due, told, now, requests, faults>>

MutationFails(j) ==
    /\ job[j].stage \in {"update", "enable", "delete"}
    /\ \/ job[j].stage # "delete" /\ monitors[job[j].monitor] = NoRow /\ UNCHANGED faults
       \/ Fault
    /\ End(j)
    /\ UNCHANGED <<dbVars, up, due, told, now, requests>>

\* The caller of CheckNow closes its connection.
GiveUp(j) ==
    /\ job[j].op = "now" /\ job[j].stage \in {"load", "slot", "probe", "apply", "read"}
    /\ ~job[j].cancelled
    /\ Fault
    /\ job' = [job EXCEPT ![j].cancelled = TRUE]
    /\ UNCHANGED <<active, slots, dbVars, up, due, told, now, requests>>

-----------------------------------------------------------------------------
(* The process and the clock *)

Crash ==
    /\ up /\ Fault
    /\ up' = FALSE
    /\ due' = {} /\ active' = {} /\ slots' = 0
    /\ job' = [j \in Jobs |-> NoJob]
    /\ UNCHANGED <<dbVars, told, now, requests>>

Restart ==
    /\ ~up /\ up' = TRUE
    /\ UNCHANGED <<dbVars, due, engineVars, told, now, requests, faults>>

Tick ==
    /\ now < MaxTime /\ now' = now + 1
    /\ UNCHANGED <<dbVars, up, due, engineVars, told, requests, faults>>

Work(j) ==
    \/ AcquireSlot(j) \/ AbandonSlot(j) \/ Load(j) \/ Probe(j) \/ Apply(j) \/ ReadBack(j)
    \/ Tell(j) \/ Persist(j) \/ Update(j) \/ SetEnabled(j) \/ Delete(j) \/ MutationFails(j)

Ask ==
    \/ \E new \in Created : CreateMonitor(new)
    \/ \E c \in Callers, m \in Monitors :
         \/ CheckNow(c, m) \/ BeginDelete(c, m)
         \/ \E enabled \in BOOLEAN : BeginToggle(c, m, enabled)
         \/ \E p \in Plans, enabled \in BOOLEAN \cup {Null} : BeginPut(c, m, p, enabled)

Next ==
    \/ BeginSweep \/ \E m \in Monitors : SweepTakes(m)
    \/ \E j \in Jobs : Work(j) \/ GiveUp(j)
    \/ Ask \/ Crash \/ Restart \/ Tick

Spec == Init /\ [][Next]_vars

\* The sweep's loop and the goroutines run, probes and deliveries have deadlines,
\* and the process is started again.  Nobody need ask for anything.
Fairness ==
    /\ WF_vars(BeginSweep) /\ WF_vars(Restart)
    /\ WF_vars(\E m \in Monitors : SweepTakes(m))
    /\ \A j \in Jobs : WF_vars(Work(j))

FairSpec == Spec /\ Fairness

-----------------------------------------------------------------------------
(* Properties *)

JobType ==
    [op : {"none", "sweep", "now", "put", "toggle", "delete"},
     stage : {"none", "slot", "load", "probe", "apply", "read", "tell", "persist",
              "update", "enable", "delete"},
     monitor : Monitors \cup {0}, plan : Plans \cup {Null}, enabled : BOOLEAN \cup {Null},
     outcome : Outcomes \cup {"none", "down"}, at : 0..MaxTime,
     queue : Seq(Notice), cancelled : BOOLEAN]

\* Every variable has its type, and a job that works has a monitor.
TypeOK ==
    /\ monitors \in [Monitors -> Monitor \cup {NoRow}]
    /\ incidents \in [Incidents -> Incident \cup {NoRow}]
    /\ latest \in [Monitors -> Outcomes \cup {"none", "down"}]
    /\ lastMonitor \in 0..MaxMonitors /\ lastIncident \in 0..MaxIncidents
    /\ up \in BOOLEAN /\ due \subseteq Monitors /\ active \subseteq Monitors
    /\ slots \in 0..MaxConcurrent
    /\ job \in [Jobs -> JobType]
    /\ \A j \in Jobs : job[j] # NoJob => job[j].monitor \in Monitors
    /\ told \in [Notice -> Nat]
    /\ about \in [Incidents -> Plans \cup {Null}]
    /\ now \in 0..MaxTime /\ requests \in 0..MaxRequests /\ faults \in 0..MaxFaults

\* Engine.active and the semaphore hold exactly what the jobs at work have
\* taken, one job per monitor, whatever path they return by (engine.go:126).
EntriesExact ==
    /\ TypeOK
    /\ active = {job[j].monitor : j \in {i \in Jobs : job[i] # NoJob}}
    /\ \A i, j \in Jobs : job[i] # NoJob /\ job[i].monitor = job[j].monitor => i = j
    /\ slots = Cardinality({j \in Jobs : HasSlot(j)})

\* An open incident is one of the monitor as it is now: enabled, with the plan
\* the incident was opened under, and still failing if it is unavailable.
OpenIncidentIsCurrent ==
    \A i \in Incidents :
        incidents[i] # NoRow /\ incidents[i].active =>
            LET m == incidents[i].monitor
            IN  /\ monitors[m].enabled
                /\ monitors[m].plan = about[i]
                /\ incidents[i].kind = "availability" => latest[m] = "down"

\* CHANGELOG.md:413: one-time notifications.  No incident is told twice, and its
\* recovery is never told while its trigger still waits to be (engine.go:211).
ToldOnceInOrder ==
    /\ \A n \in Notice : told[n] <= 1
    /\ \A i \in Incidents : told[Recovery(i)] = 1 =>
           \A j \in Jobs : job[j].stage = "tell" => Head(job[j].queue) # Trigger(i)

\* A monitor does not stay due: some check stores its result, or it is disabled
\* or deleted, in spite of requests that hold its entry, crashes, failures and
\* the other monitors of the sweep (engine.go:110).
DueIsChecked == \A m \in Targets : IsDue(m, now) ~> ~IsDue(m, now)
=============================================================================
