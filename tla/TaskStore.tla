----------------------------- MODULE TaskStore -----------------------------
(***************************************************************************)
(* The automation tables of the Server database and the transactions of    *)
(* internal/server/store/tasks.go that change them.                        *)
(*                                                                         *)
(* SQLite runs with one open connection, so a transaction is one step.     *)
(* MySQL runs the same code on up to 25 connections under REPEATABLE READ: *)
(* there every transaction but CompleteRunTarget first takes a lock on the *)
(* row that orders it (scheduled_tasks FOR UPDATE, or the UPDATE of the    *)
(* claim), so those are one step too.  CompleteRunTarget begins with a     *)
(* plain SELECT and then reads the run's other targets from that snapshot; *)
(* its aggregate is therefore an operator of the targets the transaction   *)
(* SAW, which TaskEngine takes at commit (SQLite) or earlier (MySQL).      *)
(*                                                                         *)
(* A definition marked "deviation" is not the code: it is a mistake the    *)
(* next definition could have contained, which a property must detect.     *)
(***************************************************************************)
EXTENDS Naturals, FiniteSets

CONSTANTS
    MaxTasks,       \* bound: scheduled_tasks rows ever inserted
    MaxRuns,        \* bound: task_runs rows ever inserted
    Nodes,          \* the registered nodes
    Plans,          \* what an administrator may submit as a scheduled task
    NextRun(_, _),  \* first time after t matched by a cron expression (robfig/cron)
    MaxTime,        \* bound: the clock
    Null,           \* SQL NULL
    NoRow           \* no row with this id

Tasks  == 1..MaxTasks      \* AUTOINCREMENT ids: never used twice
RunIds == 1..MaxRuns

ActiveStatus   == {"queued", "running"}
TerminalTarget == {"success", "failed", "timed_out", "busy", "cancelled",
                   "offline", "unsupported", "skipped", "interrupted"}
TerminalRun    == {"success", "partial", "failed", "skipped", "interrupted"}
Policies       == {"never", "failure", "always"}

Plan == [type : {"cron", "once"}, cron : Nat, runAt : Nat,
         nodes : SUBSET Nodes, policy : Policies]

\* The times for which a run may be scheduled
DueTimes == {NextRun(p.cron, t) : p \in Plans, t \in 0..MaxTime} \cup {p.runAt : p \in Plans}

Task == [plan : Plans, enabled : BOOLEAN, next : DueTimes \cup {Null}]

\* completed_targets and success_targets are kept as the sets they count.
Run == [task : Tasks \cup {Null}, trigger : {"scheduled", "manual"},
        due : DueTimes \cup {Null}, policy : Policies,
        status : ActiveStatus \cup TerminalRun,
        completed : SUBSET Nodes, succeeded : SUBSET Nodes,
        created : Nat, notified : BOOLEAN]

ASSUME BoundsAssumption ==
    MaxTasks \in Nat /\ MaxRuns \in Nat /\ MaxTime \in Nat /\ IsFiniteSet(Nodes)
ASSUME PlansAssumption  == Plans \subseteq Plan /\ \A p \in Plans : p.nodes # {}
ASSUME NextRunAssumption ==
    \A p \in Plans, t \in 0..MaxTime : NextRun(p.cron, t) \in Nat /\ NextRun(p.cron, t) > t

ASSUME NullAssumption  == Null \notin Nat
ASSUME NoRowAssumption == NoRow \notin Run

VARIABLES
    tasks,      \* scheduled_tasks (with its scheduled_task_nodes): id -> row
    runs,       \* task_runs: id -> row
    targets,    \* task_run_targets.status: run id -> node -> status
    lastTask,   \* AUTOINCREMENT of scheduled_tasks
    lastRun     \* AUTOINCREMENT of task_runs

dbVars == <<tasks, runs, targets, lastTask, lastRun>>

NoTargets == [n \in Nodes |-> "none"]

StoreTypeOK ==
    /\ tasks \in [Tasks -> Task \cup {NoRow}]
    /\ runs \in [RunIds -> Run \cup {NoRow}]
    /\ targets \in [RunIds -> [Nodes -> {"none"} \cup ActiveStatus \cup TerminalTarget]]
    /\ lastTask \in 0..MaxTasks
    /\ lastRun \in 0..MaxRuns

StoreInit ==
    /\ tasks = [t \in Tasks |-> NoRow]
    /\ runs = [r \in RunIds |-> NoRow]
    /\ targets = [r \in RunIds |-> NoTargets]
    /\ lastTask = 0
    /\ lastRun = 0

-----------------------------------------------------------------------------
(* Queries *)

IsActive(r) == runs[r] # NoRow /\ runs[r].status \in ActiveStatus

HasActiveRun(t) == \E r \in RunIds : IsActive(r) /\ runs[r].task = t

NoUniqueIndex(t, due) == FALSE                      \* deviation

OccurrenceRecorded(t, due) ==        \* UNIQUE (task_id, scheduled_for)
    \E r \in RunIds : runs[r] # NoRow /\ runs[r].task = t /\ runs[r].due = due

IsDue(t, at) ==
    tasks[t] # NoRow /\ tasks[t].enabled /\ tasks[t].next # Null /\ tasks[t].next <= at

\* ORDER BY next_run_at, id LIMIT limit
DueBefore(s, t) == tasks[s].next < tasks[t].next \/ (tasks[s].next = tasks[t].next /\ s < t)

ListPast(at, limit) ==                              \* deviation: strict comparison
    LET past == {t \in Tasks : IsDue(t, at) /\ tasks[t].next < at}
    IN  {t \in past : Cardinality({s \in past : DueBefore(s, t)}) < limit}

ListDue(at, limit) ==
    LET due == {t \in Tasks : IsDue(t, at)}
    IN  {t \in due : Cardinality({s \in due : DueBefore(s, t)}) < limit}

-----------------------------------------------------------------------------
(* aggregateRunTx: the run row derived from its target rows *)

Some(seen, status) == \E n \in Nodes : seen[n] = status
All(seen, status) == Some(seen, status) /\ \A n \in Nodes : seen[n] \in {"none", status}

EndedStatus(seen) ==
    IF Some(seen, "success") THEN IF All(seen, "success") THEN "success" ELSE "partial"
    ELSE IF All(seen, "skipped") THEN "skipped"
    ELSE IF All(seen, "interrupted") THEN "interrupted"
    ELSE "failed"

AggregateStatus(seen) ==
    IF Some(seen, "queued") \/ Some(seen, "running")
    THEN IF \E n \in Nodes : seen[n] \notin {"none", "queued"} THEN "running" ELSE "queued"
    ELSE EndedStatus(seen)

Aggregate(run, seen) ==
    [run EXCEPT !.status = AggregateStatus(seen),
                !.completed = {n \in Nodes : seen[n] \in TerminalTarget},
                !.succeeded = {n \in Nodes : seen[n] = "success"}]

-----------------------------------------------------------------------------
(* Transactions on scheduled_tasks *)

\* SetNextRun accepts a schedule at time t ...
Schedulable(plan, t) == plan.type = "once" => plan.runAt > t

\* ... and computes next_run_at, the value prepareScheduledTask lets through.
FirstRun(plan, enabled, t) ==
    IF ~enabled THEN Null
    ELSE IF plan.type = "once" THEN plan.runAt ELSE NextRun(plan.cron, t)

InsertTask(plan, enabled, next) ==
    /\ lastTask < MaxTasks
    /\ lastTask' = lastTask + 1
    /\ tasks' = [tasks EXCEPT ![lastTask + 1] =
                    [plan |-> plan, enabled |-> enabled, next |-> next]]
    /\ UNCHANGED <<runs, targets, lastRun>>

CanEditBusy(t) == tasks[t] # NoRow                  \* deviation: no active-run check

CanEditTask(t) == tasks[t] # NoRow /\ ~HasActiveRun(t)

UpdateScheduledTask(t, plan, enabled, next) ==
    /\ tasks' = [tasks EXCEPT ![t] = [plan |-> plan, enabled |-> enabled, next |-> next]]
    /\ UNCHANGED <<runs, targets, lastTask, lastRun>>

SetScheduledTaskEnabled(t, enabled, next) ==
    /\ tasks' = [tasks EXCEPT ![t].enabled = enabled, ![t].next = next]
    /\ UNCHANGED <<runs, targets, lastTask, lastRun>>

\* ON DELETE CASCADE of scheduled_task_nodes, ON DELETE SET NULL of task_runs.task_id
DeleteScheduledTask(t) ==
    /\ tasks' = [tasks EXCEPT ![t] = NoRow]
    /\ runs' = [r \in RunIds |-> IF runs[r] # NoRow /\ runs[r].task = t
                                 THEN [runs[r] EXCEPT !.task = Null] ELSE runs[r]]
    /\ UNCHANGED <<targets, lastTask, lastRun>>

-----------------------------------------------------------------------------
(* Transactions that create runs *)

\* createTaskRunTx: the run row and one row per target
NewRun(t, trigger, due, policy, nodes, overlap, at) ==
    LET status == IF overlap THEN "skipped" ELSE "queued"
    IN  /\ lastRun < MaxRuns
        /\ lastRun' = lastRun + 1
        /\ runs' = [runs EXCEPT ![lastRun + 1] =
                [task |-> t, trigger |-> trigger, due |-> due, policy |-> policy,
                 status |-> status, completed |-> IF overlap THEN nodes ELSE {},
                 succeeded |-> {}, created |-> at, notified |-> FALSE]]
        /\ targets' = [targets EXCEPT ![lastRun + 1] =
                [n \in Nodes |-> IF n \in nodes THEN status ELSE "none"]]

\* The compare-and-set UPDATE of ClaimDueTask and the unique index on task_runs
ClaimWins(t, expected, next, at) ==
    /\ IF next = Null THEN at >= expected ELSE next > at /\ next > expected
    /\ tasks[t] # NoRow
    /\ tasks[t].enabled
    /\ tasks[t].next = expected
    /\ (tasks[t].plan.type = "once") <=> (next = Null)
    /\ ~OccurrenceRecorded(t, expected)

ClaimEachPeriod(t, expected, next, at) ==           \* deviation: one period at a time
    /\ NewRun(t, "scheduled", expected, tasks[t].plan.policy, tasks[t].plan.nodes,
              HasActiveRun(t), at)
    /\ tasks' = [tasks EXCEPT ![t].next = NextRun(tasks[t].plan.cron, expected)]
    /\ UNCHANGED lastTask

ClaimDueTask(t, expected, next, at) ==
    /\ NewRun(t, "scheduled", expected, tasks[t].plan.policy, tasks[t].plan.nodes,
              HasActiveRun(t), at)
    /\ tasks' = [tasks EXCEPT ![t].next = next, ![t].enabled = (next # Null)]
    /\ UNCHANGED lastTask

CreateManualTaskRun(t, at) ==
    /\ CanEditTask(t)
    /\ NewRun(t, "manual", Null, tasks[t].plan.policy, tasks[t].plan.nodes, FALSE, at)
    /\ UNCHANGED <<tasks, lastTask>>

CreateManualScriptRun(nodes, at) ==
    /\ NewRun(Null, "manual", Null, "never", nodes, FALSE, at)
    /\ UNCHANGED <<tasks, lastTask>>

-----------------------------------------------------------------------------
(* Transactions on a run in progress *)

CanMarkRunning(r, n) == targets[r][n] = "queued" /\ IsActive(r)

MarkRunTargetRunning(r, n) ==
    /\ targets' = [targets EXCEPT ![r][n] = "running"]
    /\ runs' = [runs EXCEPT ![r].status = "running"]
    /\ UNCHANGED <<tasks, lastTask, lastRun>>

CanComplete(r, n) == targets[r][n] \in ActiveStatus

\* seen: the run's target rows in the transaction's snapshot
CompleteRunTarget(r, n, result, seen) ==
    /\ targets' = [targets EXCEPT ![r][n] = result]
    /\ runs' = [runs EXCEPT ![r] = Aggregate(@, [seen EXCEPT ![n] = result])]
    /\ UNCHANGED <<tasks, lastTask, lastRun>>

TrustCompletions(r) == UNCHANGED dbVars             \* deviation: no final aggregate

AggregateRun(r) ==
    /\ runs' = [runs EXCEPT ![r] = Aggregate(@, targets[r])]
    /\ UNCHANGED <<tasks, targets, lastTask, lastRun>>

UpdateRunNotification(r) ==
    /\ runs' = [runs EXCEPT ![r].notified = TRUE]
    /\ UNCHANGED <<tasks, targets, lastTask, lastRun>>

RecoveredTargets(r) ==
    [n \in Nodes |-> IF targets[r][n] \in ActiveStatus THEN "interrupted" ELSE targets[r][n]]

StartedRuns == {r \in RunIds : runs[r] # NoRow /\ runs[r].status = "running"}   \* deviation

LeftRuns == {r \in RunIds : IsActive(r)}

RecoverInterruptedRuns ==
    /\ targets' = [r \in RunIds |-> IF r \in LeftRuns THEN RecoveredTargets(r) ELSE targets[r]]
    /\ runs' = [r \in RunIds |->
                  IF r \in LeftRuns
                  THEN [Aggregate(runs[r], RecoveredTargets(r)) EXCEPT !.status = "interrupted"]
                  ELSE runs[r]]
    /\ UNCHANGED <<tasks, lastTask, lastRun>>

\* The task_run_targets rows go with their run (ON DELETE CASCADE).
DeleteRuns(S) ==
    /\ runs' = [r \in RunIds |-> IF r \in S THEN NoRow ELSE runs[r]]
    /\ targets' = [r \in RunIds |-> IF r \in S THEN NoTargets ELSE targets[r]]
    /\ UNCHANGED <<tasks, lastTask, lastRun>>

-----------------------------------------------------------------------------

\* A schedule never has two batches queued or running: the claim records an
\* overlapping occurrence as skipped and a manual run is refused.
OneActiveRun ==
    \A r, s \in RunIds :
        IsActive(r) /\ IsActive(s) /\ runs[r].task = runs[s].task /\ runs[r].task # Null
            => r = s
=============================================================================
