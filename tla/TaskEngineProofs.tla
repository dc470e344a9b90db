-------------------------- MODULE TaskEngineProofs --------------------------
(***************************************************************************)
(* TaskStore and TaskEngine for every value of their constants.  First the *)
(* transactions of the store: the tables stay well formed, and StoreInv,   *)
(* the part of the inductive invariant about the database, holds after     *)
(* each of them.  Then the goroutines of the engine that call them.        *)
(***************************************************************************)
EXTENDS TaskEngine, FiniteSetTheorems, TLAPS

(***************************************************************************)
(* The database: ids above the AUTOINCREMENT counter have no row; target   *)
(* rows go with their run; a run that ended has no queued or running       *)
(* target, so that no aggregate can make it active again.                  *)
(***************************************************************************)
FreshRuns == \A r \in RunIds : r > lastRun => runs[r] = NoRow

TargetsHaveRun == \A r \in RunIds : runs[r] = NoRow => targets[r] = NoTargets

EndedTargets ==
    \A r \in RunIds : runs[r] # NoRow /\ ~IsActive(r) =>
        \A n \in Nodes : targets[r][n] \notin ActiveStatus

StoreInv == FreshRuns /\ TargetsHaveRun /\ EndedTargets /\ OneActiveRun

-----------------------------------------------------------------------------
(* Every transaction of the store preserves the types of its tables. *)

TargetRow == [Nodes -> {"none"} \cup ActiveStatus \cup TerminalTarget]

\* Every time a run may be scheduled for is a number (NextRun, run_at).
LEMMA DueTimesNat == DueTimes \subseteq Nat
BY PlansAssumption, NextRunAssumption DEF DueTimes, Plan

\* SetNextRun yields a time a run may be scheduled for, or NULL.
LEMMA FirstRunType ==
    ASSUME NEW plan \in Plans, NEW enabled \in BOOLEAN, NEW t \in 0..MaxTime
    PROVE  FirstRun(plan, enabled, t) \in DueTimes \cup {Null}
BY PlansAssumption DEF FirstRun, DueTimes, Plan

\* aggregateRunTx writes a run status of the schema.
LEMMA AggregateStatusType ==
    ASSUME NEW shown
    PROVE  AggregateStatus(shown) \in ActiveStatus \cup TerminalRun
BY DEF AggregateStatus, EndedStatus, Some, All, ActiveStatus, TerminalRun

\* aggregateRunTx keeps the row of a run well formed.
LEMMA AggregateType ==
    ASSUME NEW run \in Run, NEW shown
    PROVE  Aggregate(run, shown) \in Run
BY AggregateStatusType DEF Aggregate, Run

\* CreateScheduledTask keeps the tables well formed.
LEMMA InsertTaskType ==
    ASSUME StoreTypeOK, NEW plan \in Plans, NEW enabled \in BOOLEAN,
           NEW next \in DueTimes \cup {Null}, InsertTask(plan, enabled, next)
    PROVE  StoreTypeOK'
BY BoundsAssumption DEF StoreTypeOK, InsertTask, Task, Tasks

\* UpdateScheduledTask keeps the tables well formed.
LEMMA UpdateTaskType ==
    ASSUME StoreTypeOK, NEW t \in Tasks, NEW plan \in Plans, NEW enabled \in BOOLEAN,
           NEW next \in DueTimes \cup {Null}, UpdateScheduledTask(t, plan, enabled, next)
    PROVE  StoreTypeOK'
BY DEF StoreTypeOK, UpdateScheduledTask, Task

\* SetScheduledTaskEnabled keeps the tables well formed.
LEMMA SetEnabledType ==
    ASSUME StoreTypeOK, NEW t \in Tasks, tasks[t] # NoRow, NEW enabled \in BOOLEAN,
           NEW next \in DueTimes \cup {Null}, SetScheduledTaskEnabled(t, enabled, next)
    PROVE  StoreTypeOK'
BY DEF StoreTypeOK, SetScheduledTaskEnabled, Task

\* DeleteScheduledTask, with its ON DELETE SET NULL, keeps the tables well formed.
LEMMA DeleteTaskType ==
    ASSUME StoreTypeOK, NEW t \in Tasks, DeleteScheduledTask(t)
    PROVE  StoreTypeOK'
<1>1. \A r \in RunIds : runs[r] # NoRow => [runs[r] EXCEPT !.task = Null] \in Run
  BY DEF StoreTypeOK, Run
<1>2. runs' \in [RunIds -> Run \cup {NoRow}]
  BY <1>1 DEF StoreTypeOK, DeleteScheduledTask
<1>3. tasks' \in [Tasks -> Task \cup {NoRow}]
  BY DEF StoreTypeOK, DeleteScheduledTask
<1> QED
  BY <1>2, <1>3 DEF StoreTypeOK, DeleteScheduledTask

\* createTaskRunTx writes a well formed run under a new id and touches no other.
LEMMA NewRunType ==
    ASSUME StoreTypeOK,
           NEW t \in Tasks \cup {Null}, NEW trigger \in {"scheduled", "manual"},
           NEW due \in DueTimes \cup {Null}, NEW policy \in Policies,
           NEW nodes \in SUBSET Nodes, NEW overlap, NEW at \in Nat,
           NewRun(t, trigger, due, policy, nodes, overlap, at)
    PROVE  /\ runs' \in [RunIds -> Run \cup {NoRow}]
           /\ targets' \in [RunIds -> TargetRow]
           /\ lastRun' \in 0..MaxRuns
           /\ lastRun + 1 \in RunIds /\ runs'[lastRun + 1] \in Run
           /\ \A r \in RunIds : r # lastRun + 1 => runs'[r] = runs[r] /\ targets'[r] = targets[r]
<1> DEFINE status == IF overlap THEN "skipped" ELSE "queued"
           row == [task |-> t, trigger |-> trigger, due |-> due, policy |-> policy,
                   status |-> status, completed |-> IF overlap THEN nodes ELSE {},
                   succeeded |-> {}, created |-> at, notified |-> FALSE]
<1>1. row \in Run
  BY DEF Run, ActiveStatus, TerminalRun
<1>2. [n \in Nodes |-> IF n \in nodes THEN status ELSE "none"] \in TargetRow
  BY DEF TargetRow, ActiveStatus, TerminalTarget
<1>3. lastRun + 1 \in RunIds /\ lastRun' \in 0..MaxRuns
  BY BoundsAssumption DEF StoreTypeOK, NewRun, RunIds
<1> HIDE DEF row
<1>4. /\ runs' = [runs EXCEPT ![lastRun + 1] = row]
      /\ targets' = [targets EXCEPT ![lastRun + 1] =
                        [n \in Nodes |-> IF n \in nodes THEN status ELSE "none"]]
  BY DEF NewRun, row
<1> QED
  BY <1>1, <1>2, <1>3, <1>4 DEF StoreTypeOK, TargetRow

\* ClaimDueTask keeps the tables well formed.
LEMMA ClaimType ==
    ASSUME StoreTypeOK, NEW t \in Tasks, tasks[t] # NoRow, NEW expected \in DueTimes,
           NEW next \in DueTimes \cup {Null}, NEW at \in Nat,
           ClaimDueTask(t, expected, next, at)
    PROVE  StoreTypeOK'
<1>1. tasks[t] \in Task /\ tasks[t].plan \in Plan
  BY PlansAssumption DEF StoreTypeOK, Task
<1>2. tasks' \in [Tasks -> Task \cup {NoRow}]
  BY <1>1 DEF StoreTypeOK, ClaimDueTask, Task
<1>3. HasActiveRun(t) \in BOOLEAN
  BY DEF HasActiveRun
<1>4. NewRun(t, "scheduled", expected, tasks[t].plan.policy, tasks[t].plan.nodes,
             HasActiveRun(t), at)
  BY DEF ClaimDueTask
<1>5. tasks[t].plan.policy \in Policies /\ tasks[t].plan.nodes \in SUBSET Nodes
  BY <1>1 DEF Plan
<1>6. /\ runs' \in [RunIds -> Run \cup {NoRow}]
      /\ targets' \in [RunIds -> TargetRow]
      /\ lastRun' \in 0..MaxRuns
  BY <1>3, <1>4, <1>5, NewRunType
<1> QED
  BY <1>2, <1>6 DEF StoreTypeOK, ClaimDueTask, TargetRow

\* CreateManualTaskRun keeps the tables well formed.
LEMMA ManualTaskRunType ==
    ASSUME StoreTypeOK, NEW t \in Tasks, NEW at \in Nat, CreateManualTaskRun(t, at)
    PROVE  StoreTypeOK'
<1>1. tasks[t] \in Task /\ tasks[t].plan \in Plan
  BY PlansAssumption DEF StoreTypeOK, Task, CreateManualTaskRun, CanEditTask
<1>2. NewRun(t, "manual", Null, tasks[t].plan.policy, tasks[t].plan.nodes, FALSE, at)
  BY DEF CreateManualTaskRun
<1> QED
  BY <1>1, <1>2, NewRunType DEF StoreTypeOK, CreateManualTaskRun, Plan, TargetRow

\* CreateManualScriptRun keeps the tables well formed.
LEMMA ManualScriptRunType ==
    ASSUME StoreTypeOK, NEW nodes \in SUBSET Nodes, NEW at \in Nat,
           CreateManualScriptRun(nodes, at)
    PROVE  StoreTypeOK'
<1>1. NewRun(Null, "manual", Null, "never", nodes, FALSE, at)
  BY DEF CreateManualScriptRun
<1> QED
  BY <1>1, NewRunType DEF StoreTypeOK, CreateManualScriptRun, Policies, TargetRow

\* MarkRunTargetRunning keeps the tables well formed.
LEMMA MarkRunningType ==
    ASSUME StoreTypeOK, NEW r \in RunIds, NEW n \in Nodes, CanMarkRunning(r, n),
           MarkRunTargetRunning(r, n)
    PROVE  StoreTypeOK'
<1>1. [runs[r] EXCEPT !.status = "running"] \in Run
  BY DEF StoreTypeOK, CanMarkRunning, IsActive, Run, ActiveStatus
<1>2. runs' \in [RunIds -> Run \cup {NoRow}]
  BY <1>1 DEF StoreTypeOK, MarkRunTargetRunning
<1>3. targets' \in [RunIds -> TargetRow]
  BY DEF StoreTypeOK, MarkRunTargetRunning, TargetRow, ActiveStatus
<1> QED
  BY <1>2, <1>3 DEF StoreTypeOK, MarkRunTargetRunning, TargetRow

\* CompleteRunTarget keeps the tables well formed, whatever snapshot it aggregates.
LEMMA CompleteType ==
    ASSUME StoreTypeOK, NEW r \in RunIds, NEW n \in Nodes, runs[r] # NoRow,
           NEW result \in TerminalTarget, NEW seen_, CompleteRunTarget(r, n, result, seen_)
    PROVE  StoreTypeOK'
<1> DEFINE s == [seen_ EXCEPT ![n] = result]
<1>1. Aggregate(runs[r], s) \in Run
  BY AggregateType DEF StoreTypeOK
<1> QED
  BY <1>1 DEF StoreTypeOK, CompleteRunTarget

\* AggregateRun keeps the tables well formed.
LEMMA AggregateRunType ==
    ASSUME StoreTypeOK, NEW r \in RunIds, runs[r] # NoRow, AggregateRun(r)
    PROVE  StoreTypeOK'
<1>1. Aggregate(runs[r], targets[r]) \in Run
  BY AggregateType DEF StoreTypeOK
<1> QED
  BY <1>1 DEF StoreTypeOK, AggregateRun

\* UpdateRunNotification keeps the tables well formed.
LEMMA NotificationType ==
    ASSUME StoreTypeOK, NEW r \in RunIds, runs[r] # NoRow, UpdateRunNotification(r)
    PROVE  StoreTypeOK'
<1>1. [runs[r] EXCEPT !.notified = TRUE] \in Run
  BY DEF StoreTypeOK, Run
<1> QED
  BY <1>1 DEF StoreTypeOK, UpdateRunNotification

\* RecoverInterruptedRuns keeps the tables well formed.
LEMMA RecoverType ==
    ASSUME StoreTypeOK, RecoverInterruptedRuns
    PROVE  StoreTypeOK'
<1>1. \A r \in RunIds : RecoveredTargets(r) \in TargetRow
  BY DEF StoreTypeOK, RecoveredTargets, TargetRow, TerminalTarget
<1>2. \A r \in RunIds : IsActive(r) =>
        [Aggregate(runs[r], RecoveredTargets(r)) EXCEPT !.status = "interrupted"] \in Run
  <2> TAKE r \in RunIds
  <2> HAVE IsActive(r)
  <2>1. Aggregate(runs[r], RecoveredTargets(r)) \in Run
    BY AggregateType DEF StoreTypeOK, IsActive
  <2> QED
    BY <2>1 DEF Run, TerminalRun
<1> QED
  BY <1>1, <1>2 DEF StoreTypeOK, RecoverInterruptedRuns, LeftRuns, TargetRow

\* DeleteRunsOlderThan, with its cascade, keeps the tables well formed.
LEMMA DeleteRunsType ==
    ASSUME StoreTypeOK, NEW S \in SUBSET RunIds, DeleteRuns(S)
    PROVE  StoreTypeOK'
BY DEF StoreTypeOK, DeleteRuns, NoTargets

\* A step without a transaction keeps the tables well formed.
LEMMA StoreStutterType ==
    ASSUME StoreTypeOK, UNCHANGED dbVars
    PROVE  StoreTypeOK'
BY DEF StoreTypeOK, dbVars

\* A target that is queued or running belongs to a run that exists.
LEMMA CompletableRun ==
    ASSUME TargetsHaveRun, NEW r \in RunIds, NEW n \in Nodes, CanComplete(r, n)
    PROVE  runs[r] # NoRow
BY DEF TargetsHaveRun, CanComplete, NoTargets, ActiveStatus

-----------------------------------------------------------------------------
(* Every transaction preserves the invariant of the database. *)

\* aggregateRunTx ends a run exactly when no target it saw is queued or running.
LEMMA AggregateEnded ==
    ASSUME NEW seen_
    PROVE  AggregateStatus(seen_) \in TerminalRun <=>
             \A n \in Nodes : seen_[n] \notin ActiveStatus
BY DEF AggregateStatus, EndedStatus, Some, All, ActiveStatus, TerminalRun

\* A schedule keeps at most one active run when no run becomes active or changes its task.
LEMMA NoNewActive ==
    ASSUME OneActiveRun,
           \A r \in RunIds : IsActive(r)' =>
               IsActive(r) /\ (runs'[r].task = runs[r].task \/ runs'[r].task = Null)
    PROVE  OneActiveRun'
BY DEF OneActiveRun

\* A transaction that leaves the runs alone preserves StoreInv.
LEMMA RunsStutterInv ==
    ASSUME StoreInv, UNCHANGED <<runs, targets, lastRun>>
    PROVE  StoreInv'
BY DEF StoreInv, FreshRuns, TargetsHaveRun, EndedTargets, OneActiveRun, IsActive

\* DeleteScheduledTask preserves StoreInv: the runs it detaches stay as they were.
LEMMA DeleteTaskInv ==
    ASSUME StoreTypeOK, StoreInv, NEW t \in Tasks, DeleteScheduledTask(t)
    PROVE  StoreInv'
<1> USE DEF StoreTypeOK, DeleteScheduledTask
<1>1. \A r \in RunIds : runs[r] # NoRow =>
        /\ runs'[r] # NoRow
        /\ runs'[r].status = runs[r].status
        /\ runs'[r].task = runs[r].task \/ runs'[r].task = Null
  <2> TAKE r \in RunIds
  <2> HAVE runs[r] # NoRow
  <2>1. runs[r] \in Run /\ [runs[r] EXCEPT !.task = Null] \in Run
    BY DEF Run
  <2> QED
    BY <2>1, NoRowAssumption DEF Run
<1>2. \A r \in RunIds : runs[r] = NoRow => runs'[r] = NoRow
  OBVIOUS
<1>3. \A r \in RunIds : IsActive(r)' <=> IsActive(r)
  BY <1>1, <1>2 DEF IsActive
<1>4. OneActiveRun'
  BY <1>1, <1>3, NoNewActive DEF StoreInv, IsActive
<1> QED
  BY <1>1, <1>2, <1>3, <1>4 DEF StoreInv, FreshRuns, TargetsHaveRun, EndedTargets

\* Creating a run preserves StoreInv: it is skipped, or its schedule had no active run.
LEMMA NewRunInv ==
    ASSUME StoreTypeOK, StoreInv,
           NEW t \in Tasks \cup {Null}, NEW trigger, NEW due, NEW policy,
           NEW nodes \in SUBSET Nodes, NEW overlap \in BOOLEAN, NEW at,
           NewRun(t, trigger, due, policy, nodes, overlap, at),
           overlap \/ t = Null \/ ~HasActiveRun(t),
           runs'[lastRun + 1] \in Run
    PROVE  StoreInv'
<1> DEFINE status == IF overlap THEN "skipped" ELSE "queued"
<1>0. PICK r0 \in RunIds : r0 = lastRun + 1
  BY BoundsAssumption DEF StoreTypeOK, NewRun, RunIds
<1>1. lastRun' = r0
  BY <1>0 DEF NewRun
<1>2. \A r \in RunIds : r # r0 => runs'[r] = runs[r] /\ targets'[r] = targets[r]
  BY <1>0 DEF NewRun, StoreTypeOK
<1>3. /\ runs'[r0].task = t /\ runs'[r0].status = status
      /\ targets'[r0] = [n \in Nodes |-> IF n \in nodes THEN status ELSE "none"]
  BY <1>0 DEF NewRun, StoreTypeOK
<1>4. runs'[r0] # NoRow
  BY <1>0, NoRowAssumption
<1>5. FreshRuns' /\ TargetsHaveRun'
  BY <1>0, <1>1, <1>2, <1>4 DEF StoreInv, FreshRuns, TargetsHaveRun, RunIds, StoreTypeOK
<1>6. \A r \in RunIds : r # r0 => (IsActive(r)' <=> IsActive(r))
  BY <1>2 DEF IsActive
<1>7. EndedTargets'
  <2> SUFFICES ASSUME NEW r \in RunIds, runs'[r] # NoRow, ~IsActive(r)', NEW n \in Nodes
               PROVE  targets'[r][n] \notin ActiveStatus
    BY DEF EndedTargets
  <2>1. CASE r # r0
    BY <1>2, <1>6, <2>1 DEF StoreInv, EndedTargets
  <2>2. CASE r = r0
    BY <1>3, <1>4, <2>2 DEF IsActive, ActiveStatus
  <2> QED
    BY <2>1, <2>2
<1>8. OneActiveRun'
  <2> SUFFICES ASSUME NEW r \in RunIds, NEW s \in RunIds, IsActive(r)', IsActive(s)',
                      runs'[r].task = runs'[s].task, runs'[r].task # Null
               PROVE  r = s
    BY DEF OneActiveRun
  <2>1. CASE r # r0 /\ s # r0
    BY <1>2, <1>6, <2>1 DEF StoreInv, OneActiveRun
  <2>2. ASSUME NEW x \in RunIds, x # r0, IsActive(x)', IsActive(r0)', t # Null
        PROVE  runs'[x].task # t
    <3>1. status = "queued"
      BY <1>3, <2>2 DEF IsActive, ActiveStatus
    <3>2. ~HasActiveRun(t)
      BY <2>2, <3>1
    <3> QED
      BY <1>2, <1>6, <2>2, <3>2 DEF HasActiveRun
  <2> QED
    BY <1>1, <1>3, <2>1, <2>2
<1> QED
  BY <1>5, <1>7, <1>8 DEF StoreInv

\* MarkRunTargetRunning preserves StoreInv: the run was active already.
LEMMA MarkRunningInv ==
    ASSUME StoreTypeOK, StoreInv, NEW r \in RunIds, NEW n \in Nodes, CanMarkRunning(r, n),
           MarkRunTargetRunning(r, n)
    PROVE  StoreInv'
<1> USE DEF StoreTypeOK, MarkRunTargetRunning, CanMarkRunning
<1>1. runs[r] \in Run /\ [runs[r] EXCEPT !.status = "running"] \in Run
  BY DEF IsActive, Run, ActiveStatus
<1>2. /\ runs'[r] = [runs[r] EXCEPT !.status = "running"] /\ runs'[r] # NoRow
      /\ runs'[r].status = "running" /\ runs'[r].task = runs[r].task
  BY <1>1, NoRowAssumption DEF Run
<1>3. \A s \in RunIds : s # r => runs'[s] = runs[s] /\ targets'[s] = targets[s]
  OBVIOUS
<1>4. \A s \in RunIds : IsActive(s)' <=> IsActive(s)
  BY <1>2, <1>3 DEF IsActive, ActiveStatus
<1>5. OneActiveRun'
  BY <1>2, <1>3, <1>4, NoNewActive DEF StoreInv
<1> QED
  BY <1>2, <1>3, <1>4, <1>5
  DEF StoreInv, FreshRuns, TargetsHaveRun, EndedTargets, IsActive

\* Storing an aggregate changes the status of one run and the task of none.
LEMMA AggregatedRun ==
    ASSUME StoreTypeOK, NEW r \in RunIds, runs[r] # NoRow, NEW seen_,
           runs' = [runs EXCEPT ![r] = Aggregate(runs[r], seen_)]
    PROVE  /\ runs'[r] # NoRow /\ runs'[r].task = runs[r].task
           /\ runs'[r].status = AggregateStatus(seen_)
           /\ \A s \in RunIds : s # r => runs'[s] = runs[s]
<1>1. runs[r] \in Run /\ Aggregate(runs[r], seen_) \in Run
  BY AggregateType DEF StoreTypeOK
<1>2. runs'[r] = Aggregate(runs[r], seen_)
  BY DEF StoreTypeOK
<1> QED
  BY <1>1, <1>2, NoRowAssumption DEF Run, Aggregate, StoreTypeOK

\* CompleteRunTarget preserves StoreInv, even from an old snapshot of the other targets.
LEMMA CompleteInv ==
    ASSUME StoreTypeOK, StoreInv, NEW r \in RunIds, NEW n \in Nodes, CanComplete(r, n),
           NEW result \in TerminalTarget, NEW seen_ \in TargetRow,
           \A m \in Nodes : seen_[m] \notin ActiveStatus => targets[r][m] = seen_[m],
           CompleteRunTarget(r, n, result, seen_)
    PROVE  StoreInv'
<1> DEFINE s0 == [seen_ EXCEPT ![n] = result]
<1>1. runs[r] # NoRow
  BY CompletableRun DEF StoreInv
<1>2. IsActive(r)
  BY <1>1 DEF StoreInv, EndedTargets, CanComplete
<1>3. /\ runs'[r] # NoRow /\ runs'[r].task = runs[r].task
      /\ runs'[r].status = AggregateStatus(s0)
      /\ \A s \in RunIds : s # r => runs'[s] = runs[s]
  BY <1>1, AggregatedRun DEF CompleteRunTarget
<1>4. /\ targets'[r] = [targets[r] EXCEPT ![n] = result]
      /\ \A s \in RunIds : s # r => targets'[s] = targets[s]
  BY DEF CompleteRunTarget, StoreTypeOK
<1>5. ~IsActive(r)' => \A m \in Nodes : targets'[r][m] \notin ActiveStatus
  <2> SUFFICES ASSUME ~IsActive(r)', NEW m \in Nodes
               PROVE  targets'[r][m] \notin ActiveStatus
    OBVIOUS
  <2>1. \A k \in Nodes : s0[k] \notin ActiveStatus
    BY <1>3, AggregateStatusType, AggregateEnded DEF IsActive
  <2>2. CASE m = n
    BY <1>4, <2>2 DEF StoreTypeOK, TerminalTarget, ActiveStatus
  <2>3. CASE m # n
    BY <1>4, <2>1, <2>3 DEF TargetRow, StoreTypeOK
  <2> QED
    BY <2>2, <2>3
<1>6. \A s \in RunIds : s # r => (IsActive(s)' <=> IsActive(s))
  BY <1>3 DEF IsActive
<1>7. OneActiveRun'
  BY <1>2, <1>3, <1>6, NoNewActive DEF StoreInv
<1>8. FreshRuns' /\ TargetsHaveRun'
  BY <1>1, <1>3, <1>4 DEF StoreInv, FreshRuns, TargetsHaveRun, CompleteRunTarget
<1>9. EndedTargets'
  BY <1>3, <1>4, <1>5, <1>6 DEF StoreInv, EndedTargets
<1> QED
  BY <1>7, <1>8, <1>9 DEF StoreInv

\* AggregateRun preserves StoreInv: an ended run has no unsettled target to revive it.
LEMMA AggregateRunInv ==
    ASSUME StoreTypeOK, StoreInv, NEW r \in RunIds, runs[r] # NoRow, AggregateRun(r)
    PROVE  StoreInv'
<1>1. /\ runs'[r] # NoRow /\ runs'[r].task = runs[r].task
      /\ runs'[r].status = AggregateStatus(targets[r])
      /\ \A s \in RunIds : s # r => runs'[s] = runs[s]
  BY AggregatedRun DEF AggregateRun
<1>2. ~IsActive(r)' <=> \A n \in Nodes : targets[r][n] \notin ActiveStatus
  BY <1>1, AggregateStatusType, AggregateEnded DEF IsActive, ActiveStatus, TerminalRun
<1>3. IsActive(r)' => IsActive(r)
  BY <1>2 DEF StoreInv, EndedTargets
<1>4. \A s \in RunIds : s # r => (IsActive(s)' <=> IsActive(s))
  BY <1>1 DEF IsActive
<1>5. OneActiveRun'
  BY <1>1, <1>3, <1>4, NoNewActive DEF StoreInv
<1> QED
  BY <1>1, <1>2, <1>4, <1>5
  DEF StoreInv, FreshRuns, TargetsHaveRun, EndedTargets, AggregateRun

\* UpdateRunNotification preserves StoreInv.
LEMMA NotificationInv ==
    ASSUME StoreTypeOK, StoreInv, NEW r \in RunIds, runs[r] # NoRow, UpdateRunNotification(r)
    PROVE  StoreInv'
<1> USE DEF StoreTypeOK, UpdateRunNotification
<1>1. runs[r] \in Run /\ [runs[r] EXCEPT !.notified = TRUE] \in Run
  BY DEF Run
<1>2. /\ runs'[r] # NoRow /\ runs'[r].status = runs[r].status
      /\ runs'[r].task = runs[r].task
      /\ \A s \in RunIds : s # r => runs'[s] = runs[s]
  BY <1>1, NoRowAssumption DEF Run
<1>3. \A s \in RunIds : IsActive(s)' <=> IsActive(s)
  BY <1>2 DEF IsActive
<1>4. OneActiveRun'
  BY <1>2, <1>3, NoNewActive DEF StoreInv
<1> QED
  BY <1>2, <1>3, <1>4 DEF StoreInv, FreshRuns, TargetsHaveRun, EndedTargets

\* RecoverInterruptedRuns preserves StoreInv and leaves no run active.
LEMMA RecoverInv ==
    ASSUME StoreTypeOK, StoreInv, RecoverInterruptedRuns
    PROVE  StoreInv' /\ \A r \in RunIds : ~IsActive(r)'
<1>1. \A r \in RunIds : IsActive(r) =>
        /\ runs'[r] # NoRow /\ runs'[r].status = "interrupted"
        /\ targets'[r] = RecoveredTargets(r)
  <2> TAKE r \in RunIds
  <2> HAVE IsActive(r)
  <2> DEFINE row == [Aggregate(runs[r], RecoveredTargets(r)) EXCEPT !.status = "interrupted"]
  <2>1. Aggregate(runs[r], RecoveredTargets(r)) \in Run
    BY AggregateType DEF StoreTypeOK, IsActive
  <2>2. row \in Run /\ row.status = "interrupted"
    BY <2>1 DEF Run, TerminalRun
  <2>3. runs'[r] = row /\ targets'[r] = RecoveredTargets(r)
    BY DEF RecoverInterruptedRuns, LeftRuns
  <2> QED
    BY <2>2, <2>3, NoRowAssumption
<1>2. \A r \in RunIds : ~IsActive(r) => runs'[r] = runs[r] /\ targets'[r] = targets[r]
  BY DEF RecoverInterruptedRuns, LeftRuns
<1>3. \A r \in RunIds : ~IsActive(r)'
  BY <1>1, <1>2 DEF IsActive, ActiveStatus
<1>4. EndedTargets'
  <2> SUFFICES ASSUME NEW r \in RunIds, runs'[r] # NoRow, NEW n \in Nodes
               PROVE  targets'[r][n] \notin ActiveStatus
    BY DEF EndedTargets
  <2>1. CASE IsActive(r)
    BY <1>1, <2>1 DEF RecoveredTargets, ActiveStatus
  <2>2. CASE ~IsActive(r)
    BY <1>2, <2>2 DEF StoreInv, EndedTargets
  <2> QED
    BY <2>1, <2>2
<1>5. OneActiveRun'
  BY <1>3 DEF OneActiveRun
<1>6. FreshRuns' /\ TargetsHaveRun'
  BY <1>1, <1>2 DEF StoreInv, FreshRuns, TargetsHaveRun, RecoverInterruptedRuns, IsActive
<1> QED
  BY <1>3, <1>4, <1>5, <1>6 DEF StoreInv

\* DeleteRunsOlderThan preserves StoreInv, also when it deletes active runs.
LEMMA DeleteRunsInv ==
    ASSUME StoreTypeOK, StoreInv, NEW S \in SUBSET RunIds, DeleteRuns(S)
    PROVE  StoreInv'
<1>1. \A r \in RunIds : IF r \in S THEN runs'[r] = NoRow /\ targets'[r] = NoTargets
                                   ELSE runs'[r] = runs[r] /\ targets'[r] = targets[r]
  BY DEF DeleteRuns
<1>2. \A r \in RunIds : IsActive(r)' => IsActive(r) /\ runs'[r].task = runs[r].task
  BY <1>1 DEF IsActive
<1>3. OneActiveRun'
  BY <1>2, NoNewActive DEF StoreInv
<1> QED
  BY <1>1, <1>3
  DEF StoreInv, FreshRuns, TargetsHaveRun, EndedTargets, DeleteRuns, IsActive

-----------------------------------------------------------------------------
(* Whatever the actor, a step changes the runs by one transaction. *)

SettledIn(row, seen_) == \A m \in Nodes : seen_[m] \notin ActiveStatus => row[m] = seen_[m]

CreateStep(t, trigger, due, policy, nodes, overlap, at) ==
    /\ NewRun(t, trigger, due, policy, nodes, overlap, at)
    /\ overlap \/ t = Null \/ ~HasActiveRun(t)

CompleteStep(r, n, result, seen_) ==
    CanComplete(r, n) /\ SettledIn(targets[r], seen_) /\ CompleteRunTarget(r, n, result, seen_)

\* A transaction on runs in progress, or none.
RunTransaction ==
    \/ UNCHANGED <<runs, targets, lastRun>>
    \/ \E r \in RunIds, n \in Nodes : CanMarkRunning(r, n) /\ MarkRunTargetRunning(r, n)
    \/ \E r \in RunIds, n \in Nodes, result \in TerminalTarget, seen_ \in TargetRow :
          CompleteStep(r, n, result, seen_)
    \/ \E r \in RunIds : runs[r] # NoRow /\ (AggregateRun(r) \/ UpdateRunNotification(r))
    \/ RecoverInterruptedRuns

Transaction ==
    \/ RunTransaction
    \/ \E t \in Tasks : DeleteScheduledTask(t)
    \/ \E t \in Tasks \cup {Null}, trigger \in {"scheduled", "manual"},
          due \in DueTimes \cup {Null}, policy \in Policies, nodes \in SUBSET Nodes,
          overlap \in BOOLEAN, at \in Nat :
          CreateStep(t, trigger, due, policy, nodes, overlap, at)
    \/ \E S \in SUBSET RunIds : DeleteRuns(S)

\* A target row changes only while it is queued or running, unless its run is
\* created or deleted by the step.
Settling ==
    \A r \in RunIds : r <= lastRun /\ targets'[r] # NoTargets =>
        \A m \in Nodes : targets[r][m] \notin ActiveStatus => targets'[r][m] = targets[r][m]

\* Every transaction on runs preserves StoreInv and changes no settled target.
LEMMA TransactionInv ==
    ASSUME StoreTypeOK, StoreInv, Transaction
    PROVE  StoreInv' /\ Settling
<1>1. CASE UNCHANGED <<runs, targets, lastRun>>
  BY <1>1, RunsStutterInv DEF Settling
<1>2. ASSUME NEW t \in Tasks, DeleteScheduledTask(t)
      PROVE  StoreInv' /\ Settling
  BY <1>2, DeleteTaskInv DEF Settling, DeleteScheduledTask
<1>3. ASSUME NEW t \in Tasks \cup {Null}, NEW trigger \in {"scheduled", "manual"},
             NEW due \in DueTimes \cup {Null}, NEW policy \in Policies,
             NEW nodes \in SUBSET Nodes, NEW overlap \in BOOLEAN, NEW at \in Nat,
             CreateStep(t, trigger, due, policy, nodes, overlap, at)
      PROVE  StoreInv' /\ Settling
  <2>1. /\ runs'[lastRun + 1] \in Run
        /\ \A r \in RunIds : r # lastRun + 1 => targets'[r] = targets[r]
    BY <1>3, NewRunType DEF CreateStep
  <2>2. lastRun \in Nat /\ RunIds \subseteq Nat
    BY BoundsAssumption DEF StoreTypeOK, RunIds
  <2> QED
    BY <1>3, <2>1, <2>2, NewRunInv DEF CreateStep, Settling
<1>4. ASSUME NEW r \in RunIds, NEW n \in Nodes, CanMarkRunning(r, n), MarkRunTargetRunning(r, n)
      PROVE  StoreInv' /\ Settling
  <2>1. StoreInv'
    BY <1>4, MarkRunningInv
  <2>2. Settling
    BY <1>4 DEF Settling, CanMarkRunning, MarkRunTargetRunning, StoreTypeOK, ActiveStatus
  <2> QED
    BY <2>1, <2>2
<1>5. ASSUME NEW r \in RunIds, NEW n \in Nodes, NEW result \in TerminalTarget,
             NEW seen_ \in TargetRow, CompleteStep(r, n, result, seen_)
      PROVE  StoreInv' /\ Settling
  <2>1. StoreInv'
    BY <1>5, CompleteInv DEF CompleteStep, SettledIn
  <2>2. Settling
    BY <1>5 DEF Settling, CompleteStep, CanComplete, CompleteRunTarget, StoreTypeOK
  <2> QED
    BY <2>1, <2>2
<1>6. ASSUME NEW r \in RunIds, runs[r] # NoRow, AggregateRun(r) \/ UpdateRunNotification(r)
      PROVE  StoreInv' /\ Settling
  <2>1. UNCHANGED targets
    BY <1>6 DEF AggregateRun, UpdateRunNotification
  <2> QED
    BY <1>6, <2>1, AggregateRunInv, NotificationInv DEF Settling
<1>7. CASE RecoverInterruptedRuns
  <2>1. Settling
    BY <1>7 DEF Settling, RecoverInterruptedRuns, RecoveredTargets
  <2> QED
    BY <1>7, <2>1, RecoverInv
<1>8. ASSUME NEW S \in SUBSET RunIds, DeleteRuns(S)
      PROVE  StoreInv' /\ Settling
  <2>1. Settling
    BY <1>8 DEF Settling, DeleteRuns
  <2> QED
    BY <1>8, <2>1, DeleteRunsInv
<1> QED
  BY <1>1, <1>2, <1>3, <1>4, <1>5, <1>6, <1>7, <1>8 DEF Transaction, RunTransaction

\* Run ids are never given out again.
LEMMA LastRunGrows ==
    ASSUME StoreTypeOK, Transaction
    PROVE  lastRun' \in Nat /\ lastRun' >= lastRun
<1>1. lastRun \in Nat
  BY BoundsAssumption DEF StoreTypeOK
<1>2. lastRun' = lastRun \/ lastRun' = lastRun + 1
  <2>1. ASSUME NEW t, NEW trigger, NEW due, NEW policy, NEW nodes, NEW overlap, NEW at,
               CreateStep(t, trigger, due, policy, nodes, overlap, at)
        PROVE  lastRun' = lastRun + 1
    BY <2>1 DEF CreateStep, NewRun
  <2>2. ASSUME NEW r, NEW n, NEW result, NEW seen_, CompleteStep(r, n, result, seen_)
        PROVE  lastRun' = lastRun
    BY <2>2 DEF CompleteStep, CompleteRunTarget
  <2>3. ASSUME NEW r, NEW n, NEW S, NEW t,
               \/ DeleteScheduledTask(t) \/ MarkRunTargetRunning(r, n) \/ AggregateRun(r)
               \/ UpdateRunNotification(r) \/ RecoverInterruptedRuns \/ DeleteRuns(S)
        PROVE  lastRun' = lastRun
    BY <2>3 DEF DeleteScheduledTask, MarkRunTargetRunning, AggregateRun, UpdateRunNotification,
                RecoverInterruptedRuns, DeleteRuns
  <2> QED
    BY <2>1, <2>2, <2>3 DEF Transaction, RunTransaction
<1> QED
  BY <1>1, <1>2

-----------------------------------------------------------------------------
(***************************************************************************)
(* The goroutines: none for an id not yet given out; one past its script   *)
(* holds a terminal result; and what the snapshot of a completion shows as *)
(* settled is still so while its own target is not.                        *)
(***************************************************************************)
FreshWorkers == \A r \in RunIds : r > lastRun => \A n \in Nodes : worker[r][n] = "none"

OutcomeReady ==
    \A r \in RunIds, n \in Nodes :
        worker[r][n] \in {"complete", "commit"} => outcome[r][n] \in TerminalTarget

SeenSettled ==
    \A r \in RunIds, n \in Nodes :
        worker[r][n] = "commit" /\ CanComplete(r, n) =>
            \A m \in Nodes : seen[r][n][m] \notin ActiveStatus => targets[r][m] = seen[r][n][m]

EngineInv == FreshWorkers /\ OutcomeReady /\ SeenSettled /\ SlotsExact

IInv == TypeOK /\ StoreInv /\ EngineInv

-----------------------------------------------------------------------------
(* Every action of the engine preserves TypeOK. *)

\* Initialize keeps the tables well formed.
LEMMA InitializeType ==
    ASSUME StoreTypeOK, initialized \in BOOLEAN, Initialize
    PROVE  StoreTypeOK' /\ initialized' \in BOOLEAN
BY RecoverType, StoreStutterType DEF Initialize

\* Finitely many goroutines hold global slots.
LEMMA HoldersFinite == IsFiniteSet(GlobalHolders)
<1>1. IsFiniteSet(RunIds)
  BY BoundsAssumption, FS_Interval DEF RunIds
<1>2. IsFiniteSet(RunIds \X Nodes)
  BY <1>1, BoundsAssumption, FS_Product
<1> QED
  BY <1>2, FS_Subset DEF GlobalHolders

\* A goroutine that holds a global slot is counted, so its release never underflows.
LEMMA HolderCounted ==
    ASSUME TypeOK, SlotsExact, NEW r \in RunIds, NEW n \in Nodes, HoldsGlobal(r, n)
    PROVE  globalUsed \in 1..GlobalConcurrency /\ IsFiniteSet(GlobalHolders)
<1>1. <<r, n>> \in GlobalHolders
  BY DEF GlobalHolders
<1>2. Cardinality(GlobalHolders) # 0
  BY <1>1, HoldersFinite, FS_EmptySet
<1> QED
  BY <1>2, HoldersFinite, FS_CardinalityType, EngineAssumption DEF TypeOK, SlotsExact

\* The boot and start of the engine preserve TypeOK.
LEMMA EngineType ==
    ASSUME TypeOK, Boot \/ StartRun \/ RequestInitialize
    PROVE  TypeOK'
<1>1. CASE Boot
  BY <1>1, InitializeType, StoreStutterType, EngineAssumption
  DEF TypeOK, Boot, Fault, envVars, execVars, finVars
<1>2. CASE StartRun
  BY <1>2, InitializeType, StoreStutterType, EngineAssumption
  DEF TypeOK, StartRun, Fault, envVars, execVars, finVars
<1>3. CASE RequestInitialize
  BY <1>3, InitializeType DEF TypeOK, RequestInitialize, Serving, envVars, execVars, finVars
<1> QED
  BY <1>1, <1>2, <1>3

\* Listing the due tasks preserves TypeOK.
LEMMA BeginSweepType ==
    ASSUME TypeOK, BeginSweep
    PROVE  TypeOK'
<1>1. PICK at \in sweepAt..now :
        /\ sweepAt' = at
        /\ \/ batch' = {}
           \/ batch' = {[task |-> t, next |-> tasks[t].next, plan |-> tasks[t].plan] :
                          t \in ListDue(at, DueLimit)}
  BY DEF BeginSweep
<1>2. ASSUME NEW t \in ListDue(at, DueLimit)
      PROVE  [task |-> t, next |-> tasks[t].next, plan |-> tasks[t].plan] \in DueTask
  <2>1. t \in Tasks /\ tasks[t] # NoRow /\ tasks[t].next # Null
    BY DEF ListDue, IsDue
  <2> QED
    BY <2>1 DEF TypeOK, StoreTypeOK, Task, DueTask
<1>3. batch' \subseteq DueTask
  BY <1>1, <1>2
<1>4. sweepAt' \in 0..MaxTime
  BY <1>1, BoundsAssumption DEF TypeOK
<1>5. now' \in 0..MaxTime /\ crashes' \in 0..MaxCrashes /\ faults' \in 0..MaxFaults
  BY EngineAssumption DEF TypeOK, BeginSweep, Fault, envVars
<1> QED
  BY <1>3, <1>4, <1>5, StoreStutterType DEF TypeOK, BeginSweep, execVars, finVars

\* dispatch starts goroutines at a known place.
LEMMA DispatchType ==
    ASSUME TypeOK, NEW r \in RunIds, NEW nodes, Dispatch(r, nodes)
    PROVE  worker' \in [RunIds -> [Nodes -> WorkerPC]] /\ fin' \in [RunIds -> FinPC]
BY DEF TypeOK, Dispatch, WorkerPC, FinPC

\* A claim, won, lost or failed, keeps what it changes well formed.
LEMMA ClaimOneType ==
    ASSUME TypeOK, NEW e \in batch, ClaimOne(e)
    PROVE  /\ StoreTypeOK'
           /\ worker' \in [RunIds -> [Nodes -> WorkerPC]] /\ fin' \in [RunIds -> FinPC]
           /\ now' \in 0..MaxTime /\ crashes' \in 0..MaxCrashes /\ faults' \in 0..MaxFaults
<1> USE DEF TypeOK
<1>1. e.task \in Tasks /\ e.next \in DueTimes /\ e.plan \in Plans
  BY DEF DueTask
<1>2. NextAfter(e) \in DueTimes \cup {Null}
  BY <1>1 DEF NextAfter, DueTimes
<1>3. sweepAt \in Nat
  BY BoundsAssumption
<1>4. CASE /\ ClaimWins(e.task, e.next, NextAfter(e), sweepAt)
           /\ ClaimDueTask(e.task, e.next, NextAfter(e), sweepAt)
           /\ Launch(e, lastRun + 1)
           /\ UNCHANGED envVars
  <2>1. StoreTypeOK'
    BY <1>1, <1>2, <1>3, <1>4, ClaimType DEF ClaimWins
  <2>2. lastRun + 1 \in RunIds
    BY <1>4, BoundsAssumption DEF ClaimDueTask, NewRun, StoreTypeOK, RunIds
  <2>3. worker' \in [RunIds -> [Nodes -> WorkerPC]] /\ fin' \in [RunIds -> FinPC]
    BY <1>4, <2>2, DispatchType DEF Launch, FinPC
  <2> QED
    BY <1>4, <2>1, <2>3 DEF envVars
<1>5. CASE UNCHANGED <<dbVars, worker, fin, envVars>>
  BY <1>5, StoreStutterType DEF envVars
<1>6. CASE Fault /\ UNCHANGED <<dbVars, worker, fin>>
  BY <1>6, StoreStutterType, EngineAssumption DEF Fault
<1> QED
  BY <1>4, <1>5, <1>6 DEF ClaimOne

\* One iteration of Sweep preserves TypeOK.
LEMMA SweepClaimType ==
    ASSUME TypeOK, SweepClaim
    PROVE  TypeOK'
<1>1. PICK e \in batch : ClaimOne(e) /\ batch' = batch \ {e}
  BY DEF SweepClaim
<1>2. batch' \subseteq DueTask /\ engine' \in {"idle", "sweep"}
  BY <1>1 DEF TypeOK, SweepClaim
<1> QED
  BY <1>1, <1>2, ClaimOneType DEF TypeOK, SweepClaim

Outcomes == [RunIds -> [Nodes -> {"none"} \cup TerminalTarget]]

\* executeTarget's result is well formed.
LEMMA SetOutcome ==
    ASSUME outcome \in Outcomes, NEW r \in RunIds, NEW n \in Nodes,
           NEW v \in TerminalTarget, outcome' = [outcome EXCEPT ![r][n] = v]
    PROVE  outcome' \in Outcomes
BY DEF Outcomes

\* A goroutine moves to a known place.
LEMMA GoType ==
    ASSUME worker \in [RunIds -> [Nodes -> WorkerPC]], NEW r \in RunIds, NEW n \in Nodes,
           NEW pc \in WorkerPC, Go(r, n, pc)
    PROVE  worker' \in [RunIds -> [Nodes -> WorkerPC]]
BY DEF Go

\* Every step of executeTarget preserves TypeOK.
LEMMA WorkerType ==
    ASSUME TypeOK, SlotsExact, TargetsHaveRun, OutcomeReady,
           NEW r \in RunIds, NEW n \in Nodes, Worker(r, n)
    PROVE  TypeOK'
<1> USE DEF TypeOK, Go
<1>1. CASE AcquireNode(r, n)
  BY <1>1, StoreStutterType
  DEF AcquireNode, WorkerPC, sweepVars, finVars, envVars
<1>2. CASE AcquireGlobal(r, n)
  BY <1>2, StoreStutterType, EngineAssumption
  DEF AcquireGlobal, WorkerPC, sweepVars, finVars, envVars
<1>3. CASE LookupNode(r, n)
  <2>1. LookupFailures \subseteq TerminalTarget
    BY EngineAssumption DEF TerminalTarget
  <2>2. outcome' \in Outcomes
    BY <1>3, <2>1, SetOutcome DEF LookupNode, Outcomes
  <2>3. worker' \in [RunIds -> [Nodes -> WorkerPC]]
    BY <1>3, GoType DEF LookupNode, WorkerPC
  <2> QED
    BY <1>3, <2>2, <2>3, StoreStutterType
    DEF LookupNode, sweepVars, finVars, envVars, Outcomes
<1>4. CASE StartTarget(r, n)
  <2>1. StoreTypeOK'
    BY <1>4, MarkRunningType, StoreStutterType DEF StartTarget
  <2>2. /\ worker' \in [RunIds -> [Nodes -> WorkerPC]]
        /\ outcome' \in Outcomes
    <3>1. worker' \in [RunIds -> [Nodes -> WorkerPC]]
      BY <1>4, GoType DEF StartTarget, WorkerPC
    <3>2. "failed" \in TerminalTarget
      BY DEF TerminalTarget
    <3> QED
      BY <1>4, <3>1, <3>2, SetOutcome DEF StartTarget, Outcomes
  <2>3. now' \in 0..MaxTime /\ crashes' \in 0..MaxCrashes /\ faults' \in 0..MaxFaults
    BY <1>4, EngineAssumption DEF StartTarget, Fault, envVars
  <2> QED
    BY <1>4, <2>1, <2>2, <2>3 DEF StartTarget, sweepVars, finVars, Outcomes
<1>5. CASE ScriptReturns(r, n)
  BY <1>5, StoreStutterType, EngineAssumption
  DEF ScriptReturns, WorkerPC, sweepVars, finVars, envVars, TerminalTarget
<1>6. CASE BeginComplete(r, n)
  BY <1>6, StoreStutterType
  DEF BeginComplete, WorkerPC, sweepVars, finVars, envVars, StoreTypeOK
<1>7. CASE CompleteTarget(r, n)
  <2>1. StoreTypeOK'
    <3>1. outcome[r][n] \in TerminalTarget
      BY <1>7 DEF OutcomeReady, CompleteTarget
    <3>2. CASE UNCHANGED dbVars
      BY <3>2, StoreStutterType
    <3>3. CASE /\ CanComplete(r, n)
               /\ CompleteRunTarget(r, n, outcome[r][n],
                                    IF SnapshotReads THEN seen[r][n] ELSE targets[r])
      BY <3>1, <3>3, CompleteType, CompletableRun
    <3> QED
      BY <1>7, <3>2, <3>3 DEF CompleteTarget
  <2>2. globalUsed' \in 0..GlobalConcurrency
    <3>1. HoldsGlobal(r, n)
      BY <1>7 DEF CompleteTarget, HoldsGlobal
    <3> QED
      BY <1>7, <3>1, HolderCounted, EngineAssumption DEF CompleteTarget, Release
  <2>3. now' \in 0..MaxTime /\ crashes' \in 0..MaxCrashes /\ faults' \in 0..MaxFaults
    BY <1>7, EngineAssumption DEF CompleteTarget, Fault, envVars
  <2>4. seen' \in [RunIds -> [Nodes -> [Nodes -> {"none"} \cup ActiveStatus \cup TerminalTarget]]]
    BY <1>7 DEF CompleteTarget, NoTargets
  <2>5. /\ worker' \in [RunIds -> [Nodes -> WorkerPC]]
        /\ outcome' \in [RunIds -> [Nodes -> {"none"} \cup TerminalTarget]]
        /\ nodeSlots' \subseteq Nodes
    BY <1>7 DEF CompleteTarget, Release, WorkerPC
  <2> QED
    BY <1>7, <2>1, <2>2, <2>3, <2>4, <2>5 DEF CompleteTarget, sweepVars, finVars
<1> QED
  BY <1>1, <1>2, <1>3, <1>4, <1>5, <1>6, <1>7 DEF Worker

\* Every step of finalizeRun preserves TypeOK.
LEMMA FinalizerType ==
    ASSUME TypeOK, NEW r \in RunIds, Finalizer(r)
    PROVE  TypeOK'
<1> USE DEF TypeOK
<1>1. CASE AllTargetsDone(r)
  BY <1>1, StoreStutterType DEF AllTargetsDone, FinPC, sweepVars, execVars, envVars
<1>2. CASE FinalizeAggregate(r)
  <2>1. StoreTypeOK'
    BY <1>2, AggregateRunType, StoreStutterType DEF FinalizeAggregate
  <2>2. now' \in 0..MaxTime /\ crashes' \in 0..MaxCrashes /\ faults' \in 0..MaxFaults
    BY <1>2, EngineAssumption DEF FinalizeAggregate, Fault, envVars
  <2>3. finStatus' \in [RunIds -> {"none"} \cup ActiveStatus \cup TerminalRun]
    <3>1. AggregateStatus(targets[r]) \in {"none"} \cup ActiveStatus \cup TerminalRun
      BY AggregateStatusType
    <3> QED
      BY <1>2, <3>1 DEF FinalizeAggregate
  <2> QED
    BY <1>2, <2>1, <2>2, <2>3 DEF FinalizeAggregate, FinPC, sweepVars, execVars
<1>3. CASE FinalizeLoad(r)
  <2>1. runs[r] # NoRow => runs[r].status \in ActiveStatus \cup TerminalRun
    BY DEF StoreTypeOK, Run
  <2>2. now' \in 0..MaxTime /\ crashes' \in 0..MaxCrashes /\ faults' \in 0..MaxFaults
    BY <1>3, EngineAssumption DEF FinalizeLoad, Fault, envVars
  <2> QED
    BY <1>3, <2>1, <2>2, StoreStutterType DEF FinalizeLoad, FinPC, sweepVars, execVars
<1>4. CASE FinalizeDeliver(r)
  BY <1>4, StoreStutterType DEF FinalizeDeliver, FinPC, sweepVars, execVars, envVars
<1>5. CASE FinalizeRecord(r)
  <2>1. StoreTypeOK'
    BY <1>5, NotificationType, StoreStutterType DEF FinalizeRecord
  <2>2. now' \in 0..MaxTime /\ crashes' \in 0..MaxCrashes /\ faults' \in 0..MaxFaults
    BY <1>5, EngineAssumption DEF FinalizeRecord, Fault, envVars
  <2> QED
    BY <1>5, <2>1, <2>2 DEF FinalizeRecord, FinPC, sweepVars, execVars
<1> QED
  BY <1>1, <1>2, <1>3, <1>4, <1>5 DEF Finalizer

\* A request held between its read and its write is well formed.
LEMMA HoldType ==
    ASSUME TypeOK, NEW q \in Requests, NEW op, NEW t, NEW plan \in Plans,
           NEW enabled \in BOOLEAN, Hold(q, op, t, plan, enabled),
           \/ op = "create" /\ t = Null
           \/ op \in {"put", "toggle"} /\ t \in Tasks
    PROVE  TypeOK'
<1> DEFINE req == [op |-> op, task |-> t, plan |-> plan, enabled |-> enabled,
                   next |-> FirstRun(plan, enabled, now)]
<1>1. FirstRun(plan, enabled, now) \in DueTimes \cup {Null}
  BY FirstRunType DEF TypeOK
<1>2. req \in Request
  BY <1>1 DEF Request
<1>3. requests' = [requests EXCEPT ![q] = req]
  BY DEF Hold
<1> HIDE DEF req
<1>4. requests' \in [Requests -> Request \cup {NoRow}]
  BY <1>2, <1>3 DEF TypeOK
<1> QED
  BY <1>4, StoreStutterType DEF TypeOK, Hold, sweepVars, execVars, finVars, envVars

\* The write of a request preserves TypeOK.
LEMMA WriteRequestType ==
    ASSUME TypeOK, NEW q \in Requests, WriteRequest(q)
    PROVE  TypeOK'
<1> DEFINE q0 == requests[q]
<1>1. q0 \in Request
  BY DEF TypeOK, WriteRequest
<1>2. StoreTypeOK'
  <2> USE DEF TypeOK
  <2>0. /\ q0.op \in {"create", "put", "toggle"}
        /\ q0.plan \in Plans /\ q0.enabled \in BOOLEAN /\ q0.next \in DueTimes \cup {Null}
        /\ q0.op # "create" => q0.task \in Tasks
    BY <1>1 DEF Request
  <2>1. CASE q0.op = "create"
    <3>1. InsertTask(q0.plan, q0.enabled, q0.next)
      BY <2>1 DEF WriteRequest
    <3> QED
      BY <2>0, <3>1, InsertTaskType
  <2>2. CASE q0.op = "put"
    <3>1. UpdateScheduledTask(q0.task, q0.plan, q0.enabled, q0.next) \/ UNCHANGED dbVars
      BY <2>2 DEF WriteRequest
    <3> QED
      BY <2>0, <2>2, <3>1, UpdateTaskType, StoreStutterType
  <2>3. CASE q0.op = "toggle"
    <3>1. \/ CanEditTask(q0.task) /\ SetScheduledTaskEnabled(q0.task, q0.enabled, q0.next)
          \/ UNCHANGED dbVars
      BY <2>3 DEF WriteRequest
    <3> QED
      BY <2>0, <2>3, <3>1, SetEnabledType, StoreStutterType DEF CanEditTask
  <2> QED
    BY <2>0, <2>1, <2>2, <2>3
<1> QED
  BY <1>2 DEF TypeOK, WriteRequest, sweepVars, execVars, finVars, envVars

\* The read of a request preserves TypeOK.
LEMMA ReadType ==
    ASSUME TypeOK, NEW q \in Requests, ReadCreate(q) \/ ReadPut(q) \/ ReadToggle(q)
    PROVE  TypeOK'
<1>1. CASE ReadCreate(q)
  <2>1. PICK plan \in Plans, enabled \in BOOLEAN : Hold(q, "create", Null, plan, enabled)
    BY <1>1 DEF ReadCreate
  <2> QED
    BY <2>1, HoldType
<1>2. CASE ReadPut(q)
  <2>1. PICK t \in Tasks, plan \in Plans, enabled \in BOOLEAN : Hold(q, "put", t, plan, enabled)
    BY <1>2 DEF ReadPut
  <2> QED
    BY <2>1, HoldType
<1>3. CASE ReadToggle(q)
  <2>1. PICK t \in Tasks, enabled \in BOOLEAN :
          tasks[t] # NoRow /\ Hold(q, "toggle", t, tasks[t].plan, enabled)
    BY <1>3 DEF ReadToggle
  <2>2. tasks[t].plan \in Plans
    BY <2>1 DEF TypeOK, StoreTypeOK, Task
  <2> QED
    BY <2>1, <2>2, HoldType
<1> QED
  BY <1>1, <1>2, <1>3

\* Every administrator request preserves TypeOK.
LEMMA AdminType ==
    ASSUME TypeOK, Admin
    PROVE  TypeOK'
<1> USE DEF TypeOK
<1>1. ASSUME NEW q \in Requests, ReadCreate(q) \/ ReadPut(q) \/ ReadToggle(q)
      PROVE  TypeOK'
  BY <1>1, ReadType
<1>2. ASSUME NEW q \in Requests, WriteRequest(q)
      PROVE  TypeOK'
  BY <1>2, WriteRequestType
<1>3. CASE DeleteTask
  BY <1>3, DeleteTaskType DEF DeleteTask, sweepVars, execVars, finVars, envVars
<1>4. CASE RunManualTask
  <2>1. PICK t \in Tasks :
          CreateManualTaskRun(t, now) /\ Dispatch(lastRun + 1, tasks[t].plan.nodes)
    BY <1>4 DEF RunManualTask
  <2>2. now \in Nat /\ lastRun + 1 \in RunIds
    BY <2>1, BoundsAssumption DEF CreateManualTaskRun, NewRun, StoreTypeOK, RunIds
  <2>3. StoreTypeOK'
    BY <2>1, <2>2, ManualTaskRunType
  <2> QED
    BY <1>4, <2>1, <2>2, <2>3, DispatchType DEF RunManualTask, sweepVars, envVars
<1>5. CASE RunManualScript
  <2>1. PICK nodes \in (SUBSET Nodes) \ {{}} :
          CreateManualScriptRun(nodes, now) /\ Dispatch(lastRun + 1, nodes)
    BY <1>5 DEF RunManualScript
  <2>2. now \in Nat /\ lastRun + 1 \in RunIds
    BY <2>1, BoundsAssumption DEF CreateManualScriptRun, NewRun, StoreTypeOK, RunIds
  <2>3. StoreTypeOK'
    BY <2>1, <2>2, ManualScriptRunType
  <2> QED
    BY <1>5, <2>1, <2>2, <2>3, DispatchType DEF RunManualScript, sweepVars, envVars
<1>6. CASE PruneRuns
  <2>1. PICK S \in SUBSET RunIds : DeleteRuns(S)
    BY <1>6 DEF PruneRuns
  <2> QED
    BY <1>6, <2>1, DeleteRunsType DEF PruneRuns, sweepVars, execVars, finVars, envVars
<1> QED
  BY <1>1, <1>2, <1>3, <1>4, <1>5, <1>6, EngineType DEF Admin

\* The clock, a crash and a restart preserve TypeOK.
LEMMA EnvironmentType ==
    ASSUME TypeOK, Tick \/ Crash \/ Restart
    PROVE  TypeOK'
<1> USE DEF TypeOK
<1>1. CASE Tick
  BY <1>1, StoreStutterType, BoundsAssumption
  DEF Tick, sweepVars, execVars, finVars
<1>2. CASE Crash
  <2>1. /\ worker' \in [RunIds -> [Nodes -> WorkerPC]]
        /\ outcome' \in [RunIds -> [Nodes -> {"none"} \cup TerminalTarget]]
    BY <1>2 DEF Crash, NoWork, WorkerPC
  <2>2. seen' \in [RunIds -> [Nodes -> [Nodes -> {"none"} \cup ActiveStatus \cup TerminalTarget]]]
    BY <1>2 DEF Crash, NoTargets
  <2>3. /\ fin' \in [RunIds -> FinPC]
        /\ finStatus' \in [RunIds -> {"none"} \cup ActiveStatus \cup TerminalRun]
        /\ requests' \in [Requests -> Request \cup {NoRow}]
    BY <1>2 DEF Crash, FinPC
  <2>4. globalUsed' \in 0..GlobalConcurrency /\ crashes' \in 0..MaxCrashes
    BY <1>2, EngineAssumption DEF Crash
  <2>5. StoreTypeOK'
    BY <1>2, StoreStutterType DEF Crash
  <2> QED
    BY <1>2, <2>1, <2>2, <2>3, <2>4, <2>5 DEF Crash
<1>3. CASE Restart
  BY <1>3, StoreStutterType DEF Restart, execVars, finVars, envVars
<1> QED
  BY <1>1, <1>2, <1>3

\* Every step from a state of the inductive invariant preserves TypeOK.
THEOREM TypeStep == IInv /\ [Next]_vars => TypeOK'
<1> SUFFICES ASSUME IInv, [Next]_vars PROVE TypeOK'
  OBVIOUS
<1> USE DEF IInv, StoreInv, EngineInv
<1>1. CASE Engine
  BY <1>1, EngineType, BeginSweepType, SweepClaimType DEF Engine
<1>2. CASE Admin
  BY <1>2, AdminType
<1>3. CASE Tick \/ Crash \/ Restart
  BY <1>3, EnvironmentType
<1>4. ASSUME NEW r \in RunIds, Finalizer(r) PROVE TypeOK'
  BY <1>4, FinalizerType
<1>5. ASSUME NEW r \in RunIds, NEW n \in Nodes, Worker(r, n) PROVE TypeOK'
  BY <1>5, WorkerType
<1>6. CASE UNCHANGED vars
  BY <1>6, StoreStutterType
  DEF TypeOK, vars, sweepVars, execVars, finVars, envVars
<1> QED
  BY <1>1, <1>2, <1>3, <1>4, <1>5, <1>6 DEF Next

-----------------------------------------------------------------------------
(* Whatever the actor, a step changes the runs by one transaction. *)

\* Recovery and the sweep change the runs by a transaction.
LEMMA EngineTransaction ==
    ASSUME TypeOK, Engine \/ RequestInitialize
    PROVE  Transaction
<1>1. CASE Boot \/ StartRun \/ RequestInitialize
  BY <1>1 DEF Boot, StartRun, RequestInitialize, Initialize, Transaction, RunTransaction, dbVars
<1>2. CASE BeginSweep
  BY <1>2 DEF BeginSweep, Transaction, RunTransaction, dbVars
<1>3. CASE SweepClaim
  <2>1. PICK e \in batch : ClaimOne(e)
    BY <1>3 DEF SweepClaim
  <2>2. CASE UNCHANGED dbVars
    BY <2>2 DEF Transaction, RunTransaction, dbVars
  <2>3. CASE /\ ClaimWins(e.task, e.next, NextAfter(e), sweepAt)
             /\ ClaimDueTask(e.task, e.next, NextAfter(e), sweepAt)
    <3>1. e.task \in Tasks /\ e.next \in DueTimes /\ tasks[e.task] # NoRow /\ sweepAt \in Nat
      BY <2>3, BoundsAssumption DEF TypeOK, DueTask, ClaimWins
    <3>2. tasks[e.task].plan \in Plan
      BY <3>1, PlansAssumption DEF TypeOK, StoreTypeOK, Task
    <3>3. tasks[e.task].plan.policy \in Policies /\ tasks[e.task].plan.nodes \in SUBSET Nodes
      BY <3>2 DEF Plan
    <3>4. PICK overlap \in BOOLEAN : overlap = HasActiveRun(e.task)
      BY DEF HasActiveRun
    <3>5. CreateStep(e.task, "scheduled", e.next, tasks[e.task].plan.policy,
                     tasks[e.task].plan.nodes, overlap, sweepAt)
      BY <2>3, <3>4 DEF ClaimDueTask, CreateStep
    <3> QED
      BY <3>1, <3>3, <3>5 DEF Transaction
  <2> QED
    BY <2>1, <2>2, <2>3 DEF ClaimOne
<1> QED
  BY <1>1, <1>2, <1>3 DEF Engine

\* Administrator requests and retention change the runs by a transaction.
LEMMA AdminTransaction ==
    ASSUME TypeOK, Admin
    PROVE  Transaction
<1>1. ASSUME NEW q \in Requests, ReadCreate(q) \/ ReadPut(q) \/ ReadToggle(q)
      PROVE  Transaction
  BY <1>1 DEF ReadCreate, ReadPut, ReadToggle, Hold, Transaction, RunTransaction, dbVars
<1>2. ASSUME NEW q \in Requests, WriteRequest(q)
      PROVE  Transaction
  <2> DEFINE q0 == requests[q]
  <2>1. q0.op \in {"create", "put", "toggle"}
    BY <1>2 DEF TypeOK, Request, WriteRequest
  <2>2. \/ InsertTask(q0.plan, q0.enabled, q0.next)
        \/ UpdateScheduledTask(q0.task, q0.plan, q0.enabled, q0.next)
        \/ SetScheduledTaskEnabled(q0.task, q0.enabled, q0.next)
        \/ UNCHANGED dbVars
    BY <1>2, <2>1 DEF WriteRequest
  <2>3. UNCHANGED <<runs, targets, lastRun>>
    BY <2>2 DEF InsertTask, UpdateScheduledTask, SetScheduledTaskEnabled, dbVars
  <2> QED
    BY <2>3 DEF Transaction, RunTransaction
<1>3. CASE DeleteTask
  BY <1>3 DEF DeleteTask, Transaction
<1>4. CASE RunManualTask
  <2>1. PICK t \in Tasks : CreateManualTaskRun(t, now)
    BY <1>4 DEF RunManualTask
  <2>2. tasks[t].plan \in Plan /\ now \in Nat
    BY <2>1, PlansAssumption, BoundsAssumption
    DEF TypeOK, StoreTypeOK, Task, CreateManualTaskRun, CanEditTask
  <2>3. tasks[t].plan.policy \in Policies /\ tasks[t].plan.nodes \in SUBSET Nodes
    BY <2>2 DEF Plan
  <2>4. CreateStep(t, "manual", Null, tasks[t].plan.policy, tasks[t].plan.nodes, FALSE, now)
    BY <2>1 DEF CreateManualTaskRun, CanEditTask, CreateStep
  <2> QED
    BY <2>2, <2>3, <2>4 DEF Transaction
<1>5. CASE RunManualScript
  <2>1. PICK nodes \in SUBSET Nodes : CreateManualScriptRun(nodes, now)
    BY <1>5 DEF RunManualScript
  <2>2. now \in Nat /\ "never" \in Policies
    BY BoundsAssumption DEF TypeOK, Policies
  <2>3. CreateStep(Null, "manual", Null, "never", nodes, FALSE, now)
    BY <2>1 DEF CreateManualScriptRun, CreateStep
  <2> QED
    BY <2>2, <2>3 DEF Transaction
<1>6. CASE PruneRuns
  BY <1>6 DEF PruneRuns, Transaction
<1>7. CASE RequestInitialize
  BY <1>7, EngineTransaction
<1> QED
  BY <1>1, <1>2, <1>3, <1>4, <1>5, <1>6, <1>7 DEF Admin

\* executeTarget changes the runs by a transaction, with an ended result and a
\* snapshot whose settled targets still hold.
LEMMA WorkerTransaction ==
    ASSUME TypeOK, OutcomeReady, SeenSettled, NEW r \in RunIds, NEW n \in Nodes, Worker(r, n)
    PROVE  RunTransaction
<1>1. CASE AcquireNode(r, n) \/ AcquireGlobal(r, n) \/ LookupNode(r, n) \/ ScriptReturns(r, n)
           \/ BeginComplete(r, n)
  BY <1>1
  DEF AcquireNode, AcquireGlobal, LookupNode, ScriptReturns, BeginComplete, RunTransaction, dbVars
<1>2. CASE StartTarget(r, n)
  BY <1>2 DEF StartTarget, RunTransaction, dbVars
<1>3. CASE CompleteTarget(r, n)
  <2>1. CASE UNCHANGED dbVars
    BY <2>1 DEF RunTransaction, dbVars
  <2>2. CASE /\ CanComplete(r, n)
             /\ CompleteRunTarget(r, n, outcome[r][n],
                                  IF SnapshotReads THEN seen[r][n] ELSE targets[r])
    <3> DEFINE view == IF SnapshotReads THEN seen[r][n] ELSE targets[r]
    <3>1. outcome[r][n] \in TerminalTarget
      BY <1>3 DEF CompleteTarget, OutcomeReady
    <3>2. view \in TargetRow
      BY DEF TypeOK, StoreTypeOK, TargetRow
    <3>3. SettledIn(targets[r], view)
      BY <1>3, <2>2 DEF CompleteTarget, SeenSettled, SettledIn
    <3>4. CompleteStep(r, n, outcome[r][n], view)
      BY <2>2, <3>3 DEF CompleteStep
    <3> QED
      BY <3>1, <3>2, <3>4 DEF RunTransaction
  <2> QED
    BY <1>3, <2>1, <2>2 DEF CompleteTarget
<1> QED
  BY <1>1, <1>2, <1>3 DEF Worker

\* finalizeRun changes the runs by a transaction.
LEMMA FinalizerTransaction ==
    ASSUME NEW r \in RunIds, Finalizer(r)
    PROVE  RunTransaction
BY DEF Finalizer, AllTargetsDone, FinalizeAggregate, FinalizeLoad, FinalizeDeliver,
       FinalizeRecord, RunTransaction, dbVars

\* Whatever the actor, a step changes the runs by one transaction of the store.
THEOREM NextTransaction == IInv /\ [Next]_vars => Transaction
<1> SUFFICES ASSUME IInv, [Next]_vars PROVE Transaction
  OBVIOUS
<1> USE DEF IInv, EngineInv
<1>1. CASE Engine \/ Admin
  BY <1>1, EngineTransaction, AdminTransaction
<1>2. CASE Tick \/ Crash \/ Restart
  BY <1>2 DEF Tick, Crash, Restart, Transaction, RunTransaction, dbVars
<1>3. ASSUME NEW r \in RunIds, Finalizer(r) PROVE Transaction
  BY <1>3, FinalizerTransaction DEF Transaction
<1>4. ASSUME NEW r \in RunIds, NEW n \in Nodes, Worker(r, n) PROVE Transaction
  BY <1>4, WorkerTransaction DEF Transaction
<1>5. CASE UNCHANGED vars
  BY <1>5 DEF vars, dbVars, Transaction, RunTransaction
<1> QED
  BY <1>1, <1>2, <1>3, <1>4, <1>5 DEF Next

-----------------------------------------------------------------------------
(* The goroutines. *)

\* A step moves one executeTarget goroutine, creates those of a new run, loses
\* them all with the process, or leaves them alone.
Spawn ==
    /\ lastRun' = lastRun + 1
    /\ \E nodes \in SUBSET Nodes : Dispatch(lastRun + 1, nodes)
    /\ UNCHANGED <<outcome, seen, nodeSlots, globalUsed>>

ExecStep ==
    UNCHANGED execVars \/ Spawn \/ Crash \/ \E r \in RunIds, n \in Nodes : Worker(r, n)

\* A sweep only creates the goroutines of the run it claimed.
LEMMA SweepExecStep ==
    ASSUME TypeOK, SweepClaim
    PROVE  ExecStep
<1>1. PICK e \in batch : ClaimOne(e)
  BY DEF SweepClaim
<1>2. CASE UNCHANGED worker
  BY <1>2 DEF ExecStep, SweepClaim, execVars
<1>3. CASE /\ ClaimWins(e.task, e.next, NextAfter(e), sweepAt)
           /\ ClaimDueTask(e.task, e.next, NextAfter(e), sweepAt)
           /\ Dispatch(lastRun + 1, tasks[e.task].plan.nodes)
  <2>1. e.task \in Tasks /\ tasks[e.task] # NoRow
    BY <1>3 DEF TypeOK, DueTask, ClaimWins
  <2>2. tasks[e.task].plan \in Plan
    BY <2>1, PlansAssumption DEF TypeOK, StoreTypeOK, Task
  <2>3. tasks[e.task].plan.nodes \in SUBSET Nodes
    BY <2>2 DEF Plan
  <2>4. lastRun' = lastRun + 1
    BY <1>3 DEF ClaimDueTask, NewRun
  <2> QED
    BY <1>3, <2>3, <2>4 DEF ExecStep, Spawn, SweepClaim
<1> QED
  BY <1>1, <1>2, <1>3 DEF ClaimOne, Launch

\* Administrators only create the goroutines of the run they started.
LEMMA AdminExecStep ==
    ASSUME TypeOK, Admin
    PROVE  ExecStep
<1>1. CASE RunManualTask
  <2>1. PICK t \in Tasks : CreateManualTaskRun(t, now) /\ Dispatch(lastRun + 1, tasks[t].plan.nodes)
    BY <1>1 DEF RunManualTask
  <2>2. tasks[t].plan \in Plan /\ lastRun' = lastRun + 1
    BY <2>1, PlansAssumption
    DEF TypeOK, StoreTypeOK, Task, CreateManualTaskRun, CanEditTask, NewRun
  <2>3. tasks[t].plan.nodes \in SUBSET Nodes
    BY <2>2 DEF Plan
  <2> QED
    BY <1>1, <2>1, <2>2, <2>3 DEF ExecStep, Spawn, RunManualTask
<1>2. CASE RunManualScript
  <2>1. PICK nodes \in SUBSET Nodes :
          CreateManualScriptRun(nodes, now) /\ Dispatch(lastRun + 1, nodes)
    BY <1>2 DEF RunManualScript
  <2>2. lastRun' = lastRun + 1
    BY <2>1 DEF CreateManualScriptRun, NewRun
  <2> QED
    BY <1>2, <2>1, <2>2 DEF ExecStep, Spawn, RunManualScript
<1>3. CASE RequestInitialize \/ DeleteTask \/ PruneRuns
  BY <1>3 DEF RequestInitialize, DeleteTask, PruneRuns, ExecStep
<1>4. ASSUME NEW q \in Requests,
             ReadCreate(q) \/ ReadPut(q) \/ ReadToggle(q) \/ WriteRequest(q)
      PROVE  ExecStep
  BY <1>4 DEF ReadCreate, ReadPut, ReadToggle, WriteRequest, Hold, ExecStep
<1> QED
  BY <1>1, <1>2, <1>3, <1>4 DEF Admin

\* Every step is one goroutine's, a dispatch, a crash, or leaves the goroutines alone.
LEMMA NextExecStep ==
    ASSUME TypeOK, [Next]_vars
    PROVE  ExecStep
<1>1. CASE Engine
  <2>1. CASE Boot \/ StartRun \/ BeginSweep
    BY <2>1 DEF Boot, StartRun, BeginSweep, ExecStep
  <2> QED
    BY <1>1, <2>1, SweepExecStep DEF Engine
<1>2. CASE Tick \/ Crash \/ Restart
  BY <1>2 DEF Tick, Restart, ExecStep
<1>3. ASSUME NEW r \in RunIds, Finalizer(r) PROVE ExecStep
  BY <1>3
  DEF Finalizer, AllTargetsDone, FinalizeAggregate, FinalizeLoad, FinalizeDeliver,
      FinalizeRecord, ExecStep
<1>4. ASSUME NEW r \in RunIds, NEW n \in Nodes, Worker(r, n) PROVE ExecStep
  BY <1>4 DEF ExecStep
<1>5. CASE UNCHANGED vars
  BY <1>5 DEF vars, ExecStep
<1> QED
  BY <1>1, <1>2, <1>3, <1>4, <1>5, AdminExecStep DEF Next

\* A step of executeTarget moves its own goroutine only, and one that exists.
LEMMA WorkerGoes ==
    ASSUME TypeOK, NEW r \in RunIds, NEW n \in Nodes, Worker(r, n)
    PROVE  /\ worker[r][n] # "none"
           /\ \A s \in RunIds : s # r => worker'[s] = worker[s]
           /\ \A s \in RunIds, m \in Nodes : <<s, m>> # <<r, n>> =>
                 /\ worker'[s][m] = worker[s][m]
                 /\ outcome'[s][m] = outcome[s][m]
                 /\ seen'[s][m] = seen[s][m]
<1>1. PICK pc \in WorkerPC : Go(r, n, pc)
  BY DEF Worker, AcquireNode, AcquireGlobal, LookupNode, StartTarget, ScriptReturns,
         BeginComplete, CompleteTarget, WorkerPC
<1>2. worker[r][n] # "none"
  BY DEF Worker, AcquireNode, AcquireGlobal, LookupNode, StartTarget, ScriptReturns,
         BeginComplete, CompleteTarget
<1>3. /\ UNCHANGED outcome \/ \E v : outcome' = [outcome EXCEPT ![r][n] = v]
      /\ UNCHANGED seen \/ \E v : seen' = [seen EXCEPT ![r][n] = v]
  BY DEF Worker, AcquireNode, AcquireGlobal, LookupNode, StartTarget, ScriptReturns,
         BeginComplete, CompleteTarget
<1> QED
  BY <1>1, <1>2, <1>3 DEF Go, TypeOK

\* No goroutine exists for a run id not yet given out.
LEMMA FreshWorkersInv ==
    ASSUME TypeOK, FreshWorkers, Transaction, ExecStep
    PROVE  FreshWorkers'
<1>1. lastRun \in Nat /\ lastRun' \in Nat /\ lastRun' >= lastRun /\ RunIds \subseteq Nat
  BY LastRunGrows, BoundsAssumption DEF TypeOK, StoreTypeOK, RunIds
<1>2. CASE UNCHANGED execVars
  BY <1>1, <1>2 DEF FreshWorkers, execVars
<1>3. ASSUME NEW r \in RunIds, NEW n \in Nodes, Worker(r, n)
      PROVE  FreshWorkers'
  <2>1. /\ ~(r > lastRun)
        /\ \A s \in RunIds : s # r => worker'[s] = worker[s]
    BY <1>3, WorkerGoes DEF FreshWorkers
  <2>2. ASSUME NEW s \in RunIds, s > lastRun'
        PROVE  s > lastRun /\ s # r
    BY <1>1, <2>1, <2>2
  <2> QED
    BY <2>1, <2>2 DEF FreshWorkers
<1>4. CASE Spawn
  <2>1. \A s \in RunIds : s # lastRun + 1 => worker'[s] = worker[s]
    BY <1>4 DEF Spawn, Dispatch, TypeOK
  <2>2. lastRun' = lastRun + 1
    BY <1>4 DEF Spawn
  <2>3. ASSUME NEW s \in RunIds, s > lastRun'
        PROVE  s > lastRun /\ s # lastRun + 1
    BY <1>1, <2>2, <2>3
  <2> QED
    BY <2>1, <2>3 DEF FreshWorkers
<1>5. CASE Crash
  BY <1>5 DEF FreshWorkers, NoWork, Crash
<1> QED
  BY <1>2, <1>3, <1>4, <1>5 DEF ExecStep

\* dispatch replaces no goroutine.
LEMMA SpawnFresh ==
    ASSUME TypeOK, FreshWorkers, Spawn
    PROVE  /\ UNCHANGED <<outcome, seen, nodeSlots, globalUsed>>
           /\ \A r \in RunIds, n \in Nodes :
                 \/ worker'[r][n] = worker[r][n]
                 \/ worker[r][n] = "none" /\ worker'[r][n] = "node"
<1>1. PICK nodes \in SUBSET Nodes : Dispatch(lastRun + 1, nodes)
  BY DEF Spawn
<1>2. lastRun + 1 \in RunIds => \A n \in Nodes : worker[lastRun + 1][n] = "none"
  <2>1. lastRun + 1 > lastRun
    BY BoundsAssumption DEF TypeOK, StoreTypeOK
  <2> QED
    BY <2>1 DEF FreshWorkers
<1>3. \A r \in RunIds, n \in Nodes :
        worker'[r][n] = IF r # lastRun + 1 THEN worker[r][n]
                        ELSE IF n \in nodes THEN "node" ELSE "none"
  BY <1>1 DEF Dispatch, TypeOK
<1> QED
  BY <1>2, <1>3 DEF Spawn

\* A goroutine reaches CompleteRunTarget with an ended result.
LEMMA OutcomeReadyInv ==
    ASSUME TypeOK, FreshWorkers, OutcomeReady, ExecStep
    PROVE  OutcomeReady'
<1>1. CASE UNCHANGED execVars
  BY <1>1 DEF OutcomeReady, execVars
<1>2. CASE Spawn
  BY <1>2, SpawnFresh DEF OutcomeReady
<1>3. CASE Crash
  BY <1>3 DEF OutcomeReady, Crash, NoWork
<1>4. ASSUME NEW r \in RunIds, NEW n \in Nodes, Worker(r, n)
      PROVE  OutcomeReady'
  <2>1. worker'[r][n] \in {"complete", "commit"} => outcome'[r][n] \in TerminalTarget
    <3> USE DEF Go, TypeOK
    <3>1. CASE LookupNode(r, n)
      <4>1. CASE Go(r, n, "start")
        BY <4>1
      <4>2. ASSUME NEW why \in LookupFailures, outcome' = [outcome EXCEPT ![r][n] = why]
            PROVE  outcome'[r][n] \in TerminalTarget
        BY <4>2, EngineAssumption DEF TerminalTarget
      <4> QED
        BY <3>1, <4>1, <4>2 DEF LookupNode
    <3>4. CASE StartTarget(r, n)
      BY <3>4 DEF StartTarget, TerminalTarget
    <3>5. CASE ScriptReturns(r, n)
      BY <3>5, EngineAssumption DEF ScriptReturns, TerminalTarget
    <3>2. CASE AcquireNode(r, n) \/ AcquireGlobal(r, n) \/ CompleteTarget(r, n)
      BY <3>2 DEF AcquireNode, AcquireGlobal, CompleteTarget
    <3>3. CASE BeginComplete(r, n)
      BY <3>3 DEF BeginComplete, OutcomeReady
    <3> QED
      BY <1>4, <3>1, <3>2, <3>3, <3>4, <3>5 DEF Worker
  <2> QED
    BY <1>4, <2>1, WorkerGoes DEF OutcomeReady
<1> QED
  BY <1>1, <1>2, <1>3, <1>4 DEF ExecStep

\* What a completion saw as settled stays settled while its own target is not.
LEMMA SeenSettledInv ==
    ASSUME TypeOK, FreshWorkers, SeenSettled, Settling, ExecStep
    PROVE  SeenSettled'
<1>1. \A r \in RunIds, n \in Nodes :
        worker'[r][n] = "commit" =>
          \/ worker[r][n] = "commit" /\ seen'[r][n] = seen[r][n]
          \/ seen'[r][n] = targets'[r]
  <2>1. CASE UNCHANGED execVars
    BY <2>1 DEF execVars
  <2>2. CASE Spawn
    BY <2>2, SpawnFresh
  <2>3. CASE Crash
    BY <2>3 DEF Crash, NoWork
  <2>4. ASSUME NEW r \in RunIds, NEW n \in Nodes, Worker(r, n),
               worker'[r][n] = "commit"
        PROVE  seen'[r][n] = targets'[r]
    <3>1. BeginComplete(r, n)
      <4> USE DEF Go, TypeOK
      <4>1. ~AcquireNode(r, n) /\ ~AcquireGlobal(r, n) /\ ~ScriptReturns(r, n)
        BY <2>4 DEF AcquireNode, AcquireGlobal, ScriptReturns
      <4>2. ~LookupNode(r, n)
        BY <2>4 DEF LookupNode
      <4>3. ~StartTarget(r, n) /\ ~CompleteTarget(r, n)
        BY <2>4 DEF StartTarget, CompleteTarget
      <4> QED
        BY <2>4, <4>1, <4>2, <4>3 DEF Worker
    <3> QED
      BY <3>1 DEF BeginComplete, TypeOK, dbVars
  <2> QED
    BY <2>1, <2>2, <2>3, <2>4, WorkerGoes DEF ExecStep
<1>2. SUFFICES ASSUME NEW r \in RunIds, NEW n \in Nodes, worker'[r][n] = "commit",
                      CanComplete(r, n)', NEW m \in Nodes, seen'[r][n][m] \notin ActiveStatus
               PROVE  targets'[r][m] = seen'[r][n][m]
  BY DEF SeenSettled
<1>3. CASE seen'[r][n] = targets'[r]
  BY <1>3
<1>4. CASE worker[r][n] = "commit" /\ seen'[r][n] = seen[r][n]
  <2>1. r <= lastRun
    BY <1>4, BoundsAssumption DEF FreshWorkers, TypeOK, StoreTypeOK, RunIds
  <2>2. targets'[r] # NoTargets
    BY <1>2 DEF CanComplete, NoTargets, ActiveStatus
  <2>3. \A k \in Nodes : targets[r][k] \notin ActiveStatus => targets'[r][k] = targets[r][k]
    BY <2>1, <2>2 DEF Settling
  <2>4. CanComplete(r, n)
    BY <1>2, <2>3 DEF CanComplete
  <2>5. targets[r][m] = seen[r][n][m]
    BY <1>2, <1>4, <2>4 DEF SeenSettled
  <2> QED
    BY <1>2, <1>4, <2>3, <2>5
<1> QED
  BY <1>1, <1>2, <1>3, <1>4

-----------------------------------------------------------------------------
(* The slots. *)

\* SlotsExact is kept by a step that changes neither the slots nor who holds them.
LEMMA SameHolders ==
    ASSUME SlotsExact, UNCHANGED <<nodeSlots, globalUsed>>,
           \A r \in RunIds, n \in Nodes :
               /\ HoldsGlobal(r, n)' <=> HoldsGlobal(r, n)
               /\ HoldsNode(r, n)' <=> HoldsNode(r, n)
    PROVE  SlotsExact'
<1>1. GlobalHolders' = GlobalHolders
  BY DEF GlobalHolders
<1> QED
  BY <1>1 DEF SlotsExact

\* A step of one executeTarget changes what no other goroutine holds.
LEMMA MovedHolder ==
    ASSUME TypeOK, NEW r \in RunIds, NEW n \in Nodes, Worker(r, n),
           NEW s \in RunIds, NEW m \in Nodes, <<s, m>> # <<r, n>>
    PROVE  (HoldsGlobal(s, m)' <=> HoldsGlobal(s, m)) /\ (HoldsNode(s, m)' <=> HoldsNode(s, m))
BY WorkerGoes DEF HoldsGlobal, HoldsNode

\* Taking a node slot keeps SlotsExact.
LEMMA AcquireNodeSlots ==
    ASSUME TypeOK, SlotsExact, NEW r \in RunIds, NEW n \in Nodes, AcquireNode(r, n)
    PROVE  SlotsExact'
<1>1. \A s \in RunIds, m \in Nodes : <<s, m>> # <<r, n>> =>
        (HoldsGlobal(s, m)' <=> HoldsGlobal(s, m)) /\ (HoldsNode(s, m)' <=> HoldsNode(s, m))
  BY MovedHolder DEF Worker
<1>2. /\ ~HoldsGlobal(r, n) /\ ~HoldsGlobal(r, n)' /\ HoldsNode(r, n)'
      /\ \A s \in RunIds : ~HoldsNode(s, n)
      /\ nodeSlots' = nodeSlots \cup {n} /\ globalUsed' = globalUsed
  BY DEF AcquireNode, Go, TypeOK, SlotsExact, HoldsGlobal, HoldsNode
<1>3. GlobalHolders' = GlobalHolders
  BY <1>1, <1>2 DEF GlobalHolders
<1> QED
  BY <1>1, <1>2, <1>3 DEF SlotsExact

\* Taking a global slot keeps SlotsExact.
LEMMA AcquireGlobalSlots ==
    ASSUME TypeOK, SlotsExact, NEW r \in RunIds, NEW n \in Nodes, AcquireGlobal(r, n)
    PROVE  SlotsExact'
<1>1. \A s \in RunIds, m \in Nodes : <<s, m>> # <<r, n>> =>
        (HoldsGlobal(s, m)' <=> HoldsGlobal(s, m)) /\ (HoldsNode(s, m)' <=> HoldsNode(s, m))
  BY MovedHolder DEF Worker
<1>2. /\ ~HoldsGlobal(r, n) /\ HoldsGlobal(r, n)' /\ HoldsNode(r, n) /\ HoldsNode(r, n)'
      /\ nodeSlots' = nodeSlots /\ globalUsed' = globalUsed + 1
  BY DEF AcquireGlobal, Go, TypeOK, HoldsGlobal, HoldsNode
<1>3. GlobalHolders' = GlobalHolders \cup {<<r, n>>} /\ <<r, n>> \notin GlobalHolders
  BY <1>1, <1>2 DEF GlobalHolders
<1>4. Cardinality(GlobalHolders') = Cardinality(GlobalHolders) + 1
  BY <1>3, HoldersFinite, FS_AddElement
<1> QED
  BY <1>1, <1>2, <1>4 DEF SlotsExact

\* The deferred releases keep SlotsExact.
LEMMA CompleteSlots ==
    ASSUME TypeOK, SlotsExact, NEW r \in RunIds, NEW n \in Nodes, CompleteTarget(r, n)
    PROVE  SlotsExact'
<1>1. \A s \in RunIds, m \in Nodes : <<s, m>> # <<r, n>> =>
        (HoldsGlobal(s, m)' <=> HoldsGlobal(s, m)) /\ (HoldsNode(s, m)' <=> HoldsNode(s, m))
  BY MovedHolder DEF Worker
<1>2. /\ HoldsGlobal(r, n) /\ ~HoldsGlobal(r, n)' /\ HoldsNode(r, n) /\ ~HoldsNode(r, n)'
      /\ nodeSlots' = nodeSlots \ {n} /\ globalUsed' = globalUsed - 1
  BY DEF CompleteTarget, Release, Go, TypeOK, HoldsGlobal, HoldsNode
<1>3. GlobalHolders' = GlobalHolders \ {<<r, n>>} /\ <<r, n>> \in GlobalHolders
  BY <1>1, <1>2 DEF GlobalHolders
<1>4. Cardinality(GlobalHolders') = Cardinality(GlobalHolders) - 1
  BY <1>3, HoldersFinite, FS_RemoveElement
<1> QED
  BY <1>1, <1>2, <1>4 DEF SlotsExact

\* Every step of executeTarget keeps SlotsExact.
LEMMA WorkerSlots ==
    ASSUME TypeOK, SlotsExact, NEW r \in RunIds, NEW n \in Nodes, Worker(r, n)
    PROVE  SlotsExact'
<1>1. CASE LookupNode(r, n) \/ StartTarget(r, n) \/ ScriptReturns(r, n) \/ BeginComplete(r, n)
  <2>1. /\ worker[r][n] \in {"lookup", "start", "script", "complete", "commit"}
        /\ worker'[r][n] \in {"lookup", "start", "script", "complete", "commit"}
        /\ UNCHANGED <<nodeSlots, globalUsed>>
    BY <1>1 DEF LookupNode, StartTarget, ScriptReturns, BeginComplete, Go, TypeOK
  <2>2. /\ HoldsGlobal(r, n) /\ HoldsGlobal(r, n)'
        /\ HoldsNode(r, n) /\ HoldsNode(r, n)'
    BY <2>1 DEF HoldsGlobal, HoldsNode
  <2>3. \A s \in RunIds, m \in Nodes :
          (HoldsGlobal(s, m)' <=> HoldsGlobal(s, m)) /\ (HoldsNode(s, m)' <=> HoldsNode(s, m))
    BY <2>2, MovedHolder
  <2> QED
    BY <2>1, <2>3, SameHolders
<1> QED
  BY <1>1, AcquireNodeSlots, AcquireGlobalSlots, CompleteSlots DEF Worker

\* Every step keeps SlotsExact.
LEMMA SlotsExactInv ==
    ASSUME TypeOK, FreshWorkers, SlotsExact, ExecStep
    PROVE  SlotsExact'
<1>1. CASE UNCHANGED execVars
  BY <1>1, SameHolders DEF execVars, HoldsGlobal, HoldsNode
<1>2. CASE Spawn
  <2>1. \A r \in RunIds, n \in Nodes :
          (HoldsGlobal(r, n)' <=> HoldsGlobal(r, n)) /\ (HoldsNode(r, n)' <=> HoldsNode(r, n))
    BY <1>2, SpawnFresh DEF HoldsGlobal, HoldsNode
  <2> QED
    BY <1>2, <2>1, SameHolders DEF Spawn
<1>3. CASE Crash
  <2>1. \A r \in RunIds, n \in Nodes : ~HoldsGlobal(r, n)' /\ ~HoldsNode(r, n)'
    BY <1>3 DEF Crash, NoWork, HoldsGlobal, HoldsNode
  <2>2. Cardinality(GlobalHolders') = 0
    BY <2>1, FS_EmptySet DEF GlobalHolders
  <2> QED
    BY <1>3, <2>1, <2>2 DEF SlotsExact, Crash
<1> QED
  BY <1>1, <1>2, <1>3, WorkerSlots DEF ExecStep

-----------------------------------------------------------------------------
(* The theorems. *)

\* The first state satisfies the inductive invariant.
LEMMA InitInv == Init => IInv
<1> SUFFICES ASSUME Init PROVE IInv
  OBVIOUS
<1> USE DEF Init, StoreInit, NoWork, NoTargets
<1>1. TypeOK
  <2>1. StoreTypeOK
    BY BoundsAssumption DEF StoreTypeOK
  <2>2. worker \in [RunIds -> [Nodes -> WorkerPC]] /\ outcome \in Outcomes
    BY DEF WorkerPC, Outcomes
  <2>3. /\ fin \in [RunIds -> FinPC]
        /\ finStatus \in [RunIds -> {"none"} \cup ActiveStatus \cup TerminalRun]
        /\ sent \in [RunIds -> {"none"} \cup ActiveStatus \cup TerminalRun]
    BY DEF FinPC
  <2>4. seen \in [RunIds -> [Nodes -> TargetRow]]
    BY DEF TargetRow
  <2>5. /\ requests \in [Requests -> Request \cup {NoRow}]
        /\ now \in 0..MaxTime /\ sweepAt \in 0..MaxTime
        /\ globalUsed \in 0..GlobalConcurrency
        /\ crashes \in 0..MaxCrashes /\ faults \in 0..MaxFaults
    BY BoundsAssumption, EngineAssumption
  <2> QED
    BY <2>1, <2>2, <2>3, <2>4, <2>5 DEF TypeOK, Outcomes, TargetRow
<1>2. StoreInv
  BY DEF StoreInv, FreshRuns, TargetsHaveRun, EndedTargets, OneActiveRun, IsActive
<1>3. GlobalHolders = {}
  BY DEF GlobalHolders, HoldsGlobal
<1>4. SlotsExact
  BY <1>3, FS_EmptySet DEF SlotsExact, HoldsGlobal, HoldsNode
<1>5. FreshWorkers /\ OutcomeReady /\ SeenSettled
  BY DEF FreshWorkers, OutcomeReady, SeenSettled
<1> QED
  BY <1>1, <1>2, <1>4, <1>5 DEF IInv, EngineInv

\* Every step preserves the inductive invariant.
LEMMA StepInv == IInv /\ [Next]_vars => IInv'
<1> SUFFICES ASSUME IInv, [Next]_vars PROVE IInv'
  OBVIOUS
<1>1. TypeOK'
  BY TypeStep
<1>2. TypeOK /\ StoreTypeOK /\ StoreInv
  BY DEF IInv, TypeOK
<1>3. Transaction /\ ExecStep
  BY <1>2, NextTransaction, NextExecStep
<1>4. StoreInv' /\ Settling
  BY <1>2, <1>3, TransactionInv
<1>5. EngineInv'
  BY <1>2, <1>3, <1>4, FreshWorkersInv, OutcomeReadyInv, SeenSettledInv, SlotsExactInv
  DEF IInv, EngineInv
<1> QED
  BY <1>1, <1>4, <1>5 DEF IInv

\* The inductive invariant holds in every state of every behaviour.
THEOREM InductiveInvariant == Spec => []IInv
BY InitInv, StepInv, PTL DEF Spec

\* The tables and the memory of the engine are well formed in every state, with
\* faults, crashes and either database.
THEOREM TypeCorrect == Spec => []TypeOK
<1>1. IInv => TypeOK
  BY DEF IInv
<1> QED
  BY <1>1, InductiveInvariant, PTL

\* In every state the slots taken are exactly those of the executeTarget goroutines
\* between acquire and their deferred release: no path leaks or doubly releases one,
\* and no node runs two scripts at once.
THEOREM SlotsCorrect == Spec => []SlotsExact
<1>1. IInv => SlotsExact
  BY DEF IInv, EngineInv
<1> QED
  BY <1>1, InductiveInvariant, PTL

\* A schedule never has two active runs: ClaimDueTask skips and CreateManualTaskRun
\* refuses while one is, and nothing makes an ended run active again, a completion
\* from an old MySQL snapshot and finalizeRun's aggregate included.
THEOREM OneActiveRunCorrect == Spec => []OneActiveRun
<1>1. IInv => OneActiveRun
  BY DEF IInv, StoreInv
<1> QED
  BY <1>1, InductiveInvariant, PTL
=============================================================================
