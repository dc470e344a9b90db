---------------------------- MODULE TaskRunProofs ----------------------------
(***************************************************************************)
(* What becomes of the runs, for every value of the constants: who still   *)
(* has to end them, what is stored of them and what is told of them.  The  *)
(* proofs go on from IInv, the invariant of TaskEngineProofs.              *)
(***************************************************************************)
EXTENDS TaskEngineProofs

(***************************************************************************)
(* The goroutines of a run: those that wait for its targets come first,    *)
(* the notification is the last thing but its record.  None exists before  *)
(* this process has recovered.                                             *)
(***************************************************************************)
Idle == {"none", "done"}
Ending == {"load", "deliver", "record", "done"}     \* finalizeRun has aggregated

FreshFinalizers == \A r \in RunIds : r > lastRun => fin[r] = "none" /\ sent[r] = "none"

StartedAfterRecovery ==
    /\ engine \in {"idle", "sweep"} => initialized
    /\ ~initialized => \A r \in RunIds : fin[r] = "none"

WorkersAwaited ==
    \A r \in RunIds, n \in Nodes : worker[r][n] \notin Idle => fin[r] = "wait"

SentLast == \A r \in RunIds : sent[r] # "none" => fin[r] \in {"none", "record", "done"}

StageInv == FreshFinalizers /\ StartedAfterRecovery /\ WorkersAwaited /\ SentLast

(***************************************************************************)
(* While no statement has failed, a queued or running target has a         *)
(* goroutine, and what finalizeRun has read of a run stays true of it.     *)
(***************************************************************************)
TargetsOwned ==
    initialized => \A r \in RunIds, n \in Nodes :
        targets[r][n] \in ActiveStatus => worker[r][n] \notin Idle

RunsOwned ==
    initialized => \A r \in RunIds : IsActive(r) => fin[r] \in {"wait", "aggregate"}

ToldOf(r) ==
    runs[r] # NoRow =>
        /\ fin[r] \in {"deliver", "record"} =>
               finStatus[r] = runs[r].status /\ finStatus[r] \in TerminalRun
        /\ sent[r] # "none" => sent[r] = runs[r].status /\ sent[r] \in TerminalRun

Told == \A r \in RunIds : ToldOf(r)

FaultlessInv == faults = 0 => TargetsOwned /\ RunsOwned /\ Told

-----------------------------------------------------------------------------
(* What a step does to the runs and to the goroutines that end them. *)

Same == UNCHANGED <<worker, fin, finStatus, sent, initialized>>

\* Nothing, but a failing statement may be counted.
Quiet == UNCHANGED <<runs, targets, lastRun>> /\ Same

Recovery ==
    /\ ~initialized /\ initialized' = TRUE
    /\ RecoverInterruptedRuns
    /\ UNCHANGED <<worker, fin, finStatus, sent>>

Creation(t, trigger, due, policy, nodes, overlap, at) ==
    /\ initialized /\ nodes # {}
    /\ CreateStep(t, trigger, due, policy, nodes, overlap, at)
    /\ IF overlap THEN fin' = [fin EXCEPT ![lastRun + 1] = "aggregate"] /\ UNCHANGED worker
       ELSE Dispatch(lastRun + 1, nodes)
    /\ UNCHANGED <<finStatus, sent, initialized>>

Creates ==
    \E t \in Tasks \cup {Null}, trigger \in {"scheduled", "manual"},
       due \in DueTimes \cup {Null}, policy \in Policies, nodes \in SUBSET Nodes,
       overlap \in BOOLEAN, at \in Nat :
       Creation(t, trigger, due, policy, nodes, overlap, at)

DropsTask == Same /\ \E t \in Tasks : DeleteScheduledTask(t)
Prunes    == Same /\ \E S \in SUBSET RunIds : DeleteRuns(S)

RunStep ==
    \/ Quiet \/ Recovery \/ Creates \/ DropsTask \/ Prunes \/ Crash
    \/ \E r \in RunIds : Finalizer(r) \/ \E n \in Nodes : Worker(r, n)

\* The recovery happens once, whoever asks for it.
LEMMA InitializeStep ==
    ASSUME Initialize, UNCHANGED <<worker, fin, finStatus, sent>>
    PROVE  Quiet \/ Recovery
BY DEF Initialize, Quiet, Same, Recovery, dbVars

\* A sweep creates one run, skipped when another is active, or none.
LEMMA SweepRunStep ==
    ASSUME TypeOK, StartedAfterRecovery, SweepClaim
    PROVE  Quiet \/ Creates
<1>1. PICK e \in batch : ClaimOne(e)
  BY DEF SweepClaim
<1>2. UNCHANGED <<finStatus, sent, initialized>> /\ initialized
  BY DEF SweepClaim, StartedAfterRecovery
<1>3. CASE UNCHANGED <<dbVars, worker, fin>>
  BY <1>2, <1>3 DEF Quiet, Same, dbVars
<1>4. CASE /\ ClaimWins(e.task, e.next, NextAfter(e), sweepAt)
           /\ ClaimDueTask(e.task, e.next, NextAfter(e), sweepAt)
           /\ Launch(e, lastRun + 1)
  <2>1. e.task \in Tasks /\ e.next \in DueTimes /\ tasks[e.task] # NoRow /\ sweepAt \in Nat
    BY <1>4, BoundsAssumption DEF TypeOK, DueTask, ClaimWins
  <2>2. tasks[e.task].plan \in Plan /\ tasks[e.task].plan.nodes # {}
    BY <2>1, PlansAssumption DEF TypeOK, StoreTypeOK, Task
  <2>3. tasks[e.task].plan.policy \in Policies /\ tasks[e.task].plan.nodes \in SUBSET Nodes
    BY <2>2 DEF Plan
  <2>4. PICK overlap \in BOOLEAN : overlap = HasActiveRun(e.task)
    BY DEF HasActiveRun
  <2>5. Creation(e.task, "scheduled", e.next, tasks[e.task].plan.policy,
                 tasks[e.task].plan.nodes, overlap, sweepAt)
    BY <1>2, <1>4, <2>2, <2>4 DEF ClaimDueTask, CreateStep, Creation, Launch
  <2> QED
    BY <2>1, <2>3, <2>5 DEF Creates
<1> QED
  BY <1>1, <1>3, <1>4 DEF ClaimOne

\* An administrator starts one run, of a schedule without an active one, or of a script.
LEMMA ManualRunStep ==
    ASSUME TypeOK, RunManualTask \/ RunManualScript
    PROVE  Creates
<1>1. CASE RunManualTask
  <2>1. PICK t \in Tasks : CreateManualTaskRun(t, now) /\ Dispatch(lastRun + 1, tasks[t].plan.nodes)
    BY <1>1 DEF RunManualTask
  <2>2. tasks[t].plan \in Plan /\ now \in Nat /\ tasks[t].plan.nodes # {}
    BY <2>1, PlansAssumption, BoundsAssumption
    DEF TypeOK, StoreTypeOK, Task, CreateManualTaskRun, CanEditTask
  <2>3. tasks[t].plan.policy \in Policies /\ tasks[t].plan.nodes \in SUBSET Nodes
    BY <2>2 DEF Plan
  <2>4. Creation(t, "manual", Null, tasks[t].plan.policy, tasks[t].plan.nodes, FALSE, now)
    BY <1>1, <2>1, <2>2
    DEF CreateManualTaskRun, CanEditTask, CreateStep, Creation, RunManualTask, sweepVars
  <2> QED
    BY <2>2, <2>3, <2>4 DEF Creates
<1>2. CASE RunManualScript
  <2>1. PICK nodes \in (SUBSET Nodes) \ {{}} :
          CreateManualScriptRun(nodes, now) /\ Dispatch(lastRun + 1, nodes)
    BY <1>2 DEF RunManualScript
  <2>2. now \in Nat /\ "never" \in Policies
    BY BoundsAssumption DEF TypeOK, Policies
  <2>3. Creation(Null, "manual", Null, "never", nodes, FALSE, now)
    BY <1>2, <2>1 DEF CreateManualScriptRun, CreateStep, Creation, RunManualScript, sweepVars
  <2> QED
    BY <2>2, <2>3 DEF Creates
<1> QED
  BY <1>1, <1>2

\* Every step does one of these to the runs.
LEMMA NextRunStep ==
    ASSUME TypeOK, StartedAfterRecovery, [Next]_vars
    PROVE  RunStep
<1>1. CASE Boot \/ StartRun \/ RequestInitialize
  BY <1>1, InitializeStep
  DEF Boot, StartRun, RequestInitialize, Quiet, Same, RunStep, dbVars, execVars, finVars
<1>2. CASE BeginSweep \/ Tick \/ Restart
  BY <1>2 DEF BeginSweep, Tick, Restart, Quiet, Same, RunStep, dbVars, sweepVars, execVars, finVars
<1>3. CASE SweepClaim
  BY <1>3, SweepRunStep DEF RunStep
<1>4. ASSUME NEW q \in Requests, ReadCreate(q) \/ ReadPut(q) \/ ReadToggle(q)
      PROVE  RunStep
  BY <1>4 DEF ReadCreate, ReadPut, ReadToggle, Hold, Quiet, Same, RunStep, dbVars, sweepVars,
              execVars, finVars
<1>5. ASSUME NEW q \in Requests, WriteRequest(q)
      PROVE  RunStep
  <2> DEFINE q0 == requests[q]
  <2>1. q0.op \in {"create", "put", "toggle"}
    BY <1>5 DEF TypeOK, Request, WriteRequest
  <2>2. \/ InsertTask(q0.plan, q0.enabled, q0.next)
        \/ UpdateScheduledTask(q0.task, q0.plan, q0.enabled, q0.next)
        \/ SetScheduledTaskEnabled(q0.task, q0.enabled, q0.next)
        \/ UNCHANGED dbVars
    BY <1>5, <2>1 DEF WriteRequest
  <2>3. UNCHANGED <<runs, targets, lastRun>>
    BY <2>2 DEF InsertTask, UpdateScheduledTask, SetScheduledTaskEnabled, dbVars
  <2> QED
    BY <1>5, <2>3 DEF WriteRequest, Quiet, Same, RunStep, sweepVars, execVars, finVars
<1>6. CASE DeleteTask
  BY <1>6 DEF DeleteTask, DropsTask, Same, RunStep, sweepVars, execVars, finVars
<1>7. CASE PruneRuns
  BY <1>7 DEF PruneRuns, Prunes, Same, RunStep, sweepVars, execVars, finVars
<1>8. CASE RunManualTask \/ RunManualScript
  BY <1>8, ManualRunStep DEF RunStep
<1>9. CASE Crash \/ \E r \in RunIds : Finalizer(r) \/ \E n \in Nodes : Worker(r, n)
  BY <1>9 DEF RunStep
<1>10. CASE UNCHANGED vars
  BY <1>10 DEF vars, Quiet, Same, RunStep, dbVars, sweepVars, execVars, finVars
<1> QED
  BY <1>1, <1>2, <1>3, <1>4, <1>5, <1>6, <1>7, <1>8, <1>9, <1>10 DEF Next, Engine, Admin

\* Failing statements are counted for ever.
LEMMA FaultsCounted ==
    ASSUME TypeOK, [Next]_vars
    PROVE  faults' = faults \/ faults' = faults + 1
<1> USE DEF Fault, envVars
<1>1. CASE Engine
  BY <1>1 DEF Engine, Boot, StartRun, BeginSweep, SweepClaim, ClaimOne
<1>2. CASE Admin
  BY <1>2 DEF Admin, ReadCreate, ReadPut, ReadToggle, Hold, WriteRequest, RequestInitialize,
              DeleteTask, RunManualTask, RunManualScript, PruneRuns
<1>3. CASE Tick \/ Crash \/ Restart
  BY <1>3 DEF Tick, Crash, Restart
<1>4. ASSUME NEW r \in RunIds, Finalizer(r) PROVE faults' = faults \/ faults' = faults + 1
  BY <1>4 DEF Finalizer, AllTargetsDone, FinalizeAggregate, FinalizeLoad, FinalizeDeliver,
              FinalizeRecord
<1>5. ASSUME NEW r \in RunIds, NEW n \in Nodes, Worker(r, n)
      PROVE  faults' = faults \/ faults' = faults + 1
  BY <1>5 DEF Worker, AcquireNode, AcquireGlobal, LookupNode, StartTarget, ScriptReturns,
              BeginComplete, CompleteTarget
<1>6. CASE UNCHANGED vars
  BY <1>6 DEF vars
<1> QED
  BY <1>1, <1>2, <1>3, <1>4, <1>5, <1>6 DEF Next

\* executeTarget of a run changes no other run, and no goroutine but its own.
LEMMA WorkerEffect ==
    ASSUME TypeOK, NEW r \in RunIds, NEW n \in Nodes, Worker(r, n)
    PROVE  /\ UNCHANGED <<fin, finStatus, sent, initialized, lastRun>>
           /\ worker[r][n] \notin Idle
           /\ \A s \in RunIds : s # r => runs'[s] = runs[s] /\ targets'[s] = targets[s]
           /\ \/ UNCHANGED <<runs, targets>> /\ worker'[r][n] \notin Idle
              \/ CanMarkRunning(r, n) /\ MarkRunTargetRunning(r, n) /\ worker'[r][n] \notin Idle
              \/ CanComplete(r, n) /\ CompleteTarget(r, n)
                   /\ CompleteRunTarget(r, n, outcome[r][n],
                                        IF SnapshotReads THEN seen[r][n] ELSE targets[r])
              \/ ~CanComplete(r, n) /\ UNCHANGED <<runs, targets>>
              \/ faults' = faults + 1 /\ UNCHANGED <<runs, targets>>
<1> USE DEF Idle, Go, dbVars, sweepVars, finVars
<1>1. CASE AcquireNode(r, n) \/ AcquireGlobal(r, n) \/ ScriptReturns(r, n) \/ BeginComplete(r, n)
  BY <1>1 DEF AcquireNode, AcquireGlobal, ScriptReturns, BeginComplete, TypeOK
<1>2. CASE LookupNode(r, n)
  BY <1>2 DEF LookupNode, TypeOK
<1>3. CASE StartTarget(r, n)
  <2>1. worker[r][n] = "start" /\ worker'[r][n] \in {"script", "complete"}
    BY <1>3 DEF StartTarget, TypeOK
  <2>2. UNCHANGED dbVars \/ (CanMarkRunning(r, n) /\ MarkRunTargetRunning(r, n))
    BY <1>3 DEF StartTarget
  <2>3. UNCHANGED <<fin, finStatus, sent, initialized>>
    BY <1>3 DEF StartTarget
  <2> QED
    BY <2>1, <2>2, <2>3 DEF MarkRunTargetRunning, TypeOK, StoreTypeOK
<1>4. CASE CompleteTarget(r, n)
  <2>1. worker[r][n] \in {"commit", "complete"}
    BY <1>4 DEF CompleteTarget
  <2>2. UNCHANGED <<fin, finStatus, sent, initialized>>
    BY <1>4 DEF CompleteTarget
  <2>3. \/ CanComplete(r, n)
           /\ CompleteRunTarget(r, n, outcome[r][n],
                                IF SnapshotReads THEN seen[r][n] ELSE targets[r])
        \/ ~CanComplete(r, n) /\ UNCHANGED dbVars
        \/ faults' = faults + 1 /\ UNCHANGED dbVars
    BY <1>4 DEF CompleteTarget, Fault
  <2> QED
    BY <1>4, <2>1, <2>2, <2>3 DEF CompleteRunTarget, TypeOK, StoreTypeOK
<1> QED
  BY <1>1, <1>2, <1>3, <1>4 DEF Worker

\* finalizeRun leaves the goroutines of the targets, and every other run, alone.
LEMMA FinalizerEffect ==
    ASSUME TypeOK, NEW r \in RunIds, Finalizer(r)
    PROVE  /\ UNCHANGED <<worker, targets, initialized, lastRun>>
           /\ fin[r] # "none" /\ fin'[r] # "none"
           /\ \A s \in RunIds : s # r =>
                 /\ runs'[s] = runs[s] /\ fin'[s] = fin[s]
                 /\ finStatus'[s] = finStatus[s] /\ sent'[s] = sent[s]
           /\ fin[r] = "wait" => fin'[r] = "aggregate" /\ \A n \in Nodes : worker[r][n] \in Idle
           /\ fin'[r] # "wait"
<1> USE DEF dbVars, sweepVars, execVars, TypeOK, StoreTypeOK
<1>1. CASE AllTargetsDone(r)
  BY <1>1 DEF AllTargetsDone, Idle
<1>2. CASE FinalizeAggregate(r)
  BY <1>2 DEF FinalizeAggregate, AggregateRun
<1>3. CASE FinalizeLoad(r)
  BY <1>3 DEF FinalizeLoad
<1>4. CASE FinalizeDeliver(r)
  BY <1>4 DEF FinalizeDeliver
<1>5. CASE FinalizeRecord(r)
  BY <1>5 DEF FinalizeRecord, UpdateRunNotification
<1> QED
  BY <1>1, <1>2, <1>3, <1>4, <1>5 DEF Finalizer

\* What the creation of a run under the id r0 does.
Created(r0) ==
    /\ initialized /\ UNCHANGED <<finStatus, sent, initialized>>
    /\ r0 = lastRun + 1 /\ lastRun' = r0
    /\ fin[r0] = "none" /\ sent[r0] = "none" /\ fin'[r0] \in {"wait", "aggregate"}
    /\ runs'[r0] \in Run
    /\ \A s \in RunIds : s # r0 =>
          /\ runs'[s] = runs[s] /\ targets'[s] = targets[s]
          /\ fin'[s] = fin[s] /\ worker'[s] = worker[s]
    /\ \A n \in Nodes : worker'[r0][n] \in {"none", "node"}
    /\ fin'[r0] = "aggregate" =>
          /\ runs'[r0].status = "skipped"
          /\ \A n \in Nodes : worker'[r0][n] = "none"
    /\ \A n \in Nodes : targets'[r0][n] \in ActiveStatus => worker'[r0][n] = "node"
    /\ runs'[r0].status = AggregateStatus(targets'[r0])
    /\ runs'[r0].completed = {n \in Nodes : targets'[r0][n] \in TerminalTarget}
    /\ runs'[r0].succeeded = {n \in Nodes : targets'[r0][n] = "success"}

\* A new run has a new id, exact counts, and goroutines where it has targets to settle.
LEMMA CreatesEffect ==
    ASSUME TypeOK, FreshWorkers, FreshFinalizers, Creates
    PROVE  \E r0 \in RunIds : Created(r0)
<1>1. PICK t \in Tasks \cup {Null}, trigger \in {"scheduled", "manual"},
         due \in DueTimes \cup {Null}, policy \in Policies, nodes \in SUBSET Nodes,
         overlap \in BOOLEAN, at \in Nat :
         Creation(t, trigger, due, policy, nodes, overlap, at)
  BY DEF Creates
<1> DEFINE status == IF overlap THEN "skipped" ELSE "queued"
<1>0. PICK r0 : r0 = lastRun + 1
  OBVIOUS
<1>2. NewRun(t, trigger, due, policy, nodes, overlap, at)
  BY <1>1 DEF Creation, CreateStep
<1>3. /\ r0 \in RunIds /\ runs'[r0] \in Run
      /\ \A s \in RunIds : s # r0 => runs'[s] = runs[s] /\ targets'[s] = targets[s]
  <2>1. StoreTypeOK
    BY DEF TypeOK
  <2>2. /\ lastRun + 1 \in RunIds /\ runs'[lastRun + 1] \in Run
        /\ \A s \in RunIds : s # lastRun + 1 => runs'[s] = runs[s] /\ targets'[s] = targets[s]
    BY <1>2, <2>1, NewRunType
  <2> QED
    BY <1>0, <2>2
<1>4. /\ lastRun' = r0
      /\ runs'[r0].status = status
      /\ runs'[r0].completed = IF overlap THEN nodes ELSE {}
      /\ runs'[r0].succeeded = {}
      /\ targets'[r0] = [n \in Nodes |-> IF n \in nodes THEN status ELSE "none"]
  BY <1>0, <1>2, <1>3 DEF NewRun, TypeOK, StoreTypeOK
<1>5. r0 > lastRun
  BY <1>0, BoundsAssumption DEF TypeOK, StoreTypeOK
<1>6. fin[r0] = "none" /\ sent[r0] = "none" /\ \A n \in Nodes : worker[r0][n] = "none"
  BY <1>3, <1>5 DEF FreshFinalizers, FreshWorkers
<1>7. /\ IF overlap THEN fin'[r0] = "aggregate" /\ UNCHANGED worker
         ELSE /\ fin'[r0] = "wait"
              /\ \A n \in Nodes : worker'[r0][n] = IF n \in nodes THEN "node" ELSE "none"
      /\ \A s \in RunIds : s # r0 => fin'[s] = fin[s] /\ worker'[s] = worker[s]
  BY <1>0, <1>1, <1>3 DEF Creation, Dispatch, TypeOK
<1>8. PICK n0 \in Nodes : n0 \in nodes
  BY <1>1 DEF Creation
<1>9. AggregateStatus(targets'[r0]) = status
  <2>1. CASE overlap
    BY <1>4, <1>8, <2>1 DEF AggregateStatus, EndedStatus, Some, All
  <2>2. CASE ~overlap
    BY <1>4, <1>8, <2>2 DEF AggregateStatus, EndedStatus, Some, All
  <2> QED
    BY <2>1, <2>2
<1>10. /\ {n \in Nodes : targets'[r0][n] \in TerminalTarget} = IF overlap THEN nodes ELSE {}
       /\ {n \in Nodes : targets'[r0][n] = "success"} = {}
  BY <1>4 DEF TerminalTarget
<1>11. \A n \in Nodes : targets'[r0][n] \in ActiveStatus => worker'[r0][n] = "node"
  BY <1>4, <1>7 DEF ActiveStatus
<1>12. initialized /\ UNCHANGED <<finStatus, sent, initialized>>
  BY <1>1 DEF Creation
<1>13. Created(r0)
  BY <1>0, <1>3, <1>4, <1>6, <1>7, <1>9, <1>10, <1>11, <1>12 DEF Created
<1> QED
  BY <1>3, <1>13

-----------------------------------------------------------------------------
(* Every step preserves the order of the goroutines of a run. *)

Database == Quiet \/ Recovery \/ DropsTask \/ Prunes

\* A step on the database alone moves no goroutine and gives out no id.
LEMMA DatabaseFrame ==
    ASSUME Database
    PROVE  UNCHANGED <<lastRun, worker, fin, finStatus, sent>>
BY DEF Database, Quiet, Recovery, DropsTask, Prunes, Same, RecoverInterruptedRuns,
       DeleteScheduledTask, DeleteRuns

\* No finalizeRun exists for a run id not yet given out.
LEMMA FreshFinalizersInv ==
    ASSUME TypeOK, FreshWorkers, FreshFinalizers, RunStep
    PROVE  FreshFinalizers'
<1>0. lastRun \in Nat /\ RunIds \subseteq Nat
  BY BoundsAssumption DEF TypeOK, StoreTypeOK, RunIds
<1>1. CASE Database
  BY <1>1, DatabaseFrame DEF FreshFinalizers
<1>2. CASE Creates
  <2>1. PICK r0 \in RunIds : Created(r0)
    BY <1>2, CreatesEffect
  <2>2. ASSUME NEW s \in RunIds, s > lastRun' PROVE s > lastRun /\ s # r0
    BY <1>0, <2>1, <2>2 DEF Created
  <2> QED
    BY <2>1, <2>2 DEF FreshFinalizers, Created
<1>3. CASE Crash
  BY <1>3 DEF FreshFinalizers, Crash, dbVars
<1>4. ASSUME NEW r \in RunIds, Finalizer(r) PROVE FreshFinalizers'
  BY <1>4, FinalizerEffect DEF FreshFinalizers
<1>5. ASSUME NEW r \in RunIds, NEW n \in Nodes, Worker(r, n) PROVE FreshFinalizers'
  BY <1>5, WorkerEffect DEF FreshFinalizers
<1> QED
  BY <1>1, <1>2, <1>3, <1>4, <1>5 DEF RunStep, Database

\* The scheduler runs, and goroutines exist, only in a process that has recovered.
LEMMA StartedAfterRecoveryInv ==
    ASSUME TypeOK, FreshWorkers, FreshFinalizers, StartedAfterRecovery, RunStep, [Next]_vars
    PROVE  StartedAfterRecovery'
<1>1. engine' \in {"idle", "sweep"} => initialized'
  <2>1. CASE StartRun
    BY <2>1 DEF StartRun, Initialize
  <2>2. CASE Crash \/ Boot
    BY <2>2 DEF Crash, Boot
  <2>3. CASE BeginSweep \/ SweepClaim
    BY <2>3 DEF BeginSweep, SweepClaim, StartedAfterRecovery
  <2>4. CASE Restart
    BY <2>4 DEF Restart
  <2>5. CASE RequestInitialize
    BY <2>5 DEF RequestInitialize, Initialize
  <2>6. CASE UNCHANGED <<engine, initialized>>
    BY <2>6 DEF StartedAfterRecovery
  <2>7. ASSUME NEW q \in Requests, ReadCreate(q) \/ ReadPut(q) \/ ReadToggle(q) \/ WriteRequest(q)
        PROVE  UNCHANGED <<engine, initialized>>
    BY <2>7 DEF ReadCreate, ReadPut, ReadToggle, Hold, WriteRequest, sweepVars
  <2>8. CASE DeleteTask \/ RunManualTask \/ RunManualScript \/ PruneRuns \/ Tick \/ UNCHANGED vars
    <3>1. UNCHANGED <<engine, initialized>>
      BY <2>8 DEF DeleteTask, RunManualTask, RunManualScript, PruneRuns, Tick, vars, sweepVars
    <3> QED
      BY <2>6, <3>1
  <2>9. ASSUME NEW r \in RunIds, Finalizer(r) PROVE UNCHANGED <<engine, initialized>>
    BY <2>9 DEF Finalizer, AllTargetsDone, FinalizeAggregate, FinalizeLoad, FinalizeDeliver,
                FinalizeRecord, sweepVars
  <2>10. ASSUME NEW r \in RunIds, NEW n \in Nodes, Worker(r, n) PROVE UNCHANGED <<engine, initialized>>
    BY <2>10 DEF Worker, AcquireNode, AcquireGlobal, LookupNode, StartTarget, ScriptReturns,
                 BeginComplete, CompleteTarget, sweepVars
  <2> QED
    BY <2>1, <2>2, <2>3, <2>4, <2>5, <2>6, <2>7, <2>8, <2>9, <2>10 DEF Next, Engine, Admin
<1>2. ~initialized' => \A r \in RunIds : fin'[r] = "none"
  <2>1. CASE Database
    BY <2>1, DatabaseFrame
    DEF Database, Quiet, Recovery, DropsTask, Prunes, Same, StartedAfterRecovery
  <2>2. CASE Creates
    BY <2>2, CreatesEffect DEF Created
  <2>3. CASE Crash
    BY <2>3 DEF Crash
  <2>4. ASSUME NEW r \in RunIds, Finalizer(r) PROVE initialized'
    BY <2>4, FinalizerEffect DEF StartedAfterRecovery
  <2>5. ASSUME NEW r \in RunIds, NEW n \in Nodes, Worker(r, n)
        PROVE  UNCHANGED <<fin, initialized>>
    BY <2>5, WorkerEffect
  <2> QED
    BY <2>1, <2>2, <2>3, <2>4, <2>5 DEF RunStep, Database, StartedAfterRecovery
<1> QED
  BY <1>1, <1>2 DEF StartedAfterRecovery

\* finalizeRun waits while a goroutine of its run has not returned.
LEMMA WorkersAwaitedInv ==
    ASSUME TypeOK, FreshWorkers, FreshFinalizers, WorkersAwaited, RunStep
    PROVE  WorkersAwaited'
<1> USE DEF WorkersAwaited
<1>1. CASE Database
  BY <1>1, DatabaseFrame
<1>2. CASE Creates
  <2>1. PICK r0 \in RunIds : Created(r0)
    BY <1>2, CreatesEffect
  <2>2. ASSUME NEW s \in RunIds, NEW n \in Nodes, worker'[s][n] \notin Idle
        PROVE  fin'[s] = "wait"
    BY <2>1, <2>2 DEF Created, Idle
  <2> QED
    BY <2>2
<1>3. CASE Crash
  BY <1>3 DEF Crash, NoWork, Idle
<1>4. ASSUME NEW r \in RunIds, Finalizer(r) PROVE WorkersAwaited'
  BY <1>4, FinalizerEffect
<1>5. ASSUME NEW r \in RunIds, NEW n \in Nodes, Worker(r, n) PROVE WorkersAwaited'
  BY <1>5, WorkerEffect, WorkerGoes
<1> QED
  BY <1>1, <1>2, <1>3, <1>4, <1>5 DEF RunStep, Database

\* A notification is sent when nothing is left but to record it.
LEMMA SentLastInv ==
    ASSUME TypeOK, FreshWorkers, FreshFinalizers, SentLast, RunStep
    PROVE  SentLast'
<1> USE DEF SentLast
<1>1. CASE Database
  BY <1>1, DatabaseFrame
<1>2. CASE Creates
  <2>1. PICK r0 \in RunIds : Created(r0)
    BY <1>2, CreatesEffect
  <2> QED
    BY <2>1 DEF Created
<1>3. CASE Crash
  BY <1>3 DEF Crash
<1>4. ASSUME NEW r \in RunIds, Finalizer(r) PROVE SentLast'
  <2>1. sent'[r] # "none" => fin'[r] \in {"none", "record", "done"}
    <3> USE DEF TypeOK
    <3>1. CASE AllTargetsDone(r) \/ FinalizeAggregate(r) \/ FinalizeLoad(r)
      BY <1>4, <3>1 DEF AllTargetsDone, FinalizeAggregate, FinalizeLoad
    <3>2. CASE FinalizeDeliver(r) \/ FinalizeRecord(r)
      BY <3>2 DEF FinalizeDeliver, FinalizeRecord
    <3> QED
      BY <1>4, <3>1, <3>2 DEF Finalizer
  <2> QED
    BY <1>4, <2>1, FinalizerEffect
<1>5. ASSUME NEW r \in RunIds, NEW n \in Nodes, Worker(r, n) PROVE SentLast'
  BY <1>5, WorkerEffect
<1> QED
  BY <1>1, <1>2, <1>3, <1>4, <1>5 DEF RunStep, Database

-----------------------------------------------------------------------------
(* While no statement has failed, runs are owned and what is told is true. *)

\* Deleting a task changes the task of its runs only.
LEMMA DropsTaskEffect ==
    ASSUME TypeOK, DropsTask, NEW r \in RunIds
    PROVE  /\ runs'[r] = NoRow <=> runs[r] = NoRow
           /\ runs[r] # NoRow =>
                /\ runs'[r].status = runs[r].status
                /\ runs'[r].completed = runs[r].completed
                /\ runs'[r].succeeded = runs[r].succeeded
           /\ UNCHANGED targets
<1>1. PICK t \in Tasks : DeleteScheduledTask(t)
  BY DEF DropsTask
<1>2. \/ runs'[r] = runs[r]
      \/ runs[r] # NoRow /\ runs'[r] = [runs[r] EXCEPT !.task = Null]
  BY <1>1 DEF DeleteScheduledTask
<1>3. runs[r] # NoRow => runs[r] \in Run /\ [runs[r] EXCEPT !.task = Null] \in Run
  BY DEF TypeOK, StoreTypeOK, Run
<1>4. runs[r] # NoRow =>
        LET x == [runs[r] EXCEPT !.task = Null]
        IN  x.status = runs[r].status /\ x.completed = runs[r].completed
              /\ x.succeeded = runs[r].succeeded
  BY <1>3 DEF Run
<1> QED
  BY <1>1, <1>2, <1>3, <1>4, NoRowAssumption DEF DeleteScheduledTask

\* Recovery leaves the runs that have ended alone, and interrupts the others.
LEMMA RecoveryEffect ==
    ASSUME TypeOK, Recovery, NEW r \in RunIds
    PROVE  /\ ~IsActive(r) => runs'[r] = runs[r] /\ targets'[r] = targets[r]
           /\ IsActive(r) =>
                /\ runs'[r] \in Run /\ runs'[r].status = "interrupted"
                /\ targets'[r] = RecoveredTargets(r)
                /\ runs'[r].completed = {n \in Nodes : RecoveredTargets(r)[n] \in TerminalTarget}
<1>1. CASE ~IsActive(r)
  BY <1>1 DEF Recovery, RecoverInterruptedRuns, LeftRuns
<1>2. CASE IsActive(r)
  <2> DEFINE x == Aggregate(runs[r], RecoveredTargets(r))
             row == [x EXCEPT !.status = "interrupted"]
  <2>1. x \in Run
    BY <1>2, AggregateType DEF TypeOK, StoreTypeOK, IsActive
  <2>2. x.completed = {n \in Nodes : RecoveredTargets(r)[n] \in TerminalTarget}
    <3>1. runs[r] \in Run
      BY <1>2 DEF IsActive, TypeOK, StoreTypeOK
    <3> QED
      BY <3>1 DEF Aggregate, Run
  <2>3. row \in Run /\ row.status = "interrupted" /\ row.completed = x.completed
    <3> HIDE DEF x
    <3> QED
      BY <2>1 DEF Run, TerminalRun
  <2>4. runs'[r] = row /\ targets'[r] = RecoveredTargets(r)
    BY <1>2 DEF Recovery, RecoverInterruptedRuns, LeftRuns
  <2> QED
    BY <1>2, <2>2, <2>3, <2>4
<1> QED
  BY <1>1, <1>2

\* A row that is gone, or was never given out, is created only with a new id.
LEMMA NoReturn ==
    ASSUME IInv, FreshFinalizers, RunStep, NEW r \in RunIds, r <= lastRun, runs[r] = NoRow
    PROVE  runs'[r] = NoRow
<1>0. TypeOK /\ FreshWorkers /\ TargetsHaveRun /\ lastRun \in Nat /\ RunIds \subseteq Nat
  BY BoundsAssumption DEF IInv, EngineInv, StoreInv, TypeOK, StoreTypeOK, RunIds
<1>1. CASE Quiet \/ Crash
  BY <1>1 DEF Quiet, Crash, dbVars
<1>2. CASE Recovery
  BY <1>0, <1>2, RecoveryEffect DEF IsActive
<1>3. CASE Creates
  <2>1. PICK r0 \in RunIds : Created(r0)
    BY <1>0, <1>3, CreatesEffect
  <2>2. r # r0
    BY <1>0, <2>1 DEF Created
  <2> QED
    BY <2>1, <2>2 DEF Created
<1>4. CASE DropsTask
  BY <1>0, <1>4, DropsTaskEffect
<1>5. CASE Prunes
  BY <1>5 DEF Prunes, DeleteRuns
<1>6. ASSUME NEW s \in RunIds, Finalizer(s) PROVE runs'[r] = NoRow
  <2>1. CASE s # r
    BY <1>0, <1>6, <2>1, FinalizerEffect
  <2>2. CASE s = r
    BY <1>0, <1>6, <2>2
    DEF Finalizer, AllTargetsDone, FinalizeAggregate, FinalizeLoad, FinalizeDeliver,
        FinalizeRecord, dbVars
  <2> QED
    BY <2>1, <2>2
<1>7. ASSUME NEW s \in RunIds, NEW n \in Nodes, Worker(s, n) PROVE runs'[r] = NoRow
  <2>1. CASE s # r
    BY <1>0, <1>7, <2>1, WorkerEffect
  <2>2. CASE s = r
    <3>1. ~CanMarkRunning(r, n) /\ ~CanComplete(r, n)
      BY <1>0, CompletableRun DEF CanMarkRunning, IsActive
    <3> QED
      BY <1>0, <1>7, <2>2, <3>1, WorkerEffect
  <2> QED
    BY <2>1, <2>2
<1> QED
  BY <1>1, <1>2, <1>3, <1>4, <1>5, <1>6, <1>7 DEF RunStep

\* An ended run keeps its status unless finalizeRun aggregates it again.
LEMMA StatusKept ==
    ASSUME IInv, FreshFinalizers, RunStep, NEW r \in RunIds, r <= lastRun,
           runs[r] # NoRow, ~IsActive(r), ~FinalizeAggregate(r), runs'[r] # NoRow
    PROVE  runs'[r].status = runs[r].status
<1>0. TypeOK /\ FreshWorkers /\ EndedTargets /\ lastRun \in Nat /\ RunIds \subseteq Nat
  BY BoundsAssumption DEF IInv, EngineInv, StoreInv, TypeOK, StoreTypeOK, RunIds
<1>1. CASE Quiet \/ Crash
  BY <1>1 DEF Quiet, Crash, dbVars
<1>2. CASE Recovery
  BY <1>0, <1>2, RecoveryEffect
<1>3. CASE Creates
  <2>1. PICK r0 \in RunIds : Created(r0)
    BY <1>0, <1>3, CreatesEffect
  <2>2. r # r0
    BY <1>0, <2>1 DEF Created
  <2> QED
    BY <2>1, <2>2 DEF Created
<1>4. CASE DropsTask
  BY <1>0, <1>4, DropsTaskEffect
<1>5. CASE Prunes
  BY <1>5 DEF Prunes, DeleteRuns
<1>6. ASSUME NEW s \in RunIds, Finalizer(s) PROVE runs'[r].status = runs[r].status
  <2>1. CASE s # r
    BY <1>0, <1>6, <2>1, FinalizerEffect
  <2>2. CASE s = r /\ ~FinalizeRecord(r)
    BY <1>6, <2>2
    DEF Finalizer, AllTargetsDone, FinalizeLoad, FinalizeDeliver, dbVars
  <2>3. CASE s = r /\ FinalizeRecord(r)
    <3>1. runs[r] \in Run
      BY <1>0 DEF TypeOK, StoreTypeOK
    <3>2. [runs[r] EXCEPT !.notified = TRUE].status = runs[r].status
      BY <3>1 DEF Run
    <3>3. runs'[r] = runs[r] \/ runs'[r] = [runs[r] EXCEPT !.notified = TRUE]
      BY <1>0, <2>3 DEF FinalizeRecord, UpdateRunNotification, dbVars, TypeOK, StoreTypeOK
    <3> QED
      BY <3>2, <3>3
  <2> QED
    BY <2>1, <2>2, <2>3
<1>7. ASSUME NEW s \in RunIds, NEW n \in Nodes, Worker(s, n)
      PROVE  runs'[r].status = runs[r].status
  <2>1. CASE s # r
    BY <1>0, <1>7, <2>1, WorkerEffect
  <2>2. CASE s = r
    <3>1. ~CanMarkRunning(r, n) /\ ~CanComplete(r, n)
      BY <1>0 DEF CanMarkRunning, CanComplete, EndedTargets
    <3> QED
      BY <1>0, <1>7, <2>2, <3>1, WorkerEffect
  <2> QED
    BY <2>1, <2>2
<1> QED
  BY <1>1, <1>2, <1>3, <1>4, <1>5, <1>6, <1>7 DEF RunStep

\* A queued or running target has a goroutine after every step that does not fail.
LEMMA TargetsOwnedInv ==
    ASSUME IInv, StoreInv', FreshFinalizers, TargetsOwned, RunStep, faults' = 0, faults = 0
    PROVE  TargetsOwned'
<1>0. TypeOK /\ FreshWorkers /\ OutcomeReady /\ StoreTypeOK /\ StoreInv
  BY DEF IInv, EngineInv, TypeOK
<1> USE DEF TargetsOwned
<1>1. CASE Quiet
  BY <1>1 DEF Quiet, Same
<1>2. CASE Recovery
  <2>1. \A r \in RunIds : ~IsActive(r)'
    BY <1>0, <1>2, RecoverInv DEF Recovery
  <2>2. \A r \in RunIds, n \in Nodes : targets'[r][n] \notin ActiveStatus
    BY <2>1 DEF StoreInv, EndedTargets, TargetsHaveRun, NoTargets, ActiveStatus
  <2> QED
    BY <2>2
<1>3. CASE Creates
  <2>1. PICK r0 \in RunIds : Created(r0)
    BY <1>0, <1>3, CreatesEffect
  <2> QED
    BY <2>1 DEF Created, Idle
<1>4. CASE DropsTask
  BY <1>0, <1>4, DropsTaskEffect DEF DropsTask, Same
<1>5. CASE Prunes
  BY <1>5 DEF Prunes, Same, DeleteRuns, NoTargets, ActiveStatus
<1>6. CASE Crash
  BY <1>6 DEF Crash
<1>7. ASSUME NEW r \in RunIds, Finalizer(r) PROVE TargetsOwned'
  BY <1>0, <1>7, FinalizerEffect
<1>8. ASSUME NEW r \in RunIds, NEW n \in Nodes, Worker(r, n) PROVE TargetsOwned'
  <2>1. \A s \in RunIds, m \in Nodes : <<s, m>> # <<r, n>> =>
          /\ worker'[s][m] = worker[s][m]
          /\ targets'[s][m] = targets[s][m]
    <3>1. UNCHANGED targets \/ \E v : targets' = [targets EXCEPT ![r][n] = v]
      BY <1>0, <1>8, WorkerEffect DEF MarkRunTargetRunning, CompleteRunTarget
    <3> QED
      BY <1>0, <1>8, <3>1, WorkerGoes DEF StoreTypeOK
  <2>2. targets'[r][n] \in ActiveStatus => worker'[r][n] \notin Idle
    <3>1. CASE worker'[r][n] \notin Idle
      BY <3>1
    <3>2. CASE CanComplete(r, n) /\ CompleteTarget(r, n)
                 /\ CompleteRunTarget(r, n, outcome[r][n],
                                      IF SnapshotReads THEN seen[r][n] ELSE targets[r])
      <4>1. outcome[r][n] \in TerminalTarget
        BY <1>0, <3>2 DEF CompleteTarget, OutcomeReady
      <4>2. targets'[r][n] = outcome[r][n]
        BY <1>0, <3>2 DEF CompleteRunTarget, StoreTypeOK
      <4> QED
        BY <4>1, <4>2 DEF TerminalTarget, ActiveStatus
    <3>3. CASE ~CanComplete(r, n) /\ UNCHANGED <<runs, targets>>
      BY <3>3 DEF CanComplete
    <3>4. faults' # faults + 1
      OBVIOUS
    <3> QED
      BY <1>0, <1>8, <3>1, <3>2, <3>3, <3>4, WorkerEffect
  <2>3. initialized' = initialized
    BY <1>0, <1>8, WorkerEffect
  <2> QED
    BY <2>1, <2>2, <2>3
<1> QED
  BY <1>1, <1>2, <1>3, <1>4, <1>5, <1>6, <1>7, <1>8 DEF RunStep

\* finalizeRun finds every target of its run settled.
LEMMA AllSettled ==
    ASSUME StartedAfterRecovery, WorkersAwaited, TargetsOwned, NEW r \in RunIds,
           fin[r] \notin {"none", "wait"}
    PROVE  AggregateStatus(targets[r]) \in TerminalRun
<1>1. \A n \in Nodes : targets[r][n] \notin ActiveStatus
  BY DEF StartedAfterRecovery, WorkersAwaited, TargetsOwned
<1> QED
  BY <1>1, AggregateEnded

\* An active run has a goroutine that waits for it or will aggregate it, after every step
\* that does not fail.
LEMMA RunsOwnedInv ==
    ASSUME IInv, StageInv, TargetsOwned, RunsOwned, RunStep, faults' = 0, faults = 0
    PROVE  RunsOwned'
<1>0. TypeOK /\ FreshWorkers /\ FreshFinalizers /\ StoreTypeOK /\ StoreInv
  BY DEF IInv, EngineInv, TypeOK, StageInv
<1> USE DEF RunsOwned
<1>1. CASE Quiet
  BY <1>1 DEF Quiet, Same, IsActive
<1>2. CASE Recovery
  BY <1>0, <1>2, RecoverInv DEF Recovery
<1>3. CASE Creates
  <2>1. PICK r0 \in RunIds : Created(r0)
    BY <1>0, <1>3, CreatesEffect
  <2> QED
    BY <2>1 DEF Created, IsActive
<1>4. CASE DropsTask
  BY <1>0, <1>4, DropsTaskEffect DEF DropsTask, Same, IsActive
<1>5. CASE Prunes
  BY <1>5 DEF Prunes, Same, DeleteRuns, IsActive
<1>6. CASE Crash
  BY <1>6 DEF Crash
<1>7. ASSUME NEW r \in RunIds, Finalizer(r) PROVE RunsOwned'
  <2>1. \A s \in RunIds : s # r => (IsActive(s)' <=> IsActive(s)) /\ fin'[s] = fin[s]
    BY <1>0, <1>7, FinalizerEffect DEF IsActive
  <2>2. IsActive(r)' => fin'[r] \in {"wait", "aggregate"}
    <3>1. CASE fin[r] = "wait"
      BY <1>0, <1>7, <3>1, FinalizerEffect
    <3>2. CASE FinalizeAggregate(r)
      <4>1. AggregateStatus(targets[r]) \in TerminalRun
        BY <3>2, AllSettled DEF FinalizeAggregate, StageInv
      <4>2. runs[r] = NoRow => runs'[r] = NoRow
        BY <3>2 DEF FinalizeAggregate, dbVars
      <4>3. runs[r] # NoRow => AggregateRun(r)
        BY <3>2 DEF FinalizeAggregate, Fault
      <4>4. runs[r] # NoRow => runs'[r].status = AggregateStatus(targets[r])
        BY <1>0, <4>3, AggregatedRun DEF AggregateRun
      <4> QED
        BY <4>1, <4>2, <4>4 DEF IsActive, ActiveStatus, TerminalRun
    <3>3. CASE FinalizeLoad(r) \/ FinalizeDeliver(r) \/ FinalizeRecord(r)
      <4>1. fin[r] \in {"load", "deliver", "record"}
        BY <3>3 DEF FinalizeLoad, FinalizeDeliver, FinalizeRecord
      <4>2. ~IsActive(r) /\ r <= lastRun
        BY <1>0, <4>1, BoundsAssumption
        DEF StageInv, StartedAfterRecovery, FreshFinalizers, StoreTypeOK, RunIds
      <4>3. ~FinalizeAggregate(r)
        BY <4>1 DEF FinalizeAggregate
      <4> QED
        BY <1>0, <4>2, <4>3, NoReturn, StatusKept DEF IsActive
    <3> QED
      BY <1>7, <3>1, <3>2, <3>3 DEF Finalizer, AllTargetsDone
  <2>3. initialized' = initialized
    BY <1>0, <1>7, FinalizerEffect
  <2> QED
    BY <2>1, <2>2, <2>3
<1>8. ASSUME NEW r \in RunIds, NEW n \in Nodes, Worker(r, n) PROVE RunsOwned'
  <2>1. UNCHANGED <<fin, initialized>> /\ \A s \in RunIds : s # r => runs'[s] = runs[s]
    BY <1>0, <1>8, WorkerEffect
  <2>2. IsActive(r)' => IsActive(r)
    <3>1. CASE UNCHANGED runs
      BY <3>1 DEF IsActive
    <3>2. CASE CanMarkRunning(r, n)
      BY <3>2 DEF CanMarkRunning
    <3>3. CASE CanComplete(r, n)
      BY <1>0, <3>3, CompletableRun DEF StoreInv, EndedTargets, CanComplete
    <3> QED
      BY <1>0, <1>8, <3>1, <3>2, <3>3, WorkerEffect
  <2> QED
    BY <2>1, <2>2 DEF IsActive
<1> QED
  BY <1>1, <1>2, <1>3, <1>4, <1>5, <1>6, <1>7, <1>8 DEF RunStep

\* What finalizeRun has read, and what was told, stays true after every step that does
\* not fail.
LEMMA ToldInv ==
    ASSUME IInv, StageInv, TargetsOwned, RunsOwned, Told, RunStep
    PROVE  Told'
<1>0. TypeOK /\ FreshWorkers /\ FreshFinalizers /\ lastRun \in Nat /\ RunIds \subseteq Nat
  BY BoundsAssumption DEF IInv, EngineInv, TypeOK, StoreTypeOK, StageInv, RunIds
<1>1. ASSUME NEW s \in RunIds, runs'[s] # NoRow, fin[s] \in {"deliver", "record"} \/ sent[s] # "none"
      PROVE  /\ runs[s] # NoRow /\ runs'[s].status = runs[s].status
             /\ runs[s].status \in TerminalRun
  <2>1. s <= lastRun
    BY <1>0, <1>1 DEF FreshFinalizers
  <2>2. runs[s] # NoRow
    BY <1>0, <1>1, <2>1, NoReturn
  <2>3. runs[s].status \in TerminalRun
    BY <1>1, <2>2 DEF Told, ToldOf
  <2>4. ~FinalizeAggregate(s)
    BY <1>1 DEF FinalizeAggregate, StageInv, SentLast
  <2> QED
    BY <1>0, <1>1, <2>1, <2>2, <2>3, <2>4, StatusKept DEF IsActive, ActiveStatus, TerminalRun
<1>2. ASSUME NEW s \in RunIds, sent'[s] = sent[s],
             \/ fin'[s] = fin[s] /\ finStatus'[s] = finStatus[s]
             \/ fin'[s] \notin {"deliver", "record"}
      PROVE  ToldOf(s)'
  BY <1>1, <1>2 DEF Told, ToldOf
<1>3. CASE Database
  BY <1>2, <1>3, DatabaseFrame DEF Told
<1>4. CASE Creates
  <2>1. PICK r0 \in RunIds : Created(r0)
    BY <1>0, <1>4, CreatesEffect
  <2> QED
    BY <1>2, <2>1 DEF Created, Told
<1>5. CASE Crash
  BY <1>2, <1>5 DEF Crash, Told
<1>6. ASSUME NEW r \in RunIds, Finalizer(r) PROVE ToldOf(r)'
  <2> USE <1>0 DEF TypeOK
  <2>1. CASE AllTargetsDone(r) \/ FinalizeAggregate(r)
    BY <1>2, <2>1 DEF AllTargetsDone, FinalizeAggregate
  <2>2. CASE FinalizeLoad(r)
    <3>1. CASE runs[r] # NoRow
      <4>1. ~IsActive(r)
        BY <2>2 DEF FinalizeLoad, StageInv, StartedAfterRecovery, RunsOwned
      <4>2. runs[r].status \in TerminalRun
        BY <3>1, <4>1 DEF StoreTypeOK, Run, IsActive
      <4>3. sent[r] = "none"
        BY <2>2 DEF FinalizeLoad, StageInv, SentLast
      <4>4. runs'[r] = runs[r] /\ sent'[r] = "none"
        BY <2>2, <4>3 DEF FinalizeLoad, dbVars
      <4>5. fin'[r] = "deliver" => finStatus'[r] = runs[r].status
        BY <2>2 DEF FinalizeLoad
      <4>6. fin'[r] \in {"deliver", "done"}
        BY <2>2 DEF FinalizeLoad
      <4> QED
        BY <4>2, <4>4, <4>5, <4>6 DEF ToldOf
    <3>2. CASE runs[r] = NoRow
      BY <2>2, <3>2 DEF FinalizeLoad, ToldOf, dbVars
    <3> QED
      BY <3>1, <3>2
  <2>3. CASE FinalizeDeliver(r)
    BY <2>3 DEF FinalizeDeliver, Told, ToldOf, dbVars
  <2>4. CASE FinalizeRecord(r)
    BY <1>2, <2>4 DEF FinalizeRecord
  <2> QED
    BY <1>6, <2>1, <2>2, <2>3, <2>4 DEF Finalizer
<1>7. ASSUME NEW r \in RunIds, Finalizer(r) PROVE Told'
  <2>1. ASSUME NEW s \in RunIds, s # r PROVE ToldOf(s)'
    BY <1>0, <1>2, <1>7, <2>1, FinalizerEffect
  <2> QED
    BY <1>6, <1>7, <2>1 DEF Told
<1>8. ASSUME NEW r \in RunIds, NEW n \in Nodes, Worker(r, n) PROVE Told'
  BY <1>0, <1>2, <1>8, WorkerEffect DEF Told
<1> QED
  BY <1>3, <1>4, <1>5, <1>7, <1>8 DEF RunStep, Database

-----------------------------------------------------------------------------
(* The stored status and counts are those of the targets. *)

ExactRow(run, row) ==
    /\ run.completed = {n \in Nodes : row[n] \in TerminalTarget}
    /\ \/ run.status = "interrupted"
       \/ run.status = AggregateStatus(row) /\ run.succeeded = {n \in Nodes : row[n] = "success"}

\* A row is exact when an aggregate would not change it, or only end an interruption.
LEMMA ExactRowMeaning ==
    ASSUME NEW run \in Run, NEW row
    PROVE  ExactRow(run, row) <=>
             \/ Aggregate(run, row) = run
             \/ run.status = "interrupted" /\ Aggregate(run, row).completed = run.completed
<1> DEFINE x == Aggregate(run, row)
<1>1. /\ x.status = AggregateStatus(row)
      /\ x.completed = {n \in Nodes : row[n] \in TerminalTarget}
      /\ x.succeeded = {n \in Nodes : row[n] = "success"}
  BY DEF Aggregate, Run
<1>2. /\ x.status = run.status /\ x.completed = run.completed /\ x.succeeded = run.succeeded
      => x = run
  BY DEF Aggregate, Run
<1> HIDE DEF x
<1>3. ExactRow(run, row) <=> x = run \/ (run.status = "interrupted" /\ x.completed = run.completed)
  BY <1>1, <1>2 DEF ExactRow
<1> QED
  BY <1>3 DEF x

AggregatedBy(r) == SnapshotReads => fin[r] \in Ending

\* AggregateExact in terms of the columns.
LEMMA ExactMeaning ==
    ASSUME StoreTypeOK
    PROVE  AggregateExact <=>
             \A r \in RunIds : runs[r] # NoRow /\ AggregatedBy(r) => ExactRow(runs[r], targets[r])
<1>1. \A r \in RunIds : runs[r] # NoRow => runs[r] \in Run
  BY DEF StoreTypeOK
<1> QED
  BY <1>1, ExactRowMeaning DEF AggregateExact, AggregatedBy, Ending

\* CompleteRunTarget of SQLite and AggregateRun leave an exact row.
LEMMA AggregatedIsExact ==
    ASSUME NEW run \in Run, NEW row
    PROVE  ExactRow(Aggregate(run, row), row)
<1> DEFINE x == Aggregate(run, row)
<1>1. /\ x.status = AggregateStatus(row)
      /\ x.completed = {n \in Nodes : row[n] \in TerminalTarget}
      /\ x.succeeded = {n \in Nodes : row[n] = "success"}
  BY DEF Aggregate, Run
<1> HIDE DEF x
<1>2. ExactRow(x, row)
  BY <1>1 DEF ExactRow
<1> QED
  BY <1>2 DEF x

\* ... and so does MarkRunTargetRunning, which writes the status alone.
LEMMA RunningIsExact ==
    ASSUME TypeOK, NEW r \in RunIds, NEW n \in Nodes, CanMarkRunning(r, n),
           MarkRunTargetRunning(r, n), ExactRow(runs[r], targets[r])
    PROVE  ExactRow(runs'[r], targets'[r])
<1>1. runs[r] \in Run /\ runs[r].status \in ActiveStatus /\ targets[r][n] = "queued"
  BY DEF CanMarkRunning, IsActive, TypeOK, StoreTypeOK
<1>2. /\ runs[r].completed = {m \in Nodes : targets[r][m] \in TerminalTarget}
      /\ runs[r].succeeded = {m \in Nodes : targets[r][m] = "success"}
  BY <1>1 DEF ExactRow, ActiveStatus
<1>3. /\ runs'[r].status = "running"
      /\ runs'[r].completed = runs[r].completed /\ runs'[r].succeeded = runs[r].succeeded
  <2>1. runs'[r] = [runs[r] EXCEPT !.status = "running"]
    BY DEF MarkRunTargetRunning, TypeOK, StoreTypeOK
  <2> QED
    BY <1>1, <2>1 DEF Run
<1>4. targets'[r] = [targets[r] EXCEPT ![n] = "running"] /\ targets[r] \in TargetRow
  BY DEF MarkRunTargetRunning, TypeOK, StoreTypeOK, TargetRow
<1>5. /\ {m \in Nodes : targets'[r][m] \in TerminalTarget} = {m \in Nodes : targets[r][m] \in TerminalTarget}
      /\ {m \in Nodes : targets'[r][m] = "success"} = {m \in Nodes : targets[r][m] = "success"}
  BY <1>1, <1>4 DEF TargetRow, TerminalTarget
<1>6. AggregateStatus(targets'[r]) = "running"
  BY <1>4 DEF AggregateStatus, Some, TargetRow
<1> QED
  BY <1>2, <1>3, <1>5, <1>6 DEF ExactRow

\* Stored aggregates stay exact: after every transaction of SQLite, and of MySQL once
\* finalizeRun has aggregated without an error.
LEMMA ExactInv ==
    ASSUME IInv, IInv', StageInv, AggregateExact, RunStep,
           ~SnapshotReads \/ (faults' = 0 /\ faults = 0)
    PROVE  AggregateExact'
<1>0. /\ TypeOK /\ StoreTypeOK /\ FreshWorkers /\ FreshFinalizers /\ WorkersAwaited
      /\ TargetsHaveRun /\ lastRun \in Nat /\ RunIds \subseteq Nat
  BY BoundsAssumption, SMTT(30)
  DEF IInv, EngineInv, StoreInv, TypeOK, StoreTypeOK, StageInv, RunIds
<1>1. \A r \in RunIds : runs[r] # NoRow /\ AggregatedBy(r) => ExactRow(runs[r], targets[r])
  BY <1>0, ExactMeaning
<1>2. SUFFICES ASSUME NEW r \in RunIds, runs'[r] # NoRow, AggregatedBy(r)'
               PROVE  ExactRow(runs'[r], targets'[r])
  <2>1. \A r \in RunIds : runs'[r] # NoRow => runs'[r] \in Run
    BY DEF IInv, TypeOK, StoreTypeOK
  <2>2. (\A r \in RunIds : runs'[r] # NoRow /\ AggregatedBy(r)' => ExactRow(runs'[r], targets'[r]))
        => AggregateExact'
    BY <2>1, ExactRowMeaning DEF AggregateExact, AggregatedBy, Ending
  <2> QED
    BY <2>2
<1>3. ASSUME runs'[r] = runs[r], targets'[r] = targets[r], AggregatedBy(r)
      PROVE  ExactRow(runs'[r], targets'[r])
  BY <1>1, <1>2, <1>3
<1>4. ASSUME fin'[r] = fin[r] PROVE AggregatedBy(r)
  BY <1>2, <1>4 DEF AggregatedBy
<1>5. CASE Quiet
  BY <1>3, <1>4, <1>5 DEF Quiet, Same
<1>6. CASE Crash
  BY <1>2, <1>3, <1>6 DEF Crash, dbVars, AggregatedBy, Ending
<1>7. CASE Recovery
  BY <1>0, <1>3, <1>4, <1>7, RecoveryEffect DEF Recovery, ExactRow
<1>8. CASE Creates
  <2>1. PICK r0 \in RunIds : Created(r0)
    BY <1>0, <1>8, CreatesEffect
  <2>2. CASE r = r0
    BY <2>1, <2>2 DEF Created, ExactRow
  <2>3. CASE r # r0
    BY <1>3, <1>4, <2>1, <2>3 DEF Created
  <2> QED
    BY <2>2, <2>3
<1>9. CASE DropsTask
  <2>1. runs[r] # NoRow /\ ExactRow(runs[r], targets[r])
    BY <1>0, <1>1, <1>2, <1>4, <1>9, DropsTaskEffect DEF DropsTask, Same
  <2> QED
    BY <1>0, <1>9, <2>1, DropsTaskEffect DEF ExactRow
<1>10. CASE Prunes
  BY <1>2, <1>3, <1>4, <1>10 DEF Prunes, Same, DeleteRuns
<1>11. ASSUME NEW s \in RunIds, Finalizer(s) PROVE ExactRow(runs'[r], targets'[r])
  <2>1. CASE s # r
    BY <1>0, <1>3, <1>4, <1>11, <2>1, FinalizerEffect
  <2>2. targets' = targets
    BY <1>0, <1>11, FinalizerEffect
  <2>3. runs[r] # NoRow
    BY <1>0, <1>2, <1>11, BoundsAssumption, NoReturn, FinalizerEffect DEF RunStep, FreshFinalizers
  <2>4. runs[r] \in Run
    BY <1>0, <2>3 DEF StoreTypeOK
  <2>5. CASE s = r /\ FinalizeAggregate(r)
    <3>1. CASE AggregateRun(r)
      <4>1. runs'[r] = Aggregate(runs[r], targets[r])
        BY <1>0, <3>1 DEF AggregateRun, StoreTypeOK
      <4> QED
        BY <2>2, <2>4, <4>1, AggregatedIsExact
    <3>2. CASE Fault /\ UNCHANGED dbVars
      <4>1. ~SnapshotReads
        BY <3>2 DEF Fault
      <4> QED
        BY <1>3, <3>2, <4>1 DEF dbVars, AggregatedBy
    <3> QED
      BY <2>3, <2>5, <3>1, <3>2 DEF FinalizeAggregate
  <2>6. CASE s = r /\ (AllTargetsDone(r) \/ FinalizeLoad(r) \/ FinalizeDeliver(r))
    <3>1. AggregatedBy(r)
      BY <1>0, <1>2, <2>6
      DEF AllTargetsDone, FinalizeLoad, FinalizeDeliver, AggregatedBy, Ending, TypeOK
    <3>2. runs' = runs
      BY <2>6 DEF AllTargetsDone, FinalizeLoad, FinalizeDeliver, dbVars
    <3> QED
      BY <1>3, <2>2, <3>1, <3>2
  <2>7. CASE s = r /\ FinalizeRecord(r)
    <3>1. ExactRow(runs[r], targets[r])
      BY <1>1, <2>3, <2>7 DEF FinalizeRecord, AggregatedBy, Ending
    <3>2. runs'[r] = runs[r] \/ runs'[r] = [runs[r] EXCEPT !.notified = TRUE]
      BY <1>0, <2>7 DEF FinalizeRecord, UpdateRunNotification, dbVars, StoreTypeOK
    <3>3. LET x == [runs[r] EXCEPT !.notified = TRUE]
          IN  x.status = runs[r].status /\ x.completed = runs[r].completed
                /\ x.succeeded = runs[r].succeeded
      BY <2>4 DEF Run
    <3>4. /\ runs'[r].status = runs[r].status /\ runs'[r].completed = runs[r].completed
          /\ runs'[r].succeeded = runs[r].succeeded
      BY <3>2, <3>3
    <3> QED
      BY <2>2, <3>1, <3>4 DEF ExactRow
  <2> QED
    BY <1>11, <2>1, <2>5, <2>6, <2>7 DEF Finalizer
<1>12. ASSUME NEW s \in RunIds, NEW n \in Nodes, Worker(s, n)
       PROVE  ExactRow(runs'[r], targets'[r])
  <2>1. fin' = fin /\ AggregatedBy(r)
    BY <1>0, <1>4, <1>12, WorkerEffect
  <2>2. CASE s # r
    BY <1>0, <1>3, <1>12, <2>1, <2>2, WorkerEffect
  <2>3. CASE s = r
    <3>1. ~SnapshotReads
      <4>1. fin[r] = "wait"
        BY <1>0, <1>12, <2>3, WorkerEffect DEF WorkersAwaited
      <4> QED
        BY <2>1, <4>1 DEF AggregatedBy, Ending
    <3>2. CASE UNCHANGED <<runs, targets>>
      BY <1>3, <2>1, <3>2
    <3>3. CASE CanMarkRunning(r, n) /\ MarkRunTargetRunning(r, n)
      BY <1>0, <1>1, <2>1, <3>3, RunningIsExact DEF CanMarkRunning, IsActive
    <3>4. CASE CanComplete(r, n) /\ CompleteRunTarget(r, n, outcome[r][n], targets[r])
      <4>1. runs[r] \in Run
        BY <1>0, <3>4, CompletableRun DEF StoreTypeOK
      <4>2. runs'[r] = Aggregate(runs[r], targets'[r])
        BY <1>0, <3>4 DEF CompleteRunTarget, StoreTypeOK
      <4> QED
        BY <4>1, <4>2, AggregatedIsExact
    <3> QED
      BY <1>0, <1>12, <2>3, <3>1, <3>2, <3>3, <3>4, WorkerEffect
  <2> QED
    BY <2>2, <2>3
<1> QED
  BY <1>5, <1>6, <1>7, <1>8, <1>9, <1>10, <1>11, <1>12 DEF RunStep

-----------------------------------------------------------------------------
(* The theorems about the runs. *)

RunInv ==
    /\ IInv /\ StageInv /\ FaultlessInv
    /\ ~SnapshotReads \/ faults = 0 => AggregateExact

\* The first state satisfies the invariant.
LEMMA InitRunInv == Init => RunInv
<1> SUFFICES ASSUME Init PROVE RunInv
  OBVIOUS
<1>1. IInv
  BY InitInv
<1>2. StageInv
  BY DEF Init, NoWork, StageInv, FreshFinalizers, StartedAfterRecovery, WorkersAwaited, SentLast, Idle
<1>3. FaultlessInv /\ AggregateExact
  BY DEF Init, StoreInit, FaultlessInv, TargetsOwned, RunsOwned, Told, ToldOf, AggregateExact
<1> QED
  BY <1>1, <1>2, <1>3 DEF RunInv

\* Every step preserves the invariant.
LEMMA StepRunInv == RunInv /\ [Next]_vars => RunInv'
<1> SUFFICES ASSUME RunInv, [Next]_vars PROVE RunInv'
  OBVIOUS
<1>1. IInv /\ IInv' /\ StoreInv' /\ TypeOK /\ FreshWorkers /\ StageInv
  BY StepInv DEF RunInv, IInv, EngineInv
<1>2. RunStep
  BY <1>1, NextRunStep DEF StageInv
<1>3. StageInv'
  BY <1>1, <1>2, FreshFinalizersInv, StartedAfterRecoveryInv, WorkersAwaitedInv, SentLastInv
  DEF StageInv
<1>4. faults' = 0 => faults = 0
  BY <1>1, FaultsCounted, EngineAssumption DEF TypeOK
<1>5. FaultlessInv'
  BY <1>1, <1>2, <1>4, TargetsOwnedInv, RunsOwnedInv, ToldInv DEF RunInv, StageInv, FaultlessInv
<1>6. (~SnapshotReads \/ faults = 0 => AggregateExact)'
  BY <1>1, <1>2, <1>4, ExactInv DEF RunInv
<1> QED
  BY <1>1, <1>3, <1>5, <1>6 DEF RunInv

\* ... so it holds in every state.
LEMMA RunInvariant == Spec => []RunInv
BY InitRunInv, StepRunInv, PTL DEF Spec

\* As long as no statement of the database has failed, every active run of a process that
\* has recovered has a finalizeRun that will aggregate it.
THEOREM ActiveRunIsOwnedCorrect == Spec => [](faults = 0 => ActiveRunIsOwned)
<1>1. RunInv => (faults = 0 => ActiveRunIsOwned)
  BY DEF RunInv, IInv, FaultlessInv, RunsOwned, ActiveRunIsOwned
<1> QED
  BY <1>1, RunInvariant, PTL

\* The aggregate that is stored of a run is that of its targets: with SQLite always, with
\* MySQL once finalizeRun has aggregated, as long as no statement has failed.
THEOREM AggregateExactCorrect == Spec => [](~SnapshotReads \/ faults = 0 => AggregateExact)
<1>1. RunInv => (~SnapshotReads \/ faults = 0 => AggregateExact)
  BY DEF RunInv
<1> QED
  BY <1>1, RunInvariant, PTL

\* As long as no statement has failed, what a notification says of a run is and stays the
\* status of the run, crashes and deletions included.
THEOREM NotificationTruthfulCorrect == Spec => [](faults = 0 => NotificationTruthful)
<1>1. RunInv => (faults = 0 => NotificationTruthful)
  BY DEF RunInv, FaultlessInv, Told, ToldOf, NotificationTruthful
<1> QED
  BY <1>1, RunInvariant, PTL

-----------------------------------------------------------------------------
(***************************************************************************)
(* Batches: what a step does to the schedule a run belongs to, to the      *)
(* occurrence it stands for and to its being active.  Every transaction    *)
(* settles runs at most, records one for a schedule that may have it, or   *)
(* deletes a schedule without an active run, or some runs.                 *)
(***************************************************************************)
\* The columns of a run that its transactions leave alone.
SameBatch(run, old) ==
    run.task = old.task /\ run.due = old.due /\ run.trigger = old.trigger
    /\ run.created = old.created

KeepsBatch(r) ==
    /\ runs'[r] = NoRow <=> runs[r] = NoRow
    /\ runs[r] # NoRow => SameBatch(runs'[r], runs[r])
    /\ IsActive(r)' => IsActive(r)

Settles == lastRun' = lastRun /\ \A r \in RunIds : KeepsBatch(r)

TasksKept == UNCHANGED <<tasks, lastTask>>

Manual(t, policy, nodes, at) ==
    /\ t = Null \/ CanEditTask(t)
    /\ NewRun(t, "manual", Null, policy, nodes, FALSE, at)
    /\ TasksKept

Claim(t, expected, next, at) ==
    ClaimWins(t, expected, next, at) /\ ClaimDueTask(t, expected, next, at)

BatchStep ==
    \/ Settles /\ (TasksKept \/ \E q \in Requests : WriteRequest(q))
    \/ \E t \in Tasks \cup {Null}, policy \in Policies, nodes \in SUBSET Nodes, at \in Nat :
          Manual(t, policy, nodes, at)
    \/ \E t \in Tasks, expected \in DueTimes, next \in Nat \cup {Null}, at \in Nat :
          Claim(t, expected, next, at)
    \/ \E t \in Tasks : ~HasActiveRun(t) /\ DeleteScheduledTask(t)
    \/ \E S \in SUBSET RunIds : DeleteRuns(S) /\ TasksKept

\* Writing a status keeps the batch of a run.
LEMMA StatusWritten ==
    ASSUME NEW run \in Run, NEW status \in ActiveStatus \cup TerminalRun
    PROVE  /\ [run EXCEPT !.status = status] \in Run
           /\ SameBatch([run EXCEPT !.status = status], run)
BY DEF Run, SameBatch

\* ... and so does an aggregate.
LEMMA AggregateWritten ==
    ASSUME NEW run \in Run, NEW row
    PROVE  Aggregate(run, row) \in Run /\ SameBatch(Aggregate(run, row), run)
<1>1. SameBatch(Aggregate(run, row), run)
  BY DEF Aggregate, Run, SameBatch
<1> QED
  BY <1>1, AggregateType

\* A step that rewrites one run, without making it active, settles at most that run.
LEMMA OneRunSettles ==
    ASSUME StoreTypeOK, NEW r \in RunIds, runs[r] # NoRow, lastRun' = lastRun,
           \A s \in RunIds : s # r => runs'[s] = runs[s],
           runs'[r] \in Run, SameBatch(runs'[r], runs[r]), IsActive(r)' => IsActive(r)
    PROVE  Settles
<1>1. runs'[r] # NoRow
  BY NoRowAssumption
<1>2. ASSUME NEW s \in RunIds, s # r PROVE KeepsBatch(s)
  BY <1>2 DEF KeepsBatch, SameBatch, IsActive
<1> QED
  BY <1>1, <1>2 DEF Settles, KeepsBatch

\* The transactions on runs in progress, and the recovery, settle runs and write no task.
LEMMA RunTransactionSettles ==
    ASSUME StoreTypeOK, StoreInv, RunTransaction
    PROVE  Settles
<1>0. \A r \in RunIds : runs[r] # NoRow => runs[r] \in Run
  BY DEF StoreTypeOK
<1>1. CASE UNCHANGED <<runs, targets, lastRun>>
  BY <1>1 DEF Settles, KeepsBatch, SameBatch, IsActive
<1>2. ASSUME NEW r \in RunIds, NEW n \in Nodes, CanMarkRunning(r, n), MarkRunTargetRunning(r, n)
      PROVE  Settles
  <2>1. IsActive(r) /\ runs[r] # NoRow
    BY <1>2 DEF CanMarkRunning, IsActive
  <2>2. runs'[r] = [runs[r] EXCEPT !.status = "running"]
        /\ \A s \in RunIds : s # r => runs'[s] = runs[s]
    BY <1>2 DEF MarkRunTargetRunning, StoreTypeOK
  <2>3. runs'[r] \in Run /\ SameBatch(runs'[r], runs[r])
    <3>1. runs[r] \in Run /\ "running" \in ActiveStatus \cup TerminalRun
      BY <1>0, <2>1 DEF ActiveStatus
    <3> QED
      BY <2>2, <3>1, StatusWritten
  <2> QED
    BY <1>2, <2>1, <2>2, <2>3, OneRunSettles DEF MarkRunTargetRunning
<1>3. ASSUME NEW r \in RunIds, NEW n \in Nodes, NEW result \in TerminalTarget,
             NEW seen_ \in TargetRow, CompleteStep(r, n, result, seen_)
      PROVE  Settles
  <2>1. runs[r] # NoRow /\ IsActive(r)
    BY <1>3, CompletableRun DEF CompleteStep, CanComplete, StoreInv, EndedTargets
  <2>2. runs'[r] = Aggregate(runs[r], [seen_ EXCEPT ![n] = result])
        /\ \A s \in RunIds : s # r => runs'[s] = runs[s]
    BY <1>3 DEF CompleteStep, CompleteRunTarget, StoreTypeOK
  <2>3. runs'[r] \in Run /\ SameBatch(runs'[r], runs[r])
    BY <1>0, <2>1, <2>2, AggregateWritten
  <2> QED
    BY <1>3, <2>1, <2>2, <2>3, OneRunSettles DEF CompleteStep, CompleteRunTarget
<1>4. ASSUME NEW r \in RunIds, runs[r] # NoRow, AggregateRun(r)
      PROVE  Settles
  <2>1. runs'[r] = Aggregate(runs[r], targets[r]) /\ \A s \in RunIds : s # r => runs'[s] = runs[s]
    BY <1>4 DEF AggregateRun, StoreTypeOK
  <2>2. runs'[r] \in Run /\ SameBatch(runs'[r], runs[r])
    BY <1>0, <1>4, <2>1, AggregateWritten
  <2>3. runs'[r].status = AggregateStatus(targets[r])
    BY <1>4, AggregatedRun DEF AggregateRun
  <2>4. IsActive(r)' => IsActive(r)
    <3>1. AggregateStatus(targets[r]) \in TerminalRun
            <=> \A n \in Nodes : targets[r][n] \notin ActiveStatus
      BY AggregateEnded
    <3> QED
      BY <1>4, <2>3, <3>1 DEF StoreInv, EndedTargets, IsActive, ActiveStatus, TerminalRun
  <2> QED
    BY <1>4, <2>1, <2>2, <2>4, OneRunSettles DEF AggregateRun
<1>5. ASSUME NEW r \in RunIds, runs[r] # NoRow, UpdateRunNotification(r)
      PROVE  Settles
  <2>1. runs'[r] = [runs[r] EXCEPT !.notified = TRUE]
        /\ \A s \in RunIds : s # r => runs'[s] = runs[s]
    BY <1>5 DEF UpdateRunNotification, StoreTypeOK
  <2>2. runs'[r] \in Run /\ SameBatch(runs'[r], runs[r]) /\ runs'[r].status = runs[r].status
    BY <1>0, <1>5, <2>1 DEF Run, SameBatch
  <2> QED
    BY <1>5, <2>1, <2>2, OneRunSettles DEF UpdateRunNotification, IsActive
<1>6. CASE RecoverInterruptedRuns
  <2>1. \A r \in RunIds : ~IsActive(r)'
    BY <1>6, RecoverInv
  <2>2. ASSUME NEW r \in RunIds PROVE KeepsBatch(r)
    <3>1. CASE IsActive(r)
      <4>1. runs[r] \in Run
        BY <1>0, <3>1 DEF IsActive
      <4> DEFINE x == Aggregate(runs[r], RecoveredTargets(r))
      <4>2. runs'[r] = [x EXCEPT !.status = "interrupted"]
        BY <1>6, <3>1 DEF RecoverInterruptedRuns, LeftRuns
      <4>3. x \in Run /\ SameBatch(x, runs[r])
        BY <4>1, AggregateWritten
      <4>4. runs'[r] \in Run /\ SameBatch(runs'[r], x)
        <5> HIDE DEF x
        <5>1. "interrupted" \in ActiveStatus \cup TerminalRun
          BY DEF TerminalRun
        <5> QED
          BY <4>2, <4>3, <5>1, StatusWritten
      <4>5. SameBatch(runs'[r], runs[r])
        BY <4>3, <4>4 DEF SameBatch
      <4> QED
        BY <2>1, <3>1, <4>4, <4>5, NoRowAssumption DEF KeepsBatch, IsActive
    <3>2. CASE ~IsActive(r)
      BY <1>6, <2>1, <3>2 DEF RecoverInterruptedRuns, LeftRuns, KeepsBatch, SameBatch
    <3> QED
      BY <3>1, <3>2
  <2> QED
    BY <1>6, <2>2 DEF Settles, RecoverInterruptedRuns
<1> QED
  BY <1>1, <1>2, <1>3, <1>4, <1>5, <1>6 DEF RunTransaction

\* A process that starts or ends, and the clock, settle runs at most.
LEMMA ProcessBatchStep ==
    ASSUME IInv,
           \/ Boot \/ StartRun \/ RequestInitialize \/ BeginSweep
           \/ Tick \/ Crash \/ Restart \/ UNCHANGED vars
    PROVE  Settles /\ TasksKept
<1>1. RunTransaction /\ TasksKept
  BY DEF Boot, StartRun, RequestInitialize, Initialize, BeginSweep, Tick, Crash, Restart, vars,
         RecoverInterruptedRuns, RunTransaction, TasksKept, dbVars
<1> QED
  BY <1>1, RunTransactionSettles DEF IInv, TypeOK

\* A sweep records one occurrence or nothing.
LEMMA SweepBatchStep ==
    ASSUME IInv, SweepClaim
    PROVE  BatchStep
<1>1. PICK e \in batch : ClaimOne(e)
  BY DEF SweepClaim
<1>2. CASE UNCHANGED dbVars
  <2>1. RunTransaction /\ TasksKept
    BY <1>2 DEF RunTransaction, TasksKept, dbVars
  <2> QED
    BY <2>1, RunTransactionSettles DEF IInv, TypeOK, BatchStep
<1>3. CASE /\ ClaimWins(e.task, e.next, NextAfter(e), sweepAt)
           /\ ClaimDueTask(e.task, e.next, NextAfter(e), sweepAt)
  <2>1. e.task \in Tasks /\ e.next \in DueTimes /\ sweepAt \in 0..MaxTime /\ e.plan \in Plans
    BY DEF IInv, TypeOK, DueTask
  <2>2. NextAfter(e) \in Nat \cup {Null} /\ sweepAt \in Nat
    BY <2>1, NextRunAssumption, BoundsAssumption DEF NextAfter
  <2> QED
    BY <1>3, <2>1, <2>2 DEF Claim, BatchStep
<1> QED
  BY <1>1, <1>2, <1>3 DEF ClaimOne

\* Administrators write a task, start one run, delete an idle schedule or delete old runs.
LEMMA AdminBatchStep ==
    ASSUME IInv, Admin
    PROVE  BatchStep
<1>1. ASSUME NEW q \in Requests, ReadCreate(q) \/ ReadPut(q) \/ ReadToggle(q)
      PROVE  BatchStep
  <2>1. RunTransaction /\ TasksKept
    BY <1>1 DEF ReadCreate, ReadPut, ReadToggle, Hold, RunTransaction, TasksKept, dbVars
  <2> QED
    BY <2>1, RunTransactionSettles DEF IInv, TypeOK, BatchStep
<1>2. ASSUME NEW q \in Requests, WriteRequest(q)
      PROVE  BatchStep
  <2> DEFINE q0 == requests[q]
  <2>1. q0.op \in {"create", "put", "toggle"}
    BY <1>2 DEF IInv, TypeOK, Request, WriteRequest
  <2>2. \/ InsertTask(q0.plan, q0.enabled, q0.next)
        \/ UpdateScheduledTask(q0.task, q0.plan, q0.enabled, q0.next)
        \/ SetScheduledTaskEnabled(q0.task, q0.enabled, q0.next)
        \/ UNCHANGED dbVars
    BY <1>2, <2>1 DEF WriteRequest
  <2>3. RunTransaction
    BY <2>2 DEF InsertTask, UpdateScheduledTask, SetScheduledTaskEnabled, RunTransaction, dbVars
  <2> QED
    BY <1>2, <2>3, RunTransactionSettles DEF IInv, TypeOK, BatchStep
<1>3. CASE RequestInitialize
  BY <1>3, ProcessBatchStep DEF BatchStep
<1>4. CASE DeleteTask
  BY <1>4 DEF DeleteTask, CanEditTask, BatchStep
<1>5. CASE RunManualTask
  <2>1. PICK t \in Tasks : CreateManualTaskRun(t, now)
    BY <1>5 DEF RunManualTask
  <2>2. tasks[t].plan \in Plan /\ now \in Nat
    BY <2>1, PlansAssumption, BoundsAssumption
    DEF IInv, TypeOK, StoreTypeOK, Task, CreateManualTaskRun, CanEditTask
  <2>3. tasks[t].plan.policy \in Policies /\ tasks[t].plan.nodes \in SUBSET Nodes
    BY <2>2 DEF Plan
  <2>4. Manual(t, tasks[t].plan.policy, tasks[t].plan.nodes, now)
    BY <2>1 DEF CreateManualTaskRun, Manual, TasksKept
  <2> QED
    BY <2>2, <2>3, <2>4 DEF BatchStep
<1>6. CASE RunManualScript
  <2>1. PICK nodes \in SUBSET Nodes : CreateManualScriptRun(nodes, now)
    BY <1>6 DEF RunManualScript
  <2>2. now \in Nat /\ "never" \in Policies
    BY BoundsAssumption DEF IInv, TypeOK, Policies
  <2>3. Manual(Null, "never", nodes, now)
    BY <2>1 DEF CreateManualScriptRun, Manual, TasksKept
  <2> QED
    BY <2>2, <2>3 DEF BatchStep
<1>7. CASE PruneRuns
  BY <1>7 DEF PruneRuns, DeleteRuns, TasksKept, BatchStep
<1> QED
  BY <1>1, <1>2, <1>3, <1>4, <1>5, <1>6, <1>7 DEF Admin

\* Every step does one of these to the batches.
LEMMA NextBatchStep ==
    ASSUME IInv, [Next]_vars
    PROVE  BatchStep
<1>1. CASE \/ Boot \/ StartRun \/ BeginSweep \/ Tick \/ Crash \/ Restart \/ UNCHANGED vars
  BY <1>1, ProcessBatchStep DEF BatchStep
<1>2. CASE SweepClaim \/ Admin
  BY <1>2, SweepBatchStep, AdminBatchStep
<1>3. ASSUME NEW r \in RunIds, Finalizer(r) \/ \E n \in Nodes : Worker(r, n)
      PROVE  BatchStep
  <2>1. RunTransaction
    BY <1>3, FinalizerTransaction, WorkerTransaction DEF IInv, EngineInv
  <2>2. TasksKept
    BY <1>3
    DEF Finalizer, AllTargetsDone, FinalizeAggregate, FinalizeLoad, FinalizeDeliver,
        FinalizeRecord, AggregateRun, UpdateRunNotification, Worker, AcquireNode, AcquireGlobal,
        LookupNode, StartTarget, MarkRunTargetRunning, ScriptReturns, BeginComplete,
        CompleteTarget, CompleteRunTarget, TasksKept, dbVars
  <2> QED
    BY <2>1, <2>2, RunTransactionSettles DEF IInv, TypeOK, BatchStep
<1> QED
  BY <1>1, <1>2, <1>3 DEF Next, Engine

-----------------------------------------------------------------------------
(***************************************************************************)
(* One catch-up run.  The next occurrence of a schedule lies ahead of      *)
(* every claim of it: a claim moves it beyond the sweep's tick, and ids    *)
(* are never given out again, so a new schedule has no runs.  PUT and      *)
(* toggle break this: they write a next_run_at computed before the claim.  *)
(***************************************************************************)
NoEdits == AdminOps \cap {"put", "toggle"} = {}

OnlyCreates == \A q \in Requests : requests[q] # NoRow => requests[q].op = "create"

ScheduledRun(r) == runs[r] # NoRow /\ runs[r].task # Null /\ runs[r].trigger = "scheduled"

KnownTasks ==
    /\ \A r \in RunIds : runs[r] # NoRow /\ runs[r].task # Null => runs[r].task <= lastTask
    /\ \A t \in Tasks : tasks[t] # NoRow => t <= lastTask

NextAhead ==
    \A r \in RunIds, t \in Tasks :
        ScheduledRun(r) /\ runs[r].task = t /\ tasks[t] # NoRow /\ tasks[t].next # Null
            => tasks[t].next > runs[r].created

CatchUpInv == OnlyCreates /\ KnownTasks /\ NextAhead /\ CatchUpOnce

\* Without PUT and toggle every request holds a task to create.
LEMMA OnlyCreatesInv ==
    ASSUME NoEdits, TypeOK, OnlyCreates, [Next]_vars
    PROVE  OnlyCreates'
<1> USE DEF OnlyCreates
<1>1. CASE UNCHANGED requests
  BY <1>1
<1>2. ASSUME NEW q \in Requests, ReadCreate(q) \/ WriteRequest(q)
      PROVE  OnlyCreates'
  <2>1. /\ requests'[q] # NoRow => requests'[q].op = "create"
        /\ \A p \in Requests : p # q => requests'[p] = requests[p]
    <3>1. CASE WriteRequest(q)
      BY <3>1 DEF WriteRequest, TypeOK
    <3>2. CASE ReadCreate(q)
      <4>1. PICK plan \in Plans, enabled \in BOOLEAN : Hold(q, "create", Null, plan, enabled)
        BY <3>2 DEF ReadCreate
      <4> QED
        BY <4>1 DEF Hold, TypeOK
    <3> QED
      BY <1>2, <3>1, <3>2
  <2> QED
    BY <2>1
<1>3. ASSUME NEW q \in Requests
      PROVE  ~ReadPut(q) /\ ~ReadToggle(q)
  BY DEF NoEdits, ReadPut, ReadToggle
<1>4. CASE Crash
  BY <1>4 DEF Crash
<1>5. CASE Engine \/ Tick \/ Restart \/ UNCHANGED vars
  BY <1>1, <1>5 DEF Engine, Boot, StartRun, BeginSweep, SweepClaim, Tick, Restart, vars
<1>6. CASE RequestInitialize \/ DeleteTask \/ RunManualTask \/ RunManualScript \/ PruneRuns
  BY <1>1, <1>6 DEF RequestInitialize, DeleteTask, RunManualTask, RunManualScript, PruneRuns
<1>7. ASSUME NEW r \in RunIds, Finalizer(r) \/ \E n \in Nodes : Worker(r, n)
      PROVE  UNCHANGED requests
  BY <1>7
  DEF Finalizer, AllTargetsDone, FinalizeAggregate, FinalizeLoad, FinalizeDeliver,
      FinalizeRecord, Worker, AcquireNode, AcquireGlobal, LookupNode, StartTarget,
      ScriptReturns, BeginComplete, CompleteTarget
<1> QED
  BY <1>1, <1>2, <1>3, <1>4, <1>5, <1>6, <1>7 DEF Next, Admin

\* What a new run is.
LEMMA NewBatch ==
    ASSUME IInv, NEW t \in Tasks \cup {Null}, NEW trigger \in {"scheduled", "manual"},
           NEW due \in DueTimes \cup {Null}, NEW policy \in Policies,
           NEW nodes \in SUBSET Nodes, NEW overlap, NEW at \in Nat,
           NewRun(t, trigger, due, policy, nodes, overlap, at)
    PROVE  /\ lastRun + 1 \in RunIds /\ lastRun' = lastRun + 1 /\ lastRun \in Nat
           /\ runs[lastRun + 1] = NoRow /\ runs'[lastRun + 1] \in Run
           /\ runs'[lastRun + 1] # NoRow
           /\ runs'[lastRun + 1].task = t /\ runs'[lastRun + 1].trigger = trigger
           /\ runs'[lastRun + 1].due = due /\ runs'[lastRun + 1].created = at
           /\ runs'[lastRun + 1].status = IF overlap THEN "skipped" ELSE "queued"
           /\ \A s \in RunIds : s # lastRun + 1 => runs'[s] = runs[s]
           /\ \A s \in RunIds : runs[s] # NoRow => s < lastRun + 1
<1>0. StoreTypeOK /\ FreshRuns /\ lastRun \in Nat /\ RunIds \subseteq Nat
  BY BoundsAssumption DEF IInv, TypeOK, StoreTypeOK, StoreInv, RunIds
<1>1. /\ lastRun + 1 \in RunIds /\ runs'[lastRun + 1] \in Run
      /\ \A s \in RunIds : s # lastRun + 1 => runs'[s] = runs[s]
  BY <1>0, NewRunType
<1>2. /\ runs'[lastRun + 1].task = t /\ runs'[lastRun + 1].trigger = trigger
      /\ runs'[lastRun + 1].due = due /\ runs'[lastRun + 1].created = at
      /\ runs'[lastRun + 1].status = IF overlap THEN "skipped" ELSE "queued"
      /\ lastRun' = lastRun + 1
  BY <1>0, <1>1 DEF NewRun, StoreTypeOK
<1>3. \A s \in RunIds : runs[s] # NoRow => s < lastRun + 1
  BY <1>0 DEF FreshRuns
<1>4. runs[lastRun + 1] = NoRow
  BY <1>0, <1>1 DEF FreshRuns
<1>5. runs'[lastRun + 1] # NoRow
  BY <1>1, NoRowAssumption
<1> QED
  BY <1>0, <1>1, <1>2, <1>3, <1>4, <1>5

\* A step that creates no scheduled run and moves no schedule preserves what holds of both.
LEMMA KeptCatchUp ==
    ASSUME KnownTasks, NextAhead, CatchUpOnce, TasksKept,
           \A r \in RunIds : runs'[r] # NoRow /\ runs'[r].task # Null =>
               \/ runs[r] # NoRow /\ SameBatch(runs'[r], runs[r])
               \/ runs'[r].trigger = "manual" /\ runs'[r].task <= lastTask
    PROVE  (KnownTasks /\ NextAhead /\ CatchUpOnce)'
<1>1. ASSUME NEW r \in RunIds, ScheduledRun(r)'
      PROVE  ScheduledRun(r) /\ SameBatch(runs'[r], runs[r])
  BY <1>1 DEF ScheduledRun, SameBatch
<1>2. KnownTasks'
  BY DEF KnownTasks, TasksKept, SameBatch
<1>3. NextAhead'
  BY <1>1 DEF NextAhead, TasksKept, SameBatch
<1>4. CatchUpOnce'
  BY <1>1 DEF CatchUpOnce, ScheduledRun, SameBatch
<1> QED
  BY <1>2, <1>3, <1>4

\* A claim takes an occurrence later than every earlier claim of its schedule, and moves
\* the schedule beyond it.
LEMMA ClaimCatchUp ==
    ASSUME IInv, KnownTasks, NextAhead, CatchUpOnce, NEW t \in Tasks, NEW expected \in DueTimes,
           NEW next \in Nat \cup {Null}, NEW at \in Nat, Claim(t, expected, next, at)
    PROVE  (KnownTasks /\ NextAhead /\ CatchUpOnce)'
<1>0. /\ lastTask \in Nat /\ Tasks \subseteq Nat /\ expected \in Nat /\ Null \notin Nat
      /\ \A r \in RunIds : runs[r] # NoRow => runs[r] \in Run
  BY BoundsAssumption, DueTimesNat, NullAssumption DEF IInv, TypeOK, StoreTypeOK, Tasks
<1>1. /\ tasks[t] # NoRow /\ tasks[t] \in Task /\ tasks[t].next = expected /\ t <= lastTask
      /\ next # Null => next > at /\ next > expected
  BY DEF Claim, ClaimWins, IInv, TypeOK, StoreTypeOK, KnownTasks
<1>2. PICK policy \in Policies, nodes \in SUBSET Nodes :
        policy = tasks[t].plan.policy /\ nodes = tasks[t].plan.nodes
  BY <1>1, PlansAssumption DEF Task, Plan
<1>3. PICK overlap \in BOOLEAN : overlap = HasActiveRun(t)
  BY DEF HasActiveRun
<1>4. NewRun(t, "scheduled", expected, policy, nodes, overlap, at)
  BY <1>2, <1>3 DEF Claim, ClaimDueTask
<1>5. PICK r0 \in RunIds :
        /\ r0 = lastRun + 1
        /\ runs[r0] = NoRow /\ runs'[r0] # NoRow
        /\ runs'[r0].task = t /\ runs'[r0].trigger = "scheduled"
        /\ runs'[r0].due = expected /\ runs'[r0].created = at
        /\ \A s \in RunIds : s # r0 => runs'[s] = runs[s]
        /\ \A s \in RunIds : runs[s] # NoRow => s < r0
  <2>1. t \in Tasks \cup {Null} /\ expected \in DueTimes \cup {Null}
    OBVIOUS
  <2> DEFINE r0 == lastRun + 1
  <2>2. /\ r0 \in RunIds
        /\ runs[r0] = NoRow /\ runs'[r0] # NoRow
        /\ runs'[r0].task = t /\ runs'[r0].trigger = "scheduled"
        /\ runs'[r0].due = expected /\ runs'[r0].created = at
        /\ \A s \in RunIds : s # r0 => runs'[s] = runs[s]
        /\ \A s \in RunIds : runs[s] # NoRow => s < r0
    BY <1>4, <2>1, NewBatch, ZenonT(60)
  <2> QED
    BY <2>2
<1>6. /\ \A s \in Tasks : s # t => tasks'[s] = tasks[s]
      /\ tasks'[t].next = next /\ lastTask' = lastTask
  BY <1>1 DEF Claim, ClaimDueTask, IInv, TypeOK, StoreTypeOK, Task
<1>7. \A r \in RunIds : ScheduledRun(r) /\ runs[r].task = t => expected > runs[r].created
  BY <1>0, <1>1 DEF NextAhead
<1>8. KnownTasks'
  BY <1>1, <1>5, <1>6 DEF KnownTasks
<1>9. NextAhead'
  <2> SUFFICES ASSUME NEW r \in RunIds, NEW u \in Tasks, ScheduledRun(r)', runs'[r].task = u,
                      tasks'[u] # NoRow, tasks'[u].next # Null
               PROVE  tasks'[u].next > runs'[r].created
    BY DEF NextAhead
  <2>1. CASE r = r0
    BY <1>0, <1>1, <1>5, <1>6, <2>1
  <2>2. CASE r # r0 /\ u = t
    <3>1. runs'[r] = runs[r] /\ ScheduledRun(r) /\ runs[r].task = t /\ runs[r].created \in Nat
      BY <1>0, <1>5, <2>2 DEF ScheduledRun, Run
    <3> QED
      BY <1>0, <1>1, <1>6, <1>7, <2>2, <3>1
  <2>3. CASE r # r0 /\ u # t
    BY <1>5, <1>6, <2>3 DEF NextAhead, ScheduledRun
  <2> QED
    BY <2>1, <2>2, <2>3
<1>10. CatchUpOnce'
  <2> SUFFICES ASSUME NEW r \in RunIds, NEW s \in RunIds, r < s, ScheduledRun(r)',
                      ScheduledRun(s)', runs'[r].task = runs'[s].task
               PROVE  runs'[s].due > runs'[r].created
    BY DEF CatchUpOnce, ScheduledRun
  <2>1. s # r0 => s < r0
    BY <1>5 DEF ScheduledRun
  <2>2. r # r0
    BY <1>5, <2>1 DEF RunIds
  <2>3. runs'[r] = runs[r] /\ ScheduledRun(r)
    BY <1>5, <2>2 DEF ScheduledRun
  <2>4. CASE s = r0
    BY <1>5, <1>7, <2>3, <2>4
  <2>5. CASE s # r0
    BY <1>5, <2>3, <2>5 DEF ScheduledRun, CatchUpOnce
  <2> QED
    BY <2>4, <2>5
<1> QED
  BY <1>8, <1>9, <1>10

\* Without PUT and toggle every step keeps next occurrences ahead of the claims.
LEMMA CatchUpStep ==
    ASSUME NoEdits, IInv, CatchUpInv, [Next]_vars
    PROVE  CatchUpInv'
<1>0. /\ lastTask \in Nat /\ Tasks \subseteq Nat /\ Null \notin Tasks
      /\ \A r \in RunIds : runs[r] # NoRow => runs[r] \in Run
  BY BoundsAssumption, NullAssumption DEF IInv, TypeOK, StoreTypeOK, Tasks
<1>1. OnlyCreates'
  BY OnlyCreatesInv DEF IInv, CatchUpInv
<1>2. CASE Settles /\ TasksKept
  <2>1. \A r \in RunIds : runs'[r] # NoRow => runs[r] # NoRow /\ SameBatch(runs'[r], runs[r])
    BY <1>2 DEF Settles, KeepsBatch
  <2> QED
    BY <1>1, <1>2, <2>1, KeptCatchUp DEF CatchUpInv
<1>3. ASSUME Settles, NEW q \in Requests, WriteRequest(q)
      PROVE  CatchUpInv'
  <2> DEFINE q0 == requests[q]
  <2>1. InsertTask(q0.plan, q0.enabled, q0.next)
    BY <1>3 DEF CatchUpInv, OnlyCreates, WriteRequest
  <2>2. /\ lastTask' = lastTask + 1 /\ \A t \in Tasks : t # lastTask + 1 => tasks'[t] = tasks[t]
    BY <2>1 DEF InsertTask, IInv, TypeOK, StoreTypeOK
  <2>3. runs' = runs
    BY <2>1 DEF InsertTask
  <2>4. KnownTasks'
    BY <1>0, <2>2, <2>3 DEF CatchUpInv, KnownTasks, Tasks, Run
  <2>5. NextAhead'
    <3> SUFFICES ASSUME NEW r \in RunIds, NEW t \in Tasks, ScheduledRun(r), runs[r].task = t,
                        tasks'[t] # NoRow, tasks'[t].next # Null
                 PROVE  tasks'[t].next > runs[r].created
      BY <2>3 DEF NextAhead, ScheduledRun
    <3>1. t <= lastTask
      BY DEF CatchUpInv, KnownTasks, ScheduledRun
    <3>2. tasks'[t] = tasks[t]
      BY <1>0, <2>2, <3>1
    <3> QED
      BY <3>2 DEF CatchUpInv, NextAhead
  <2>6. CatchUpOnce'
    BY <2>3 DEF CatchUpInv, CatchUpOnce
  <2> QED
    BY <1>1, <2>4, <2>5, <2>6 DEF CatchUpInv
<1>4. ASSUME NEW t \in Tasks \cup {Null}, NEW policy \in Policies, NEW nodes \in SUBSET Nodes,
             NEW at \in Nat, Manual(t, policy, nodes, at)
      PROVE  CatchUpInv'
  <2>1. PICK r0 \in RunIds :
          /\ runs'[r0].task = t /\ runs'[r0].trigger = "manual"
          /\ \A s \in RunIds : s # r0 => runs'[s] = runs[s]
    BY <1>4, NewBatch DEF Manual
  <2>2. t # Null => t <= lastTask
    BY <1>4 DEF Manual, CanEditTask, CatchUpInv, KnownTasks
  <2>3. TasksKept
    BY <1>4 DEF Manual
  <2> QED
    BY <1>1, <2>1, <2>2, <2>3, KeptCatchUp DEF CatchUpInv, SameBatch
<1>5. ASSUME NEW t \in Tasks, NEW expected \in DueTimes, NEW next \in Nat \cup {Null},
             NEW at \in Nat, Claim(t, expected, next, at)
      PROVE  CatchUpInv'
  BY <1>1, <1>5, ClaimCatchUp DEF CatchUpInv
<1>6. ASSUME NEW t \in Tasks, DeleteScheduledTask(t)
      PROVE  CatchUpInv'
  <2>1. /\ \A s \in Tasks : tasks'[s] # NoRow => tasks'[s] = tasks[s]
        /\ lastTask' = lastTask
    BY <1>6 DEF DeleteScheduledTask, IInv, TypeOK, StoreTypeOK
  <2>2. ASSUME NEW r \in RunIds, runs'[r] # NoRow, runs'[r].task # Null
        PROVE  runs'[r] = runs[r]
    <3>1. runs[r] \in Run => [runs[r] EXCEPT !.task = Null].task = Null
      BY DEF Run
    <3> QED
      BY <1>0, <1>6, <2>2, <3>1 DEF DeleteScheduledTask
  <2>3. KnownTasks'
    BY <2>1, <2>2 DEF CatchUpInv, KnownTasks
  <2>4. NextAhead'
    BY <2>1, <2>2 DEF CatchUpInv, NextAhead, ScheduledRun
  <2>5. CatchUpOnce'
    BY <2>2 DEF CatchUpInv, CatchUpOnce
  <2> QED
    BY <1>1, <2>3, <2>4, <2>5 DEF CatchUpInv
<1>7. ASSUME NEW S \in SUBSET RunIds, DeleteRuns(S), TasksKept
      PROVE  CatchUpInv'
  <2>1. \A r \in RunIds : runs'[r] # NoRow => runs[r] # NoRow /\ SameBatch(runs'[r], runs[r])
    BY <1>7 DEF DeleteRuns, SameBatch
  <2> QED
    BY <1>1, <1>7, <2>1, KeptCatchUp DEF CatchUpInv
<1> QED
  BY <1>2, <1>3, <1>4, <1>5, <1>6, <1>7, NextBatchStep DEF BatchStep

\* Multiple missed periods collapse into one run: where tasks are created, run and deleted
\* but not edited, an occurrence already past when an earlier one was claimed never runs.
THEOREM CatchUpOnceCorrect == NoEdits => (Spec => []CatchUpOnce)
<1> SUFFICES ASSUME NoEdits PROVE Spec => []CatchUpOnce
  OBVIOUS
<1>1. Init => CatchUpInv
  BY DEF Init, StoreInit, CatchUpInv, OnlyCreates, KnownTasks, NextAhead, ScheduledRun, CatchUpOnce
<1>2. IInv /\ CatchUpInv /\ [Next]_vars => CatchUpInv'
  BY CatchUpStep
<1>3. CatchUpInv => CatchUpOnce
  BY DEF CatchUpInv
<1> QED
  BY <1>1, <1>2, <1>3, InitInv, StepInv, PTL DEF Spec

-----------------------------------------------------------------------------
(***************************************************************************)
(* The refinement: through the mapping of TaskEngine every step of the     *)
(* engine, the administrators, the retention or a crash is a step of       *)
(* TaskRunLifecycle or leaves its variables alone.                         *)
(***************************************************************************)
\* The three mapped variables, run by run.
LEMMA MappedVariables ==
    \A r \in RunIds :
        RunState[r] = StateOf(r) /\ RunOwner[r] = OwnerOf(r) /\ RunOccurrence[r] = OccurrenceOf(r)
BY DEF RunState, RunOwner, RunOccurrence

\* A run that has a row has an id that was given out.
LEMMA ActiveState ==
    ASSUME IInv, NEW r \in RunIds
    PROVE  /\ runs[r] # NoRow => ~(r > lastRun)
           /\ StateOf(r) = "active" <=> IsActive(r)
           /\ StateOf(r) \in {"active", "ended"} <=> runs[r] # NoRow
BY DEF IInv, StoreInv, FreshRuns, StateOf, IsActive

\* A schedule is busy in the abstract exactly when it has a queued or running run.
LEMMA BusyMeaning ==
    ASSUME IInv, NEW t, t # Null
    PROVE  Lifecycle!Busy(t) <=> HasActiveRun(t)
BY ActiveState, MappedVariables DEF Lifecycle!Busy, HasActiveRun, OwnerOf, IsActive

\* Settling runs is ending those that were active, or nothing.
LEMMA SettlesMaps ==
    ASSUME IInv, IInv', Settles
    PROVE  [Lifecycle!Next]_(Lifecycle!vars)
<1> DEFINE S == {r \in RunIds : IsActive(r) /\ ~IsActive(r)'}
<1>1. ASSUME NEW r \in RunIds
      PROVE  /\ StateOf(r)' = IF r \in S THEN "ended" ELSE StateOf(r)
             /\ OwnerOf(r)' = OwnerOf(r) /\ OccurrenceOf(r)' = OccurrenceOf(r)
  <2>1. KeepsBatch(r) /\ lastRun' = lastRun
    BY DEF Settles
  <2>2. OwnerOf(r)' = OwnerOf(r) /\ OccurrenceOf(r)' = OccurrenceOf(r)
    BY <2>1 DEF KeepsBatch, SameBatch, OwnerOf, OccurrenceOf
  <2>3. IsActive(r) => runs[r] # NoRow /\ ~(r > lastRun)
    BY ActiveState DEF IsActive
  <2>4. StateOf(r)' = IF r \in S THEN "ended" ELSE StateOf(r)
    BY <2>1, <2>3 DEF KeepsBatch, StateOf
  <2> QED
    BY <2>2, <2>4
<1>2. RunOwner' = RunOwner /\ RunOccurrence' = RunOccurrence
  BY <1>1 DEF RunOwner, RunOccurrence
<1>3. RunState' = [r \in RunIds |-> IF r \in S THEN "ended" ELSE RunState[r]]
  BY <1>1 DEF RunState
<1>4. \A r \in S : RunState[r] = "active"
  BY ActiveState DEF RunState
<1> HIDE DEF S
<1>5. CASE S = {}
  <2>1. RunState' = RunState
    BY <1>3, <1>5 DEF RunState
  <2> QED
    BY <1>2, <2>1 DEF Lifecycle!vars
<1>6. CASE S # {}
  <2>1. Lifecycle!End(S)
    BY <1>2, <1>3, <1>4, <1>6 DEF Lifecycle!End
  <2>2. S \in SUBSET RunIds
    BY DEF S
  <2> QED
    BY <2>1, <2>2 DEF Lifecycle!Next
<1> QED
  BY <1>5, <1>6

\* Recording a new run, whatever for.
LEMMA NewRunMaps ==
    ASSUME IInv, NEW t \in Tasks \cup {Null}, NEW trigger \in {"scheduled", "manual"},
           NEW due \in DueTimes \cup {Null}, NEW policy \in Policies,
           NEW nodes \in SUBSET Nodes, NEW overlap \in BOOLEAN, NEW at \in Nat,
           NewRun(t, trigger, due, policy, nodes, overlap, at),
           NEW st, st = IF overlap THEN "ended" ELSE "active"
    PROVE  /\ lastRun + 1 \in RunIds
           /\ Lifecycle!Fresh(lastRun + 1)
           /\ Lifecycle!Record(lastRun + 1, st, t, due)
<1> PICK r0 : r0 = lastRun + 1
  OBVIOUS
<1>1. /\ r0 \in RunIds /\ lastRun' = r0 /\ lastRun \in Nat
      /\ runs'[r0] # NoRow /\ runs'[r0].task = t /\ runs'[r0].due = due
      /\ runs'[r0].status = IF overlap THEN "skipped" ELSE "queued"
      /\ \A s \in RunIds : s # r0 => runs'[s] = runs[s]
      /\ \A s \in RunIds : runs[s] # NoRow => s < r0
  <2>1. CASE overlap = TRUE
    <3>1. NewRun(t, trigger, due, policy, nodes, TRUE, at)
      BY <2>1
    <3> QED
      BY <2>1, <3>1, NewBatch, ZenonT(60)
  <2>2. CASE overlap = FALSE
    <3>1. NewRun(t, trigger, due, policy, nodes, FALSE, at)
      BY <2>2
    <3> QED
      BY <2>2, <3>1, NewBatch, ZenonT(60)
  <2> QED
    BY <2>1, <2>2
<1>2. RunIds \subseteq Nat
  BY DEF RunIds
<1>3. /\ StateOf(r0)' = st /\ OwnerOf(r0)' = t /\ OccurrenceOf(r0)' = due
  BY <1>1, <1>2 DEF StateOf, OwnerOf, OccurrenceOf, IsActive, ActiveStatus
<1>4. ASSUME NEW s \in RunIds, s # r0
      PROVE  /\ StateOf(s)' = StateOf(s)
             /\ OwnerOf(s)' = OwnerOf(s) /\ OccurrenceOf(s)' = OccurrenceOf(s)
  <2>1. s > lastRun' <=> s > lastRun
    BY <1>1, <1>2, <1>4
  <2> QED
    BY <1>1, <1>4, <2>1 DEF StateOf, OwnerOf, OccurrenceOf, IsActive
<1>5. Lifecycle!Record(r0, st, t, due)
  <2>1. RunState' = [RunState EXCEPT ![r0] = st]
    BY <1>3, <1>4 DEF RunState
  <2>2. RunOwner' = [RunOwner EXCEPT ![r0] = t]
    BY <1>3, <1>4 DEF RunOwner
  <2>3. RunOccurrence' = [RunOccurrence EXCEPT ![r0] = due]
    BY <1>3, <1>4 DEF RunOccurrence
  <2> QED
    BY <2>1, <2>2, <2>3 DEF Lifecycle!Record
<1>6. Lifecycle!Fresh(r0)
  <2>1. ASSUME NEW s \in RunIds PROVE StateOf(s) = "none" <=> s >= r0
    BY <1>1, <1>2 DEF StateOf
  <2> QED
    BY <2>1 DEF Lifecycle!Fresh, RunState
<1> QED
  BY <1>1, <1>5, <1>6

\* A manual run is accepted for an idle schedule, or for none.
LEMMA ManualMaps ==
    ASSUME IInv, NEW t \in Tasks \cup {Null}, NEW policy \in Policies,
           NEW nodes \in SUBSET Nodes, NEW at \in Nat, Manual(t, policy, nodes, at)
    PROVE  Lifecycle!Next
<1>1. NewRun(t, "manual", Null, policy, nodes, FALSE, at) /\ (t = Null \/ ~HasActiveRun(t))
  BY DEF Manual, CanEditTask
<1>2. /\ lastRun + 1 \in RunIds /\ Lifecycle!Fresh(lastRun + 1)
      /\ Lifecycle!Record(lastRun + 1, "active", t, Null)
  BY <1>1, NewRunMaps
<1>3. t # Null => ~Lifecycle!Busy(t)
  BY <1>1, BusyMeaning
<1>4. Lifecycle!AcceptManual(lastRun + 1, t)
  BY <1>2, <1>3 DEF Lifecycle!AcceptManual
<1> QED
  BY <1>2, <1>4 DEF Lifecycle!Next

\* A claim records an occurrence that no run of the schedule stands for.
LEMMA ClaimMaps ==
    ASSUME IInv, NEW t \in Tasks, NEW expected \in DueTimes, NEW next \in Nat \cup {Null},
           NEW at \in Nat, Claim(t, expected, next, at)
    PROVE  Lifecycle!Next
<1>0. t # Null
  BY NullAssumption DEF Tasks
<1>1. tasks[t] \in Task
  BY DEF Claim, ClaimWins, IInv, TypeOK, StoreTypeOK
<1>2. PICK policy \in Policies, nodes \in SUBSET Nodes :
        policy = tasks[t].plan.policy /\ nodes = tasks[t].plan.nodes
  BY <1>1, PlansAssumption DEF Task, Plan
<1>3. PICK st : st = IF HasActiveRun(t) THEN "ended" ELSE "active"
  OBVIOUS
<1>4. /\ lastRun + 1 \in RunIds /\ Lifecycle!Fresh(lastRun + 1)
      /\ Lifecycle!Record(lastRun + 1, st, t, expected)
  <2>1. CASE HasActiveRun(t)
    <3>1. NewRun(t, "scheduled", expected, policy, nodes, TRUE, at) /\ st = "ended"
      BY <1>2, <1>3, <2>1 DEF Claim, ClaimDueTask, NewRun
    <3> QED
      BY <3>1, NewRunMaps
  <2>2. CASE ~HasActiveRun(t)
    <3>1. NewRun(t, "scheduled", expected, policy, nodes, FALSE, at) /\ st = "active"
      BY <1>2, <1>3, <2>2 DEF Claim, ClaimDueTask, NewRun
    <3> QED
      BY <3>1, NewRunMaps
  <2> QED
    BY <2>1, <2>2
<1>5. st = IF Lifecycle!Busy(t) THEN "ended" ELSE "active"
  BY <1>0, <1>3, BusyMeaning
<1>6. Lifecycle!Unrecorded(t, expected)
  <2>1. ASSUME NEW s \in RunIds PROVE ~(OwnerOf(s) = t /\ OccurrenceOf(s) = expected)
    BY <1>0 DEF Claim, ClaimWins, OccurrenceRecorded, OwnerOf, OccurrenceOf
  <2> QED
    BY <2>1 DEF Lifecycle!Unrecorded, RunOwner, RunOccurrence
<1>7. Lifecycle!ClaimOccurrence(lastRun + 1, t, expected)
  BY <1>0, <1>4, <1>5, <1>6 DEF Lifecycle!ClaimOccurrence
<1> QED
  BY <1>4, <1>7 DEF Lifecycle!Next

\* Deleting an idle schedule leaves its runs without an owner.
LEMMA DeleteTaskMaps ==
    ASSUME IInv, NEW t \in Tasks, ~HasActiveRun(t), DeleteScheduledTask(t)
    PROVE  Lifecycle!Next
<1>0. t # Null /\ \A r \in RunIds : runs[r] # NoRow => runs[r] \in Run
  BY NullAssumption DEF Tasks, IInv, TypeOK, StoreTypeOK
<1>1. ASSUME NEW r \in RunIds
      PROVE  /\ StateOf(r)' = StateOf(r) /\ OccurrenceOf(r)' = OccurrenceOf(r)
             /\ OwnerOf(r)' = IF OwnerOf(r) = t THEN Null ELSE OwnerOf(r)
  <2>1. lastRun' = lastRun
    BY DEF DeleteScheduledTask
  <2>2. CASE runs[r] # NoRow /\ runs[r].task = t
    <3>1. runs'[r] = [runs[r] EXCEPT !.task = Null]
      BY <2>2 DEF DeleteScheduledTask
    <3>2. /\ runs'[r] \in Run /\ runs'[r].task = Null
          /\ runs'[r].due = runs[r].due /\ runs'[r].status = runs[r].status
      BY <1>0, <2>2, <3>1 DEF Run
    <3> QED
      BY <2>1, <2>2, <3>2, NoRowAssumption DEF StateOf, OwnerOf, OccurrenceOf, IsActive
  <2>3. CASE runs'[r] = runs[r] /\ ~(runs[r] # NoRow /\ runs[r].task = t)
    BY <1>0, <2>1, <2>3 DEF StateOf, OwnerOf, OccurrenceOf, IsActive
  <2> QED
    BY <2>2, <2>3 DEF DeleteScheduledTask
<1>2. RunState' = RunState /\ RunOccurrence' = RunOccurrence
  BY <1>1 DEF RunState, RunOccurrence
<1>3. RunOwner' = [r \in RunIds |-> IF RunOwner[r] = t THEN Null ELSE RunOwner[r]]
  BY <1>1 DEF RunOwner
<1>4. Lifecycle!DropSchedule(t)
  BY <1>0, <1>2, <1>3, BusyMeaning DEF Lifecycle!DropSchedule
<1> QED
  BY <1>4 DEF Lifecycle!Next

\* Retention forgets the runs it deletes.
LEMMA DeleteRunsMaps ==
    ASSUME IInv, NEW S \in SUBSET RunIds, DeleteRuns(S)
    PROVE  Lifecycle!Next
<1> DEFINE D == {r \in S : runs[r] # NoRow}
<1>1. ASSUME NEW r \in RunIds
      PROVE  /\ StateOf(r)' = IF r \in D THEN "forgotten" ELSE StateOf(r)
             /\ OwnerOf(r)' = IF r \in D THEN Null ELSE OwnerOf(r)
             /\ OccurrenceOf(r)' = IF r \in D THEN Null ELSE OccurrenceOf(r)
  <2>1. lastRun' = lastRun /\ (runs[r] # NoRow => ~(r > lastRun))
    BY ActiveState DEF DeleteRuns
  <2>2. CASE r \in D
    <3>1. runs'[r] = NoRow
      BY <2>2 DEF DeleteRuns
    <3> QED
      BY <2>1, <2>2, <3>1 DEF StateOf, OwnerOf, OccurrenceOf
  <2>3. CASE r \notin D
    <3>1. runs'[r] = runs[r]
      BY <2>3 DEF DeleteRuns
    <3> QED
      BY <2>1, <2>3, <3>1 DEF StateOf, OwnerOf, OccurrenceOf, IsActive
  <2> QED
    BY <2>2, <2>3
<1>2. RunState' = [r \in RunIds |-> IF r \in D THEN "forgotten" ELSE RunState[r]]
  BY <1>1 DEF RunState
<1>3. RunOwner' = [r \in RunIds |-> IF r \in D THEN Null ELSE RunOwner[r]]
  BY <1>1 DEF RunOwner
<1>4. RunOccurrence' = [r \in RunIds |-> IF r \in D THEN Null ELSE RunOccurrence[r]]
  BY <1>1 DEF RunOccurrence
<1>5. \A r \in D : RunState[r] \in {"active", "ended"}
  BY ActiveState DEF RunState
<1>6. D \in SUBSET RunIds
  OBVIOUS
<1> HIDE DEF D
<1>7. Lifecycle!Forget(D)
  BY <1>2, <1>3, <1>4, <1>5 DEF Lifecycle!Forget
<1> QED
  BY <1>6, <1>7 DEF Lifecycle!Next

\* The runs of the store behave as TaskRunLifecycle promises, whatever the interleaving of
\* sweeps, goroutines, requests, retention, failing statements and crashes: a batch is
\* accepted only for an idle schedule, an occurrence is recorded once, and a batch that has
\* ended never becomes active again.
THEOREM LifecycleImplemented == Spec => LifecycleSpec
<1>1. Init => Lifecycle!Init
  <2> SUFFICES ASSUME Init PROVE Lifecycle!Init
    OBVIOUS
  <2>1. \A r \in RunIds : StateOf(r) = "none" /\ OwnerOf(r) = Null /\ OccurrenceOf(r) = Null
    BY DEF Init, StoreInit, StateOf, OwnerOf, OccurrenceOf, RunIds
  <2> QED
    BY <2>1 DEF Lifecycle!Init, RunState, RunOwner, RunOccurrence
<1>2. IInv /\ IInv' /\ [Next]_vars => [Lifecycle!Next]_(Lifecycle!vars)
  <2> SUFFICES ASSUME IInv, IInv', [Next]_vars PROVE [Lifecycle!Next]_(Lifecycle!vars)
    OBVIOUS
  <2>1. BatchStep
    BY NextBatchStep
  <2> QED
    BY <2>1, SettlesMaps, ManualMaps, ClaimMaps, DeleteTaskMaps, DeleteRunsMaps DEF BatchStep
<1> QED
  BY <1>1, <1>2, InductiveInvariant, PTL DEF Spec, LifecycleSpec, Lifecycle!Spec
==============================================================================
