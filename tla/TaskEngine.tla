----------------------------- MODULE TaskEngine -----------------------------
(***************************************************************************)
(* One Server process executing automation tasks                          *)
(* (internal/server/taskrunner/engine.go) against the tables of TaskStore, *)
(* with the administrator requests of internal/server/api/tasks.go, the    *)
(* retention cleaner, the clock, crashes and restarts, and database        *)
(* errors.  One action per step between two accesses to shared state.      *)
(*                                                                         *)
(* The engine's context is context.Background() in app.go, so it is never  *)
(* cancelled: acquiring a slot cannot fail, and the process only ends by   *)
(* crashing.  reserveSchedule never refuses, since Run alone calls Sweep.  *)
(***************************************************************************)
EXTENDS TaskStore

CONSTANTS
    SnapshotReads,      \* TRUE for MySQL, FALSE for SQLite
    GlobalConcurrency,  \* capacity of Engine.globalSlots
    DueLimit,           \* store.MaxDueTaskLimit
    Retention,          \* tasks.retention, in clock units
    ScriptResults,      \* what RunScript may answer (mapTargetStatus)
    LookupFailures,     \* why a target may fail before its script starts
    Requests,           \* concurrent administrator requests
    AdminOps,           \* the requests administrators make
    MaxCrashes,         \* bound: crashes of the Server process
    MaxFaults           \* bound: failing database operations

ASSUME EngineAssumption ==
    /\ SnapshotReads \in BOOLEAN
    /\ GlobalConcurrency \in Nat \ {0} /\ DueLimit \in Nat \ {0}
    /\ Retention \in Nat /\ MaxCrashes \in Nat /\ MaxFaults \in Nat
    /\ ScriptResults \subseteq {"success", "failed", "timed_out", "busy", "cancelled", "unsupported"}
    /\ LookupFailures \subseteq {"offline", "unsupported", "failed"}
    /\ AdminOps \subseteq {"create", "put", "toggle", "delete", "run_task", "run_script", "prune"}

VARIABLES
    now,          \* the clock
    engine,       \* the process: down, boot (app.New), start (before Run), idle, sweep, dead
    initialized,  \* Engine.initialized
    sweepAt,      \* the tick the current or last sweep runs for
    batch,        \* due tasks listed by the sweep and not yet claimed
    worker,       \* executeTarget goroutines: run id -> node -> where it is
    outcome,      \* the result executeTarget is about to store
    seen,         \* MySQL: the snapshot of a CompleteRunTarget in progress
    nodeSlots,    \* nodes whose slot is taken
    globalUsed,   \* slots taken in Engine.globalSlots
    fin,          \* dispatch / finalizeRun goroutines: run id -> where it is
    finStatus,    \* the run status finalizeRun got from the store
    requests,     \* administrator requests between their read and their write
    sent,         \* the run status told by the notification of a run
    crashes, faults

sweepVars == <<engine, initialized, sweepAt, batch>>
execVars  == <<worker, outcome, seen, nodeSlots, globalUsed>>
finVars   == <<fin, finStatus, sent>>
envVars   == <<now, crashes, faults>>
vars == <<dbVars, sweepVars, execVars, finVars, requests, envVars>>

WorkerPC == {"none", "node", "global", "lookup", "start", "script", "complete", "commit", "done"}
FinPC    == {"none", "wait", "aggregate", "load", "deliver", "record", "done"}

DueTask == [task : Tasks, next : DueTimes, plan : Plans]

Request ==
    [op : {"create"}, task : {Null}, plan : Plans, enabled : BOOLEAN, next : DueTimes \cup {Null}]
    \cup
    [op : {"put", "toggle"}, task : Tasks, plan : Plans, enabled : BOOLEAN,
     next : DueTimes \cup {Null}]

TypeOK ==
    /\ StoreTypeOK
    /\ now \in 0..MaxTime /\ sweepAt \in 0..MaxTime
    /\ engine \in {"down", "boot", "start", "idle", "sweep", "dead"}
    /\ initialized \in BOOLEAN
    /\ batch \subseteq DueTask
    /\ worker \in [RunIds -> [Nodes -> WorkerPC]]
    /\ outcome \in [RunIds -> [Nodes -> {"none"} \cup TerminalTarget]]
    /\ seen \in [RunIds -> [Nodes -> [Nodes -> {"none"} \cup ActiveStatus \cup TerminalTarget]]]
    /\ nodeSlots \subseteq Nodes
    /\ globalUsed \in 0..GlobalConcurrency
    /\ fin \in [RunIds -> FinPC]
    /\ finStatus \in [RunIds -> {"none"} \cup ActiveStatus \cup TerminalRun]
    /\ requests \in [Requests -> Request \cup {NoRow}]
    /\ sent \in [RunIds -> {"none"} \cup ActiveStatus \cup TerminalRun]
    /\ crashes \in 0..MaxCrashes /\ faults \in 0..MaxFaults

NoWork == [r \in RunIds |-> [n \in Nodes |-> "none"]]

Init ==
    /\ StoreInit
    /\ now = 0 /\ sweepAt = 0
    /\ engine = "boot" /\ initialized = FALSE /\ batch = {}
    /\ worker = NoWork /\ outcome = NoWork
    /\ seen = [r \in RunIds |-> [n \in Nodes |-> NoTargets]]
    /\ nodeSlots = {} /\ globalUsed = 0
    /\ fin = [r \in RunIds |-> "none"] /\ finStatus = fin /\ sent = fin
    /\ requests = [q \in Requests |-> NoRow]
    /\ crashes = 0 /\ faults = 0

Serving == engine \in {"start", "idle", "sweep", "dead"}    \* the HTTP API answers

\* A database operation returns an error and its transaction is rolled back.
Fault == faults < MaxFaults /\ faults' = faults + 1 /\ UNCHANGED <<now, crashes>>

-----------------------------------------------------------------------------
(* Initialize: recovery of the runs an earlier process left, once *)

Initialize ==
    IF initialized THEN UNCHANGED <<dbVars, initialized>>
    ELSE RecoverInterruptedRuns /\ initialized' = TRUE

Boot ==                     \* app.New: a failure is only a warning
    /\ engine = "boot" /\ engine' = "start"
    /\ \/ Initialize /\ UNCHANGED envVars
       \/ Fault /\ UNCHANGED <<dbVars, initialized>>
    /\ UNCHANGED <<sweepAt, batch, execVars, finVars, requests>>

StartRun ==                 \* Engine.Run: a failure ends the scheduler
    /\ engine = "start"
    /\ \/ Initialize /\ engine' = "idle" /\ UNCHANGED envVars
       \/ ~initialized /\ Fault /\ engine' = "dead" /\ UNCHANGED <<dbVars, initialized>>
    /\ UNCHANGED <<sweepAt, batch, execVars, finVars, requests>>

RequestInitialize ==        \* RunManualTask or RunManualScript gets there first
    /\ Serving /\ ~initialized
    /\ Initialize
    /\ UNCHANGED <<engine, sweepAt, batch, execVars, finVars, requests, envVars>>

-----------------------------------------------------------------------------
(* Sweep *)

\* A tick may wait in the ticker's channel while the previous sweep runs.
BeginSweep ==
    /\ engine = "idle"
    /\ \E at \in sweepAt..now :
         /\ sweepAt' = at
         /\ \/ /\ batch' = {[task |-> t, next |-> tasks[t].next, plan |-> tasks[t].plan] :
                              t \in ListDue(at, DueLimit)}
               /\ UNCHANGED envVars
            \/ Fault /\ batch' = {}
    /\ engine' = IF batch' = {} THEN "idle" ELSE "sweep"
    /\ UNCHANGED <<dbVars, initialized, execVars, finVars, requests>>

FirstDue(e) == \A f \in batch \ {e} :
    e.next < f.next \/ (e.next = f.next /\ e.task < f.task)

WaitForNobody(r, nodes) ==  \* deviation: the target goroutines never start
    fin' = [fin EXCEPT ![r] = "wait"] /\ UNCHANGED worker

Dispatch(r, nodes) ==       \* one goroutine per target, and one that waits for them
    /\ worker' = [worker EXCEPT ![r] = [n \in Nodes |-> IF n \in nodes THEN "node" ELSE "none"]]
    /\ fin' = [fin EXCEPT ![r] = "wait"]

NextAfter(e) == IF e.plan.type = "cron" THEN NextRun(e.plan.cron, sweepAt) ELSE Null

Launch(e, r) ==
    IF HasActiveRun(e.task)
    THEN fin' = [fin EXCEPT ![r] = "aggregate"] /\ UNCHANGED worker
    ELSE Dispatch(r, tasks[e.task].plan.nodes)

ClaimOne(e) ==
    \/ /\ ClaimWins(e.task, e.next, NextAfter(e), sweepAt)
       /\ ClaimDueTask(e.task, e.next, NextAfter(e), sweepAt)
       /\ Launch(e, lastRun + 1)
       /\ UNCHANGED envVars
    \/ /\ ~ClaimWins(e.task, e.next, NextAfter(e), sweepAt)        \* ErrClaimLost
       /\ UNCHANGED <<dbVars, worker, fin, envVars>>
    \/ Fault /\ UNCHANGED <<dbVars, worker, fin>>

SweepClaim ==
    /\ engine = "sweep"
    /\ \E e \in batch :
         /\ FirstDue(e)
         /\ ClaimOne(e)
         /\ batch' = batch \ {e}
    /\ engine' = IF batch' = {} THEN "idle" ELSE "sweep"
    /\ UNCHANGED <<initialized, sweepAt, outcome, seen, nodeSlots, globalUsed,
                   finStatus, sent, requests>>

-----------------------------------------------------------------------------
(* executeTarget *)

Go(r, n, pc) == worker' = [worker EXCEPT ![r][n] = pc]

AcquireNode(r, n) ==
    /\ worker[r][n] = "node" /\ n \notin nodeSlots
    /\ nodeSlots' = nodeSlots \cup {n}
    /\ Go(r, n, "global")
    /\ UNCHANGED <<dbVars, sweepVars, outcome, seen, globalUsed, finVars, requests, envVars>>

AcquireGlobal(r, n) ==
    /\ worker[r][n] = "global" /\ globalUsed < GlobalConcurrency
    /\ globalUsed' = globalUsed + 1
    /\ Go(r, n, "lookup")
    /\ UNCHANGED <<dbVars, sweepVars, outcome, seen, nodeSlots, finVars, requests, envVars>>

\* nodes.Get and TaskRunnerSupported
LookupNode(r, n) ==
    /\ worker[r][n] = "lookup"
    /\ \/ Go(r, n, "start") /\ UNCHANGED outcome
       \/ \E why \in LookupFailures :
            /\ outcome' = [outcome EXCEPT ![r][n] = why]
            /\ Go(r, n, "complete")
    /\ UNCHANGED <<dbVars, sweepVars, seen, nodeSlots, globalUsed, finVars, requests, envVars>>

StartTarget(r, n) ==
    /\ worker[r][n] = "start"
    /\ \/ /\ CanMarkRunning(r, n)
          /\ MarkRunTargetRunning(r, n)
          /\ Go(r, n, "script")
          /\ UNCHANGED <<outcome, envVars>>
       \/ /\ \/ ~CanMarkRunning(r, n) /\ UNCHANGED envVars
             \/ Fault
          /\ outcome' = [outcome EXCEPT ![r][n] = "failed"]
          /\ Go(r, n, "complete")
          /\ UNCHANGED dbVars
    /\ UNCHANGED <<sweepVars, seen, nodeSlots, globalUsed, finVars, requests>>

\* RunScript answers within the script's timeout plus 10 s, whatever the Agent does.
ScriptReturns(r, n) ==
    /\ worker[r][n] = "script"
    /\ \E result \in ScriptResults : outcome' = [outcome EXCEPT ![r][n] = result]
    /\ Go(r, n, "complete")
    /\ UNCHANGED <<dbVars, sweepVars, seen, nodeSlots, globalUsed, finVars, requests, envVars>>

\* MySQL: the SELECT that opens the transaction fixes what it will read.
BeginComplete(r, n) ==
    /\ SnapshotReads
    /\ worker[r][n] = "complete"
    /\ seen' = [seen EXCEPT ![r][n] = targets[r]]
    /\ Go(r, n, "commit")
    /\ UNCHANGED <<dbVars, sweepVars, outcome, nodeSlots, globalUsed, finVars, requests, envVars>>

ReleaseIfStored(n) ==       \* deviation: a failed completion keeps its slots
    IF faults' # faults THEN UNCHANGED <<nodeSlots, globalUsed>>
    ELSE nodeSlots' = nodeSlots \ {n} /\ globalUsed' = globalUsed - 1

Release(n) == nodeSlots' = nodeSlots \ {n} /\ globalUsed' = globalUsed - 1

\* A failed completion is only logged.  The deferred releases follow in any case.
CompleteTarget(r, n) ==
    /\ worker[r][n] = IF SnapshotReads THEN "commit" ELSE "complete"
    /\ \/ /\ CanComplete(r, n)
          /\ CompleteRunTarget(r, n, outcome[r][n],
                               IF SnapshotReads THEN seen[r][n] ELSE targets[r])
          /\ UNCHANGED envVars
       \/ ~CanComplete(r, n) /\ UNCHANGED <<dbVars, envVars>>
       \/ Fault /\ UNCHANGED dbVars
    /\ Release(n)
    /\ Go(r, n, "done")
    /\ outcome' = [outcome EXCEPT ![r][n] = "none"]
    /\ seen' = [seen EXCEPT ![r][n] = NoTargets]
    /\ UNCHANGED <<sweepVars, finVars, requests>>

-----------------------------------------------------------------------------
(* dispatch's wait and finalizeRun *)

SomeTargetDone(r) ==        \* deviation: waits for one target
    /\ fin[r] = "wait"
    /\ \E n \in Nodes : worker[r][n] = "done"
    /\ fin' = [fin EXCEPT ![r] = "aggregate"]
    /\ UNCHANGED <<dbVars, sweepVars, execVars, finStatus, sent, requests, envVars>>

AllTargetsDone(r) ==
    /\ fin[r] = "wait"
    /\ \A n \in Nodes : worker[r][n] \in {"none", "done"}
    /\ fin' = [fin EXCEPT ![r] = "aggregate"]
    /\ UNCHANGED <<dbVars, sweepVars, execVars, finStatus, sent, requests, envVars>>

FinalizeAggregate(r) ==
    /\ fin[r] = "aggregate"
    /\ \/ /\ runs[r] # NoRow
          /\ AggregateRun(r)
          /\ fin' = [fin EXCEPT ![r] = "load"]
          /\ finStatus' = [finStatus EXCEPT ![r] = AggregateStatus(targets[r])]
          /\ UNCHANGED envVars
       \/ /\ \/ runs[r] = NoRow /\ UNCHANGED envVars
             \/ Fault
          /\ fin' = [fin EXCEPT ![r] = "done"]
          /\ UNCHANGED <<dbVars, finStatus>>
    /\ UNCHANGED <<sweepVars, execVars, sent, requests>>

ShouldNotify(policy, status) ==
    policy = "always" \/ (policy = "failure" /\ status # "success")

\* shouldNotify looks at the row AggregateRun returned, the message at the one read here.
FinalizeLoad(r) ==
    /\ fin[r] = "load"
    /\ \/ /\ runs[r] # NoRow
          /\ fin' = [fin EXCEPT ![r] =
                IF ShouldNotify(runs[r].policy, finStatus[r]) THEN "deliver" ELSE "done"]
          /\ finStatus' = [finStatus EXCEPT ![r] = runs[r].status]
          /\ UNCHANGED envVars
       \/ /\ \/ runs[r] = NoRow /\ UNCHANGED envVars
             \/ Fault
          /\ fin' = [fin EXCEPT ![r] = "done"]
          /\ UNCHANGED finStatus
    /\ UNCHANGED <<dbVars, sweepVars, execVars, sent, requests>>

\* DeliverTask tries every channel once; the message leaves or its error is kept.
FinalizeDeliver(r) ==
    /\ fin[r] = "deliver"
    /\ sent' = [sent EXCEPT ![r] = finStatus[r]]
    /\ fin' = [fin EXCEPT ![r] = "record"]
    /\ UNCHANGED <<dbVars, sweepVars, execVars, finStatus, requests, envVars>>

FinalizeRecord(r) ==
    /\ fin[r] = "record"
    /\ \/ runs[r] # NoRow /\ UpdateRunNotification(r) /\ UNCHANGED envVars
       \/ runs[r] = NoRow /\ UNCHANGED <<dbVars, envVars>>
       \/ Fault /\ UNCHANGED dbVars
    /\ fin' = [fin EXCEPT ![r] = "done"]
    /\ UNCHANGED <<sweepVars, execVars, finStatus, sent, requests>>

-----------------------------------------------------------------------------
(* Administrator requests: the handler reads, computes next_run_at, writes *)

Hold(q, op, t, plan, enabled) ==
    /\ requests[q] = NoRow /\ Serving
    /\ requests' = [requests EXCEPT ![q] =
          [op |-> op, task |-> t, plan |-> plan, enabled |-> enabled,
           next |-> FirstRun(plan, enabled, now)]]
    /\ UNCHANGED <<dbVars, sweepVars, execVars, finVars, envVars>>

ReadCreate(q) ==
    /\ "create" \in AdminOps /\ lastTask < MaxTasks
    /\ \E plan \in Plans, enabled \in BOOLEAN :
         Schedulable(plan, now) /\ Hold(q, "create", Null, plan, enabled)

ReadPut(q) ==
    /\ "put" \in AdminOps
    /\ \E t \in Tasks, plan \in Plans, enabled \in BOOLEAN :
         /\ tasks[t] # NoRow /\ Schedulable(plan, now)
         /\ Hold(q, "put", t, plan, enabled)

ReadToggle(q) ==
    /\ "toggle" \in AdminOps
    /\ \E t \in Tasks, enabled \in BOOLEAN :
         /\ tasks[t] # NoRow
         /\ enabled => Schedulable(tasks[t].plan, now)
         /\ Hold(q, "toggle", t, tasks[t].plan, enabled)

WriteRequest(q) ==
    /\ requests[q] # NoRow
    /\ LET q0 == requests[q]
       IN  CASE q0.op = "create" ->
                  InsertTask(q0.plan, q0.enabled, q0.next)
             [] q0.op = "put" ->
                  IF CanEditTask(q0.task)
                  THEN UpdateScheduledTask(q0.task, q0.plan, q0.enabled, q0.next)
                  ELSE UNCHANGED dbVars                          \* 404 or 409
             [] q0.op = "toggle" ->
                  IF CanEditTask(q0.task)
                  THEN SetScheduledTaskEnabled(q0.task, q0.enabled, q0.next)
                  ELSE UNCHANGED dbVars
    /\ requests' = [requests EXCEPT ![q] = NoRow]
    /\ UNCHANGED <<sweepVars, execVars, finVars, envVars>>

DeleteTask ==
    /\ Serving /\ "delete" \in AdminOps
    /\ \E t \in Tasks : CanEditTask(t) /\ DeleteScheduledTask(t)
    /\ UNCHANGED <<sweepVars, execVars, finVars, requests, envVars>>

RunManualTask ==
    /\ Serving /\ "run_task" \in AdminOps /\ initialized
    /\ \E t \in Tasks :
         /\ CreateManualTaskRun(t, now)
         /\ Dispatch(lastRun + 1, tasks[t].plan.nodes)
    /\ UNCHANGED <<sweepVars, outcome, seen, nodeSlots, globalUsed,
                   finStatus, sent, requests, envVars>>

RunManualScript ==
    /\ Serving /\ "run_script" \in AdminOps /\ initialized
    /\ \E nodes \in (SUBSET Nodes) \ {{}} :
         /\ CreateManualScriptRun(nodes, now)
         /\ Dispatch(lastRun + 1, nodes)
    /\ UNCHANGED <<sweepVars, outcome, seen, nodeSlots, globalUsed,
                   finStatus, sent, requests, envVars>>

PruneRuns ==                \* TaskRunCleaner.RunOnce
    /\ Serving /\ "prune" \in AdminOps
    /\ LET old == {r \in RunIds : runs[r] # NoRow /\ runs[r].created + Retention < now}
       IN  old # {} /\ DeleteRuns(old)
    /\ UNCHANGED <<sweepVars, execVars, finVars, requests, envVars>>

-----------------------------------------------------------------------------
(* The environment *)

Tick ==
    /\ now < MaxTime /\ now' = now + 1
    /\ UNCHANGED <<dbVars, sweepVars, execVars, finVars, requests, crashes, faults>>

Crash ==                    \* everything but the database is lost
    /\ engine # "down" /\ crashes < MaxCrashes
    /\ crashes' = crashes + 1
    /\ engine' = "down" /\ initialized' = FALSE /\ batch' = {}
    /\ worker' = NoWork /\ outcome' = NoWork
    /\ seen' = [r \in RunIds |-> [n \in Nodes |-> NoTargets]]
    /\ nodeSlots' = {} /\ globalUsed' = 0
    /\ fin' = [r \in RunIds |-> "none"]
    /\ finStatus' = [r \in RunIds |-> "none"]
    /\ requests' = [q \in Requests |-> NoRow]
    /\ UNCHANGED <<dbVars, sweepAt, sent, now, faults>>

Restart ==
    /\ engine = "down"
    /\ engine' = "boot" /\ sweepAt' = now
    /\ UNCHANGED <<dbVars, initialized, batch, execVars, finVars, requests, envVars>>

-----------------------------------------------------------------------------

Worker(r, n) ==
    \/ AcquireNode(r, n) \/ AcquireGlobal(r, n) \/ LookupNode(r, n) \/ StartTarget(r, n)
    \/ ScriptReturns(r, n) \/ BeginComplete(r, n) \/ CompleteTarget(r, n)

Finalizer(r) ==
    \/ AllTargetsDone(r) \/ FinalizeAggregate(r) \/ FinalizeLoad(r)
    \/ FinalizeDeliver(r) \/ FinalizeRecord(r)

Engine == Boot \/ StartRun \/ BeginSweep \/ SweepClaim

Admin ==
    \/ \E q \in Requests : ReadCreate(q) \/ ReadPut(q) \/ ReadToggle(q) \/ WriteRequest(q)
    \/ RequestInitialize \/ DeleteTask \/ RunManualTask \/ RunManualScript \/ PruneRuns

Next ==
    \/ Engine \/ Admin \/ Tick \/ Crash \/ Restart
    \/ \E r \in RunIds : Finalizer(r) \/ \E n \in Nodes : Worker(r, n)

Spec == Init /\ [][Next]_vars

\* Goroutines run, RPCs and notifications have deadlines, a write follows its
\* read, and the supervisor restarts a Server that died.  Nothing makes an
\* administrator act, the clock advance, the process crash or the database fail.
Fairness ==
    /\ WF_vars(Engine) /\ WF_vars(Restart)
    /\ \A q \in Requests : WF_vars(WriteRequest(q))
    /\ \A r \in RunIds : WF_vars(Finalizer(r))
    /\ \A r \in RunIds, n \in Nodes : WF_vars(Worker(r, n))

FairSpec == Spec /\ Fairness

-----------------------------------------------------------------------------
(* What the engine and the store promise together *)

\* The slots taken are exactly those of the goroutines past acquire and before
\* their deferred release: none leaks, and a node never runs two scripts.
HoldsGlobal(r, n) == worker[r][n] \in {"lookup", "start", "script", "complete", "commit"}
HoldsNode(r, n)   == worker[r][n] = "global" \/ HoldsGlobal(r, n)

GlobalHolders == {rn \in RunIds \X Nodes : HoldsGlobal(rn[1], rn[2])}

SlotsExact ==
    /\ \A n \in Nodes : n \in nodeSlots <=> \E r \in RunIds : HoldsNode(r, n)
    /\ \A n \in Nodes, r, s \in RunIds : HoldsNode(r, n) /\ HoldsNode(s, n) => r = s
    /\ globalUsed = Cardinality(GlobalHolders)

\* Once this process has recovered, every active run has a goroutine that will
\* still aggregate it: no run is left active with nobody to end it.
ActiveRunIsOwned ==
    /\ TypeOK
    /\ \A r \in RunIds : initialized /\ IsActive(r) => fin[r] \in {"wait", "aggregate"}

\* The stored status and counts are those of the target rows.  Under MySQL two
\* completions that do not see each other may leave them stale, until
\* finalizeRun aggregates; a recovered run keeps its interrupted status.
AggregateExact ==
    \A r \in RunIds :
        /\ runs[r] # NoRow
        /\ SnapshotReads => fin[r] \in {"load", "deliver", "record", "done"}
        => LET run == Aggregate(runs[r], targets[r])
           IN  \/ run = runs[r]
               \/ runs[r].status = "interrupted" /\ run.completed = runs[r].completed

\* What a notification said of a run stays true: it was sent for an ended run,
\* with the status the run keeps.
NotificationTruthful ==
    \A r \in RunIds : sent[r] # "none" /\ runs[r] # NoRow =>
        sent[r] = runs[r].status /\ sent[r] \in TerminalRun

\* "Multiple periods missed collapse into at most one catch-up run": an
\* occurrence that was already past when an earlier one was claimed never runs.
CatchUpOnce ==
    \A r, s \in RunIds :
        /\ r < s /\ runs[r] # NoRow /\ runs[s] # NoRow
        /\ runs[r].task = runs[s].task /\ runs[r].task # Null
        /\ runs[r].trigger = "scheduled" /\ runs[s].trigger = "scheduled"
        => runs[s].due > runs[r].created


\* The runs of TaskStore as TaskRunLifecycle sees them ...
StateOf(r) ==
    IF r > lastRun THEN "none"
    ELSE IF runs[r] = NoRow THEN "forgotten"
    ELSE IF IsActive(r) THEN "active" ELSE "ended"
OwnerOf(r)      == IF runs[r] = NoRow THEN Null ELSE runs[r].task
OccurrenceOf(r) == IF runs[r] = NoRow THEN Null ELSE runs[r].due

RunState      == [r \in RunIds |-> StateOf(r)]
RunOwner      == [r \in RunIds |-> OwnerOf(r)]
RunOccurrence == [r \in RunIds |-> OccurrenceOf(r)]

Lifecycle == INSTANCE TaskRunLifecycle WITH
    Runs <- RunIds, Schedules <- Tasks, Times <- DueTimes,
    state <- RunState, owner <- RunOwner, occurrence <- RunOccurrence

\* ... behave as it says, under any interleaving.
LifecycleSpec == Lifecycle!Spec

\* ... and every run ends, by its results or by the recovery of the next process.
LifecycleFairSpec == Lifecycle!FairSpec

\* Sweep "atomically claims every currently due occurrence" (engine.go:156):
\* an enabled task does not stay due.
DueIsClaimed == \A t \in Tasks : IsDue(t, now) ~> ~IsDue(t, now)
=============================================================================
