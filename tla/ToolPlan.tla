------------------------------- MODULE ToolPlan -------------------------------
(***************************************************************************)
(* Plans of write steps that an AI turn proposes (internal/server/ai):     *)
(* send creates a plan and may claim it by policy, administrators confirm  *)
(* and reject it, advancePlan executes it step by step, the verifier ends  *)
(* steps that were only accepted, and a settings request changes or pauses *)
(* the control policy.  Each actor stops between any two of its reads and  *)
(* transactions.  One action stands for the reads whose order no other     *)
(* actor can tell apart (control policy, arguments, action policy of a     *)
(* step) and for a step with its final verification.                       *)
(***************************************************************************)
EXTENDS PlanStore

CONSTANTS
    Requests,     \* HTTP requests that confirm a plan; a turn stands for its own send
    Verifier, Null,
    MaxSettings, MaxCrashes, MaxFaults, MaxGone

ASSUME BoundsAssumption == {MaxSettings, MaxCrashes, MaxFaults, MaxGone} \subseteq Nat

VARIABLES
    proc,         \* what each actor is doing
    gone,         \* actors whose HTTP client went away: their context is cancelled
    settings,     \* the request that changes the control policy
    up,           \* the Server is running
    verifying,    \* ... and so is RunAcceptedOperationVerifier
    ran,          \* times each step was handed to its target
    late,         \* steps of a plan that began since the policy was paused
    used          \* bounded: settings requests, crashes, faults, clients that leave

vars == <<storeVars, proc, gone, settings, up, verifying, ran, late, used>>

Actors == Turns \cup Requests \cup {Verifier}

Pcs == {"idle", "propose", "create", "cancel", "recheck", "demote", "claim", "again",
        "list", "control", "start", "record", "verified", "complete", "finish", "fail"}

Idle == [at |-> "idle", turn |-> Null, step |-> 1, auto |-> FALSE, from |-> "none", out |-> "none"]

NoRequest == [at |-> "idle", new |-> "confirm_all", todo |-> {}]

Counters == [settings : 0 .. MaxSettings, crashes : 0 .. MaxCrashes,
             faults : 0 .. MaxFaults, gone : 0 .. MaxGone]

TypeOK ==
    /\ StoreTypeOK
    /\ proc \in [Actors -> [at : Pcs, turn : Turns \cup {Null}, step : Steps,
                            auto : BOOLEAN, from : StepStatus, out : StepStatus \cup {"paused"}]]
    /\ gone \subseteq Actors \ {Verifier}
    /\ settings \in [at : {"idle", "resume", "resuming", "set", "pause", "pausing"}, new : Modes, todo : SUBSET Turns]
    /\ up \in BOOLEAN /\ verifying \in BOOLEAN
    /\ ran \in [Turns -> [Steps -> Nat]]
    /\ late \in [Turns -> Nat]
    /\ used \in Counters

Init ==
    /\ StoreInit
    /\ proc = [a \in Actors |-> Idle]
    /\ gone = {} /\ settings = NoRequest
    /\ up = TRUE /\ verifying = TRUE
    /\ ran = [t \in Turns |-> [i \in Steps |-> 0]]
    /\ late = [t \in Turns |-> 0]
    /\ used = [settings |-> 0, crashes |-> 0, faults |-> 0, gone |-> 0]

envVars == <<gone, settings, up, verifying>>
history == <<ran, late>>

At(a, pc) == up /\ proc[a].at = pc
Go(a, pc) == proc' = [proc EXCEPT ![a].at = pc]
GoStep(a, pc, i) == proc' = [proc EXCEPT ![a].at = pc, ![a].step = i]
Leave(a) == proc' = [proc EXCEPT ![a] = Idle]

\* To completePlanStep, which expects the step to be "from".
GoComplete(a, i, from, out) ==
    proc' = [proc EXCEPT ![a].at = "complete", ![a].step = i, ![a].from = from, ![a].out = out]

\* send's deferred FailTurn; the other callers only return the error.
Fails(a) == IF a \in Turns THEN Go(a, "fail") ELSE Leave(a)

CountFault == used.faults < MaxFaults /\ used' = [used EXCEPT !.faults = @ + 1]

Unsuccessful(a) == Fails(a) /\ UNCHANGED <<storeVars, envVars, history>>

-----------------------------------------------------------------------------
(* send *)

Send(t) ==
    /\ At(t, "idle") /\ StartModelTurn(t)
    /\ proc' = [proc EXCEPT ![t] = [Idle EXCEPT !.at = "propose", !.turn = t, !.auto = TRUE]]
    /\ UNCHANGED <<envVars, history, used>>

\* The model answers in words, proposes an invalid plan, or fails.
Answer(t) ==
    /\ At(t, "propose") /\ proc[t].step = 1
    /\ \E s \in {"completed", "failed"} : FinishTurn(t, s)
    /\ Leave(t)
    /\ UNCHANGED <<envVars, history, used>>

\* The policy of one proposed step; "eligible": an action that may be autonomous.
ReadPolicy(t) ==
    LET i == proc[t].step
    IN  /\ At(t, "propose")
        /\ \E eligible \in BOOLEAN :
             proc' = [proc EXCEPT
                ![t].at = IF i = StepCount THEN "create" ELSE "propose",
                ![t].step = IF i = StepCount THEN 1 ELSE i + 1,
                ![t].auto = @ /\ eligible /\ mode = "low_risk_auto",
                ![t].out = IF mode = "paused" THEN "paused" ELSE @]
        /\ UNCHANGED <<storeVars, envVars, history, used>>

AfterCreate(t) ==
    IF proc[t].out = "paused" THEN Go(t, "cancel")
    ELSE IF proc[t].auto THEN Go(t, "recheck") ELSE Leave(t)

CreatePlan(t) ==
    /\ At(t, "create") /\ t \notin gone
    /\ CreateToolPlan(t) /\ AfterCreate(t)
    /\ UNCHANGED <<envVars, history, used>>

\* A plan proposed while the control plane is paused is cancelled at once.
CancelOwn(t) ==
    /\ At(t, "cancel") /\ t \notin gone
    /\ IF PendingPlan(t)
       THEN RejectToolPlan(t) /\ Leave(t) /\ UNCHANGED <<envVars, history, used>>
       ELSE Unsuccessful(t) /\ UNCHANGED used

\* tryClaimAutonomousPlan: each step is validated and evaluated again.
Recheck(t) ==
    LET i == proc[t].step
    IN  /\ At(t, "recheck")
        /\ \/ mode = "low_risk_auto" /\ t \notin gone
              /\ IF i = StepCount THEN GoStep(t, "claim", 1) ELSE GoStep(t, "recheck", i + 1)
           \/ Go(t, "demote")
        /\ UNCHANGED <<storeVars, envVars, history, used>>

Demote(t) ==        \* UpdatePendingToolPlanPolicy and the reading of the plan
    /\ At(t, "demote") /\ t \notin gone
    /\ IF step[t][proc[t].step] = "pending" THEN Leave(t) ELSE Fails(t)
    /\ UNCHANGED <<storeVars, envVars, history, used>>

FailTurn(t) ==
    /\ At(t, "fail") /\ Leave(t)
    /\ IF turn[t] \in Open THEN FinishTurn(t, "failed") ELSE UNCHANGED storeVars
    /\ UNCHANGED <<envVars, history, used>>

-----------------------------------------------------------------------------
(* The administrators *)

\* ConfirmPlan up to the claim: the control plane is active, the steps valid.
Confirm(q, t) ==
    /\ At(q, "idle") /\ mode # "paused" /\ step[t] # All("none")
    /\ proc' = [proc EXCEPT ![q] = [Idle EXCEPT !.at = "claim", !.turn = t]]
    /\ gone' = gone \ {q}
    /\ UNCHANGED <<storeVars, settings, up, verifying, history, used>>

Claimed(a) == IF a \in Turns THEN "list" ELSE "again"

ClaimPlan(a) ==
    LET t == proc[a].turn
    IN  /\ At(a, "claim") /\ a \notin gone
        /\ IF PendingPlan(t)
           THEN ClaimToolPlan(t) /\ Go(a, Claimed(a)) /\ UNCHANGED <<envVars, history, used>>
           ELSE Unsuccessful(a) /\ UNCHANGED used

\* Confirmed steps are validated a third time; a client that left fails them.
Revalidate(q) ==
    /\ At(q, "again")
    /\ \/ q \notin gone /\ Go(q, "list")
       \/ \E i \in Steps : GoComplete(q, i, "queued", "failure")
    /\ UNCHANGED <<storeVars, envVars, history, used>>

Reject(t) ==
    /\ up /\ PendingPlan(t) /\ RejectToolPlan(t)
    /\ UNCHANGED <<proc, envVars, history, used>>

Delete ==
    /\ up /\ \E t \in Turns : turn[t] \notin {"none", "deleted"}
    /\ DeleteConversation
    /\ UNCHANGED <<proc, envVars, history, used>>

-----------------------------------------------------------------------------
(* advancePlan *)

LastOpen(t) == CHOOSE i \in Steps : step[t][i] # "success" /\ \A j \in i + 1 .. StepCount : step[t][j] = "success"  \* deviation: descending

\* The first step that has not succeeded decides what is next.
FirstOpen(t) == CHOOSE i \in Steps : step[t][i] # "success" /\ \A j \in 1 .. i - 1 : step[t][j] = "success"

NextStep(a, t) ==
    IF step[t] = All("success") THEN Go(a, "finish")
    ELSE LET i == FirstOpen(t)
         IN  CASE step[t][i] = "queued"   -> GoStep(a, "control", i)
               [] step[t][i] = "accepted" -> Leave(a)
               [] step[t][i] = "running"  -> GoComplete(a, i, "running", "interrupted")
               [] OTHER -> Go(a, "finish")

ListSteps(a) ==
    /\ At(a, "list") /\ a \notin gone
    /\ NextStep(a, proc[a].turn)
    /\ UNCHANGED <<storeVars, envVars, history, used>>

ReadOncePerPlan(a) ==            \* deviation: only the first step asks for the policy
    proc[a].step = 1 => /\ mode # "paused"
                        /\ proc[a].auto => mode = "low_risk_auto"

Allowed(a) == mode # "paused" /\ (proc[a].auto => mode = "low_risk_auto")

\* A step that is not allowed, not valid any more, or cannot be checked fails the plan.
ReadControl(a) ==
    /\ At(a, "control")
    /\ \/ Allowed(a) /\ a \notin gone /\ Go(a, "start")
       \/ GoComplete(a, proc[a].step, "queued", "failure")
    /\ UNCHANGED <<storeVars, envVars, history, used>>

CountLate(t) == late' = IF mode = "paused" THEN [late EXCEPT ![t] = @ + 1] ELSE late

\* StartToolPlanStep and the call of the target.
StartStep(a) ==
    LET t == proc[a].turn
        i == proc[a].step
    IN  /\ At(a, "start") /\ a \notin gone
        /\ IF step[t][i] = "queued"
           THEN /\ Transition(t, i, "queued", "running") /\ Go(a, "record")
                /\ ran' = [ran EXCEPT ![t][i] = @ + 1] /\ CountLate(t)
                /\ UNCHANGED <<envVars, used>>
           ELSE Unsuccessful(a) /\ UNCHANGED used

StartCancelled(a) ==
    /\ At(a, "start") /\ a \in gone
    /\ GoComplete(a, proc[a].step, "queued", "interrupted")
    /\ UNCHANGED <<storeVars, envVars, history, used>>

\* Reboots, upgrades and saved scripts are only accepted; none of them is autonomous.
Results(a) == {"success", "failure", "interrupted"} \cup IF proc[a].auto THEN {} ELSE {"accepted"}

Continues(i, out) == out = "accepted" \/ (out = "success" /\ i < StepCount)

Record(a, from, out) ==
    LET t == proc[a].turn
        i == proc[a].step
    IN  IF ~Continues(i, out)
        THEN GoComplete(a, i, from, out) /\ UNCHANGED <<storeVars, envVars, history, used>>
        ELSE IF step[t][i] # from THEN Unsuccessful(a) /\ UNCHANGED used
        ELSE /\ Transition(t, i, from, out)
             /\ IF out = "accepted" THEN Leave(a) ELSE Go(a, "list")
             /\ UNCHANGED <<envVars, history, used>>

RecordResult(a) == At(a, "record") /\ \E out \in Results(a) : Record(a, "running", out)

CompleteStep(a) ==
    LET t == proc[a].turn
        i == proc[a].step
    IN  /\ At(a, "complete")
        /\ IF CanComplete(t, i, proc[a].from)
           THEN /\ CompleteToolPlan(t, i, proc[a].from, proc[a].out) /\ Leave(a)
                /\ UNCHANGED <<envVars, history, used>>
           ELSE Unsuccessful(a) /\ UNCHANGED used

FinishPlan(a) ==
    LET t == proc[a].turn
    IN  /\ At(a, "finish")
        /\ IF CanFinish(t)
           THEN FinishToolPlan(t) /\ Leave(a) /\ UNCHANGED <<envVars, history, used>>
           ELSE Unsuccessful(a) /\ UNCHANGED used

-----------------------------------------------------------------------------
(* Statements that fail, and clients that go away *)

\* Statements with the caller's context; the others run WithoutCancel.
WithContext == {"propose", "create", "cancel", "demote", "claim", "list"}

StatementFails(a) ==
    /\ up
    /\ \/ proc[a].at \in WithContext /\ a \in gone /\ UNCHANGED used
       \/ proc[a].at \in WithContext \cup {"start", "record", "verified", "complete", "finish"} /\ CountFault
    /\ Unsuccessful(a)

FailTurnFails(t) ==
    /\ At(t, "fail") /\ CountFault /\ Leave(t)
    /\ UNCHANGED <<storeVars, envVars, history>>

ClientLeaves(a) ==
    /\ up /\ a # Verifier /\ a \notin gone /\ proc[a].at # "idle" /\ used.gone < MaxGone
    /\ gone' = gone \cup {a} /\ used' = [used EXCEPT !.gone = @ + 1]
    /\ UNCHANGED <<storeVars, proc, settings, up, verifying, history>>

-----------------------------------------------------------------------------
(* RunAcceptedOperationVerifier *)

\* The operation turned out well or badly, or its time (acceptedOperationMaxAge) is over.
VerifyAccepted(t, i) ==
    /\ At(Verifier, "idle") /\ verifying /\ step[t][i] = "accepted"
    /\ \E out \in {"success", "failure", "interrupted"} :
         proc' = [proc EXCEPT ![Verifier] =
                    [Idle EXCEPT !.at = "verified", !.turn = t, !.step = i, !.out = out]]
    /\ UNCHANGED <<storeVars, envVars, history, used>>

EndAccepted == At(Verifier, "verified") /\ Record(Verifier, "accepted", proc[Verifier].out)

-----------------------------------------------------------------------------
(* The request that changes the control policy *)

Settings(pc, todo) == settings' = [settings EXCEPT !.at = pc, !.todo = todo]
AwaitingTurns == {t \in Turns : turn[t] = "awaiting"}
settingsFrame == <<proc, gone, up, verifying>>

\* Leaving a pause cancels again what was proposed in the meantime.
BeginSettings(m) ==
    /\ up /\ settings.at = "idle" /\ used.settings < MaxSettings
    /\ settings' = [settings EXCEPT !.new = m,
                        !.at = IF mode = "paused" /\ m # "paused" THEN "resume" ELSE "set"]
    /\ used' = [used EXCEPT !.settings = @ + 1]
    /\ UNCHANGED <<storeVars, settingsFrame, history>>

ListAwaiting ==
    /\ up /\ \/ settings.at = "resume" /\ Settings("resuming", AwaitingTurns)
             \/ settings.at = "pause" /\ Settings("pausing", AwaitingTurns)
    /\ UNCHANGED <<storeVars, settingsFrame, history, used>>

CancelOne(t) ==
    /\ up /\ t \in settings.todo
    /\ Settings(settings.at, settings.todo \ {t})
    /\ IF turn[t] = "awaiting" THEN CancelPending(t) ELSE UNCHANGED storeVars
    /\ UNCHANGED <<settingsFrame, history, used>>

Cancelled ==
    /\ up /\ settings.todo = {}
    /\ \/ settings.at = "resuming" /\ Settings("set", {})
       \/ settings.at = "pausing" /\ settings' = NoRequest
    /\ UNCHANGED <<storeVars, settingsFrame, history, used>>

SetPolicy ==
    /\ up /\ settings.at = "set"
    /\ SetControlPolicy(settings.new)
    /\ settings' = IF settings.new = "paused" THEN [settings EXCEPT !.at = "pause"] ELSE NoRequest
    /\ late' = [t \in Turns |-> 0]
    /\ UNCHANGED <<settingsFrame, ran, used>>

SettingsFail ==
    /\ up /\ settings.at # "idle" /\ CountFault
    /\ settings' = NoRequest
    /\ UNCHANGED <<storeVars, settingsFrame, history>>

-----------------------------------------------------------------------------
(* The process *)

Crash ==
    /\ up /\ used.crashes < MaxCrashes
    /\ up' = FALSE /\ verifying' = FALSE
    /\ proc' = [a \in Actors |-> Idle] /\ gone' = {} /\ settings' = NoRequest
    /\ used' = [used EXCEPT !.crashes = @ + 1]
    /\ UNCHANGED <<storeVars, history>>

\* app.New serves requests even when Initialize fails, before or after the recovery;
\* then nothing verifies accepted operations.
Restart ==
    /\ ~up /\ up' = TRUE
    /\ \/ RecoverInterrupted /\ verifying' = TRUE /\ UNCHANGED used
       \/ RecoverInterrupted /\ UNCHANGED verifying /\ CountFault
       \/ UNCHANGED <<storeVars, verifying>> /\ CountFault
    /\ UNCHANGED <<proc, gone, settings, history>>

-----------------------------------------------------------------------------

Runs(a) ==
    \/ ClaimPlan(a) \/ ListSteps(a) \/ ReadControl(a) \/ StartStep(a) \/ StartCancelled(a)
    \/ RecordResult(a) \/ CompleteStep(a) \/ FinishPlan(a) \/ StatementFails(a)

Sends(t) ==
    \/ Answer(t) \/ ReadPolicy(t) \/ CreatePlan(t) \/ CancelOwn(t) \/ Recheck(t) \/ Demote(t)
    \/ FailTurn(t) \/ FailTurnFails(t)

Verifies == EndAccepted \/ \E t \in Turns, i \in Steps : VerifyAccepted(t, i)

Settles == ListAwaiting \/ Cancelled \/ SetPolicy \/ SettingsFail \/ \E t \in Turns : CancelOne(t)

Next ==
    \/ \E a \in Actors : Runs(a) \/ ClientLeaves(a)
    \/ \E t \in Turns : Send(t) \/ Sends(t) \/ Reject(t)
    \/ \E q \in Requests : Revalidate(q) \/ \E t \in Turns : Confirm(q, t)
    \/ Delete \/ Verifies \/ Settles \/ (\E m \in Modes : BeginSettings(m))
    \/ Crash \/ Restart

Spec == Init /\ [][Next]_vars

\* A handler that was entered runs to its end (models and targets have time limits),
\* the verifier's ticker fires and gives up on old operations, and the supervisor
\* restarts the Server.  Nobody has to send, confirm, reject or change the policy.
Fairness ==
    /\ \A a \in Actors : WF_vars(Runs(a))
    /\ \A t \in Turns : WF_vars(Sends(t))
    /\ \A q \in Requests : WF_vars(Revalidate(q))
    /\ WF_vars(Verifies) /\ WF_vars(Settles) /\ WF_vars(Restart)

FairSpec == Spec /\ Fairness

-----------------------------------------------------------------------------

\* What a plan tells of a step is true: waiting, skipped and rejected steps were
\* never handed to their target, and those with a result exactly once.
RecordTruthful ==
    /\ TypeOK
    /\ \A t \in Turns, i \in Steps :
         /\ step[t][i] \in Waiting \cup {"skipped", "rejected"} => ran[t][i] = 0
         /\ step[t][i] \in {"running", "accepted", "success"} => ran[t][i] = 1

\* "Emergency pause": a plan that is being executed stops at its next step.  One
\* step may begin after the pause, when its policy was read before.
PauseStops == \A t \in Turns : late[t] <= 1

\* The steps of the plans behave as PlanLifecycle says: decided once, begun in
\* order and once each through every race of claims and every restart.
Prefix(t) ==
    LET n == Cardinality({i \in Steps : ran[t][i] > 0})
    IN  IF ran[t] = [i \in Steps |-> IF i <= n THEN 1 ELSE 0] THEN n ELSE StepCount + 1

PlanState(t) ==
    IF turn[t] = "deleted" THEN "over"
    ELSE IF step[t] = All("none") THEN "none"
    ELSE IF step[t] = All("pending") THEN "proposed"
    ELSE IF \E i \in Steps : step[t][i] \in {"queued", "running", "accepted"} THEN "approved"
    ELSE "over"

Lifecycle == INSTANCE PlanLifecycle WITH
    Plans <- Turns,
    state <- [t \in Turns |-> PlanState(t)],
    began <- [t \in Turns |-> Prefix(t)],
    ready <- [t \in Turns |-> PlanState(t) = "approved" /\ \A i \in Steps : ran[t][i] > 0 => step[t][i] = "success"]

LifecycleSpec == Lifecycle!Spec

\* A turn that is running ends, in the same process or, after an accepted step, by
\* the verifier of the next one.  A client that leaves between two steps or a
\* failing statement leaves it running until the Server restarts.
PlanEnds ==
    \A t \in Turns : turn[t] = "running" ~>
        turn[t] # "running" \/ used.faults > 0 \/ used.gone > 0

\* "TestServiceAutonomousAndManualClaimsExecutePlanOnlyOnce": whoever wins the
\* claim of a plan, a step that was executed has its result.
ResultRecorded ==
    up /\ used.faults = 0 =>
        \A t \in Turns, i \in Steps : step[t][i] = "running" =>
            \E a \in Actors : proc[a].turn = t /\ proc[a].step = i /\ proc[a].at \in {"record", "complete"}
=============================================================================
