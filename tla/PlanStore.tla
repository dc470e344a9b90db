------------------------------ MODULE PlanStore ------------------------------
(***************************************************************************)
(* The rows of AI turns and of the steps of their plans, with the          *)
(* transactions on them (internal/server/store/ai.go), and the control     *)
(* policy (internal/server/store/settings.go).  SQLite has one connection  *)
(* and MySQL guards the rows it changes by their status, so a transaction  *)
(* is one step.  A step that is "unsupported" counts as a failure.         *)
(***************************************************************************)
EXTENDS Naturals, FiniteSets

CONSTANTS
    Turns,        \* turns of one conversation, each with at most one plan
    StepCount     \* steps of a plan (maxAIToolPlanSteps is five)

ASSUME StepCountAssumption == StepCount \in Nat \ {0}

VARIABLES
    turn,         \* none, running, awaiting, completed, failed, interrupted, deleted
    step,         \* the status of each step of the plan, "none" when there is no plan
    mode          \* the control policy

storeVars == <<turn, step, mode>>

Steps == 1 .. StepCount
Modes == {"confirm_all", "low_risk_auto", "paused"}
TurnStatus == {"none", "running", "awaiting", "completed", "failed", "interrupted", "deleted"}
Open == {"running", "awaiting"}
Waiting == {"pending", "queued"}
Busy == {"pending", "running", "accepted"}
StepStatus == Waiting \cup Busy \cup
    {"none", "success", "failure", "skipped", "rejected", "interrupted"}

StoreInit ==
    /\ turn = [t \in Turns |-> "none"]
    /\ step = [t \in Turns |-> [i \in Steps |-> "none"]]
    /\ mode \in Modes

StoreTypeOK ==
    /\ turn \in [Turns -> TurnStatus]
    /\ step \in [Turns -> [Steps -> StepStatus]]
    /\ mode \in Modes

SetTurn(t, s) == turn' = [turn EXCEPT ![t] = s]
SetStep(t, i, s) == step' = [step EXCEPT ![t][i] = s]
All(s) == [i \in Steps |-> s]

\* The rows of a plan with those in "from" changed to "to".
Changed(plan, from, to) == [i \in Steps |-> IF plan[i] = from THEN to ELSE plan[i]]

-----------------------------------------------------------------------------

\* UNIQUE (conversation_id) WHERE status IN ('running', 'awaiting_confirmation')
StartModelTurn(t) ==
    /\ turn[t] = "none" /\ \A u \in Turns : turn[u] \notin Open \cup {"deleted"}
    /\ SetTurn(t, "running")
    /\ UNCHANGED <<step, mode>>

FinishTurn(t, status) ==
    /\ turn[t] \in Open
    /\ SetTurn(t, status)
    /\ UNCHANGED <<step, mode>>

CreateToolPlan(t) ==
    /\ turn[t] = "running"
    /\ SetTurn(t, "awaiting")
    /\ step' = [step EXCEPT ![t] = All("pending")]
    /\ UNCHANGED mode

PendingPlan(t) == turn[t] = "awaiting" /\ step[t] = All("pending")

ClaimToolPlan(t) ==
    /\ PendingPlan(t)
    /\ SetTurn(t, "running")
    /\ step' = [step EXCEPT ![t] = All("queued")]
    /\ UNCHANGED mode

RejectToolPlan(t) ==
    /\ PendingPlan(t)
    /\ SetTurn(t, "completed")
    /\ step' = [step EXCEPT ![t] = All("rejected")]
    /\ UNCHANGED mode

Transition(t, i, from, to) ==
    /\ step[t][i] = from
    /\ SetStep(t, i, to)
    /\ UNCHANGED <<turn, mode>>

CanComplete(t, i, from) ==
    /\ turn[t] = "running" /\ step[t][i] = from
    /\ \A j \in Steps \ {i} : step[t][j] \notin Busy

CompleteToolPlan(t, i, from, to) ==
    /\ CanComplete(t, i, from)
    /\ SetTurn(t, "completed")
    /\ step' = [step EXCEPT ![t] = Changed([@ EXCEPT ![i] = to], "queued", "skipped")]
    /\ UNCHANGED mode

CanFinish(t) == turn[t] = "running" /\ \A j \in Steps : step[t][j] \notin Busy

FinishToolPlan(t) ==
    /\ CanFinish(t)
    /\ SetTurn(t, "completed")
    /\ step' = [step EXCEPT ![t] = Changed(@, "queued", "skipped")]
    /\ UNCHANGED mode

\* One turn of CancelPendingConfirmations.
CancelPending(t) ==
    /\ turn[t] = "awaiting" /\ \E i \in Steps : step[t][i] = "pending"
    /\ SetTurn(t, "completed")
    /\ step' = [step EXCEPT ![t] = Changed(@, "pending", "rejected")]
    /\ UNCHANGED mode

HasBegun(t) == \E i \in Steps : step[t][i] \in {"accepted", "success"}  \* deviation: waits for any plan

HasAccepted(t) == \E i \in Steps : step[t][i] = "accepted"

QueuedAgain(t) == Changed(step[t], "running", "queued")  \* deviation: replays what was interrupted

\* What a process that died has left: steps behind an accepted one stay queued.
Unqueued(t) == IF HasAccepted(t) THEN step[t] ELSE Changed(step[t], "queued", "skipped")

RecoverInterrupted ==
    /\ step' = [t \in Turns |->
                    Changed(Changed(Unqueued(t), "running", "interrupted"), "pending", "interrupted")]
    /\ turn' = [t \in Turns |->
                    IF turn[t] \in Open /\ ~HasAccepted(t) THEN "interrupted" ELSE turn[t]]
    /\ UNCHANGED mode

\* The rows of the turns and of their calls go with the conversation.
DeleteConversation ==
    /\ turn' = [t \in Turns |-> "deleted"]
    /\ step' = [t \in Turns |-> All("none")]
    /\ UNCHANGED mode

SetControlPolicy(m) == mode' = m /\ UNCHANGED <<turn, step>>
=============================================================================
