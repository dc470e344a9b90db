---------------------------- MODULE AssistantProofs ----------------------------
(***************************************************************************)
(* The AI assistant, for any number of turns, steps, requests, providers,  *)
(* models and conversations.  First its plans: RecordTruthful, PauseStops  *)
(* and the refinement of PlanLifecycle.  Then its models, RoutingExact,    *)
(* and its conversations, TranscriptNamesItsModel.                         *)
(***************************************************************************)
EXTENDS ToolPlan, Conversations, FiniteSetTheorems, WellFoundedInduction, TLAPS

-----------------------------------------------------------------------------
(* The rows of a plan                                                      *)

Plan == [Steps -> StepStatus]

\* What the statuses of a plan say of one another and of what was handed to the targets.
PlanFits(plan, begun) ==
    /\ \A i \in Steps : plan[i] \in Waiting \cup {"none", "skipped", "rejected"} => begun[i] = 0
    /\ \A i \in Steps : plan[i] \in {"running", "accepted", "success"} => begun[i] = 1
    /\ \A i \in Steps : begun[i] \in {0, 1}
    /\ \A i, j \in Steps : plan[i] \in {"none", "pending"} => plan[j] = plan[i]
    /\ \A i, j \in Steps : i < j /\ plan[i] \in {"queued", "running", "accepted"} => plan[j] = "queued"
    /\ \A i, j \in Steps : i < j /\ begun[j] = 1 => plan[i] = "success"

LEMMA StepsAreNumbers == Steps \subseteq Nat /\ 1 \in Steps /\ StepCount \in Steps
BY StepCountAssumption DEF Steps

LEMMA ChangedPlan ==
    ASSUME NEW plan \in Plan, NEW from, NEW to \in StepStatus
    PROVE  /\ Changed(plan, from, to) \in Plan
           /\ \A i \in Steps : Changed(plan, from, to)[i] = IF plan[i] = from THEN to ELSE plan[i]
BY DEF Changed, Plan

LEMMA AllPlan ==
    ASSUME NEW s \in StepStatus
    PROVE  All(s) \in Plan /\ \A i \in Steps : All(s)[i] = s
BY DEF All, Plan

LEMMA AllMeans ==
    ASSUME NEW plan \in Plan, NEW s, \A i \in Steps : plan[i] = s
    PROVE  plan = All(s)
BY DEF All, Plan

\* A plan that is created, claimed or decided on as a whole.
LEMMA WholePlanFits ==
    ASSUME NEW plan \in Plan, NEW begun, PlanFits(plan, begun),
           NEW from \in {"none", "pending"}, plan = All(from),
           NEW to \in {"none", "pending", "queued", "rejected", "interrupted"}
    PROVE  PlanFits(All(to), begun)
<1>1. from \in StepStatus /\ to \in StepStatus
  BY DEF StepStatus, Waiting, Busy
<1>2. \A i \in Steps : plan[i] = from /\ All(to)[i] = to
  BY <1>1, AllPlan
<1>3. \A i \in Steps : begun[i] = 0
  BY <1>2 DEF PlanFits, Waiting
<1> QED
  BY <1>2, <1>3 DEF PlanFits, Waiting

\* A step that begins is the first that has not succeeded.
LEMMA StartFits ==
    ASSUME NEW plan \in Plan, NEW begun \in [Steps -> Nat], PlanFits(plan, begun),
           NEW i \in Steps, plan[i] = "queued", \A j \in 1 .. i - 1 : plan[j] = "success"
    PROVE  /\ [plan EXCEPT ![i] = "running"] \in Plan
           /\ [begun EXCEPT ![i] = @ + 1] \in [Steps -> Nat]
           /\ PlanFits([plan EXCEPT ![i] = "running"], [begun EXCEPT ![i] = @ + 1])
<1> DEFINE p == [plan EXCEPT ![i] = "running"]
           b == [begun EXCEPT ![i] = @ + 1]
<1>1. /\ p \in Plan /\ b \in [Steps -> Nat]
      /\ p[i] = "running" /\ \A j \in Steps \ {i} : p[j] = plan[j] /\ b[j] = begun[j]
  BY DEF Plan, StepStatus, Busy
<1>2. begun[i] = 0 /\ b[i] = 1
  BY DEF PlanFits, Waiting
<1>3. \A j \in Steps : j < i => plan[j] = "success"
  BY StepsAreNumbers DEF Steps
<1>4. \A j \in Steps : i < j => plan[j] = "queued"
  BY DEF PlanFits
<1>5. \A j \in Steps : begun[j] \in {0, 1}
  BY DEF PlanFits
<1> HIDE DEF p, b
<1>6. \A j \in Steps : p[j] \in Waiting \cup {"none", "skipped", "rejected"} => b[j] = 0
  BY <1>1, <1>2 DEF PlanFits, Waiting
<1>7. \A j \in Steps : p[j] \in {"running", "accepted", "success"} => b[j] = 1
  BY <1>1, <1>2 DEF PlanFits
<1>8. \A j \in Steps : b[j] \in {0, 1}
  BY <1>1, <1>2, <1>5
<1>9. \A j, k \in Steps : p[j] \in {"none", "pending"} => p[k] = p[j]
  <2>1. \A j \in Steps : plan[j] \notin {"none", "pending"}
    BY DEF PlanFits
  <2> QED
    BY <1>1, <2>1
<1>10. \A j, k \in Steps : j < k /\ p[j] \in {"queued", "running", "accepted"} => p[k] = "queued"
  <2> SUFFICES ASSUME NEW j \in Steps, NEW k \in Steps, j < k, p[j] \in {"queued", "running", "accepted"}
               PROVE  p[k] = "queued"
    OBVIOUS
  <2>1. ~(j < i)
    BY <1>1, <1>3, StepsAreNumbers
  <2>2. i < k /\ k # i
    BY <2>1, StepsAreNumbers
  <2> QED
    BY <1>1, <1>4, <2>2
<1>11. \A j, k \in Steps : j < k /\ b[k] = 1 => p[j] = "success"
  <2> SUFFICES ASSUME NEW j \in Steps, NEW k \in Steps, j < k, b[k] = 1 PROVE p[j] = "success"
    OBVIOUS
  <2>1. k = i \/ (k # i /\ begun[k] = 1 /\ plan[j] = "success")
    BY <1>1 DEF PlanFits
  <2>2. plan[j] = "success"
    BY <1>3, <2>1
  <2>3. j # i
    BY <2>2
  <2> QED
    BY <1>1, <2>2, <2>3
<1>12. PlanFits(p, b)
  BY <1>6, <1>7, <1>8, <1>9, <1>10, <1>11 DEF PlanFits
<1> QED
  BY <1>1, <1>12 DEF p, b

\* A step that was handed over is accepted, or ends.
LEMMA TransitionFits ==
    ASSUME NEW plan \in Plan, NEW begun, PlanFits(plan, begun), NEW i \in Steps,
           plan[i] \in {"running", "accepted"}, NEW to \in {"accepted", "success"}
    PROVE  [plan EXCEPT ![i] = to] \in Plan /\ PlanFits([plan EXCEPT ![i] = to], begun)
<1> DEFINE p == [plan EXCEPT ![i] = to]
<1>1. p \in Plan /\ p[i] = to /\ \A j \in Steps \ {i} : p[j] = plan[j]
  BY DEF Plan, StepStatus, Busy
<1>2. /\ begun[i] = 1
      /\ \A j \in Steps : i < j => plan[j] = "queued"
      /\ \A j \in Steps : j < i => plan[j] = "success"
  BY DEF PlanFits
<1> HIDE DEF p
<1>3. \A j \in Steps : p[j] \in Waiting \cup {"none", "skipped", "rejected"} => begun[j] = 0
  BY <1>1 DEF PlanFits, Waiting
<1>4. \A j \in Steps : p[j] \in {"running", "accepted", "success"} => begun[j] = 1
  BY <1>1, <1>2 DEF PlanFits
<1>5. \A j, k \in Steps : p[j] \in {"none", "pending"} => p[k] = p[j]
  <2>1. \A j \in Steps : plan[j] \notin {"none", "pending"}
    BY DEF PlanFits
  <2> QED
    BY <1>1, <2>1
<1>6. \A j, k \in Steps : j < k /\ p[j] \in {"queued", "running", "accepted"} => p[k] = "queued"
  <2> SUFFICES ASSUME NEW j \in Steps, NEW k \in Steps, j < k, p[j] \in {"queued", "running", "accepted"}
               PROVE  p[k] = "queued"
    OBVIOUS
  <2>1. ~(j < i)
    BY <1>1, <1>2, StepsAreNumbers
  <2>2. i < k /\ k # i
    BY <2>1, StepsAreNumbers
  <2> QED
    BY <1>1, <1>2, <2>2
<1>7. \A j, k \in Steps : j < k /\ begun[k] = 1 => p[j] = "success"
  <2> SUFFICES ASSUME NEW j \in Steps, NEW k \in Steps, j < k, begun[k] = 1 PROVE p[j] = "success"
    OBVIOUS
  <2>1. plan[j] = "success"
    BY DEF PlanFits
  <2> QED
    BY <1>1, <2>1
<1> QED
  BY <1>1, <1>3, <1>4, <1>5, <1>6, <1>7 DEF PlanFits, p

\* Statuses that never come back: what is over leaves nothing queued or running.
LEMMA SettledFits ==
    ASSUME NEW plan \in Plan, NEW begun, PlanFits(plan, begun), NEW p \in Plan,
           \A i \in Steps : plan[i] \notin {"none", "pending"},
           \A i \in Steps : p[i] \notin {"none", "pending", "queued", "running", "accepted"},
           \A i \in Steps : p[i] # plan[i] =>
               \/ p[i] = "skipped" /\ plan[i] = "queued"
               \/ p[i] \in {"failure", "interrupted"} /\ plan[i] # "success"
               \/ p[i] = "success" /\ plan[i] \in {"running", "accepted"}
    PROVE  PlanFits(p, begun)
<1>1. \A i \in Steps : p[i] \in Waiting \cup {"none", "skipped", "rejected"} => begun[i] = 0
  BY DEF PlanFits, Waiting
<1>2. \A i \in Steps : p[i] \in {"running", "accepted", "success"} => begun[i] = 1
  BY DEF PlanFits
<1>3. \A i, j \in Steps : i < j /\ begun[j] = 1 => p[i] = "success"
  <2> SUFFICES ASSUME NEW i \in Steps, NEW j \in Steps, i < j, begun[j] = 1 PROVE p[i] = "success"
    OBVIOUS
  <2>1. plan[i] = "success"
    BY DEF PlanFits
  <2> QED
    BY <2>1
<1> QED
  BY <1>1, <1>2, <1>3 DEF PlanFits

-----------------------------------------------------------------------------
(* The transactions on the rows                                            *)

\* The rows of a turn: nothing is left of a conversation that was deleted.
RowsFit(t) ==
    IF turn[t] = "deleted" THEN step[t] = All("none") ELSE PlanFits(step[t], ran[t])

RowsType ==
    /\ turn \in [Turns -> TurnStatus] /\ step \in [Turns -> Plan]
    /\ ran \in [Turns -> [Steps -> Nat]]

RowsInv ==
    /\ RowsType
    /\ \A t \in Turns : RowsFit(t)
    /\ \A t \in Turns : turn[t] = "none" => step[t] = All("none")

\* Only the turn's own status changes.
TurnMoves ==
    /\ turn' \in [Turns -> TurnStatus]
    /\ \A t \in Turns : turn'[t] = "none" => turn[t] = "none"
    /\ \A t \in Turns : turn'[t] = "deleted" <=> turn[t] = "deleted"
    /\ UNCHANGED <<step, ran>>

\* The plan of one turn changes, and with it perhaps the turn.
PlanMoves(t, from, status, to) ==
    /\ turn[t] # "deleted" /\ step[t] = from
    /\ turn' = [turn EXCEPT ![t] = status] /\ step' = [step EXCEPT ![t] = to]

CreatesPlan(t) ==
    PlanMoves(t, All("none"), "awaiting", All("pending")) /\ UNCHANGED ran

ClaimsPlan(t) ==
    PlanMoves(t, All("pending"), "running", All("queued")) /\ UNCHANGED ran

RejectsPlan(t) ==
    PlanMoves(t, All("pending"), "completed", All("rejected")) /\ UNCHANGED ran

StartsStep(t, i) ==
    /\ turn[t] # "deleted" /\ step[t][i] = "queued" /\ \A j \in 1 .. i - 1 : step[t][j] = "success"
    /\ step' = [step EXCEPT ![t] = [step[t] EXCEPT ![i] = "running"]]
    /\ ran' = [ran EXCEPT ![t] = [ran[t] EXCEPT ![i] = @ + 1]]
    /\ UNCHANGED turn

\* A step is accepted, or has succeeded with another one to follow.
RecordsStep(t, i, to) ==
    /\ turn[t] # "deleted" /\ step[t][i] \in {"running", "accepted"}
    /\ to = "accepted" \/ (to = "success" /\ i < StepCount)
    /\ step' = [step EXCEPT ![t] = [step[t] EXCEPT ![i] = to]]
    /\ UNCHANGED <<turn, ran>>

Settled(plan, p) ==
    /\ \A i \in Steps : p[i] \notin {"none", "pending", "queued", "running", "accepted"}
    /\ \A i \in Steps : p[i] # plan[i] =>
           \/ p[i] = "skipped" /\ plan[i] = "queued"
           \/ p[i] \in {"failure", "interrupted"} /\ plan[i] # "success"
           \/ p[i] = "success" /\ plan[i] \in {"running", "accepted"}

\* Some step was still to be done, and none is any more.
EndsPlan(t) ==
    /\ turn[t] = "running" /\ \E i \in Steps : step[t][i] \in {"queued", "running", "accepted"}
    /\ turn' = [turn EXCEPT ![t] = "completed"]
    /\ \E p \in Plan : Settled(step[t], p) /\ step' = [step EXCEPT ![t] = p]
    /\ UNCHANGED ran

\* Neither a new plan nor a result.
Follows ==
    \/ TurnMoves
    \/ \E t \in Turns : ClaimsPlan(t) \/ RejectsPlan(t) \/ EndsPlan(t) \/ \E i \in Steps : StartsStep(t, i)
    \/ RecoverInterrupted /\ UNCHANGED ran
    \/ DeleteConversation /\ UNCHANGED ran

Transaction ==
    \/ Follows
    \/ \E t \in Turns : CreatesPlan(t)
    \/ \E t \in Turns, i \in Steps, to \in StepStatus : RecordsStep(t, i, to)

LEMMA OnePlanMoves ==
    ASSUME RowsInv, NEW t \in Turns, turn[t] # "deleted",
           NEW status \in TurnStatus \ {"none", "deleted"}, NEW p \in Plan, NEW b \in [Steps -> Nat],
           PlanFits(p, b),
           turn' = [turn EXCEPT ![t] = status], step' = [step EXCEPT ![t] = p],
           ran' = [ran EXCEPT ![t] = b]
    PROVE  RowsInv'
<1>1. RowsType'
  BY DEF RowsInv, RowsType
<1>2. turn'[t] = status /\ step'[t] = p /\ ran'[t] = b
  BY DEF RowsInv, RowsType
<1>3. \A u \in Turns \ {t} : turn'[u] = turn[u] /\ step'[u] = step[u] /\ ran'[u] = ran[u]
  BY DEF RowsInv, RowsType
<1>4. \A u \in Turns : RowsFit(u)'
  BY <1>2, <1>3 DEF RowsInv, RowsFit
<1>5. \A u \in Turns : turn'[u] = "none" => step'[u] = All("none")
  BY <1>2, <1>3 DEF RowsInv
<1> QED
  BY <1>1, <1>4, <1>5 DEF RowsInv, All

LEMMA TurnMovesInv == ASSUME RowsInv, TurnMoves PROVE RowsInv'
<1>1. RowsType'
  BY DEF RowsInv, RowsType, TurnMoves
<1>2. \A t \in Turns : RowsFit(t)'
  BY DEF RowsInv, RowsFit, TurnMoves
<1> QED
  BY <1>1, <1>2 DEF RowsInv, TurnMoves, All

LEMMA WholePlanInv ==
    ASSUME RowsInv, NEW t \in Turns, CreatesPlan(t) \/ ClaimsPlan(t) \/ RejectsPlan(t)
    PROVE  RowsInv'
<1>1. PICK status \in {"awaiting", "running", "completed"}, from \in {"none", "pending"},
           to \in {"pending", "queued", "rejected"} :
        PlanMoves(t, All(from), status, All(to))
  BY DEF CreatesPlan, ClaimsPlan, RejectsPlan
<1>2. PlanFits(step[t], ran[t]) /\ step[t] \in Plan /\ turn[t] # "deleted" /\ ran[t] \in [Steps -> Nat]
  BY <1>1 DEF PlanMoves, RowsInv, RowsFit, RowsType
<1>3. PlanFits(All(to), ran[t])
  BY <1>1, <1>2, WholePlanFits DEF PlanMoves
<1>4. All(to) \in Plan
  BY AllPlan DEF StepStatus, Waiting, Busy
<1>5. ran' = [ran EXCEPT ![t] = ran[t]]
  BY DEF CreatesPlan, ClaimsPlan, RejectsPlan, RowsInv, RowsType
<1> QED
  BY <1>1, <1>2, <1>3, <1>4, <1>5, OnePlanMoves DEF PlanMoves, TurnStatus

LEMMA StartsStepInv ==
    ASSUME RowsInv, NEW t \in Turns, NEW i \in Steps, StartsStep(t, i)
    PROVE  RowsInv'
<1>1. /\ PlanFits(step[t], ran[t]) /\ step[t] \in Plan /\ ran[t] \in [Steps -> Nat]
      /\ turn[t] # "deleted" /\ turn[t] \in TurnStatus
  BY DEF StartsStep, RowsInv, RowsFit, RowsType
<1>2. /\ [step[t] EXCEPT ![i] = "running"] \in Plan
      /\ [ran[t] EXCEPT ![i] = @ + 1] \in [Steps -> Nat]
      /\ PlanFits([step[t] EXCEPT ![i] = "running"], [ran[t] EXCEPT ![i] = @ + 1])
  BY <1>1, StartFits DEF StartsStep
<1>3. turn[t] # "none"
  BY AllPlan DEF RowsInv, StartsStep, StepStatus
<1>4. turn' = [turn EXCEPT ![t] = turn[t]]
  BY DEF StartsStep, RowsInv, RowsType
<1> QED
  BY <1>1, <1>2, <1>3, <1>4, OnePlanMoves DEF StartsStep

LEMMA RecordsStepInv ==
    ASSUME RowsInv, NEW t \in Turns, NEW i \in Steps, NEW to \in StepStatus, RecordsStep(t, i, to)
    PROVE  RowsInv'
<1>1. /\ PlanFits(step[t], ran[t]) /\ step[t] \in Plan /\ ran[t] \in [Steps -> Nat]
      /\ turn[t] # "deleted" /\ turn[t] \in TurnStatus
  BY DEF RecordsStep, RowsInv, RowsFit, RowsType
<1>2. [step[t] EXCEPT ![i] = to] \in Plan /\ PlanFits([step[t] EXCEPT ![i] = to], ran[t])
  BY <1>1, TransitionFits DEF RecordsStep
<1>3. turn[t] # "none"
  BY AllPlan DEF RowsInv, RecordsStep, StepStatus
<1>4. turn' = [turn EXCEPT ![t] = turn[t]] /\ ran' = [ran EXCEPT ![t] = ran[t]]
  BY DEF RecordsStep, RowsInv, RowsType
<1> QED
  BY <1>1, <1>2, <1>3, <1>4, OnePlanMoves DEF RecordsStep

LEMMA EndsPlanInv ==
    ASSUME RowsInv, NEW t \in Turns, EndsPlan(t)
    PROVE  RowsInv'
<1>1. /\ PlanFits(step[t], ran[t]) /\ step[t] \in Plan /\ ran[t] \in [Steps -> Nat]
      /\ turn[t] # "deleted"
  BY DEF EndsPlan, RowsInv, RowsFit, RowsType
<1>2. PICK p \in Plan : Settled(step[t], p) /\ step' = [step EXCEPT ![t] = p]
  BY DEF EndsPlan
<1>3. \A i \in Steps : step[t][i] \notin {"none", "pending"}
  BY <1>1 DEF EndsPlan, PlanFits
<1>4. PlanFits(p, ran[t])
  BY <1>1, <1>2, <1>3, SettledFits DEF Settled
<1>5. turn' = [turn EXCEPT ![t] = "completed"] /\ ran' = [ran EXCEPT ![t] = ran[t]]
  BY DEF EndsPlan, RowsInv, RowsType
<1> QED
  BY <1>1, <1>2, <1>4, <1>5, OnePlanMoves DEF TurnStatus

\* What a start finds: nothing, an accepted step with its queue, a proposal, or a
\* plan without an accepted step, of which nothing stays to be done.
LEMMA RecoveredPlan ==
    ASSUME RowsInv, RecoverInterrupted, NEW t \in Turns
    PROVE  /\ step'[t] \in Plan /\ turn'[t] \in TurnStatus
           /\ turn'[t] = "deleted" <=> turn[t] = "deleted"
           /\ turn'[t] = "none" => turn[t] = "none"
           /\ \/ step'[t] = step[t] /\ (HasAccepted(t) \/ step[t] = All("none"))
              \/ /\ turn[t] \notin {"none", "deleted"}
                 /\ step[t] = All("pending") /\ step'[t] = All("interrupted")
              \/ /\ turn[t] \notin {"none", "deleted"}
                 /\ \A i \in Steps : step[t][i] \notin {"none", "pending", "accepted"}
                 /\ Settled(step[t], step'[t])
<1> DEFINE p0 == Unqueued(t)
           p1 == Changed(p0, "running", "interrupted")
           p2 == Changed(p1, "pending", "interrupted")
<1>1. step[t] \in Plan /\ turn[t] \in TurnStatus /\ "interrupted" \in StepStatus /\ "skipped" \in StepStatus
  BY DEF RowsInv, RowsType, StepStatus
<1>2. step'[t] = p2
  BY DEF RecoverInterrupted
<1>3. turn'[t] = IF turn[t] \in Open /\ ~HasAccepted(t) THEN "interrupted" ELSE turn[t]
  BY DEF RecoverInterrupted
<1>4. /\ turn'[t] \in TurnStatus /\ (turn'[t] = "deleted" <=> turn[t] = "deleted")
      /\ turn'[t] = "none" => turn[t] = "none"
  BY <1>1, <1>3 DEF Open, TurnStatus
<1>5. /\ p0 \in Plan
      /\ \A i \in Steps : p0[i] = IF ~HasAccepted(t) /\ step[t][i] = "queued" THEN "skipped" ELSE step[t][i]
  BY <1>1, ChangedPlan DEF Unqueued
<1>6. p1 \in Plan /\ \A i \in Steps : p1[i] = IF p0[i] = "running" THEN "interrupted" ELSE p0[i]
  BY <1>1, <1>5, ChangedPlan
<1>7. p2 \in Plan /\ \A i \in Steps : p2[i] = IF p1[i] = "pending" THEN "interrupted" ELSE p1[i]
  BY <1>1, <1>6, ChangedPlan
<1> HIDE DEF p0, p1, p2
<1>8. CASE step[t] = All("none")
  <2>1. \A i \in Steps : step[t][i] = "none"
    BY <1>8 DEF All
  <2>2. \A i \in Steps : p2[i] = "none"
    BY <2>1, <1>5, <1>6, <1>7
  <2>3. p2 = All("none")
    BY <2>2, <1>7, AllMeans
  <2> QED
    BY <1>2, <1>4, <1>7, <1>8, <2>3
<1>9. CASE step[t] # All("none")
  <2>1. turn[t] \notin {"none", "deleted"} /\ PlanFits(step[t], ran[t])
    BY <1>9 DEF RowsInv, RowsFit
  <2>2. \A i \in Steps : step[t][i] # "none"
    <3> SUFFICES ASSUME NEW i \in Steps, step[t][i] = "none" PROVE FALSE
      OBVIOUS
    <3>1. \A j \in Steps : step[t][j] = "none"
      BY <2>1 DEF PlanFits
    <3> QED
      BY <3>1, <1>1, <1>9, AllMeans
  <2>3. CASE HasAccepted(t)
    <3>1. PICK k \in Steps : step[t][k] = "accepted"
      BY <2>3 DEF HasAccepted
    <3>2. \A i \in Steps : step[t][i] # "pending"
      BY <2>1, <3>1 DEF PlanFits
    <3>3. \A i \in Steps : step[t][i] # "running"
      <4> SUFFICES ASSUME NEW i \in Steps, step[t][i] = "running" PROVE FALSE
        OBVIOUS
      <4>1. i # k /\ i \in Nat /\ k \in Nat
        BY <3>1, StepsAreNumbers
      <4>2. i < k => step[t][k] = "queued"
        BY <2>1 DEF PlanFits
      <4>3. k < i => step[t][i] = "queued"
        BY <2>1, <3>1 DEF PlanFits
      <4> QED
        BY <3>1, <4>1, <4>2, <4>3
    <3>4. \A i \in Steps : p2[i] = step[t][i]
      BY <2>3, <3>2, <3>3, <1>5, <1>6, <1>7
    <3>5. p2 = step[t]
      BY <3>4, <1>1, <1>7 DEF Plan
    <3> QED
      BY <1>2, <1>4, <1>7, <2>3, <3>5
  <2>4. CASE ~HasAccepted(t) /\ \E i \in Steps : step[t][i] = "pending"
    <3>1. \A i \in Steps : step[t][i] = "pending"
      BY <2>1, <2>4 DEF PlanFits
    <3>2. \A i \in Steps : p2[i] = "interrupted"
      BY <3>1, <1>5, <1>6, <1>7
    <3>3. step[t] = All("pending") /\ p2 = All("interrupted")
      BY <3>1, <3>2, <1>1, <1>7, AllMeans
    <3> QED
      BY <1>2, <1>4, <1>7, <2>1, <3>3
  <2>5. CASE ~HasAccepted(t) /\ \A i \in Steps : step[t][i] # "pending"
    <3>1. \A i \in Steps : step[t][i] \notin {"none", "pending", "accepted"}
      BY <2>2, <2>5 DEF HasAccepted
    <3>2. \A i \in Steps : p2[i] = IF step[t][i] = "queued" THEN "skipped"
                                   ELSE IF step[t][i] = "running" THEN "interrupted" ELSE step[t][i]
      BY <2>5, <1>5, <1>6, <1>7
    <3>3. Settled(step[t], p2)
      BY <3>1, <3>2 DEF Settled
    <3> QED
      BY <1>2, <1>4, <1>7, <2>1, <3>1, <3>3
  <2> QED
    BY <2>3, <2>4, <2>5
<1> QED
  BY <1>8, <1>9

LEMMA RecoverInv ==
    ASSUME RowsInv, RecoverInterrupted, UNCHANGED ran
    PROVE  RowsInv'
<1>1. RowsType'
  <2>1. step' \in [Turns -> Plan] /\ turn' \in [Turns -> TurnStatus]
    <3>1. \A t \in Turns : step'[t] \in Plan /\ turn'[t] \in TurnStatus
      BY RecoveredPlan
    <3>2. step' = [t \in Turns |-> step'[t]] /\ turn' = [t \in Turns |-> turn'[t]]
      BY DEF RecoverInterrupted
    <3> QED
      BY <3>1, <3>2
  <2> QED
    BY <2>1 DEF RowsInv, RowsType
<1>2. ASSUME NEW t \in Turns PROVE RowsFit(t)' /\ (turn'[t] = "none" => step'[t] = All("none"))
  <2>1. ran'[t] = ran[t]
    OBVIOUS
  <2>2. CASE step'[t] = step[t]
    BY <2>1, <2>2, RecoveredPlan DEF RowsInv, RowsFit, All, HasAccepted
  <2>3. CASE step'[t] # step[t]
    <3>1. turn[t] \notin {"none", "deleted"} /\ turn'[t] \notin {"none", "deleted"} /\ step'[t] \in Plan
      BY <2>3, RecoveredPlan
    <3>2. step[t] \in Plan /\ PlanFits(step[t], ran[t])
      BY <3>1 DEF RowsInv, RowsFit, RowsType
    <3>3. CASE step[t] = All("pending") /\ step'[t] = All("interrupted")
      <4>1. PlanFits(All("interrupted"), ran[t])
        BY <3>2, <3>3, WholePlanFits
      <4> QED
        BY <2>1, <3>1, <3>3, <4>1 DEF RowsFit
    <3>4. CASE Settled(step[t], step'[t]) /\ \A i \in Steps : step[t][i] \notin {"none", "pending"}
      <4>1. PlanFits(step'[t], ran[t])
        BY <3>1, <3>2, <3>4, SettledFits DEF Settled
      <4> QED
        BY <2>1, <3>1, <4>1 DEF RowsFit
    <3> QED
      BY <2>3, <3>3, <3>4, RecoveredPlan
  <2> QED
    BY <2>2, <2>3
<1> QED
  BY <1>1, <1>2 DEF RowsInv, All

LEMMA DeleteInv ==
    ASSUME RowsInv, DeleteConversation, UNCHANGED ran
    PROVE  RowsInv'
<1>1. turn' \in [Turns -> TurnStatus] /\ step' \in [Turns -> Plan]
  BY AllPlan DEF DeleteConversation, TurnStatus, StepStatus
<1>2. \A t \in Turns : turn'[t] = "deleted" /\ step'[t] = All("none")
  BY DEF DeleteConversation
<1> QED
  BY <1>1, <1>2 DEF RowsInv, RowsType, RowsFit, All

LEMMA TransactionKeepsRows == ASSUME RowsInv, Transaction PROVE RowsInv'
BY TurnMovesInv, WholePlanInv, StartsStepInv, RecordsStepInv, EndsPlanInv, RecoverInv, DeleteInv
   DEF Transaction, Follows

-----------------------------------------------------------------------------
(* The actors                                                              *)

Proc == [at : Pcs, turn : Turns \cup {Null}, step : Steps, auto : BOOLEAN,
         from : StepStatus, out : StepStatus \cup {"paused"}]

\* Between the claim of a plan, or the verification of its step, and its end.
Working == {"again", "list", "control", "start", "record", "verified", "complete", "finish"}

Works(a, t) == proc[a].turn = t /\ proc[a].at \in Working

\* What an actor holds, and relies on of the rows.
Means(p) ==
    /\ p.at # "idle" => p.turn \in Turns
    /\ p.at = "complete" =>
          /\ p.out \in {"success", "failure", "interrupted"}
          /\ p.from \in {"queued", "running", "accepted"}
          /\ p.out = "success" => p.from # "queued"
    /\ p.at = "verified" => p.out \in {"success", "failure", "interrupted"}
    /\ p.at \in {"control", "start"} =>
          turn[p.turn] = "deleted" \/ \A j \in 1 .. p.step - 1 : step[p.turn][j] = "success"

Drafts == \A t \in Turns : proc[t].at \in {"propose", "create"} => step[t] = All("none")

\* A claimed plan has one actor; an accepted step has left its plan to the verifier.
OneWorks(t) ==
    \A a \in Actors : Works(a, t) =>
        /\ turn[t] = "deleted" \/ step[t][1] \notin {"none", "pending"}
        /\ HasAccepted(t) => a = Verifier
        /\ \A b \in Actors : Works(b, t) => b = a

\* Nobody who may still start a step has read the policy before a pause that has
\* already let one through.
Pauses(t) ==
    /\ late[t] \in {0, 1}
    /\ late[t] = 1 => mode = "paused" /\ \A a \in Actors : ~(proc[a].at = "start" /\ proc[a].turn = t)

ActorsInv ==
    /\ proc \in [Actors -> Proc]
    /\ ~up => \A a \in Actors : proc[a].at = "idle"
    /\ \A a \in Actors : Means(proc[a])
    /\ Drafts
    /\ \A t \in Turns : OneWorks(t) /\ Pauses(t)

Moves(a, p) == p \in Proc /\ proc' = [proc EXCEPT ![a] = p]

LEMMA IdleFacts == Idle \in Proc /\ Idle.at = "idle"
BY StepsAreNumbers DEF Idle, Proc, Pcs, StepStatus, Steps

LEMMA LeaveMoves ==
    ASSUME NEW a \in Actors, Leave(a)
    PROVE  Moves(a, Idle) /\ Idle.at = "idle"
BY IdleFacts DEF Leave, Moves

LEMMA GoMoves ==
    ASSUME proc \in [Actors -> Proc], NEW a \in Actors, NEW pc \in Pcs, Go(a, pc)
    PROVE  \E p : /\ Moves(a, p) /\ p.at = pc
                  /\ p.turn = proc[a].turn /\ p.step = proc[a].step /\ p.auto = proc[a].auto
                  /\ p.from = proc[a].from /\ p.out = proc[a].out
<1> DEFINE p == [proc[a] EXCEPT !.at = pc]
<1>1. proc[a] \in Proc
  OBVIOUS
<1>2. p \in Proc
  BY <1>1 DEF Proc
<1>3. proc' = [proc EXCEPT ![a] = p]
  BY DEF Go
<1>4. /\ p.at = pc
      /\ p.turn = proc[a].turn /\ p.step = proc[a].step /\ p.auto = proc[a].auto
      /\ p.from = proc[a].from /\ p.out = proc[a].out
  BY <1>1 DEF Proc
<1> QED
  BY <1>2, <1>3, <1>4 DEF Moves

LEMMA GoStepMoves ==
    ASSUME proc \in [Actors -> Proc], NEW a \in Actors, NEW pc \in Pcs, NEW i \in Steps, GoStep(a, pc, i)
    PROVE  \E p : Moves(a, p) /\ p.at = pc /\ p.turn = proc[a].turn /\ p.step = i
<1> DEFINE p == [proc[a] EXCEPT !.at = pc, !.step = i]
<1>1. proc[a] \in Proc
  OBVIOUS
<1>2. p \in Proc
  BY <1>1 DEF Proc
<1>3. proc' = [proc EXCEPT ![a] = p]
  BY DEF GoStep
<1>4. p.at = pc /\ p.turn = proc[a].turn /\ p.step = i
  BY <1>1 DEF Proc
<1> QED
  BY <1>2, <1>3, <1>4 DEF Moves

LEMMA GoCompleteMoves ==
    ASSUME proc \in [Actors -> Proc], NEW a \in Actors, NEW i \in Steps, NEW from \in StepStatus,
           NEW out \in StepStatus, GoComplete(a, i, from, out)
    PROVE  \E p : /\ Moves(a, p) /\ p.at = "complete" /\ p.turn = proc[a].turn /\ p.step = i
                  /\ p.from = from /\ p.out = out
<1> DEFINE p == [proc[a] EXCEPT !.at = "complete", !.step = i, !.from = from, !.out = out]
<1>1. proc[a] \in Proc
  OBVIOUS
<1>2. p \in Proc
  BY <1>1 DEF Proc, Pcs
<1>3. proc' = [proc EXCEPT ![a] = p]
  BY DEF GoComplete
<1>4. p.at = "complete" /\ p.turn = proc[a].turn /\ p.step = i /\ p.from = from /\ p.out = out
  BY <1>1 DEF Proc
<1> QED
  BY <1>2, <1>3, <1>4 DEF Moves

LEMMA FailsMoves ==
    ASSUME proc \in [Actors -> Proc], NEW a \in Actors, Fails(a)
    PROVE  \E p : Moves(a, p) /\ (p.at = "idle" \/ (p.at = "fail" /\ p.turn = proc[a].turn))
<1>1. CASE a \in Turns
  BY <1>1, GoMoves DEF Fails, Pcs
<1>2. CASE a \notin Turns
  BY <1>2, LeaveMoves DEF Fails
<1> QED
  BY <1>1, <1>2

-----------------------------------------------------------------------------
(* What transactions keep                                                  *)

LEMMA AllDiffer ==
    ASSUME NEW s, NEW r, All(s) = All(r)
    PROVE  s = r
<1>1. All(s)[1] = s /\ All(r)[1] = r
  BY StepsAreNumbers DEF All
<1> QED
  BY <1>1

\* Each transaction but the starts and deletions changes the rows of one turn.
LEMMA RowsKept ==
    ASSUME RowsInv, Transaction, NEW t \in Turns
    PROVE  \/ turn'[t] = "deleted" /\ step'[t] = All("none")
           \/ /\ turn[t] = "deleted" <=> turn'[t] = "deleted"
              /\ \/ step'[t] = step[t]
                 \/ turn[t] # "deleted" /\ CreatesPlan(t)
                 \/ \E from \in {"pending"}, to \in {"queued", "rejected", "interrupted"} :
                       step[t] = All(from) /\ step'[t] = All(to)
                 \/ turn[t] # "deleted" /\ \E i \in Steps : StartsStep(t, i)
                 \/ turn[t] # "deleted" /\ \E i \in Steps, to \in StepStatus : RecordsStep(t, i, to)
                 \/ turn[t] # "deleted" /\ Settled(step[t], step'[t])
<1>1. turn \in [Turns -> TurnStatus] /\ step \in [Turns -> Plan]
  BY DEF RowsInv, RowsType
<1>2. CASE TurnMoves
  BY <1>2 DEF TurnMoves
<1>3. CASE \E u \in Turns : CreatesPlan(u)
  BY <1>1, <1>3 DEF CreatesPlan, PlanMoves
<1>4. CASE \E u \in Turns : ClaimsPlan(u)
  BY <1>1, <1>4 DEF ClaimsPlan, PlanMoves
<1>5. CASE \E u \in Turns : RejectsPlan(u)
  BY <1>1, <1>5 DEF RejectsPlan, PlanMoves
<1>6. CASE \E u \in Turns, i \in Steps : StartsStep(u, i)
  BY <1>1, <1>6 DEF StartsStep
<1>7. CASE \E u \in Turns, i \in Steps, to \in StepStatus : RecordsStep(u, i, to)
  BY <1>1, <1>7 DEF RecordsStep
<1>8. CASE \E u \in Turns : EndsPlan(u)
  BY <1>1, <1>8 DEF EndsPlan
<1>9. CASE RecoverInterrupted
  BY <1>9, RecoveredPlan
<1>10. CASE DeleteConversation
  BY <1>10 DEF DeleteConversation
<1> QED
  BY <1>2, <1>3, <1>4, <1>5, <1>6, <1>7, <1>8, <1>9, <1>10 DEF Transaction, Follows

LEMMA NoReturn ==
    ASSUME RowsInv, Transaction, NEW t \in Turns, turn'[t] # "deleted"
    PROVE  /\ turn[t] # "deleted"
           /\ \A i \in Steps : step[t][i] = "success" => step'[t][i] = "success"
           /\ \A i \in Steps : step[t][i] \notin {"none", "pending"} => step'[t][i] \notin {"none", "pending"}
<1>0. step \in [Turns -> Plan] /\ turn[t] # "deleted"
  BY RowsKept DEF RowsInv, RowsType
<1>1. CASE step'[t] = step[t]
  BY <1>0, <1>1
<1>2. CASE CreatesPlan(t)
  BY <1>0, <1>2 DEF CreatesPlan, PlanMoves, All
<1>3. CASE \E from \in {"pending"}, to \in {"queued", "rejected", "interrupted"} :
             step[t] = All(from) /\ step'[t] = All(to)
  BY <1>0, <1>3 DEF All
<1>4. ASSUME NEW i \in Steps, StartsStep(t, i)
      PROVE  /\ \A j \in Steps : step[t][j] = "success" => step'[t][j] = "success"
             /\ \A j \in Steps : step[t][j] \notin {"none", "pending"} => step'[t][j] \notin {"none", "pending"}
  BY <1>0, <1>4 DEF StartsStep, Plan
<1>5. ASSUME NEW i \in Steps, NEW to \in StepStatus, RecordsStep(t, i, to)
      PROVE  /\ \A j \in Steps : step[t][j] = "success" => step'[t][j] = "success"
             /\ \A j \in Steps : step[t][j] \notin {"none", "pending"} => step'[t][j] \notin {"none", "pending"}
  BY <1>0, <1>5 DEF RecordsStep, Plan
<1>6. CASE Settled(step[t], step'[t])
  BY <1>0, <1>6 DEF Settled
<1> QED
  BY <1>0, <1>1, <1>2, <1>3, <1>4, <1>5, <1>6, RowsKept

\* Only a result is ever accepted, and only a new plan takes a turn that has none.
LEMMA FollowsKeeps ==
    ASSUME RowsInv, Follows, NEW t \in Turns
    PROVE  /\ HasAccepted(t)' => HasAccepted(t)
           /\ step[t] = All("none") => step'[t] = All("none")
<1>0. step \in [Turns -> Plan]
  BY DEF RowsInv, RowsType
<1>1. CASE TurnMoves
  BY <1>1 DEF TurnMoves, HasAccepted
<1>2. CASE \E u \in Turns : ClaimsPlan(u) \/ RejectsPlan(u)
  <2>1. PICK u \in Turns, to \in {"queued", "rejected"} :
          step[u] = All("pending") /\ step' = [step EXCEPT ![u] = All(to)]
    BY <1>2 DEF ClaimsPlan, RejectsPlan, PlanMoves
  <2>2. CASE u # t
    BY <1>0, <2>1, <2>2 DEF HasAccepted
  <2>3. CASE u = t
    <3>1. step'[t] = All(to) /\ step[t] # All("none")
      BY <1>0, <2>1, <2>3, AllDiffer
    <3>2. ~HasAccepted(t)'
      BY <3>1 DEF HasAccepted, All
    <3> QED
      BY <3>1, <3>2
  <2> QED
    BY <2>2, <2>3
<1>3. CASE \E u \in Turns : EndsPlan(u)
  <2>1. PICK u \in Turns, p \in Plan : Settled(step[u], p) /\ step' = [step EXCEPT ![u] = p]
                                       /\ \E i \in Steps : step[u][i] \in {"queued", "running", "accepted"}
    BY <1>3 DEF EndsPlan
  <2>2. CASE u # t
    BY <1>0, <2>1, <2>2 DEF HasAccepted
  <2>3. CASE u = t
    BY <1>0, <2>1, <2>3 DEF HasAccepted, Settled, All
  <2> QED
    BY <2>2, <2>3
<1>4. CASE \E u \in Turns, i \in Steps : StartsStep(u, i)
  <2>1. PICK u \in Turns, i \in Steps : StartsStep(u, i)
    BY <1>4
  <2>2. CASE u # t
    BY <1>0, <2>1, <2>2 DEF HasAccepted, StartsStep
  <2>3. CASE u = t
    <3>1. step'[t] = [step[t] EXCEPT ![i] = "running"] /\ step[t][i] = "queued"
      BY <1>0, <2>1, <2>3 DEF StartsStep
    <3>2. \A j \in Steps : step'[t][j] = "accepted" => step[t][j] = "accepted"
      BY <1>0, <3>1 DEF Plan
    <3> QED
      BY <3>1, <3>2 DEF HasAccepted, All
  <2> QED
    BY <2>2, <2>3
<1>5. CASE RecoverInterrupted
  <2>1. \/ step'[t] = step[t]
        \/ step[t] = All("pending") /\ step'[t] = All("interrupted")
        \/ Settled(step[t], step'[t]) /\ \A i \in Steps : step[t][i] # "none"
    BY <1>5, RecoveredPlan
  <2>2. step[t] = All("none") => step[t] # All("pending") /\ \A i \in Steps : step[t][i] = "none"
    BY AllDiffer DEF All
  <2> QED
    BY <2>1, <2>2, StepsAreNumbers DEF HasAccepted, Settled, All
<1>6. CASE DeleteConversation
  BY <1>6 DEF DeleteConversation, HasAccepted, All
<1> QED
  BY <1>1, <1>2, <1>3, <1>4, <1>5, <1>6 DEF Follows

-----------------------------------------------------------------------------
(* What the actors keep                                                    *)

\* Everybody else's results stay, and what succeeded.
LEMMA MeansKept ==
    ASSUME RowsInv, Transaction, NEW p \in Proc, Means(p)
    PROVE  Means(p)'
<1>1. CASE p.at \notin {"control", "start"}
  BY <1>1 DEF Means
<1>2. CASE p.at \in {"control", "start"}
  <2>1. p.turn \in Turns /\ p.step \in Steps
    BY <1>2 DEF Means, Proc
  <2>2. ASSUME turn'[p.turn] # "deleted"
        PROVE  \A j \in 1 .. p.step - 1 : step'[p.turn][j] = "success"
    <3>1. turn[p.turn] # "deleted"
      BY <2>1, <2>2, NoReturn
    <3>2. \A j \in 1 .. p.step - 1 : step[p.turn][j] = "success" /\ j \in Steps
      <4>1. \A j \in 1 .. p.step - 1 : j \in Steps
        BY <2>1, StepCountAssumption DEF Steps
      <4>2. \A j \in 1 .. p.step - 1 : step[p.turn][j] = "success"
        BY <1>2, <3>1 DEF Means
      <4> QED
        BY <4>1, <4>2
    <3> QED
      BY <2>1, <2>2, <3>2, NoReturn
  <2> QED
    BY <1>2, <2>1, <2>2 DEF Means
<1> QED
  BY <1>1, <1>2

LEMMA OneWorksKept ==
    ASSUME RowsInv, Transaction, NEW t \in Turns, OneWorks(t),
           \A a \in Actors : Works(a, t)' => Works(a, t),
           HasAccepted(t)' => HasAccepted(t) \/ \A a \in Actors : ~Works(a, t)'
    PROVE  OneWorks(t)'
<1> SUFFICES ASSUME NEW a \in Actors, Works(a, t)'
             PROVE  /\ turn'[t] = "deleted" \/ step'[t][1] \notin {"none", "pending"}
                    /\ HasAccepted(t)' => a = Verifier
                    /\ \A b \in Actors : Works(b, t)' => b = a
  BY DEF OneWorks
<1>1. turn'[t] # "deleted" => step'[t][1] \notin {"none", "pending"}
  BY NoReturn, StepsAreNumbers DEF OneWorks
<1> QED
  BY <1>1 DEF OneWorks

LEMMA PausesKept ==
    ASSUME NEW t \in Turns, Pauses(t), UNCHANGED <<mode, late>>,
           \A a \in Actors : proc'[a].at = "start" /\ proc'[a].turn = t =>
               (proc[a].at = "start" /\ proc[a].turn = t) \/ mode # "paused"
    PROVE  Pauses(t)'
BY DEF Pauses

\* An actor does something that neither starts a step nor changes the policy.
ActorStep(a, p) ==
    /\ up /\ up' /\ Moves(a, p) /\ UNCHANGED <<mode, late>>
    /\ Means(p)'
    /\ p.at \in Working => proc[a].at \in Working /\ p.turn = proc[a].turn
    /\ p.at = "start" => mode # "paused"

\* ... and of its plan records a result, creates it, or neither.
ActorTransacts(a, p) ==
    \/ Follows /\ (p.at \in {"propose", "create"} /\ a \in Turns => step[a] = All("none"))
    \/ p.at \notin {"propose", "create"} /\ \E t \in Turns : CreatesPlan(t) /\ t = a
    \/ /\ p.at \notin {"propose", "create"} /\ proc[a].at \in Working
       /\ \E i \in Steps, to \in StepStatus :
             RecordsStep(proc[a].turn, i, to) /\ (to = "accepted" => p.at = "idle")

LEMMA ActorStepInv ==
    ASSUME RowsInv, ActorsInv, NEW a \in Actors, NEW p, ActorStep(a, p), ActorTransacts(a, p)
    PROVE  ActorsInv'
<1>0. /\ p \in Proc /\ proc' = [proc EXCEPT ![a] = p] /\ proc \in [Actors -> Proc]
      /\ proc' \in [Actors -> Proc] /\ proc'[a] = p /\ \A b \in Actors \ {a} : proc'[b] = proc[b]
  BY DEF ActorStep, Moves, ActorsInv
<1>1. proc[a].at \in Working => proc[a].turn \in Turns
  BY DEF ActorsInv, Means, Working
<1>2. Transaction
  BY <1>1 DEF ActorTransacts, Transaction
<1>3. \A b \in Actors : (Means(proc[b]))'
  <2> SUFFICES ASSUME NEW b \in Actors PROVE (Means(proc[b]))'
    OBVIOUS
  <2>1. CASE b = a
    BY <1>0, <2>1 DEF ActorStep
  <2>2. CASE b # a
    <3>1. PICK q \in Proc : q = proc[b]
      BY <1>0
    <3>2. Means(q)'
      BY <1>2, <3>1, MeansKept DEF ActorsInv
    <3> QED
      BY <1>0, <2>2, <3>1, <3>2
  <2> QED
    BY <2>1, <2>2
<1>4. Drafts'
  <2> SUFFICES ASSUME NEW t \in Turns, proc'[t].at \in {"propose", "create"}
               PROVE  step'[t] = All("none")
    BY DEF Drafts, All
  <2>0. t \in Actors
    BY DEF Actors
  <2>1. step[t] = All("none") \/ (t = a /\ ~Follows)
    BY <1>0, <2>0 DEF ActorsInv, Drafts, ActorTransacts
  <2>2. CASE Follows
    BY <2>1, <2>2, FollowsKeeps
  <2>3. CASE p.at \notin {"propose", "create"} /\ \E u \in Turns : CreatesPlan(u) /\ u = a
    <3>1. t # a /\ step[t] = All("none")
      BY <1>0, <2>1, <2>3
    <3> QED
      BY <2>3, <3>1 DEF CreatesPlan, PlanMoves, RowsInv, RowsType
  <2>4. CASE /\ p.at \notin {"propose", "create"} /\ proc[a].at \in Working
             /\ \E i \in Steps, to \in StepStatus : RecordsStep(proc[a].turn, i, to)
    <3>1. t # a /\ step[t] = All("none")
      BY <1>0, <2>1, <2>4
    <3>2. proc[a].turn # t
      BY <2>4, <3>1 DEF RecordsStep, All
    <3> QED
      BY <1>1, <2>4, <3>1, <3>2 DEF RecordsStep, RowsInv, RowsType
  <2> QED
    BY <2>2, <2>3, <2>4 DEF ActorTransacts
<1>5. \A t \in Turns : OneWorks(t)'
  <2> SUFFICES ASSUME NEW t \in Turns PROVE OneWorks(t)'
    OBVIOUS
  <2>1. \A b \in Actors : Works(b, t)' => Works(b, t)
    BY <1>0 DEF Works, ActorStep
  <2>2. OneWorks(t)
    BY DEF ActorsInv
  <2>3. HasAccepted(t)' => HasAccepted(t) \/ \A b \in Actors : ~Works(b, t)'
    <3>1. CASE Follows
      BY <3>1, FollowsKeeps
    <3>2. CASE \E u \in Turns : CreatesPlan(u)
      <4>1. PICK u \in Turns : CreatesPlan(u)
        BY <3>2
      <4>2. CASE u = t
        BY <4>1, <4>2 DEF CreatesPlan, PlanMoves, RowsInv, RowsType, HasAccepted, All
      <4>3. CASE u # t
        BY <4>1, <4>3 DEF CreatesPlan, PlanMoves, RowsInv, RowsType, HasAccepted
      <4> QED
        BY <4>2, <4>3
    <3>3. CASE /\ proc[a].at \in Working
               /\ \E i \in Steps, to \in StepStatus :
                     RecordsStep(proc[a].turn, i, to) /\ (to = "accepted" => p.at = "idle")
      <4>1. PICK i \in Steps, to \in StepStatus :
               RecordsStep(proc[a].turn, i, to) /\ (to = "accepted" => p.at = "idle")
        BY <3>3
      <4>2. CASE proc[a].turn # t
        BY <1>1, <3>3, <4>1, <4>2 DEF RecordsStep, RowsInv, RowsType, HasAccepted
      <4>3. CASE proc[a].turn = t /\ to = "accepted"
        <5>1. Works(a, t) /\ p.at \notin Working
          BY <3>3, <4>1, <4>3 DEF Works, Working
        <5>2. \A b \in Actors : Works(b, t) => b = a
          BY <2>2, <5>1 DEF OneWorks
        <5> QED
          BY <1>0, <2>1, <5>1, <5>2 DEF Works
      <4>4. CASE proc[a].turn = t /\ to # "accepted"
        <5>1. step'[t] = [step[t] EXCEPT ![i] = to] /\ step[t] \in Plan
          BY <4>1, <4>4 DEF RecordsStep, RowsInv, RowsType
        <5>2. \A j \in Steps : step'[t][j] = "accepted" => step[t][j] = "accepted"
          BY <4>4, <5>1 DEF Plan
        <5> QED
          BY <5>2 DEF HasAccepted
      <4> QED
        BY <4>2, <4>3, <4>4
    <3> QED
      BY <3>1, <3>2, <3>3 DEF ActorTransacts
  <2> QED
    BY <1>2, <2>1, <2>2, <2>3, OneWorksKept
<1>6. \A t \in Turns : Pauses(t)'
  <2> SUFFICES ASSUME NEW t \in Turns PROVE Pauses(t)'
    OBVIOUS
  <2>1. \A b \in Actors : proc'[b].at = "start" /\ proc'[b].turn = t =>
               (proc[b].at = "start" /\ proc[b].turn = t) \/ mode # "paused"
    BY <1>0 DEF ActorStep
  <2> QED
    BY <2>1, PausesKept DEF ActorsInv, ActorStep
<1> QED
  BY <1>0, <1>3, <1>4, <1>5, <1>6 DEF ActorsInv, ActorStep

-----------------------------------------------------------------------------
(* Each action                                                             *)

LEMMA StaysFollows == ASSUME RowsInv, UNCHANGED <<turn, step, ran>> PROVE Follows
BY DEF RowsInv, RowsType, TurnMoves, Follows

LEMMA FinishTurnFollows ==
    ASSUME RowsInv, NEW t \in Turns, NEW s \in {"completed", "failed"}, FinishTurn(t, s), UNCHANGED ran
    PROVE  Follows
<1>1. turn' = [turn EXCEPT ![t] = s] /\ turn[t] \notin {"none", "deleted"} /\ UNCHANGED <<step, ran>>
  BY DEF FinishTurn, SetTurn, Open
<1>2. TurnMoves
  BY <1>1 DEF TurnMoves, RowsInv, RowsType, TurnStatus
<1> QED
  BY <1>2 DEF Follows

LEMMA FollowsTransacts == ASSUME Follows PROVE Transaction
BY DEF Transaction

\* An actor that leaves, or goes where nothing is held.
LEMMA GoesInv ==
    ASSUME RowsInv, ActorsInv, NEW a \in Actors, NEW p, Follows, up, up', Moves(a, p),
           UNCHANGED <<mode, late>>, p.at # "idle" => p.turn \in Turns,
           p.at \notin {"complete", "verified", "control", "start", "propose", "create"},
           p.at \in Working => proc[a].at \in Working /\ p.turn = proc[a].turn
    PROVE  ActorsInv'
<1>1. Means(p)'
  BY DEF Means
<1>2. ActorStep(a, p) /\ ActorTransacts(a, p)
  BY <1>1 DEF ActorStep, ActorTransacts
<1> QED
  BY <1>2, ActorStepInv

LEMMA UnsuccessfulInv ==
    ASSUME RowsInv, ActorsInv, NEW a \in Actors, up, proc[a].at # "idle", Unsuccessful(a)
    PROVE  Transaction /\ ActorsInv'
<1>1. Follows /\ up' /\ UNCHANGED <<mode, late>>
  BY StaysFollows DEF Unsuccessful, storeVars, envVars, history
<1>2. PICK p : Moves(a, p) /\ (p.at = "idle" \/ (p.at = "fail" /\ p.turn = proc[a].turn))
  BY FailsMoves DEF Unsuccessful, ActorsInv
<1>3. p.at # "idle" => p.turn \in Turns
  BY <1>2 DEF ActorsInv, Means
<1> QED
  BY <1>1, <1>2, <1>3, GoesInv, FollowsTransacts DEF Working

LEMMA SendInv == ASSUME RowsInv, ActorsInv, NEW t \in Turns, Send(t) PROVE Transaction /\ ActorsInv'
<1> DEFINE p == [Idle EXCEPT !.at = "propose", !.turn = t, !.auto = TRUE]
<1>0. t \in Actors
  BY DEF Actors
<1>1. /\ turn[t] = "none" /\ turn' = [turn EXCEPT ![t] = "running"]
      /\ UNCHANGED <<step, ran, mode, late>> /\ up /\ up' /\ proc' = [proc EXCEPT ![t] = p]
  BY DEF Send, StartModelTurn, SetTurn, At, envVars, history
<1>2. p \in Proc /\ p.at = "propose" /\ p.turn = t
  BY IdleFacts DEF Idle, Proc, Pcs
<1>3. Moves(t, p)
  BY <1>1, <1>2 DEF Moves
<1> HIDE DEF p
<1>4. Follows
  <2>1. TurnMoves
    BY <1>1 DEF TurnMoves, RowsInv, RowsType, TurnStatus
  <2> QED
    BY <2>1 DEF Follows
<1>5. Means(p)'
  BY <1>2 DEF Means
<1>6. step[t] = All("none")
  BY <1>1 DEF RowsInv
<1>7. ActorStep(t, p) /\ ActorTransacts(t, p)
  BY <1>1, <1>2, <1>3, <1>4, <1>5, <1>6 DEF ActorStep, ActorTransacts, Working
<1> QED
  BY <1>0, <1>4, <1>7, ActorStepInv, FollowsTransacts

LEMMA AnswerInv == ASSUME RowsInv, ActorsInv, NEW t \in Turns, Answer(t) PROVE Transaction /\ ActorsInv'
<1>0. t \in Actors
  BY DEF Actors
<1>1. up /\ up' /\ UNCHANGED <<ran, mode, late>> /\ \E s \in {"completed", "failed"} : FinishTurn(t, s)
  BY DEF Answer, At, FinishTurn, envVars, history
<1>2. Follows
  BY <1>1, FinishTurnFollows
<1>3. Moves(t, Idle) /\ Idle.at = "idle"
  BY <1>0, LeaveMoves DEF Answer
<1> QED
  BY <1>0, <1>1, <1>2, <1>3, GoesInv, FollowsTransacts DEF Working

LEMMA ReadPolicyInv ==
    ASSUME RowsInv, ActorsInv, NEW t \in Turns, ReadPolicy(t) PROVE Transaction /\ ActorsInv'
<1>0. t \in Actors
  BY DEF Actors
<1>1. up /\ up' /\ UNCHANGED <<mode, late>> /\ Follows /\ proc[t].at = "propose" /\ proc[t] \in Proc
  BY <1>0, StaysFollows DEF ReadPolicy, At, storeVars, envVars, history, ActorsInv
<1>2. PICK eligible \in BOOLEAN :
        proc' = [proc EXCEPT
                ![t].at = IF proc[t].step = StepCount THEN "create" ELSE "propose",
                ![t].step = IF proc[t].step = StepCount THEN 1 ELSE proc[t].step + 1,
                ![t].auto = @ /\ eligible /\ mode = "low_risk_auto",
                ![t].out = IF mode = "paused" THEN "paused" ELSE @]
  BY DEF ReadPolicy
<1> DEFINE at == IF proc[t].step = StepCount THEN "create" ELSE "propose"
           i == IF proc[t].step = StepCount THEN 1 ELSE proc[t].step + 1
           auto == proc[t].auto /\ eligible /\ mode = "low_risk_auto"
           out == IF mode = "paused" THEN "paused" ELSE proc[t].out
           q == [proc[t] EXCEPT !.at = at, !.step = i, !.auto = auto, !.out = out]
<1>3. at \in {"create", "propose"} /\ auto \in BOOLEAN /\ out \in StepStatus \cup {"paused"} /\ i \in Steps
  <2>1. at \in {"create", "propose"} /\ auto \in BOOLEAN
    OBVIOUS
  <2>2. i \in Steps
    <3>1. proc[t].step \in Steps
      BY <1>1 DEF Proc
    <3> QED
      BY <3>1, StepCountAssumption DEF Steps
  <2>3. out \in StepStatus \cup {"paused"}
    BY <1>1 DEF Proc
  <2> QED
    BY <2>1, <2>2, <2>3
<1>4. proc' = [proc EXCEPT ![t] = q]
  BY <1>2
<1> HIDE DEF at, i, auto, out
<1>5. q \in Proc /\ q.at \in {"create", "propose"} /\ q.turn = proc[t].turn
  BY <1>1, <1>3 DEF Proc, Pcs
<1> HIDE DEF q
<1>6. PICK p \in Proc : p = q
  BY <1>5
<1>7. Means(p)' /\ step[t] = All("none")
  <2>1. p.turn \in Turns /\ p.at \in {"create", "propose"} /\ step[t] = All("none")
    BY <1>0, <1>1, <1>5, <1>6 DEF ActorsInv, Means, Drafts
  <2> QED
    BY <2>1 DEF Means
<1>8. ActorStep(t, p) /\ ActorTransacts(t, p)
  BY <1>1, <1>4, <1>5, <1>6, <1>7 DEF ActorStep, ActorTransacts, Working, Moves
<1> QED
  BY <1>0, <1>1, <1>8, ActorStepInv, FollowsTransacts

LEMMA CreatePlanInv ==
    ASSUME RowsInv, ActorsInv, NEW t \in Turns, CreatePlan(t) PROVE Transaction /\ ActorsInv'
<1>0. t \in Actors
  BY DEF Actors
<1>1. up /\ up' /\ UNCHANGED <<ran, mode, late>> /\ proc[t].at = "create" /\ turn[t] = "running"
  BY DEF CreatePlan, CreateToolPlan, At, envVars, history
<1>2. CreatesPlan(t)
  BY <1>0, <1>1 DEF CreatePlan, CreateToolPlan, SetTurn, CreatesPlan, PlanMoves, ActorsInv, Drafts
<1>3. PICK p : /\ Moves(t, p) /\ p.at \in {"idle", "cancel", "recheck"}
               /\ p.at # "idle" => p.turn = proc[t].turn
  BY <1>0, GoMoves, LeaveMoves DEF CreatePlan, AfterCreate, ActorsInv, Pcs
<1>4. Means(p)'
  BY <1>0, <1>1, <1>3 DEF Means, ActorsInv
<1>5. ActorStep(t, p) /\ ActorTransacts(t, p)
  BY <1>1, <1>2, <1>3, <1>4 DEF ActorStep, ActorTransacts, Working
<1> QED
  BY <1>0, <1>2, <1>5, ActorStepInv DEF Transaction

LEMMA RejectFollows ==
    ASSUME NEW t \in Turns, RejectToolPlan(t), UNCHANGED ran
    PROVE  Follows
<1>1. RejectsPlan(t)
  BY DEF RejectToolPlan, PendingPlan, SetTurn, RejectsPlan, PlanMoves
<1> QED
  BY <1>1 DEF Follows

LEMMA CancelOwnInv ==
    ASSUME RowsInv, ActorsInv, NEW t \in Turns, CancelOwn(t) PROVE Transaction /\ ActorsInv'
<1>0. t \in Actors /\ up /\ proc[t].at # "idle"
  BY DEF Actors, CancelOwn, At
<1>1. CASE RejectToolPlan(t) /\ Leave(t) /\ UNCHANGED <<envVars, history, used>>
  <2>1. up' /\ UNCHANGED <<mode, late>> /\ Follows
    BY <1>0, <1>1, RejectFollows DEF RejectToolPlan, envVars, history
  <2>2. Moves(t, Idle) /\ Idle.at = "idle"
    BY <1>0, <1>1, LeaveMoves
  <2> QED
    BY <1>0, <2>1, <2>2, GoesInv, FollowsTransacts DEF Working
<1>2. CASE Unsuccessful(t)
  BY <1>0, <1>2, UnsuccessfulInv
<1> QED
  BY <1>1, <1>2 DEF CancelOwn

LEMMA RecheckInv == ASSUME RowsInv, ActorsInv, NEW t \in Turns, Recheck(t) PROVE Transaction /\ ActorsInv'
<1>0. t \in Actors
  BY DEF Actors
<1>1. up /\ up' /\ UNCHANGED <<mode, late>> /\ Follows /\ proc[t].at = "recheck" /\ proc[t] \in Proc
  BY <1>0, StaysFollows DEF Recheck, At, storeVars, envVars, history, ActorsInv
<1>2. proc[t].turn \in Turns /\ proc[t].step \in Steps
  BY <1>0, <1>1 DEF ActorsInv, Means, Proc
<1>3. \E p : Moves(t, p) /\ p.at \in {"claim", "recheck", "demote"} /\ p.turn = proc[t].turn
  <2>1. CASE Go(t, "demote")
    BY <1>0, <2>1, GoMoves DEF ActorsInv, Pcs
  <2>2. CASE GoStep(t, "claim", 1)
    BY <1>0, <2>2, GoStepMoves, StepsAreNumbers DEF ActorsInv, Pcs
  <2>3. CASE proc[t].step # StepCount /\ GoStep(t, "recheck", proc[t].step + 1)
    <3>1. proc[t].step + 1 \in Steps
      BY <1>2, <2>3, StepCountAssumption DEF Steps
    <3> QED
      BY <1>0, <2>3, <3>1, GoStepMoves DEF ActorsInv, Pcs
  <2> QED
    BY <2>1, <2>2, <2>3 DEF Recheck
<1>4. PICK p : Moves(t, p) /\ p.at \in {"claim", "recheck", "demote"} /\ p.turn = proc[t].turn
  BY <1>3
<1> QED
  BY <1>0, <1>1, <1>2, <1>4, GoesInv, FollowsTransacts DEF Working

LEMMA DemoteInv == ASSUME RowsInv, ActorsInv, NEW t \in Turns, Demote(t) PROVE Transaction /\ ActorsInv'
<1>0. t \in Actors
  BY DEF Actors
<1>1. up /\ up' /\ UNCHANGED <<mode, late>> /\ Follows /\ proc[t].at = "demote"
  BY <1>0, StaysFollows DEF Demote, At, storeVars, envVars, history
<1>2. proc[t].turn \in Turns
  BY <1>0, <1>1 DEF ActorsInv, Means
<1>3. PICK p : Moves(t, p) /\ (p.at = "idle" \/ (p.at = "fail" /\ p.turn = proc[t].turn))
  BY <1>0, FailsMoves, LeaveMoves DEF Demote, ActorsInv
<1> QED
  BY <1>0, <1>1, <1>2, <1>3, GoesInv, FollowsTransacts DEF Working

LEMMA FailTurnInv ==
    ASSUME RowsInv, ActorsInv, NEW t \in Turns, FailTurn(t) \/ FailTurnFails(t)
    PROVE  Transaction /\ ActorsInv'
<1>0. t \in Actors
  BY DEF Actors
<1>1. /\ up /\ up' /\ UNCHANGED <<ran, mode, late>> /\ Leave(t)
      /\ FinishTurn(t, "failed") \/ UNCHANGED <<turn, step>>
  BY DEF FailTurn, FailTurnFails, At, FinishTurn, storeVars, envVars, history
<1>2. Follows
  BY <1>1, StaysFollows, FinishTurnFollows
<1>3. Moves(t, Idle) /\ Idle.at = "idle"
  BY <1>0, <1>1, LeaveMoves
<1> QED
  BY <1>0, <1>1, <1>2, <1>3, GoesInv, FollowsTransacts DEF Working

LEMMA ConfirmInv ==
    ASSUME RowsInv, ActorsInv, NEW q \in Requests, NEW t \in Turns, Confirm(q, t)
    PROVE  Transaction /\ ActorsInv'
<1> DEFINE p == [Idle EXCEPT !.at = "claim", !.turn = t]
<1>0. q \in Actors
  BY DEF Actors
<1>1. up /\ up' /\ UNCHANGED <<mode, late>> /\ Follows /\ proc' = [proc EXCEPT ![q] = p]
  BY StaysFollows DEF Confirm, At, storeVars, history
<1>2. p \in Proc /\ p.at = "claim" /\ p.turn = t
  BY IdleFacts DEF Idle, Proc, Pcs
<1>3. Moves(q, p)
  BY <1>1, <1>2 DEF Moves
<1> HIDE DEF p
<1> QED
  BY <1>0, <1>1, <1>2, <1>3, GoesInv, FollowsTransacts DEF Working

\* Whoever claims the plan works on it alone.
LEMMA ClaimPlanInv ==
    ASSUME RowsInv, ActorsInv, NEW a \in Actors, ClaimPlan(a) PROVE Transaction /\ ActorsInv'
<1>0. up /\ proc[a].at = "claim" /\ proc[a].turn \in Turns
  BY DEF ClaimPlan, At, ActorsInv, Means
<1>1. CASE Unsuccessful(a)
  BY <1>0, <1>1, UnsuccessfulInv
<1>2. CASE ClaimToolPlan(proc[a].turn) /\ Go(a, Claimed(a)) /\ UNCHANGED <<envVars, history, used>>
  <2>1. PICK t \in Turns : t = proc[a].turn
    BY <1>0
  <2>2. ClaimsPlan(t) /\ up' /\ UNCHANGED <<ran, mode, late>>
    BY <1>0, <1>2, <2>1 DEF ClaimToolPlan, PendingPlan, SetTurn, ClaimsPlan, PlanMoves, envVars, history
  <2>3. Transaction
    BY <2>2 DEF Transaction, Follows
  <2>4. PICK p : Moves(a, p) /\ p.at \in {"list", "again"} /\ p.turn = t
    BY <1>2, <2>1, GoMoves DEF Claimed, ActorsInv, Pcs
  <2>5. /\ proc \in [Actors -> Proc] /\ proc' \in [Actors -> Proc] /\ proc'[a] = p
        /\ \A b \in Actors \ {a} : proc'[b] = proc[b]
    BY <2>4 DEF Moves, ActorsInv
  <2>6. step[t] = All("pending") /\ turn[t] # "deleted" /\ step'[t] = All("queued")
    BY <2>2 DEF ClaimsPlan, PlanMoves, RowsInv, RowsType
  <2>7. \A b \in Actors : ~Works(b, t)
    BY <2>6, StepsAreNumbers DEF ActorsInv, OneWorks, All
  <2>8. \A b \in Actors : (Means(proc[b]))'
    <3> SUFFICES ASSUME NEW b \in Actors PROVE (Means(proc[b]))'
      OBVIOUS
    <3>1. CASE b = a
      <4>1. Means(p)'
        BY <2>4 DEF Means
      <4> QED
        BY <2>5, <3>1, <4>1
    <3>2. CASE b # a
      <4>1. PICK r \in Proc : r = proc[b]
        BY <2>5
      <4>2. Means(r)'
        BY <2>3, <4>1, MeansKept DEF ActorsInv
      <4> QED
        BY <2>5, <3>2, <4>1, <4>2
    <3> QED
      BY <3>1, <3>2
  <2>9. Drafts'
    <3> SUFFICES ASSUME NEW u \in Turns, proc'[u].at \in {"propose", "create"}
                 PROVE  step'[u] = All("none")
      BY DEF Drafts, All
    <3>1. u \in Actors
      BY DEF Actors
    <3>2. step[u] = All("none") /\ Follows
      BY <2>2, <2>4, <2>5, <3>1 DEF ActorsInv, Drafts, Follows
    <3> QED
      BY <3>2, FollowsKeeps
  <2>10. \A u \in Turns : OneWorks(u)'
    <3> SUFFICES ASSUME NEW u \in Turns PROVE OneWorks(u)'
      OBVIOUS
    <3>1. CASE u = t
      <4>1. \A b \in Actors : Works(b, t)' => b = a
        BY <2>5, <2>7 DEF Works
      <4>2. ~HasAccepted(t)' /\ step'[t][1] = "queued"
        BY <2>6, StepsAreNumbers DEF HasAccepted, All
      <4> QED
        BY <3>1, <4>1, <4>2 DEF OneWorks
    <3>2. CASE u # t
      <4>1. \A b \in Actors : Works(b, u)' => Works(b, u)
        BY <2>4, <2>5, <3>2 DEF Works
      <4>2. HasAccepted(u)' => HasAccepted(u)
        BY <2>2, FollowsKeeps DEF Follows
      <4> QED
        BY <2>3, <4>1, <4>2, OneWorksKept DEF ActorsInv
    <3> QED
      BY <3>1, <3>2
  <2>11. \A u \in Turns : Pauses(u)'
    <3> SUFFICES ASSUME NEW u \in Turns PROVE Pauses(u)'
      OBVIOUS
    <3>1. \A b \in Actors : proc'[b].at = "start" /\ proc'[b].turn = u =>
                 (proc[b].at = "start" /\ proc[b].turn = u) \/ mode # "paused"
      BY <2>4, <2>5
    <3> QED
      BY <2>2, <3>1, PausesKept DEF ActorsInv
  <2> QED
    BY <2>2, <2>3, <2>5, <2>8, <2>9, <2>10, <2>11 DEF ActorsInv
<1> QED
  BY <1>1, <1>2 DEF ClaimPlan

\* An actor that has the end of its step to write.
LEMMA GoCompleteInv ==
    ASSUME RowsInv, ActorsInv, NEW a \in Actors, up, up', UNCHANGED <<mode, late, turn, step, ran>>,
           proc[a].at \in Working, NEW i \in Steps, NEW from \in {"queued", "running", "accepted"},
           NEW out \in {"success", "failure", "interrupted"}, out = "success" => from # "queued",
           GoComplete(a, i, from, out)
    PROVE  Transaction /\ ActorsInv'
<1>1. Follows /\ proc[a].turn \in Turns
  BY StaysFollows DEF ActorsInv, Means, Working
<1>2. from \in StepStatus /\ out \in StepStatus
  BY DEF StepStatus, Waiting, Busy
<1>3. PICK p : Moves(a, p) /\ p.at = "complete" /\ p.turn = proc[a].turn /\ p.from = from /\ p.out = out
  BY <1>2, GoCompleteMoves DEF ActorsInv
<1>4. Means(p)'
  BY <1>1, <1>3 DEF Means
<1>5. ActorStep(a, p) /\ ActorTransacts(a, p)
  BY <1>1, <1>3, <1>4 DEF ActorStep, ActorTransacts, Working
<1> QED
  BY <1>1, <1>5, ActorStepInv, FollowsTransacts

LEMMA RevalidateInv ==
    ASSUME RowsInv, ActorsInv, NEW q \in Requests, Revalidate(q) PROVE Transaction /\ ActorsInv'
<1>0. q \in Actors
  BY DEF Actors
<1>1. up /\ up' /\ UNCHANGED <<mode, late>> /\ Follows /\ proc[q].at = "again" /\ proc[q].turn \in Turns
  BY <1>0, StaysFollows DEF Revalidate, At, storeVars, envVars, history, ActorsInv, Means
<1>2. CASE Go(q, "list")
  <2>1. PICK p : Moves(q, p) /\ p.at = "list" /\ p.turn = proc[q].turn
    BY <1>0, <1>2, GoMoves DEF ActorsInv, Pcs
  <2> QED
    BY <1>0, <1>1, <2>1, GoesInv, FollowsTransacts DEF Working
<1>3. CASE \E i \in Steps : GoComplete(q, i, "queued", "failure")
  <2>1. UNCHANGED <<turn, step, ran>>
    BY DEF Revalidate, storeVars, history
  <2> QED
    BY <1>0, <1>1, <1>3, <2>1, GoCompleteInv DEF Working
<1> QED
  BY <1>2, <1>3 DEF Revalidate

\* Nobody's work changes.
LEMMA ProcsStayInv ==
    ASSUME RowsInv, ActorsInv, Follows, UNCHANGED proc, up' \/ UNCHANGED up,
           UNCHANGED <<mode, late>> \/ \A t \in Turns : late'[t] = 0
    PROVE  ActorsInv'
<1>1. Transaction
  BY FollowsTransacts
<1>2. \A b \in Actors : (Means(proc[b]))'
  <2> SUFFICES ASSUME NEW b \in Actors PROVE (Means(proc[b]))'
    OBVIOUS
  <2>1. PICK r \in Proc : r = proc[b]
    BY DEF ActorsInv
  <2>2. Means(r)'
    BY <1>1, <2>1, MeansKept DEF ActorsInv
  <2> QED
    BY <2>1, <2>2
<1>3. Drafts'
  <2> SUFFICES ASSUME NEW t \in Turns, proc[t].at \in {"propose", "create"} PROVE step'[t] = All("none")
    BY DEF Drafts, All
  <2>1. step[t] = All("none")
    BY DEF ActorsInv, Drafts
  <2> QED
    BY <2>1, FollowsKeeps
<1>4. \A t \in Turns : OneWorks(t)'
  <2> SUFFICES ASSUME NEW t \in Turns PROVE OneWorks(t)'
    OBVIOUS
  <2>1. \A b \in Actors : Works(b, t)' => Works(b, t)
    BY DEF Works
  <2>2. HasAccepted(t)' => HasAccepted(t)
    BY FollowsKeeps
  <2> QED
    BY <1>1, <2>1, <2>2, OneWorksKept DEF ActorsInv
<1>5. \A t \in Turns : Pauses(t)'
  <2>1. CASE UNCHANGED <<mode, late>>
    BY <2>1, PausesKept DEF ActorsInv
  <2>2. CASE \A t \in Turns : late'[t] = 0
    BY <2>2 DEF Pauses
  <2> QED
    BY <2>1, <2>2
<1> QED
  BY <1>2, <1>3, <1>4, <1>5 DEF ActorsInv

LEMMA RejectInv == ASSUME RowsInv, ActorsInv, NEW t \in Turns, Reject(t) PROVE Transaction /\ ActorsInv'
<1>1. Follows /\ up' /\ UNCHANGED <<proc, mode, late>>
  BY RejectFollows DEF Reject, RejectToolPlan, envVars, history
<1> QED
  BY <1>1, ProcsStayInv, FollowsTransacts

LEMMA DeleteConversationInv == ASSUME RowsInv, ActorsInv, Delete PROVE Transaction /\ ActorsInv'
<1>1. Follows /\ up' /\ UNCHANGED <<proc, mode, late>>
  BY DEF Delete, DeleteConversation, Follows, envVars, history
<1> QED
  BY <1>1, ProcsStayInv, FollowsTransacts

LEMMA FirstOpenExists ==
    ASSUME NEW t \in Turns, step[t] \in Plan, step[t] # All("success")
    PROVE  /\ FirstOpen(t) \in Steps /\ step[t][FirstOpen(t)] # "success"
           /\ \A j \in 1 .. FirstOpen(t) - 1 : step[t][j] = "success"
<1> DEFINE Before == {p \in Nat \X Nat : p[1] < p[2]}
           S == {i \in Steps : step[t][i] # "success"}
<1>1. IsWellFoundedOn(Before, Nat)
  BY NatLessThanWellFounded DEF OpToRel
<1>2. S # {} /\ S \subseteq Nat
  BY AllMeans, StepsAreNumbers
<1>3. PICK i \in S : \A j \in S : <<j, i>> \notin Before
  BY <1>1, <1>2, WFMin
<1>4. ASSUME NEW j \in 1 .. i - 1 PROVE step[t][j] = "success"
  <2>1. i \in Steps /\ i \in Nat /\ j \in Nat /\ j < i
    BY <1>3, StepsAreNumbers
  <2>2. j \in Steps
    BY <2>1, StepCountAssumption DEF Steps
  <2>3. <<j, i>> \in Before
    BY <2>1
  <2> QED
    BY <1>3, <2>2, <2>3
<1>5. i \in Steps /\ step[t][i] # "success" /\ \A j \in 1 .. i - 1 : step[t][j] = "success"
  BY <1>3, <1>4
<1> HIDE DEF S, Before
<1>6. \E k \in Steps : step[t][k] # "success" /\ \A j \in 1 .. k - 1 : step[t][j] = "success"
  BY <1>5
<1> QED
  BY <1>6 DEF FirstOpen

LEMMA ListStepsInv == ASSUME RowsInv, ActorsInv, NEW a \in Actors, ListSteps(a) PROVE Transaction /\ ActorsInv'
<1>1. up /\ up' /\ UNCHANGED <<mode, late, step, turn>> /\ Follows /\ proc[a].at = "list" /\ proc[a].turn \in Turns
  BY StaysFollows DEF ListSteps, At, storeVars, envVars, history, ActorsInv, Means
<1>2. PICK t \in Turns : t = proc[a].turn
  BY <1>1
<1>3. step[t] \in Plan /\ proc \in [Actors -> Proc]
  BY DEF RowsInv, RowsType, ActorsInv
<1>4. NextStep(a, t)
  BY <1>2 DEF ListSteps
<1>5. CASE Go(a, "finish")
  <2>1. PICK p : Moves(a, p) /\ p.at = "finish" /\ p.turn = t
    BY <1>2, <1>3, <1>5, GoMoves DEF Pcs
  <2> QED
    BY <1>1, <1>2, <2>1, GoesInv, FollowsTransacts DEF Working
<1>6. CASE Leave(a)
  BY <1>1, <1>6, LeaveMoves, GoesInv, FollowsTransacts DEF Working
<1>7. CASE step[t] # All("success") /\ ~Go(a, "finish") /\ ~Leave(a)
  <2>1. PICK i \in Steps : i = FirstOpen(t) /\ \A j \in 1 .. i - 1 : step[t][j] = "success"
    BY <1>3, <1>7, FirstOpenExists
  <2>2. GoStep(a, "control", i) \/ GoComplete(a, i, "running", "interrupted")
    BY <1>4, <1>7, <2>1 DEF NextStep
  <2>3. CASE GoStep(a, "control", i)
    <3>1. PICK p : Moves(a, p) /\ p.at = "control" /\ p.turn = t /\ p.step = i
      BY <1>2, <1>3, <2>3, GoStepMoves DEF Pcs
    <3>2. Means(p)'
      BY <1>1, <2>1, <3>1 DEF Means
    <3>3. ActorStep(a, p) /\ ActorTransacts(a, p)
      BY <1>1, <1>2, <3>1, <3>2 DEF ActorStep, ActorTransacts, Working
    <3> QED
      BY <1>1, <3>3, ActorStepInv, FollowsTransacts
  <2>4. CASE GoComplete(a, i, "running", "interrupted")
    <3>1. UNCHANGED ran
      BY DEF ListSteps, history
    <3> QED
      BY <1>1, <2>4, <3>1, GoCompleteInv DEF Working
  <2> QED
    BY <2>2, <2>3, <2>4
<1> QED
  BY <1>4, <1>5, <1>6, <1>7 DEF NextStep

LEMMA ReadControlInv == ASSUME RowsInv, ActorsInv, NEW a \in Actors, ReadControl(a) PROVE Transaction /\ ActorsInv'
<1>1. up /\ up' /\ UNCHANGED <<mode, late, turn, step, ran>> /\ Follows /\ proc[a].at = "control"
  BY StaysFollows DEF ReadControl, At, storeVars, envVars, history
<1>2. proc[a].turn \in Turns /\ proc[a].step \in Steps /\ Means(proc[a])
  BY <1>1 DEF ActorsInv, Means, Proc
<1>3. CASE GoComplete(a, proc[a].step, "queued", "failure")
  BY <1>1, <1>2, <1>3, GoCompleteInv DEF Working
<1>4. CASE Allowed(a) /\ Go(a, "start")
  <2>1. PICK p : Moves(a, p) /\ p.at = "start" /\ p.turn = proc[a].turn /\ p.step = proc[a].step
    BY <1>4, GoMoves DEF ActorsInv, Pcs
  <2>2. Means(p)'
    BY <1>1, <1>2, <2>1 DEF Means
  <2>3. ActorStep(a, p) /\ ActorTransacts(a, p)
    BY <1>1, <1>2, <1>4, <2>1, <2>2 DEF ActorStep, ActorTransacts, Working, Allowed
  <2> QED
    BY <1>1, <2>3, ActorStepInv, FollowsTransacts
<1> QED
  BY <1>3, <1>4 DEF ReadControl

\* A step begins with its target called once, by the one who works on its plan.
LEMMA StartStepInv ==
    ASSUME RowsInv, ActorsInv, late \in [Turns -> Nat], NEW a \in Actors, StartStep(a)
    PROVE  Transaction /\ ActorsInv'
<1>0. up /\ proc[a].at = "start" /\ proc[a].turn \in Turns /\ proc[a].step \in Steps /\ Means(proc[a])
  BY DEF StartStep, At, ActorsInv, Means, Proc
<1>1. CASE Unsuccessful(a)
  BY <1>0, <1>1, UnsuccessfulInv
<1>2. CASE ~Unsuccessful(a)
  <2>1. PICK t \in Turns, i \in Steps : t = proc[a].turn /\ i = proc[a].step
    BY <1>0
  <2>2. /\ Transition(t, i, "queued", "running") /\ Go(a, "record")
        /\ ran' = [ran EXCEPT ![t][i] = @ + 1] /\ CountLate(t) /\ UNCHANGED <<envVars, used>>
    BY <1>2, <2>1 DEF StartStep
  <2>3. step[t] \in Plan /\ turn[t] # "deleted"
    BY <2>2 DEF RowsInv, RowsType, RowsFit, Transition, All
  <2>4. StartsStep(t, i)
    BY <1>0, <2>1, <2>2, <2>3 DEF Means, Transition, SetStep, StartsStep
  <2>5. Follows
    BY <2>4 DEF Follows
  <2>6. PICK p : Moves(a, p) /\ p.at = "record" /\ p.turn = t
    BY <2>1, <2>2, GoMoves DEF ActorsInv, Pcs
  <2>7. /\ proc \in [Actors -> Proc] /\ proc' \in [Actors -> Proc] /\ proc'[a] = p
        /\ \A b \in Actors \ {a} : proc'[b] = proc[b]
    BY <2>6 DEF Moves, ActorsInv
  <2>8. up' /\ UNCHANGED mode
    BY <1>0, <2>2 DEF Transition, envVars
  <2>9. \A b \in Actors : (Means(proc[b]))'
    <3> SUFFICES ASSUME NEW b \in Actors PROVE (Means(proc[b]))'
      OBVIOUS
    <3>1. CASE b = a
      <4>1. Means(p)'
        BY <2>6 DEF Means
      <4> QED
        BY <2>7, <3>1, <4>1
    <3>2. CASE b # a
      <4>1. PICK r \in Proc : r = proc[b]
        BY <2>7
      <4>2. Means(r)'
        BY <2>5, <4>1, MeansKept, FollowsTransacts DEF ActorsInv
      <4> QED
        BY <2>7, <3>2, <4>1, <4>2
    <3> QED
      BY <3>1, <3>2
  <2>10. Drafts'
    <3> SUFFICES ASSUME NEW u \in Turns, proc'[u].at \in {"propose", "create"}
                 PROVE  step'[u] = All("none")
      BY DEF Drafts, All
    <3>1. u \in Actors
      BY DEF Actors
    <3>2. step[u] = All("none")
      BY <2>6, <2>7, <3>1 DEF ActorsInv, Drafts
    <3> QED
      BY <2>5, <3>2, FollowsKeeps
  <2>11. \A u \in Turns : OneWorks(u)'
    <3> SUFFICES ASSUME NEW u \in Turns PROVE OneWorks(u)'
      OBVIOUS
    <3>1. \A b \in Actors : Works(b, u)' => Works(b, u)
      BY <1>0, <2>1, <2>6, <2>7 DEF Works, Working
    <3>2. HasAccepted(u)' => HasAccepted(u)
      BY <2>5, FollowsKeeps
    <3> QED
      BY <2>5, <3>1, <3>2, OneWorksKept, FollowsTransacts DEF ActorsInv
  <2>12. \A u \in Turns : Pauses(u)'
    <3> SUFFICES ASSUME NEW u \in Turns PROVE Pauses(u)'
      OBVIOUS
    <3>1. \A b \in Actors : proc'[b].at = "start" /\ proc'[b].turn = u =>
                 b # a /\ proc[b].at = "start" /\ proc[b].turn = u
      BY <2>6, <2>7
    <3>2. CASE u # t \/ mode # "paused"
      <4>1. late'[u] = late[u]
        BY <2>2, <3>2 DEF CountLate
      <4> QED
        BY <2>8, <3>1, <4>1 DEF ActorsInv, Pauses
    <3>3. CASE u = t /\ mode = "paused"
      <4>1. late[t] = 0
        BY <1>0, <2>1 DEF ActorsInv, Pauses
      <4>2. late' = [late EXCEPT ![t] = @ + 1] /\ late'[t] = 1
        BY <2>2, <3>3, <4>1 DEF CountLate
      <4>3. \A b \in Actors : ~(proc'[b].at = "start" /\ proc'[b].turn = t)
        <5>1. Works(a, t) /\ OneWorks(t)
          BY <1>0, <2>1 DEF Works, Working, ActorsInv
        <5>2. \A b \in Actors : proc[b].at = "start" /\ proc[b].turn = t => b = a
          BY <5>1 DEF OneWorks, Works, Working
        <5> QED
          BY <3>1, <3>3, <5>2
      <4> QED
        BY <2>8, <3>3, <4>2, <4>3 DEF Pauses
    <3> QED
      BY <3>2, <3>3
  <2> QED
    BY <2>5, <2>7, <2>8, <2>9, <2>10, <2>11, <2>12, FollowsTransacts DEF ActorsInv
<1> QED
  BY <1>1, <1>2

LEMMA StartCancelledInv ==
    ASSUME RowsInv, ActorsInv, NEW a \in Actors, StartCancelled(a) PROVE Transaction /\ ActorsInv'
<1>1. up /\ up' /\ UNCHANGED <<mode, late, turn, step, ran>> /\ proc[a].at = "start"
  BY DEF StartCancelled, At, storeVars, envVars, history
<1>2. proc[a].step \in Steps
  BY DEF ActorsInv, Proc
<1> QED
  BY <1>1, <1>2, GoCompleteInv DEF StartCancelled, Working

\* The result of a step: with it the plan ends, goes on, or is left to the verifier.
LEMMA RecordInv ==
    ASSUME RowsInv, ActorsInv, NEW a \in Actors, up, proc[a].at \in {"record", "verified"},
           NEW from \in {"running", "accepted"},
           NEW out \in {"success", "failure", "interrupted", "accepted"}, Record(a, from, out)
    PROVE  Transaction /\ ActorsInv'
<1>1. proc[a].turn \in Turns /\ proc[a].step \in Steps
  BY DEF ActorsInv, Means, Proc
<1>2. PICK t \in Turns, i \in Steps : t = proc[a].turn /\ i = proc[a].step
  BY <1>1
<1>3. CASE GoComplete(a, i, from, out) /\ ~Continues(i, out) /\ UNCHANGED <<storeVars, envVars, history, used>>
  <2>1. up' /\ UNCHANGED <<mode, late, turn, step, ran>> /\ out \in {"success", "failure", "interrupted"}
    BY <1>3 DEF Continues, storeVars, envVars, history
  <2> QED
    BY <1>3, <2>1, GoCompleteInv DEF Working
<1>4. CASE Unsuccessful(a)
  BY <1>4, UnsuccessfulInv
<1>5. CASE /\ Continues(i, out) /\ Transition(t, i, from, out)
           /\ IF out = "accepted" THEN Leave(a) ELSE Go(a, "list")
           /\ UNCHANGED <<envVars, history, used>>
  <2>1. out \in {"accepted", "success"} /\ (out = "success" => i < StepCount) /\ out \in StepStatus
    BY <1>5 DEF Continues, StepStatus, Busy
  <2>2. step[t] \in Plan /\ turn[t] # "deleted"
    BY <1>5 DEF RowsInv, RowsType, RowsFit, Transition, All
  <2>3. RecordsStep(t, i, out)
    BY <1>5, <2>1, <2>2 DEF Transition, SetStep, RecordsStep, history
  <2>4. up' /\ UNCHANGED <<mode, late>>
    BY <1>5 DEF Transition, envVars, history
  <2>5. PICK p : /\ Moves(a, p) /\ p.at \in {"idle", "list"}
                 /\ out = "accepted" => p.at = "idle"
                 /\ p.at = "list" => p.turn = t
    BY <1>2, <1>5, LeaveMoves, GoMoves DEF ActorsInv, Pcs
  <2>6. Means(p)'
    BY <2>5 DEF Means
  <2>7. ActorStep(a, p)
    BY <1>2, <2>4, <2>5, <2>6 DEF ActorStep, Working
  <2>8. ActorTransacts(a, p)
    BY <1>2, <2>1, <2>3, <2>5 DEF ActorTransacts, Working
  <2>9. Transaction
    BY <2>1, <2>3 DEF Transaction
  <2> QED
    BY <2>7, <2>8, <2>9, ActorStepInv
<1> QED
  BY <1>2, <1>3, <1>4, <1>5 DEF Record

LEMMA RecordResultInv ==
    ASSUME RowsInv, ActorsInv, NEW a \in Actors, RecordResult(a) PROVE Transaction /\ ActorsInv'
BY RecordInv DEF RecordResult, Results, At

LEMMA EndAcceptedInv == ASSUME RowsInv, ActorsInv, EndAccepted PROVE Transaction /\ ActorsInv'
<1>1. Verifier \in Actors
  BY DEF Actors
<1>2. up /\ proc[Verifier].at = "verified" /\ Record(Verifier, "accepted", proc[Verifier].out)
  BY DEF EndAccepted, At
<1>3. proc[Verifier].out \in {"success", "failure", "interrupted"}
  BY <1>1, <1>2 DEF ActorsInv, Means
<1> QED
  BY <1>1, <1>2, <1>3, RecordInv

\* The end of a plan leaves none of its steps to be done.
LEMMA CompleteEnds ==
    ASSUME RowsInv, NEW t \in Turns, NEW i \in Steps, NEW from \in {"queued", "running", "accepted"},
           NEW out \in {"success", "failure", "interrupted"}, out = "success" => from # "queued",
           CanComplete(t, i, from), CompleteToolPlan(t, i, from, out), UNCHANGED ran
    PROVE  Follows
<1> DEFINE q == [step[t] EXCEPT ![i] = out]
           p == Changed(q, "queued", "skipped")
<1>1. /\ step[t] \in Plan /\ turn[t] = "running" /\ step[t][i] = from
      /\ \A j \in Steps \ {i} : step[t][j] \notin {"pending", "running", "accepted"}
      /\ PlanFits(step[t], ran[t])
  BY DEF RowsInv, RowsType, RowsFit, CanComplete, Busy
<1>2. q \in Plan /\ q[i] = out /\ \A j \in Steps \ {i} : q[j] = step[t][j]
  BY <1>1 DEF Plan, StepStatus
<1> HIDE DEF q
<1>3. p \in Plan /\ \A j \in Steps : p[j] = IF q[j] = "queued" THEN "skipped" ELSE q[j]
  BY <1>2, ChangedPlan DEF StepStatus
<1>4. \A j \in Steps : step[t][j] # "none"
  BY <1>1 DEF PlanFits
<1>5. step' = [step EXCEPT ![t] = p] /\ turn' = [turn EXCEPT ![t] = "completed"]
  BY DEF CompleteToolPlan, SetTurn, q
<1> HIDE DEF p
<1>6. Settled(step[t], p)
  BY <1>1, <1>2, <1>3, <1>4 DEF Settled
<1>7. EndsPlan(t)
  BY <1>1, <1>3, <1>5, <1>6 DEF EndsPlan
<1> QED
  BY <1>7 DEF Follows

LEMMA FinishEnds ==
    ASSUME RowsInv, NEW t \in Turns, CanFinish(t), FinishToolPlan(t), UNCHANGED ran
    PROVE  Follows
<1> DEFINE p == Changed(step[t], "queued", "skipped")
<1>1. /\ step[t] \in Plan /\ turn[t] = "running" /\ PlanFits(step[t], ran[t])
      /\ \A j \in Steps : step[t][j] \notin {"pending", "running", "accepted"}
  BY DEF RowsInv, RowsType, RowsFit, CanFinish, Busy
<1>2. p \in Plan /\ \A j \in Steps : p[j] = IF step[t][j] = "queued" THEN "skipped" ELSE step[t][j]
  BY <1>1, ChangedPlan DEF StepStatus
<1>3. step' = [step EXCEPT ![t] = p] /\ turn' = [turn EXCEPT ![t] = "completed"]
  BY DEF FinishToolPlan, SetTurn
<1> HIDE DEF p
<1>4. CASE \E i \in Steps : step[t][i] = "queued"
  <2>1. \A j \in Steps : step[t][j] # "none"
    BY <1>1, <1>4 DEF PlanFits
  <2>2. Settled(step[t], p)
    BY <1>1, <1>2, <2>1 DEF Settled
  <2>3. EndsPlan(t)
    BY <1>1, <1>2, <1>3, <1>4, <2>2 DEF EndsPlan
  <2> QED
    BY <2>3 DEF Follows
<1>5. CASE \A i \in Steps : step[t][i] # "queued"
  <2>1. \A j \in Steps : p[j] = step[t][j]
    BY <1>2, <1>5
  <2>2. p = step[t]
    BY <1>1, <1>2, <2>1 DEF Plan
  <2>3. step' = step
    BY <1>3, <2>2 DEF RowsInv, RowsType
  <2>4. TurnMoves
    BY <1>1, <1>3, <2>3 DEF TurnMoves, RowsInv, RowsType, TurnStatus
  <2> QED
    BY <2>4 DEF Follows
<1> QED
  BY <1>4, <1>5

LEMMA CompleteStepInv ==
    ASSUME RowsInv, ActorsInv, NEW a \in Actors, CompleteStep(a) PROVE Transaction /\ ActorsInv'
<1>1. up /\ proc[a].at = "complete" /\ proc[a].turn \in Turns /\ proc[a].step \in Steps /\ Means(proc[a])
  BY DEF CompleteStep, At, ActorsInv, Means, Proc
<1>2. CASE Unsuccessful(a)
  BY <1>1, <1>2, UnsuccessfulInv
<1>3. CASE /\ CanComplete(proc[a].turn, proc[a].step, proc[a].from)
           /\ CompleteToolPlan(proc[a].turn, proc[a].step, proc[a].from, proc[a].out)
           /\ Leave(a) /\ UNCHANGED <<envVars, history, used>>
  <2>1. up' /\ UNCHANGED <<mode, late, ran>>
    BY <1>1, <1>3 DEF CompleteToolPlan, envVars, history
  <2>2. Follows
    BY <1>1, <1>3, <2>1, CompleteEnds DEF Means
  <2>3. Moves(a, Idle) /\ Idle.at = "idle"
    BY <1>3, LeaveMoves
  <2> QED
    BY <1>1, <2>1, <2>2, <2>3, GoesInv, FollowsTransacts DEF Working
<1> QED
  BY <1>2, <1>3 DEF CompleteStep

LEMMA FinishPlanInv ==
    ASSUME RowsInv, ActorsInv, NEW a \in Actors, FinishPlan(a) PROVE Transaction /\ ActorsInv'
<1>1. up /\ proc[a].at = "finish" /\ proc[a].turn \in Turns
  BY DEF FinishPlan, At, ActorsInv, Means
<1>2. CASE Unsuccessful(a)
  BY <1>1, <1>2, UnsuccessfulInv
<1>3. CASE /\ CanFinish(proc[a].turn) /\ FinishToolPlan(proc[a].turn)
           /\ Leave(a) /\ UNCHANGED <<envVars, history, used>>
  <2>1. up' /\ UNCHANGED <<mode, late, ran>>
    BY <1>1, <1>3 DEF FinishToolPlan, envVars, history
  <2>2. Follows
    BY <1>1, <1>3, <2>1, FinishEnds
  <2>3. Moves(a, Idle) /\ Idle.at = "idle"
    BY <1>3, LeaveMoves
  <2> QED
    BY <1>1, <2>1, <2>2, <2>3, GoesInv, FollowsTransacts DEF Working
<1> QED
  BY <1>2, <1>3 DEF FinishPlan

LEMMA StatementFailsInv ==
    ASSUME RowsInv, ActorsInv, NEW a \in Actors, StatementFails(a) PROVE Transaction /\ ActorsInv'
BY UnsuccessfulInv DEF StatementFails, WithContext

\* The verifier takes over a plan that its actor left with an accepted step.
LEMMA VerifyAcceptedInv ==
    ASSUME RowsInv, ActorsInv, NEW t \in Turns, NEW i \in Steps, VerifyAccepted(t, i)
    PROVE  Transaction /\ ActorsInv'
<1>0. Verifier \in Actors
  BY DEF Actors
<1>1. /\ up /\ up' /\ UNCHANGED <<mode, late, turn, step, ran>> /\ Follows
      /\ proc[Verifier].at = "idle" /\ step[t][i] = "accepted"
  BY StaysFollows DEF VerifyAccepted, At, storeVars, envVars, history
<1>2. PICK out \in {"success", "failure", "interrupted"} :
        proc' = [proc EXCEPT ![Verifier] =
                    [Idle EXCEPT !.at = "verified", !.turn = t, !.step = i, !.out = out]]
  BY DEF VerifyAccepted
<1> DEFINE p == [Idle EXCEPT !.at = "verified", !.turn = t, !.step = i, !.out = out]
<1>3. p \in Proc /\ p.at = "verified" /\ p.turn = t /\ p.out = out
  BY IdleFacts DEF Idle, Proc, Pcs, StepStatus
<1>4. proc' = [proc EXCEPT ![Verifier] = p]
  BY <1>2
<1> HIDE DEF p
<1>5. /\ proc \in [Actors -> Proc] /\ proc' \in [Actors -> Proc] /\ proc'[Verifier] = p
      /\ \A b \in Actors \ {Verifier} : proc'[b] = proc[b]
  BY <1>0, <1>3, <1>4 DEF ActorsInv
<1>6. \A b \in Actors : (Means(proc[b]))'
  <2> SUFFICES ASSUME NEW b \in Actors PROVE (Means(proc[b]))'
    OBVIOUS
  <2>1. CASE b = Verifier
    <3>1. Means(p)'
      BY <1>3 DEF Means
    <3> QED
      BY <1>5, <2>1, <3>1
  <2>2. CASE b # Verifier
    <3>1. PICK r \in Proc : r = proc[b]
      BY <1>5
    <3>2. Means(r)'
      BY <1>1, <3>1, MeansKept, FollowsTransacts DEF ActorsInv
    <3> QED
      BY <1>5, <2>2, <3>1, <3>2
  <2> QED
    BY <2>1, <2>2
<1>7. Drafts'
  <2> SUFFICES ASSUME NEW u \in Turns, proc'[u].at \in {"propose", "create"} PROVE step'[u] = All("none")
    BY DEF Drafts, All
  <2>1. u \in Actors
    BY DEF Actors
  <2> QED
    BY <1>1, <1>3, <1>5, <2>1 DEF ActorsInv, Drafts
<1>8. \A u \in Turns : OneWorks(u)'
  <2> SUFFICES ASSUME NEW u \in Turns PROVE OneWorks(u)'
    OBVIOUS
  <2>1. OneWorks(u)
    BY DEF ActorsInv
  <2>2. CASE u # t
    <3>1. \A b \in Actors : Works(b, u)' => Works(b, u)
      BY <1>3, <1>5, <2>2 DEF Works
    <3>2. HasAccepted(u)' => HasAccepted(u)
      BY <1>1 DEF HasAccepted
    <3> QED
      BY <1>1, <2>1, <3>1, <3>2, OneWorksKept, FollowsTransacts
  <2>3. CASE u = t
    <3>1. HasAccepted(t)
      BY <1>1 DEF HasAccepted
    <3>2. \A b \in Actors : ~Works(b, t)
      BY <1>1, <2>1, <2>3, <3>1 DEF OneWorks, Works, Working
    <3>3. \A b \in Actors : Works(b, t)' => b = Verifier
      BY <1>5, <3>2 DEF Works
    <3>4. step[t][1] \notin {"none", "pending"}
      <4>1. turn[t] # "deleted" /\ PlanFits(step[t], ran[t])
        BY <1>1 DEF RowsInv, RowsFit, All
      <4> QED
        BY <1>1, <4>1, StepsAreNumbers DEF PlanFits
    <3> QED
      BY <1>1, <2>3, <3>3, <3>4 DEF OneWorks
  <2> QED
    BY <2>2, <2>3
<1>9. \A u \in Turns : Pauses(u)'
  <2> SUFFICES ASSUME NEW u \in Turns PROVE Pauses(u)'
    OBVIOUS
  <2>1. \A b \in Actors : proc'[b].at = "start" /\ proc'[b].turn = u =>
               (proc[b].at = "start" /\ proc[b].turn = u) \/ mode # "paused"
    BY <1>3, <1>5
  <2> QED
    BY <1>1, <2>1, PausesKept DEF ActorsInv
<1> QED
  BY <1>1, <1>5, <1>6, <1>7, <1>8, <1>9, FollowsTransacts DEF ActorsInv

LEMMA CancelOneInv == ASSUME RowsInv, ActorsInv, NEW t \in Turns, CancelOne(t) PROVE Transaction /\ ActorsInv'
<1>1. up /\ up' /\ UNCHANGED <<proc, mode, ran, late>>
  BY DEF CancelOne, CancelPending, settingsFrame, storeVars, history
<1>2. Follows
  <2>1. CASE UNCHANGED storeVars
    BY <1>1, <2>1, StaysFollows DEF storeVars
  <2>2. CASE CancelPending(t)
    <3>1. PICK i \in Steps : step[t][i] = "pending"
      BY <2>2 DEF CancelPending
    <3>2. step[t] \in Plan /\ turn[t] = "awaiting" /\ PlanFits(step[t], ran[t])
      BY <2>2 DEF CancelPending, RowsInv, RowsType, RowsFit
    <3>3. \A j \in Steps : step[t][j] = "pending"
      BY <3>1, <3>2 DEF PlanFits
    <3>4. Changed(step[t], "pending", "rejected") = All("rejected") /\ step[t] = All("pending")
      BY <3>2, <3>3, AllMeans DEF Changed, All
    <3>5. step' = [step EXCEPT ![t] = Changed(step[t], "pending", "rejected")]
      BY <2>2 DEF CancelPending
    <3>6. RejectsPlan(t)
      BY <1>1, <2>2, <3>2, <3>4, <3>5 DEF RejectsPlan, PlanMoves, CancelPending, SetTurn
    <3> QED
      BY <3>6 DEF Follows
  <2> QED
    BY <2>1, <2>2 DEF CancelOne
<1> QED
  BY <1>1, <1>2, ProcsStayInv, FollowsTransacts

LEMMA SettlesInv ==
    ASSUME RowsInv, ActorsInv, Settles \/ \E m \in Modes : BeginSettings(m)
    PROVE  Transaction /\ ActorsInv'
<1>1. CASE \E t \in Turns : CancelOne(t)
  BY <1>1, CancelOneInv
<1>2. CASE SetPolicy
  <2>1. Follows /\ up' /\ UNCHANGED proc /\ \A t \in Turns : late'[t] = 0
    BY <1>2, StaysFollows DEF SetPolicy, SetControlPolicy, settingsFrame
  <2> QED
    BY <2>1, ProcsStayInv, FollowsTransacts
<1>3. CASE ListAwaiting \/ Cancelled \/ SettingsFail \/ \E m \in Modes : BeginSettings(m)
  <2>0. up /\ UNCHANGED <<storeVars, settingsFrame, history>>
    BY <1>3 DEF ListAwaiting, Cancelled, SettingsFail, BeginSettings
  <2>1. Follows /\ up' /\ UNCHANGED <<proc, mode, late>>
    BY <2>0, StaysFollows DEF settingsFrame, storeVars, history
  <2> QED
    BY <2>1, ProcsStayInv, FollowsTransacts
<1> QED
  BY <1>1, <1>2, <1>3 DEF Settles

LEMMA ClientLeavesInv ==
    ASSUME RowsInv, ActorsInv, NEW a \in Actors, ClientLeaves(a) PROVE Transaction /\ ActorsInv'
<1>1. Follows /\ up' /\ UNCHANGED <<proc, mode, late>>
  BY StaysFollows DEF ClientLeaves, storeVars, history
<1> QED
  BY <1>1, ProcsStayInv, FollowsTransacts

LEMMA CrashInv == ASSUME RowsInv, ActorsInv, Crash PROVE Transaction /\ ActorsInv'
<1>1. Follows /\ UNCHANGED <<mode, late>> /\ proc' = [a \in Actors |-> Idle]
  BY StaysFollows DEF Crash, storeVars, history
<1>2. proc' \in [Actors -> Proc] /\ \A a \in Actors : proc'[a].at = "idle"
  BY <1>1, IdleFacts
<1>3. \A a \in Actors : (Means(proc[a]))'
  BY <1>2 DEF Means
<1>4. Drafts'
  BY <1>2 DEF Drafts, Actors
<1>5. \A t \in Turns : OneWorks(t)' /\ Pauses(t)'
  BY <1>1, <1>2 DEF OneWorks, Works, Working, ActorsInv, Pauses
<1> QED
  BY <1>1, <1>2, <1>3, <1>4, <1>5, FollowsTransacts DEF ActorsInv

LEMMA RestartInv == ASSUME RowsInv, ActorsInv, Restart PROVE Transaction /\ ActorsInv'
<1>1. up' /\ UNCHANGED <<proc, mode, ran, late>>
  BY DEF Restart, RecoverInterrupted, storeVars, history
<1>2. Follows
  BY <1>1, StaysFollows DEF Restart, Follows, storeVars
<1> QED
  BY <1>1, <1>2, ProcsStayInv, FollowsTransacts

LEMMA StutterInv == ASSUME RowsInv, ActorsInv, UNCHANGED vars PROVE Transaction /\ ActorsInv'
<1>1. Follows /\ UNCHANGED <<proc, up, mode, late>>
  BY StaysFollows DEF vars, storeVars
<1> QED
  BY <1>1, ProcsStayInv, FollowsTransacts

LEMMA NextTransacts ==
    ASSUME RowsInv, ActorsInv, late \in [Turns -> Nat], [Next]_vars
    PROVE  Transaction /\ ActorsInv'
<1>1. CASE \E a \in Actors : Runs(a) \/ ClientLeaves(a)
  BY <1>1, ClaimPlanInv, ListStepsInv, ReadControlInv, StartStepInv, StartCancelledInv, RecordResultInv,
     CompleteStepInv, FinishPlanInv, StatementFailsInv, ClientLeavesInv DEF Runs
<1>2. CASE \E t \in Turns : Send(t) \/ Sends(t) \/ Reject(t)
  BY <1>2, SendInv, AnswerInv, ReadPolicyInv, CreatePlanInv, CancelOwnInv, RecheckInv, DemoteInv,
     FailTurnInv, RejectInv DEF Sends
<1>3. CASE \E q \in Requests : Revalidate(q) \/ \E t \in Turns : Confirm(q, t)
  BY <1>3, RevalidateInv, ConfirmInv
<1>4. CASE Verifies
  BY <1>4, EndAcceptedInv, VerifyAcceptedInv DEF Verifies
<1>5. CASE Settles \/ \E m \in Modes : BeginSettings(m)
  BY <1>5, SettlesInv
<1>6. CASE Delete \/ Crash \/ Restart
  BY <1>6, DeleteConversationInv, CrashInv, RestartInv
<1>7. CASE UNCHANGED vars
  BY <1>7, StutterInv
<1> QED
  BY <1>1, <1>2, <1>3, <1>4, <1>5, <1>6, <1>7 DEF Next

-----------------------------------------------------------------------------
(* The rest of the state                                                   *)

RestType ==
    /\ mode \in Modes
    /\ gone \subseteq Actors \ {Verifier}
    /\ settings \in [at : {"idle", "resume", "resuming", "set", "pause", "pausing"}, new : Modes, todo : SUBSET Turns]
    /\ up \in BOOLEAN /\ verifying \in BOOLEAN
    /\ late \in [Turns -> Nat]
    /\ used \in Counters

LEMMA CountedFault == ASSUME used \in Counters, CountFault PROVE used' \in Counters
<1> DEFINE u == [used EXCEPT !.faults = @ + 1]
<1>1. used.faults \in 0 .. MaxFaults /\ used.faults < MaxFaults
  BY DEF CountFault, Counters
<1>2. used.faults + 1 \in 0 .. MaxFaults
  BY <1>1, BoundsAssumption
<1> QED
  BY <1>2 DEF CountFault, Counters

LEMMA RestKept ==
    ASSUME RestType, UNCHANGED <<mode, gone, settings, up, verifying, late>>, CountFault \/ UNCHANGED used
    PROVE  RestType'
<1>1. used' \in Counters
  BY CountedFault DEF RestType
<1> QED
  BY <1>1 DEF RestType

LEMMA RestWithLate ==
    ASSUME RestType, NEW t \in Turns, CountLate(t), UNCHANGED <<mode, gone, settings, up, verifying, used>>
    PROVE  RestType'
<1>1. late' \in [Turns -> Nat]
  BY DEF RestType, CountLate
<1> QED
  BY <1>1 DEF RestType

LEMMA RunsRest == ASSUME RowsInv, ActorsInv, RestType, NEW a \in Actors, Runs(a) PROVE RestType'
<1>1. CASE StartStep(a) /\ ~Unsuccessful(a)
  <2>1. proc[a].turn \in Turns
    BY <1>1 DEF StartStep, At, ActorsInv, Means
  <2>2. /\ Transition(proc[a].turn, proc[a].step, "queued", "running") /\ CountLate(proc[a].turn)
        /\ UNCHANGED <<envVars, used>>
    BY <1>1 DEF StartStep
  <2>3. UNCHANGED <<mode, gone, settings, up, verifying, used>>
    BY <2>2 DEF Transition, envVars
  <2> QED
    BY <2>1, <2>2, <2>3, RestWithLate
<1>2. CASE ~(StartStep(a) /\ ~Unsuccessful(a))
  <2>1. UNCHANGED envVars /\ UNCHANGED late /\ (CountFault \/ UNCHANGED used)
    BY <1>2 DEF Runs, ClaimPlan, ListSteps, ReadControl, StartStep, StartCancelled, RecordResult, Record,
         CompleteStep, FinishPlan, StatementFails, Unsuccessful, history
  <2>2. UNCHANGED mode
    BY <1>2 DEF Runs, ClaimPlan, ListSteps, ReadControl, StartStep, StartCancelled, RecordResult, Record,
         CompleteStep, FinishPlan, StatementFails, Unsuccessful, storeVars, ClaimToolPlan, Transition,
         CompleteToolPlan, FinishToolPlan
  <2> QED
    BY <2>1, <2>2, RestKept DEF envVars
<1> QED
  BY <1>1, <1>2

LEMMA SendsRest ==
    ASSUME RestType, NEW t \in Turns, Send(t) \/ Sends(t) \/ Reject(t)
    PROVE  RestType'
<1>1. UNCHANGED envVars /\ UNCHANGED late /\ (CountFault \/ UNCHANGED used)
  BY DEF Send, Sends, Reject, Answer, ReadPolicy, CreatePlan, CancelOwn, Recheck, Demote, FailTurn,
     FailTurnFails, Unsuccessful, history
<1>2. UNCHANGED mode
  BY DEF Send, Sends, Reject, Answer, ReadPolicy, CreatePlan, CancelOwn, Recheck, Demote, FailTurn,
     FailTurnFails, Unsuccessful, storeVars, StartModelTurn, FinishTurn, CreateToolPlan, RejectToolPlan
<1> QED
  BY <1>1, <1>2, RestKept DEF envVars

LEMMA RequestsRest ==
    ASSUME RestType, NEW q \in Requests, Revalidate(q) \/ \E t \in Turns : Confirm(q, t)
    PROVE  RestType'
<1>1. CASE Revalidate(q)
  <2>1. UNCHANGED <<mode, gone, settings, up, verifying, late, used>>
    BY <1>1 DEF Revalidate, storeVars, envVars, history
  <2> QED
    BY <2>1, RestKept
<1>2. CASE \E t \in Turns : Confirm(q, t)
  <2>1. gone' = gone \ {q} /\ UNCHANGED <<mode, settings, up, verifying, late, used>>
    BY <1>2 DEF Confirm, storeVars, history
  <2> QED
    BY <2>1 DEF RestType
<1> QED
  BY <1>1, <1>2

LEMMA VerifiesRest == ASSUME RestType, Verifies PROVE RestType'
<1>1. UNCHANGED <<mode, gone, settings, up, verifying, late, used>>
  BY DEF Verifies, EndAccepted, VerifyAccepted, Record, Unsuccessful, Transition, storeVars, envVars, history
<1> QED
  BY <1>1, RestKept

LEMMA ClientLeavesRest ==
    ASSUME RestType, NEW a \in Actors, ClientLeaves(a)
    PROVE  RestType'
<1>1. used.gone \in 0 .. MaxGone /\ used.gone < MaxGone
  BY DEF ClientLeaves, RestType, Counters
<1>2. used.gone + 1 \in 0 .. MaxGone
  BY <1>1, BoundsAssumption
<1>3. used' \in Counters
  BY <1>2 DEF ClientLeaves, RestType, Counters
<1>4. gone' \subseteq Actors \ {Verifier} /\ UNCHANGED <<mode, settings, up, verifying, late>>
  BY DEF ClientLeaves, RestType, storeVars, history
<1> QED
  BY <1>3, <1>4 DEF RestType

SettingsRequests ==
    [at : {"idle", "resume", "resuming", "set", "pause", "pausing"}, new : Modes, todo : SUBSET Turns]

LEMMA NoRequestType == NoRequest \in SettingsRequests
BY DEF NoRequest, SettingsRequests, Modes

LEMMA SettlesRest ==
    ASSUME RestType, Settles \/ \E m \in Modes : BeginSettings(m)
    PROVE  RestType'
<1>0. settings \in SettingsRequests
  BY DEF RestType, SettingsRequests
<1>1. CASE \E m \in Modes : BeginSettings(m)
  <2>1. PICK m \in Modes : BeginSettings(m)
    BY <1>1
  <2>2. PICK pc \in {"resume", "set"} : settings' = [settings EXCEPT !.new = m, !.at = pc]
    BY <2>1 DEF BeginSettings
  <2>3. settings' \in SettingsRequests
    BY <1>0, <2>2 DEF SettingsRequests
  <2>4. used.settings \in 0 .. MaxSettings /\ used.settings < MaxSettings
    BY <2>1 DEF BeginSettings, RestType, Counters
  <2>5. used.settings + 1 \in 0 .. MaxSettings
    BY <2>4, BoundsAssumption
  <2>6. used' \in Counters
    BY <2>1, <2>5 DEF BeginSettings, RestType, Counters
  <2>7. UNCHANGED <<mode, gone, up, verifying, late>>
    BY <2>1 DEF BeginSettings, storeVars, settingsFrame, history
  <2> QED
    BY <2>3, <2>6, <2>7 DEF RestType, SettingsRequests
<1>2. CASE ListAwaiting \/ Cancelled \/ \E t \in Turns : CancelOne(t)
  <2>1. settings' \in SettingsRequests
    <3>1. \/ settings' = NoRequest
          \/ \E pc \in {settings.at, "resuming", "pausing", "set"}, todo \in SUBSET Turns :
                settings' = [settings EXCEPT !.at = pc, !.todo = todo]
      <4>1. CASE ListAwaiting
        <5>1. AwaitingTurns \in SUBSET Turns
          BY DEF AwaitingTurns
        <5> QED
          BY <4>1, <5>1 DEF ListAwaiting, Settings
      <4>2. CASE Cancelled
        BY <4>2 DEF Cancelled, Settings
      <4>3. CASE \E t \in Turns : CancelOne(t)
        <5>1. PICK t \in Turns : settings' = [settings EXCEPT !.at = settings.at, !.todo = settings.todo \ {t}]
          BY <4>3 DEF CancelOne, Settings
        <5>2. settings.todo \ {t} \in SUBSET Turns
          BY <1>0 DEF SettingsRequests
        <5> QED
          BY <5>1, <5>2
      <4> QED
        BY <1>2, <4>1, <4>2, <4>3
    <3>2. CASE settings' = NoRequest
      BY <3>2, NoRequestType
    <3>3. CASE settings' # NoRequest
      <4>1. PICK pc \in {settings.at, "resuming", "pausing", "set"}, todo \in SUBSET Turns :
                settings' = [settings EXCEPT !.at = pc, !.todo = todo]
        BY <3>1, <3>3
      <4> QED
        BY <1>0, <4>1 DEF SettingsRequests
    <3> QED
      BY <3>2, <3>3
  <2>2. UNCHANGED <<mode, gone, up, verifying, late, used>>
    BY <1>2 DEF ListAwaiting, Cancelled, CancelOne, CancelPending, storeVars, settingsFrame, history
  <2> QED
    BY <2>1, <2>2 DEF RestType, SettingsRequests
<1>3. CASE SetPolicy
  <2>1. settings' \in SettingsRequests
    <3>1. CASE settings' = NoRequest
      BY <3>1, NoRequestType
    <3>2. CASE settings' = [settings EXCEPT !.at = "pause"]
      BY <1>0, <3>2 DEF SettingsRequests
    <3> QED
      BY <1>3, <3>1, <3>2 DEF SetPolicy
  <2>2. mode' \in Modes
    BY <1>0, <1>3 DEF SetPolicy, SetControlPolicy, SettingsRequests
  <2>3. late' \in [Turns -> Nat] /\ UNCHANGED <<gone, up, verifying, used>>
    BY <1>3 DEF SetPolicy, settingsFrame
  <2> QED
    BY <2>1, <2>2, <2>3 DEF RestType, SettingsRequests
<1>4. CASE SettingsFail
  <2>1. used' \in Counters
    BY <1>4, CountedFault DEF SettingsFail, RestType
  <2>2. settings' \in SettingsRequests /\ UNCHANGED <<mode, gone, up, verifying, late>>
    BY <1>4, NoRequestType DEF SettingsFail, storeVars, settingsFrame, history
  <2> QED
    BY <2>1, <2>2 DEF RestType, SettingsRequests
<1> QED
  BY <1>1, <1>2, <1>3, <1>4 DEF Settles

LEMMA ProcessRest == ASSUME RestType, Crash \/ Restart \/ Delete PROVE RestType'
<1>1. CASE Crash
  <2>1. used.crashes \in 0 .. MaxCrashes /\ used.crashes < MaxCrashes
    BY <1>1 DEF Crash, RestType, Counters
  <2>2. used.crashes + 1 \in 0 .. MaxCrashes
    BY <2>1, BoundsAssumption
  <2>3. used' \in Counters
    BY <1>1, <2>2 DEF Crash, RestType, Counters
  <2>4. settings' \in SettingsRequests /\ gone' = {} /\ ~up' /\ up' \in BOOLEAN /\ verifying' \in BOOLEAN
    BY <1>1, NoRequestType DEF Crash
  <2>5. UNCHANGED <<mode, late>>
    BY <1>1 DEF Crash, storeVars, history
  <2> QED
    BY <2>3, <2>4, <2>5 DEF RestType, SettingsRequests
<1>2. CASE Restart
  <2>1. used' \in Counters
    BY <1>2, CountedFault DEF Restart, RestType
  <2>2. up' \in BOOLEAN /\ verifying' \in BOOLEAN /\ UNCHANGED <<mode, gone, settings, late>>
    BY <1>2 DEF Restart, RecoverInterrupted, storeVars, history, RestType
  <2> QED
    BY <2>1, <2>2 DEF RestType
<1>3. CASE Delete
  <2>1. UNCHANGED <<mode, gone, settings, up, verifying, late, used>>
    BY <1>3 DEF Delete, DeleteConversation, envVars, history
  <2> QED
    BY <2>1, RestKept
<1> QED
  BY <1>1, <1>2, <1>3

LEMMA NextRest == ASSUME RowsInv, ActorsInv, RestType, [Next]_vars PROVE RestType'
<1>1. CASE UNCHANGED vars
  BY <1>1, RestKept DEF vars, storeVars
<1> QED
  BY <1>1, RunsRest, SendsRest, RequestsRest, VerifiesRest, ClientLeavesRest, SettlesRest, ProcessRest DEF Next

-----------------------------------------------------------------------------
(* The invariant                                                           *)

PlanInv == RowsInv /\ ActorsInv /\ RestType

LEMMA InitInv == ASSUME Init PROVE PlanInv
<1>1. RowsInv
  <2>1. turn = [t \in Turns |-> "none"] /\ step = [t \in Turns |-> All("none")]
    BY DEF Init, StoreInit, All
  <2>2. RowsType
    BY <2>1, AllPlan DEF RowsType, Init, TurnStatus, StepStatus
  <2>3. \A t \in Turns : turn[t] = "none" /\ step[t] = All("none") /\ \A i \in Steps : ran[t][i] = 0
    BY <2>1 DEF Init
  <2>4. \A t \in Turns : PlanFits(step[t], ran[t])
    BY <2>3 DEF PlanFits, All, Waiting
  <2> QED
    BY <2>2, <2>3, <2>4 DEF RowsInv, RowsFit
<1>2. ActorsInv
  <2>1. proc \in [Actors -> Proc] /\ \A a \in Actors : proc[a].at = "idle"
    BY IdleFacts DEF Init
  <2>2. \A a \in Actors : Means(proc[a])
    BY <2>1 DEF Means
  <2>3. Drafts /\ \A t \in Turns : OneWorks(t) /\ Pauses(t)
    BY <2>1 DEF Drafts, Actors, OneWorks, Works, Working, Pauses, Init
  <2> QED
    BY <2>1, <2>2, <2>3 DEF ActorsInv
<1>3. RestType
  <2>1. used \in Counters
    BY BoundsAssumption DEF Init, Counters
  <2> QED
    BY <2>1, NoRequestType DEF Init, StoreInit, RestType, SettingsRequests
<1> QED
  BY <1>1, <1>2, <1>3 DEF PlanInv

LEMMA NextInv == ASSUME PlanInv, [Next]_vars PROVE Transaction /\ PlanInv'
BY NextTransacts, NextRest, TransactionKeepsRows DEF PlanInv, RestType

LEMMA PlanInvariant == Spec => []PlanInv
<1>1. PlanInv /\ [Next]_vars => PlanInv'
  BY NextInv
<1> QED
  BY <1>1, InitInv, PTL DEF Spec

\* What the record of a plan tells of a step is true, through every race of claims,
\* every pause, failing statement, client that leaves, deletion and restart.
THEOREM RecordCorrect == Spec => []RecordTruthful
<1>1. PlanInv => RecordTruthful
  <2> SUFFICES ASSUME PlanInv PROVE RecordTruthful
    OBVIOUS
  <2>1. TypeOK
    BY DEF PlanInv, RowsInv, RowsType, ActorsInv, RestType, TypeOK, StoreTypeOK, Plan, Proc
  <2>2. ASSUME NEW t \in Turns, NEW i \in Steps
        PROVE  /\ step[t][i] \in Waiting \cup {"skipped", "rejected"} => ran[t][i] = 0
               /\ step[t][i] \in {"running", "accepted", "success"} => ran[t][i] = 1
    <3>1. CASE turn[t] = "deleted"
      BY <3>1 DEF PlanInv, RowsInv, RowsFit, All, Waiting
    <3>2. CASE turn[t] # "deleted"
      BY <3>2 DEF PlanInv, RowsInv, RowsFit, PlanFits
    <3> QED
      BY <3>1, <3>2
  <2> QED
    BY <2>1, <2>2 DEF RecordTruthful
<1> QED
  BY <1>1, PlanInvariant, PTL

\* An emergency pause lets at most one more step of each plan begin, the one whose
\* policy was read before it.
THEOREM PauseCorrect == Spec => []PauseStops
<1>1. PlanInv => PauseStops
  BY DEF PlanInv, ActorsInv, Pauses, PauseStops
<1> QED
  BY <1>1, PlanInvariant, PTL

-----------------------------------------------------------------------------
(* The refinement                                                          *)

Ready(t) == PlanState(t) = "approved" /\ \A i \in Steps : ran[t][i] > 0 => step[t][i] = "success"

LEMMA BegunIs ==
    ASSUME NEW begun, NEW n \in 0 .. StepCount, begun = [i \in Steps |-> IF i <= n THEN 1 ELSE 0]
    PROVE  Cardinality({i \in Steps : begun[i] > 0}) = n
<1>1. {i \in Steps : begun[i] > 0} = 1 .. n
  BY StepCountAssumption DEF Steps
<1>2. Cardinality(1 .. n) = n
  BY StepCountAssumption, FS_Interval
<1> QED
  BY <1>1, <1>2

LEMMA NothingHappens ==
    ASSUME \A t \in Turns : /\ PlanState(t)' = PlanState(t) /\ Prefix(t)' = Prefix(t)
                            /\ Ready(t)' <=> Ready(t)
    PROVE  UNCHANGED Lifecycle!vars
BY DEF Lifecycle!vars, Ready

LEMMA PlansEnd ==
    ASSUME NEW S \in SUBSET Turns,
           \A t \in S : PlanState(t) # "over" /\ PlanState(t)' = "over",
           \A t \in Turns \ S : PlanState(t)' = PlanState(t) /\ (Ready(t)' <=> Ready(t)),
           \A t \in Turns : Prefix(t)' = Prefix(t)
    PROVE  Lifecycle!Next
<1>1. \A t \in Turns : Ready(t)' <=> Ready(t) /\ t \notin S
  BY DEF Ready
<1>2. Lifecycle!End(S)
  BY <1>1 DEF Lifecycle!End, Ready
<1> QED
  BY <1>2 DEF Lifecycle!Next

LEMMA SameRows ==
    ASSUME NEW t \in Turns, turn'[t] = "deleted" <=> turn[t] = "deleted", step'[t] = step[t], ran'[t] = ran[t]
    PROVE  PlanState(t)' = PlanState(t) /\ Prefix(t)' = Prefix(t) /\ (Ready(t)' <=> Ready(t))
<1>1. PlanState(t)' = PlanState(t)
  BY DEF PlanState, All
<1>2. Prefix(t)' = Prefix(t)
  BY DEF Prefix
<1> QED
  BY <1>1, <1>2 DEF Ready

LEMMA SamePrefix == ASSUME NEW t \in Turns, ran'[t] = ran[t] PROVE Prefix(t)' = Prefix(t)
BY DEF Prefix

\* What a plan is in, by its steps.
LEMMA StateOfWhole ==
    ASSUME NEW t \in Turns, turn[t] # "deleted"
    PROVE  /\ step[t] = All("none") => PlanState(t) = "none"
           /\ step[t] = All("pending") => PlanState(t) = "proposed"
           /\ step[t] = All("queued") => PlanState(t) = "approved"
           /\ step[t] \in {All("rejected"), All("interrupted")} => PlanState(t) = "over"
BY AllDiffer, StepsAreNumbers DEF PlanState, All

LEMMA StateOfOpen ==
    ASSUME NEW t \in Turns, turn[t] # "deleted", PlanFits(step[t], ran[t]),
           NEW i \in Steps, step[t][i] \in {"queued", "running", "accepted"}
    PROVE  PlanState(t) = "approved"
BY DEF PlanState, All

\* A plan whose rows are those of one that has been proposed has begun nothing.
LEMMA CreatesMaps ==
    ASSUME RowsInv, RowsInv', NEW t \in Turns, CreatesPlan(t)
    PROVE  Lifecycle!Next
<1>1. /\ step[t] = All("none") /\ turn[t] # "deleted"
      /\ step'[t] = All("pending") /\ turn'[t] # "deleted" /\ UNCHANGED ran
  BY DEF CreatesPlan, PlanMoves, RowsInv, RowsType
<1>2. PlanState(t) = "none" /\ PlanState(t)' = "proposed"
  BY <1>1, StateOfWhole, AllDiffer, StepsAreNumbers DEF PlanState, All
<1>3. \A u \in Turns \ {t} : turn'[u] = turn[u] /\ step'[u] = step[u]
  BY DEF CreatesPlan, PlanMoves, RowsInv, RowsType
<1>4. /\ \A u \in Turns \ {t} : PlanState(u)' = PlanState(u) /\ (Ready(u)' <=> Ready(u))
      /\ \A u \in Turns : Prefix(u)' = Prefix(u)
  BY <1>1, <1>3, SameRows, SamePrefix
<1>5. ~Ready(t) /\ ~Ready(t)'
  BY <1>2 DEF Ready
<1>6. \A u \in Turns : Ready(u)' <=> Ready(u)
  BY <1>4, <1>5
<1>7. Lifecycle!Propose(t)
  BY <1>2, <1>4, <1>6 DEF Lifecycle!Propose, Lifecycle!Becomes, Ready
<1> QED
  BY <1>7 DEF Lifecycle!Next

LEMMA ClaimsMaps ==
    ASSUME RowsInv, RowsInv', NEW t \in Turns, ClaimsPlan(t)
    PROVE  Lifecycle!Next
<1>1. /\ step[t] = All("pending") /\ turn[t] # "deleted"
      /\ step'[t] = All("queued") /\ turn'[t] # "deleted" /\ UNCHANGED ran
  BY DEF ClaimsPlan, PlanMoves, RowsInv, RowsType
<1>2. PlanState(t) = "proposed" /\ PlanState(t)' = "approved"
  BY <1>1, StateOfWhole, AllDiffer, StepsAreNumbers DEF PlanState, All
<1>3. \A u \in Turns \ {t} : turn'[u] = turn[u] /\ step'[u] = step[u]
  BY DEF ClaimsPlan, PlanMoves, RowsInv, RowsType
<1>4. /\ \A u \in Turns \ {t} : PlanState(u)' = PlanState(u) /\ (Ready(u)' <=> Ready(u))
      /\ \A u \in Turns : Prefix(u)' = Prefix(u)
  BY <1>1, <1>3, SameRows, SamePrefix
<1>5. Ready(t)'
  <2>1. \A i \in Steps : ran'[t][i] = 0
    BY <1>1 DEF RowsInv, RowsFit, PlanFits, All, Waiting
  <2> QED
    BY <1>2, <2>1 DEF Ready
<1>6. Lifecycle!Approve(t)
  BY <1>2, <1>4, <1>5 DEF Lifecycle!Approve, Lifecycle!Becomes, Ready
<1> QED
  BY <1>6 DEF Lifecycle!Next

LEMMA RejectsMaps ==
    ASSUME RowsInv, NEW t \in Turns, RejectsPlan(t)
    PROVE  Lifecycle!Next
<1>1. /\ step[t] = All("pending") /\ turn[t] # "deleted"
      /\ step'[t] = All("rejected") /\ turn'[t] # "deleted" /\ UNCHANGED ran
  BY DEF RejectsPlan, PlanMoves, RowsInv, RowsType
<1>2. PlanState(t) = "proposed" /\ PlanState(t)' = "over"
  BY <1>1, StateOfWhole, AllDiffer, StepsAreNumbers DEF PlanState, All
<1>3. \A u \in Turns \ {t} : turn'[u] = turn[u] /\ step'[u] = step[u]
  BY DEF RejectsPlan, PlanMoves, RowsInv, RowsType
<1>4. /\ \A u \in Turns \ {t} : PlanState(u)' = PlanState(u) /\ (Ready(u)' <=> Ready(u))
      /\ \A u \in Turns : Prefix(u)' = Prefix(u)
  BY <1>1, <1>3, SameRows, SamePrefix
<1> QED
  BY <1>2, <1>4, PlansEnd

LEMMA EndsMaps ==
    ASSUME RowsInv, NEW t \in Turns, EndsPlan(t)
    PROVE  Lifecycle!Next
<1>1. PICK p \in Plan : Settled(step[t], p) /\ step' = [step EXCEPT ![t] = p]
  BY DEF EndsPlan
<1>2. /\ turn[t] # "deleted" /\ PlanFits(step[t], ran[t]) /\ step'[t] = p /\ UNCHANGED ran
      /\ \E i \in Steps : step[t][i] \in {"queued", "running", "accepted"}
  BY <1>1 DEF EndsPlan, RowsInv, RowsFit, RowsType
<1>3. PlanState(t) = "approved"
  BY <1>2, StateOfOpen
<1>4. PlanState(t)' = "over"
  BY <1>1, <1>2, StepsAreNumbers DEF Settled, PlanState, All
<1>5. \A u \in Turns \ {t} : turn'[u] = turn[u] /\ step'[u] = step[u]
  BY <1>1 DEF EndsPlan, RowsInv, RowsType
<1>6. /\ \A u \in Turns \ {t} : PlanState(u)' = PlanState(u) /\ (Ready(u)' <=> Ready(u))
      /\ \A u \in Turns : Prefix(u)' = Prefix(u)
  BY <1>2, <1>5, SameRows, SamePrefix
<1> QED
  BY <1>3, <1>4, <1>6, PlansEnd

LEMMA TurnMovesMaps == ASSUME TurnMoves PROVE UNCHANGED Lifecycle!vars
<1>1. \A t \in Turns : /\ PlanState(t)' = PlanState(t) /\ Prefix(t)' = Prefix(t)
                       /\ Ready(t)' <=> Ready(t)
  BY SameRows DEF TurnMoves
<1> QED
  BY <1>1, NothingHappens

LEMMA DeleteMaps ==
    ASSUME RowsInv, DeleteConversation, UNCHANGED ran
    PROVE  Lifecycle!Next
<1> DEFINE S == {t \in Turns : PlanState(t) # "over"}
<1>1. \A t \in Turns : PlanState(t)' = "over" /\ Prefix(t)' = Prefix(t)
  BY SamePrefix DEF DeleteConversation, PlanState
<1>2. \A t \in Turns \ S : ~Ready(t) /\ ~Ready(t)' /\ PlanState(t) = "over"
  BY <1>1 DEF Ready
<1>3. PICK ended \in SUBSET Turns : ended = S
  OBVIOUS
<1> HIDE DEF S
<1>4. /\ \A t \in ended : PlanState(t) # "over" /\ PlanState(t)' = "over"
      /\ \A t \in Turns \ ended : PlanState(t)' = PlanState(t) /\ (Ready(t)' <=> Ready(t))
  BY <1>1, <1>2, <1>3 DEF S
<1> QED
  BY <1>1, <1>4, PlansEnd

\* A step begins as the first after those that have succeeded.
LEMMA StartsMaps ==
    ASSUME RowsInv, RowsInv', NEW t \in Turns, NEW i \in Steps, StartsStep(t, i)
    PROVE  Lifecycle!Next
<1>1. /\ turn[t] # "deleted" /\ step[t][i] = "queued" /\ step[t] \in Plan
      /\ \A j \in 1 .. i - 1 : step[t][j] = "success"
      /\ ran[t] \in [Steps -> Nat] /\ PlanFits(step[t], ran[t])
  BY DEF StartsStep, RowsInv, RowsType, RowsFit
<1>2. /\ step'[t] = [step[t] EXCEPT ![i] = "running"] /\ UNCHANGED turn
      /\ ran'[t] = [ran[t] EXCEPT ![i] = @ + 1]
  BY DEF StartsStep, RowsInv, RowsType
<1>3. step'[t][i] = "running" /\ \A j \in Steps \ {i} : step'[t][j] = step[t][j]
  BY <1>1, <1>2 DEF Plan
<1>4. \A j \in Steps : /\ j < i => step[t][j] = "success"
                       /\ i < j => step[t][j] = "queued"
  <2> TAKE j \in Steps
  <2>1. j < i => j \in 1 .. i - 1
    BY StepCountAssumption DEF Steps
  <2>2. i < j => step[t][j] = "queued"
    BY <1>1 DEF PlanFits
  <2> QED
    BY <1>1, <2>1, <2>2
<1>5. \A j \in Steps : /\ j < i => ran[t][j] = 1
                       /\ ~(j < i) => ran[t][j] = 0
  <2> TAKE j \in Steps
  <2>1. j < i => ran[t][j] = 1
    BY <1>1, <1>4 DEF PlanFits
  <2>2. j = i \/ i < j => ran[t][j] = 0
    BY <1>1, <1>4 DEF PlanFits, Waiting
  <2>3. j < i \/ j = i \/ i < j
    BY StepsAreNumbers
  <2> QED
    BY <2>1, <2>2, <2>3
<1>6. PlanState(t) = "approved"
  BY <1>1, StateOfOpen
<1>7. PlanState(t)' = "approved"
  BY <1>1, <1>2, <1>3 DEF PlanState, All
<1>8. Ready(t) /\ ~Ready(t)'
  <2>1. Ready(t)
    BY <1>4, <1>5, <1>6 DEF Ready
  <2>2. ran'[t][i] > 0
    BY <1>1, <1>2, <1>5, StepsAreNumbers
  <2>3. ~Ready(t)'
    BY <1>3, <2>2 DEF Ready
  <2> QED
    BY <2>1, <2>3
<1>9. i - 1 \in 0 .. StepCount /\ i \in 0 .. StepCount /\ i \in Nat /\ i - 1 < StepCount
  BY StepCountAssumption DEF Steps
<1>10. Prefix(t) = i - 1
  <2>1. ran[t] = [j \in Steps |-> IF j <= i - 1 THEN 1 ELSE 0]
    <3>1. \A j \in Steps : j <= i - 1 <=> j < i
      BY <1>9, StepsAreNumbers
    <3>2. \A j \in Steps : ran[t][j] = IF j <= i - 1 THEN 1 ELSE 0
      BY <1>5, <3>1
    <3> QED
      BY <1>1, <3>2
  <2>2. Cardinality({j \in Steps : ran[t][j] > 0}) = i - 1
    BY <1>9, <2>1, BegunIs
  <2> QED
    BY <2>1, <2>2 DEF Prefix
<1>11. Prefix(t)' = i
  <2>1. \A j \in Steps : ran'[t][j] = IF j <= i THEN 1 ELSE 0
    <3> TAKE j \in Steps
    <3>1. CASE j = i
      BY <1>1, <1>2, <1>5, <3>1, StepsAreNumbers
    <3>2. CASE j # i
      <4>1. ran'[t][j] = ran[t][j] /\ j \in Nat
        BY <1>1, <1>2, <3>2, StepsAreNumbers
      <4> QED
        BY <1>5, <1>9, <3>2, <4>1
    <3> QED
      BY <3>1, <3>2
  <2>2. ran'[t] = [j \in Steps |-> IF j <= i THEN 1 ELSE 0]
    <3>1. ran'[t] \in [Steps -> Nat]
      BY DEF RowsInv, RowsType
    <3> QED
      BY <2>1, <3>1
  <2>3. Cardinality({j \in Steps : ran'[t][j] > 0}) = i
    BY <1>9, <2>2, BegunIs
  <2> QED
    BY <2>2, <2>3 DEF Prefix
<1>12. \A u \in Turns \ {t} : turn'[u] = turn[u] /\ step'[u] = step[u] /\ ran'[u] = ran[u]
  BY DEF StartsStep, RowsInv, RowsType
<1>13. \A u \in Turns \ {t} : /\ PlanState(u)' = PlanState(u) /\ Prefix(u)' = Prefix(u)
                              /\ Ready(u)' <=> Ready(u)
  BY <1>12, SameRows
<1>14. Prefix(t)' = Prefix(t) + 1 /\ Prefix(t) < StepCount
  BY <1>9, <1>10, <1>11
<1>15. Lifecycle!Begin(t)
  BY <1>6, <1>7, <1>8, <1>13, <1>14 DEF Lifecycle!Begin, Ready
<1> QED
  BY <1>15 DEF Lifecycle!Next

\* A step that succeeds with another to follow makes the plan ready; one that is accepted
\* leaves it as it is.
LEMMA RecordsMaps ==
    ASSUME RowsInv, RowsInv', NEW t \in Turns, NEW i \in Steps, NEW to \in StepStatus, RecordsStep(t, i, to)
    PROVE  [Lifecycle!Next]_(Lifecycle!vars)
<1>1. /\ turn[t] # "deleted" /\ step[t][i] \in {"running", "accepted"} /\ step[t] \in Plan
      /\ PlanFits(step[t], ran[t]) /\ ran[t][i] = 1
  BY DEF RecordsStep, RowsInv, RowsType, RowsFit, PlanFits
<1>2. step'[t] = [step[t] EXCEPT ![i] = to] /\ UNCHANGED <<turn, ran>>
  BY DEF RecordsStep, RowsInv, RowsType
<1>3. step'[t][i] = to /\ \A j \in Steps \ {i} : step'[t][j] = step[t][j]
  BY <1>1, <1>2 DEF Plan
<1>4. PlanState(t) = "approved" /\ ~Ready(t)
  BY <1>1, StateOfOpen DEF Ready
<1>5. \A u \in Turns \ {t} : turn'[u] = turn[u] /\ step'[u] = step[u] /\ ran'[u] = ran[u]
  BY DEF RecordsStep, RowsInv, RowsType
<1>6. \A u \in Turns \ {t} : /\ PlanState(u)' = PlanState(u) /\ Prefix(u)' = Prefix(u)
                             /\ Ready(u)' <=> Ready(u)
  BY <1>5, SameRows
<1>7. Prefix(t)' = Prefix(t)
  BY <1>2, SamePrefix
<1>8. CASE to = "accepted"
  <2>1. PlanState(t)' = "approved"
    BY <1>1, <1>2, <1>3, <1>8 DEF PlanState, All
  <2>2. ~Ready(t)'
    BY <1>1, <1>2, <1>3, <1>8 DEF Ready
  <2>3. UNCHANGED Lifecycle!vars
    BY <1>4, <1>6, <1>7, <2>1, <2>2, NothingHappens
  <2> QED
    BY <2>3
<1>9. CASE to = "success" /\ i < StepCount
  <2>1. StepCount \in Steps /\ step[t][StepCount] = "queued" /\ StepCount # i
    BY <1>1, <1>9, StepsAreNumbers DEF PlanFits
  <2>2. PlanState(t)' = "approved"
    BY <1>1, <1>2, <1>3, <2>1 DEF PlanState, All
  <2>3. \A j \in Steps : ran[t][j] > 0 => j = i \/ step[t][j] = "success"
    <3> SUFFICES ASSUME NEW j \in Steps, ran[t][j] > 0, j # i PROVE step[t][j] = "success"
      OBVIOUS
    <3>1. ran[t][j] = 1
      BY <1>1 DEF PlanFits
    <3>2. i < j => step[t][j] = "queued"
      BY <1>1 DEF PlanFits
    <3>3. step[t][j] = "queued" => ran[t][j] = 0
      BY <1>1 DEF PlanFits, Waiting
    <3>4. j < i
      BY <3>1, <3>2, <3>3, StepsAreNumbers
    <3> QED
      BY <1>1, <3>4 DEF PlanFits
  <2>4. Ready(t)'
    BY <1>2, <1>3, <1>9, <2>2, <2>3 DEF Ready
  <2>5. Lifecycle!Succeed(t)
    BY <1>4, <1>6, <1>7, <2>2, <2>4 DEF Lifecycle!Succeed, Ready
  <2> QED
    BY <2>5 DEF Lifecycle!Next
<1> QED
  BY <1>8, <1>9 DEF RecordsStep

\* A start ends the proposals and the plans without an accepted step.
LEMMA RecoverMaps ==
    ASSUME RowsInv, RecoverInterrupted, UNCHANGED ran
    PROVE  Lifecycle!Next
<1> DEFINE S == {t \in Turns : PlanState(t) # "over" /\ step'[t] # step[t]}
<1>1. \A t \in Turns : Prefix(t)' = Prefix(t)
  BY SamePrefix
<1>2. ASSUME NEW t \in Turns, step'[t] # step[t] PROVE PlanState(t)' = "over"
  <2>1. CASE turn[t] # "deleted" /\ step'[t] = All("interrupted")
    <3>1. \A i \in Steps : step'[t][i] = "interrupted"
      BY <2>1 DEF All
    <3> QED
      BY <3>1, StepsAreNumbers DEF PlanState, All
  <2>2. CASE Settled(step[t], step'[t])
    BY <2>2, StepsAreNumbers DEF Settled, PlanState, All
  <2> QED
    BY <1>2, <2>1, <2>2, RecoveredPlan
<1>3. ASSUME NEW t \in Turns, step'[t] = step[t]
      PROVE  PlanState(t)' = PlanState(t) /\ (Ready(t)' <=> Ready(t))
  BY <1>3, RecoveredPlan, SameRows
<1>4. PICK ended \in SUBSET Turns : ended = S
  OBVIOUS
<1>5. \A t \in ended : PlanState(t) # "over" /\ PlanState(t)' = "over"
  BY <1>2, <1>4
<1>6. \A t \in Turns \ ended : PlanState(t)' = PlanState(t) /\ (Ready(t)' <=> Ready(t))
  <2> SUFFICES ASSUME NEW t \in Turns \ ended
               PROVE  PlanState(t)' = PlanState(t) /\ (Ready(t)' <=> Ready(t))
    OBVIOUS
  <2>1. CASE step'[t] = step[t]
    BY <1>3, <2>1
  <2>2. CASE step'[t] # step[t]
    <3>1. PlanState(t) = "over" /\ PlanState(t)' = "over"
      BY <1>2, <1>4, <2>2
    <3> QED
      BY <3>1 DEF Ready
  <2> QED
    BY <2>1, <2>2
<1> QED
  BY <1>1, <1>5, <1>6, PlansEnd

\* The plans of the assistant are those of PlanLifecycle, whoever claims, confirms, pauses,
\* deletes or restarts: decided on once, begun in order and once each, nothing after the end.
THEOREM PlanLifecycleImplemented == Spec => LifecycleSpec
<1>1. Init => Lifecycle!Init
  <2> SUFFICES ASSUME Init PROVE Lifecycle!Init
    OBVIOUS
  <2>1. \A t \in Turns : turn[t] = "none" /\ step[t] = All("none") /\ ran[t] = [i \in Steps |-> 0]
    BY DEF Init, StoreInit, All
  <2>2. \A t \in Turns : PlanState(t) = "none"
    BY <2>1 DEF PlanState
  <2>3. \A t \in Turns : Prefix(t) = 0
    <3> TAKE t \in Turns
    <3>1. ran[t] = [i \in Steps |-> IF i <= 0 THEN 1 ELSE 0]
      BY <2>1, StepCountAssumption DEF Steps
    <3>2. Cardinality({i \in Steps : ran[t][i] > 0}) = 0
      BY <3>1, StepCountAssumption, BegunIs
    <3> QED
      BY <3>1, <3>2 DEF Prefix
  <2> QED
    BY <2>2, <2>3 DEF Lifecycle!Init
<1>2. PlanInv /\ PlanInv' /\ [Next]_vars => [Lifecycle!Next]_(Lifecycle!vars)
  <2> SUFFICES ASSUME PlanInv, PlanInv', [Next]_vars PROVE [Lifecycle!Next]_(Lifecycle!vars)
    OBVIOUS
  <2>1. Transaction /\ RowsInv /\ RowsInv'
    BY NextInv DEF PlanInv
  <2> QED
    BY <2>1, TurnMovesMaps, CreatesMaps, ClaimsMaps, RejectsMaps, EndsMaps, StartsMaps, RecordsMaps,
       RecoverMaps, DeleteMaps DEF Transaction, Follows
<1> QED
  BY <1>1, <1>2, PlanInvariant, PTL DEF Spec, LifecycleSpec, Lifecycle!Spec

ModelTables == [Models -> ModelRows \cup {NoRow}]
ProviderTables == [Providers -> ProviderRows \cup {NoRow}]

-----------------------------------------------------------------------------
(* The model a provider shows                                              *)

\* There is an oldest among any rows.
LEMMA OldestExists == ASSUME NEW S, S \subseteq Nat, S # {} PROVE Min(S) \in S
<1> DEFINE Less == {ss \in Nat \X Nat : ss[1] < ss[2]}
<1>1. IsWellFoundedOn(Less, Nat)
  BY NatLessThanWellFounded DEF OpToRel
<1>2. PICK x \in S : \A y \in S : ~ (<<y, x>> \in Less)
  BY <1>1, WFMin
<1>3. ASSUME NEW y \in S PROVE x <= y
  <2>1. x \in Nat /\ y \in Nat /\ ~ (<<y, x>> \in Less)
    BY <1>2
  <2>2. ~ (y < x)
    <3> SUFFICES ASSUME y < x PROVE <<y, x>> \in Less
      BY <2>1
    <3>1. <<y, x>> \in Nat \X Nat /\ <<y, x>>[1] = y /\ <<y, x>>[2] = x
      BY <2>1
    <3> QED
      BY <3>1, Zenon
  <2> QED
    BY <2>1, <2>2
<1> QED
  BY <1>3 DEF Min

\* The rows of models come from one provider's.
LEMMA FirstIsOwn ==
    ASSUME NEW keys, NEW own, own \subseteq Models, own # {}
    PROVE  FirstOf(keys, own) \in own
<1>1. \A S \in SUBSET own : S # {} => Min(S) \in S
  BY OldestExists, RoutingAssumption
<1> QED
  BY <1>1 DEF FirstOf

LEMMA ShownIsOwn ==
    ASSUME NEW ms \in ModelTables, NEW p, ModelsOf(ms, p) # {}
    PROVE  /\ Shown(ms, p) \in ModelsOf(ms, p)
           /\ FirstListed(ms, p) \in ModelsOf(ms, p)
<1>1. ModelsOf(ms, p) \subseteq Models
  BY DEF ModelsOf, Rows, ModelTables
<1> QED
  BY <1>1, FirstIsOwn DEF Shown, FirstListed

LEMMA MirrorType ==
    ASSUME NEW ms \in ModelTables, NEW p
    PROVE  MirrorOf(ms, p) \in Mirror
<1>1. CASE ModelsOf(ms, p) = {}
  BY <1>1 DEF MirrorOf, Blank, NameOnly, Mirror
<1>2. CASE ModelsOf(ms, p) # {}
  <2>1. ms[Shown(ms, p)] \in ModelRows
    BY <1>2, ShownIsOwn DEF ModelsOf, Rows, ModelTables
  <2> QED
    BY <1>2, <2>1 DEF MirrorOf, Mirror, ModelRows
<1> QED
  BY <1>1, <1>2

\* What a provider shows depends on its own models only.
LEMMA MirrorIsLocal ==
    ASSUME NEW ms \in ModelTables, NEW ns \in ModelTables, NEW p,
           ModelsOf(ms, p) = ModelsOf(ns, p),
           \A m \in ModelsOf(ms, p) : ms[m] = ns[m]
    PROVE  MirrorOf(ms, p) = MirrorOf(ns, p)
<1> DEFINE own == ModelsOf(ms, p)
<1>1. CASE own = {}
  BY <1>1 DEF MirrorOf
<1>2. CASE own # {}
  <2>1. own \cap Defaults(ms) = own \cap Defaults(ns)
    BY DEF ModelsOf, Defaults, Rows
  <2>2. own \cap {m \in Rows(ms) : ms[m].enabled} = own \cap {m \in Rows(ns) : ns[m].enabled}
    BY DEF ModelsOf, Rows
  <2>3. Shown(ms, p) = Shown(ns, p)
    BY <2>1, <2>2 DEF Shown, FirstOf
  <2>4. ms[Shown(ms, p)] = ns[Shown(ns, p)]
    BY <1>2, <2>3, ShownIsOwn
  <2> QED
    BY <1>2, <2>4 DEF MirrorOf
<1> QED
  BY <1>1, <1>2

-----------------------------------------------------------------------------
(* The two tables together                                                 *)

RoutesUnique(ms) ==
    \A m, n \in Rows(ms) :
       /\ ms[m].default /\ ms[n].default => m = n
       /\ ms[m].fallback /\ ms[n].fallback => m = n
       /\ ~ (ms[m].default /\ ms[m].fallback)

ParentsExist(ps, ms) == \A m \in Rows(ms) : ps[ms[m].provider] # NoRow

RoutesWork(ps, ms) ==
    \A m \in Rows(ms) : ms[m].default \/ ms[m].fallback =>
       ms[m].capable /\ ps[ms[m].provider].enabled

MirrorsExact(ps, ms) == \A p \in Rows(ps) : ps[p].shown = MirrorOf(ms, p)

TablesOK(ps, ms) ==
    /\ ps \in ProviderTables /\ ms \in ModelTables
    /\ RoutesUnique(ms) /\ ParentsExist(ps, ms) /\ RoutesWork(ps, ms) /\ MirrorsExact(ps, ms)

\* A change of one provider's models, which gives no model a new route and takes the
\* routes from what may not have them
Confined(ms, ns, p, enabled) ==
    /\ \A m \in Models : ms[m] # ns[m] =>
          /\ ms[m] = NoRow \/ ms[m].provider = p
          /\ ns[m] = NoRow \/ ns[m].provider = p
    /\ \A m \in Rows(ns) :
          /\ ns[m].default => ms[m] # NoRow /\ ms[m].default
          /\ ns[m].fallback => ms[m] # NoRow /\ ms[m].fallback
    /\ \A m \in ModelsOf(ns, p) :
          ns[m].default \/ ns[m].fallback => ns[m].capable /\ enabled

\* Such a change, with one of the provider's own row, ends with
\* syncProviderCompatibility.
LEMMA OneProviderChanges ==
    ASSUME NEW ps, NEW ms, TablesOK(ps, ms), NEW ns \in ModelTables,
           NEW p \in Providers, NEW row \in ProviderRows,
           Confined(ms, ns, p, row.enabled)
    PROVE  TablesOK(SyncProvider([ps EXCEPT ![p] = row], ns, p), ns)
<1> DEFINE qs == SyncProvider([ps EXCEPT ![p] = row], ns, p)
<1>1. ps \in ProviderTables /\ ms \in ModelTables
  BY DEF TablesOK
<1>2. qs = [ps EXCEPT ![p] = [row EXCEPT !.shown = MirrorOf(ns, p)]]
  BY <1>1 DEF SyncProvider, ProviderTables
<1> DEFINE new == [row EXCEPT !.shown = MirrorOf(ns, p)]
<1>3. new \in ProviderRows /\ new # NoRow /\ new.enabled = row.enabled
      /\ new.shown = MirrorOf(ns, p)
  BY MirrorType, RoutingAssumption DEF ProviderRows
<1>4. qs \in ProviderTables /\ qs[p] = new /\ \A q \in Providers \ {p} : qs[q] = ps[q]
  BY <1>1, <1>2, <1>3 DEF ProviderTables
<1> HIDE DEF qs, new
<1>5. \A m \in Rows(ns) : m \in Models /\ ns[m] \in ModelRows /\ ns[m].provider \in Providers
  BY DEF Rows, ModelTables, ModelRows
<1>6. \A m \in Rows(ns) : ns[m].provider # p => m \in Rows(ms) /\ ms[m] = ns[m]
  BY <1>1, <1>5 DEF Confined, Rows, ModelTables
<1>7. RoutesUnique(ns)
  <2>1. \A m \in Rows(ns) : ns[m].default \/ ns[m].fallback => m \in Rows(ms)
    BY <1>1, <1>5 DEF Confined, Rows, ModelTables
  <2> QED
    BY <2>1 DEF Confined, TablesOK, RoutesUnique
<1>8. ParentsExist(qs, ns)
  BY <1>3, <1>4, <1>5, <1>6 DEF TablesOK, ParentsExist
<1>9. RoutesWork(qs, ns)
  BY <1>3, <1>4, <1>5, <1>6 DEF Confined, TablesOK, RoutesWork, ModelsOf
<1>10. MirrorsExact(qs, ns)
  <2> SUFFICES ASSUME NEW q \in Rows(qs), q # p
               PROVE  qs[q].shown = MirrorOf(ns, q)
    BY <1>3, <1>4 DEF MirrorsExact
  <2>1. q \in Providers /\ qs[q] = ps[q] /\ q \in Rows(ps)
    BY <1>1, <1>4 DEF Rows, ProviderTables
  <2>2. ModelsOf(ms, q) = ModelsOf(ns, q) /\ \A m \in ModelsOf(ms, q) : ms[m] = ns[m]
    BY <1>1 DEF Confined, ModelsOf, Rows, ModelTables
  <2>3. MirrorOf(ms, q) = MirrorOf(ns, q)
    BY <1>1, <2>2, MirrorIsLocal
  <2> QED
    BY <2>1, <2>3 DEF TablesOK, MirrorsExact
<1> QED
  BY <1>4, <1>7, <1>8, <1>9, <1>10 DEF TablesOK, qs

-----------------------------------------------------------------------------
(* The inductive invariant.  What a request has read of a model stays true *)
(* in one thing: the model's provider, for identifiers are not given twice *)

EditOK(e, ms, last) ==
    /\ e.op = "write provider" =>
          /\ e.p \in Providers /\ e.address \in Addresses /\ e.enabled \in BOOLEAN
          /\ e.moved \in BOOLEAN /\ e.on \in BOOLEAN
          /\ e.name # None => e.name \in Names
          /\ e.first # None => e.first \in Models /\ e.first <= last
    /\ e.op = "delete provider" => e.p \in Providers
    /\ e.op \in {"read model", "write model", "delete model", "save probe"} =>
          e.m \in Models /\ e.m <= last
    /\ e.op \in {"read model", "write model"} => e.name \in Names /\ e.enabled \in BOOLEAN
    /\ e.op \in {"write model", "delete model"} =>
          e.p \in Providers /\ (ms[e.m] # NoRow => ms[e.m].provider = e.p)

EditsOK == DOMAIN edit = Clients /\ \A q \in Clients : EditOK(edit[q], model, created)

CountersOK ==
    /\ Rows(model) \subseteq 1 .. created /\ Rows(provider) \subseteq known
    /\ known \subseteq Providers /\ created \in Nat /\ edits \in 0 .. MaxEdits
    /\ routed \in {"none", "done", "refused"}

RoutingInv == TablesOK(provider, model) /\ CountersOK /\ EditsOK

\* No step moves a model to another provider or gives its identifier again.
KeepsParents ==
    /\ created \in Nat /\ created' \in Nat /\ created <= created'
    /\ \A m \in Models : m <= created /\ model'[m] # NoRow =>
          model[m] # NoRow /\ model'[m].provider = model[m].provider

LEMMA EditStays ==
    ASSUME KeepsParents, NEW e, EditOK(e, model, created)
    PROVE  EditOK(e, model', created')
<1>1. Models \subseteq Nat
  BY RoutingAssumption
<1>2. \A m \in Models : m <= created => m <= created'
  BY <1>1 DEF KeepsParents
<1>3. e.op \in {"write model", "delete model"} =>
         e.p \in Providers /\ (model'[e.m] # NoRow => model'[e.m].provider = e.p)
  <2> SUFFICES ASSUME e.op \in {"write model", "delete model"}
               PROVE  e.p \in Providers /\ (model'[e.m] # NoRow => model'[e.m].provider = e.p)
    OBVIOUS
  <2>1. e.m \in Models /\ e.m <= created /\ e.p \in Providers
        /\ (model[e.m] # NoRow => model[e.m].provider = e.p)
    BY DEF EditOK
  <2> QED
    BY <2>1 DEF KeepsParents
<1> QED
  BY <1>2, <1>3 DEF EditOK

LEMMA EditsStay ==
    ASSUME EditsOK, KeepsParents, edit' = edit
    PROVE  EditsOK'
BY EditStays DEF EditsOK

LEMMA OneEditChanges ==
    ASSUME EditsOK, KeepsParents, NEW q \in Clients,
           DOMAIN edit' = Clients, \A r \in Clients \ {q} : edit'[r] = edit[r],
           EditOK(edit'[q], model', created')
    PROVE  EditsOK'
BY EditStays DEF EditsOK

LEMMA IdleIsOK == \A ms, last : EditOK(NoEdit, ms, last)
BY DEF EditOK, NoEdit

LEMMA EndsKeeps ==
    ASSUME EditsOK, KeepsParents, NEW q \in Clients, Ends(q)
    PROVE  EditsOK'
<1>1. edit'[q] = NoEdit /\ DOMAIN edit' = Clients /\ \A r \in Clients \ {q} : edit'[r] = edit[r]
  BY DEF Ends, EditsOK
<1>2. EditOK(edit'[q], model', created')
  BY <1>1, IdleIsOK
<1> QED
  BY <1>1, <1>2, OneEditChanges

\* A request that only reads and remembers
LEMMA Reads ==
    ASSUME RoutingInv, NEW q \in Clients, UNCHANGED <<provider, model, known, created, routed>>,
           edits' \in 0 .. MaxEdits,
           DOMAIN edit' = Clients, \A r \in Clients \ {q} : edit'[r] = edit[r],
           EditOK(edit'[q], model, created)
    PROVE  RoutingInv'
<1>1. KeepsParents
  BY DEF KeepsParents, RoutingInv, CountersOK
<1>2. EditsOK'
  BY <1>1, OneEditChanges DEF RoutingInv
<1> QED
  BY <1>2 DEF RoutingInv, CountersOK

-----------------------------------------------------------------------------
(* Requests of one transaction                                             *)

LEMMA NewRow ==
    ASSUME NEW p \in Providers, NEW n \in Names, NEW on \in BOOLEAN
    PROVE  LET row == NewModel(p, n, on)
           IN  /\ row \in ModelRows /\ row # NoRow
               /\ row.provider = p /\ row.name = n /\ ~ row.capable
               /\ ~ row.default /\ ~ row.fallback
<1>1. NewModel(p, n, on) \in ModelRows
  BY DEF NewModel, ModelRows
<1> QED
  BY <1>1, RoutingAssumption DEF NewModel

LEMMA NewIdentifier ==
    ASSUME RoutingInv, created + 1 \in Models
    PROVE  model[created + 1] = NoRow
<1>1. created \in Nat /\ created + 1 \notin 1 .. created
  BY DEF RoutingInv, CountersOK
<1>2. Rows(model) \subseteq 1 .. created /\ DOMAIN model = Models
  BY DEF RoutingInv, CountersOK, TablesOK, ModelTables
<1> QED
  BY <1>1, <1>2 DEF Rows

LEMMA NewModelKeeps ==
    ASSUME RoutingInv, created + 1 \in Models, created' = created + 1,
           NEW row, model' = [model EXCEPT ![created + 1] = row]
    PROVE  KeepsParents /\ Rows(model') \subseteq 1 .. created'
<1>1. created \in Nat /\ DOMAIN model = Models /\ Models \subseteq Nat \ {0}
  BY RoutingAssumption DEF RoutingInv, CountersOK, TablesOK, ModelTables
<1>2. \A m \in Models : m <= created => model'[m] = model[m]
  BY <1>1
<1>3. KeepsParents
  BY <1>1, <1>2 DEF KeepsParents
<1>4. ASSUME NEW m \in Rows(model') PROVE m \in 1 .. created'
  <2>1. m \in Models /\ (m = created + 1 \/ m \in Rows(model))
    BY <1>1, <1>4 DEF Rows
  <2> QED
    BY <1>1, <2>1 DEF RoutingInv, CountersOK
<1> QED
  BY <1>3, <1>4

LEMMA ProviderCreation ==
    ASSUME RoutingInv, NEW p \in Providers, NEW n \in Names \cup {None}, CreateProvider(p, n)
    PROVE  RoutingInv'
<1>1. /\ p \notin known /\ known' = known \cup {p} /\ edits' \in 0 .. MaxEdits
      /\ edit' = edit /\ routed' = routed
  BY RoutingAssumption DEF CreateProvider, AtOnce, RoutingInv, CountersOK
<1>2. provider \in ProviderTables /\ model \in ModelTables /\ provider[p] = NoRow
  BY <1>1 DEF RoutingInv, TablesOK, CountersOK, Rows, ProviderTables
<1>3. ModelsOf(model, p) = {}
  BY <1>2 DEF RoutingInv, TablesOK, ParentsExist, ModelsOf
<1>4. PICK a \in Addresses, on \in BOOLEAN :
         IF n = None
         THEN /\ provider' = [provider EXCEPT ![p] = [enabled |-> on, address |-> a, shown |-> Blank]]
              /\ UNCHANGED <<model, created>>
         ELSE /\ created + 1 \in Models /\ created' = created + 1
              /\ model' = [model EXCEPT ![created + 1] = NewModel(p, n, TRUE)]
              /\ provider' = [provider EXCEPT ![p] =
                                [enabled |-> on, address |-> a, shown |-> NameOnly(n)]]
  BY DEF CreateProvider
<1> DEFINE row == [enabled |-> on, address |-> a, shown |-> Blank]
<1> DEFINE bare == [provider EXCEPT ![p] = row]
<1>5. row \in ProviderRows /\ row # NoRow
  <2>1. row \in ProviderRows
    BY DEF ProviderRows, Blank, NameOnly, Mirror
  <2> QED
    BY <2>1, RoutingAssumption
<1>6. bare = SyncProvider([provider EXCEPT ![p] = row], model, p)
  BY <1>2, <1>3 DEF SyncProvider, MirrorOf, ProviderTables
<1>7. TablesOK(bare, model)
  <2> HIDE DEF row
  <2>1. TablesOK(SyncProvider([provider EXCEPT ![p] = row], model, p), model)
    BY <1>2, <1>3, <1>5, OneProviderChanges DEF RoutingInv, Rows, Confined
  <2> QED
    BY <1>6, <2>1
<1>8. CASE n = None
  <2>1. provider' = bare /\ model' = model /\ created' = created
    BY <1>4, <1>8
  <2>2. CountersOK'
    BY <1>1, <1>2, <2>1 DEF RoutingInv, CountersOK, Rows, ProviderTables
  <2>3. EditsOK'
    BY <1>1, <2>1, EditsStay DEF RoutingInv, CountersOK, KeepsParents
  <2> QED
    BY <1>7, <2>1, <2>2, <2>3 DEF RoutingInv
<1>9. CASE n # None
  <2> DEFINE m == created + 1
  <2> DEFINE named == [enabled |-> on, address |-> a, shown |-> NameOnly(n)]
  <2>1. /\ m \in Models /\ created' = m /\ model' = [model EXCEPT ![m] = NewModel(p, n, TRUE)]
        /\ provider' = [provider EXCEPT ![p] = named]
    BY <1>4, <1>9
  <2>2. model[m] = NoRow /\ NewModel(p, n, TRUE) \in ModelRows /\ NewModel(p, n, TRUE) # NoRow
    BY <1>9, <2>1, NewIdentifier, NewRow
  <2>3. model' \in ModelTables /\ ModelsOf(model', p) = {m}
    BY <1>2, <1>3, <2>1, <2>2 DEF ModelsOf, Rows, ModelTables, NewModel
  <2>4. MirrorOf(model', p) = NameOnly(n)
    <3>1. Shown(model', p) = m
      BY <2>3, ShownIsOwn
    <3>2. model'[m] = NewModel(p, n, TRUE)
      BY <1>2, <2>1 DEF ModelTables
    <3>3. MirrorOf(model', p) = [name |-> model'[m].name, default |-> model'[m].default,
                                 capable |-> model'[m].capable]
      BY <2>3, <3>1 DEF MirrorOf
    <3>4. model'[m].name = n /\ model'[m].default = FALSE /\ model'[m].capable = FALSE
      BY <3>2 DEF NewModel
    <3> QED
      BY <3>3, <3>4, Zenon DEF NameOnly
  <2>5. provider' = SyncProvider([bare EXCEPT ![p] = row], model', p)
    BY <1>2, <2>1, <2>4 DEF SyncProvider, ProviderTables
  <2>6. TablesOK(provider', model')
    <3>1. \A k \in Models : model[k] # model'[k] => k = m
      BY <1>2, <2>1 DEF ModelTables
    <3>2. model'[m].provider = p /\ ~ model'[m].default /\ ~ model'[m].fallback
      BY <1>2, <2>1 DEF NewModel, ModelTables
    <3>3. \A k \in Rows(model') : k \in Models
      BY <2>3 DEF Rows, ModelTables
    <3>4. \A k \in Rows(model') : /\ model'[k].default => model[k] # NoRow /\ model[k].default
                                  /\ model'[k].fallback => model[k] # NoRow /\ model[k].fallback
      BY <3>1, <3>2, <3>3 DEF Rows
    <3> HIDE DEF bare, row, m, named
    <3> QED
      BY <1>5, <1>7, <2>2, <2>3, <2>5, <3>1, <3>2, <3>4, OneProviderChanges DEF Confined
  <2>7. KeepsParents /\ Rows(model') \subseteq 1 .. created'
    <3> HIDE DEF named
    <3> QED
      BY <2>1, NewModelKeeps
  <2>8. Rows(provider') \subseteq known'
    BY <1>1, <1>2, <2>1 DEF RoutingInv, CountersOK, Rows, ProviderTables
  <2>9. CountersOK'
    <3> HIDE DEF row, bare, named
    <3>1. created' \in Nat /\ known' \subseteq Providers /\ routed' \in {"none", "done", "refused"}
      BY <1>1, <2>1 DEF RoutingInv, CountersOK
    <3> QED
      BY <1>1, <2>7, <2>8, <3>1 DEF CountersOK
  <2> QED
    BY <1>1, <2>6, <2>7, <2>9, EditsStay DEF RoutingInv
<1> QED
  BY <1>8, <1>9

LEMMA ModelImport ==
    ASSUME RoutingInv, NEW p \in Providers, NEW n \in Names, NEW on \in BOOLEAN,
           ImportModel(p, n, on)
    PROVE  RoutingInv'
<1> DEFINE m == created + 1
<1>1. /\ known' = known /\ edits' \in 0 .. MaxEdits /\ edit' = edit /\ routed' = routed
      /\ provider[p] # NoRow /\ m \in Models /\ created' = m
      /\ model' = [model EXCEPT ![m] = NewModel(p, n, on)]
      /\ provider' = SyncProvider(provider, model', p)
  BY RoutingAssumption DEF ImportModel, AtOnce, RoutingInv, CountersOK
<1>2. provider \in ProviderTables /\ model \in ModelTables /\ provider[p] \in ProviderRows
  BY <1>1 DEF RoutingInv, TablesOK, ProviderTables
<1>3. model[m] = NoRow /\ NewModel(p, n, on) \in ModelRows /\ NewModel(p, n, on) # NoRow
  BY <1>1, NewIdentifier, NewRow
<1>4. model' \in ModelTables
  BY <1>1, <1>2, <1>3 DEF ModelTables
<1>5. /\ \A k \in Models : model[k] # model'[k] => k = m
      /\ model'[m].provider = p /\ ~ model'[m].default /\ ~ model'[m].fallback
  BY <1>1, <1>2 DEF ModelTables, NewModel
<1>6. TablesOK(provider', model')
  <2>1. [provider EXCEPT ![p] = provider[p]] = provider
    BY <1>2 DEF ProviderTables
  <2>2. \A k \in Rows(model') : k \in Models
    BY <1>4 DEF Rows, ModelTables
  <2>3. \A k \in Rows(model') : /\ model'[k].default => model[k] # NoRow /\ model[k].default
                                /\ model'[k].fallback => model[k] # NoRow /\ model[k].fallback
    BY <1>5, <2>2 DEF Rows
  <2>4. \A k \in ModelsOf(model', p) : model'[k].default \/ model'[k].fallback =>
           model'[k].capable /\ provider[p].enabled
    BY <1>2, <1>5, <2>2, <2>3 DEF RoutingInv, TablesOK, RoutesWork, ModelsOf, Rows, ModelTables
  <2> HIDE DEF m
  <2>5. TablesOK(SyncProvider([provider EXCEPT ![p] = provider[p]], model', p), model')
    BY <1>2, <1>3, <1>4, <1>5, <2>3, <2>4, OneProviderChanges DEF RoutingInv, Confined
  <2> QED
    BY <1>1, <2>1, <2>5
<1>7. KeepsParents /\ Rows(model') \subseteq 1 .. created'
  BY <1>1, NewModelKeeps
<1>8. CountersOK'
  BY <1>1, <1>2, <1>7 DEF RoutingInv, CountersOK, Rows, ProviderTables, SyncProvider
<1> QED
  BY <1>1, <1>6, <1>7, <1>8, EditsStay DEF RoutingInv

-----------------------------------------------------------------------------
(* What a request reads before it writes                                   *)

\* Begins writes the request's own entry.
LEMMA BeginsOne ==
    ASSUME RoutingInv, NEW q \in Clients, NEW e, Begins(q, e)
    PROVE  /\ edits' \in 0 .. MaxEdits /\ DOMAIN edit' = Clients /\ edit'[q] = e
           /\ \A r \in Clients \ {q} : edit'[r] = edit[r]
BY RoutingAssumption DEF RoutingInv, CountersOK, EditsOK, Begins

LEMMA RowIsTyped ==
    ASSUME RoutingInv, NEW m \in Rows(model)
    PROVE  /\ m \in Models /\ m <= created /\ model[m] \in ModelRows
           /\ model[m].provider \in Providers
           /\ provider[model[m].provider] \in ProviderRows
<1>1. m \in Models /\ model[m] \in ModelRows /\ model[m].provider \in Providers
  BY DEF RoutingInv, TablesOK, Rows, ModelTables, ModelRows
<1>2. m <= created
  BY DEF RoutingInv, CountersOK
<1>3. provider[model[m].provider] \in ProviderRows
  BY <1>1 DEF RoutingInv, TablesOK, ParentsExist, ProviderTables
<1> QED
  BY <1>1, <1>2, <1>3

LEMMA ProviderRead ==
    ASSUME RoutingInv, NEW q \in Clients, NEW p \in Providers, ReadProvider(q, p)
    PROVE  RoutingInv'
<1>1. UNCHANGED <<provider, model, known, created, routed>>
  BY DEF ReadProvider
<1>2. PICK a \in Addresses, on \in BOOLEAN, n \in Names \cup {None} :
         Begins(q, [op |-> "write provider", p |-> p, address |-> a, enabled |-> on, name |-> n,
                    moved |-> a # provider[p].address,
                    first |-> IF ModelsOf(model, p) = {} \/ n = provider[p].shown.name THEN None
                              ELSE FirstListed(model, p),
                    on |-> ModelsOf(model, p) # {} /\ model[FirstListed(model, p)].enabled])
  BY DEF ReadProvider
<1> DEFINE first == IF ModelsOf(model, p) = {} \/ n = provider[p].shown.name THEN None
                    ELSE FirstListed(model, p)
<1> DEFINE listed == ModelsOf(model, p) # {} /\ model[FirstListed(model, p)].enabled
<1> DEFINE e == [op |-> "write provider", p |-> p, address |-> a, enabled |-> on, name |-> n,
                 moved |-> a # provider[p].address, first |-> first, on |-> listed]
<1>3. ModelsOf(model, p) # {} => FirstListed(model, p) \in Rows(model)
  BY ShownIsOwn DEF RoutingInv, TablesOK, ModelsOf
<1>4. first # None => first \in Models /\ first <= created
  BY <1>3, RowIsTyped
<1>5. listed \in BOOLEAN
  OBVIOUS
<1> HIDE DEF first, listed
<1>6. EditOK(e, model, created)
  BY <1>4, <1>5 DEF EditOK
<1>7. Begins(q, e)
  BY <1>2 DEF first, listed
<1> HIDE DEF e
<1> QED
  BY <1>1, <1>6, <1>7, BeginsOne, Reads

LEMMA ProviderCheck ==
    ASSUME RoutingInv, NEW q \in Clients, NEW p \in Providers, CheckProvider(q, p)
    PROVE  RoutingInv'
<1> DEFINE e == [op |-> "delete provider", p |-> p]
<1>1. EditOK(e, model, created)
  BY DEF EditOK
<1>2. Begins(q, e) /\ UNCHANGED <<provider, model, known, created, routed>>
  BY DEF CheckProvider
<1> HIDE DEF e
<1> QED
  BY <1>1, <1>2, BeginsOne, Reads

LEMMA ModelAsked ==
    ASSUME RoutingInv, NEW q \in Clients, NEW m \in Rows(model), NEW n \in Names,
           NEW on \in BOOLEAN, AskModel(q, m, n, on)
    PROVE  RoutingInv'
<1> DEFINE e == [op |-> "read model", m |-> m, name |-> n, enabled |-> on]
<1>1. EditOK(e, model, created)
  BY RowIsTyped DEF EditOK
<1>2. Begins(q, e) /\ UNCHANGED <<provider, model, known, created, routed>>
  BY DEF AskModel
<1> HIDE DEF e
<1> QED
  BY <1>1, <1>2, BeginsOne, Reads

LEMMA ModelCheck ==
    ASSUME RoutingInv, NEW q \in Clients, NEW m \in Models, CheckModel(q, m)
    PROVE  RoutingInv'
<1> DEFINE e == [op |-> "delete model", m |-> m, p |-> model[m].provider]
<1>1. m \in Rows(model)
  BY DEF CheckModel, RoutingInv, TablesOK, ModelTables, Rows
<1>2. EditOK(e, model, created)
  BY <1>1, RowIsTyped DEF EditOK
<1>3. Begins(q, e) /\ UNCHANGED <<provider, model, known, created, routed>>
  BY DEF CheckModel
<1> HIDE DEF e
<1> QED
  BY <1>2, <1>3, BeginsOne, Reads

LEMMA ProbeStart ==
    ASSUME RoutingInv, NEW q \in Clients, NEW m \in Models, StartProbe(q, m)
    PROVE  RoutingInv'
<1> DEFINE e == [op |-> "save probe", m |-> m]
<1>1. m \in Rows(model)
  BY DEF StartProbe, RoutingInv, TablesOK, ModelTables, Rows
<1>2. EditOK(e, model, created)
  BY <1>1, RowIsTyped DEF EditOK
<1>3. Begins(q, e) /\ UNCHANGED <<provider, model, known, created, routed>>
  BY DEF StartProbe
<1> HIDE DEF e
<1> QED
  BY <1>2, <1>3, BeginsOne, Reads

LEMMA RoutingAsked ==
    ASSUME RoutingInv, NEW q \in Clients, AskRouting(q)
    PROVE  RoutingInv'
<1>1. UNCHANGED <<provider, model, known, created, routed>>
  BY DEF AskRouting
<1>2. PICK d, f : Begins(q, [op |-> "route", default |-> d, fallback |-> f])
  BY DEF AskRouting
<1> DEFINE e == [op |-> "route", default |-> d, fallback |-> f]
<1>3. EditOK(e, model, created)
  BY DEF EditOK
<1>4. Begins(q, e)
  BY <1>2
<1> HIDE DEF e
<1> QED
  BY <1>1, <1>3, <1>4, BeginsOne, Reads

LEMMA ModelRead ==
    ASSUME RoutingInv, NEW q \in Clients, ReadModel(q)
    PROVE  RoutingInv'
<1> DEFINE old == edit[q]
<1> DEFINE e == [op |-> "write model", m |-> old.m, name |-> old.name, enabled |-> old.enabled,
                 renamed |-> old.name # model[old.m].name, p |-> model[old.m].provider]
<1>1. /\ old.op = "read model" /\ model[old.m] # NoRow
      /\ edit' = [edit EXCEPT ![q] = e]
      /\ UNCHANGED <<provider, model, known, created, edits, routed>>
  BY DEF ReadModel, Doing
<1>2. EditOK(old, model, created)
  BY DEF RoutingInv, EditsOK
<1>3. old.m \in Models /\ old.m <= created /\ old.name \in Names /\ old.enabled \in BOOLEAN
  BY <1>1, <1>2 DEF EditOK
<1>4. model[old.m].provider \in Providers
  BY <1>1, <1>3, RowIsTyped DEF RoutingInv, TablesOK, ModelTables, Rows
<1>5. EditOK(e, model, created)
  BY <1>3, <1>4 DEF EditOK
<1> HIDE DEF e, old
<1>6. DOMAIN edit' = Clients /\ edit'[q] = e /\ \A r \in Clients \ {q} : edit'[r] = edit[r]
  BY <1>1 DEF RoutingInv, EditsOK
<1> QED
  BY <1>1, <1>5, <1>6, Reads DEF RoutingInv, CountersOK

LEMMA RequestEnds ==
    ASSUME RoutingInv, NEW q \in Clients, GiveUp(q)
    PROVE  RoutingInv'
<1>1. Ends(q) /\ UNCHANGED <<provider, model, known, created, edits, routed>>
  BY DEF GiveUp, Refused
<1>2. KeepsParents
  BY <1>1 DEF KeepsParents, RoutingInv, CountersOK
<1> QED
  BY <1>1, <1>2, EndsKeeps DEF RoutingInv, CountersOK

-----------------------------------------------------------------------------
(* What a request writes                                                   *)

LEMMA WriteKeeps ==
    ASSUME RoutingInv, UNCHANGED <<known, created, edits>>,
           routed' \in {"none", "done", "refused"},
           TablesOK(provider', model'), Rows(provider') \subseteq Rows(provider),
           \A m \in Models : model'[m] # NoRow =>
              model[m] # NoRow /\ model'[m].provider = model[m].provider
    PROVE  KeepsParents /\ CountersOK'
<1>1. Rows(model') \subseteq Rows(model)
  BY DEF TablesOK, RoutingInv, Rows, ModelTables
<1> QED
  BY <1>1 DEF RoutingInv, CountersOK, KeepsParents

\* PUT, DELETE and the test of a model
LEMMA OneModelChanges ==
    ASSUME RoutingInv, NEW q \in Clients, Ends(q), UNCHANGED <<known, created, edits, routed>>,
           NEW m \in Rows(model), NEW row \in ModelRows \cup {NoRow},
           row # NoRow =>
              /\ row.provider = model[m].provider
              /\ row.default => model[m].default
              /\ row.fallback => model[m].fallback
              /\ row.default \/ row.fallback => row.capable,
           model' = [model EXCEPT ![m] = row],
           provider' = SyncProvider(provider, model', model[m].provider)
    PROVE  RoutingInv'
<1> DEFINE p == model[m].provider
<1>1. /\ m \in Models /\ p \in Providers /\ provider[p] \in ProviderRows
      /\ model \in ModelTables /\ provider \in ProviderTables /\ model[m] # NoRow
  BY RowIsTyped DEF RoutingInv, TablesOK, Rows
<1>2. /\ model' \in ModelTables /\ model'[m] = row
      /\ \A k \in Models \ {m} : model'[k] = model[k]
  BY <1>1 DEF ModelTables
<1>3. [provider EXCEPT ![p] = provider[p]] = provider
  BY <1>1 DEF ProviderTables
<1>4. \A k \in Models : model[k] # model'[k] =>
         /\ model[k] = NoRow \/ model[k].provider = p
         /\ model'[k] = NoRow \/ model'[k].provider = p
  BY <1>1, <1>2
<1>5. \A k \in Rows(model') :
         /\ k \in Rows(model)
         /\ model'[k].default => model[k] # NoRow /\ model[k].default
         /\ model'[k].fallback => model[k] # NoRow /\ model[k].fallback
         /\ model'[k].default \/ model'[k].fallback => model'[k].capable
  BY <1>1, <1>2 DEF Rows, ModelTables, RoutingInv, TablesOK, RoutesWork
<1>6. \A k \in ModelsOf(model', p) : model'[k].default \/ model'[k].fallback =>
         model'[k].capable /\ provider[p].enabled
  <2> SUFFICES ASSUME NEW k \in ModelsOf(model', p), model'[k].default \/ model'[k].fallback
               PROVE  provider[p].enabled
    BY <1>5 DEF ModelsOf
  <2>1. k \in Rows(model) /\ (model[k].default \/ model[k].fallback)
    BY <1>5 DEF ModelsOf
  <2>2. model[k].provider = p
    BY <1>1, <1>2 DEF ModelsOf, Rows, ModelTables
  <2> QED
    BY <2>1, <2>2 DEF RoutingInv, TablesOK, RoutesWork
<1>7. TablesOK(SyncProvider([provider EXCEPT ![p] = provider[p]], model', p), model')
  <2>1. \A k \in Rows(model') : /\ model'[k].default => model[k] # NoRow /\ model[k].default
                                /\ model'[k].fallback => model[k] # NoRow /\ model[k].fallback
    BY <1>5
  <2>2. TablesOK(provider, model)
    BY DEF RoutingInv
  <2> DEFINE own == provider[p]
  <2>3. p \in Providers /\ own \in ProviderRows /\ model' \in ModelTables
        /\ Confined(model, model', p, own.enabled)
    BY <1>1, <1>2, <1>4, <1>6, <2>1 DEF Confined
  <2> HIDE DEF p, own
  <2>4. TablesOK(SyncProvider([provider EXCEPT ![p] = own], model', p), model')
    BY <2>2, <2>3, OneProviderChanges
  <2> QED
    BY <2>4 DEF own
<1>8. TablesOK(provider', model')
  BY <1>3, <1>7
<1>9. Rows(provider') \subseteq Rows(provider)
  <2>1. p \in Rows(provider)
    BY <1>1, RoutingAssumption DEF Rows, ProviderTables
  <2>2. DOMAIN provider' = Providers /\ \A k \in Providers \ {p} : provider'[k] = provider[k]
    BY <1>1 DEF SyncProvider, ProviderTables
  <2> QED
    BY <1>1, <2>1, <2>2 DEF Rows, ProviderTables
<1>10. \A k \in Models : model'[k] # NoRow =>
          model[k] # NoRow /\ model'[k].provider = model[k].provider
  BY <1>1, <1>2
<1>11. KeepsParents /\ CountersOK'
  BY <1>8, <1>9, <1>10, WriteKeeps DEF RoutingInv, CountersOK
<1> QED
  BY <1>8, <1>11, EndsKeeps DEF RoutingInv

LEMMA ModelWritten ==
    ASSUME RoutingInv, NEW q \in Clients, WriteModel(q)
    PROVE  RoutingInv'
<1> DEFINE e == edit[q]
<1>1. e.op = "write model" /\ model[e.m] # NoRow /\ EditOK(e, model, created)
  BY DEF WriteModel, Doing, RoutingInv, EditsOK
<1>2. e.m \in Models /\ e.name \in Names /\ e.enabled \in BOOLEAN /\ model[e.m].provider = e.p
  BY <1>1 DEF EditOK
<1>3. e.m \in Rows(model)
  BY <1>1, <1>2 DEF RoutingInv, TablesOK, ModelTables, Rows
<1> DEFINE named == [model[e.m] EXCEPT !.name = e.name, !.enabled = e.enabled]
<1> DEFINE row == IF e.renamed THEN Unproven(named) ELSE named
<1>4. named \in ModelRows /\ Unproven(named) \in ModelRows
  BY <1>2, <1>3, RowIsTyped DEF ModelRows, Unproven, NoRoute
<1>5. /\ row \in ModelRows /\ row.provider = model[e.m].provider
      /\ row.default => model[e.m].default
      /\ row.fallback => model[e.m].fallback
      /\ row.default \/ row.fallback => row.capable
  BY <1>2, <1>3, <1>4, RowIsTyped
  DEF ModelRows, Unproven, NoRoute, RoutingInv, TablesOK, RoutesWork
<1>6. /\ model' = [model EXCEPT ![e.m] = row]
      /\ provider' = SyncProvider(provider, model', model[e.m].provider)
      /\ Ends(q) /\ UNCHANGED <<known, created, edits, routed>>
  BY <1>2 DEF WriteModel
<1> HIDE DEF row, e
<1> QED
  BY <1>3, <1>5, <1>6, OneModelChanges

LEMMA ModelDeleted ==
    ASSUME RoutingInv, NEW q \in Clients, DeleteModel(q)
    PROVE  RoutingInv'
<1> DEFINE e == edit[q]
<1>1. e.op = "delete model" /\ model[e.m] # NoRow /\ EditOK(e, model, created)
  BY DEF DeleteModel, Doing, RoutingInv, EditsOK
<1>2. e.m \in Models /\ model[e.m].provider = e.p
  BY <1>1 DEF EditOK
<1>3. e.m \in Rows(model)
  BY <1>1, <1>2 DEF RoutingInv, TablesOK, ModelTables, Rows
<1>4. /\ model' = [model EXCEPT ![e.m] = NoRow]
      /\ provider' = SyncProvider(provider, model', model[e.m].provider)
      /\ Ends(q) /\ UNCHANGED <<known, created, edits, routed>>
  BY <1>2 DEF DeleteModel
<1> HIDE DEF e
<1> QED
  BY <1>3, <1>4, OneModelChanges

LEMMA ProbeSaved ==
    ASSUME RoutingInv, NEW q \in Clients, SaveModelProbe(q)
    PROVE  RoutingInv'
<1> DEFINE m == edit[q].m
<1>1. edit[q].op = "save probe" /\ model[m] # NoRow /\ EditOK(edit[q], model, created)
  BY DEF SaveModelProbe, Doing, RoutingInv, EditsOK
<1>2. m \in Rows(model)
  BY <1>1 DEF EditOK, RoutingInv, TablesOK, ModelTables, Rows
<1>3. PICK able \in BOOLEAN :
         model' = [model EXCEPT ![m] = IF able THEN [@ EXCEPT !.capable = TRUE] ELSE Unproven(@)]
  BY DEF SaveModelProbe
<1> DEFINE row == IF able THEN [model[m] EXCEPT !.capable = TRUE] ELSE Unproven(model[m])
<1>4. /\ row \in ModelRows /\ row.provider = model[m].provider
      /\ row.default => model[m].default
      /\ row.fallback => model[m].fallback
      /\ row.default \/ row.fallback => row.capable
  BY <1>2, RowIsTyped DEF ModelRows, Unproven, NoRoute
<1>5. model' = [model EXCEPT ![m] = row]
  BY <1>3
<1>6. /\ provider' = SyncProvider(provider, model', model[m].provider)
      /\ Ends(q) /\ UNCHANGED <<known, created, edits, routed>>
  BY DEF SaveModelProbe
<1> HIDE DEF row, m
<1> QED
  BY <1>2, <1>4, <1>5, <1>6, OneModelChanges

LEMMA ProviderWritten ==
    ASSUME RoutingInv, NEW q \in Clients, WriteProvider(q)
    PROVE  RoutingInv'
<1> DEFINE e == edit[q]
<1> DEFINE p == e.p
<1> DEFINE row == [provider[p] EXCEPT !.address = e.address, !.enabled = e.enabled]
<1>1. /\ e.op = "write provider" /\ provider[p] # NoRow /\ EditOK(e, model, created)
      /\ model' = IF e.moved \/ ~ e.enabled THEN Withdrawn(model, p, e.moved) ELSE model
      /\ provider' = SyncProvider([provider EXCEPT ![p].address = e.address, ![p].enabled = e.enabled],
                                  model', p)
      /\ UNCHANGED <<known, created, edits, routed>>
  BY DEF WriteProvider, Doing, RoutingInv, EditsOK
<1>2. /\ p \in Providers /\ e.address \in Addresses /\ e.enabled \in BOOLEAN
      /\ e.moved \in BOOLEAN /\ e.on \in BOOLEAN /\ e.name # None => e.name \in Names
      /\ e.first # None => e.first \in Models /\ e.first <= created
  BY <1>1 DEF EditOK
<1>3. provider \in ProviderTables /\ model \in ModelTables /\ provider[p] \in ProviderRows
  BY <1>1, <1>2 DEF RoutingInv, TablesOK, ProviderTables
<1>4. row \in ProviderRows /\ row.enabled = e.enabled
  BY <1>2, <1>3 DEF ProviderRows
<1>5. [provider EXCEPT ![p].address = e.address, ![p].enabled = e.enabled]
        = [provider EXCEPT ![p] = row]
  BY <1>2, <1>3 DEF ProviderTables
<1>6. \A m \in Models :
         \/ model'[m] = model[m] /\ (m \in ModelsOf(model, p) => e.enabled)
         \/ /\ m \in ModelsOf(model, p)
            /\ model'[m] = NoRoute(model[m]) \/ model'[m] = Unproven(model[m])
  BY <1>1, <1>2, <1>3 DEF Withdrawn, ModelTables
<1>7. model' \in [Models -> ModelRows \cup {NoRow}]
  <2>1. DOMAIN model' = Models /\ model' = [m \in Models |-> model'[m]]
    BY <1>1, <1>3 DEF Withdrawn, ModelTables
  <2>2. \A m \in ModelsOf(model, p) : NoRoute(model[m]) \in ModelRows /\ Unproven(model[m]) \in ModelRows
    BY <1>3 DEF ModelsOf, Rows, ModelTables, ModelRows, NoRoute, Unproven
  <2> QED
    BY <1>3, <1>6, <2>1, <2>2 DEF ModelTables
<1>8. \A m \in ModelsOf(model, p) :
         LET less == {NoRoute(model[m]), Unproven(model[m])}
         IN  \A r \in less : /\ r \in ModelRows /\ r # NoRow /\ r.provider = p
                             /\ ~ r.default /\ ~ r.fallback
  <2> SUFFICES ASSUME NEW m \in ModelsOf(model, p),
                      NEW r \in {NoRoute(model[m]), Unproven(model[m])}
               PROVE  /\ r \in ModelRows /\ r # NoRow /\ r.provider = p
                      /\ ~ r.default /\ ~ r.fallback
    OBVIOUS
  <2>1. model[m] \in ModelRows /\ model[m].provider = p
    BY <1>3 DEF ModelsOf, Rows, ModelTables
  <2>2. r \in ModelRows /\ r.provider = p /\ ~ r.default /\ ~ r.fallback
    BY <2>1 DEF ModelRows, NoRoute, Unproven
  <2> QED
    BY <2>2, RoutingAssumption
<1>9. Confined(model, model', p, row.enabled)
  BY <1>3, <1>4, <1>6, <1>7, <1>8 DEF Confined, ModelsOf, Rows, ModelTables, RoutingInv, TablesOK, RoutesWork
<1>10. TablesOK(provider', model')
  <2>1. TablesOK(provider, model) /\ model' \in ModelTables
    BY <1>7 DEF RoutingInv, ModelTables
  <2>2. provider' = SyncProvider([provider EXCEPT ![p] = row], model', p)
    BY <1>1, <1>5
  <2> HIDE DEF row, p, e
  <2>3. TablesOK(SyncProvider([provider EXCEPT ![p] = row], model', p), model')
    BY <1>2, <1>4, <1>9, <2>1, OneProviderChanges
  <2> QED
    BY <2>2, <2>3
<1>11. Rows(provider') \subseteq Rows(provider)
  BY <1>1, <1>2, <1>3 DEF SyncProvider, Rows, ProviderTables
<1>12. \A m \in Models : model'[m] # NoRow =>
          model[m] # NoRow /\ model'[m].provider = model[m].provider
  BY <1>3, <1>6, <1>8 DEF ModelsOf, Rows, ModelTables
<1>13. KeepsParents /\ CountersOK'
  BY <1>1, <1>10, <1>11, <1>12, WriteKeeps DEF RoutingInv, CountersOK
<1>14. EditsOK'
  <2>1. CASE None \in {e.name, e.first}
    <3>1. Ends(q)
      BY <2>1 DEF WriteProvider
    <3> QED
      BY <1>13, <3>1, EndsKeeps DEF RoutingInv
  <2>2. CASE None \notin {e.name, e.first}
    <3> DEFINE next == [op |-> "read model", m |-> e.first, name |-> e.name, enabled |-> e.on]
    <3>1. edit' = [edit EXCEPT ![q] = next]
      BY <2>2 DEF WriteProvider
    <3>2. EditOK(next, model', created')
      BY <1>1, <1>2, <2>2 DEF EditOK
    <3> HIDE DEF next
    <3>3. DOMAIN edit' = Clients /\ edit'[q] = next /\ \A r \in Clients \ {q} : edit'[r] = edit[r]
      BY <3>1 DEF RoutingInv, EditsOK
    <3> QED
      BY <1>13, <3>2, <3>3, OneEditChanges DEF RoutingInv
  <2> QED
    BY <2>1, <2>2
<1> QED
  BY <1>10, <1>13, <1>14 DEF RoutingInv

LEMMA ProviderDeleted ==
    ASSUME RoutingInv, NEW q \in Clients, DeleteProvider(q)
    PROVE  RoutingInv'
<1> DEFINE p == edit[q].p
<1>1. /\ provider[p] # NoRow /\ provider' = [provider EXCEPT ![p] = NoRow]
      /\ model' = [m \in DOMAIN model |-> IF m \in ModelsOf(model, p) THEN NoRow ELSE model[m]]
      /\ Ends(q) /\ UNCHANGED <<known, created, edits, routed>>
      /\ EditOK(edit[q], model, created) /\ edit[q].op = "delete provider"
  BY DEF DeleteProvider, Doing, RoutingInv, EditsOK
<1>2. p \in Providers /\ provider \in ProviderTables /\ model \in ModelTables
  BY <1>1 DEF EditOK, RoutingInv, TablesOK
<1> HIDE DEF p
<1>3. provider' \in ProviderTables /\ model' \in ModelTables
  BY <1>1, <1>2 DEF ProviderTables, ModelTables
<1>4. Rows(provider') = Rows(provider) \ {p}
  BY <1>1, <1>2 DEF Rows, ProviderTables
<1>5. \A m \in Rows(model') : /\ m \in Rows(model) /\ model'[m] = model[m]
                              /\ model[m].provider # p
  BY <1>1, <1>2 DEF Rows, ModelTables, ModelsOf
<1>6. \A m \in Rows(model') : model[m].provider \in Providers
  BY <1>5, RowIsTyped
<1>7. RoutesUnique(model') /\ ParentsExist(provider', model') /\ RoutesWork(provider', model')
  BY <1>1, <1>2, <1>5, <1>6, ZenonT(60)
  DEF RoutingInv, TablesOK, RoutesUnique, ParentsExist, RoutesWork, ProviderTables
<1>8. MirrorsExact(provider', model')
  <2> SUFFICES ASSUME NEW r \in Rows(provider') PROVE provider'[r].shown = MirrorOf(model', r)
    BY DEF MirrorsExact
  <2>1. r \in Rows(provider) /\ r # p /\ provider'[r] = provider[r]
    BY <1>1, <1>2, <1>4 DEF Rows, ProviderTables
  <2>2. ModelsOf(model, r) = ModelsOf(model', r) /\ \A m \in ModelsOf(model, r) : model[m] = model'[m]
    BY <1>1, <1>2, <2>1 DEF ModelsOf, Rows, ModelTables
  <2>3. MirrorOf(model, r) = MirrorOf(model', r)
    BY <1>2, <1>3, <2>2, MirrorIsLocal
  <2> QED
    BY <2>1, <2>3 DEF RoutingInv, TablesOK, MirrorsExact
<1>9. TablesOK(provider', model')
  BY <1>3, <1>7, <1>8 DEF TablesOK
<1>10. \A m \in Models : model'[m] # NoRow =>
          model[m] # NoRow /\ model'[m].provider = model[m].provider
  BY <1>1, <1>2 DEF ModelTables
<1>11. KeepsParents /\ CountersOK'
  BY <1>1, <1>4, <1>9, <1>10, WriteKeeps DEF RoutingInv, CountersOK
<1> QED
  BY <1>1, <1>9, <1>11, EndsKeeps DEF RoutingInv

LEMMA RoutesSet ==
    ASSUME RoutingInv, NEW q \in Clients, SetRouting(q)
    PROVE  RoutingInv'
<1> DEFINE e == edit[q]
<1> DEFINE ns == Routed(e)
<1>1. Routable(e) /\ Ends(q) /\ UNCHANGED <<known, created, edits>>
  BY DEF SetRouting
<1>2. provider \in ProviderTables /\ model \in ModelTables
  BY DEF RoutingInv, TablesOK
<1>3. CASE model' = ns /\ provider' = SyncAll(provider, ns) /\ routed' = "done"
  <2>1. \A m \in Models :
           /\ model[m] = NoRow <=> ns[m] = NoRow
           /\ ns[m] # NoRow =>
                /\ ns[m] \in ModelRows /\ ns[m].provider = model[m].provider
                /\ ns[m].capable = model[m].capable
                /\ ns[m].default => m = e.default
                /\ ns[m].fallback => m = e.fallback /\ m # e.default
    <3> SUFFICES ASSUME NEW m \in Models
                 PROVE  /\ model[m] = NoRow <=> ns[m] = NoRow
                        /\ ns[m] # NoRow =>
                             /\ ns[m] \in ModelRows /\ ns[m].provider = model[m].provider
                             /\ ns[m].capable = model[m].capable
                             /\ ns[m].default => m = e.default
                             /\ ns[m].fallback => m = e.fallback /\ m # e.default
      OBVIOUS
    <3> DEFINE clear == ClearRouting(model)
    <3>1. ns[m] = IF m = e.default THEN [clear[m] EXCEPT !.default = TRUE]
                  ELSE IF m = e.fallback THEN [clear[m] EXCEPT !.fallback = TRUE] ELSE clear[m]
      BY <1>2 DEF Routed, ModelTables
    <3>2. m \in {e.default, e.fallback} => model[m] # NoRow
      BY <1>1, RoutingAssumption DEF Routable, Usable
    <3>3. clear[m] = IF model[m] = NoRow THEN NoRow ELSE NoRoute(model[m])
      BY <1>2 DEF ClearRouting, ModelTables
    <3>4. CASE model[m] = NoRow
      BY <3>1, <3>2, <3>3, <3>4
    <3>5. CASE model[m] # NoRow
      <4>1. model[m] \in ModelRows /\ clear[m] = NoRoute(model[m])
        BY <1>2, <3>3, <3>5 DEF ModelTables
      <4> HIDE DEF e, clear
      <4>2. /\ clear[m] \in ModelRows /\ ~ clear[m].default /\ ~ clear[m].fallback
            /\ clear[m].provider = model[m].provider /\ clear[m].capable = model[m].capable
        BY <4>1 DEF NoRoute, ModelRows
      <4>3. /\ ns[m] \in ModelRows /\ ns[m].provider = model[m].provider
            /\ ns[m].capable = model[m].capable
            /\ ns[m].default => m = e.default
            /\ ns[m].fallback => m = e.fallback /\ m # e.default
        BY <3>1, <4>2 DEF ModelRows
      <4> QED
        BY <3>5, <4>3, RoutingAssumption
    <3> QED
      BY <3>4, <3>5
  <2>2. DOMAIN ns = Models /\ ns = [m \in Models |-> ns[m]]
    BY <1>2 DEF Routed, ModelTables
  <2> HIDE DEF ns, e
  <2>3. ns \in ModelTables
    <3>1. \A m \in Models : ns[m] \in ModelRows \cup {NoRow}
      BY <2>1
    <3> QED
      BY <2>2, <3>1 DEF ModelTables
  <2>4. \A m \in Rows(ns) :
           /\ m \in Models /\ m \in Rows(model)
           /\ ns[m] \in ModelRows /\ ns[m].provider = model[m].provider
           /\ ns[m].capable = model[m].capable
           /\ ns[m].default => m = e.default
           /\ ns[m].fallback => m = e.fallback /\ m # e.default
    BY <1>2, <2>1, <2>2 DEF Rows, ModelTables
  <2>5. RoutesUnique(ns)
    BY <2>4 DEF RoutesUnique
  <2>6. \A p \in Providers : provider[p] # NoRow =>
           /\ provider'[p] \in ProviderRows /\ provider'[p].enabled = provider[p].enabled
           /\ provider'[p].shown = MirrorOf(ns, p)
    <3> SUFFICES ASSUME NEW p \in Providers, provider[p] # NoRow
                 PROVE  /\ provider'[p] \in ProviderRows
                        /\ provider'[p].enabled = provider[p].enabled
                        /\ provider'[p].shown = MirrorOf(ns, p)
      OBVIOUS
    <3>1. provider[p] \in ProviderRows
      BY <1>2 DEF ProviderTables
    <3>2. provider'[p] = [provider[p] EXCEPT !.shown = MirrorOf(ns, p)]
      BY <1>2, <1>3 DEF SyncAll, SyncProvider, ProviderTables
    <3> QED
      BY <2>3, <3>1, <3>2, MirrorType DEF ProviderRows
  <2>7. /\ provider' \in ProviderTables
        /\ \A p \in Providers : provider[p] = NoRow => provider'[p] = NoRow
    <3>1. \A p \in Providers : provider[p] = NoRow => provider'[p] = NoRow
      BY <1>3 DEF SyncAll
    <3>2. DOMAIN provider' = Providers /\ provider' = [p \in Providers |-> provider'[p]]
      BY <1>3 DEF SyncAll
    <3> QED
      BY <2>6, <3>1, <3>2 DEF ProviderTables
  <2>8. ParentsExist(provider', ns)
    <3> SUFFICES ASSUME NEW m \in Rows(ns) PROVE provider'[ns[m].provider] # NoRow
      BY DEF ParentsExist
    <3>1. model[m].provider \in Providers /\ provider[model[m].provider] # NoRow
      BY <2>4, RowIsTyped DEF RoutingInv, TablesOK, ParentsExist
    <3>2. provider'[model[m].provider] \in ProviderRows
      BY <2>6, <3>1
    <3> QED
      BY <2>4, <3>2, RoutingAssumption
  <2>9. RoutesWork(provider', ns)
    <3> SUFFICES ASSUME NEW m \in Rows(ns), ns[m].default \/ ns[m].fallback
                 PROVE  ns[m].capable /\ provider'[ns[m].provider].enabled
      BY DEF RoutesWork
    <3>1. m \in Models /\ m \in {e.default, e.fallback} /\ ns[m].provider = model[m].provider
          /\ ns[m].capable = model[m].capable /\ m \in Rows(model)
      BY <2>4
    <3>2. Usable(provider, model, m)
      BY <1>1, <3>1, RoutingAssumption DEF Routable
    <3>3. model[m].provider \in Providers /\ provider[model[m].provider] # NoRow
      BY <3>1, RowIsTyped DEF RoutingInv, TablesOK, ParentsExist
    <3> QED
      BY <2>6, <3>1, <3>2, <3>3 DEF Usable
  <2>10. MirrorsExact(provider', ns) /\ Rows(provider') \subseteq Rows(provider)
    BY <1>2, <2>6, <2>7 DEF MirrorsExact, Rows, ProviderTables
  <2>11. TablesOK(provider', model')
    BY <1>3, <2>3, <2>5, <2>7, <2>8, <2>9, <2>10 DEF TablesOK
  <2>12. KeepsParents /\ CountersOK'
    <3>1. \A m \in Models : model'[m] # NoRow =>
             model[m] # NoRow /\ model'[m].provider = model[m].provider
      BY <1>3, <2>1 DEF ns
    <3> QED
      BY <1>1, <1>3, <2>10, <2>11, <3>1, WriteKeeps
  <2> QED
    BY <1>1, <2>11, <2>12, EndsKeeps DEF RoutingInv
<1>4. CASE UNCHANGED <<model, provider>> /\ routed' = "refused"
  <2>1. KeepsParents /\ CountersOK'
    BY <1>1, <1>4 DEF KeepsParents, RoutingInv, CountersOK
  <2> QED
    BY <1>1, <1>4, <2>1, EndsKeeps DEF RoutingInv
<1> QED
  BY <1>3, <1>4 DEF SetRouting

-----------------------------------------------------------------------------
(* The theorem                                                             *)

\* Every step keeps the invariant.
LEMMA RoutingStep == RoutingInv /\ [RoutingNext]_routingVars => RoutingInv'
<1> SUFFICES ASSUME RoutingInv, [RoutingNext]_routingVars PROVE RoutingInv'
  OBVIOUS
<1>1. CASE \E p \in Providers : \E n \in Names \cup {None} : CreateProvider(p, n)
  BY <1>1, ProviderCreation
<1>2. CASE \E p \in Providers : \E n \in Names, on \in BOOLEAN : ImportModel(p, n, on)
  BY <1>2, ModelImport
<1>3. CASE \E q \in Clients : \E p \in Providers : ReadProvider(q, p) \/ CheckProvider(q, p)
  BY <1>3, ProviderRead, ProviderCheck
<1>4. CASE \E q \in Clients : \E m \in Models : CheckModel(q, m) \/ StartProbe(q, m)
  BY <1>4, ModelCheck, ProbeStart
<1>5. CASE \E q \in Clients : \E m \in Rows(model), n \in Names, on \in BOOLEAN :
              AskModel(q, m, n, on)
  BY <1>5, ModelAsked
<1>6. CASE \E q \in Clients : WriteProvider(q) \/ DeleteProvider(q) \/ ReadModel(q) \/ WriteModel(q)
  BY <1>6, ProviderWritten, ProviderDeleted, ModelRead, ModelWritten
<1>7. CASE \E q \in Clients : DeleteModel(q) \/ SaveModelProbe(q) \/ AskRouting(q)
                              \/ SetRouting(q) \/ GiveUp(q)
  BY <1>7, ModelDeleted, ProbeSaved, RoutingAsked, RoutesSet, RequestEnds
<1>8. CASE UNCHANGED routingVars
  <2>1. UNCHANGED <<provider, model, known, created, edit, edits, routed>>
    BY <1>8 DEF routingVars
  <2>2. TablesOK(provider, model)' /\ CountersOK'
    BY <2>1 DEF RoutingInv, CountersOK
  <2>3. EditsOK'
    BY <2>1 DEF RoutingInv, EditsOK
  <2> QED
    BY <2>2, <2>3 DEF RoutingInv
<1> QED
  BY <1>1, <1>2, <1>3, <1>4, <1>5, <1>6, <1>7, <1>8 DEF RoutingNext

\* The invariant holds when the providers have been set up.
LEMMA RoutingStart == RoutingInit => RoutingInv
<1> SUFFICES ASSUME RoutingInit PROVE RoutingInv
  OBVIOUS
<1> DEFINE name == CHOOSE n \in Names : TRUE
<1> DEFINE address == CHOOSE a \in Addresses : TRUE
<1>1. name \in Names /\ address \in Addresses
  BY RoutingAssumption
<1> HIDE DEF name, address
<1>2. /\ AtStart \in Seq(Providers) /\ DOMAIN AtStart = 1 .. Len(AtStart) /\ Len(AtStart) \in Nat
      /\ Range(AtStart) \subseteq Providers
      /\ \A m \in DOMAIN AtStart : AtStart[m] \in Range(AtStart)
  BY RoutingAssumption DEF Range
<1> DEFINE row(m) == [NewModel(AtStart[m], name, TRUE) EXCEPT !.capable = TRUE]
<1>3. \A m \in DOMAIN AtStart :
         /\ row(m) \in ModelRows /\ row(m).provider = AtStart[m]
         /\ row(m).capable /\ ~ row(m).default /\ ~ row(m).fallback
  BY <1>1, <1>2 DEF NewModel, ModelRows
<1>4. model = [m \in Models |-> IF m \notin DOMAIN AtStart THEN NoRow ELSE row(m)]
  BY DEF RoutingInit, name
<1> HIDE DEF row
<1>5. model \in ModelTables
  BY <1>3, <1>4 DEF ModelTables
<1>6. \A m \in Rows(model) : /\ m \in DOMAIN AtStart /\ model[m] = row(m)
  BY <1>4 DEF Rows
<1>7. provider = [p \in Providers |->
         IF p \notin Range(AtStart) THEN NoRow
         ELSE [enabled |-> TRUE, address |-> address, shown |-> MirrorOf(model, p)]]
  BY DEF RoutingInit, address
<1>8. \A p \in Range(AtStart) : provider[p] \in ProviderRows
  BY <1>1, <1>2, <1>5, <1>7, MirrorType DEF ProviderRows
<1>9. provider \in ProviderTables /\ MirrorsExact(provider, model)
  BY <1>2, <1>7, <1>8 DEF ProviderTables, MirrorsExact, Rows
<1>10. RoutesUnique(model) /\ RoutesWork(provider, model)
  BY <1>3, <1>6 DEF RoutesUnique, RoutesWork
<1>11. ParentsExist(provider, model)
  BY <1>2, <1>3, <1>6, <1>8, RoutingAssumption DEF ParentsExist
<1>12. CountersOK
  <2>1. known = Range(AtStart) /\ created = Len(AtStart) /\ edits = 0 /\ routed = "none"
    BY DEF RoutingInit
  <2>2. Rows(model) \subseteq 1 .. created
    BY <1>2, <1>6, <2>1
  <2>3. Rows(provider) \subseteq known
    BY <1>7, <2>1 DEF Rows
  <2>4. edits \in 0 .. MaxEdits
    BY <2>1, RoutingAssumption
  <2> QED
    BY <1>2, <2>1, <2>2, <2>3, <2>4 DEF CountersOK
<1>13. EditsOK
  BY IdleIsOK DEF EditsOK, RoutingInit
<1> QED
  BY <1>5, <1>9, <1>10, <1>11, <1>12, <1>13 DEF RoutingInv, TablesOK

\* Whatever requests overlap between what they read and what they write
\* (store/ai.go:496 to 740), the routing names at most one default and one fallback that
\* work, and the columns kept for older versions say what the models say.
THEOREM RoutingCorrect == RoutingSpec => []RoutingExact
<1>1. RoutingInv => RoutingExact
  BY DEF RoutingInv, TablesOK, CountersOK, RoutingExact, RoutingTypeOK, ProviderTables,
         ModelTables, RoutesUnique, ParentsExist, RoutesWork, MirrorsExact
<1> QED
  BY <1>1, RoutingStart, RoutingStep, PTL DEF RoutingSpec
-----------------------------------------------------------------------------
(* Conversations.  The inductive invariant says of every turn what its row,*)
(* the send that executes it and the models that have spoken in it tell of *)
(* each other, at every stage of the send.                                 *)

TurnSound(x, s, v) ==
    /\ s.at \in {"idle", "start"} => x = NoRow /\ v = {}
    /\ s.at = "start" => s.chat \in Chats /\ s.using \in Models /\ s.stamp = s.using /\ s.reads = 0
    /\ s.at \in {"record", "query"} => s.round < MaxModelCalls
    /\ s.at = "switch" => s.to \in Models /\ s.to # s.using
    /\ x # NoRow =>
          /\ x.actual \in Models /\ v \subseteq {x.actual}
          /\ x.answered \in {None, x.actual}
          /\ x.fallback <=> x.actual # x.requested
          /\ s.at # "over" =>
                /\ s.using = x.actual /\ s.stamp = x.actual
                /\ x.calls = s.reads /\ x.answered = None
          /\ s.at \notin {"fail", "over"} /\ x.calls = 0 => v = {}

OneActiveTurn ==
    \A t, u \in Exchanges : IsActive(t) /\ IsActive(u) /\ exchange[t].chat = exchange[u].chat => t = u

ChatInv ==
    /\ RoutingInv /\ ChatTypeOK /\ OneActiveTurn
    /\ \A t \in Exchanges : TurnSound(exchange[t], send[t], voice[t])

\* Of the rows, the sends and the voices only those of one turn change, and an active row is
\* of a conversation in which no other turn is active.
LEMMA OneTurnMoves ==
    ASSUME ChatInv, UNCHANGED <<routingVars, chat>>,
           cuts' \in 0 .. MaxCuts, restarts' \in 0 .. MaxRestarts,
           NEW t \in Exchanges, NEW x \in TurnRows \cup {NoRow}, NEW s \in SendStates,
           NEW v \in SUBSET Models,
           exchange' = [exchange EXCEPT ![t] = x], send' = [send EXCEPT ![t] = s],
           voice' = [voice EXCEPT ![t] = v],
           TurnSound(x, s, v),
           x # NoRow /\ x.status \in Active =>
              \A u \in Exchanges \ {t} : IsActive(u) => exchange[u].chat # x.chat
    PROVE  ChatInv'
<1>1. RoutingInv'
  <2>1. [RoutingNext]_routingVars
    OBVIOUS
  <2> QED
    BY <2>1, RoutingStep DEF ChatInv
<1>2. ChatTypeOK'
  BY DEF ChatInv, ChatTypeOK
<1>3. exchange'[t] = x /\ \A u \in Exchanges \ {t} : exchange'[u] = exchange[u]
  BY DEF ChatInv, ChatTypeOK
<1>4. OneActiveTurn'
  BY <1>3 DEF ChatInv, OneActiveTurn, IsActive, Exists
<1>5. \A u \in Exchanges : TurnSound(exchange[u], send[u], voice[u])'
  <2> SUFFICES ASSUME NEW u \in Exchanges PROVE TurnSound(exchange'[u], send'[u], voice'[u])
    BY DEF TurnSound
  <2>1. CASE u = t
    BY <2>1 DEF ChatInv, ChatTypeOK
  <2>2. CASE u # t
    <3>1. exchange'[u] = exchange[u] /\ send'[u] = send[u] /\ voice'[u] = voice[u]
      BY <2>2 DEF ChatInv, ChatTypeOK
    <3> QED
      BY <3>1 DEF ChatInv
  <2> QED
    BY <2>1, <2>2
<1> QED
  BY <1>1, <1>2, <1>4, <1>5 DEF ChatInv

\* What the invariant says of one turn
LEMMA TurnParts ==
    ASSUME ChatInv, NEW t \in Exchanges
    PROVE  /\ send[t] \in SendStates /\ exchange[t] \in TurnRows \cup {NoRow}
           /\ voice[t] \in SUBSET Models /\ cuts \in 0 .. MaxCuts /\ restarts \in 0 .. MaxRestarts
           /\ exchange = [exchange EXCEPT ![t] = exchange[t]] /\ voice = [voice EXCEPT ![t] = voice[t]]
           /\ send = [send EXCEPT ![t] = send[t]]
           /\ TurnSound(exchange[t], send[t], voice[t])
           /\ exchange[t] # NoRow /\ exchange[t].status \in Active =>
                 \A u \in Exchanges \ {t} : IsActive(u) => exchange[u].chat # exchange[t].chat
           /\ Rows(model) \subseteq Models
BY DEF ChatInv, ChatTypeOK, OneActiveTurn, IsActive, Exists, RoutingInv, TablesOK, ModelTables, Rows

\* The send moves to another stage and nothing else changes.
LEMMA StageMoves ==
    ASSUME ChatInv, UNCHANGED <<routingVars, chat, exchange, voice, restarts>>,
           cuts' \in 0 .. MaxCuts, NEW t \in Exchanges, NEW stage \in Stages, Goes(t, stage),
           send[t].at \notin {"idle", "fail", "over"}, stage \notin {"idle", "start", "switch"},
           send[t].at = "start" => stage = "over",
           stage \in {"record", "query"} => send[t].round < MaxModelCalls
    PROVE  ChatInv'
<1> DEFINE s == [send[t] EXCEPT !.at = stage]
<1>1. /\ s \in SendStates /\ s.at = stage /\ s.using = send[t].using /\ s.stamp = send[t].stamp
      /\ s.reads = send[t].reads /\ s.round = send[t].round
  BY TurnParts DEF SendStates
<1>2. send' = [send EXCEPT ![t] = s]
  BY DEF Goes
<1> HIDE DEF s
<1>3. TurnSound(exchange[t], s, voice[t])
  BY <1>1, TurnParts DEF TurnSound
<1> DEFINE x == exchange[t]
           v == voice[t]
<1>4. /\ x \in TurnRows \cup {NoRow} /\ v \in SUBSET Models /\ TurnSound(x, s, v)
      /\ exchange' = [exchange EXCEPT ![t] = x] /\ voice' = [voice EXCEPT ![t] = v]
      /\ restarts' \in 0 .. MaxRestarts
      /\ x # NoRow /\ x.status \in Active => \A u \in Exchanges \ {t} : IsActive(u) => exchange[u].chat # x.chat
  BY <1>3, TurnParts
<1> HIDE DEF x, v
<1> QED
  BY <1>1, <1>2, <1>4, OneTurnMoves

\* Conversations are created and given models; turns are untouched.
LEMMA ChatsMove ==
    ASSUME ChatInv, UNCHANGED <<routingVars, exchange, send, voice, cuts, restarts>>,
           NEW c \in Chats, NEW m \in Chosen \cup {NoRow}, chat' = [chat EXCEPT ![c] = m]
    PROVE  ChatInv'
<1>1. RoutingInv'
  <2>1. [RoutingNext]_routingVars
    OBVIOUS
  <2> QED
    BY <2>1, RoutingStep DEF ChatInv
<1>2. ChatTypeOK' /\ OneActiveTurn'
  BY DEF ChatInv, ChatTypeOK, OneActiveTurn, IsActive, Exists
<1> QED
  BY <1>1, <1>2 DEF ChatInv, TurnSound

LEMMA ConversationsEdited ==
    ASSUME ChatInv, NEW c \in Chats, CreateConversation(c) \/ SetConversationModel(c)
    PROVE  ChatInv'
<1>1. Rows(model) \subseteq Models
  BY DEF ChatInv, RoutingInv, TablesOK, ModelTables, Rows
<1>2. PICK m \in Chosen : chat' = [chat EXCEPT ![c] = m]
  BY <1>1 DEF CreateConversation, SetConversationModel, Chosen
<1>3. UNCHANGED <<routingVars, exchange, send, voice, cuts, restarts>>
  BY DEF CreateConversation, SetConversationModel, Others
<1> QED
  BY <1>2, <1>3, ChatsMove

\* DELETE CASCADE: the rows of the turns go with the conversation.
LEMMA ChatDeleted ==
    ASSUME ChatInv, NEW c \in Chats, DeleteChat(c)
    PROVE  ChatInv'
<1>1. UNCHANGED <<routingVars, send, voice, cuts, restarts>>
      /\ chat' = [chat EXCEPT ![c] = NoRow]
      /\ exchange' = [t \in Exchanges |-> IF Exists(t) /\ exchange[t].chat = c THEN NoRow ELSE exchange[t]]
  BY DEF DeleteChat, Others
<1>2. RoutingInv'
  <2>1. [RoutingNext]_routingVars
    BY <1>1
  <2> QED
    BY <2>1, RoutingStep DEF ChatInv
<1>3. \A t \in Exchanges : exchange'[t] \in {NoRow, exchange[t]}
  BY <1>1
<1>4. ChatTypeOK'
  BY <1>1 DEF ChatInv, ChatTypeOK
<1>5. OneActiveTurn'
  BY <1>3 DEF ChatInv, OneActiveTurn, IsActive, Exists
<1>6. \A t \in Exchanges : TurnSound(exchange'[t], send[t], voice[t])
  BY <1>3 DEF ChatInv, TurnSound
<1> QED
  BY <1>1, <1>2, <1>4, <1>5, <1>6 DEF ChatInv, TurnSound

LEMMA TurnBegins ==
    ASSUME ChatInv, NEW t \in Exchanges, NEW c \in Chats, ResolveConversationModel(t, c)
    PROVE  ChatInv'
<1> DEFINE m == Selected(c)
           s == [NoSend EXCEPT !.at = "start", !.chat = c, !.using = m, !.stamp = m]
           x == exchange[t]
           v == voice[t]
<1>1. m \in Models
  BY TurnParts DEF ResolveConversationModel, Selected
<1>2. /\ UNCHANGED <<routingVars, chat, exchange, voice, cuts, restarts>>
      /\ send[t].at = "idle" /\ send' = [send EXCEPT ![t] = s]
  BY DEF ResolveConversationModel, Others, Is
<1> HIDE DEF m
<1>3. s \in SendStates /\ s.at = "start" /\ s.chat = c /\ s.using = m /\ s.stamp = m /\ s.reads = 0
  <2>1. NoSend \in SendStates /\ NoSend.reads = 0
    BY ChatAssumption DEF NoSend, SendStates, Stages, Chosen
  <2> QED
    BY <1>1, <2>1 DEF SendStates, Stages, Chosen
<1>4. x = NoRow /\ v = {}
  BY <1>2, TurnParts DEF TurnSound
<1>5. TurnSound(x, s, v)
  BY <1>1, <1>3, <1>4 DEF TurnSound
<1>6. exchange' = [exchange EXCEPT ![t] = x] /\ voice' = [voice EXCEPT ![t] = v]
      /\ x \in TurnRows \cup {NoRow} /\ v \in SUBSET Models
      /\ cuts' \in 0 .. MaxCuts /\ restarts' \in 0 .. MaxRestarts
  BY <1>2, TurnParts
<1> HIDE DEF s, x, v
<1> QED
  BY <1>2, <1>3, <1>4, <1>5, <1>6, OneTurnMoves

\* The unique index admits the row only when no turn of the conversation is active.
LEMMA ExchangeStarts ==
    ASSUME ChatInv, NEW t \in Exchanges, StartExchange(t)
    PROVE  ChatInv'
<1>1. /\ UNCHANGED <<routingVars, chat, voice, cuts, restarts>> /\ send[t].at = "start"
  BY DEF StartExchange, Others, Is
<1>2. CASE Goes(t, "over") /\ UNCHANGED exchange
  BY <1>1, <1>2, StageMoves, TurnParts DEF Stages
<1>3. CASE /\ ~ \E u \in Exchanges : IsActive(u) /\ exchange[u].chat = send[t].chat
           /\ exchange' = [exchange EXCEPT ![t] =
                 [chat |-> send[t].chat, status |-> "running", actual |-> send[t].using,
                  requested |-> send[t].using, fallback |-> FALSE, calls |-> 0, answered |-> None]]
           /\ Goes(t, "ask")
  <2> DEFINE m == send[t].using
             c == send[t].chat
             s == [send[t] EXCEPT !.at = "ask"]
             x == [chat |-> c, status |-> "running", actual |-> m, requested |-> m,
                   fallback |-> FALSE, calls |-> 0, answered |-> None]
             v == voice[t]
  <2>1. m \in Models /\ c \in Chats /\ send[t].stamp = m /\ send[t].reads = 0 /\ v = {}
    BY <1>1, TurnParts DEF TurnSound
  <2>2. exchange' = [exchange EXCEPT ![t] = x] /\ send' = [send EXCEPT ![t] = s]
    BY <1>3 DEF Goes
  <2>3. s \in SendStates /\ s.at = "ask" /\ s.using = m /\ s.stamp = m /\ s.reads = 0
    BY <2>1, TurnParts DEF SendStates, Stages
  <2> HIDE DEF m, c, s
  <2>4. x \in TurnRows
    BY <2>1, ChatAssumption DEF TurnRows, ExchangeStatus, Active, Chosen
  <2>5. TurnSound(x, s, v)
    BY <2>1, <2>3 DEF TurnSound
  <2>6. x.chat = c /\ \A u \in Exchanges \ {t} : IsActive(u) => exchange[u].chat # c
    BY <1>3 DEF c
  <2>7. voice' = [voice EXCEPT ![t] = v] /\ v \in SUBSET Models
        /\ cuts' \in 0 .. MaxCuts /\ restarts' \in 0 .. MaxRestarts
    BY <1>1, TurnParts
  <2> HIDE DEF x, v
  <2> QED
    BY <1>1, <2>2, <2>3, <2>4, <2>5, <2>6, <2>7, OneTurnMoves
<1> QED
  BY <1>2, <1>3 DEF StartExchange

LEMMA ModelReplies ==
    ASSUME ChatInv, NEW t \in Exchanges, CompleteModel(t)
    PROVE  ChatInv'
<1>1. /\ UNCHANGED <<routingVars, chat, exchange, voice, cuts, restarts>> /\ send[t].at = "ask"
  BY DEF CompleteModel, Others, Is
<1>2. send[t].round \in 0 .. MaxModelCalls
  BY TurnParts DEF SendStates
<1>3. PICK stage \in {"fail", "complete", "plan", "record", "fallback"} :
         Goes(t, stage) /\ (stage = "record" => send[t].round # MaxModelCalls)
  BY DEF CompleteModel
<1>4. stage \in Stages /\ (stage = "record" => send[t].round < MaxModelCalls)
  BY <1>2, <1>3, ChatAssumption DEF Stages
<1>5. cuts' \in 0 .. MaxCuts
  BY <1>1, TurnParts
<1> QED
  BY <1>1, <1>3, <1>4, <1>5, StageMoves

\* The fallback that is looked for is another model than the one that failed.
LEMMA FallbackResolved ==
    ASSUME ChatInv, NEW t \in Exchanges, ResolveFallback(t)
    PROVE  ChatInv'
<1>1. /\ UNCHANGED <<routingVars, chat, exchange, voice, cuts, restarts>> /\ send[t].at = "fallback"
  BY DEF ResolveFallback, Others, Is
<1>2. CASE Goes(t, "fail")
  BY <1>1, <1>2, StageMoves, TurnParts DEF Stages
<1>3. ASSUME NEW m \in Fallbacks(model) \ {send[t].using},
             send' = [send EXCEPT ![t].at = "switch", ![t].to = m]
      PROVE  ChatInv'
  <2> DEFINE s == [send[t] EXCEPT !.at = "switch", !.to = m]
             x == exchange[t]
             v == voice[t]
  <2>1. m \in Models
    BY TurnParts DEF Fallbacks
  <2>2. /\ s \in SendStates /\ s.at = "switch" /\ s.to = m /\ s.using = send[t].using
        /\ s.stamp = send[t].stamp /\ s.reads = send[t].reads
    BY <2>1, TurnParts DEF SendStates, Stages, Chosen
  <2>3. send' = [send EXCEPT ![t] = s]
    BY <1>3, TurnParts DEF ChatInv, ChatTypeOK
  <2> HIDE DEF s
  <2>4. TurnSound(exchange[t], s, voice[t])
    BY <1>1, <1>3, <2>1, <2>2, TurnParts DEF TurnSound
  <2>5. /\ x \in TurnRows \cup {NoRow} /\ v \in SUBSET Models /\ TurnSound(x, s, v)
        /\ exchange' = [exchange EXCEPT ![t] = x] /\ voice' = [voice EXCEPT ![t] = v]
        /\ cuts' \in 0 .. MaxCuts /\ restarts' \in 0 .. MaxRestarts
        /\ x # NoRow /\ x.status \in Active => \A u \in Exchanges \ {t} : IsActive(u) => exchange[u].chat # x.chat
    BY <1>1, <2>4, TurnParts
  <2> HIDE DEF x, v
  <2> QED
    BY <1>1, <2>2, <2>3, <2>5, OneTurnMoves
<1> QED
  BY <1>2, <1>3 DEF ResolveFallback

\* A send that gets an empty row back is over.
LEMMA TurnLost ==
    ASSUME ChatInv, UNCHANGED <<routingVars, chat, exchange, voice, restarts>>,
           cuts' \in 0 .. MaxCuts, NEW t \in Exchanges, send[t].at = "switch", Lost(t)
    PROVE  ChatInv'
<1> DEFINE s == [send[t] EXCEPT !.at = "over", !.stamp = None]
           x == exchange[t]
           v == voice[t]
<1>1. s \in SendStates /\ s.at = "over"
  BY TurnParts DEF SendStates, Stages, Chosen
<1>2. send' = [send EXCEPT ![t] = s]
  BY TurnParts DEF Lost, ChatInv, ChatTypeOK
<1> HIDE DEF s
<1>3. TurnSound(exchange[t], s, voice[t])
  BY <1>1, TurnParts DEF TurnSound
<1>4. /\ x \in TurnRows \cup {NoRow} /\ v \in SUBSET Models /\ TurnSound(x, s, v)
      /\ exchange' = [exchange EXCEPT ![t] = x] /\ voice' = [voice EXCEPT ![t] = v]
      /\ restarts' \in 0 .. MaxRestarts
      /\ x # NoRow /\ x.status \in Active => \A u \in Exchanges \ {t} : IsActive(u) => exchange[u].chat # x.chat
  BY <1>3, TurnParts
<1> HIDE DEF x, v
<1> QED
  BY <1>1, <1>2, <1>4, OneTurnMoves

\* Only a turn in which nothing was recorded changes its model.
LEMMA ModelSwitched ==
    ASSUME ChatInv, NEW t \in Exchanges, SwitchTurnModel(t)
    PROVE  ChatInv'
<1>1. /\ UNCHANGED <<routingVars, chat, voice, cuts, restarts>> /\ send[t].at = "switch"
  BY DEF SwitchTurnModel, Others, Is
<1>2. CASE Lost(t) /\ UNCHANGED exchange
  BY <1>1, <1>2, TurnLost, TurnParts
<1>3. CASE /\ CanSwitch(t)
           /\ exchange' = [exchange EXCEPT ![t].actual = send[t].to, ![t].fallback = TRUE]
           /\ send' = [send EXCEPT ![t] = Adopted(@)]
  <2> DEFINE m == send[t].to
             s == [send[t] EXCEPT !.at = "ask", !.using = m, !.stamp = m, !.round = 1]
             x == [exchange[t] EXCEPT !.actual = m, !.fallback = TRUE]
             v == voice[t]
  <2>1. /\ m \in Models /\ m # send[t].using /\ exchange[t] # NoRow /\ v = {}
        /\ exchange[t].actual = send[t].using /\ exchange[t].requested = send[t].using
        /\ exchange[t].calls = send[t].reads /\ exchange[t].answered = None
        /\ exchange[t] \in TurnRows
    BY <1>1, <1>3, TurnParts DEF TurnSound, CanSwitch, Exists, TurnRows
  <2>2. send' = [send EXCEPT ![t] = s] /\ exchange' = [exchange EXCEPT ![t] = x]
    BY <1>3, <2>1, TurnParts DEF Adopted, ChatInv, ChatTypeOK
  <2>3. /\ s \in SendStates /\ s.at = "ask" /\ s.using = m /\ s.stamp = m
        /\ s.reads = send[t].reads
    <3>1. send[t] \in SendStates /\ m \in Chosen /\ 1 \in 0 .. MaxModelCalls /\ "ask" \in Stages
      BY <2>1, TurnParts, ChatAssumption DEF Stages, Chosen
    <3> HIDE DEF m
    <3> QED
      BY <3>1 DEF SendStates
  <2>4. /\ x \in TurnRows /\ x.actual = m /\ x.fallback = TRUE /\ x.requested = send[t].using
        /\ x.calls = send[t].reads /\ x.answered = None
        /\ x.status = exchange[t].status /\ x.chat = exchange[t].chat
    BY <2>1 DEF TurnRows, Chosen
  <2> HIDE DEF m, s, x
  <2>5. TurnSound(x, s, v)
    BY <2>1, <2>3, <2>4 DEF TurnSound
  <2>6. /\ v \in SUBSET Models /\ voice' = [voice EXCEPT ![t] = v]
        /\ cuts' \in 0 .. MaxCuts /\ restarts' \in 0 .. MaxRestarts
        /\ x # NoRow /\ x.status \in Active => \A u \in Exchanges \ {t} : IsActive(u) => exchange[u].chat # x.chat
    BY <1>1, <2>1, <2>4, TurnParts
  <2> HIDE DEF v
  <2> QED
    BY <1>1, <2>2, <2>3, <2>4, <2>5, <2>6, OneTurnMoves
<1> QED
  BY <1>2, <1>3 DEF SwitchTurnModel

\* A tool call is recorded with the model that the row names.
LEMMA ToolCallRecorded ==
    ASSUME ChatInv, NEW t \in Exchanges, CreateToolCall(t)
    PROVE  ChatInv'
<1>1. /\ UNCHANGED <<routingVars, chat, cuts, restarts>> /\ send[t].at = "record"
  BY DEF CreateToolCall, Others, Is
<1>2. CASE Goes(t, "fail") /\ UNCHANGED <<exchange, voice>>
  BY <1>1, <1>2, StageMoves, TurnParts DEF Stages
<1>3. CASE /\ Exists(t) /\ send[t].reads < MaxReads
           /\ exchange' = [exchange EXCEPT ![t].calls = @ + 1]
           /\ send' = [send EXCEPT ![t].at = "query", ![t].reads = @ + 1]
           /\ voice' = [voice EXCEPT ![t] = @ \cup {send[t].using}]
  <2> DEFINE n == send[t].reads + 1
             m == send[t].using
             s == [send[t] EXCEPT !.at = "query", !.reads = n]
             x == [exchange[t] EXCEPT !.calls = n]
             v == voice[t] \cup {m}
  <2>1. /\ exchange[t] # NoRow /\ exchange[t].actual = m /\ m \in Models
        /\ exchange[t].calls = send[t].reads /\ exchange[t].answered = None
        /\ send[t].stamp = m /\ voice[t] \subseteq {m} /\ exchange[t] \in TurnRows
        /\ send[t].round < MaxModelCalls
        /\ (exchange[t].fallback <=> m # exchange[t].requested)
    BY <1>1, <1>3, TurnParts DEF TurnSound, Exists
  <2>2. n \in 0 .. MaxReads /\ n # 0
    <3>1. send[t].reads \in 0 .. MaxReads /\ MaxReads \in Nat
      BY TurnParts, ChatAssumption DEF SendStates
    <3> QED
      BY <1>3, <3>1
  <2>3. /\ send' = [send EXCEPT ![t] = s] /\ exchange' = [exchange EXCEPT ![t] = x]
        /\ voice' = [voice EXCEPT ![t] = v]
    BY <1>3, <2>1, TurnParts DEF ChatInv, ChatTypeOK
  <2>4. /\ s \in SendStates /\ s.at = "query" /\ s.using = m /\ s.stamp = m
        /\ s.reads = n /\ s.round = send[t].round
    BY <2>1, <2>2, TurnParts DEF SendStates, Stages
  <2>5. /\ x \in TurnRows /\ x.actual = m /\ x.calls = n /\ x.answered = None
        /\ x.status = exchange[t].status /\ x.chat = exchange[t].chat
        /\ x.fallback = exchange[t].fallback /\ x.requested = exchange[t].requested
    BY <2>1, <2>2 DEF TurnRows
  <2>6. v \in SUBSET Models /\ v \subseteq {m}
    BY <2>1, TurnParts
  <2> HIDE DEF n, m, s, x, v
  <2>7. TurnSound(x, s, v)
    BY <2>1, <2>2, <2>4, <2>5, <2>6 DEF TurnSound
  <2>8. /\ cuts' \in 0 .. MaxCuts /\ restarts' \in 0 .. MaxRestarts
        /\ x # NoRow /\ x.status \in Active => \A u \in Exchanges \ {t} : IsActive(u) => exchange[u].chat # x.chat
    BY <1>1, <2>1, <2>5, TurnParts
  <2> QED
    BY <1>1, <2>3, <2>4, <2>5, <2>6, <2>7, <2>8, OneTurnMoves
<1> QED
  BY <1>2, <1>3 DEF CreateToolCall

LEMMA ToolAnswers ==
    ASSUME ChatInv, NEW t \in Exchanges, Queried(t)
    PROVE  ChatInv'
<1>1. /\ UNCHANGED <<routingVars, chat, exchange, voice, cuts, restarts>> /\ send[t].at = "query"
  BY DEF Queried, Others, Is
<1>2. send[t].round < MaxModelCalls
  BY <1>1, TurnParts DEF TurnSound
<1>3. CASE Goes(t, "fail") \/ Goes(t, "record")
  BY <1>1, <1>2, <1>3, StageMoves, TurnParts DEF Stages
<1>4. CASE send' = [send EXCEPT ![t].at = "ask", ![t].round = @ + 1]
  <2> DEFINE n == send[t].round + 1
             s == [send[t] EXCEPT !.at = "ask", !.round = n]
             x == exchange[t]
             v == voice[t]
  <2>1. n \in 0 .. MaxModelCalls
    BY <1>2, TurnParts, ChatAssumption DEF SendStates
  <2>2. send' = [send EXCEPT ![t] = s]
    BY <1>4, TurnParts DEF ChatInv, ChatTypeOK
  <2>3. /\ s \in SendStates /\ s.at = "ask" /\ s.using = send[t].using
        /\ s.stamp = send[t].stamp /\ s.reads = send[t].reads
    BY <2>1, TurnParts DEF SendStates, Stages
  <2> HIDE DEF n, s
  <2>4. TurnSound(exchange[t], s, voice[t])
    BY <1>1, <2>3, TurnParts DEF TurnSound
  <2>5. /\ x \in TurnRows \cup {NoRow} /\ v \in SUBSET Models /\ TurnSound(x, s, v)
        /\ exchange' = [exchange EXCEPT ![t] = x] /\ voice' = [voice EXCEPT ![t] = v]
        /\ cuts' \in 0 .. MaxCuts /\ restarts' \in 0 .. MaxRestarts
        /\ x # NoRow /\ x.status \in Active => \A u \in Exchanges \ {t} : IsActive(u) => exchange[u].chat # x.chat
    BY <1>1, <2>4, TurnParts
  <2> HIDE DEF x, v
  <2> QED
    BY <1>1, <2>2, <2>3, <2>5, OneTurnMoves
<1> QED
  BY <1>3, <1>4 DEF Queried

\* The status of a turn changes: it does not become active.
LEMMA StatusMoves ==
    ASSUME ChatInv, UNCHANGED <<routingVars, chat, voice, cuts, restarts>>,
           NEW t \in Exchanges, exchange[t] # NoRow, NEW status \in ExchangeStatus,
           exchange' = [exchange EXCEPT ![t].status = status],
           status \in Active => exchange[t].status \in Active,
           NEW stage \in Stages, Goes(t, stage), stage \in {"over", send[t].at}
    PROVE  ChatInv'
<1> DEFINE s == [send[t] EXCEPT !.at = stage]
           x == [exchange[t] EXCEPT !.status = status]
           v == voice[t]
<1>1. /\ s \in SendStates /\ s.at = stage /\ s.using = send[t].using /\ s.stamp = send[t].stamp
      /\ s.reads = send[t].reads /\ s.round = send[t].round /\ s.to = send[t].to
      /\ s.chat = send[t].chat
  BY TurnParts DEF SendStates
<1>2. /\ x \in TurnRows /\ x # NoRow /\ x.status = status /\ x.chat = exchange[t].chat
      /\ x.actual = exchange[t].actual /\ x.requested = exchange[t].requested
      /\ x.fallback = exchange[t].fallback /\ x.calls = exchange[t].calls
      /\ x.answered = exchange[t].answered
  BY TurnParts, ChatAssumption DEF TurnRows
<1>3. send' = [send EXCEPT ![t] = s] /\ exchange' = [exchange EXCEPT ![t] = x]
  BY TurnParts DEF Goes, ChatInv, ChatTypeOK
<1> HIDE DEF s, x
<1>4. TurnSound(x, s, voice[t])
  BY <1>1, <1>2, TurnParts DEF TurnSound
<1>5. /\ v \in SUBSET Models /\ TurnSound(x, s, v) /\ voice' = [voice EXCEPT ![t] = v]
      /\ cuts' \in 0 .. MaxCuts /\ restarts' \in 0 .. MaxRestarts
      /\ x # NoRow /\ x.status \in Active => \A u \in Exchanges \ {t} : IsActive(u) => exchange[u].chat # x.chat
  BY <1>2, <1>4, TurnParts
<1> HIDE DEF v
<1> QED
  BY <1>1, <1>2, <1>3, <1>5, OneTurnMoves

LEMMA PlanProposed ==
    ASSUME ChatInv, NEW t \in Exchanges, ProposePlan(t)
    PROVE  ChatInv'
<1>1. /\ UNCHANGED <<routingVars, chat, voice, cuts, restarts>> /\ send[t].at = "plan"
  BY DEF ProposePlan, Others, Is
<1>2. CASE Goes(t, "fail") /\ UNCHANGED exchange
  BY <1>1, <1>2, StageMoves, TurnParts DEF Stages
<1>3. CASE /\ Exists(t) /\ exchange[t].status = "running"
           /\ exchange' = [exchange EXCEPT ![t].status = "awaiting_confirmation"] /\ Goes(t, "over")
  BY <1>1, <1>3, StatusMoves DEF Exists, ExchangeStatus, Active, Stages
<1> QED
  BY <1>2, <1>3 DEF ProposePlan

LEMMA PlanEnded ==
    ASSUME ChatInv, NEW t \in Exchanges, EndPlan(t)
    PROVE  ChatInv'
<1>1. /\ UNCHANGED <<routingVars, chat, send, voice, cuts, restarts>> /\ exchange[t] # NoRow
      /\ exchange' = [exchange EXCEPT ![t].status = "completed"]
  BY DEF EndPlan, Others, Exists
<1>2. send[t].at \in Stages /\ Goes(t, send[t].at)
  BY <1>1, TurnParts DEF SendStates, Goes, ChatInv, ChatTypeOK
<1> QED
  BY <1>1, <1>2, StatusMoves DEF ExchangeStatus, Active

\* The answer is given by, and names, the model of the row.
LEMMA ExchangeCompleted ==
    ASSUME ChatInv, NEW t \in Exchanges, CompleteExchange(t)
    PROVE  ChatInv'
<1>1. /\ UNCHANGED <<routingVars, chat, cuts, restarts>> /\ send[t].at = "complete"
  BY DEF CompleteExchange, Others, Is
<1>2. CASE Goes(t, "fail") /\ UNCHANGED <<exchange, voice>>
  BY <1>1, <1>2, StageMoves, TurnParts DEF Stages
<1>3. CASE /\ IsActive(t)
           /\ exchange' = [exchange EXCEPT ![t].status = "completed", ![t].answered = send[t].stamp]
           /\ voice' = [voice EXCEPT ![t] = @ \cup {send[t].using}]
           /\ Goes(t, "over")
  <2> DEFINE m == send[t].using
             s == [send[t] EXCEPT !.at = "over"]
             x == [exchange[t] EXCEPT !.status = "completed", !.answered = m]
             v == voice[t] \cup {m}
  <2>1. /\ exchange[t] # NoRow /\ exchange[t].actual = m /\ m \in Models /\ send[t].stamp = m
        /\ voice[t] \subseteq {m} /\ exchange[t] \in TurnRows
        /\ (exchange[t].fallback <=> m # exchange[t].requested)
    BY <1>1, <1>3, TurnParts DEF TurnSound, IsActive, Exists
  <2>2. /\ send' = [send EXCEPT ![t] = s] /\ exchange' = [exchange EXCEPT ![t] = x]
        /\ voice' = [voice EXCEPT ![t] = v]
    BY <1>3, <2>1, TurnParts DEF Goes, ChatInv, ChatTypeOK
  <2>3. s \in SendStates /\ s.at = "over"
    BY TurnParts DEF SendStates, Stages
  <2>4. /\ x \in TurnRows /\ x.actual = m /\ x.answered = m /\ x.status \notin Active
        /\ x.fallback = exchange[t].fallback /\ x.requested = exchange[t].requested
    BY <2>1 DEF TurnRows, ExchangeStatus, Active, Chosen
  <2>5. v \in SUBSET Models /\ v \subseteq {m}
    BY <2>1, TurnParts
  <2> HIDE DEF m, s, x, v
  <2>6. TurnSound(x, s, v)
    BY <2>1, <2>3, <2>4, <2>5 DEF TurnSound
  <2>7. cuts' \in 0 .. MaxCuts /\ restarts' \in 0 .. MaxRestarts
    BY <1>1, TurnParts
  <2> QED
    BY <1>1, <2>2, <2>3, <2>4, <2>5, <2>6, <2>7, OneTurnMoves
<1> QED
  BY <1>2, <1>3 DEF CompleteExchange

LEMMA ExchangeFailed ==
    ASSUME ChatInv, NEW t \in Exchanges, FailExchange(t)
    PROVE  ChatInv'
<1>1. /\ UNCHANGED <<routingVars, chat, voice, cuts, restarts>> /\ send[t].at = "fail"
      /\ Goes(t, "over")
  BY DEF FailExchange, Others, Is
<1>2. CASE ~IsActive(t)
  <2> DEFINE s == [send[t] EXCEPT !.at = "over"]
             x == exchange[t]
             v == voice[t]
  <2>1. s \in SendStates /\ s.at = "over" /\ send' = [send EXCEPT ![t] = s]
    BY <1>1, TurnParts DEF SendStates, Stages, Goes
  <2> HIDE DEF s
  <2>2. TurnSound(exchange[t], s, voice[t])
    BY <2>1, <1>1, TurnParts DEF TurnSound
  <2>3. /\ x \in TurnRows \cup {NoRow} /\ v \in SUBSET Models /\ TurnSound(x, s, v)
        /\ exchange' = [exchange EXCEPT ![t] = x] /\ voice' = [voice EXCEPT ![t] = v]
        /\ cuts' \in 0 .. MaxCuts /\ restarts' \in 0 .. MaxRestarts
        /\ x # NoRow /\ x.status \in Active => \A u \in Exchanges \ {t} : IsActive(u) => exchange[u].chat # x.chat
    BY <1>1, <1>2, <2>2, TurnParts DEF FailExchange
  <2> HIDE DEF x, v
  <2> QED
    BY <1>1, <2>1, <2>3, OneTurnMoves
<1>3. CASE IsActive(t)
  <2>1. exchange[t] # NoRow /\ exchange' = [exchange EXCEPT ![t].status = "failed"]
    BY <1>3 DEF FailExchange, IsActive, Exists
  <2> QED
    BY <1>1, <2>1, StatusMoves DEF ExchangeStatus, Active, Stages
<1> QED
  BY <1>2, <1>3

\* A statement of the turn fails, or its client has gone away.
LEMMA TurnCut ==
    ASSUME ChatInv, NEW t \in Exchanges, Cut(t)
    PROVE  ChatInv'
<1>1. /\ UNCHANGED <<routingVars, chat, exchange, voice, restarts>>
      /\ cuts < MaxCuts /\ cuts' = cuts + 1
  BY DEF Cut
<1>2. cuts' \in 0 .. MaxCuts
  BY <1>1, TurnParts, ChatAssumption
<1>3. CASE Is(t, "start") /\ Goes(t, "over")
  BY <1>1, <1>2, <1>3, StageMoves DEF Is, Stages
<1>4. CASE \E stage \in {"ask", "fallback", "record", "plan", "complete"} : Is(t, stage) /\ Goes(t, "fail")
  BY <1>1, <1>2, <1>4, StageMoves DEF Is, Stages
<1>5. CASE Is(t, "switch") /\ Lost(t)
  BY <1>1, <1>2, <1>5, TurnLost DEF Is
<1> QED
  BY <1>3, <1>4, <1>5 DEF Cut

\* No send survives a restart, and no turn stays active.
LEMMA ServerRestarted == ASSUME ChatInv, RestartServer PROVE ChatInv'
<1>1. /\ UNCHANGED <<chat, voice, cuts, provider, model, known, created, edits, routed>>
      /\ restarts < MaxRestarts /\ restarts' = restarts + 1
      /\ exchange' = [t \in Exchanges |-> IF IsActive(t) THEN [exchange[t] EXCEPT !.status = "interrupted"]
                                                         ELSE exchange[t]]
      /\ send' = [t \in Exchanges |-> IF Is(t, "idle") THEN NoSend ELSE [NoSend EXCEPT !.at = "over"]]
      /\ edit' = [q \in Clients |-> NoEdit]
  BY DEF RestartServer
<1>2. RoutingInv'
  <2>1. EditsOK'
    BY <1>1, IdleIsOK DEF EditsOK
  <2> QED
    BY <1>1, <2>1 DEF ChatInv, RoutingInv, CountersOK
<1>3. restarts' \in 0 .. MaxRestarts
  BY <1>1, ChatAssumption DEF ChatInv, ChatTypeOK
<1>4. \A t \in Exchanges : send'[t] \in SendStates /\ send'[t].at = IF Is(t, "idle") THEN "idle" ELSE "over"
  <2>1. NoSend \in SendStates /\ NoSend.at = "idle"
    BY ChatAssumption DEF NoSend, SendStates, Stages, Chosen
  <2>2. [NoSend EXCEPT !.at = "over"] \in SendStates /\ [NoSend EXCEPT !.at = "over"].at = "over"
    BY <2>1 DEF SendStates, Stages
  <2> QED
    BY <1>1, <2>1, <2>2
<1>5. ASSUME NEW t \in Exchanges
      PROVE  /\ exchange'[t] \in TurnRows \cup {NoRow}
             /\ exchange'[t] # NoRow => exchange'[t].status \notin Active
             /\ TurnSound(exchange'[t], send'[t], voice[t])
  <2> DEFINE x == exchange[t]
             y == [exchange[t] EXCEPT !.status = "interrupted"]
  <2>1. x \in TurnRows \cup {NoRow} /\ TurnSound(x, send[t], voice[t])
    BY TurnParts
  <2>2. CASE IsActive(t)
    <3>1. exchange'[t] = y /\ x # NoRow /\ x \in TurnRows /\ send'[t].at = "over"
      <4>1. ~Is(t, "idle")
        BY <2>1, <2>2 DEF TurnSound, Is, IsActive, Exists
      <4> QED
        BY <1>1, <1>4, <2>1, <2>2, <4>1 DEF IsActive, Exists
    <3>2. /\ y \in TurnRows /\ y.status = "interrupted" /\ y.actual = x.actual
          /\ y.requested = x.requested /\ y.fallback = x.fallback /\ y.answered = x.answered
      BY <3>1 DEF TurnRows, ExchangeStatus
    <3> HIDE DEF x, y
    <3> QED
      BY <2>1, <3>1, <3>2 DEF TurnSound, Active
  <2>3. CASE ~IsActive(t)
    <3>1. exchange'[t] = x /\ (x # NoRow => x.status \notin Active)
      BY <1>1, <2>3 DEF IsActive, Exists
    <3>2. TurnSound(x, send'[t], voice[t])
      BY <1>4, <2>1 DEF TurnSound, Is
    <3> QED
      BY <2>1, <3>1, <3>2
  <2> QED
    BY <2>2, <2>3
<1>6. ChatTypeOK'
  <2>1. exchange' \in [Exchanges -> TurnRows \cup {NoRow}] /\ send' \in [Exchanges -> SendStates]
    BY <1>1, <1>4, <1>5
  <2> QED
    BY <1>1, <1>3, <2>1 DEF ChatInv, ChatTypeOK
<1>7. OneActiveTurn'
  BY <1>5 DEF OneActiveTurn, IsActive, Exists
<1> QED
  BY <1>1, <1>2, <1>5, <1>6, <1>7 DEF ChatInv, TurnSound

LEMMA ChatStart == RoutingInit /\ ChatInit => ChatInv
<1> SUFFICES ASSUME RoutingInit, ChatInit PROVE ChatInv
  OBVIOUS
<1>1. RoutingInv
  BY RoutingStart
<1>2. NoSend \in SendStates /\ NoSend.at = "idle"
  BY ChatAssumption DEF NoSend, SendStates, Stages, Chosen
<1>3. ChatTypeOK
  BY <1>2, ChatAssumption DEF ChatInit, ChatTypeOK
<1>4. OneActiveTurn
  BY DEF ChatInit, OneActiveTurn, IsActive, Exists
<1>5. \A t \in Exchanges : TurnSound(exchange[t], send[t], voice[t])
  BY <1>2 DEF ChatInit, TurnSound
<1> QED
  BY <1>1, <1>3, <1>4, <1>5 DEF ChatInv

LEMMA ChatStep == ChatInv /\ [ChatNext]_<<routingVars, chatVars>> => ChatInv'
<1> SUFFICES ASSUME ChatInv, [ChatNext]_<<routingVars, chatVars>> PROVE ChatInv'
  OBVIOUS
<1>1. CASE \E c \in Chats : CreateConversation(c) \/ SetConversationModel(c) \/ DeleteChat(c)
  BY <1>1, ConversationsEdited, ChatDeleted
<1>2. CASE \E t \in Exchanges : \/ \E c \in Chats : ResolveConversationModel(t, c)
                                \/ StartExchange(t) \/ CompleteModel(t) \/ ResolveFallback(t)
                                \/ SwitchTurnModel(t) \/ CreateToolCall(t) \/ Queried(t)
  BY <1>2, TurnBegins, ExchangeStarts, ModelReplies, FallbackResolved, ModelSwitched,
     ToolCallRecorded, ToolAnswers
<1>3. CASE \E t \in Exchanges : \/ ProposePlan(t) \/ EndPlan(t) \/ CompleteExchange(t)
                                \/ FailExchange(t) \/ Cut(t)
  BY <1>3, PlanProposed, PlanEnded, ExchangeCompleted, ExchangeFailed, TurnCut
<1>4. CASE RestartServer
  BY <1>4, ServerRestarted
<1>5. CASE [RoutingNext]_routingVars /\ UNCHANGED chatVars
  <2>1. RoutingInv'
    BY <1>5, RoutingStep DEF ChatInv
  <2>2. UNCHANGED <<chat, exchange, send, voice, cuts, restarts>>
    BY <1>5 DEF chatVars
  <2> QED
    BY <2>1, <2>2 DEF ChatInv, ChatTypeOK, OneActiveTurn, IsActive, Exists, TurnSound
<1> QED
  BY <1>1, <1>2, <1>3, <1>4, <1>5 DEF ChatNext, Talk

\* Whatever a turn recorded came from the model that its row names, whether or not it fell
\* back (service.go:672 to 962, store/ai.go), and whatever requests on the models, clients
\* that leave and restarts come between its steps.
THEOREM TranscriptCorrect == ChatSpec => []TranscriptNamesItsModel
<1>1. ChatInv => TranscriptNamesItsModel
  BY DEF ChatInv, TranscriptNamesItsModel, OneActiveTurn, TurnSound, Exists
<1> QED
  BY <1>1, ChatStart, ChatStep, PTL DEF ChatSpec
=============================================================================
