---------------------------- MODULE PlanLifecycle ----------------------------
(***************************************************************************)
(* What a plan of write steps promises: it is decided on once, its steps   *)
(* begin in order and once each, the next one only after the success of    *)
(* the one before, and none after the plan is over.                        *)
(***************************************************************************)
EXTENDS Naturals

CONSTANTS Plans, StepCount

VARIABLES
    state,        \* of a plan: none, proposed, approved, over
    began,        \* how many of its steps were handed to their targets
    ready         \* approved, and those that began have succeeded

vars == <<state, began, ready>>

Init ==
    /\ state = [p \in Plans |-> "none"]
    /\ began = [p \in Plans |-> 0]
    /\ ready = [p \in Plans |-> FALSE]

Becomes(p, s) == state' = [state EXCEPT ![p] = s]

Propose(p) == state[p] = "none" /\ Becomes(p, "proposed") /\ UNCHANGED <<began, ready>>

Approve(p) ==
    /\ state[p] = "proposed" /\ Becomes(p, "approved")
    /\ ready' = [ready EXCEPT ![p] = TRUE]
    /\ UNCHANGED began

Begin(p) ==
    /\ ready[p] /\ began[p] < StepCount
    /\ began' = [began EXCEPT ![p] = @ + 1]
    /\ ready' = [ready EXCEPT ![p] = FALSE]
    /\ UNCHANGED state

Succeed(p) ==
    /\ state[p] = "approved" /\ ~ready[p]
    /\ ready' = [ready EXCEPT ![p] = TRUE]
    /\ UNCHANGED <<state, began>>

\* Finished, failed, rejected, cancelled by a pause, or left by another process.
End(ended) ==
    /\ \A p \in ended : state[p] # "over"
    /\ state' = [p \in Plans |-> IF p \in ended THEN "over" ELSE state[p]]
    /\ ready' = [p \in Plans |-> ready[p] /\ p \notin ended]
    /\ UNCHANGED began

Next ==
    \/ \E p \in Plans : Propose(p) \/ Approve(p) \/ Begin(p) \/ Succeed(p)
    \/ \E ended \in SUBSET Plans : End(ended)

Spec == Init /\ [][Next]_vars
=============================================================================
