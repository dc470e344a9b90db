-------------------------- MODULE TaskRunLifecycle --------------------------
(***************************************************************************)
(* What the task centre promises of the runs of its schedules, without     *)
(* targets, goroutines, slots, transactions, crashes or races:             *)
(*   - a batch is accepted only while its schedule has no active batch,    *)
(*     and an occurrence that comes due meanwhile is recorded as skipped;  *)
(*   - an occurrence of a schedule is recorded at most once;               *)
(*   - a batch that ended never becomes active again;                      *)
(*   - retention may delete any batch, by age alone.                       *)
(***************************************************************************)
EXTENDS Naturals

CONSTANTS Runs, Schedules, Times, Null

VARIABLES
    state,       \* run -> none, active, ended, forgotten
    owner,       \* run -> its schedule; Null for an ad-hoc script, a deleted schedule
    occurrence   \* run -> the scheduled time it stands for; Null for a manual run

vars == <<state, owner, occurrence>>

Init ==
    /\ state = [r \in Runs |-> "none"]
    /\ owner = [r \in Runs |-> Null]
    /\ occurrence = [r \in Runs |-> Null]

Busy(t) == \E r \in Runs : state[r] = "active" /\ owner[r] = t

Fresh(r) == \A s \in Runs : state[s] = "none" <=> s >= r

Record(r, st, t, o) ==
    /\ state' = [state EXCEPT ![r] = st]
    /\ owner' = [owner EXCEPT ![r] = t]
    /\ occurrence' = [occurrence EXCEPT ![r] = o]

Unrecorded(t, o) == \A s \in Runs : ~(owner[s] = t /\ occurrence[s] = o)

AcceptManual(r, t) == Fresh(r) /\ (t # Null => ~Busy(t)) /\ Record(r, "active", t, Null)

ClaimOccurrence(r, t, o) ==
    /\ Fresh(r) /\ t # Null /\ Unrecorded(t, o)
    /\ Record(r, IF Busy(t) THEN "ended" ELSE "active", t, o)

End(S) ==
    /\ S # {} /\ \A r \in S : state[r] = "active"
    /\ state' = [r \in Runs |-> IF r \in S THEN "ended" ELSE state[r]]
    /\ UNCHANGED <<owner, occurrence>>

Forget(S) ==
    /\ \A r \in S : state[r] \in {"active", "ended"}
    /\ state' = [r \in Runs |-> IF r \in S THEN "forgotten" ELSE state[r]]
    /\ owner' = [r \in Runs |-> IF r \in S THEN Null ELSE owner[r]]
    /\ occurrence' = [r \in Runs |-> IF r \in S THEN Null ELSE occurrence[r]]

DropSchedule(t) ==
    /\ ~Busy(t)
    /\ owner' = [r \in Runs |-> IF owner[r] = t THEN Null ELSE owner[r]]
    /\ UNCHANGED <<state, occurrence>>

Next ==
    \/ \E r \in Runs, t \in Schedules \cup {Null} : AcceptManual(r, t)
    \/ \E r \in Runs, t \in Schedules, o \in Times : ClaimOccurrence(r, t, o)
    \/ \E S \in SUBSET Runs : End(S) \/ Forget(S)
    \/ \E t \in Schedules : DropSchedule(t)

Spec == Init /\ [][Next]_vars

\* Every active batch ends.
EachEnds == \A r \in Runs : WF_vars(\E S \in SUBSET Runs : r \in S /\ End(S))

FairSpec == Spec /\ EachEnds
=============================================================================
