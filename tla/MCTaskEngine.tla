---------------------------- MODULE MCTaskEngine ----------------------------
(***************************************************************************)
(* Small instances of TaskEngine for TLC.                                  *)
(***************************************************************************)
EXTENDS TaskEngine, TLC

CONSTANTS n1, n2

\* A cron expression is the period it stands for.
MCNextRun(period, t) == ((t \div period) + 1) * period

Cron(period, nodes, policy) ==
    [type |-> "cron", cron |-> period, runAt |-> 0, nodes |-> nodes, policy |-> policy]

Once(at, nodes, policy) ==
    [type |-> "once", cron |-> 1, runAt |-> at, nodes |-> nodes, policy |-> policy]

EveryTick    == {Cron(1, {n1, n2}, "failure")}
CronOrOnce   == {Cron(1, {n1}, "failure"), Once(1, {n1}, "failure")}

NodeSymmetry == Permutations({n1, n2})

\* A crash or a failing statement, not both
OneMishap == crashes' + faults' <= 1
RequestsSpec == Init /\ [][Next /\ OneMishap]_vars
=============================================================================
