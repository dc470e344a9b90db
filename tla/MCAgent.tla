-------------------------------- MODULE MCAgent --------------------------------
(***************************************************************************)
(* Small instances of what concerns one agent: its sessions with the       *)
(* Server, the Compose projects it deploys and its own upgrade.  The three *)
(* share no state: a behaviour follows one of them.                        *)
(***************************************************************************)
EXTENDS AgentSessions, ComposeDeployment, AgentUpgrade

CONSTANTS p1, d1, d2

VARIABLE focus

allVars == <<focus, vars, composeVars, upgradeVars>>

AgentInit ==
    /\ focus \in {"sessions", "compose", "upgrade"}
    /\ Init /\ ComposeInit /\ UpgradeInit
    /\ focus # "upgrade" => works

\* The node is deleted or the Server starts again.
OneSessionMishap == deletes' + restarts' <= 1

\* A deployment meets a crash and a file that fails, or a context that ends.
OneComposeMishap == composeUsed'.cuts = 1 => composeUsed'.crashes + composeUsed'.faults = 0

AgentNext ==
    /\ UNCHANGED focus
    /\ \/ focus = "sessions" /\ Next /\ OneSessionMishap /\ UNCHANGED <<composeVars, upgradeVars>>
       \/ focus = "compose" /\ ComposeNext /\ OneComposeMishap /\ UNCHANGED <<vars, upgradeVars>>
       \/ focus = "upgrade" /\ UpgradeNext /\ UNCHANGED <<vars, composeVars>>

\* No fair action is enabled in an initial state: fairness only tells on the focus.
AgentSpec == AgentInit /\ [][AgentNext]_allVars /\ Fairness /\ UpgradeFairness
=============================================================================
