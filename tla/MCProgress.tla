----------------------------- MODULE MCProgress -----------------------------
(***************************************************************************)
(* Small instances of the goroutines of the Server that must come to an    *)
(* end: the engine's and those of a run, the relays of a log, the job of   *)
(* an installation and the handlers that show it.  A behaviour follows one *)
(* of the three.                                                           *)
(***************************************************************************)
EXTENDS MCTaskEngine, Streams, InstallJobs

CONSTANTS f1, c1, w1

VARIABLE focus

progressVars == <<focus, vars, streamVars, installVars>>

ProgressInit ==
    /\ focus \in {"engine", "streams", "install"}
    /\ Init /\ StreamsInit /\ InstallInit
    /\ focus # "install" => node = "absent"

ProgressNext ==
    /\ UNCHANGED focus
    /\ \/ focus = "engine" /\ Next /\ UNCHANGED <<streamVars, installVars>>
       \/ focus = "streams" /\ StreamsNext /\ UNCHANGED <<vars, installVars>>
       \/ focus = "install" /\ InstallNext /\ UNCHANGED <<vars, streamVars>>

\* The engine has an enabled action before it boots, the others none before they start:
\* their fairness only tells on their focus.
ProgressSpec ==
    /\ ProgressInit /\ [][ProgressNext]_progressVars
    /\ (focus # "engine") \/ Fairness
    /\ StreamsFairness /\ InstallFairness
=============================================================================
