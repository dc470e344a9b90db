---------------------------- MODULE MCAgentCalls ----------------------------
(***************************************************************************)
(* Small instances of AgentCalls for TLC.                                  *)
(***************************************************************************)
EXTENDS AgentCalls

SevenCalls == {"list", "status", "exec", "pods", "up", "run", "rerun"}
OfKind ==
    [k \in SevenCalls |-> CASE k = "list" -> "file" [] k = "status" -> "management"
                            [] k = "exec" -> "container" [] k = "pods" -> "create"
                            [] k = "up" -> "node" [] OTHER -> "script"]
OldAgent == {"container", "create", "script"}
Sessions == {"b1", "b2"}

\* The two browsers do the same, and so do the two scripts: the second begins after
\* the first.
InOrder ==
    /\ browser'["b2"] # "idle" => browser'["b1"] # "idle"
    /\ call'["rerun"] # "idle" => call'["run"] # "idle"

\* What happens beside a script or a terminal: another one, a call that the read loop of
\* the Agent does itself, or one that it hands on.
Pairs ==
    LET begun == {k \in Calls : call'[k] # "idle"}
        long  == (begun \cap {"run", "rerun"}) \cup {s \in Browsers : browser'[s] # "idle"}
    IN  long # {} => begun \subseteq {"run", "rerun", "list", "up"}

MCSpec == Init /\ [][Next /\ InOrder /\ Pairs]_vars /\ WF_vars(Progress)
=============================================================================
