------------------------------ MODULE MCAssistant ------------------------------
(***************************************************************************)
(* Small instances of the AI assistant.  Plans and conversations share no  *)
(* rows but those of the turns, of which each module keeps its own part: a *)
(* behaviour follows a plan, a conversation, or the requests on models.    *)
(***************************************************************************)
EXTENDS ToolPlan, Conversations, TLC

CONSTANTS t1, t2, q1, Focuses

\* Of three providers the last two are set up.
SetUpFirst == <<2, 3>>

VARIABLE focus

assistantVars == <<focus, vars, routingVars, chatVars>>

AssistantInit ==
    /\ focus \in Focuses /\ Init /\ RoutingInit /\ ChatInit
    /\ focus # "plan" => mode = "confirm_all"

\* Two administrators in "routing", one of them in "chat", who sets the routes, and sets
\* them again or deletes a model; or a chat is cut short once, or by a restart.
FewEdits ==
    /\ edits' + cuts' + restarts' <= 2 /\ created' = created /\ edit'[2] = NoEdit
    /\ edit'[1].op \in {"idle", "route", "delete model"}
    /\ cuts' + restarts' <= 1

MayEdit == edits < 2 \/ edit[1] # NoEdit

\* A PUT of a provider changes its name, its address or whether it is enabled.
OneChange == \A q \in Clients : LET e == edit'[q] IN
    e.op = "write provider" /\ provider[e.p] # NoRow =>
        Cardinality({x \in {1, 2, 3} :
            \/ x = 1 /\ e.name # None
            \/ x = 2 /\ e.moved
            \/ x = 3 /\ e.enabled # provider[e.p].enabled}) <= 1

\* A plan meets one of: a change of the settings, a fault, a client that leaves; and a crash.
OneMishap == used'.settings + used'.faults + used'.gone <= 1

AssistantNext ==
    /\ UNCHANGED focus
    /\ \/ focus = "plan" /\ Next /\ OneMishap /\ UNCHANGED <<routingVars, chatVars>>
       \/ focus = "routing" /\ RoutingNext /\ OneChange /\ UNCHANGED <<vars, chatVars>>
       \/ focus = "chat" /\ (Talk \/ (MayEdit /\ RoutingNext /\ UNCHANGED chatVars))
          /\ FewEdits /\ UNCHANGED vars

\* No fair action is enabled in an initial state: fairness only tells on the focus "plan".
AssistantSpec == AssistantInit /\ [][AssistantNext]_assistantVars /\ Fairness
=============================================================================
