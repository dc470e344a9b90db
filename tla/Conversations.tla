---------------------------- MODULE Conversations ----------------------------
(***************************************************************************)
(* Conversations with the AI assistant: send (internal/server/ai/service.go*)
(* lines 672 to 962) asks the model the conversation selected, records the *)
(* read-only tools it calls, falls back to the global fallback model when  *)
(* its first call fails, and ends the turn.  A turn that proposes a plan   *)
(* leaves here; ToolPlan takes it from there.  Requests on the models run  *)
(* all the while, a client may go away and the Server may restart.  A turn *)
(* is called an exchange here, its row keeps what ToolPlan's leaves out.   *)
(***************************************************************************)
EXTENDS ModelRouting

CONSTANTS
    Chats,          \* conversations
    Exchanges,
    Unborn,         \* a conversation that is not created yet
    MaxModelCalls, MaxReads,
    MaxCuts,        \* bound on cancelled requests and failing statements
    MaxRestarts

VARIABLES
    chat,           \* ai_conversations: the selected model
    exchange,       \* ai_turns, with the tool calls and the answer that refer to them
    send,           \* the send that executes each turn
    voice,          \* models whose replies were recorded in each turn
    cuts, restarts

chatVars == <<chat, exchange, send, voice, cuts, restarts>>

Active == {"running", "awaiting_confirmation"}
ExchangeStatus == Active \cup {"completed", "failed", "interrupted"}
Stages == {"idle", "start", "ask", "fallback", "switch", "record", "query", "plan", "complete", "fail", "over"}

Chosen == Models \cup {None}

TurnRows == [chat : Chats, status : ExchangeStatus, actual : Chosen, requested : Chosen,
             fallback : BOOLEAN, calls : 0 .. MaxReads, answered : Chosen]

\* The model a send uses, the one its copy of the turn names, and its position in the loop.
SendStates == [at : Stages, chat : Chats \cup {None}, using : Chosen, stamp : Chosen,
          to : Chosen, round : 0 .. MaxModelCalls, reads : 0 .. MaxReads]

ASSUME ChatAssumption ==
    /\ MaxModelCalls \in Nat \ {0} /\ {MaxReads, MaxCuts, MaxRestarts} \subseteq Nat
    /\ NoRow \notin TurnRows

NoSend == [at |-> "idle", chat |-> None, using |-> None, stamp |-> None, to |-> None, round |-> 0, reads |-> 0]

Is(t, stage) == send[t].at = stage
Goes(t, stage) == send' = [send EXCEPT ![t].at = stage]

Exists(t) == exchange[t] # NoRow
IsActive(t) == Exists(t) /\ exchange[t].status \in Active

\* A foreign key ON DELETE SET NULL: a deleted model is no model.
Selected(c) == IF chat[c] \in Rows(model) THEN chat[c] ELSE None

ChatTypeOK ==
    /\ chat \in [Chats -> Chosen \cup {Unborn, NoRow}]
    /\ exchange \in [Exchanges -> TurnRows \cup {NoRow}]
    /\ send \in [Exchanges -> SendStates]
    /\ voice \in [Exchanges -> SUBSET Models]
    /\ cuts \in 0 .. MaxCuts /\ restarts \in 0 .. MaxRestarts

ChatInit ==
    /\ chat = [c \in Chats |-> Unborn]
    /\ exchange = [t \in Exchanges |-> NoRow]
    /\ send = [t \in Exchanges |-> NoSend]
    /\ voice = [t \in Exchanges |-> {}]
    /\ cuts = 0 /\ restarts = 0

IsChat(c) == chat[c] \notin {Unborn, NoRow}

Others == UNCHANGED <<routingVars, cuts, restarts>>

(***************************************************************************)
(* Requests on conversations.                                              *)
(***************************************************************************)
CreateConversation(c) ==
    /\ chat[c] = Unborn
    /\ LET usable == {m \in Rows(model) : Usable(provider, model, m)}
           default == usable \cap Defaults(model)
       IN  \E m \in usable \cup (IF default = {} THEN {None} ELSE {}) : chat' = [chat EXCEPT ![c] = m]
    /\ UNCHANGED <<exchange, send, voice>> /\ Others

SetConversationModel(c) ==
    /\ IsChat(c)
    /\ \E m \in Rows(model) \cup {None} :
         /\ \A x \in {m} \ {None} : Usable(provider, model, x)
         /\ m # chat[c] /\ chat' = [chat EXCEPT ![c] = m]
    /\ UNCHANGED <<exchange, send, voice>> /\ Others

DeleteChat(c) ==
    /\ IsChat(c)
    /\ chat' = [chat EXCEPT ![c] = NoRow]
    /\ exchange' = [t \in Exchanges |-> IF Exists(t) /\ exchange[t].chat = c THEN NoRow ELSE exchange[t]]
    /\ UNCHANGED <<send, voice>> /\ Others

(***************************************************************************)
(* send.                                                                   *)
(***************************************************************************)
ResolveConversationModel(t, c) ==
    /\ Is(t, "idle") /\ IsChat(c)
    /\ Selected(c) # None /\ Usable(provider, model, Selected(c))
    /\ send' = [send EXCEPT ![t] = [NoSend EXCEPT !.at = "start", !.chat = c, !.using = Selected(c), !.stamp = Selected(c)]]
    /\ UNCHANGED <<chat, exchange, voice>> /\ Others

\* uq_ai_turns_active; the model must still be there for the foreign key.
StartExchange(t) ==
    LET s == send[t] IN
    /\ Is(t, "start")
    /\ IF IsChat(s.chat) /\ s.using \in Rows(model) /\ ~ \E u \in Exchanges : IsActive(u) /\ exchange[u].chat = s.chat
       THEN /\ exchange' = [exchange EXCEPT ![t] = [chat |-> s.chat, status |-> "running", actual |-> s.using,
                          requested |-> s.using, fallback |-> FALSE, calls |-> 0, answered |-> None]]
            /\ Goes(t, "ask")
       ELSE Goes(t, "over") /\ UNCHANGED exchange
    /\ UNCHANGED <<chat, voice>> /\ Others

\* completeModel, and what send does with the reply.
CompleteModel(t) ==
    /\ Is(t, "ask")
    /\ IF send[t].round = MaxModelCalls THEN Goes(t, "fail")
       ELSE \/ Goes(t, "complete")
            \/ Goes(t, "plan")
            \/ Goes(t, "record")
            \/ Goes(t, "fail")
            \/ send[t].round = 0 /\ Goes(t, "fallback")
    /\ UNCHANGED <<chat, exchange, voice>> /\ Others

ResolveFallback(t) ==
    /\ Is(t, "fallback")
    /\ LET candidates == {m \in Fallbacks(model) \ {send[t].using} : Usable(provider, model, m)} IN
       IF candidates = {} THEN Goes(t, "fail")
       ELSE \E m \in candidates : send' = [send EXCEPT ![t].at = "switch", ![t].to = m]
    /\ UNCHANGED <<chat, exchange, voice>> /\ Others

CanSwitch(t) ==
    /\ Exists(t) /\ exchange[t].status = "running" /\ ~ exchange[t].fallback /\ exchange[t].calls = 0
    /\ send[t].to \in Rows(model)

KeepsTurn(s) == [s EXCEPT !.at = "ask", !.using = s.to, !.round = 1]  \* deviation: the turn it had

\* send continues with the row it gets back.
Adopted(s) == [s EXCEPT !.at = "ask", !.using = s.to, !.stamp = s.to, !.round = 1]

\* On an error the row it gets back is empty, and so is the turn that FailTurn looks for.
Lost(t) == send' = [send EXCEPT ![t].at = "over", ![t].stamp = None]

SwitchTurnModel(t) ==
    /\ Is(t, "switch")
    /\ IF CanSwitch(t)
       THEN /\ exchange' = [exchange EXCEPT ![t].actual = send[t].to, ![t].fallback = TRUE]
            /\ send' = [send EXCEPT ![t] = Adopted(@)]
       ELSE Lost(t) /\ UNCHANGED exchange
    /\ UNCHANGED <<chat, voice>> /\ Others

\* One of the read-only tools of a reply, before it is executed.
CreateToolCall(t) ==
    /\ Is(t, "record")
    /\ IF Exists(t) /\ send[t].reads < MaxReads
       THEN /\ exchange' = [exchange EXCEPT ![t].calls = @ + 1]
            /\ send' = [send EXCEPT ![t].at = "query", ![t].reads = @ + 1]
            /\ voice' = [voice EXCEPT ![t] = @ \cup {send[t].using}]
       ELSE Goes(t, "fail") /\ UNCHANGED <<exchange, voice>>
    /\ UNCHANGED chat /\ Others

\* ... and after; the reply may hold another one.
Queried(t) ==
    /\ Is(t, "query")
    /\ IF ~ Exists(t) THEN Goes(t, "fail")
       ELSE \/ Goes(t, "record")
            \/ send' = [send EXCEPT ![t].at = "ask", ![t].round = @ + 1]
    /\ UNCHANGED <<chat, exchange, voice>> /\ Others

ProposePlan(t) ==
    /\ Is(t, "plan")
    /\ IF Exists(t) /\ exchange[t].status = "running"
       THEN exchange' = [exchange EXCEPT ![t].status = "awaiting_confirmation"] /\ Goes(t, "over")
       ELSE Goes(t, "fail") /\ UNCHANGED exchange
    /\ UNCHANGED <<chat, voice>> /\ Others

\* The plan of the turn was executed, rejected or cancelled.
EndPlan(t) ==
    /\ Exists(t) /\ exchange[t].status = "awaiting_confirmation"
    /\ exchange' = [exchange EXCEPT ![t].status = "completed"]
    /\ UNCHANGED <<chat, send, voice>> /\ Others

\* The answer carries the model that the sender's copy of the turn names.
CompleteExchange(t) ==
    /\ Is(t, "complete")
    /\ IF IsActive(t)
       THEN /\ exchange' = [exchange EXCEPT ![t].status = "completed", ![t].answered = send[t].stamp]
            /\ voice' = [voice EXCEPT ![t] = @ \cup {send[t].using}]
            /\ Goes(t, "over")
       ELSE Goes(t, "fail") /\ UNCHANGED <<exchange, voice>>
    /\ UNCHANGED chat /\ Others

FailExchange(t) ==
    /\ Is(t, "fail")
    /\ exchange' = IF IsActive(t) THEN [exchange EXCEPT ![t].status = "failed"] ELSE exchange
    /\ Goes(t, "over")
    /\ UNCHANGED <<chat, voice>> /\ Others

\* The client has gone away or a statement fails: the next call on the database returns an
\* error.  FailTurn and the result of a tool are written without the client's context.
Cut(t) ==
    /\ cuts < MaxCuts /\ cuts' = cuts + 1
    /\ \/ Is(t, "start") /\ Goes(t, "over")
       \/ \E stage \in {"ask", "fallback", "record", "plan", "complete"} : Is(t, stage) /\ Goes(t, "fail")
       \/ Is(t, "switch") /\ Lost(t)
    /\ UNCHANGED <<chat, exchange, voice, restarts, routingVars>>

\* The process ends; Initialize runs RecoverInterrupted before requests are served.
RestartServer ==
    /\ restarts < MaxRestarts /\ restarts' = restarts + 1
    /\ exchange' = [t \in Exchanges |-> IF IsActive(t) THEN [exchange[t] EXCEPT !.status = "interrupted"] ELSE exchange[t]]
    /\ send' = [t \in Exchanges |-> IF Is(t, "idle") THEN NoSend ELSE [NoSend EXCEPT !.at = "over"]]
    /\ edit' = [q \in Clients |-> NoEdit]
    /\ UNCHANGED <<chat, voice, cuts, provider, model, known, created, edits, routed>>

\* What people and their turns do; the routing changes beside it.
Talk ==
    \/ \E c \in Chats : CreateConversation(c) \/ SetConversationModel(c) \/ DeleteChat(c)
    \/ \E t \in Exchanges :
         \/ \E c \in Chats : ResolveConversationModel(t, c)
         \/ StartExchange(t) \/ CompleteModel(t) \/ ResolveFallback(t) \/ SwitchTurnModel(t)
         \/ CreateToolCall(t) \/ Queried(t) \/ ProposePlan(t) \/ EndPlan(t)
         \/ CompleteExchange(t) \/ FailExchange(t) \/ Cut(t)
    \/ RestartServer

ChatNext == Talk \/ (RoutingNext /\ UNCHANGED chatVars)

ChatSpec == RoutingInit /\ ChatInit /\ [][ChatNext]_<<routingVars, chatVars>>

(***************************************************************************)
(* Properties.                                                             *)
(***************************************************************************)
\* A transcript names the model that spoke: whatever was recorded in a turn, a tool call
\* or the answer, came from the model its row names, a turn that fell back did so before
\* any of it, and a conversation has one active turn.
TranscriptNamesItsModel ==
    /\ ChatTypeOK
    /\ \A t \in Exchanges : Exists(t) =>
         /\ voice[t] \subseteq {exchange[t].actual}
         /\ exchange[t].answered \in {None, exchange[t].actual}
         /\ exchange[t].fallback <=> exchange[t].actual # exchange[t].requested
    /\ \A t, u \in Exchanges : IsActive(t) /\ IsActive(u) /\ exchange[t].chat = exchange[u].chat => t = u

\* A turn whose send has returned is not left running: the conversation would refuse every
\* message until the Server restarts.
TurnEndsWithItsSend == \A t \in Exchanges : Is(t, "over") /\ Exists(t) => exchange[t].status # "running"
=============================================================================
