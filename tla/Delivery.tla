------------------------------ MODULE Delivery ------------------------------
(***************************************************************************)
(* The delivery of one notification to all its channels: deliverChannels   *)
(* and deliverChannelWithRetry of internal/server/alerting/notifier.go,    *)
(* their twins in engine.go, and the senders of the three kinds of payload.*)
(* What the channels answer, and whether a request arrives, are inputs; of *)
(* the text only the signature of a robot's request is kept.               *)
(*                                                                         *)
(* A definition marked "deviation" is not the code: it is a mistake the    *)
(* next definition could have contained, which a property must detect.     *)
(***************************************************************************)
EXTENDS Naturals, FiniteSets

CONSTANTS
    Channels, TypeOf,   \* the channels of the rule, monitor or task, and their types
    Attempts            \* the number of retry delays, 3 in the code

ASSUME TypesAssumption == TypeOf \in [Channels -> {"webhook", "dingtalk", "feishu", "unknown"}]
ASSUME AttemptsAssumption == Attempts \in Nat \ {0}

VARIABLES
    payload,    \* what is delivered: "alert", "uptime" or "task"; "none" before
    target,     \* the channels of this delivery
    sender,     \* the goroutine of every channel
    attempts,   \* how often it has sent
    signature,  \* the signature of the present request: absent, or with a "+" in it
    verdict,    \* what its last attempt has come to
    copies,     \* requests that have arrived
    ended,      \* the context of the delivery is cancelled
    report      \* what the caller persists

deliveryVars ==
    <<payload, target, sender, attempts, signature, verdict, copies, ended, report>>

NoReport == [sent |-> FALSE, failed |-> {}, given |-> FALSE]

DeliveryInit ==
    /\ payload = "none" /\ target = {} /\ ended = FALSE /\ report = NoReport
    /\ sender = [c \in Channels |-> "idle"]
    /\ attempts = [c \in Channels |-> 0]
    /\ signature = [c \in Channels |-> "none"]
    /\ verdict = [c \in Channels |-> "none"]
    /\ copies = [c \in Channels |-> 0]
-----------------------------------------------------------------------------
(* The senders: what an answer comes to.  A status 408, 425, 429 or 5xx,   *)
(* and an answer that does not come, may be retried; another status and a  *)
(* robot's refusal may not.                                                *)

Statuses == {"ok", "busy", "rejected"}
Robots == {"dingtalk", "feishu"}

\* statusDeliveryError and the body of a robot's answer
Answers(type) == Statuses \cup (IF type \in Robots THEN {"refused"} ELSE {})

\* The alert's request to DingTalk carries its signature unescaped: the robot reads a
\* "+" as a blank and refuses the request
AlertAnswers(type, sign) ==
    IF type = "dingtalk" /\ sign = "plus" THEN Answers(type) \ {"ok"} ELSE Answers(type)
UptimeAnswers(type) == Answers(type)
TaskAnswers(type) == Answers(type)

AnswersTo(c) == CASE payload = "alert" -> AlertAnswers(TypeOf[c], signature[c])
                  [] payload = "uptime" -> UptimeAnswers(TypeOf[c])
                  [] OTHER -> TaskAnswers(TypeOf[c])

\* "lost": no answer within the limit of the attempt, or the connection fails
Retryable(what) == what \in {"busy", "lost"}
-----------------------------------------------------------------------------
Deliver ==
    /\ payload = "none" /\ payload' \in {"alert", "uptime", "task"}
    /\ target' \in SUBSET Channels
    /\ sender' = [c \in Channels |-> IF c \in target' THEN "ready" ELSE "idle"]
    /\ report' = [NoReport EXCEPT !.given = (target' = {})]
    /\ UNCHANGED <<attempts, signature, verdict, copies, ended>>

\* One attempt: a channel of an unknown type, or an address that is no URL, is not sent to
Attempt(c) ==
    /\ sender[c] = "ready"
    /\ attempts' = [attempts EXCEPT ![c] = @ + 1]
    /\ IF TypeOf[c] = "unknown"
         THEN /\ sender' = [sender EXCEPT ![c] = "judging"]
              /\ verdict' = [verdict EXCEPT ![c] = "invalid"]
              /\ UNCHANGED signature
         ELSE /\ sender' = [sender EXCEPT ![c] = "sending"]
              /\ \E sign \in IF TypeOf[c] = "dingtalk" THEN {"none", "plus"} ELSE {"none"} :
                    signature' = [signature EXCEPT ![c] = sign]
              /\ UNCHANGED verdict
    /\ UNCHANGED <<payload, target, copies, ended, report>>

Arrives(c) ==
    /\ sender[c] = "sending" /\ sender' = [sender EXCEPT ![c] = "arrived"]
    /\ copies' = [copies EXCEPT ![c] = @ + 1]
    /\ UNCHANGED <<payload, target, attempts, signature, verdict, ended, report>>

ComesTo(c, what) ==
    /\ sender' = [sender EXCEPT ![c] = "judging"]
    /\ verdict' = [verdict EXCEPT ![c] = what]
    /\ UNCHANGED <<payload, target, attempts, signature, copies, ended, report>>

IsAnswered(c) == sender[c] = "arrived" /\ \E what \in AnswersTo(c) : ComesTo(c, what)
\* requestDeliveryError
NoAnswer(c) == sender[c] \in {"sending", "arrived"} /\ ComesTo(c, "lost")
Interrupted(c) == sender[c] \in {"sending", "arrived"} /\ ended /\ ComesTo(c, "canceled")

Judges(c, next) ==
    /\ sender[c] = "judging" /\ sender' = [sender EXCEPT ![c] = next]
    /\ UNCHANGED <<payload, target, attempts, signature, verdict, copies, ended, report>>

RetryLater(c) == Retryable(verdict[c]) /\ attempts[c] < Attempts /\ Judges(c, "pausing")
GiveUpChannel(c) == ~(Retryable(verdict[c]) /\ attempts[c] < Attempts) /\ Judges(c, "done")

PauseEnds(c) ==
    /\ sender[c] = "pausing" /\ sender' = [sender EXCEPT ![c] = "ready"]
    /\ UNCHANGED <<payload, target, attempts, signature, verdict, copies, ended, report>>
PauseCancelled(c) ==
    /\ sender[c] = "pausing" /\ ended
    /\ sender' = [sender EXCEPT ![c] = "done"]
    /\ verdict' = [verdict EXCEPT ![c] = "canceled"]
    /\ UNCHANGED <<payload, target, attempts, signature, copies, ended, report>>

\* deviation: the delivery counts as sent when one channel has taken it
Report_ ==
    /\ target # {} /\ ~report.given /\ \A c \in target : sender[c] = "done"
    /\ report' = [given |-> TRUE, sent |-> \E c \in target : verdict[c] = "ok",
                  failed |-> {c \in target : verdict[c] # "ok"}]
    /\ UNCHANGED <<payload, target, sender, attempts, signature, verdict, copies, ended>>
\* waitGroup.Wait, and the results of all channels
Report ==
    /\ target # {} /\ ~report.given /\ \A c \in target : sender[c] = "done"
    /\ report' = [given |-> TRUE, sent |-> \A c \in target : verdict[c] = "ok",
                  failed |-> {c \in target : verdict[c] # "ok"}]
    /\ UNCHANGED <<payload, target, sender, attempts, signature, verdict, copies, ended>>

\* The Server stops, or the caller gives up
ContextEnds ==
    /\ payload # "none" /\ ~ended /\ ended' = TRUE
    /\ UNCHANGED <<payload, target, sender, attempts, signature, verdict, copies, report>>

Sends(c) ==
    \/ Attempt(c) \/ Arrives(c) \/ IsAnswered(c) \/ NoAnswer(c) \/ Interrupted(c)
    \/ RetryLater(c) \/ GiveUpChannel(c) \/ PauseEnds(c) \/ PauseCancelled(c)
DeliveryNext == Deliver \/ ContextEnds \/ Report \/ \E c \in Channels : Sends(c)

DeliverySpec == DeliveryInit /\ [][DeliveryNext]_deliveryVars
-----------------------------------------------------------------------------
DeliveryTypeOK ==
    /\ payload \in {"none", "alert", "uptime", "task"} /\ target \subseteq Channels
    /\ sender \in [Channels -> {"idle", "ready", "sending", "arrived", "judging", "pausing",
                                "done"}]
    /\ attempts \in [Channels -> 0 .. Attempts] /\ copies \in [Channels -> 0 .. Attempts]

(***************************************************************************)
(* The report that is persisted is true: "sent" means that every channel   *)
(* has taken the notification, and a channel it does not blame has.  Only  *)
(* a channel that may not have understood is sent another copy, at most    *)
(* Attempts in all; who has taken or refused it is left alone.             *)
(***************************************************************************)
ReportTruthful ==
    /\ report.given =>
          /\ report.sent => target # {} /\ report.failed = {}
          /\ \A c \in target \ report.failed : verdict[c] = "ok" /\ copies[c] > 0
          /\ \A c \in target : sender[c] = "done"
    /\ \A c \in Channels :
          /\ copies[c] <= attempts[c] /\ attempts[c] <= Attempts
          /\ sender[c] \in {"pausing", "ready", "sending", "arrived"} =>
                verdict[c] \in {"none", "busy", "lost"}
=============================================================================
