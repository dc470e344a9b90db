------------------------------- MODULE MCServer -------------------------------
(***************************************************************************)
(* Small instances of the uptime monitors, which administrators edit while *)
(* the Server checks them, and of the delivery of a notification.  A       *)
(* behaviour follows one of the two.                                       *)
(***************************************************************************)
EXTENDS Uptime, Delivery

CONSTANTS robot, stranger

VARIABLE focus

serverVars == <<focus, vars, deliveryVars>>

Fails(n) == [interval |-> 1, threshold |-> n]
TwoPlans == {Fails(1), Fails(2)}
Enabled  == {[plan |-> Fails(1), enabled |-> TRUE]}
AllEdits == {"check", "put", "toggle", "delete"}
Probed   == {"secure", "expiring", "down"}

Types == [c \in Channels |-> IF c = robot THEN "dingtalk" ELSE "unknown"]

ServerInit ==
    /\ focus \in {"uptime", "delivery"}
    /\ Init /\ DeliveryInit

\* One request and a fault or crash, or two requests
FewRequests == requests' + faults' <= 2

ServerNext ==
    /\ UNCHANGED focus
    /\ \/ focus = "uptime" /\ Next /\ FewRequests /\ UNCHANGED deliveryVars
       \/ focus = "delivery" /\ DeliveryNext /\ UNCHANGED vars

\* No fair action is enabled in an initial state: fairness only tells on the focus.
ServerSpec == ServerInit /\ [][ServerNext]_serverVars /\ Fairness
=============================================================================
