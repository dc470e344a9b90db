----------------------------- MODULE MCAlerting -----------------------------
(***************************************************************************)
(* Small instances of Alerting for TLC.                                    *)
(***************************************************************************)
EXTENDS Alerting

CONSTANTS n1, n2

OnHigh(enabled, duration, nodes) ==
    [enabled |-> enabled, alarm |-> {"high"}, duration |-> duration,
     scope |-> nodes, channels |-> TRUE]

AfterTwo  == {OnHigh(TRUE, 2, {n1})}
OneNode   == {OnHigh(enabled, 1, {n1}) : enabled \in BOOLEAN}
=============================================================================
