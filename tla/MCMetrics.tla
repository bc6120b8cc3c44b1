------------------------------ MODULE MCMetrics ------------------------------
(* Instances of Metrics for TLC.                                            *)
EXTENDS Metrics, TLC

CONSTANTS w1, w2

TwoWorkers == {w1, w2}

(* The calls of a day without fresh connections; record_reconnect takes the *)
(* same steps as record_failure.                                            *)
Typical == {"reused", "failure", "snapshot"}
FreshOnly == {"fresh"}
=============================================================================
