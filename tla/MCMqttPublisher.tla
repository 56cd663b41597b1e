--------------------------- MODULE MCMqttPublisher ---------------------------
(***************************************************************************)
(* Instances of MqttPublisher for TLC: one identifier with two contents    *)
(* makes retries and conflicts.                                            *)
(***************************************************************************)
EXTENDS MqttPublisher

CONSTANTS c1, c2, c3, b1, b2
=============================================================================
