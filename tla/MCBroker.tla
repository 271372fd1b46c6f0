------------------------------ MODULE MCBroker ------------------------------
(* Two brokers on one path and two clients. *)
EXTENDS Broker

CONSTANTS b1, b2, c1, c2
=============================================================================
