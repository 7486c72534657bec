---------------------------- MODULE MCControlHub ----------------------------
(* ControlHub on one host name with two connections, so that the second    *)
(* displaces the first, and a spawn and a forwarder that compete for room. *)
EXTENDS ControlHub
=============================================================================
