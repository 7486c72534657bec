--------------------------- MODULE MCControlPlane ---------------------------
(* ControlPlane on two connections, so that a host comes back once.        *)
EXTENDS ControlPlane
=============================================================================
