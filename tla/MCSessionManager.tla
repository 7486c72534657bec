-------------------------- MODULE MCSessionManager --------------------------
(* SessionManager on three ids, two places and three session objects: a    *)
(* full map, an id used twice and a scan that spans both.                  *)
EXTENDS SessionManager
=============================================================================
