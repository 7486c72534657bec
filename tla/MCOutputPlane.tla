---------------------------- MODULE MCOutputPlane ----------------------------
(* OutputPlane with one terminal and one buffered reader of either kind on a  *)
(* ring of two, so that each of them can lag.                                 *)
EXTENDS OutputPlane
==============================================================================
