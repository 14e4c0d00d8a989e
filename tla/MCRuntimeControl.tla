-------------------------- MODULE MCRuntimeControl --------------------------
(* A small instance of RuntimeControl: a controller, an operator and one   *)
(* other user of the log.                                                  *)
EXTENDS RuntimeControl
=============================================================================
