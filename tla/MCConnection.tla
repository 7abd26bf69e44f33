---------------------------- MODULE MCConnection ----------------------------
(* Connection for model checking: the bounds are in the configuration. *)
EXTENDS Connection
=============================================================================
