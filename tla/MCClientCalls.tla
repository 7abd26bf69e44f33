---------------------------- MODULE MCClientCalls ----------------------------
(* Constants of ClientCalls for model checking. *)
EXTENDS ClientCalls, TLC
CONSTANTS t1, t2
OneEach == (t1 :> "setChannel") @@ (t2 :> "purge")
=============================================================================
