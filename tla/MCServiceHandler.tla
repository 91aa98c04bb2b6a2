---------------------------- MODULE MCServiceHandler ----------------------------
(* A chain with a middleware of the application behind the monitor. *)
EXTENDS ServiceHandler

MCMiddlewares == <<"monitor", "other">>
=============================================================================
