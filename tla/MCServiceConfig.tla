---------------------------- MODULE MCServiceConfig ----------------------------
(* One good igniter, one that does not parse, two free ports.               *)
EXTENDS ServiceConfig
=============================================================================
