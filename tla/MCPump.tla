------------------------------- MODULE MCPump -------------------------------
(* A small instance of Pump for TLC; its constants are given in the cfg. *)
EXTENDS Pump
=============================================================================
