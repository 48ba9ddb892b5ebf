------------------------------ MODULE MCClient ------------------------------
(* Small instances of Client for TLC; the constants are given in the cfgs. *)
EXTENDS Client
============================================================================
