------------------------------ MODULE MCRecovery ------------------------------
(* Two handlers, the four actions of the agent, one owner. *)
EXTENDS Recovery

CONSTANTS r1, r2, alice
===============================================================================
