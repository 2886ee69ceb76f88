-------------------------------- MODULE MCPind --------------------------------
(* Two connections of two accounts, whose first PINs are named after them. *)
EXTENDS Pind

CONSTANTS c1, c2, alice, bob, fresh, short
===============================================================================
