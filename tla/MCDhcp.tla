-------------------------------- MODULE MCDhcp --------------------------------
(* Two servers, of which s1 names itself, has a router and a name server, and    *)
(* two addresses, so that offers, grants and refusals can be mixed up.           *)
EXTENDS Dhcp

CONSTANTS s1, s2, a1, a2
===============================================================================
