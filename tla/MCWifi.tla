-------------------------------- MODULE MCWifi --------------------------------
(* Two access points, two calls of Connect that overlap, and the networks that   *)
(* earlier calls have left in the supplicant.                                    *)
EXTENDS Wifi
===============================================================================
