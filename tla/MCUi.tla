--------------------------------- MODULE MCUi ---------------------------------
(* Three networks, one of them open; a word and a PIN of length one.             *)
EXTENDS Ui
===============================================================================
