------------------------------- MODULE Recovery -------------------------------
(***************************************************************************)
(* cmd/atom-recovery/main.go: one process in the recovery image, started   *)
(* in serve mode for the Cairo UI or in tty mode on the console, over the  *)
(* same core.                                                              *)
(***************************************************************************)
EXTENDS Agent, Tty

VARIABLE mode   \* -mode: "serve" or "tty"

recoveryVars == <<agentVars, txVars, ttyVars, mode>>

run ==
  \/ mode = "serve" /\ AgentInit /\ TxInit
       /\ at = "gone" /\ echo = TRUE /\ eof = FALSE /\ interrupted = FALSE
       /\ typed = {} /\ said = ""
  \/ mode = "tty" /\ TtyInit /\ Init
       /\ proc = "off" /\ socket = "none" /\ ends = MaxEnds

RecoveryNext ==
  /\ \/ mode = "serve" /\ AgentNext /\ UNCHANGED <<txVars, ttyVars>>
     \/ mode = "tty" /\ TtyNext /\ UNCHANGED <<vars, procVars>>
  /\ UNCHANGED mode

RecoverySpec == run /\ [][RecoveryNext]_recoveryVars

\* The fair actions of a mode are disabled in the other one.
FairRecoverySpec == RecoverySpec /\ AgentFairness /\ TtyFairness

-------------------------------------------------------------------------------
(* Properties; the others are with the parts they are about. *)

RecoveryTypeOK == mode \in {"serve", "tty"} /\ AgentTypeOK /\ TtyTypeOK
===============================================================================
