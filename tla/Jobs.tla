--------------------------------- MODULE Jobs ---------------------------------
(***************************************************************************)
(* The status line of the recovery agent (uiState in                       *)
(* internal/recovery/serve.go) and the handlers that write it: the         *)
(* background jobs started by POST /reinstall, /repair, /rollback and      *)
(* /repair-loader, the synchronous POST /connect, and POST                 *)
(* /unlock-bootloader.  Every handler runs in a goroutine of its own and   *)
(* uiState's mutex covers one access at a time, not a check and the write  *)
(* that follows it.                                                        *)
(***************************************************************************)
EXTENDS Naturals, FiniteSets

CONSTANTS
  Requests,   \* handler goroutines and the jobs they leave running
  Verbs,      \* the long actions: reinstall, repair, rollback, repair-loader
  NoVerb      \* a message that names none of them

ASSUME VerbsAssumption == NoVerb \notin Verbs

VARIABLES
  state,      \* uiState.state
  message,    \* uiState.message: the verb of a running action, or NoVerb
  online,     \* uiState.online
  pc,         \* where each request is
  verb        \* the action a start request is for

vars == <<state, message, online, pc, verb>>

\* uiState.state
Idle == 0
Connecting == 1
Working == 2
Done == 3
Failed == 4

Places == {"idle", "starting", "running", "connecting", "connected", "unlocking"}

Init ==
  /\ state = Idle /\ message = NoVerb /\ online = FALSE
  /\ pc = [r \in Requests |-> "idle"]
  /\ verb = [r \in Requests |-> NoVerb]

\* uiState.set; progress is 100 in state Done and -1 in every other one.
set(s, m) == state' = s /\ message' = m

Goes(r, place) == pc' = [pc EXCEPT ![r] = place]

-------------------------------------------------------------------------------

\* start: ui.working() is false.  When it is true the handler answers
\* {"started": false} and nothing changes.
CheckWorking(r, v) ==
  /\ pc[r] = "idle" /\ state # Working
  /\ verb' = [verb EXCEPT ![r] = v]
  /\ Goes(r, "starting")
  /\ UNCHANGED <<state, message, online>>

StartJobAsFive(r) ==
  /\ pc[r] = "starting"
  /\ set(Failed + 1, verb[r])
  /\ Goes(r, "running")
  /\ UNCHANGED <<online, verb>>

\* start: ui.set(2, ...) and the goroutine.
StartJob(r) ==
  /\ pc[r] = "starting"
  /\ set(Working, verb[r])
  /\ Goes(r, "running")
  /\ UNCHANGED <<online, verb>>

FailureNotReported(r) ==
  /\ pc[r] = "running"
  /\ set(Done, NoVerb) \/ UNCHANGED <<state, message>>
  /\ Goes(r, "idle")
  /\ verb' = [verb EXCEPT ![r] = NoVerb]
  /\ UNCHANGED online

\* The goroutine's fn returned: done or failed.
JobEnds(r) ==
  /\ pc[r] = "running"
  /\ set(Done, NoVerb) \/ set(Failed, NoVerb)
  /\ Goes(r, "idle")
  /\ verb' = [verb EXCEPT ![r] = NoVerb]
  /\ UNCHANGED online

ConnectBegins(r) ==
  /\ pc[r] = "idle"
  /\ set(Connecting, NoVerb)
  /\ Goes(r, "connecting")
  /\ UNCHANGED <<online, verb>>

ConnectFailsQuietly(r) ==
  /\ pc[r] = "connecting"
  /\ Goes(r, "idle")
  /\ UNCHANGED <<state, message, online, verb>>

ConnectFails(r) ==
  /\ pc[r] = "connecting"
  /\ set(Failed, NoVerb)
  /\ Goes(r, "idle")
  /\ UNCHANGED <<online, verb>>

\* ui.setOnline(true), an access of its own ...
SetOnline(r) ==
  /\ pc[r] = "connecting"
  /\ online' = TRUE
  /\ Goes(r, "connected")
  /\ UNCHANGED <<state, message, verb>>

\* ... then ui.set(0, ...).
ConnectEnds(r) ==
  /\ pc[r] = "connected"
  /\ set(Idle, NoVerb)
  /\ Goes(r, "idle")
  /\ UNCHANGED <<online, verb>>

UnlockBegins(r) ==
  /\ pc[r] = "idle"
  /\ Goes(r, "unlocking")
  /\ UNCHANGED <<state, message, online, verb>>

\* Only a successful unlock is shown.
UnlockEnds(r) ==
  /\ pc[r] = "unlocking"
  /\ set(Done, NoVerb) \/ UNCHANGED <<state, message>>
  /\ Goes(r, "idle")
  /\ UNCHANGED <<online, verb>>

-------------------------------------------------------------------------------

Ends(r) == JobEnds(r) \/ ConnectFails(r) \/ SetOnline(r) \/ ConnectEnds(r) \/ UnlockEnds(r)

Next ==
  \E r \in Requests :
    \/ \E v \in Verbs : CheckWorking(r, v)
    \/ StartJob(r) \/ ConnectBegins(r) \/ UnlockBegins(r) \/ Ends(r)

Spec == Init /\ [][Next]_vars

-------------------------------------------------------------------------------
(* Properties *)

TypeOK ==
  /\ state \in Idle..Failed
  /\ message \in Verbs \cup {NoVerb}
  /\ online \in BOOLEAN
  /\ pc \in [Requests -> Places]
  /\ verb \in [Requests -> Verbs \cup {NoVerb}]

\* What GET /status says is going on is going on: "working" names an action
\* whose job is running, "connecting" has a connect under way, whatever else
\* races with it.  The UI waits for it, so it must never outlive its cause.
BusyIsTrue ==
  /\ state = Working => \E r \in Requests : pc[r] = "running" /\ verb[r] = message
  /\ state = Connecting => \E r \in Requests : pc[r] \in {"connecting", "connected"}

\* The progress screen, which only ends on done or failed, is never stuck: a
\* busy status is always replaced, whatever the outcome.
BusyEnds ==
  /\ state = Working ~> state # Working
  /\ state = Connecting ~> state # Connecting
=============================================================================
