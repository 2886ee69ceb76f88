-------------------------------- MODULE Agent --------------------------------
(***************************************************************************)
(* The recovery agent in serve mode as a process: ServeWithPolicy in       *)
(* serve.go, run by cmd/atom-recovery/main.go.  It composes the handlers   *)
(* of Jobs with the core operations their goroutines run (Core), the data  *)
(* wipe of an unlock on the same slot directory, the network link, the     *)
(* unix socket, and the ways the process ends: a signal, a failed start,   *)
(* a kill.  A supervisor outside the repository starts it again.           *)
(***************************************************************************)
EXTENDS Jobs, Core

CONSTANT MaxEnds   \* bound: signals, kills and failed starts

ASSUME AgentAssumption ==
  /\ Requests \subseteq Callers
  /\ Verbs \subseteq {"fetch", "repair", "rollback", "loader"} /\ NoVerb = "none"
  /\ MaxEnds \in Nat

VARIABLES
  proc,    \* "none", "bound" to its socket, "serving", or "off": another mode runs
  socket,  \* the socket file: "none", "live", or "stale", left by a dead process
  ends     \* how many more times the process may end

procVars == <<proc, socket, ends>>
agentVars == <<vars, coreVars, procVars>>

AgentInit ==
  /\ Init /\ CoreInit
  /\ proc = "none" /\ socket = "none" /\ ends = MaxEnds

-------------------------------------------------------------------------------
(* The process *)

\* net.Listen alone: it fails while a file is in the way.
ListenOnly ==
  /\ proc = "none"
  /\ IF socket = "none" THEN proc' = "bound" /\ socket' = "live" ELSE UNCHANGED <<proc, socket>>
  /\ UNCHANGED <<vars, coreVars, ends>>

\* os.Remove, then net.Listen.
Listen ==
  /\ proc = "none"
  /\ proc' = "bound" /\ socket' = "live"
  /\ UNCHANGED <<vars, coreVars, ends>>

\* Permissions are set before the first request is served.
Serve ==
  /\ proc = "bound"
  /\ proc' = "serving"
  /\ UNCHANGED <<vars, coreVars, socket, ends>>

\* The process is gone: its goroutines end where they are, and the next one
\* starts with a new uiState.
Exit(file) ==
  /\ ends > 0 /\ ends' = ends - 1
  /\ proc' = "none" /\ socket' = file
  /\ state' = Idle /\ message' = NoVerb /\ online' = FALSE
  /\ pc' = [r \in Requests |-> "idle"]
  /\ verb' = [r \in Requests |-> NoVerb]
  /\ CallsCut

\* Listen, the group lookup, chown or chmod fails: the listener is closed, which
\* unlinks the file.
StartFails == proc \in {"none", "bound"} /\ Exit("none")

\* SIGINT or SIGTERM: srv.Close unlinks the socket, Serve returns, main returns.
Stop == proc \in {"bound", "serving"} /\ Exit("none")

Kill == proc \in {"bound", "serving"} /\ Exit("stale")

-------------------------------------------------------------------------------
(* The handlers *)

\* start's goroutine calls the core.
Job(r) ==
  \/ StartJob(r) /\ At(r, verb[r]) /\ UNCHANGED <<wal, bootState, slots, downloads, link, lag>>
  \/ CoreStep(r) /\ UNCHANGED vars

\* What fn returned is what is reported.
JobReturns(r) ==
  /\ call[r] \in {"ok", "failed"}
  /\ JobEnds(r) /\ state' = IF call[r] = "ok" THEN Done ELSE Failed
  /\ At(r, "none")
  /\ UNCHANGED <<wal, bootState, slots, downloads, link, lag>>

\* Connect returned without an error: associated, and a lease configured.
Connected(r) ==
  /\ SetOnline(r)
  /\ link' = TRUE
  /\ UNCHANGED <<wal, bootState, slots, downloads, call, lag>>

\* An unlock scrubs the slot directory under lockMu, which no job takes.
Wipe(r) == pc[r] = "unlocking" /\ Scrub /\ UNCHANGED vars

Handler(r) ==
  \/ /\ \/ \E v \in Verbs : CheckWorking(r, v)
        \/ ConnectBegins(r) \/ ConnectFails(r) \/ ConnectEnds(r)
        \/ UnlockBegins(r) \/ UnlockEnds(r)
     /\ UNCHANGED coreVars
  \/ Job(r) \/ JobReturns(r) \/ Connected(r) \/ Wipe(r)

AgentNext ==
  \/ proc = "serving" /\ (\E r \in Requests : Handler(r)) /\ UNCHANGED procVars
  \/ Listen \/ Serve \/ StartFails \/ Stop \/ Kill
  \/ LinkLost /\ UNCHANGED <<vars, procVars>>

\* A goroutine goes on and its calls end.  Connect bounds itself; jobs run under
\* context.Background(), so that the library's calls end is assumed of it.
GoesOn(r) ==
  /\ proc = "serving" /\ UNCHANGED procVars
  /\ \/ Job(r) \/ JobReturns(r) \/ Connected(r)
     \/ (ConnectFails(r) \/ ConnectEnds(r) \/ UnlockEnds(r)) /\ UNCHANGED coreVars

\* A process that was started gets to serve, and one that ended is started again.
AgentFairness ==
  /\ WF_agentVars(Listen) /\ WF_agentVars(Serve)
  /\ \A r \in Requests : WF_agentVars(GoesOn(r))

-------------------------------------------------------------------------------
(* Properties *)

AgentTypeOK ==
  /\ TypeOK /\ CoreTypeOK
  /\ proc \in {"none", "bound", "serving", "off"}
  /\ socket \in {"none", "live", "stale"}
  /\ ends \in 0..MaxEnds

\* However the last process ended, and whatever it left at the socket's path,
\* the next one gets to serve.
RestartServes == proc = "none" ~> proc = "serving"

\* "uiState tracks the async job the UI polls: which long action is running, its
\* coarse progress, and whether the network is up." (serve.go:51): while a job
\* runs the status says so, and it says online only with a link.
StatusTracks ==
  /\ (\E r \in Requests : pc[r] = "running") => state = Working
  /\ online => link
===============================================================================
