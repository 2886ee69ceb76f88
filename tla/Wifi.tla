--------------------------------- MODULE Wifi ---------------------------------
(***************************************************************************)
(* Client.Connect and Scan (internal/wifi/wifi.go): the commands a call    *)
(* sends to wpa_supplicant, the poll for COMPLETED and the lease, with     *)
(* wpa_supplicant itself as the environment.  Every POST /connect runs its *)
(* own call, on its own control socket, against the one supplicant of the  *)
(* interface; no lock keeps two of them apart.                             *)
(***************************************************************************)
EXTENDS Integers, FiniteSets, Sequences

CONSTANTS
  Calls,          \* handler goroutines that may run Connect
  Ssids,          \* network names
  MaxConcurrent,  \* how many Connect calls run at a time
  MaxPolls,       \* bound: STATUS polls that fit before the 30 s deadline
  MaxNetworks     \* bound: networks the supplicant is ever given

ASSUME ConstantsAssumption ==
  /\ IsFiniteSet(Calls) /\ MaxConcurrent \in Nat
  /\ MaxPolls \in Nat \ {0}
  /\ MaxNetworks \in Nat

VARIABLES
  pc,         \* where each call is
  ask,        \* what each call was asked for: a name, and whether its key is right
  id,         \* the network id ADD_NETWORK answered
  polls,      \* STATUS polls so far
  cancelled,  \* the call's context is done
  networks,   \* external: the supplicant's network blocks, by id
  selected,   \* external: the one SELECT_NETWORK left enabled, 0 for none
  assoc       \* external: the one wpa_state is COMPLETED for, 0 for none

vars == <<pc, ask, id, polls, cancelled, networks, selected, assoc>>

Keys == {"unset", "right", "wrong"}
NoName == "no name"
NoAsk == [ssid |-> NoName, key |-> "unset"]

\* A network block: a new one has neither name nor key.
Blocks == [ssid : Ssids \cup {NoName}, key : Keys]

Steps == {"idle", "sweep", "results", "add", "ssid", "key", "select", "wait", "lease"}

Init ==
  /\ pc = [c \in Calls |-> "idle"]
  /\ ask = [c \in Calls |-> NoAsk]
  /\ id = [c \in Calls |-> 0]
  /\ polls = [c \in Calls |-> 0]
  /\ cancelled = [c \in Calls |-> FALSE]
  /\ networks = <<>>
  /\ selected = 0
  /\ assoc = 0

GoTo(c, step) == pc' = [pc EXCEPT ![c] = step]

Supplicant == <<networks, selected, assoc>>

Admitted(c) ==
  /\ pc[c] = "idle"
  /\ Cardinality({d \in Calls : pc[d] # "idle"}) < MaxConcurrent

-------------------------------------------------------------------------------
(* Scan *)

\* SCAN, which starts a sweep and leaves networks and association alone.
Scan(c) ==
  /\ Admitted(c)
  /\ GoTo(c, "sweep")
  /\ cancelled' = [cancelled EXCEPT ![c] = FALSE]
  /\ UNCHANGED <<ask, id, polls, networks, selected, assoc>>

\* Three seconds pass, or the context ends the wait.
Sweep(c) ==
  /\ pc[c] = "sweep"
  /\ GoTo(c, "results") \/ (cancelled[c] /\ GoTo(c, "idle"))
  /\ UNCHANGED <<ask, id, polls, cancelled, networks, selected, assoc>>

\* SCAN_RESULTS is answered and parsed, or fails.
ScanResults(c) ==
  /\ pc[c] = "results"
  /\ GoTo(c, "idle")
  /\ UNCHANGED <<ask, id, polls, cancelled, networks, selected, assoc>>

-------------------------------------------------------------------------------
(* Connect *)

\* Bound: the supplicant has room for every call that is let in.
Room == Len(networks) + Cardinality({d \in Calls : pc[d] = "add"}) < MaxNetworks

Begin(c, ssid, key) ==
  /\ Admitted(c) /\ Room
  /\ GoTo(c, "add")
  /\ ask' = [ask EXCEPT ![c] = [ssid |-> ssid, key |-> key]]
  /\ id' = [id EXCEPT ![c] = 0]
  /\ polls' = [polls EXCEPT ![c] = 0]
  /\ cancelled' = [cancelled EXCEPT ![c] = FALSE]
  /\ UNCHANGED Supplicant

AddNetwork(c) ==
  /\ pc[c] = "add" /\ Len(networks) < MaxNetworks
  /\ networks' = Append(networks, NoAsk)
  /\ id' = [id EXCEPT ![c] = Len(networks')]
  /\ GoTo(c, "ssid")
  /\ UNCHANGED <<ask, polls, cancelled, selected, assoc>>

SetNetworkLatest(c, step, next, block) ==
  /\ pc[c] = step
  /\ \/ networks' = [networks EXCEPT ![Len(networks)] = block] /\ GoTo(c, next)
     \/ UNCHANGED networks /\ GoTo(c, "idle")
  /\ UNCHANGED <<ask, id, polls, cancelled, selected, assoc>>

\* SET_NETWORK: answered OK, or refused and the block left as it is.
SetNetwork(c, step, next, block) ==
  /\ pc[c] = step
  /\ \/ networks' = [networks EXCEPT ![id[c]] = block] /\ GoTo(c, next)
     \/ UNCHANGED networks /\ GoTo(c, "idle")
  /\ UNCHANGED <<ask, id, polls, cancelled, selected, assoc>>

SetSsid(c) == SetNetwork(c, "ssid", "key", [networks[id[c]] EXCEPT !.ssid = ask[c].ssid])

SetKey(c) == SetNetwork(c, "key", "select", [networks[id[c]] EXCEPT !.key = ask[c].key])

\* SELECT_NETWORK takes effect: every other network is disabled and the link to
\* it is taken down.
Selected(c) ==
  /\ selected' = id[c]
  /\ assoc' = IF assoc = id[c] THEN assoc ELSE 0
  /\ UNCHANGED networks

\* The reply is not looked at: a refused SELECT_NETWORK leaves the network that
\* was selected, and the link to it, and the call goes on all the same.
SelectNetwork(c) ==
  /\ pc[c] = "select"
  /\ Selected(c) \/ UNCHANGED Supplicant
  /\ GoTo(c, "wait")
  /\ UNCHANGED <<ask, id, polls, cancelled>>

waitConnectedUnbounded(c) ==
  /\ pc[c] = "wait" /\ UNCHANGED polls
  /\ GoTo(c, IF cancelled[c] THEN "idle" ELSE IF assoc # 0 THEN "lease" ELSE "wait")
  /\ UNCHANGED <<ask, id, cancelled, networks, selected, assoc>>

waitConnectedPastDeadline(c) ==
  /\ pc[c] = "wait"
  /\ \/ ~ cancelled[c] /\ assoc # 0 /\ GoTo(c, "lease") /\ UNCHANGED polls
     \/ /\ ~ cancelled[c] /\ assoc = 0
        /\ polls' = [polls EXCEPT ![c] = @ + 1]
        /\ GoTo(c, IF polls[c] > MaxPolls THEN "idle" ELSE "wait")
     \/ cancelled[c] /\ GoTo(c, "idle") /\ UNCHANGED polls
  /\ UNCHANGED <<ask, id, cancelled, networks, selected, assoc>>

\* One round of waitConnected: the context, then STATUS, then the deadline.
waitConnected(c) ==
  /\ pc[c] = "wait"
  /\ \/ ~ cancelled[c] /\ assoc # 0 /\ GoTo(c, "lease") /\ UNCHANGED polls
     \/ /\ ~ cancelled[c] /\ assoc = 0
        /\ polls' = [polls EXCEPT ![c] = @ + 1]
        /\ GoTo(c, IF polls'[c] = MaxPolls THEN "idle" ELSE "wait")
     \/ cancelled[c] /\ GoTo(c, "idle") /\ UNCHANGED polls
  /\ UNCHANGED <<ask, id, cancelled, networks, selected, assoc>>

\* runDHCP returns, with a lease or an error, and Connect with it.
lease(c) ==
  /\ pc[c] = "lease"
  /\ GoTo(c, "idle")
  /\ UNCHANGED <<ask, id, polls, cancelled, networks, selected, assoc>>

\* cmd fails: the write is refused, or no answer comes within 3 s although the
\* supplicant acted on the command (a block that only got its name or key so is
\* never selected and is left out).  Connect returns and removes no network.
CmdFails(c) ==
  /\ pc[c] \in {"add", "ssid", "key", "select", "wait"}
  /\ GoTo(c, "idle")
  /\ \/ UNCHANGED Supplicant
     \/ /\ pc[c] = "add" /\ Len(networks) < MaxNetworks
        /\ networks' = Append(networks, NoAsk)
        /\ UNCHANGED <<selected, assoc>>
     \/ pc[c] = "select" /\ Selected(c)
  /\ UNCHANGED <<ask, id, polls, cancelled>>

\* The client of the HTTP request goes away.
Cancel(c) ==
  /\ pc[c] # "idle" /\ ~ cancelled[c]
  /\ cancelled' = [cancelled EXCEPT ![c] = TRUE]
  /\ UNCHANGED <<pc, ask, id, polls, networks, selected, assoc>>

Proceeds(c) ==
  \/ AddNetwork(c) \/ SetSsid(c) \/ SetKey(c) \/ SelectNetwork(c)
  \/ waitConnected(c) \/ lease(c) \/ Sweep(c) \/ ScanResults(c)

Connect(c) == Proceeds(c) \/ CmdFails(c)

-------------------------------------------------------------------------------
(* wpa_supplicant and the access points *)

\* The selected network is in range and its key is accepted.
Associate ==
  /\ assoc = 0 /\ selected # 0
  /\ networks[selected].key = "right"
  /\ assoc' = selected
  /\ UNCHANGED <<pc, ask, id, polls, cancelled, networks, selected>>

LinkLost ==
  /\ assoc # 0
  /\ assoc' = 0
  /\ UNCHANGED <<pc, ask, id, polls, cancelled, networks, selected>>

-------------------------------------------------------------------------------

Call(c) ==
  \/ \E ssid \in Ssids, key \in {"right", "wrong"} : Begin(c, ssid, key)
  \/ Scan(c) \/ Connect(c) \/ Cancel(c)

Next == (\E c \in Calls : Call(c)) \/ Associate \/ LinkLost

Spec == Init /\ [][Next]_vars

\* The goroutine of a call runs; cmd bounds every wait for an answer and exchange
\* that for a lease.  Nothing is asked of the supplicant.
Fairness == \A c \in Calls : WF_vars(Proceeds(c))

FairSpec == Spec /\ Fairness

-------------------------------------------------------------------------------
(* Properties *)

TypeOK ==
  /\ pc \in [Calls -> Steps]
  /\ ask \in [Calls -> Blocks]
  /\ id \in [Calls -> 0..MaxNetworks]
  /\ polls \in [Calls -> 0..MaxPolls]
  /\ cancelled \in [Calls -> BOOLEAN]
  /\ networks \in Seq(Blocks) /\ Len(networks) <= MaxNetworks
  /\ selected \in 0..Len(networks)
  /\ assoc \in {0, selected}

\* Any number of calls may overlap, and any command be refused: the call whose
\* block is the selected one when it takes the link for its own goes on to its
\* lease on that block, a link to the network it was asked for, with a key that
\* is right.  No other call can have changed the block, and neither an old link
\* nor the link of another call can pass for it (Connect, waitConnected).
LastSelectedIsAsAsked ==
  [][\A c \in Calls :
       (pc[c] = "wait" /\ pc'[c] = "lease" /\ selected = id[c])
         => /\ assoc = id[c] /\ networks[assoc].ssid = ask[c].ssid
            /\ ask[c].key = "right"]_vars

\* "Connect associates with ssid [...], waits for the link to reach COMPLETED,
\* then acquires a DHCP lease" (wifi.go:126): the link a call goes on to the
\* lease with is a link to the network it was asked for.
AssociatedAsAsked ==
  [][\A c \in Calls :
       (pc[c] = "wait" /\ pc'[c] = "lease")
         => assoc # 0 /\ networks[assoc].ssid = ask[c].ssid]_vars

\* Every Scan and every Connect returns, whatever the supplicant does.
ConnectEnds == \A c \in Calls : pc[c] # "idle" ~> pc[c] = "idle"
===============================================================================
