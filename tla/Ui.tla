---------------------------------- MODULE Ui ----------------------------------
(***************************************************************************)
(* The screens of the Cairo UI (ui/cairo/src/main.zig) and the calls it    *)
(* makes to the agent (ui/cairo/src/api.zig).  The UI is one thread: an    *)
(* iteration of its loop takes at most one key, handles it, refreshes what *)
(* it knows of the agent on every third frame, and draws.  A call blocks   *)
(* it and comes back empty when the agent is gone; meanwhile the agent's   *)
(* jobs run on.                                                            *)
(*                                                                         *)
(* Text is abstracted to what the screens tell apart: the PIN to its       *)
(* length, the confirmation word to which of its letters are right, the    *)
(* Wi-Fi password to the network that was on screen when each character    *)
(* was typed.  The agent is what GET /status and GET /lock-state say of    *)
(* it; module Jobs and module Unlock hold its details.                     *)
(***************************************************************************)
EXTENDS Integers, Sequences, FiniteSets

CONSTANTS
  Nets, Secure,      \* networks in range, and those that need a password
  NoNet,             \* the empty sel_ssid
  WordLen,           \* letters of unlock_word
  MinPin,            \* shortest PIN the UI sends on
  MaxTyped,          \* bound: characters typed past what is asked for
  MaxJobs            \* bound: jobs running at once

ASSUME UiAssumption ==
  /\ Secure \subseteq Nets /\ NoNet \notin Nets
  /\ WordLen \in Nat \ {0} /\ MinPin \in Nat \ {0}
  /\ MaxTyped \in Nat /\ MaxJobs \in Nat

VARIABLES
  screen, pc, frame,      \* the screen, the place in the loop, the frame modulo 3
  status, lock,           \* what the UI last read of the agent
  nets, ssid, psk,        \* the scan shown, the network chosen, the password
  pin, word,              \* length of the PIN, the confirmation typed
  up, state, online,      \* the agent: it answers, uiState.state, uiState.online
  jobs,                   \* the agent's running jobs
  locked, armed,          \* the lock bit, the consent in the flag
  died                    \* the agent has died since progress was last entered

entries == <<nets, ssid, psk, pin, word>>
ui == <<screen, pc, frame, status, lock, nets, ssid, psk, pin, word>>
agent == <<up, state, online, jobs, locked, armed, died>>
vars == <<ui, agent>>

\* api.State
Idle == 0
Connecting == 1
Working == 2
Done == 3
Failed == 4

Screens == {"menu", "wifi", "password", "progress",
            "unlock_warn", "unlock_pin", "unlock_confirm", "unlock_blocked"}

Unread == [read |-> FALSE, locked |-> TRUE, armed |-> FALSE]

\* What getLockState may leave in the UI.  The agent reports an unreadable lock
\* bit as locked.
LockAnswers ==
  IF up THEN {[read |-> TRUE, locked |-> l, armed |-> armed] : l \in {locked, TRUE}}
  ELSE {Unread}

\* What statusGet may leave: an unanswered call leaves what was there.
StatusAnswer == IF up THEN [state |-> state, online |-> online] ELSE status

\* unlockMatches
WordMatches == word = [i \in 1..WordLen |-> TRUE]

Init ==
  /\ up = TRUE /\ state = Idle /\ online = FALSE /\ jobs = 0 /\ died = FALSE
  /\ locked \in BOOLEAN /\ armed \in BOOLEAN
  /\ screen = "menu" /\ pc = "input" /\ frame = 0
  /\ status = [state |-> Idle, online |-> FALSE]
  /\ lock \in LockAnswers
  /\ nets = {} /\ ssid = NoNet /\ psk = <<>>
  /\ pin = 0 /\ word = <<>>

\* The handler of a key is over and leaves screen s.
Shows(s) == screen' = s /\ pc' = "frame"

Key(s) == pc = "input" /\ screen = s

-------------------------------------------------------------------------------
(* The menu and the Wi-Fi screens *)

\* POST /reinstall, /repair or /repair-loader.  post only looks whether an
\* answer came: {"started": false} is taken for a start.
StartAction(verb) ==
  /\ Key("menu")
  /\ verb = "reinstall" => status.online
  /\ \/ ~up /\ Shows("menu") /\ UNCHANGED <<state, jobs, died>>
     \/ /\ up /\ Shows("progress") /\ died' = FALSE
        /\ \/ state = Working /\ UNCHANGED <<state, jobs>>
           \/ /\ state # Working /\ jobs < MaxJobs
              /\ state' = Working /\ jobs' = jobs + 1
  /\ UNCHANGED <<frame, status, lock, entries, up, online, locked, armed>>

\* A scan that fails lists nothing.  A list without some network only takes
\* choices away, so the whole list stands for all that are not empty.
goWifi ==
  /\ Key("menu") /\ ~status.online
  /\ nets' = {} \/ (up /\ nets' = Nets)
  /\ Shows("wifi")
  /\ UNCHANGED <<frame, status, lock, ssid, psk, pin, word, agent>>

\* The agent's side of POST /connect; the UI ignores the outcome.
Connect ==
  /\ \/ ~up /\ UNCHANGED <<state, online>>
     \/ up /\ state' = Idle /\ online' = TRUE
     \/ up /\ state' = Failed /\ UNCHANGED online
  /\ Shows("menu")
  /\ UNCHANGED <<up, jobs, locked, armed, died>>

ChooseKeepsPassword(n) ==
  /\ Key("wifi") /\ n \in nets
  /\ ssid' = n
  /\ \/ n \in Secure /\ Shows("password") /\ UNCHANGED <<psk, agent>>
     \/ n \notin Secure /\ Connect /\ UNCHANGED psk
  /\ UNCHANGED <<frame, status, lock, nets, pin, word>>

\* An open network connects at once, with no password.
Choose(n) ==
  /\ Key("wifi") /\ n \in nets
  /\ ssid' = n
  /\ \/ n \in Secure /\ psk' = <<>> /\ Shows("password") /\ UNCHANGED agent
     \/ n \notin Secure /\ Connect /\ UNCHANGED psk
  /\ UNCHANGED <<frame, status, lock, nets, pin, word>>

SendPassword ==
  /\ Key("password")
  /\ Connect
  /\ UNCHANGED <<frame, status, lock, entries>>

-------------------------------------------------------------------------------
(* Typing: entry picks the buffer of the screen *)

entryPut ==
  /\ pc = "input" /\ screen \in {"password", "unlock_pin", "unlock_confirm"}
  /\ CASE screen = "unlock_confirm" ->
            /\ Len(word) < WordLen + MaxTyped
            /\ \E right \in BOOLEAN : word' = Append(word, right)
            /\ UNCHANGED <<pin, psk>>
       [] screen = "unlock_pin" ->
            pin < MinPin + MaxTyped /\ pin' = pin + 1 /\ UNCHANGED <<word, psk>>
       [] OTHER ->
            Len(psk) < MaxTyped /\ psk' = Append(psk, ssid) /\ UNCHANGED <<word, pin>>
  /\ Shows(screen)
  /\ UNCHANGED <<frame, status, lock, nets, ssid, agent>>

entryDelUnderflow ==
  /\ pc = "input" /\ screen = "unlock_pin"
  /\ pin' = pin - 1
  /\ Shows(screen)
  /\ UNCHANGED <<frame, status, lock, nets, ssid, psk, word, agent>>

entryDel ==
  /\ pc = "input" /\ screen \in {"password", "unlock_pin", "unlock_confirm"}
  /\ CASE screen = "unlock_confirm" ->
            word # <<>> /\ word' = SubSeq(word, 1, Len(word) - 1) /\ UNCHANGED <<pin, psk>>
       [] screen = "unlock_pin" ->
            pin > 0 /\ pin' = pin - 1 /\ UNCHANGED <<word, psk>>
       [] OTHER ->
            psk # <<>> /\ psk' = SubSeq(psk, 1, Len(psk) - 1) /\ UNCHANGED <<word, pin>>
  /\ Shows(screen)
  /\ UNCHANGED <<frame, status, lock, nets, ssid, agent>>

-------------------------------------------------------------------------------
(* The unlock screens *)

\* "Unlock bootloader" in the menu.
EnterUnlock ==
  /\ Key("menu")
  /\ word' = <<>> /\ pin' = 0
  /\ lock' \in LockAnswers
  /\ Shows(CASE ~lock'.read -> "unlock_blocked"
             [] lock'.read /\ ~lock'.locked -> "menu"
             [] lock'.read /\ lock'.locked /\ ~lock'.armed -> "unlock_blocked"
             [] OTHER -> "unlock_warn")
  /\ UNCHANGED <<frame, status, nets, ssid, psk, agent>>

AcceptWarning ==
  /\ Key("unlock_warn")
  /\ word' = <<>>
  /\ Shows("unlock_pin")
  /\ UNCHANGED <<frame, status, lock, nets, ssid, psk, pin, agent>>

\* The agent gone: its jobs and its status with it.
AgentGone ==
  /\ up' = FALSE /\ state' = Idle /\ online' = FALSE /\ jobs' = 0 /\ died' = TRUE

\* Esc on the warning: disarmUnlock.  A refusal, or an answer that the agent's
\* death cost, keeps the screen.
Disarm ==
  /\ Key("unlock_warn")
  /\ \/ up /\ armed' = FALSE /\ Shows("menu") /\ UNCHANGED <<up, state, online, jobs, died>>
     \/ Shows("unlock_warn") /\ UNCHANGED <<up, state, online, jobs, armed, died>>
     \/ up /\ armed' = FALSE /\ AgentGone /\ Shows("unlock_warn")
  /\ UNCHANGED <<frame, status, lock, entries, locked>>

AcceptPIN ==
  /\ Key("unlock_pin") /\ pin >= MinPin
  /\ word' = <<>>
  /\ Shows("unlock_confirm")
  /\ UNCHANGED <<frame, status, lock, nets, ssid, psk, pin, agent>>

ConfirmKeepsPIN ==
  /\ Key("unlock_confirm") /\ WordMatches
  /\ lock' \in LockAnswers
  /\ IF lock'.read /\ lock'.locked /\ lock'.armed
     THEN pc' = "confirmed" /\ UNCHANGED <<screen, pin, word>>
     ELSE Shows("unlock_blocked") /\ word' = <<>> /\ UNCHANGED pin
  /\ UNCHANGED <<frame, status, nets, ssid, psk, agent>>

ConfirmUnread ==
  /\ Key("unlock_confirm")
  /\ lock' \in LockAnswers
  /\ IF lock'.read /\ lock'.locked /\ lock'.armed
     THEN pc' = "confirmed" /\ UNCHANGED <<screen, pin, word>>
     ELSE Shows("unlock_blocked") /\ word' = <<>> /\ pin' = 0
  /\ UNCHANGED <<frame, status, nets, ssid, psk, agent>>

\* F2 with the word typed: the lock state is read again before the unlock is
\* asked for, and the agent may change between the two calls.
Confirm ==
  /\ Key("unlock_confirm") /\ WordMatches
  /\ lock' \in LockAnswers
  /\ IF lock'.read /\ lock'.locked /\ lock'.armed
     THEN pc' = "confirmed" /\ UNCHANGED <<screen, pin, word>>
     ELSE Shows("unlock_blocked") /\ word' = <<>> /\ pin' = 0
  /\ UNCHANGED <<frame, status, nets, ssid, psk, agent>>

\* unlockBootloader.  The agent reports success with the bit flipped and the
\* consent, unless its last write failed, cleared.  It may also refuse, or fail
\* or die on the way, before or after the bit has flipped.
Unlock ==
  /\ pc = "confirmed"
  /\ \/ /\ up /\ armed
        /\ locked' = FALSE /\ armed' \in BOOLEAN /\ state' = Done
        /\ Shows("progress") /\ died' = FALSE
        /\ UNCHANGED <<up, online, jobs>>
     \/ Shows("unlock_pin") /\ UNCHANGED agent
     \/ /\ up /\ armed
        /\ locked' \in {locked, FALSE} /\ armed' \in BOOLEAN
        /\ AgentGone \/ UNCHANGED <<up, state, online, jobs, died>>
        /\ Shows("unlock_pin")
  /\ word' = <<>> /\ pin' = 0
  /\ UNCHANGED <<frame, status, lock, nets, ssid, psk>>

-------------------------------------------------------------------------------
(* Esc on the other screens, keys without effect, and the loop *)

\* Enter leaves the blocked screen too.
Back ==
  /\ pc = "input"
  /\ \/ screen \in {"wifi", "unlock_blocked"} /\ Shows("menu") /\ UNCHANGED <<pin, word>>
     \/ screen = "password" /\ Shows("wifi") /\ UNCHANGED <<pin, word>>
     \/ screen = "progress" /\ status.state \in {Done, Failed} /\ Shows("menu") /\ UNCHANGED <<pin, word>>
     \/ screen = "unlock_pin" /\ Shows("unlock_warn") /\ pin' = 0 /\ UNCHANGED word
     \/ screen = "unlock_confirm" /\ Shows("unlock_pin") /\ word' = <<>> /\ UNCHANGED pin
  /\ UNCHANGED <<frame, status, lock, nets, ssid, psk, agent>>

\* No key within the time of the poll, or one the screen ignores.
NoKey ==
  /\ pc = "input"
  /\ Shows(screen)
  /\ UNCHANGED <<frame, status, lock, entries, agent>>

RefreshOnMenu ==
  /\ pc = "frame" /\ pc' = "input"
  /\ frame' = (frame + 1) % 3
  /\ IF frame' = 0 /\ screen = "menu" THEN status' = StatusAnswer /\ lock' \in LockAnswers
     ELSE UNCHANGED <<status, lock>>
  /\ UNCHANGED <<screen, entries, agent>>

\* The end of the loop's body: every third frame refreshes the status and, on
\* the menu, the lock state; then the screen is drawn.
Refresh ==
  /\ pc = "frame" /\ pc' = "input"
  /\ frame' = (frame + 1) % 3
  /\ status' = IF frame' = 0 THEN StatusAnswer ELSE status
  /\ IF frame' = 0 /\ screen = "menu" THEN lock' \in LockAnswers ELSE UNCHANGED lock
  /\ UNCHANGED <<screen, entries, agent>>

\* F12 ends the UI.
Quit ==
  /\ pc = "input" /\ pc' = "quit"
  /\ UNCHANGED <<screen, frame, status, lock, entries, agent>>

-------------------------------------------------------------------------------
(* The agent meanwhile *)

JobEnds ==
  /\ jobs > 0 /\ jobs' = jobs - 1
  /\ state' \in {Done, Failed}
  /\ UNCHANGED <<ui, up, online, locked, armed, died>>

\* The flag becomes unreadable, which reads as not armed, or readable again.
FlagChanges ==
  /\ armed' = ~armed
  /\ UNCHANGED <<ui, up, state, online, jobs, locked, died>>

AgentDies == up /\ AgentGone /\ UNCHANGED <<ui, locked, armed>>

AgentStarts ==
  /\ ~up /\ up' = TRUE
  /\ UNCHANGED <<ui, state, online, jobs, locked, armed, died>>

-------------------------------------------------------------------------------

Handle ==
  \/ \E verb \in {"reinstall", "repair", "repairLoader"} : StartAction(verb)
  \/ goWifi \/ SendPassword \/ entryPut \/ entryDel
  \/ \E n \in Nets : Choose(n)
  \/ EnterUnlock \/ AcceptWarning \/ Disarm \/ AcceptPIN \/ Confirm
  \/ Back \/ NoKey

Loop == Handle \/ Unlock \/ Refresh

Next == Loop \/ Quit \/ JobEnds \/ FlagChanges \/ AgentDies \/ AgentStarts

Spec == Init /\ [][Next]_vars

\* The poll for a key has a timeout, so the loop goes round whatever the user
\* does; that jobs end is assumed of the update library.
Fairness == WF_vars(Loop) /\ WF_vars(JobEnds)

FairSpec == Spec /\ Fairness

-------------------------------------------------------------------------------
(* Properties *)

TypeOK ==
  /\ screen \in Screens /\ pc \in {"input", "confirmed", "frame", "quit"} /\ frame \in 0..2
  /\ status \in [state : Idle..Failed, online : BOOLEAN]
  /\ lock \in [read : BOOLEAN, locked : BOOLEAN, armed : BOOLEAN]
  /\ nets \subseteq Nets /\ ssid \in Nets \cup {NoNet} /\ psk \in Seq(Nets)
  /\ pin \in Nat /\ word \in Seq(BOOLEAN)
  /\ up \in BOOLEAN /\ state \in Idle..Failed /\ online \in BOOLEAN /\ jobs \in Nat
  /\ locked \in BOOLEAN /\ armed \in BOOLEAN /\ died \in BOOLEAN

\* The owner's PIN is in memory only on the two screens that need it, and the
\* confirmation word only on its own: every way out of the unlock screens, the
\* ones a failing agent causes included, has zeroed them (handle, main.zig).
SecretsInPlace ==
  /\ pin # 0 => screen \in {"unlock_pin", "unlock_confirm"}
  /\ word # <<>> => screen = "unlock_confirm"

\* The bootloader is unlocked only from the confirmation screen, with the whole
\* word and a PIN typed, and after a lock state read since then that said
\* locked and armed, whatever keys and failures came before.
UnlockAsked ==
  [][locked /\ ~locked' =>
       /\ screen = "unlock_confirm" /\ WordMatches /\ pin >= MinPin
       /\ lock.read /\ lock.locked /\ lock.armed]_vars

\* A password is sent to no network but the one it was typed for: going back
\* and choosing another network starts it over (main.zig:588).
PasswordStays ==
  screen = "password" => \A i \in DOMAIN psk : psk[i] = ssid

\* While the agent lives, the progress screen learns the real outcome of what
\* it shows, and with it the way out (main.zig:609), also when it shows a job
\* that another key press had started.
ProgressEnds ==
  (screen = "progress" /\ pc # "quit") ~>
    \/ screen # "progress" \/ pc = "quit" \/ died
    \/ state \in {Done, Failed} /\ status.state = state
===============================================================================
