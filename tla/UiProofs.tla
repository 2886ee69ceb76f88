------------------------------- MODULE UiProofs -------------------------------
(***************************************************************************)
(* What is typed on the screens of the UI stays where it belongs, and an   *)
(* unlock is asked for deliberately, for every length of the word and of   *)
(* the PIN, any networks and any number of jobs.                           *)
(*                                                                         *)
(* SecretsInPlace and PasswordStays say where text is; what the prover     *)
(* needs beside them is what each screen has already made sure of: the     *)
(* confirmation screen a PIN of full length, the pending call the word and *)
(* the lock state just read, the password screen a chosen network.         *)
(***************************************************************************)
EXTENDS Ui, TLAPS

EntryTypes ==
  /\ pin \in Nat /\ word \in Seq(BOOLEAN) /\ psk \in Seq(Nets)

PassedChecks ==
  /\ screen = "unlock_confirm" => pin >= MinPin
  /\ screen = "password" => ssid \in Nets
  /\ pc = "confirmed" =>
       screen = "unlock_confirm" /\ WordMatches /\ lock.read /\ lock.locked /\ lock.armed

UInv == EntryTypes /\ PassedChecks /\ SecretsInPlace /\ PasswordStays

\* The UI starts on the menu with every buffer empty.
LEMMA InitUInv == Init => UInv
  BY DEF Init, UInv, EntryTypes, PassedChecks, SecretsInPlace, PasswordStays

\* A key's handler that leaves every buffer alone and shows neither a screen
\* that asks for a secret nor one left with a secret in memory.
LEMMA QuietStep ==
  ASSUME UInv, UNCHANGED <<ssid, psk, pin, word>>, pc' # "confirmed",
         screen' = screen
           \/ (screen \notin {"unlock_pin", "unlock_confirm"} /\ screen' \notin {"password", "unlock_confirm"})
  PROVE  UInv'
  BY DEF UInv, EntryTypes, PassedChecks, SecretsInPlace, PasswordStays

\* Typing adds one character to the buffer of the screen.
LEMMA PutStep == UInv /\ entryPut => UInv'
<1> SUFFICES ASSUME UInv, entryPut PROVE UInv'
  OBVIOUS
<1> USE DEF UInv, EntryTypes, PassedChecks, SecretsInPlace, PasswordStays, entryPut, Shows
<1>1. CASE screen = "unlock_confirm"
  BY <1>1
<1>2. CASE screen = "unlock_pin"
  BY <1>2, UiAssumption
<1>3. CASE screen = "password"
  <2>1. psk' = Append(psk, ssid) /\ ssid \in Nets /\ UNCHANGED <<ssid, word, pin, screen>> /\ pc' = "frame"
    BY <1>3
  <2>2. \A i \in DOMAIN psk' : psk'[i] = ssid
    BY <1>3, <2>1
  <2>3. QED
    BY <1>3, <2>1, <2>2
<1>4. QED
  BY <1>1, <1>2, <1>3

\* Deleting takes the last character of the buffer of the screen, never more.
LEMMA DelStep == UInv /\ entryDel => UInv'
<1> SUFFICES ASSUME UInv, entryDel PROVE UInv'
  OBVIOUS
<1> USE DEF UInv, EntryTypes, PassedChecks, SecretsInPlace, PasswordStays, entryDel, Shows
<1>1. CASE screen = "unlock_confirm"
  <2>1. word' \in Seq(BOOLEAN)
    BY <1>1
  <2>2. QED
    BY <1>1, <2>1
<1>2. CASE screen = "unlock_pin"
  BY <1>2
<1>3. CASE screen = "password"
  <2>1. psk' = SubSeq(psk, 1, Len(psk) - 1) /\ UNCHANGED <<ssid, word, pin, screen>> /\ pc' = "frame"
    BY <1>3
  <2>2. psk' \in Seq(Nets) /\ \A i \in DOMAIN psk' : psk'[i] = ssid
    BY <1>3, <2>1
  <2>3. QED
    BY <1>3, <2>1, <2>2
<1>4. QED
  BY <1>1, <1>2, <1>3

\* Every step keeps the invariant: the handlers that leave the unlock screens
\* zero the buffers on each of their branches.
LEMMA NextUInv == UInv /\ [Next]_vars => UInv'
<1> SUFFICES ASSUME UInv, [Next]_vars PROVE UInv'
  OBVIOUS
<1> USE DEF Key, Shows, entries
<1>1. CASE UNCHANGED vars
  BY <1>1 DEF vars, ui, UInv, EntryTypes, PassedChecks, SecretsInPlace, PasswordStays, WordMatches
<1>2. ASSUME NEW verb \in {"reinstall", "repair", "repairLoader"}, StartAction(verb) PROVE UInv'
  BY <1>2, QuietStep DEF StartAction
<1>3. CASE goWifi
  BY <1>3, QuietStep DEF goWifi
<1>4. CASE SendPassword
  BY <1>4, QuietStep DEF SendPassword, Connect
<1>5. ASSUME NEW n \in Nets, Choose(n) PROVE UInv'
  BY <1>5 DEF Choose, Connect, UInv, EntryTypes, PassedChecks, SecretsInPlace, PasswordStays
<1>6. CASE EnterUnlock
  <2>1. screen' \in {"menu", "unlock_blocked", "unlock_warn"} /\ pc' = "frame"
    BY <1>6 DEF EnterUnlock
  <2>2. QED
    BY <1>6, <2>1 DEF EnterUnlock, UInv, EntryTypes, PassedChecks, SecretsInPlace, PasswordStays
<1>7. CASE AcceptWarning
  BY <1>7 DEF AcceptWarning, UInv, EntryTypes, PassedChecks, SecretsInPlace, PasswordStays
<1>8. CASE Disarm
  BY <1>8, QuietStep DEF Disarm
<1>9. CASE AcceptPIN
  BY <1>9 DEF AcceptPIN, UInv, EntryTypes, PassedChecks, SecretsInPlace, PasswordStays
<1>10. CASE Confirm
  <2>1. CASE lock'.read /\ lock'.locked /\ lock'.armed
    <3>1. UNCHANGED <<screen, pin, word, ssid, psk>> /\ pc' = "confirmed" /\ screen = "unlock_confirm"
      BY <1>10, <2>1 DEF Confirm
    <3>2. WordMatches'
      BY <1>10, <3>1 DEF Confirm, WordMatches
    <3>3. QED
      BY <2>1, <3>1, <3>2 DEF UInv, EntryTypes, PassedChecks, SecretsInPlace, PasswordStays
  <2>2. CASE ~(lock'.read /\ lock'.locked /\ lock'.armed)
    <3>1. screen' = "unlock_blocked" /\ pc' = "frame" /\ word' = <<>> /\ pin' = 0 /\ UNCHANGED psk
      BY <1>10, <2>2 DEF Confirm
    <3>2. QED
      BY <3>1 DEF UInv, EntryTypes, PassedChecks, SecretsInPlace, PasswordStays
  <2>3. QED
    BY <2>1, <2>2
<1>11. CASE Unlock
  <2>1. /\ screen' \in {"progress", "unlock_pin"} /\ pc' = "frame"
        /\ word' = <<>> /\ pin' = 0 /\ UNCHANGED psk
    BY <1>11 DEF Unlock
  <2>2. QED
    BY <2>1 DEF UInv, EntryTypes, PassedChecks, SecretsInPlace, PasswordStays
<1>12. CASE Back
  <2>1. CASE screen = "unlock_pin"
    BY <1>12, <2>1 DEF Back, UInv, EntryTypes, PassedChecks, SecretsInPlace, PasswordStays
  <2>2. CASE screen = "unlock_confirm"
    BY <1>12, <2>2 DEF Back, UInv, EntryTypes, PassedChecks, SecretsInPlace, PasswordStays
  <2>3. CASE screen \notin {"unlock_pin", "unlock_confirm"}
    BY <1>12, <2>3, QuietStep DEF Back
  <2>4. QED
    BY <2>1, <2>2, <2>3
<1>13. CASE NoKey \/ Quit
  BY <1>13, QuietStep DEF NoKey, Quit
<1>14. CASE Refresh
  BY <1>14, QuietStep DEF Refresh
<1>15. CASE JobEnds \/ FlagChanges \/ AgentDies \/ AgentStarts
  BY <1>15 DEF JobEnds, FlagChanges, AgentDies, AgentStarts, ui,
       UInv, EntryTypes, PassedChecks, SecretsInPlace, PasswordStays, WordMatches
<1>16. QED
  BY <1>1, <1>2, <1>3, <1>4, <1>5, <1>6, <1>7, <1>8, <1>9, <1>10, <1>11, <1>12, <1>13,
     <1>14, <1>15, PutStep, DelStep DEF Next, Loop, Handle

\* The invariant holds in every reachable state.
THEOREM Invariance == Spec => []UInv
  BY InitUInv, NextUInv, PTL DEF Spec

\* The PIN and the confirmation word are in memory only on the screens that
\* need them: every exit of handle's unlock screens has zeroed them.
THEOREM SecretsStayInPlace == Spec => []SecretsInPlace
<1>1. UInv => SecretsInPlace
  BY DEF UInv
<1>2. QED
  BY <1>1, Invariance, PTL

\* No password is sent to a network it was not typed for (handle, the wifi and
\* password screens).
THEOREM PasswordsStay == Spec => []PasswordStays
<1>1. UInv => PasswordStays
  BY DEF UInv
<1>2. QED
  BY <1>1, Invariance, PTL

\* Only the confirmed call flips the lock bit, with everything handle checks on
\* the way there still true when it is made.
THEOREM UnlocksAreAsked == Spec => UnlockAsked
<1> DEFINE Asked == /\ screen = "unlock_confirm" /\ WordMatches /\ pin >= MinPin
                    /\ lock.read /\ lock.locked /\ lock.armed
<1>1. ASSUME UInv, [Next]_vars, locked, ~locked' PROVE Asked
  <2>1. CASE Unlock
    BY <1>1, <2>1 DEF Unlock, UInv, PassedChecks
  <2>2. CASE ~Unlock
    <3>1. locked' = locked
      BY <1>1, <2>2 DEF Next, Loop, Handle, vars, agent, StartAction, goWifi, SendPassword,
         Connect, Choose, entryPut, entryDel, EnterUnlock, AcceptWarning, Disarm, AcceptPIN,
         Confirm, Back, NoKey, Refresh, Quit, JobEnds, FlagChanges, AgentDies, AgentStarts
    <3>2. QED
      BY <1>1, <3>1
  <2>3. QED
    BY <2>1, <2>2
<1>2. UInv /\ [Next]_vars => [locked /\ ~locked' => Asked]_vars
  BY <1>1
<1>3. QED
  BY <1>2, Invariance, PTL DEF Spec, UnlockAsked

-------------------------------------------------------------------------------
(* Types of what is not typed in *)

\* The screens, what the UI read of the agent, and the agent.
ViewTypes ==
  /\ screen \in Screens /\ pc \in {"input", "confirmed", "frame", "quit"} /\ frame \in 0..2
  /\ status \in [state : Idle..Failed, online : BOOLEAN]
  /\ lock \in [read : BOOLEAN, locked : BOOLEAN, armed : BOOLEAN]
  /\ nets \subseteq Nets /\ ssid \in Nets \cup {NoNet}

\* Truth values and numbers apart, as the provers want them.
AgentBools == up \in BOOLEAN /\ online \in BOOLEAN /\ locked \in BOOLEAN /\ armed \in BOOLEAN /\ died \in BOOLEAN

AgentNumbers == state \in Idle..Failed /\ jobs \in Nat

AgentTypes == AgentBools /\ AgentNumbers

LEMMA LockAnswerTypes ==
  ASSUME AgentTypes PROVE LockAnswers \subseteq [read : BOOLEAN, locked : BOOLEAN, armed : BOOLEAN]
<1>1. \A l \in {locked, TRUE} : [read |-> TRUE, locked |-> l, armed |-> armed]
                                 \in [read : BOOLEAN, locked : BOOLEAN, armed : BOOLEAN]
  BY Zenon DEF AgentTypes, AgentBools
<1>2. Unread \in [read : BOOLEAN, locked : BOOLEAN, armed : BOOLEAN]
  BY Zenon DEF Unread
<1>3. QED
  BY <1>1, <1>2, Zenon DEF LockAnswers

LEMMA StatusAnswerTypes ==
  ASSUME AgentTypes, ViewTypes PROVE StatusAnswer \in [state : Idle..Failed, online : BOOLEAN]
  BY DEF AgentTypes, AgentBools, AgentNumbers, ViewTypes, StatusAnswer

LEMMA InitTypes == Init => ViewTypes /\ AgentTypes
<1> SUFFICES ASSUME Init PROVE ViewTypes /\ AgentTypes
  OBVIOUS
<1>1. AgentBools
  BY Zenon DEF Init, AgentBools
<1>2. AgentNumbers
  BY DEF Init, AgentNumbers, Idle, Failed
<1>3. lock \in [read : BOOLEAN, locked : BOOLEAN, armed : BOOLEAN]
  BY <1>1, <1>2, LockAnswerTypes DEF Init, AgentTypes
<1>4. status \in [state : Idle..Failed, online : BOOLEAN]
  BY DEF Init, Idle, Failed
<1>5. QED
  BY <1>1, <1>2, <1>3, <1>4 DEF Init, ViewTypes, AgentTypes, Screens

\* The steps that touch the agent.
LEMMA AgentCases ==
  ASSUME [Next]_vars
  PROVE  UNCHANGED agent \/ SendPassword \/ Disarm \/ Unlock \/ JobEnds \/ FlagChanges \/ AgentDies \/ AgentStarts
         \/ (\E verb \in {"reinstall", "repair", "repairLoader"} : StartAction(verb))
         \/ (\E n \in Nets : Choose(n))
  BY DEF Next, Loop, Handle, vars, goWifi, entryPut, entryDel, EnterUnlock, AcceptWarning,
         AcceptPIN, Confirm, Back, NoKey, Refresh, Quit

LEMMA AgentNumbersStep ==
  ASSUME AgentNumbers, [Next]_vars PROVE AgentNumbers'
<1> USE DEF AgentNumbers, Idle, Failed
<1>1. CASE UNCHANGED <<state, jobs>>
  BY <1>1
<1>2. CASE state' \in {Idle, Working, Done, Failed} /\ UNCHANGED jobs
  BY <1>2 DEF Working, Done
<1>3. CASE state' = Working /\ jobs' = jobs + 1
  BY <1>3 DEF Working
<1>4. CASE JobEnds
  BY <1>4 DEF JobEnds, Done
<1>5. CASE AgentGone
  BY <1>5 DEF AgentGone
<1>6. \/ UNCHANGED <<state, jobs>> \/ (state' \in {Idle, Working, Done, Failed} /\ UNCHANGED jobs)
      \/ (state' = Working /\ jobs' = jobs + 1) \/ JobEnds \/ AgentGone
  <2> USE DEF agent
  <2>1. CASE UNCHANGED agent \/ FlagChanges \/ AgentDies \/ AgentStarts
    BY <2>1, Zenon DEF FlagChanges, AgentDies, AgentStarts
  <2>2. CASE SendPassword \/ \E n \in Nets : Choose(n)
    BY <2>2, Zenon DEF SendPassword, Choose, Connect
  <2>3. CASE \E verb \in {"reinstall", "repair", "repairLoader"} : StartAction(verb)
    BY <2>3, Zenon DEF StartAction
  <2>4. CASE Disarm
    BY <2>4, Zenon DEF Disarm
  <2>5. CASE Unlock
    BY <2>5, Zenon DEF Unlock
  <2>6. QED
    BY <2>1, <2>2, <2>3, <2>4, <2>5, AgentCases
<1>7. QED
  BY <1>1, <1>2, <1>3, <1>4, <1>5, <1>6

LEMMA AgentBoolsStep ==
  ASSUME AgentBools, [Next]_vars PROVE AgentBools'
<1> USE DEF AgentBools
<1>1. CASE UNCHANGED agent
  BY <1>1, Zenon DEF agent
<1>2. CASE \E verb \in {"reinstall", "repair", "repairLoader"} : StartAction(verb)
  BY <1>2, Zenon DEF StartAction
<1>3. CASE SendPassword
  BY <1>3, Zenon DEF SendPassword, Connect
<1>4. CASE \E n \in Nets : Choose(n)
  BY <1>4, Zenon DEF Choose, Connect, agent
<1>5. CASE Disarm
  BY <1>5, Zenon DEF Disarm, AgentGone
<1>6. CASE Unlock
  BY <1>6, Zenon DEF Unlock, AgentGone, agent
<1>7. CASE JobEnds \/ FlagChanges
  BY <1>7, Zenon DEF JobEnds, FlagChanges
<1>8. CASE AgentDies \/ AgentStarts
  BY <1>8, Zenon DEF AgentDies, AgentStarts, AgentGone
<1>9. QED
  BY <1>1, <1>2, <1>3, <1>4, <1>5, <1>6, <1>7, <1>8, AgentCases

\* The UI's half.
LEMMA ViewStep ==
  ASSUME ViewTypes, AgentTypes, [Next]_vars PROVE ViewTypes'
<1> USE DEF ViewTypes, Screens, Key, Shows, entries
<1>1. CASE UNCHANGED ui
  BY <1>1 DEF ui
<1>2. ASSUME NEW verb \in {"reinstall", "repair", "repairLoader"}, StartAction(verb) PROVE ViewTypes'
  BY <1>2 DEF StartAction
<1>3. CASE goWifi \/ SendPassword
  BY <1>3 DEF goWifi, SendPassword, Connect
<1>4. ASSUME NEW n \in Nets, Choose(n) PROVE ViewTypes'
  BY <1>4 DEF Choose, Connect
<1>5. CASE entryPut \/ entryDel
  BY <1>5 DEF entryPut, entryDel
<1>6. CASE EnterUnlock
  <2>1. lock' \in [read : BOOLEAN, locked : BOOLEAN, armed : BOOLEAN]
    BY <1>6, LockAnswerTypes DEF EnterUnlock
  <2>2. screen' \in Screens /\ pc' = "frame"
    BY <1>6 DEF EnterUnlock
  <2>3. QED
    BY <1>6, <2>1, <2>2 DEF EnterUnlock
<1>7. CASE AcceptWarning \/ Disarm \/ AcceptPIN
  BY <1>7 DEF AcceptWarning, Disarm, AcceptPIN
<1>8. CASE Confirm
  <2>1. lock' \in [read : BOOLEAN, locked : BOOLEAN, armed : BOOLEAN]
    BY <1>8, LockAnswerTypes DEF Confirm
  <2>2. screen' \in Screens /\ pc' \in {"confirmed", "frame"}
    BY <1>8 DEF Confirm
  <2>3. QED
    BY <1>8, <2>1, <2>2 DEF Confirm
<1>9. CASE Unlock
  BY <1>9 DEF Unlock
<1>10. CASE Back \/ NoKey \/ Quit
  BY <1>10 DEF Back, NoKey, Quit
<1>11. CASE Refresh
  <2>1. lock' \in [read : BOOLEAN, locked : BOOLEAN, armed : BOOLEAN]
    BY <1>11, LockAnswerTypes DEF Refresh
  <2>2. status' \in [state : Idle..Failed, online : BOOLEAN]
    BY <1>11, StatusAnswerTypes DEF Refresh
  <2>3. frame' \in 0..2 /\ UNCHANGED <<screen, nets, ssid>> /\ pc' = "input"
    BY <1>11 DEF Refresh
  <2>4. QED
    BY <2>1, <2>2, <2>3
<1>12. CASE JobEnds \/ FlagChanges \/ AgentDies \/ AgentStarts
  BY <1>1, <1>12 DEF JobEnds, FlagChanges, AgentDies, AgentStarts
<1>13. QED
  BY <1>1, <1>2, <1>3, <1>4, <1>5, <1>6, <1>7, <1>8, <1>9, <1>10, <1>11, <1>12
     DEF Next, Loop, Handle, vars

\* Types of every variable, whatever is typed and whatever the agent does.
THEOREM UiTypes == Spec => []TypeOK
<1>1. ViewTypes /\ AgentTypes /\ [Next]_vars => (ViewTypes /\ AgentTypes)'
  BY AgentBoolsStep, AgentNumbersStep, ViewStep DEF AgentTypes
<1>2. UInv /\ ViewTypes /\ AgentTypes => TypeOK
  BY DEF UInv, EntryTypes, ViewTypes, AgentTypes, AgentBools, AgentNumbers, TypeOK
<1>3. QED
  BY InitTypes, Invariance, <1>1, <1>2, PTL DEF Spec

-------------------------------------------------------------------------------
(* What the progress screen shows *)

\* The progress screen, which has no way out but an outcome, shows work that is
\* under way or over, unless the agent died in between: also when the agent had
\* answered {"started": false}, which post takes for a start (api.zig), and when
\* the job on screen is one that an earlier key press had started.
ProgressIsReal ==
  (screen = "progress" /\ ~ died) => (state = Working /\ jobs > 0) \/ state \in {Done, Failed}

\* The agent says it works only while a job runs.
WorkInv == state = Working => jobs > 0

\* The other steps, on every screen: they start no work and do not enter progress.
LEMMA ElsewhereKeeps ==
  ASSUME WorkInv, ProgressIsReal, UNCHANGED jobs, state' = state \/ (state' # Working /\ screen' # "progress"),
         screen' = "progress" => screen = "progress" /\ (died => died')
  PROVE  (WorkInv /\ ProgressIsReal)'
  BY DEF WorkInv, ProgressIsReal

LEMMA ProgressStep ==
  ASSUME AgentNumbers, WorkInv, ProgressIsReal, [Next]_vars
  PROVE  (WorkInv /\ ProgressIsReal)'
<1> USE DEF Key, Shows, Idle, Working, Done, Failed
<1>1. ASSUME NEW verb \in {"reinstall", "repair", "repairLoader"}, StartAction(verb)
      PROVE  (WorkInv /\ ProgressIsReal)'
  BY <1>1 DEF StartAction, AgentNumbers, WorkInv, ProgressIsReal
<1>2. CASE JobEnds
  <2>1. state' \in {Done, Failed}
    BY <1>2 DEF JobEnds
  <2>2. QED
    BY <2>1 DEF WorkInv, ProgressIsReal
<1>3. CASE Unlock
  <2>1. \/ state' = Done
        \/ screen' # "progress" /\ UNCHANGED <<state, jobs>>
        \/ screen' # "progress" /\ state' = Idle
    BY <1>3 DEF Unlock, AgentGone, agent
  <2>2. QED
    BY <2>1 DEF WorkInv, ProgressIsReal
<1>4. CASE AgentDies
  BY <1>4 DEF AgentDies, AgentGone, ui, WorkInv, ProgressIsReal
<1>5. CASE Disarm
  <2>1. screen' # "progress" /\ (UNCHANGED <<state, jobs>> \/ state' = Idle)
    BY <1>5 DEF Disarm, AgentGone
  <2>2. QED
    BY <2>1 DEF WorkInv, ProgressIsReal
<1>6. CASE SendPassword \/ \E n \in Nets : Choose(n)
  <2>1. UNCHANGED jobs /\ (state' = state \/ state' # Working) /\ screen' # "progress"
    BY <1>6 DEF SendPassword, Choose, Connect, agent
  <2>2. QED
    BY <2>1, ElsewhereKeeps
<1>7. CASE UNCHANGED vars \/ FlagChanges \/ AgentStarts
  BY <1>7 DEF vars, ui, agent, FlagChanges, AgentStarts, WorkInv, ProgressIsReal
<1>8. CASE goWifi \/ entryPut \/ entryDel \/ AcceptWarning \/ AcceptPIN \/ Back \/ NoKey \/ Refresh \/ Quit
  BY <1>8, ElsewhereKeeps DEF goWifi, entryPut, entryDel, AcceptWarning, AcceptPIN, Back, NoKey, Refresh, Quit, agent
<1>9. CASE EnterUnlock
  <2>1. screen' # "progress" /\ UNCHANGED <<state, jobs>>
    BY <1>9 DEF EnterUnlock, agent
  <2>2. QED
    BY <2>1, ElsewhereKeeps
<1>10. CASE Confirm
  <2>1. screen' # "progress" /\ UNCHANGED <<state, jobs>>
    BY <1>10 DEF Confirm, agent
  <2>2. QED
    BY <2>1, ElsewhereKeeps
<1>11. QED
  BY <1>1, <1>2, <1>3, <1>4, <1>5, <1>6, <1>7, <1>8, <1>9, <1>10 DEF Next, Loop, Handle

\* The safety half of ProgressEnds, for any number of jobs; that jobs end and the
\* loop goes round is its fairness.
THEOREM ProgressShowsWork == Spec => []ProgressIsReal
<1>1. Init => AgentNumbers /\ WorkInv /\ ProgressIsReal
  BY DEF Init, AgentNumbers, WorkInv, ProgressIsReal, Idle, Working, Failed
<1>2. AgentNumbers /\ WorkInv /\ ProgressIsReal /\ [Next]_vars => (AgentNumbers /\ WorkInv /\ ProgressIsReal)'
  BY AgentNumbersStep, ProgressStep
<1>3. QED
  BY <1>1, <1>2, PTL DEF Spec
===============================================================================
