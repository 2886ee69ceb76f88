---------------------------- MODULE RecoveryProofs ----------------------------
(***************************************************************************)
(* The recovery process in both modes, for any number of handlers, callers *)
(* and owners: what will boot, what the status says, and what the text UI  *)
(* promises about an unlock.                                               *)
(***************************************************************************)
EXTENDS Recovery, JobsProofs

\* Whatever the WAL or the boot state may come to name is whole.
SlotsInv ==
  /\ wal \in [try : Slots, good : {"prev", "none"}]
  /\ bootState \in Slots /\ slots \subseteq Slots
  /\ wal.try # "active" => wal.try \in slots
  /\ wal.good # "none" => wal.good \in slots

\* A core call under way belongs to a job of the mode that runs.
CallInv ==
  /\ call \in [Callers -> CallPlaces] /\ downloads \subseteq Callers
  /\ mode = "serve" => \A r \in Requests : call[r] # "none" => pc[r] = "running"
  /\ mode = "tty" /\ call[Console] # "none" => at = "working"

CoreInv == SlotsInv /\ CallInv /\ BootsWhole /\ BootFollowsWal

-------------------------------------------------------------------------------
(* The core *)

\* A step that leaves the slots, the WAL and the boot state alone.
LEMMA SameSlots ==
  ASSUME SlotsInv, BootsWhole, UNCHANGED <<wal, bootState, slots>>
  PROVE  SlotsInv' /\ BootsWhole'
BY DEF SlotsInv, BootsWhole

\* A step that neither moves the boot state nor takes the excuse away.
LEMMA SameExcuse ==
  ASSUME BootFollowsWal, UNCHANGED <<wal, bootState, lag>>,
         \A c \in Callers : call[c] = "sync" => call'[c] = "sync"
  PROVE  BootFollowsWal'
BY DEF BootFollowsWal

\* No step of an operation leaves the WAL or the boot state without an image.
LEMMA CoreStepSlots ==
  ASSUME SlotsInv, BootsWhole, BootFollowsWal, call \in [Callers -> CallPlaces],
         NEW c \in Callers, CoreStep(c)
  PROVE  SlotsInv' /\ BootsWhole' /\ BootFollowsWal'
<1>1. CASE Fetch(c)
  BY <1>1, SameSlots, SameExcuse DEF Fetch, At, CallPlaces
<1>2. CASE Stage(c)
  <2>1. SlotsInv' /\ BootsWhole'
    BY <1>2 DEF Stage, SlotsInv, BootsWhole, Slots
  <2>2. call'[c] = "sync"
    BY <1>2 DEF Stage, At
  <2>3. QED
    BY <2>1, <2>2 DEF BootFollowsWal
<1>3. CASE SyncBootState(c)
  <2>1. CASE bootState' = wal.try /\ wal' = wal /\ slots' = slots
    BY <2>1 DEF SlotsInv, BootsWhole, BootFollowsWal
  <2>2. CASE UNCHANGED <<wal, bootState, slots>> /\ lag' = TRUE
    BY <2>2, SameSlots DEF BootFollowsWal
  <2>3. QED
    BY <1>3, <2>1, <2>2 DEF SyncBootState
<1>4. CASE Rollback(c)
  BY <1>4 DEF Rollback, SlotsInv, BootsWhole, BootFollowsWal, Slots
<1>5. CASE Repair(c) \/ RepairLoader(c) \/ CoreFails(c)
  BY <1>5, SameSlots, SameExcuse DEF Repair, RepairLoader, CoreFails, At, CallPlaces
<1>6. QED
  BY <1>1, <1>2, <1>3, <1>4, <1>5 DEF CoreStep, Reinstall

\* An operation stays where it is among the places and its files are its own.
LEMMA CoreStepCall ==
  ASSUME call \in [Callers -> CallPlaces], downloads \subseteq Callers,
         NEW c \in Callers, CoreStep(c)
  PROVE  /\ call' \in [Callers -> CallPlaces] /\ downloads' \subseteq Callers
         /\ call[c] # "none"
         /\ \A d \in Callers \ {c} : call'[d] = call[d]
<1>1. CASE Reinstall(c)
  BY <1>1 DEF Reinstall, Fetch, Stage, SyncBootState, At, CallPlaces
<1>2. CASE Repair(c) \/ Rollback(c) \/ RepairLoader(c) \/ CoreFails(c)
  BY <1>2 DEF Repair, Rollback, RepairLoader, CoreFails, At, CallPlaces
<1>3. QED
  BY <1>1, <1>2 DEF CoreStep

\* A scrub keeps every slot, whatever the WAL has come to name meanwhile.
LEMMA ScrubSlots ==
  ASSUME SlotsInv, BootsWhole, BootFollowsWal, Scrub
  PROVE  SlotsInv' /\ BootsWhole' /\ BootFollowsWal'
<1>1. slots' = slots
  BY DEF Scrub, KeptSlots, SlotsInv, Slots
<1>2. QED
  BY <1>1, SameSlots, SameExcuse DEF Scrub

\* A process that ends between the two library calls leaves the excuse.
LEMMA CutSlots ==
  ASSUME SlotsInv, BootsWhole, BootFollowsWal, CallsCut
  PROVE  SlotsInv' /\ BootsWhole' /\ BootFollowsWal'
<1>1. SlotsInv' /\ BootsWhole'
  BY SameSlots DEF CallsCut
<1>2. (\E c \in Callers : call[c] = "sync") \/ lag => lag'
  BY Zenon DEF CallsCut
<1>3. BootFollowsWal'
  BY <1>2 DEF BootFollowsWal, CallsCut
<1>4. QED
  BY <1>1, <1>3

-------------------------------------------------------------------------------
(* Serve mode *)

\* Seen from the status, a step of the agent is one of Jobs', none, or the end
\* of the process, which starts the status over.
LEMMA AgentIsJobs ==
  ASSUME AgentNext
  PROVE  [Next]_vars \/ Init'
<1>1. ASSUME NEW r \in Requests, Handler(r) PROVE [Next]_vars
  BY <1>1 DEF Handler, Job, JobReturns, Connected, Wipe, Next, Ends
<1>2. ASSUME NEW file, Exit(file) PROVE Init'
  BY <1>2 DEF Exit, Init
<1>3. QED
  BY <1>1, <1>2 DEF AgentNext, Listen, Serve, StartFails, Stop, Kill, LinkLost

LEMMA AgentKeepsStatus == JInv /\ AgentNext => JInv'
<1>1. Init' => JInv'
  <2>1. Init => JInv
    BY InitJInv
  <2>2. QED
    BY <2>1, PTL
<1>2. QED
  BY <1>1, AgentIsJobs, NextJInv

\* A handler keeps the core's invariant: its job works on a call of its own, and
\* an unlock beside it removes downloads only.
LEMMA HandlerKeepsCore ==
  ASSUME TypeOK, CoreInv, mode = "serve", mode' = mode, NEW r \in Requests, Handler(r)
  PROVE  CoreInv'
<1>0. r \in Callers /\ call \in [Callers -> CallPlaces] /\ SlotsInv /\ BootsWhole /\ BootFollowsWal
  BY AgentAssumption DEF CoreInv, CallInv
<1>1. CASE UNCHANGED coreVars /\ pc[r] # "running" /\ \A q \in Requests \ {r} : pc'[q] = pc[q]
  BY <1>1, SameSlots, SameExcuse, AgentAssumption DEF CoreInv, CallInv, coreVars
<1>2. CASE StartJob(r) /\ At(r, verb[r]) /\ UNCHANGED <<wal, bootState, slots, downloads, link, lag>>
  <2>1. pc[r] = "starting" /\ call[r] = "none"
    BY <1>2, AgentAssumption DEF StartJob, CoreInv, CallInv
  <2>2. verb[r] \in CallPlaces
    BY <1>2, AgentAssumption DEF TypeOK, CallPlaces
  <2>3. QED
    BY <1>0, <1>2, <2>1, <2>2, SameSlots, SameExcuse, AgentAssumption
    DEF CoreInv, CallInv, At, StartJob, Goes, TypeOK
<1>3. CASE CoreStep(r) /\ UNCHANGED vars
  BY <1>0, <1>3, CoreStepSlots, CoreStepCall, AgentAssumption DEF CoreInv, CallInv, vars
<1>4. CASE JobReturns(r)
  BY <1>0, <1>4, SameSlots, SameExcuse, AgentAssumption
  DEF CoreInv, CallInv, JobReturns, JobEnds, Goes, At, CallPlaces, TypeOK
<1>5. CASE Connected(r)
  BY <1>0, <1>5, SameSlots, SameExcuse, AgentAssumption
  DEF CoreInv, CallInv, Connected, SetOnline, Goes, TypeOK
<1>6. CASE Wipe(r)
  BY <1>0, <1>6, ScrubSlots, AgentAssumption DEF CoreInv, CallInv, Wipe, Scrub, vars
<1>7. ASSUME NEW v \in Verbs, CheckWorking(r, v), UNCHANGED coreVars PROVE CoreInv'
  BY <1>1, <1>7 DEF CheckWorking, Goes, TypeOK
<1>8. ASSUME UNCHANGED coreVars,
             \/ ConnectBegins(r) \/ ConnectFails(r) \/ ConnectEnds(r)
             \/ UnlockBegins(r) \/ UnlockEnds(r)
      PROVE  CoreInv'
  BY <1>1, <1>8 DEF ConnectBegins, ConnectFails, ConnectEnds, UnlockBegins, UnlockEnds, Goes, TypeOK
<1>9. QED
  BY <1>2, <1>3, <1>4, <1>5, <1>6, <1>7, <1>8 DEF Handler, Job

LEMMA AgentKeepsCore ==
  ASSUME TypeOK, CoreInv, mode = "serve", mode' = mode, AgentNext
  PROVE  CoreInv'
<1>0. SlotsInv /\ BootsWhole /\ BootFollowsWal
  BY DEF CoreInv
<1>1. CASE \E r \in Requests : Handler(r)
  BY <1>1, HandlerKeepsCore
<1>2. CASE UNCHANGED <<vars, coreVars>>
  BY <1>0, <1>2, SameSlots, SameExcuse DEF CoreInv, CallInv, vars, coreVars
<1>3. CASE CallsCut
  BY <1>0, <1>3, CutSlots, AgentAssumption DEF CoreInv, CallInv, CallsCut, CallPlaces
<1>4. CASE LinkLost /\ UNCHANGED vars
  BY <1>0, <1>4, SameSlots, SameExcuse DEF CoreInv, CallInv, LinkLost, vars
<1>5. QED
  BY <1>1, <1>2, <1>3, <1>4 DEF AgentNext, Listen, Serve, StartFails, Stop, Kill, Exit

-------------------------------------------------------------------------------
(* Tty mode *)

Txs == [stage : {"none", "armed", "recorded"}, owner : Owners \cup {NoOwner}, count : Nat]

\* The transaction in both copies; a recorded one has its owner's proof.
TxInv ==
  /\ tx \in Txs /\ kept \in Txs
  /\ tx.stage = "recorded" => tx.owner \in proofs
  /\ kept.stage = "recorded" => kept.owner \in proofs

\* What the dialogue has been given by the time it is somewhere.
DialogueInv ==
  /\ at \in Prompts \cup InCall \cup {"gone"} /\ typed \subseteq {"pin", "word"}
  /\ said \in {"", "cancelled", "failed", "unlocked"}
  /\ at = "confirm" => typed = {"pin"}
  /\ at = "unlocking" => typed = {"pin", "word"}

SessionInv == TxInv /\ DialogueInv /\ CancelledForGood

\* A write leaves in each copy what was there or what was written, and the two
\* agree when it succeeds; only the count is forgotten with an unreadable flag.
LEMMA WriteTyped ==
  ASSUME NEW t \in Txs, NEW w \in Outcomes, Write(t, w), tx \in Txs, kept \in Txs
  PROVE  /\ tx' \in Txs /\ kept' \in Txs
         /\ tx'.stage = (IF w = "lost" THEN tx ELSE t).stage
         /\ tx'.owner = (IF w = "lost" THEN tx ELSE t).owner
         /\ kept'.stage = (IF w = "ok" THEN t ELSE kept).stage
         /\ kept'.owner = (IF w = "ok" THEN t ELSE kept).owner
<1>1. ASSUME NEW u \in Txs
      PROVE  Known(u) \in Txs /\ Known(u).stage = u.stage /\ Known(u).owner = u.owner
  <2>1. CASE Known(u) = u
    BY <2>1
  <2>2. CASE Known(u) = [u EXCEPT !.count = 0]
    BY <2>2 DEF Txs
  <2>3. QED
    BY <2>1, <2>2 DEF Known
<1>2. QED
  BY <1>1 DEF Write

\* Taking it back, or ending it, leaves nothing armed once it is written.
LEMMA CloseKeeps ==
  ASSUME TxInv, NEW w \in Outcomes, CloseAs(w)
  PROVE  /\ TxInv'
         /\ w = "ok" => tx'.stage = "none" /\ kept'.stage = "none"
<1>1. PICK t \in {tx, NoTx} :
        /\ Write([stage |-> "none", owner |-> NoOwner,
                  count |-> IF t.stage = "recorded" THEN t.count + 1 ELSE t.count], w)
        /\ proofs' = IF w = "ok" THEN {} ELSE proofs
  BY DEF CloseAs
<1>2. t \in Txs
  BY DEF TxInv, NoTx, Txs
<1>3. [stage |-> "none", owner |-> NoOwner,
       count |-> IF t.stage = "recorded" THEN t.count + 1 ELSE t.count] \in Txs
  BY <1>2 DEF Txs
<1>4. QED
  BY <1>1, <1>3, WriteTyped DEF TxInv, Outcomes

\* Every step of the session keeps the transaction, and what was cancelled stays
\* cancelled.
LEMMA SessionKeeps ==
  ASSUME SessionInv, TtyNext
  PROVE  SessionInv'
<1>0. TxInv /\ DialogueInv /\ CancelledForGood /\ tx \in Txs
  BY DEF SessionInv, TxInv
<1> USE DEF Prompts, InCall
<1>1. CASE cancelUnlock
  <2>1. CASE \E w \in Outcomes : CloseAs(w) /\ Says(IF w = "ok" THEN "cancelled" ELSE "failed")
    <3>1. PICK w \in Outcomes : CloseAs(w) /\ Says(IF w = "ok" THEN "cancelled" ELSE "failed")
      BY <2>1
    <3>2. QED
      BY <1>0, <3>1, CloseKeeps DEF SessionInv, DialogueInv, CancelledForGood, Says, Enter
  <2>2. CASE UNCHANGED txVars /\ Says("failed")
    BY <1>0, <2>2 DEF SessionInv, TxInv, DialogueInv, CancelledForGood, Says, Enter, txVars
  <2>3. QED
    BY <1>1, <2>1, <2>2 DEF cancelUnlock
<1>2. CASE UnlockReturns
  <2>1. CASE UNCHANGED txVars /\ Says("failed")
    BY <1>0, <2>1 DEF SessionInv, TxInv, DialogueInv, CancelledForGood, Says, Enter, txVars
  <2>2. CASE Close /\ Says("unlocked")
    BY <1>0, <2>2, CloseKeeps DEF SessionInv, DialogueInv, CancelledForGood, Says, Enter, Close
  <2>3. QED
    BY <1>2, <2>1, <2>2 DEF UnlockReturns
<1>3. CASE SettleOnChoice
  <2>1. TxInv'
    BY <1>0, <1>3, CloseKeeps DEF SettleOnChoice, Close
  <2>2. QED
    BY <1>0, <1>3, <2>1 DEF SettleOnChoice, SessionInv, DialogueInv, CancelledForGood
<1>4. CASE UnlockStep
  <2>1. CASE tx.stage = "armed" /\ Record(tx.owner)
    <3>1. PICK w \in Outcomes : Write([stage |-> "recorded", owner |-> tx.owner, count |-> tx.count], w)
      BY <2>1 DEF Record
    <3>2. [stage |-> "recorded", owner |-> tx.owner, count |-> tx.count] \in Txs
      BY <1>0 DEF Txs
    <3>3. TxInv'
      BY <1>0, <2>1, <3>1, <3>2, WriteTyped DEF TxInv, Record, Outcomes
    <3>4. QED
      BY <1>0, <1>4, <2>1, <3>3 DEF SessionInv, DialogueInv, CancelledForGood, UnlockStep, ttyVars
  <2>2. CASE UNCHANGED <<tx, kept>> /\ proofs \subseteq proofs'
    BY <1>0, <1>4, <2>2 DEF SessionInv, TxInv, DialogueInv, CancelledForGood, UnlockStep, ttyVars
  <2>3. QED
    BY <1>4, <2>1, <2>2 DEF UnlockStep, Prove, Flip, Erase
<1>5. CASE UNCHANGED txVars /\ (UNCHANGED said \/ said' = "") /\ DialogueInv'
  BY <1>0, <1>5 DEF SessionInv, TxInv, CancelledForGood, txVars
<1>6. CASE ChooseUnlock \/ ChooseWifi \/ Ask \/ ChooseRepair \/ Signal
  BY <1>0, <1>5, <1>6 DEF ChooseUnlock, ChooseWifi, Ask, ChooseRepair, Signal, Calls, Enter, DialogueInv
<1>7. CASE Reads
  BY <1>0, <1>5, <1>7 DEF Reads, ReadPIN, ReadConfirm, PickNetwork, ReadPassword, Answer, Leave,
                          Calls, Enter, DialogueInv
<1>8. CASE ConnectReturns \/ Work \/ WorkReturns
  BY <1>0, <1>5, <1>8 DEF ConnectReturns, Work, WorkReturns, Enter, DialogueInv, ttyVars
<1>9. CASE PowerFails
  BY <1>0, <1>9 DEF PowerFails, PowerLoss, SessionInv, TxInv, DialogueInv, CancelledForGood
<1>10. CASE Writeback
  BY <1>0, <1>10 DEF Writeback, Sync, SessionInv, TxInv, DialogueInv, CancelledForGood, ttyVars
<1>11. QED
  BY <1>1, <1>2, <1>3, <1>4, <1>6, <1>7, <1>8, <1>9, <1>10 DEF TtyNext, Returns

\* The session's one call is made from a prompt and ends before the next one.
LEMMA TtyKeepsCore ==
  ASSUME CoreInv, mode = "tty", mode' = mode, TtyNext
  PROVE  CoreInv'
<1>0. /\ Console \in Callers /\ call \in [Callers -> CallPlaces] /\ downloads \subseteq Callers
      /\ SlotsInv /\ BootsWhole /\ BootFollowsWal
      /\ call[Console] # "none" => at = "working"
  BY TtyAssumption DEF CoreInv, CallInv
<1>1. CASE UNCHANGED coreVars /\ (at' = at \/ at # "working")
  BY <1>0, <1>1, SameSlots, SameExcuse DEF CoreInv, CallInv, coreVars
<1>2. ASSUME NEW op \in {"fetch", "loader", "repair"}, at # "working", Calls(op) PROVE CoreInv'
  BY <1>0, <1>2, SameSlots, SameExcuse DEF CoreInv, CallInv, Calls, CallPlaces, Enter
<1>3. CASE Work
  <2>1. CoreStep(Console) /\ at = "working" /\ at' = at
    BY <1>3 DEF Work, ttyVars
  <2>2. QED
    BY <1>0, <2>1, CoreStepSlots, CoreStepCall DEF CoreInv, CallInv
<1>4. CASE WorkReturns
  BY <1>0, <1>4, SameSlots, SameExcuse DEF CoreInv, CallInv, WorkReturns, At, CallPlaces, Enter
<1>5. CASE ConnectReturns
  BY <1>0, <1>5, SameSlots, SameExcuse DEF CoreInv, CallInv, ConnectReturns
<1>6. CASE UnlockStep
  <2>1. CASE Scrub
    BY <1>0, <1>6, <2>1, ScrubSlots DEF CoreInv, CallInv, Scrub, UnlockStep, ttyVars
  <2>2. CASE UNCHANGED coreVars
    BY <1>1, <1>6, <2>2 DEF UnlockStep, ttyVars
  <2>3. QED
    BY <1>6, <2>1, <2>2 DEF UnlockStep
<1>7. CASE PowerFails
  BY <1>0, <1>7, CutSlots DEF CoreInv, CallInv, PowerFails, CallsCut, CallPlaces
<1>8. CASE Answer
  BY <1>1, <1>2, <1>8 DEF Answer
<1>9. CASE ChooseRepair
  BY <1>2, <1>9 DEF ChooseRepair
<1>10. CASE ChooseUnlock \/ SettleOnChoice \/ ChooseWifi \/ Ask \/ cancelUnlock \/ UnlockReturns
  BY <1>1, <1>10 DEF ChooseUnlock, SettleOnChoice, ChooseWifi, Ask, cancelUnlock, UnlockReturns
<1>11. CASE ReadPIN \/ ReadConfirm \/ PickNetwork \/ ReadPassword \/ Leave \/ Signal \/ Writeback
  BY <1>1, <1>11 DEF ReadPIN, ReadConfirm, PickNetwork, ReadPassword, Leave, Signal, Writeback, ttyVars
<1>12. QED
  BY <1>3, <1>4, <1>5, <1>6, <1>7, <1>8, <1>9, <1>10, <1>11 DEF TtyNext, Reads, Returns

\* The echo is off only while the PIN is read.
LEMMA EchoStep ==
  ASSUME EchoRestored, TtyNext
  PROVE  EchoRestored'
<1>1. CASE UNCHANGED echo /\ (at' = at \/ at # "pin")
  BY <1>1 DEF EchoRestored
<1>2. CASE ReadPIN \/ PowerFails
  BY <1>2 DEF EchoRestored, ReadPIN, setEcho, PowerFails
<1>3. CASE ChooseUnlock
  BY <1>3 DEF EchoRestored, ChooseUnlock, setEcho, Enter
<1>4. CASE SettleOnChoice \/ UnlockStep \/ ChooseWifi \/ Ask \/ ChooseRepair \/ Signal \/ Writeback
  BY <1>1, <1>4 DEF SettleOnChoice, UnlockStep, ChooseWifi, Ask, ChooseRepair, Signal, Writeback, ttyVars
<1>5. CASE ReadConfirm \/ PickNetwork \/ ReadPassword \/ Answer \/ Leave
  BY <1>1, <1>5 DEF ReadConfirm, PickNetwork, ReadPassword, Answer, Leave
<1>6. CASE Returns
  BY <1>1, <1>6 DEF Returns, cancelUnlock, UnlockReturns, ConnectReturns, Work, WorkReturns, ttyVars
<1>7. QED
  BY <1>2, <1>3, <1>4, <1>5, <1>6 DEF TtyNext, Reads

-------------------------------------------------------------------------------
(* Both modes *)

\* What is left of the types.
BoolInv ==
  /\ link \in BOOLEAN /\ lag \in BOOLEAN /\ locked \in BOOLEAN
  /\ echo \in BOOLEAN /\ eof \in BOOLEAN /\ interrupted \in BOOLEAN

RestInv ==
  /\ mode \in {"serve", "tty"} /\ private \subseteq Private
  /\ proc \in {"none", "bound", "serving", "off"} /\ socket \in {"none", "live", "stale"}
  /\ ends \in 0..MaxEnds

RInv == JInv /\ CoreInv /\ SessionInv /\ EchoRestored /\ BoolInv /\ RestInv

LEMMA CoreStepBool ==
  ASSUME BoolInv, NEW c, CoreStep(c) PROVE link' \in BOOLEAN /\ lag' \in BOOLEAN
BY Zenon DEF BoolInv, CoreStep, Reinstall, Fetch, Stage, SyncBootState, Repair, Rollback,
             RepairLoader, CoreFails

LEMMA AgentBool ==
  ASSUME BoolInv, AgentNext, UNCHANGED <<txVars, ttyVars>>
  PROVE  BoolInv'
<1>1. UNCHANGED <<locked, echo, eof, interrupted>>
  BY DEF txVars, ttyVars
<1>2. link' \in BOOLEAN /\ lag' \in BOOLEAN
  <2>1. CASE UNCHANGED <<link, lag>>
    BY <2>1, Zenon DEF BoolInv
  <2>2. CASE LinkLost
    BY <2>2, Zenon DEF LinkLost, BoolInv
  <2>3. CASE CallsCut
    BY <2>3, Zenon DEF CallsCut, BoolInv
  <2>4. ASSUME NEW r \in Requests, Handler(r) PROVE link' \in BOOLEAN /\ lag' \in BOOLEAN
    <3>1. CASE CoreStep(r)
      BY <3>1, CoreStepBool
    <3>2. CASE Connected(r)
      BY <3>2, Zenon DEF Connected, BoolInv
    <3>3. QED
      BY <2>1, <2>4, <3>1, <3>2 DEF Handler, Job, JobReturns, Wipe, Scrub, coreVars
  <2>5. QED
    BY <2>1, <2>2, <2>3, <2>4 DEF AgentNext, Listen, Serve, StartFails, Stop, Kill, Exit, coreVars
<1>3. QED
  BY <1>1, <1>2, Zenon DEF BoolInv

LEMMA TtyBool ==
  ASSUME BoolInv, TtyNext
  PROVE  BoolInv'
<1>1. echo' \in BOOLEAN /\ eof' \in BOOLEAN /\ interrupted' \in BOOLEAN
  BY Zenon DEF BoolInv, setEcho, TtyNext, Reads, Returns, ChooseUnlock, SettleOnChoice, UnlockStep,
     ChooseWifi, Ask, ChooseRepair, ReadPIN, ReadConfirm, PickNetwork, ReadPassword, Answer,
     Leave, cancelUnlock, UnlockReturns, ConnectReturns, Work, WorkReturns, Signal, PowerFails,
     Writeback, Line, NoLine, ttyVars
<1>2. locked' \in BOOLEAN
  BY Zenon DEF BoolInv, setEcho, TtyNext, Reads, Returns, ChooseUnlock, SettleOnChoice, UnlockStep,
     ChooseWifi, Ask, ChooseRepair, ReadPIN, ReadConfirm, PickNetwork, ReadPassword, Answer,
     Leave, cancelUnlock, UnlockReturns, ConnectReturns, Work, WorkReturns, Signal, PowerFails,
     Writeback, Close, CloseAs, Prove, Record, Erase, Flip, PowerLoss, Sync, txVars
<1>3. link' \in BOOLEAN /\ lag' \in BOOLEAN
  <2>1. CASE UNCHANGED <<link, lag>>
    BY <2>1, Zenon DEF BoolInv
  <2>2. CASE Work
    BY <2>2, CoreStepBool DEF Work
  <2>3. CASE ConnectReturns
    BY <2>3, Zenon DEF ConnectReturns, BoolInv
  <2>4. CASE PowerFails
    BY <2>4, Zenon DEF PowerFails, CallsCut, BoolInv
  <2>5. CASE UnlockStep
    BY <2>1, <2>5 DEF UnlockStep, Scrub, coreVars
  <2>6. CASE ChooseRepair \/ Answer \/ WorkReturns
    BY <2>1, <2>6 DEF ChooseRepair, Answer, WorkReturns, Calls, coreVars
  <2>7. QED
    BY <2>1, <2>2, <2>3, <2>4, <2>5, <2>6
    DEF TtyNext, Reads, Returns, ChooseUnlock, SettleOnChoice, ChooseWifi, Ask, ReadPIN, ReadConfirm,
        PickNetwork, ReadPassword, Leave, cancelUnlock, UnlockReturns, Signal, Writeback, coreVars
<1>4. QED
  BY <1>1, <1>2, <1>3, Zenon DEF BoolInv

\* Only an unlock removes data, and only what there is.
LEMMA PrivateStep ==
  ASSUME TtyNext, private' # private
  PROVE  /\ at = "unlocking" /\ tx.stage = "recorded"
         /\ private' \subseteq private
<1>1. CASE UNCHANGED private
  BY <1>1
<1>2. CASE UnlockStep
  BY <1>2 DEF UnlockStep, Prove, Record, Flip, Erase
<1>3. CASE PowerFails
  BY <1>3 DEF PowerFails, PowerLoss
<1>4. CASE SettleOnChoice \/ cancelUnlock \/ UnlockReturns
  BY <1>4 DEF SettleOnChoice, cancelUnlock, UnlockReturns, Close, CloseAs, txVars
<1>5. CASE ChooseUnlock \/ ChooseWifi \/ Ask \/ ChooseRepair \/ Signal \/ Writeback
  BY <1>5 DEF ChooseUnlock, ChooseWifi, Ask, ChooseRepair, Signal, Writeback, Sync, txVars
<1>6. CASE Reads
  BY <1>6 DEF Reads, ReadPIN, ReadConfirm, PickNetwork, ReadPassword, Answer, Leave, txVars
<1>7. CASE ConnectReturns \/ Work \/ WorkReturns
  BY <1>7 DEF ConnectReturns, Work, WorkReturns, txVars
<1>8. QED
  BY <1>2, <1>3, <1>4, <1>5, <1>6, <1>7 DEF TtyNext, Returns

\* The process starts in either mode with nothing under way.
LEMMA InitRInv == run => RInv
<1> SUFFICES ASSUME run PROVE RInv
  OBVIOUS
<1>1. Init /\ CoreInit /\ mode \in {"serve", "tty"} /\ at \in {"gone", "menu"} /\ typed = {} /\ said = ""
  BY DEF run, AgentInit, TtyInit
<1>2. JInv
  BY <1>1, InitJInv
<1>3. CoreInv
  <2>1. PICK g \in {"prev", "none"} : wal = [try |-> "active", good |-> g]
    BY <1>1 DEF CoreInit
  <2>2. bootState = "active" /\ slots = {g} \ {"none"}
    BY <1>1, <2>1 DEF CoreInit
  <2>3. SlotsInv /\ BootsWhole /\ BootFollowsWal
    BY <2>1, <2>2 DEF SlotsInv, BootsWhole, BootFollowsWal, Slots
  <2>4. CallInv
    BY <1>1, AgentAssumption, TtyAssumption DEF CoreInit, CallInv, CallPlaces
  <2>5. QED
    BY <2>3, <2>4 DEF CoreInv
<1>4. TxInv
  <2>1. CASE TxInit
    BY <2>1 DEF TxInit, TxInv, NoTx, Txs
  <2>2. CASE \E o \in Owners, stage \in {"armed", "recorded"} :
               /\ tx = [stage |-> stage, owner |-> o, count |-> 0] /\ kept = tx
               /\ proofs = IF stage = "armed" THEN {} ELSE {o}
    BY <2>2 DEF TxInv, Txs
  <2>3. QED
    BY <2>1, <2>2 DEF run, TtyInit
<1>5. SessionInv
  BY <1>1, <1>4 DEF SessionInv, DialogueInv, CancelledForGood, Prompts, InCall
<1>6. EchoRestored
  BY Zenon DEF run, TtyInit, EchoRestored
<1>7. BoolInv
  BY Zenon DEF run, AgentInit, TtyInit, TxInit, CoreInit, BoolInv
<1>8. RestInv
  <2>1. private = Private
    BY DEF run, TtyInit, TxInit
  <2>2. proc \in {"none", "off"} /\ socket = "none" /\ ends = MaxEnds
    BY DEF run, AgentInit
  <2>3. ends \in 0..MaxEnds
    BY <2>2, AgentAssumption
  <2>4. mode \in {"serve", "tty"}
    BY <1>1
  <2>5. QED
    BY <2>1, <2>2, <2>3, <2>4 DEF RestInv
<1>9. QED
  BY <1>2, <1>3, <1>5, <1>6, <1>7, <1>8 DEF RInv

LEMMA NextRInv == RInv /\ [RecoveryNext]_recoveryVars => RInv'
<1> SUFFICES ASSUME RInv, [RecoveryNext]_recoveryVars PROVE RInv'
  OBVIOUS
<1>0. JInv /\ TypeOK /\ CoreInv /\ SessionInv /\ EchoRestored /\ BoolInv /\ RestInv
  BY DEF RInv, JInv
<1>1. CASE UNCHANGED recoveryVars
  <2>1. UNCHANGED <<vars, coreVars, procVars, txVars, ttyVars, mode>>
    BY <1>1 DEF recoveryVars, agentVars
  <2>2. JInv'
    BY <1>0, <2>1, NextJInv
  <2>3. CoreInv'
    BY <1>0, <2>1 DEF CoreInv, SlotsInv, CallInv, BootsWhole, BootFollowsWal, coreVars, vars, ttyVars
  <2>4. SessionInv' /\ RestInv'
    BY <1>0, <2>1 DEF SessionInv, TxInv, DialogueInv, CancelledForGood,
                      RestInv, coreVars, procVars, txVars, ttyVars
  <2>5. UNCHANGED <<link, lag, locked, echo, eof, interrupted>>
    BY <2>1 DEF coreVars, txVars, ttyVars
  <2>6. BoolInv'
    BY <1>0, <2>5, Zenon DEF BoolInv
  <2>7. EchoRestored'
    BY <1>0, <2>1 DEF EchoRestored, ttyVars
  <2>8. QED
    BY <2>2, <2>3, <2>4, <2>6, <2>7 DEF RInv
<1>2. CASE mode = "serve" /\ AgentNext /\ UNCHANGED <<txVars, ttyVars, mode>>
  <2>1. JInv' /\ CoreInv' /\ BoolInv'
    BY <1>0, <1>2, AgentKeepsStatus, AgentKeepsCore, AgentBool
  <2>2. SessionInv' /\ EchoRestored'
    BY <1>0, <1>2 DEF SessionInv, TxInv, DialogueInv, CancelledForGood, EchoRestored, txVars, ttyVars
  <2>3. proc' \in {"none", "bound", "serving", "off"} /\ socket' \in {"none", "live", "stale"} /\ ends' \in 0..MaxEnds
    BY <1>0, <1>2, AgentAssumption
    DEF RestInv, AgentNext, Listen, Serve, StartFails, Stop, Kill, Exit, procVars
  <2>4. QED
    BY <1>0, <1>2, <2>1, <2>2, <2>3 DEF RInv, RestInv, txVars
<1>3. CASE mode = "tty" /\ TtyNext /\ UNCHANGED <<vars, procVars, mode>>
  <2>1. JInv'
    BY <1>0, <1>3, NextJInv
  <2>2. CoreInv' /\ SessionInv' /\ EchoRestored' /\ BoolInv'
    BY <1>0, <1>3, TtyKeepsCore, SessionKeeps, EchoStep, TtyBool
  <2>3. RestInv'
    BY <1>0, <1>3, PrivateStep DEF RestInv, procVars
  <2>4. QED
    BY <2>1, <2>2, <2>3 DEF RInv
<1>4. QED
  BY <1>1, <1>2, <1>3 DEF RecoveryNext

LEMMA RecoveryInvariance == RecoverySpec => []RInv
BY InitRInv, NextRInv, PTL DEF RecoverySpec

\* Every variable of the process, in both modes, keeps its type.
THEOREM RecoveryTypes == RecoverySpec => []RecoveryTypeOK
<1>1. RInv => RecoveryTypeOK
  <2> SUFFICES ASSUME RInv PROVE RecoveryTypeOK
    OBVIOUS
  <2>1. CoreTypeOK
    BY DEF RInv, CoreInv, SlotsInv, CallInv, BoolInv, CoreTypeOK
  <2>2. AgentTypeOK
    BY <2>1 DEF RInv, JInv, RestInv, AgentTypeOK
  <2>3. TtyTypeOK
    BY <2>1 DEF RInv, SessionInv, TxInv, Txs, DialogueInv, RestInv, BoolInv, TtyTypeOK
  <2>4. QED
    BY <2>2, <2>3 DEF RInv, RestInv, RecoveryTypeOK
<1>2. QED
  BY <1>1, RecoveryInvariance, PTL

\* The next boot finds a whole image in the slot recovery pointed it at, although
\* jobs run beside each other and beside an unlock that scrubs the directory.
THEOREM NextBootIsWhole == RecoverySpec => []BootsWhole
<1>1. RInv => BootsWhole
  BY DEF RInv, CoreInv
<1>2. QED
  BY <1>1, RecoveryInvariance, PTL

\* The boot state names the WAL's slot, but for a reinstall that is, failed or
\* was cut between its two library calls.
THEOREM BootStateFollows == RecoverySpec => []BootFollowsWal
<1>1. RInv => BootFollowsWal
  BY DEF RInv, CoreInv
<1>2. QED
  BY <1>1, RecoveryInvariance, PTL

\* A busy status has its cause under way, in a process that may end and be
\* started again at any point.
THEOREM AgentStatusIsTrue == RecoverySpec => []BusyIsTrue
<1>1. RInv => BusyIsTrue
  BY DEF RInv, JInv
<1>2. QED
  BY <1>1, RecoveryInvariance, PTL

\* No way out of the PIN prompt leaves the console without echo.
THEOREM EchoIsRestored == RecoverySpec => []EchoRestored
<1>1. RInv => EchoRestored
  BY DEF RInv
<1>2. QED
  BY <1>1, RecoveryInvariance, PTL

\* What the text UI says is cancelled has no consent left in either copy.
THEOREM CancelsAreFinal == RecoverySpec => []CancelledForGood
<1>1. RInv => CancelledForGood
  BY DEF RInv, SessionInv
<1>2. QED
  BY <1>1, RecoveryInvariance, PTL

\* Data goes only in a dialogue that was given a PIN and the word, on a recorded
\* transaction whose owner has proved the PIN.
THEOREM ErasuresAreTyped == RecoverySpec => ErasedAsTyped
<1> DEFINE Typed == private' # private =>
             /\ at = "unlocking" /\ typed = {"pin", "word"}
             /\ tx.stage = "recorded" /\ tx.owner \in proofs
<1>1. RInv /\ [RecoveryNext]_recoveryVars => [Typed]_sessionVars
  <2> SUFFICES ASSUME RInv, [RecoveryNext]_recoveryVars, private' # private PROVE Typed
    OBVIOUS
  <2>1. TtyNext
    BY DEF RecoveryNext, recoveryVars, txVars
  <2>2. QED
    BY <2>1, PrivateStep DEF RInv, SessionInv, TxInv, DialogueInv
<1>2. QED
  BY <1>1, RecoveryInvariance, PTL DEF RecoverySpec, ErasedAsTyped

-------------------------------------------------------------------------------
(* What recovery may not lose *)

\* "the guaranteed-safe recovery floor" (core.go:100): nothing that recovery does,
\* in either mode, takes away a slot's whole image or forgets the last good slot.
\* A staged image may be replaced by another whole one.
FloorKept == [][slots \subseteq slots' /\ wal'.good = wal.good]_recoveryVars

LEMMA CoreStepFloor ==
  ASSUME SlotsInv, NEW c \in Callers, CoreStep(c)
  PROVE  slots \subseteq slots' /\ wal'.good = wal.good
<1>1. CASE Stage(c)
  BY <1>1 DEF Stage, SlotsInv
<1>2. CASE Rollback(c)
  BY <1>2 DEF Rollback, SlotsInv
<1>3. CASE Fetch(c) \/ SyncBootState(c) \/ Repair(c) \/ RepairLoader(c) \/ CoreFails(c)
  BY <1>3 DEF Fetch, SyncBootState, Repair, RepairLoader, CoreFails
<1>4. QED
  BY <1>1, <1>2, <1>3 DEF CoreStep, Reinstall

LEMMA ScrubFloor ==
  ASSUME SlotsInv, Scrub
  PROVE  slots \subseteq slots' /\ wal'.good = wal.good
BY DEF Scrub, KeptSlots, SlotsInv, Slots

LEMMA AgentFloor ==
  ASSUME SlotsInv, AgentNext
  PROVE  slots \subseteq slots' /\ wal'.good = wal.good
<1>1. CASE UNCHANGED <<slots, wal>>
  BY <1>1
<1>2. ASSUME NEW r \in Requests, Handler(r) PROVE slots \subseteq slots' /\ wal'.good = wal.good
  <2>1. CASE CoreStep(r)
    BY <2>1, CoreStepFloor, AgentAssumption
  <2>2. CASE Wipe(r)
    BY <2>2, ScrubFloor DEF Wipe
  <2>3. QED
    BY <1>1, <1>2, <2>1, <2>2 DEF Handler, Job, JobReturns, Connected, coreVars
<1>3. QED
  BY <1>1, <1>2 DEF AgentNext, Listen, Serve, StartFails, Stop, Kill, Exit, CallsCut, LinkLost, coreVars

LEMMA TtyFloor ==
  ASSUME SlotsInv, TtyNext
  PROVE  slots \subseteq slots' /\ wal'.good = wal.good
<1>1. CASE UNCHANGED <<slots, wal>>
  BY <1>1
<1>2. CASE Work
  BY <1>2, CoreStepFloor, TtyAssumption DEF Work
<1>3. CASE UnlockStep
  BY <1>1, <1>3, ScrubFloor DEF UnlockStep, coreVars
<1>4. CASE PowerFails \/ ConnectReturns \/ WorkReturns
  BY <1>1, <1>4 DEF PowerFails, CallsCut, ConnectReturns, WorkReturns
<1>5. CASE ChooseRepair \/ Answer
  BY <1>1, <1>5 DEF ChooseRepair, Answer, Calls, coreVars
<1>6. CASE \/ ChooseUnlock \/ SettleOnChoice \/ ChooseWifi \/ Ask \/ ReadPIN \/ ReadConfirm \/ PickNetwork
           \/ ReadPassword \/ Leave \/ cancelUnlock \/ UnlockReturns \/ Signal \/ Writeback
  BY <1>1, <1>6 DEF ChooseUnlock, SettleOnChoice, ChooseWifi, Ask, ReadPIN, ReadConfirm, PickNetwork,
     ReadPassword, Leave, cancelUnlock, UnlockReturns, Signal, Writeback, coreVars
<1>7. QED
  BY <1>2, <1>3, <1>4, <1>5, <1>6 DEF TtyNext, Reads, Returns

\* A recovery that started with a system to return to never ends without one,
\* whatever jobs, unlocks and power losses met in between.
THEOREM FloorIsKept == RecoverySpec => FloorKept
<1>1. RInv /\ [RecoveryNext]_recoveryVars => [slots \subseteq slots' /\ wal'.good = wal.good]_recoveryVars
  BY AgentFloor, TtyFloor DEF RInv, CoreInv, RecoveryNext
<1>2. QED
  BY <1>1, RecoveryInvariance, PTL DEF RecoverySpec, FloorKept

-------------------------------------------------------------------------------
(* The text UI and the transaction it uses *)

\* Tty writes the transaction through the actions of UnlockTx alone, so that what
\* those keep is kept here.
LEMMA TtyUsesTx ==
  ASSUME grants \subseteq Owners, TtyNext
  PROVE  [TxNext]_txVars
<1>1. CASE UNCHANGED txVars
  BY <1>1
<1>2. CASE UnlockStep
  <2>1. CASE tx.stage = "armed" /\ (Prove(tx.owner) \/ Record(tx.owner))
    <3>1. tx.owner \in Owners
      BY <2>1 DEF Prove, Record
    <3>2. QED
      BY <2>1, <3>1 DEF TxNext
  <2>2. CASE Flip \/ Erase
    BY <2>2 DEF TxNext
  <2>3. QED
    BY <1>2, <2>1, <2>2 DEF UnlockStep
<1>3. CASE Close \/ PowerLoss \/ Sync
  BY <1>3 DEF TxNext
<1>4. CASE cancelUnlock
  BY <1>1, <1>3, <1>4 DEF cancelUnlock, Close
<1>5. CASE SettleOnChoice \/ UnlockReturns \/ PowerFails \/ Writeback
  BY <1>1, <1>3, <1>5 DEF SettleOnChoice, UnlockReturns, PowerFails, Writeback
<1>6. CASE ChooseUnlock \/ ChooseWifi \/ Ask \/ ChooseRepair \/ Signal
  BY <1>1, <1>6 DEF ChooseUnlock, ChooseWifi, Ask, ChooseRepair, Signal
<1>7. CASE Reads
  BY <1>1, <1>7 DEF Reads, ReadPIN, ReadConfirm, PickNetwork, ReadPassword, Answer, Leave
<1>8. CASE ConnectReturns \/ Work \/ WorkReturns
  BY <1>1, <1>8 DEF ConnectReturns, Work, WorkReturns
<1>9. QED
  BY <1>2, <1>4, <1>5, <1>6, <1>7, <1>8 DEF TtyNext, Returns

\* What the contract keeps for any caller: in the flag the agent reads and in the
\* one a power loss brings back, an armed unlock is its owner's and a recorded one
\* has the owner's proof too.
TxConsented ==
  \A t \in {tx, kept} :
    /\ t.stage = "armed" => t.owner \in grants
    /\ t.stage = "recorded" => t.owner \in grants \cap proofs

TxTyped == tx \in Txs /\ kept \in Txs /\ grants \subseteq Owners

LEMMA TxKeepsConsent ==
  ASSUME TxTyped, TxConsented, TxNext
  PROVE  TxTyped' /\ TxConsented'
<1>1. ASSUME NEW o \in Owners, Open(o) PROVE TxTyped' /\ TxConsented'
  <2>1. PICK t \in {tx, NoTx}, w \in Outcomes :
          /\ Write([stage |-> "armed", owner |-> o, count |-> t.count], w)
          /\ grants' = IF w = "ok" THEN {o} ELSE IF w = "lost" THEN grants ELSE grants \cup {o}
          /\ proofs' = IF w = "ok" THEN {} ELSE proofs
    BY <1>1 DEF Open
  <2>2. [stage |-> "armed", owner |-> o, count |-> t.count] \in Txs
    BY DEF TxTyped, Txs, NoTx
  <2>3. QED
    BY <2>1, <2>2, WriteTyped DEF TxTyped, TxConsented, Outcomes
<1>2. CASE Close
  <2>1. PICK w \in Outcomes, t \in {tx, NoTx} :
          /\ Write([stage |-> "none", owner |-> NoOwner,
                    count |-> IF t.stage = "recorded" THEN t.count + 1 ELSE t.count], w)
          /\ grants' = IF w = "ok" THEN {} ELSE grants
          /\ proofs' = IF w = "ok" THEN {} ELSE proofs
    BY <1>2 DEF Close, CloseAs
  <2>2. [stage |-> "none", owner |-> NoOwner,
         count |-> IF t.stage = "recorded" THEN t.count + 1 ELSE t.count] \in Txs
    BY DEF TxTyped, Txs, NoTx
  <2>3. QED
    BY <2>1, <2>2, WriteTyped DEF TxTyped, TxConsented, Outcomes
<1>3. ASSUME NEW o \in Owners, Record(o) PROVE TxTyped' /\ TxConsented'
  <2>1. PICK w \in Outcomes : Write([stage |-> "recorded", owner |-> o, count |-> tx.count], w)
    BY <1>3 DEF Record
  <2>2. [stage |-> "recorded", owner |-> o, count |-> tx.count] \in Txs
    BY DEF TxTyped, Txs
  <2>3. o \in grants \cap proofs /\ UNCHANGED <<grants, proofs>>
    BY <1>3 DEF Record
  <2>4. QED
    BY <2>1, <2>2, <2>3, WriteTyped DEF TxTyped, TxConsented, Outcomes
<1>4. CASE (\E o \in Owners : Prove(o)) \/ Erase \/ Flip \/ PowerLoss \/ Sync \/ Use
  BY <1>4 DEF Prove, Erase, Flip, PowerLoss, Sync, Use, TxTyped, TxConsented
<1>5. CASE Damage
  BY <1>5 DEF Damage, NoTx, Txs, TxTyped, TxConsented
<1>6. QED
  BY <1>1, <1>2, <1>3, <1>4, <1>5 DEF TxNext

\* The contract by itself: failed writes, failed reads, damage and power losses
\* never leave a transaction that nobody consented to.
THEOREM ContractKeepsConsent == TxSpec => []TxConsented
<1>1. TxInit => TxTyped /\ TxConsented
  BY DEF TxInit, NoTx, Txs, TxTyped, TxConsented
<1>2. TxTyped /\ TxConsented /\ [TxNext]_txVars => TxTyped' /\ TxConsented'
  BY TxKeepsConsent DEF TxTyped, TxConsented, txVars
<1>3. QED
  BY <1>1, <1>2, PTL DEF TxSpec

\* The process starts from what an unlock may have left and goes on as the
\* contract allows, so it keeps what the contract keeps.
LEMMA SessionConsent == RecoverySpec => [](TxTyped /\ TxConsented)
<1>1. run => TxTyped /\ TxConsented
  <2>1. TxInit => TxTyped /\ TxConsented
    BY DEF TxInit, NoTx, Txs, TxTyped, TxConsented
  <2>2. (\E o \in Owners, stage \in {"armed", "recorded"} :
           /\ tx = [stage |-> stage, owner |-> o, count |-> 0] /\ kept = tx
           /\ grants = {o} /\ proofs = IF stage = "armed" THEN {} ELSE {o})
          => TxTyped /\ TxConsented
    BY DEF Txs, TxTyped, TxConsented
  <2>3. QED
    BY <2>1, <2>2 DEF run, TtyInit
<1>2. TxTyped /\ TxConsented /\ [RecoveryNext]_recoveryVars => TxTyped' /\ TxConsented'
  <2> SUFFICES ASSUME TxTyped, TxConsented, [RecoveryNext]_recoveryVars PROVE TxTyped' /\ TxConsented'
    OBVIOUS
  <2>1. CASE UNCHANGED txVars
    BY <2>1 DEF TxTyped, TxConsented, txVars
  <2>2. CASE TtyNext
    BY <2>1, <2>2, TtyUsesTx, TxKeepsConsent DEF TxTyped
  <2>3. QED
    BY <2>1, <2>2 DEF RecoveryNext, recoveryVars
<1>3. QED
  BY <1>1, <1>2, PTL DEF RecoverySpec

\* In the process, too, a session that finds an unlock armed or interrupted before
\* it started included, no transaction is without its owner's consent.
THEOREM SessionsKeepConsent == RecoverySpec => []TxConsented
BY SessionConsent, PTL

-------------------------------------------------------------------------------
(* The status of requests that do not overlap *)

\* While a job runs the status says so.
RunningIsShown == (\E r \in Requests : pc[r] = "running") => state = Working

\* What StatusTracks says of jobs, which overlapping handlers break, holds when
\* requests come one after another, however often the process is restarted.
THEOREM OneByOneIsShown ==
  ASSUME NEW r, Requests = {r} PROVE RecoverySpec => []RunningIsShown
<1>1. run => RunningIsShown
  BY DEF run, AgentInit, Init, RunningIsShown
<1>2. RInv /\ RunningIsShown /\ [RecoveryNext]_recoveryVars => RunningIsShown'
  <2> SUFFICES ASSUME TypeOK, RunningIsShown, [RecoveryNext]_recoveryVars PROVE RunningIsShown'
    BY DEF RInv, JInv
  <2>1. CASE UNCHANGED vars
    BY <2>1 DEF RunningIsShown, vars
  <2>2. CASE AgentNext
    <3>1. CASE Next
      BY <3>1 DEF RunningIsShown, TypeOK, Next, Ends, CheckWorking, StartJob, JobEnds, ConnectBegins,
         ConnectFails, SetOnline, ConnectEnds, UnlockBegins, UnlockEnds, set, Goes
    <3>2. CASE Init'
      BY <3>2 DEF Init, RunningIsShown
    <3>3. QED
      BY <2>1, <2>2, <3>1, <3>2, AgentIsJobs
  <2>3. QED
    BY <2>1, <2>2 DEF RecoveryNext, recoveryVars, agentVars
<1>3. QED
  BY <1>1, <1>2, RecoveryInvariance, PTL DEF RecoverySpec

-------------------------------------------------------------------------------
(* How a session and its calls come to an end *)

\* Prompts and calls still to come once the input has ended.
PlacesLeft(place) ==
  CASE place \in {"pin", "confirm", "password"} -> 3 [] place = "gone" -> 0 [] place = "menu" -> 1 [] OTHER -> 2

\* Input that has ended stays so, in this session, and from then on every prompt
\* and every call leads towards the end: no menu entry is chosen, no unlock and no
\* core operation begins on an answer nobody gave.
WindsDown ==
  [][eof => \/ ~ eof' /\ at' = "menu"
            \/ eof' /\ at' = at
            \/ eof' /\ PlacesLeft(at') < PlacesLeft(at) /\ at' \notin {"unlocking", "working"}]_sessionVars

LEMMA EndedStep ==
  ASSUME TtyNext, eof
  PROVE  \/ ~ eof' /\ at' = "menu"
         \/ eof' /\ at' = at
         \/ eof' /\ at \in {"pin", "confirm"} /\ at' = "cancelling"
         \/ eof' /\ at = "password" /\ at' = "connecting"
         \/ eof' /\ at \in {"network", "askReinstall", "askLoader", "cancelling", "unlocking", "connecting", "working"}
              /\ at' = "menu"
         \/ eof' /\ at = "menu" /\ at' = "gone"
<1>1. CASE PowerFails
  BY <1>1, Zenon DEF PowerFails
<1>2. CASE ChooseUnlock \/ SettleOnChoice \/ ChooseWifi \/ Ask \/ ChooseRepair
  BY <1>2, Zenon DEF ChooseUnlock, SettleOnChoice, ChooseWifi, Ask, ChooseRepair, Line
<1>3. CASE ReadPIN \/ ReadConfirm \/ PickNetwork \/ ReadPassword \/ Leave
  BY <1>3, Zenon DEF ReadPIN, ReadConfirm, PickNetwork, ReadPassword, Leave, Line, NoLine, Enter
<1>4. CASE Answer
  <2>1. at \in {"askReinstall", "askLoader"} /\ eof' /\ at' = "menu"
    BY <1>4, Zenon DEF Answer, Line, NoLine, Enter
  <2>2. QED
    BY <2>1, Zenon
<1>5. CASE cancelUnlock \/ UnlockReturns \/ ConnectReturns \/ WorkReturns
  BY <1>5, Zenon DEF cancelUnlock, UnlockReturns, ConnectReturns, WorkReturns, Says, Enter
<1>6. CASE UnlockStep \/ Work \/ Signal \/ Writeback
  BY <1>6, Zenon DEF UnlockStep, Work, Signal, Writeback, ttyVars
<1>7. QED
  BY <1>1, <1>2, <1>3, <1>4, <1>5, <1>6 DEF TtyNext, Reads, Returns

\* At most three places from the end of the input to the end of the session; that
\* they are left is the fairness of SessionEnds.
THEOREM SessionsWindDown == RecoverySpec => WindsDown
<1> DEFINE Down == \/ ~ eof' /\ at' = "menu"
                   \/ eof' /\ at' = at
                   \/ eof' /\ PlacesLeft(at') < PlacesLeft(at) /\ at' \notin {"unlocking", "working"}
<1>1. ASSUME [RecoveryNext]_recoveryVars, eof PROVE Down
  <2>1. CASE UNCHANGED ttyVars
    BY <1>1, <2>1 DEF ttyVars
  <2>2. CASE TtyNext
    <3>1. CASE (~ eof' /\ at' = "menu") \/ (eof' /\ at' = at)
      BY <3>1
    <3>2. CASE \/ eof' /\ at \in {"pin", "confirm"} /\ at' = "cancelling"
               \/ eof' /\ at = "password" /\ at' = "connecting"
               \/ eof' /\ at \in {"network", "askReinstall", "askLoader", "cancelling", "unlocking",
                                  "connecting", "working"} /\ at' = "menu"
               \/ eof' /\ at = "menu" /\ at' = "gone"
      BY <3>2 DEF PlacesLeft
    <3>3. QED
      BY <1>1, <2>2, <3>1, <3>2, EndedStep
  <2>3. QED
    BY <1>1, <2>1, <2>2 DEF RecoveryNext, recoveryVars
<1>2. [RecoveryNext]_recoveryVars =>
        [eof => \/ ~ eof' /\ at' = "menu"
                \/ eof' /\ at' = at
                \/ eof' /\ PlacesLeft(at') < PlacesLeft(at) /\ at' \notin {"unlocking", "working"}]_sessionVars
  BY <1>1
<1>3. QED
  BY <1>2, PTL DEF RecoverySpec, WindsDown

\* Library calls an operation has still to make or to return from.
CallsLeft(place) ==
  CASE place = "fetch" -> 5 [] place = "stage" -> 4 [] place = "sync" -> 3 [] place = "repair" -> 3
    [] place \in {"rollback", "loader"} -> 2 [] place \in {"ok", "failed"} -> 1 [] OTHER -> 0

\* An operation that a job or the console has begun only goes forward, or is cut
\* with its process: none is begun over one that runs, in the same goroutine or by
\* a second request, and no step of another caller or of an unlock moves it.
OperationAdvances ==
  [][\A c \in Requests \cup {Console} :
       /\ call[c] # "none" => call'[c] = call[c] \/ CallsLeft(call'[c]) < CallsLeft(call[c])
       /\ CoreStep(c) => CallsLeft(call'[c]) < CallsLeft(call[c])]_recoveryVars

LEMMA CoreStepAdvances ==
  ASSUME call \in [Callers -> CallPlaces], NEW c \in Callers, CoreStep(c)
  PROVE  CallsLeft(call'[c]) < CallsLeft(call[c])
<1>1. \/ call[c] = "fetch" /\ call'[c] = "stage"
      \/ call[c] = "stage" /\ call'[c] = "sync"
      \/ call[c] = "repair" /\ call'[c] = "rollback"
      \/ call[c] \in {"fetch", "stage", "sync", "repair", "rollback", "loader"} /\ call'[c] \in {"ok", "failed"}
  BY DEF CoreStep, Reinstall, Fetch, Stage, SyncBootState, Repair, Rollback, RepairLoader, CoreFails, At
<1>2. QED
  BY <1>1 DEF CallsLeft

\* A call that is not the one of a step stays, and one that returns or is cut ends.
LEMMA CallReturns ==
  ASSUME NEW c, call \in [Callers -> CallPlaces], c \in Callers, call[c] # "none", call'[c] = "none"
  PROVE  CallsLeft(call'[c]) < CallsLeft(call[c])
BY DEF CallsLeft, CallPlaces

LEMMA AgentAdvances ==
  ASSUME CoreInv, mode = "serve", AgentNext, NEW c \in Callers, call[c] # "none", c \in Requests \cup {Console}
  PROVE  call'[c] = call[c] \/ CallsLeft(call'[c]) < CallsLeft(call[c])
<1>0. /\ call \in [Callers -> CallPlaces] /\ downloads \subseteq Callers /\ Requests \subseteq Callers
      /\ \A r \in Requests : call[r] # "none" => pc[r] = "running"
  BY AgentAssumption DEF CoreInv, CallInv
<1>1. ASSUME NEW r \in Requests, Handler(r)
      PROVE  call'[c] = call[c] \/ CallsLeft(call'[c]) < CallsLeft(call[c])
  <2>1. CASE UNCHANGED call
    BY <2>1
  <2>2. CASE StartJob(r) /\ At(r, verb[r])
    <3>1. r # c
      BY <1>0, <2>2 DEF StartJob
    <3>2. QED
      BY <1>0, <2>2, <3>1 DEF At
  <2>3. CASE CoreStep(r)
    <3>1. CASE c = r
      BY <1>0, <2>3, <3>1, CoreStepAdvances
    <3>2. CASE c # r
      BY <1>0, <2>3, <3>2, CoreStepCall
    <3>3. QED
      BY <3>1, <3>2
  <2>4. CASE At(r, "none")
    <3>1. call'[c] = call[c] \/ call'[c] = "none"
      BY <1>0, <2>4 DEF At
    <3>2. QED
      BY <1>0, <3>1, CallReturns
  <2>5. QED
    BY <1>1, <2>1, <2>2, <2>3, <2>4 DEF Handler, Job, JobReturns, Connected, Wipe, Scrub, coreVars
<1>2. CASE CallsCut
  BY <1>0, <1>2, CallReturns DEF CallsCut
<1>3. CASE UNCHANGED call
  BY <1>3
<1>4. QED
  BY <1>1, <1>2, <1>3 DEF AgentNext, Listen, Serve, StartFails, Stop, Kill, Exit, LinkLost, coreVars

LEMMA TtyAdvances ==
  ASSUME CoreInv, mode = "tty", TtyNext, NEW c \in Callers, call[c] # "none", c \in Requests \cup {Console}
  PROVE  call'[c] = call[c] \/ CallsLeft(call'[c]) < CallsLeft(call[c])
<1>0. /\ call \in [Callers -> CallPlaces] /\ downloads \subseteq Callers /\ Console \in Callers
      /\ call[Console] # "none" => at = "working"
  BY TtyAssumption DEF CoreInv, CallInv
<1>1. CASE UNCHANGED call
  BY <1>1
<1>2. ASSUME NEW op, at # "working", Calls(op)
      PROVE  call'[c] = call[c]
  BY <1>0, <1>2 DEF Calls
<1>3. CASE Work
  <2>1. CASE c = Console
    BY <1>0, <1>3, <2>1, CoreStepAdvances DEF Work
  <2>2. CASE c # Console
    BY <1>0, <1>3, <2>2, CoreStepCall DEF Work
  <2>3. QED
    BY <2>1, <2>2
<1>4. CASE WorkReturns
  <2>1. call'[c] = call[c] \/ call'[c] = "none"
    BY <1>0, <1>4 DEF WorkReturns, At
  <2>2. QED
    BY <1>0, <2>1, CallReturns
<1>5. CASE PowerFails
  BY <1>0, <1>5, CallReturns DEF PowerFails, CallsCut
<1>6. CASE ChooseRepair
  BY <1>2, <1>6 DEF ChooseRepair
<1>7. CASE Answer
  BY <1>1, <1>2, <1>7 DEF Answer, coreVars
<1>8. CASE UnlockStep
  BY <1>1, <1>8 DEF UnlockStep, Scrub, coreVars
<1>9. CASE \/ ChooseUnlock \/ SettleOnChoice \/ ChooseWifi \/ Ask \/ ReadPIN \/ ReadConfirm \/ PickNetwork
           \/ ReadPassword \/ Leave \/ cancelUnlock \/ UnlockReturns \/ ConnectReturns \/ Signal \/ Writeback
  BY <1>1, <1>9 DEF ChooseUnlock, SettleOnChoice, ChooseWifi, Ask, ReadPIN, ReadConfirm, PickNetwork,
     ReadPassword, Leave, cancelUnlock, UnlockReturns, ConnectReturns, Signal, Writeback, coreVars
<1>10. QED
  BY <1>3, <1>4, <1>5, <1>6, <1>7, <1>8, <1>9 DEF TtyNext, Reads, Returns

\* A reinstall is three library calls and the others fewer, whatever runs beside
\* them; that each call returns is the fairness of BusyEnds and SessionEnds.
THEOREM OperationsAreBounded == RecoverySpec => OperationAdvances
<1> DEFINE Stays(c) == call'[c] = call[c]
           Forward(c) == CallsLeft(call'[c]) < CallsLeft(call[c])
<1>1. ASSUME RInv, [RecoveryNext]_recoveryVars, NEW c \in Requests \cup {Console}
      PROVE  (call[c] # "none" => Stays(c) \/ Forward(c)) /\ (CoreStep(c) => Forward(c))
  <2>1. c \in Callers /\ CoreInv /\ call \in [Callers -> CallPlaces]
    BY <1>1, AgentAssumption, TtyAssumption DEF RInv, CoreInv, CallInv
  <2>2. CoreStep(c) => Forward(c)
    BY <2>1, CoreStepAdvances
  <2>3. ASSUME call[c] # "none" PROVE Stays(c) \/ Forward(c)
    <3>1. CASE UNCHANGED recoveryVars
      BY <3>1 DEF recoveryVars, agentVars, coreVars
    <3>2. CASE RecoveryNext
      BY <1>1, <2>1, <2>3, <3>2, AgentAdvances, TtyAdvances DEF RecoveryNext
    <3>3. QED
      BY <1>1, <3>1, <3>2
  <2> HIDE DEF Stays, Forward
  <2>4. QED
    BY <2>2, <2>3
<1>2. RInv /\ [RecoveryNext]_recoveryVars =>
        [\A c \in Requests \cup {Console} :
           /\ call[c] # "none" => call'[c] = call[c] \/ CallsLeft(call'[c]) < CallsLeft(call[c])
           /\ CoreStep(c) => CallsLeft(call'[c]) < CallsLeft(call[c])]_recoveryVars
  BY <1>1
<1>3. QED
  BY <1>2, RecoveryInvariance, PTL DEF RecoverySpec, OperationAdvances
===============================================================================
