----------------------------- MODULE UnlockProofs -----------------------------
(***************************************************************************)
(* Theorems about Unlock for every set of requests, owners and volumes and *)
(* every bound, with machine-checked proofs.                               *)
(*                                                                         *)
(* The argument is one inductive invariant, IInv.  First come facts about  *)
(* the operators on flags and volumes; then one lemma per part of IInv,    *)
(* with one step per action that can disturb that part; then the theorems. *)
(***************************************************************************)
EXTENDS Unlock, TLAPS

-------------------------------------------------------------------------------
(* Facts about the operators *)

\* unlockFlag{} is a flag.
LEMMA ZeroFlagType == ZeroFlag \in Flags
BY DEF ZeroFlag, Flags, Phases

\* finalizeUnlockFlag writes an unarmed flag without a phase, and counts a
\* phase exactly once.
LEMMA FinalizedFlag ==
  ASSUME NEW g \in Flags
  PROVE  /\ finalized(g) \in Flags
         /\ ~ finalized(g).armed
         /\ finalized(g).phase = ""
         /\ finalized(g).count >= g.count
         /\ g.phase # "" => finalized(g).count > 0
<1>1. g.count \in Nat
  BY DEF Flags
<1> DEFINE n == IF g.phase # "" THEN g.count + 1 ELSE g.count
<1>2. n \in Nat /\ n >= g.count /\ (g.phase # "" => n > 0)
  <2>1. ASSUME NEW k \in Nat PROVE k + 1 \in Nat /\ k + 1 >= k /\ k + 1 > 0 /\ k >= k
    OBVIOUS
  <2>2. CASE g.phase # ""
    BY <1>1, <2>1, <2>2
  <2>3. CASE g.phase = ""
    BY <1>1, <2>1, <2>3
  <2>4. QED
    BY <2>2, <2>3
<1>3. finalized(g) = [armed |-> FALSE, count |-> n, owner |-> NoOwner, phase |-> ""]
  BY DEF finalized
<1>4. ASSUME NEW k \in Nat
      PROVE  LET h == [armed |-> FALSE, count |-> k, owner |-> NoOwner, phase |-> ""] IN
               h \in Flags /\ h.armed = FALSE /\ h.phase = "" /\ h.count = k
  BY DEF Flags, Phases
<1> HIDE DEF n
<1>5. QED
  BY <1>2, <1>3, <1>4

\* Arming keeps the count and clears the phase.
LEMMA ArmedFlag ==
  ASSUME NEW g \in Flags, NEW o \in Owners
  PROVE  /\ armedFor(g, o) \in Flags
         /\ armedFor(g, o).armed
         /\ armedFor(g, o).owner = o
         /\ armedFor(g, o).phase = ""
         /\ armedFor(g, o).count = g.count
BY DEF armedFor, Flags, Phases

\* Recording the phase keeps everything else.
LEMMA RecordedFlag ==
  ASSUME NEW g \in Flags
  PROVE  LET h == [g EXCEPT !.phase = "verity-off"] IN
           /\ h \in Flags
           /\ h.armed = g.armed
           /\ h.owner = g.owner
           /\ h.phase = "verity-off"
           /\ h.count = g.count
BY DEF Flags, Phases

\* What a read-modify-write of the flag file can leave behind: each copy is the
\* old one or the new one, both are the new one when the call returned nil, and
\* a failed read or a failed sync has been noted.
LEMMA RewriteEffect ==
  ASSUME TypeOK, NEW g, NEW h, NEW w \in Writes, Rewrite(g, h, w)
  PROVE  /\ g \in {flag, ZeroFlag}
         /\ flag' \in {flag, h}
         /\ flagDisk' \in {flagDisk, h}
         /\ w = "ok" => flag' = h /\ flagDisk' = h
         /\ flagDisk' = h => flag' = h \/ flagDisk' = flagDisk
         /\ faults' \in Nat
         /\ seen' \subseteq {"unreadable", "unsynced"}
         /\ seen \subseteq seen'
         /\ g # flag => "unreadable" \in seen'
         /\ "unsynced" \notin seen' => \/ flag' = h /\ flagDisk' = h
                                       \/ flag' = flag /\ flagDisk' = flagDisk
<1>1. Pick(g = flag, 0, 1) + Pick(w = "ok", 0, 1) \in Nat
  BY DEF Pick
<1>2. faults' \in Nat
  BY <1>1 DEF Rewrite, Spend, TypeOK
<1>3. QED
  BY <1>2 DEF Rewrite, readUnlockFlag, writeUnlockFlag, Writes, Pick, TypeOK

-------------------------------------------------------------------------------
(* Types *)

\* Every step keeps every variable in its type.
LEMMA TypeStep ==
  ASSUME IInv, [Next]_vars PROVE TypeOK'
<1> USE ConstantsAssumption DEF Steps, ArmSteps, HolderSteps, ConsentSteps, WipeSteps, Passes
<1>0. TypeOK /\ MutexInv /\ ConsentInv
  BY DEF IInv
<1>1. CASE UNCHANGED vars
  BY <1>0, <1>1 DEF vars, TypeOK
<1>2. ASSUME NEW r \in Requests, NEW o \in Owners, ArmCheckLocked(r, o) PROVE TypeOK'
  BY <1>0, <1>2 DEF TypeOK, ArmCheckLocked, Spend, Pick
<1>3. ASSUME NEW r \in Requests, ArmVerifyPIN(r) PROVE TypeOK'
  BY <1>0, <1>3 DEF TypeOK, ArmVerifyPIN
<1>4. ASSUME NEW r \in Requests, ArmUnlockForOwner(r) PROVE TypeOK'
  <2>1. who[r] \in Owners
    BY <1>0, <1>4 DEF ArmUnlockForOwner, MutexInv
  <2>2. CASE flag.armed /\ flag.phase # "" /\ UNCHANGED <<flag, flagDisk, faults, seen, granted, proved>>
    BY <1>0, <1>4, <2>2 DEF ArmUnlockForOwner, TypeOK
  <2>3. CASE ~ (flag.armed /\ flag.phase # "" /\ UNCHANGED <<flag, flagDisk, faults, seen, granted, proved>>)
    <3>1. PICK g \in {flag, ZeroFlag}, w \in Writes :
            /\ Rewrite(g, armedFor(g, who[r]), w)
            /\ granted' = IF w = "ok" THEN {who[r]}
                          ELSE granted \cup Pick(w = "lost", {}, {who[r]})
            /\ proved' = IF w = "ok" THEN {} ELSE proved
      BY <1>4, <2>3 DEF ArmUnlockForOwner
    <3>2. armedFor(g, who[r]) \in Flags
      BY <1>0, <2>1, ZeroFlagType, ArmedFlag DEF TypeOK
    <3>3. flag' \in Flags /\ flagDisk' \in Flags /\ faults' \in Nat /\ seen' \subseteq {"unreadable", "unsynced"}
      BY <1>0, <3>1, <3>2, RewriteEffect DEF TypeOK
    <3>4. granted' \subseteq Owners /\ proved' \subseteq Owners
      BY <1>0, <2>1, <3>1 DEF TypeOK, Pick
    <3>5. QED
      BY <1>0, <1>4, <3>3, <3>4 DEF ArmUnlockForOwner, TypeOK
  <2>4. QED
    BY <2>2, <2>3
<1>5. ASSUME NEW r \in Requests, Disarm(r) PROVE TypeOK'
  <2>1. PICK g \in {flag, ZeroFlag}, w \in Writes : Rewrite(g, finalized(g), w) /\ EndGrant(w)
    BY <1>5 DEF Disarm
  <2>2. finalized(g) \in Flags
    BY <1>0, ZeroFlagType, FinalizedFlag DEF TypeOK
  <2>3. flag' \in Flags /\ flagDisk' \in Flags /\ faults' \in Nat /\ seen' \subseteq {"unreadable", "unsynced"}
    BY <1>0, <2>1, <2>2, RewriteEffect DEF TypeOK
  <2>4. QED
    BY <1>0, <1>5, <2>1, <2>3 DEF Disarm, EndGrant, TypeOK
<1>6. ASSUME NEW r \in Requests, LockState(r) PROVE TypeOK'
  <2>1. PICK w \in Writes : Rewrite(flag, finalized(flag), w) /\ EndGrant(w)
    BY <1>6 DEF LockState
  <2>2. finalized(flag) \in Flags
    BY <1>0, FinalizedFlag DEF TypeOK
  <2>3. flag' \in Flags /\ flagDisk' \in Flags /\ faults' \in Nat /\ seen' \subseteq {"unreadable", "unsynced"}
    BY <1>0, <2>1, <2>2, RewriteEffect DEF TypeOK
  <2>4. QED
    BY <1>0, <1>6, <2>1, <2>3 DEF LockState, EndGrant, TypeOK
<1>7. ASSUME NEW r \in Requests, BeginUnlock(r) PROVE TypeOK'
  BY <1>0, <1>7 DEF BeginUnlock, TypeOK
<1>8. ASSUME NEW r \in Requests, VerifyPIN(r) PROVE TypeOK'
  <2>1. f[r].owner \in Owners
    BY <1>0, <1>8 DEF VerifyPIN, ConsentInv, CopyBacked, TypeOK
  <2>2. QED
    BY <1>0, <1>8, <2>1 DEF VerifyPIN, GoTo, Return, TypeOK
<1>9. ASSUME NEW r \in Requests, Validate(r) PROVE TypeOK'
  BY <1>0, <1>9 DEF Validate, GoTo, Return, TypeOK
<1>10. ASSUME NEW r \in Requests, DisableVerity(r) PROVE TypeOK'
  BY <1>0, <1>10 DEF DisableVerity, GoTo, Return, Spend, TypeOK
<1>11. ASSUME NEW r \in Requests, ConfirmVerity(r) PROVE TypeOK'
  BY <1>0, <1>11 DEF ConfirmVerity, GoTo, Return, TypeOK
<1>12. ASSUME NEW r \in Requests, Record(r) PROVE TypeOK'
  <2> DEFINE current == [f[r] EXCEPT !.phase = "verity-off"]
  <2>1. PICK w \in Writes : Rewrite(flag, current, w)
    BY <1>12 DEF Record
  <2>2. current \in Flags
    BY <1>0, RecordedFlag DEF TypeOK
  <2> HIDE DEF current
  <2>3. flag' \in Flags /\ flagDisk' \in Flags /\ faults' \in Nat /\ seen' \subseteq {"unreadable", "unsynced"}
    BY <1>0, <2>1, <2>2, RewriteEffect DEF TypeOK
  <2>4. /\ f' = [f EXCEPT ![r] = current]
        /\ pc' \in [Requests -> Steps] /\ lockMu' \in Requests \cup {NoReq}
    BY <1>0, <1>12 DEF Record, GoTo, Return, TypeOK, current
  <2>5. UNCHANGED <<boot, mounted, who, verityOff, locked, data, granted, proved>>
    BY <1>12 DEF Record
  <2>6. QED
    BY <1>0, <2>2, <2>3, <2>4, <2>5 DEF TypeOK
<1>13. ASSUME NEW r \in Requests, NEW here, NEW next \in Steps, CheckVolume(r, here, next) PROVE TypeOK'
  BY <1>0, <1>13 DEF CheckVolume, GoTo, Return, TypeOK
<1>14. ASSUME NEW r \in Requests, NEW pass \in Passes, NEW next \in Steps, RemovePass(r, pass, next) PROVE TypeOK'
  BY <1>0, <1>14 DEF RemovePass, GoTo, Return, Spend, TypeOK
<1>15. ASSUME NEW r \in Requests, MkdirCustody(r) PROVE TypeOK'
  BY <1>0, <1>15 DEF MkdirCustody, GoTo, TypeOK, Paths
<1>16. ASSUME NEW r \in Requests, WipeVar(r) PROVE TypeOK'
  BY <1>0, <1>16 DEF WipeVar, GoTo, Return, Spend, TypeOK
<1>17. ASSUME NEW r \in Requests, SetUnlockBit(r) PROVE TypeOK'
  <2>1. locked' \in BOOLEAN
    BY <1>17, Zenon DEF SetUnlockBit
  <2>2. pc' \in [Requests -> Steps] /\ lockMu' \in Requests \cup {NoReq} /\ faults' \in Nat
    BY <1>0, <1>17 DEF SetUnlockBit, GoTo, Return, Spend, TypeOK
  <2>3. UNCHANGED <<boot, mounted, f, who, flag, flagDisk, verityOff, data, seen, granted, proved>>
    BY <1>17 DEF SetUnlockBit
  <2>4. QED
    BY <1>0, <2>1, <2>2, <2>3 DEF TypeOK
<1>18. ASSUME NEW r \in Requests, Finalize(r) PROVE TypeOK'
  <2>1. PICK g \in {flag, ZeroFlag}, w \in Writes : Rewrite(g, finalized(g), w) /\ EndGrant(w)
    BY <1>18 DEF Finalize
  <2>2. finalized(g) \in Flags
    BY <1>0, ZeroFlagType, FinalizedFlag DEF TypeOK
  <2>3. flag' \in Flags /\ flagDisk' \in Flags /\ faults' \in Nat /\ seen' \subseteq {"unreadable", "unsynced"}
    BY <1>0, <2>1, <2>2, RewriteEffect DEF TypeOK
  <2>4. QED
    BY <1>0, <1>18, <2>1, <2>3 DEF Finalize, Return, EndGrant, TypeOK
<1>19. ASSUME NEW r \in Requests, CallFails(r) PROVE TypeOK'
  BY <1>0, <1>19 DEF CallFails, Return, Spend, TypeOK
<1>20. CASE PowerLoss \/ AgentRestart
  <2>1. data' \in [Volumes -> SUBSET Paths]
    BY <1>0, <1>20 DEF PowerLoss, AgentRestart, CrashData, TypeOK
  <2>2. pc' \in [Requests -> Steps] /\ lockMu' = NoReq /\ faults' \in Nat
    BY <1>0, <1>20 DEF PowerLoss, AgentRestart, NoRequests, Spend, TypeOK
  <2>3. boot' \in {"runtime", "recovery"} /\ mounted' \in Volumes
    BY <1>0, <1>20 DEF PowerLoss, AgentRestart, BootInto, TypeOK
  <2>4. /\ flag' \in {flag, flagDisk}
        /\ UNCHANGED <<f, who, flagDisk, verityOff, locked, seen, granted, proved>>
    BY <1>20 DEF PowerLoss, AgentRestart
  <2>5. QED
    BY <1>0, <2>1, <2>2, <2>3, <2>4 DEF TypeOK
<1>21. CASE Reboot
  BY <1>0, <1>21 DEF Reboot, NoRequests, BootInto, TypeOK
<1>22. CASE Writeback
  BY <1>0, <1>22 DEF Writeback, TypeOK
<1>23. CASE CorruptFlag
  BY <1>0, <1>23, ZeroFlagType DEF CorruptFlag, Spend, TypeOK
<1>24. CASE UserActivity
  BY <1>0, <1>24 DEF UserActivity, TypeOK
<1>25. QED
  BY <1>1, <1>2, <1>3, <1>4, <1>5, <1>6, <1>7, <1>8, <1>9, <1>10, <1>11, <1>12,
     <1>13, <1>14, <1>15, <1>16, <1>17, <1>18, <1>19, <1>20, <1>21, <1>22, <1>23, <1>24
  DEF Next, Request, Environment, UnlockBootloader, prepareDataWipe, scrubBootArtifacts, finishDataWipe

-------------------------------------------------------------------------------
(* The mutex *)

\* A request moves on inside UnlockBootloader, or leaves it.
LEMMA MoveKeepsMutex ==
  ASSUME TypeOK, MutexInv, NEW r \in Requests, NEW next \in HolderSteps,
         pc[r] \in HolderSteps, GoTo(r, next) \/ Return(r),
         UNCHANGED <<boot, mounted, who>>
  PROVE  MutexInv'
BY ConstantsAssumption
DEF TypeOK, MutexInv, GoTo, Return, Steps, ArmSteps, HolderSteps, ConsentSteps, WipeSteps, Passes

\* Every step keeps lockMu with the one request inside UnlockBootloader.
LEMMA MutexStep ==
  ASSUME IInv, [Next]_vars PROVE MutexInv'
<1>0. TypeOK /\ MutexInv
  BY DEF IInv
<1>1. CASE UNCHANGED <<boot, mounted, lockMu, pc, who>>
  BY <1>0, <1>1 DEF MutexInv
<1>2. ASSUME NEW r \in Requests, NEW o \in Owners, ArmCheckLocked(r, o) PROVE MutexInv'
  BY <1>0, <1>2, ConstantsAssumption
  DEF TypeOK, MutexInv, ArmCheckLocked, LockedCall, Steps, ArmSteps, HolderSteps, ConsentSteps, WipeSteps, Passes
<1>3. ASSUME NEW r \in Requests, ArmVerifyPIN(r) \/ ArmUnlockForOwner(r) PROVE MutexInv'
  <2>1. /\ pc[r] \in ArmSteps
        /\ \/ pc' = [pc EXCEPT ![r] = "armWrite"]
           \/ pc' = [pc EXCEPT ![r] = "idle"]
        /\ UNCHANGED <<boot, mounted, lockMu, who>>
    BY <1>3 DEF ArmVerifyPIN, ArmUnlockForOwner, ArmSteps
  <2>2. QED
    BY <1>0, <2>1, ConstantsAssumption
    DEF TypeOK, MutexInv, Steps, ArmSteps, HolderSteps, ConsentSteps, WipeSteps, Passes
<1>4. ASSUME NEW r \in Requests, Disarm(r) \/ LockState(r) PROVE MutexInv'
  BY <1>1, <1>4 DEF Disarm, LockState
<1>5. ASSUME NEW r \in Requests, BeginUnlock(r) PROVE MutexInv'
  <2>1. /\ lockMu = NoReq /\ lockMu' = r /\ boot = "recovery"
        /\ \E step \in {"verifyPIN", "prepare"} : pc' = [pc EXCEPT ![r] = step]
        /\ UNCHANGED <<boot, mounted, who>>
    BY <1>5 DEF BeginUnlock, LockedCall
  <2>2. QED
    BY <1>0, <2>1, ConstantsAssumption
    DEF TypeOK, MutexInv, Steps, ArmSteps, HolderSteps, ConsentSteps, WipeSteps, Passes
<1>6. ASSUME NEW r \in Requests, UnlockBootloader(r), ~ BeginUnlock(r) PROVE MutexInv'
  <2>1. /\ pc[r] \in HolderSteps
        /\ UNCHANGED <<boot, mounted, who>>
        /\ \E next \in HolderSteps : GoTo(r, next) \/ Return(r)
    <3> USE DEF HolderSteps, ConsentSteps, WipeSteps, Passes
    <3>1. CASE VerifyPIN(r) \/ Validate(r) \/ DisableVerity(r) \/ ConfirmVerity(r)
      BY <3>1 DEF VerifyPIN, Validate, DisableVerity, ConfirmVerity
    <3>2. CASE Record(r)
      BY <3>2 DEF Record
    <3>3. CASE prepareDataWipe(r) \/ finishDataWipe(r)
      BY <3>3 DEF prepareDataWipe, scrubBootArtifacts, finishDataWipe, CheckVolume, RemovePass, MkdirCustody
    <3>4. CASE WipeVar(r) \/ SetUnlockBit(r) \/ Finalize(r) \/ CallFails(r)
      BY <3>4 DEF WipeVar, SetUnlockBit, Finalize, CallFails
    <3>5. QED
      BY <1>6, <3>1, <3>2, <3>3, <3>4 DEF UnlockBootloader
  <2>2. QED
    BY <1>0, <2>1, MoveKeepsMutex
<1>7. CASE PowerLoss \/ AgentRestart \/ Reboot
  <2>1. /\ pc' = [r \in Requests |-> "idle"] /\ lockMu' = NoReq
        /\ \/ UNCHANGED <<boot, mounted>>
           \/ boot' = "runtime" => mounted' = OwnVolume
    BY <1>7 DEF PowerLoss, AgentRestart, Reboot, NoRequests, BootInto
  <2>2. QED
    BY <1>0, <2>1, ConstantsAssumption
    DEF MutexInv, ArmSteps, HolderSteps, ConsentSteps, WipeSteps, Passes
<1>8. CASE Writeback \/ CorruptFlag \/ UserActivity
  BY <1>1, <1>8 DEF Writeback, CorruptFlag, UserActivity
<1>9. QED
  BY <1>1, <1>2, <1>3, <1>4, <1>5, <1>6, <1>7, <1>8 DEF Next, Request, Environment, vars

-------------------------------------------------------------------------------
(* Consent *)

\* While lockMu is free nobody is inside UnlockBootloader, and nobody else is
\* while somebody is.
LEMMA OneHolder ==
  ASSUME TypeOK, MutexInv
  PROVE  /\ lockMu = NoReq => \A r \in Requests : pc[r] \notin HolderSteps
         /\ \A r, q \in Requests : pc[r] \in HolderSteps /\ pc[q] \in HolderSteps => r = q
BY ConstantsAssumption DEF TypeOK, MutexInv

\* A call that clears the flag keeps the consent invariant: a copy that is not
\* overwritten stays backed, because the grant ends only when both are.
LEMMA ClearKeepsConsent ==
  ASSUME IInv, NEW g \in {flag, ZeroFlag}, NEW w \in Writes,
         Rewrite(g, finalized(g), w), EndGrant(w), UNCHANGED verityOff
  PROVE  Backed(flag)' /\ Backed(flagDisk)'
<1>1. TypeOK /\ Backed(flag) /\ Backed(flagDisk)
  BY DEF IInv, ConsentInv
<1>2. ~ finalized(g).armed /\ finalized(g).phase = ""
  BY <1>1, ZeroFlagType, FinalizedFlag DEF TypeOK
<1>3. /\ flag' \in {flag, finalized(g)} /\ flagDisk' \in {flagDisk, finalized(g)}
      /\ w = "ok" => flag' = finalized(g) /\ flagDisk' = finalized(g)
  BY <1>1, RewriteEffect
<1>4. CASE w = "ok"
  BY <1>2, <1>3, <1>4 DEF Backed
<1>5. CASE w # "ok"
  BY <1>1, <1>2, <1>3, <1>5 DEF Backed, EndGrant
<1>6. QED
  BY <1>4, <1>5

\* A step of one request leaves the copies of the others backed, as long as it
\* takes no grant, no proof and no TPM state away.
LEMMA OthersStayBacked ==
  ASSUME ConsentInv, NEW r \in Requests,
         \A q \in Requests \ {r} : pc'[q] = pc[q] /\ f'[q] = f[q],
         granted \subseteq granted', proved \subseteq proved', verityOff => verityOff',
         Backed(flag)', Backed(flagDisk)', CopyBacked(r)'
  PROVE  ConsentInv'
<1>1. ASSUME NEW q \in Requests \ {r} PROVE CopyBacked(q)'
  BY DEF ConsentInv, CopyBacked
<1>2. QED
  BY <1>1 DEF ConsentInv

\* Every step keeps each copy of the flag backed by grants and proofs.
LEMMA ConsentStep ==
  ASSUME IInv, [Next]_vars PROVE ConsentInv'
<1> USE DEF Steps, ArmSteps, HolderSteps, ConsentSteps, WipeSteps, Passes
<1>0. TypeOK /\ MutexInv /\ ConsentInv
  BY DEF IInv
<1>1. CASE UNCHANGED <<pc, f, flag, flagDisk, verityOff, granted, proved>>
  BY <1>0, <1>1 DEF ConsentInv, Backed, CopyBacked
<1>2. ASSUME NEW r \in Requests, (\E o \in Owners : ArmCheckLocked(r, o)) \/ ArmVerifyPIN(r)
      PROVE  ConsentInv'
  <2>1. /\ \E step \in ArmSteps \cup {"idle"} : pc' = [pc EXCEPT ![r] = step]
        /\ UNCHANGED <<f, flag, flagDisk, verityOff, granted, proved>>
    BY <1>2 DEF ArmCheckLocked, ArmVerifyPIN
  <2>2. QED
    <3>1. Backed(flag)' /\ Backed(flagDisk)' /\ CopyBacked(r)'
      BY <1>0, <2>1 DEF TypeOK, ConsentInv, Backed, CopyBacked
    <3>2. QED
      BY <1>0, <2>1, <3>1, OthersStayBacked DEF TypeOK
<1>3. ASSUME NEW r \in Requests, ArmUnlockForOwner(r) PROVE ConsentInv'
  <2>1. who[r] \in Owners
    BY <1>0, <1>3 DEF ArmUnlockForOwner, MutexInv
  <2>2. \A q \in Requests : pc'[q] \notin HolderSteps
    BY <1>0, <1>3, OneHolder DEF ArmUnlockForOwner, TypeOK
  <2>3. Backed(flag)' /\ Backed(flagDisk)'
    <3>1. CASE flag.armed /\ flag.phase # "" /\ UNCHANGED <<flag, flagDisk, faults, seen, granted, proved>>
      BY <1>0, <1>3, <3>1 DEF ArmUnlockForOwner, ConsentInv, Backed
    <3>2. CASE ~ (flag.armed /\ flag.phase # "" /\ UNCHANGED <<flag, flagDisk, faults, seen, granted, proved>>)
      <4> DEFINE h(g) == armedFor(g, who[r])
      <4>1. PICK g \in {flag, ZeroFlag}, w \in Writes :
              /\ Rewrite(g, h(g), w)
              /\ granted' = IF w = "ok" THEN {who[r]}
                            ELSE granted \cup Pick(w = "lost", {}, {who[r]})
              /\ proved' = IF w = "ok" THEN {} ELSE proved
        BY <1>3, <3>2 DEF ArmUnlockForOwner
      <4>2. h(g).armed /\ h(g).owner = who[r] /\ h(g).phase = ""
        <5>1. g \in Flags
          BY <1>0, ZeroFlagType DEF TypeOK
        <5>2. QED
          BY <2>1, <5>1, ArmedFlag
      <4> HIDE DEF h
      <4>3. /\ flag' \in {flag, h(g)} /\ flagDisk' \in {flagDisk, h(g)}
            /\ w = "ok" => flag' = h(g) /\ flagDisk' = h(g)
        BY <1>0, <4>1, RewriteEffect
      <4>4. UNCHANGED verityOff
        BY <1>3 DEF ArmUnlockForOwner
      <4>5. CASE w = "ok"
        BY <4>1, <4>2, <4>3, <4>5 DEF Backed
      <4>6. CASE w = "unsynced"
        BY <1>0, <4>1, <4>2, <4>3, <4>4, <4>6 DEF Backed, ConsentInv, Pick
      <4>7. CASE w = "lost"
        <5>1. flag' = flag /\ flagDisk' = flagDisk
          BY <4>1, <4>7 DEF Rewrite, writeUnlockFlag
        <5>2. QED
          BY <1>0, <4>1, <4>4, <4>7, <5>1 DEF Backed, ConsentInv, Pick
      <4>8. QED
        BY <4>5, <4>6, <4>7 DEF Writes
    <3>3. QED
      BY <3>1, <3>2
  <2>4. QED
    BY <2>2, <2>3 DEF ConsentInv, CopyBacked
<1>4. ASSUME NEW r \in Requests, Disarm(r) \/ LockState(r) PROVE ConsentInv'
  <2>1. /\ lockMu = NoReq /\ UNCHANGED <<pc, f, verityOff>>
        /\ \E g \in {flag, ZeroFlag}, w \in Writes : Rewrite(g, finalized(g), w) /\ EndGrant(w)
    BY <1>4 DEF Disarm, LockState, LockedCall
  <2>2. Backed(flag)' /\ Backed(flagDisk)'
    BY <2>1, ClearKeepsConsent
  <2>3. QED
    BY <1>0, <2>1, <2>2, OneHolder DEF ConsentInv, CopyBacked
<1>5. ASSUME NEW r \in Requests, BeginUnlock(r) PROVE ConsentInv'
  <2>1. \A q \in Requests : pc[q] \notin HolderSteps
    BY <1>0, <1>5, OneHolder DEF BeginUnlock, LockedCall
  <2>2. /\ flag.armed /\ f' = [f EXCEPT ![r] = flag]
        /\ UNCHANGED <<flag, flagDisk, verityOff, granted, proved>>
        /\ \/ pc' = [pc EXCEPT ![r] = "verifyPIN"]
           \/ pc' = [pc EXCEPT ![r] = "prepare"] /\ flag.phase # "" /\ verityOff
    BY <1>5 DEF BeginUnlock
  <2>3. QED
    <3>1. Backed(flag)' /\ Backed(flagDisk)' /\ CopyBacked(r)'
      BY <1>0, <2>1, <2>2 DEF TypeOK, ConsentInv, Backed, CopyBacked
    <3>2. QED
      BY <1>0, <2>2, <3>1, OthersStayBacked DEF TypeOK
<1>6. ASSUME NEW r \in Requests, VerifyPIN(r) PROVE ConsentInv'
  <2>1. /\ pc[r] = "verifyPIN" /\ UNCHANGED <<f, flag, flagDisk, verityOff, granted>>
        /\ \/ pc' = [pc EXCEPT ![r] = "validate"] /\ proved' = proved \cup {f[r].owner}
           \/ pc' = [pc EXCEPT ![r] = "idle"] /\ proved' = proved
    BY <1>6 DEF VerifyPIN, GoTo, Return
  <2>2. QED
    <3>1. Backed(flag)' /\ Backed(flagDisk)'
      BY <1>0, <2>1 DEF ConsentInv, Backed
    <3>2. CopyBacked(r)'
      BY <1>0, <2>1 DEF TypeOK, ConsentInv, CopyBacked
    <3>3. QED
      BY <1>0, <2>1, <3>1, <3>2, OthersStayBacked DEF TypeOK
<1>7. ASSUME NEW r \in Requests, Validate(r) PROVE ConsentInv'
  <2>1. /\ pc[r] = "validate" /\ UNCHANGED <<f, flag, flagDisk, verityOff, granted, proved>>
        /\ \E next \in {"disableVerity", "idle"} : pc' = [pc EXCEPT ![r] = next]
    BY <1>7 DEF Validate, GoTo, Return
  <2>2. QED
    <3>1. Backed(flag)' /\ Backed(flagDisk)'
      BY <1>0, <2>1 DEF ConsentInv, Backed
    <3>2. CopyBacked(r)'
      BY <1>0, <2>1 DEF TypeOK, ConsentInv, CopyBacked
    <3>3. QED
      BY <1>0, <2>1, <3>1, <3>2, OthersStayBacked DEF TypeOK
<1>8. ASSUME NEW r \in Requests, DisableVerity(r) PROVE ConsentInv'
  <2>1. /\ pc[r] = "disableVerity" /\ verityOff' /\ UNCHANGED <<f, flag, flagDisk, granted, proved>>
        /\ \E next \in {"confirmVerity", "idle"} : pc' = [pc EXCEPT ![r] = next]
    BY <1>8 DEF DisableVerity, GoTo, Return
  <2>2. QED
    <3>1. Backed(flag)' /\ Backed(flagDisk)'
      BY <1>0, <2>1 DEF ConsentInv, Backed
    <3>2. CopyBacked(r)'
      BY <1>0, <2>1 DEF TypeOK, ConsentInv, CopyBacked
    <3>3. QED
      BY <1>0, <2>1, <3>1, <3>2, OthersStayBacked DEF TypeOK
<1>9. ASSUME NEW r \in Requests, ConfirmVerity(r) PROVE ConsentInv'
  <2>1. /\ pc[r] = "confirmVerity" /\ UNCHANGED <<flag, flagDisk, verityOff, granted, proved>>
        /\ \/ /\ pc' = [pc EXCEPT ![r] = "record"] /\ f' = [f EXCEPT ![r] = flag]
              /\ verityOff /\ flag.armed /\ flag.owner = f[r].owner
           \/ pc' = [pc EXCEPT ![r] = "idle"] /\ f' = f
    BY <1>9 DEF ConfirmVerity, SameConsent, GoTo, Return
  <2>2. QED
    <3>1. Backed(flag)' /\ Backed(flagDisk)'
      BY <1>0, <2>1 DEF ConsentInv, Backed
    <3>2. CopyBacked(r)'
      BY <1>0, <2>1 DEF TypeOK, ConsentInv, CopyBacked
    <3>3. QED
      BY <1>0, <2>1, <3>1, <3>2, OthersStayBacked DEF TypeOK
<1>10. ASSUME NEW r \in Requests, Record(r) PROVE ConsentInv'
  <2> DEFINE current == [f[r] EXCEPT !.phase = "verity-off"]
  <2>1. /\ pc[r] = "record" /\ f' = [f EXCEPT ![r] = current]
        /\ UNCHANGED <<verityOff, granted, proved>>
        /\ pc' = [pc EXCEPT ![r] = "prepare"] \/ pc' = [pc EXCEPT ![r] = "idle"]
    BY <1>10 DEF Record, GoTo, Return
  <2>2. PICK w \in Writes : Rewrite(flag, current, w)
    BY <1>10 DEF Record
  <2>3. current.owner = f[r].owner /\ current.armed = f[r].armed
    BY <1>0, RecordedFlag DEF TypeOK
  <2> HIDE DEF current
  <2>4. flag' \in {flag, current} /\ flagDisk' \in {flagDisk, current}
    BY <1>0, <2>2, RewriteEffect
  <2>5. Backed(flag)' /\ Backed(flagDisk)'
    BY <1>0, <2>1, <2>3, <2>4 DEF Backed, ConsentInv, CopyBacked
  <2>6. QED
    <3>1. CopyBacked(r)'
      BY <1>0, <2>1, <2>3 DEF TypeOK, ConsentInv, CopyBacked
    <3>2. QED
      BY <1>0, <2>1, <2>5, <3>1, OthersStayBacked DEF TypeOK
<1>11. ASSUME NEW r \in Requests, prepareDataWipe(r) \/ WipeVar(r) \/ finishDataWipe(r) \/ SetUnlockBit(r)
       PROVE  ConsentInv'
  <2>1. /\ pc[r] \in WipeSteps /\ UNCHANGED <<f, flag, flagDisk, verityOff, granted, proved>>
        /\ \E next \in WipeSteps \cup {"idle"} : pc' = [pc EXCEPT ![r] = next]
    BY <1>11 DEF prepareDataWipe, scrubBootArtifacts, finishDataWipe, CheckVolume, RemovePass,
                 MkdirCustody, WipeVar, SetUnlockBit, GoTo, Return
  <2>2. QED
    <3>1. Backed(flag)' /\ Backed(flagDisk)'
      BY <1>0, <2>1 DEF ConsentInv, Backed
    <3>2. CopyBacked(r)'
      BY <1>0, <2>1 DEF TypeOK, ConsentInv, CopyBacked
    <3>3. QED
      BY <1>0, <2>1, <3>1, <3>2, OthersStayBacked DEF TypeOK
<1>12. ASSUME NEW r \in Requests, Finalize(r) PROVE ConsentInv'
  <2>1. /\ pc[r] = "finalize" /\ pc' = [pc EXCEPT ![r] = "idle"] /\ UNCHANGED verityOff
        /\ \E g \in {flag, ZeroFlag}, w \in Writes : Rewrite(g, finalized(g), w) /\ EndGrant(w)
    BY <1>12 DEF Finalize, Return
  <2>2. Backed(flag)' /\ Backed(flagDisk)'
    BY <2>1, ClearKeepsConsent
  <2>3. \A q \in Requests : pc'[q] \notin HolderSteps
    BY <1>0, <2>1, OneHolder DEF TypeOK
  <2>4. QED
    BY <2>2, <2>3 DEF ConsentInv, CopyBacked
<1>13. ASSUME NEW r \in Requests, CallFails(r) PROVE ConsentInv'
  <2>1. /\ pc[r] \in HolderSteps /\ UNCHANGED <<f, flag, flagDisk, verityOff, granted, proved>>
        /\ pc' = [pc EXCEPT ![r] = "idle"]
    BY <1>13 DEF CallFails, GoTo, Return
  <2>2. QED
    <3>1. Backed(flag)' /\ Backed(flagDisk)'
      BY <1>0, <2>1 DEF ConsentInv, Backed
    <3>2. CopyBacked(r)'
      BY <1>0, <2>1 DEF TypeOK, ConsentInv, CopyBacked
    <3>3. QED
      BY <1>0, <2>1, <3>1, <3>2, OthersStayBacked DEF TypeOK
<1>14. CASE PowerLoss \/ AgentRestart \/ Reboot
  <2>1. /\ pc' = [r \in Requests |-> "idle"]
        /\ flag' \in {flag, flagDisk} /\ flagDisk' \in {flag, flagDisk}
        /\ UNCHANGED <<verityOff, granted, proved>>
    BY <1>14 DEF PowerLoss, AgentRestart, Reboot, NoRequests
  <2>2. QED
    BY <1>0, <2>1 DEF ConsentInv, Backed, CopyBacked
<1>15. CASE Writeback \/ CorruptFlag
  <2>1. /\ flag' \in {flag, ZeroFlag} /\ flagDisk' \in {flag, ZeroFlag}
        /\ UNCHANGED <<pc, f, verityOff, granted, proved>>
    BY <1>15 DEF Writeback, CorruptFlag
  <2>2. QED
    <3>1. Backed(flag)' /\ Backed(flagDisk)'
      <4>1. ~ ZeroFlag.armed /\ ZeroFlag.phase = ""
        BY DEF ZeroFlag
      <4>2. QED
        BY <1>0, <2>1, <4>1 DEF ConsentInv, Backed
    <3>2. QED
      BY <1>0, <2>1, <3>1 DEF ConsentInv, CopyBacked
<1>16. CASE UserActivity
  BY <1>1, <1>16 DEF UserActivity
<1>17. QED
  BY <1>1, <1>2, <1>3, <1>4, <1>5, <1>6, <1>7, <1>8, <1>9, <1>10, <1>11, <1>12,
     <1>13, <1>14, <1>15, <1>16
  DEF Next, Request, Environment, UnlockBootloader, vars

-------------------------------------------------------------------------------
(* The volume *)

\* What each pass removes.
LEMMA PassesRemove ==
  /\ Removed("scrubBoot") = {"bootOther"}
  /\ Removed("scrubRootfs") = {"rootfsOther"}
  /\ Removed("scrubTop") = {"home"}
  /\ Removed("scrubLib") = {"libOther"}
  /\ Removed("finishTop") = {"home", "lib", "libOther", "sinty", "keys"}
<1>1. ASSUME NEW dir, NEW keep, NEW e, Entries(dir) \ keep = {e}
      PROVE  UNION {Subtree(entry) : entry \in Entries(dir) \ keep} = Subtree(e)
  BY <1>1
<1>2. Removed("scrubBoot") = {"bootOther"}
  <2>1. Entries("boot") \ {"efi", "rootfs"} = {"bootOther"}
    BY DEF Entries
  <2>2. QED
    BY <1>1, <2>1 DEF Removed, PassDir, PassKeep, Subtree
<1>3. Removed("scrubRootfs") = {"rootfsOther"}
  <2>1. Entries("rootfs") \ {"slots"} = {"rootfsOther"}
    BY DEF Entries
  <2>2. QED
    BY <1>1, <2>1 DEF Removed, PassDir, PassKeep, Subtree
<1>4. Removed("scrubTop") = {"home"}
  <2>1. Entries("/") \ {"boot", "marker", "installId", "lib"} = {"home"}
    BY DEF Entries
  <2>2. QED
    BY <1>1, <2>1 DEF Removed, PassDir, PassKeep, Subtree
<1>5. Removed("scrubLib") = {"libOther"}
  <2>1. Entries("lib") \ {"sinty"} = {"libOther"}
    BY DEF Entries
  <2>2. QED
    BY <1>1, <2>1 DEF Removed, PassDir, PassKeep, Subtree
<1>6. Removed("finishTop") = {"home", "lib", "libOther", "sinty", "keys"}
  <2>1. Entries("/") \ {"boot", "marker", "installId"} = {"lib", "home"}
    BY DEF Entries
  <2>2. Removed("finishTop") = Subtree("lib") \cup Subtree("home")
    BY <2>1 DEF Removed, PassDir, PassKeep
  <2>3. QED
    BY <2>2 DEF Subtree
<1>7. QED
  BY <1>2, <1>3, <1>4, <1>5, <1>6

\* No pass, whole or torn, removes what validateDataDir asks for.
LEMMA PassesKeepRequired ==
  ASSUME NEW pass \in Passes
  PROVE  /\ Removed(pass) \cap Required = {}
         /\ \A volume : \A gone \in TornRemoval(pass, volume) : gone \cap Required = {}
<1>1. Removed(pass) \cap Required = {}
  BY PassesRemove DEF Passes, Required
<1>2. QED
  BY <1>1 DEF TornRemoval

\* Only the request inside UnlockBootloader has progress to keep.
LEMMA HolderProgress ==
  ASSUME TypeOK, MutexInv, NEW r \in Requests, pc[r] \in HolderSteps, NEW next,
         pc' = [pc EXCEPT ![r] = next], WipeProgress(r)', RetryFindsVolume'
  PROVE  VolumeInv'
<1>1. ASSUME NEW q \in Requests \ {r} PROVE WipeProgress(q)'
  <2>1. pc'[q] \notin HolderSteps
    BY OneHolder DEF TypeOK
  <2>2. QED
    BY <2>1 DEF WipeProgress, AfterCheck, AfterBoot, AfterRootfs, HolderSteps, WipeSteps
<1>2. QED
  BY <1>1 DEF VolumeInv

\* A removal pass goes on to the next step with its entries gone, or stops part
\* of the way.
LEMMA PassStep ==
  ASSUME IInv, NEW r \in Requests, NEW pass \in Passes, NEW next, RemovePass(r, pass, next)
  PROVE  /\ pc[r] = pass /\ mounted = OwnVolume /\ RetryFindsVolume'
         /\ data'[OwnVolume] \subseteq data[OwnVolume]
         /\ \A v \in Volumes \ {OwnVolume} : data'[v] = data[v]
         /\ UNCHANGED mounted
         /\ \/ /\ pc' = [pc EXCEPT ![r] = next]
               /\ data'[OwnVolume] = data[OwnVolume] \ Removed(pass)
            \/ pc' = [pc EXCEPT ![r] = "idle"]
<1>1. TypeOK /\ VolumeInv /\ pc[r] = pass
  BY DEF IInv, RemovePass
<1>2. mounted = OwnVolume
  BY <1>1 DEF VolumeInv, WipeProgress, AfterCheck, WipeSteps, Passes
<1>3. PICK gone \in SUBSET Removed(pass) :
        /\ data' = [data EXCEPT ![OwnVolume] = @ \ gone]
        /\ \/ pc' = [pc EXCEPT ![r] = next] /\ gone = Removed(pass)
           \/ pc' = [pc EXCEPT ![r] = "idle"]
  BY <1>2 DEF RemovePass, TornRemoval, GoTo, Return
<1>4. data'[OwnVolume] = data[OwnVolume] \ gone /\ \A v \in Volumes \ {OwnVolume} : data'[v] = data[v]
  BY <1>1, <1>3, ConstantsAssumption DEF TypeOK
<1>5. gone \cap Required = {}
  BY PassesKeepRequired
<1>6. RetryFindsVolume'
  BY <1>1, <1>4, <1>5 DEF VolumeInv, RetryFindsVolume
<1>7. QED
  BY <1>1, <1>2, <1>3, <1>4, <1>6 DEF RemovePass

\* Every step keeps the volume valid and what a wipe removed gone.
LEMMA VolumeStep ==
  ASSUME IInv, [Next]_vars PROVE VolumeInv'
<1> USE DEF HolderSteps, ConsentSteps, WipeSteps, Passes, AfterCheck, AfterBoot, AfterRootfs
<1>0. TypeOK /\ MutexInv /\ VolumeInv
  BY DEF IInv
<1>1. CASE UNCHANGED <<pc, mounted, data>>
  BY <1>0, <1>1 DEF VolumeInv, WipeProgress, RetryFindsVolume
<1>2. ASSUME NEW r \in Requests,
             (\E o \in Owners : ArmCheckLocked(r, o)) \/ ArmVerifyPIN(r) \/ ArmUnlockForOwner(r)
      PROVE  VolumeInv'
  <2>1. UNCHANGED <<mounted, data>> /\ \E step \in {"armPIN", "armWrite", "idle"} : pc' = [pc EXCEPT ![r] = step]
    BY <1>2 DEF ArmCheckLocked, ArmVerifyPIN, ArmUnlockForOwner
  <2>2. QED
    BY <1>0, <2>1 DEF TypeOK, VolumeInv, WipeProgress, RetryFindsVolume
<1>3. ASSUME NEW r \in Requests, Disarm(r) \/ LockState(r) PROVE VolumeInv'
  BY <1>1, <1>3 DEF Disarm, LockState
<1>4. ASSUME NEW r \in Requests, BeginUnlock(r) PROVE VolumeInv'
  <2>1. UNCHANGED <<mounted, data>> /\ \E step \in {"verifyPIN", "prepare"} : pc' = [pc EXCEPT ![r] = step]
    BY <1>4 DEF BeginUnlock
  <2>2. QED
    BY <1>0, <2>1 DEF TypeOK, VolumeInv, WipeProgress, RetryFindsVolume
<1>5. ASSUME NEW r \in Requests,
             \/ VerifyPIN(r) \/ Validate(r) \/ DisableVerity(r) \/ ConfirmVerity(r)
             \/ Record(r) \/ SetUnlockBit(r) \/ Finalize(r) \/ CallFails(r)
      PROVE  VolumeInv'
  <2>1. /\ pc[r] \in HolderSteps /\ UNCHANGED <<mounted, data>>
        /\ \/ \E step \in ConsentSteps \cup {"prepare", "idle"} : pc' = [pc EXCEPT ![r] = step]
           \/ pc[r] = "setBit" /\ pc' = [pc EXCEPT ![r] = "finalize"]
    BY <1>5 DEF VerifyPIN, Validate, DisableVerity, ConfirmVerity, Record, SetUnlockBit, Finalize, CallFails, GoTo, Return
  <2>2. RetryFindsVolume' /\ WipeProgress(r)'
    BY <1>0, <2>1 DEF TypeOK, VolumeInv, WipeProgress, RetryFindsVolume
  <2>3. QED
    BY <1>0, <2>1, <2>2, HolderProgress
<1>6. ASSUME NEW r \in Requests, CheckVolume(r, "prepare", "scrubBoot") \/ CheckVolume(r, "finish", "finishTop")
      PROVE  VolumeInv'
  <2>1. /\ UNCHANGED <<mounted, data>>
        /\ \/ pc[r] = "prepare" /\ pc' = [pc EXCEPT ![r] = "scrubBoot"] /\ mounted = OwnVolume
           \/ pc[r] = "finish" /\ pc' = [pc EXCEPT ![r] = "finishTop"]
           \/ pc[r] \in {"prepare", "finish"} /\ pc' = [pc EXCEPT ![r] = "idle"]
    BY <1>6 DEF CheckVolume, validateDataDir, GoTo, Return
  <2>2. RetryFindsVolume' /\ WipeProgress(r)'
    BY <1>0, <2>1 DEF TypeOK, VolumeInv, WipeProgress, RetryFindsVolume
  <2>3. QED
    BY <1>0, <2>1, <2>2, HolderProgress
<1>7. ASSUME NEW r \in Requests,
             \/ RemovePass(r, "scrubBoot", "scrubRootfs") \/ RemovePass(r, "scrubRootfs", "scrubTop")
             \/ RemovePass(r, "scrubTop", "mkdir") \/ RemovePass(r, "scrubLib", "wipeVar")
             \/ RemovePass(r, "finishTop", "setBit")
      PROVE  VolumeInv'
  <2> DEFINE Pass(pass, next) == /\ pc[r] = pass
                                /\ pc' = [pc EXCEPT ![r] = next]
                                /\ data'[OwnVolume] = data[OwnVolume] \ Removed(pass)
  <2>1. /\ pc[r] \in Passes /\ RetryFindsVolume' /\ mounted' = OwnVolume
        /\ data'[OwnVolume] \subseteq data[OwnVolume]
        /\ \/ Pass("scrubBoot", "scrubRootfs") \/ Pass("scrubRootfs", "scrubTop")
           \/ Pass("scrubTop", "mkdir") \/ Pass("scrubLib", "wipeVar")
           \/ Pass("finishTop", "setBit")
           \/ pc' = [pc EXCEPT ![r] = "idle"]
    BY <1>7, PassStep
  <2>2. WipeProgress(r)'
    <3>1. CASE pc[r] # "finishTop"
      BY <1>0, <2>1, <3>1, PassesRemove DEF TypeOK, VolumeInv, WipeProgress
    <3>2. CASE pc[r] = "finishTop"
      BY <1>0, <2>1, <3>2, PassesRemove DEF TypeOK, VolumeInv, WipeProgress, UserData
    <3>3. QED
      BY <3>1, <3>2
  <2>3. \E next : pc' = [pc EXCEPT ![r] = next]
    BY <2>1
  <2>4. QED
    BY <1>0, <2>1, <2>2, <2>3, HolderProgress
<1>8. ASSUME NEW r \in Requests, MkdirCustody(r) \/ WipeVar(r) PROVE VolumeInv'
  <2>1. /\ pc[r] \in {"mkdir", "wipeVar"} /\ mounted = OwnVolume /\ UNCHANGED mounted
        /\ \E next \in {"scrubLib", "finish", "idle"} : pc' = [pc EXCEPT ![r] = next]
        /\ \/ data' = [data EXCEPT ![OwnVolume] = @ \cup {"lib", "sinty"}]
           \/ data' = [data EXCEPT ![OwnVolume] = @ \ {"keys"}]
    BY <1>0, <1>8 DEF MkdirCustody, WipeVar, GoTo, Return, VolumeInv, WipeProgress
  <2>2. RetryFindsVolume'
    BY <1>0, <2>1, ConstantsAssumption DEF TypeOK, VolumeInv, RetryFindsVolume, Required
  <2>3. WipeProgress(r)'
    BY <1>0, <2>1, ConstantsAssumption DEF TypeOK, VolumeInv, WipeProgress
  <2>4. QED
    BY <1>0, <2>1, <2>2, <2>3, HolderProgress
<1>9. CASE PowerLoss \/ AgentRestart
  <2>1. pc' = [q \in Requests |-> "idle"] /\ data' \in CrashData
    BY <1>9 DEF PowerLoss, AgentRestart, NoRequests
  <2>2. RetryFindsVolume'
    <3>1. CASE data' = data
      BY <1>0, <3>1 DEF VolumeInv, RetryFindsVolume
    <3>2. CASE data' # data
      <4>1. PICK gone \in TornRemoval(pc[lockMu], data[mounted]) :
              data' = [data EXCEPT ![mounted] = @ \ gone] /\ pc[lockMu] \in Passes
        BY <2>1, <3>2 DEF CrashData
      <4>2. gone \cap Required = {}
        BY <4>1, PassesKeepRequired
      <4>3. QED
        BY <1>0, <4>1, <4>2, ConstantsAssumption DEF TypeOK, VolumeInv, RetryFindsVolume
    <3>3. QED
      BY <3>1, <3>2
  <2>3. QED
    BY <2>1, <2>2 DEF VolumeInv, WipeProgress
<1>10. CASE Reboot
  BY <1>0, <1>10 DEF Reboot, NoRequests, VolumeInv, WipeProgress, RetryFindsVolume
<1>11. CASE Writeback \/ CorruptFlag
  BY <1>1, <1>11 DEF Writeback, CorruptFlag
<1>12. CASE UserActivity
  <2>1. lockMu = NoReq
    BY <1>0, <1>12 DEF UserActivity, MutexInv
  <2>2. \A q \in Requests : pc'[q] \notin HolderSteps
    BY <1>0, <1>12, <2>1, OneHolder DEF UserActivity
  <2>3. data'[OwnVolume] = Paths
    BY <1>0, <1>12, ConstantsAssumption DEF UserActivity, TypeOK
  <2>4. QED
    BY <2>2, <2>3 DEF VolumeInv, WipeProgress, RetryFindsVolume, Required, Paths
<1>13. QED
  BY <1>1, <1>2, <1>3, <1>4, <1>5, <1>6, <1>7, <1>8, <1>9, <1>10, <1>11, <1>12
  DEF Next, Request, Environment, UnlockBootloader, prepareDataWipe, scrubBootArtifacts,
      finishDataWipe, vars

-------------------------------------------------------------------------------
(* The record of the transaction and the count *)

\* A flag that has counted an unlock or will.
Counted(g) == g.count > 0 \/ Recorded(g)

\* The parts of CountInv that only the two copies of the file decide.
FileInv ==
  /\ "unsynced" \notin seen => flag = flagDisk
  /\ "unreadable" \notin seen => flag.count >= flagDisk.count
  /\ UnlockIsCounted

\* The parts that concern the request inside UnlockBootloader.
RecordInv ==
  "unreadable" \notin seen =>
    \A r \in Requests :
      /\ pc[r] = "record" => f[r].count = flag.count
      /\ Wiping(r) => Recorded(flag) /\ verityOff

\* CountInv is what the two copies say and what the running unlock owes them.
LEMMA CountInvParts == CountInv <=> FileInv /\ RecordInv
BY DEF CountInv, FileInv, RecordInv, WipeIsRecorded

\* A read-modify-write that neither lowers the count nor drops an uncounted
\* transaction keeps the file invariant, and the count on the medium does not
\* go back.
LEMMA RewriteKeepsCounts ==
  ASSUME TypeOK, FileInv, NEW g, NEW h \in Flags, NEW w \in Writes, Rewrite(g, h, w),
         g = flag => h.count >= flag.count /\ (Counted(flag) => Counted(h)),
         UNCHANGED locked
  PROVE  FileInv' /\ ("unreadable" \notin seen' => flagDisk'.count >= flagDisk.count)
<1>1. /\ flag' \in {flag, h} /\ flagDisk' \in {flagDisk, h} /\ seen \subseteq seen'
      /\ g # flag => "unreadable" \in seen'
      /\ flagDisk' = h => flag' = h \/ flagDisk' = flagDisk
      /\ "unsynced" \notin seen' => \/ flag' = h /\ flagDisk' = h
                                    \/ flag' = flag /\ flagDisk' = flagDisk
  BY RewriteEffect
<1>2. flag.count \in Nat /\ flagDisk.count \in Nat /\ h.count \in Nat
  BY DEF TypeOK, Flags
<1>3. "unsynced" \notin seen' => flag' = flagDisk'
  BY <1>1 DEF FileInv
<1>4. ASSUME "unreadable" \notin seen'
      PROVE  flag'.count >= flagDisk'.count /\ flagDisk'.count >= flagDisk.count
  <2>1. h.count >= flag.count /\ flag.count >= flagDisk.count
    BY <1>1, <1>4 DEF FileInv
  <2>2. CASE flagDisk' = flagDisk
    BY <1>1, <1>2, <2>1, <2>2
  <2>3. CASE flagDisk' = h
    BY <1>1, <1>2, <2>1, <2>3
  <2>4. QED
    BY <1>1, <2>2, <2>3
<1>5. ASSUME ~ locked', seen' = {} PROVE Counted(flagDisk')
  <2>1. g = flag /\ ~ locked /\ seen = {} /\ flag = flagDisk
    BY <1>1, <1>5 DEF FileInv
  <2>2. Counted(flag) /\ Counted(flagDisk)
    BY <2>1 DEF FileInv, UnlockIsCounted, Counted
  <2>3. QED
    BY <1>1, <2>1, <2>2
<1>6. UnlockIsCounted'
  BY <1>5 DEF UnlockIsCounted, Counted, Recorded
<1>7. QED
  BY <1>3, <1>4, <1>6 DEF FileInv

\* finalizeUnlockFlag is such a write.
LEMMA ClearKeepsCounts ==
  ASSUME IInv, NEW g \in {flag, ZeroFlag}, NEW w \in Writes, Rewrite(g, finalized(g), w),
         UNCHANGED locked
  PROVE  FileInv' /\ ("unreadable" \notin seen' => flagDisk'.count >= flagDisk.count)
<1>1. TypeOK /\ FileInv
  BY CountInvParts DEF IInv
<1>2. g \in Flags
  BY <1>1, ZeroFlagType DEF TypeOK
<1>3. /\ finalized(g) \in Flags /\ finalized(g).count >= g.count
      /\ g.phase # "" => finalized(g).count > 0
  BY <1>2, FinalizedFlag
<1>4. g.count \in Nat /\ finalized(g).count \in Nat
  BY <1>2, <1>3 DEF Flags
<1>5. Counted(g) => Counted(finalized(g))
  <2>1. g.count > 0 => finalized(g).count > 0
    <3>1. \A a, b \in Nat : b >= a /\ a > 0 => b > 0
      OBVIOUS
    <3>2. QED
      BY <1>3, <1>4, <3>1, Zenon
  <2>2. "verity-off" # ""
    OBVIOUS
  <2>3. QED
    BY <1>3, <2>1, <2>2, Zenon DEF Counted, Recorded
<1>6. QED
  BY <1>1, <1>3, <1>5, RewriteKeepsCounts

\* What every step does to the two copies of the file.
LEMMA FileStep ==
  ASSUME IInv, [Next]_vars
  PROVE  FileInv' /\ ("unreadable" \notin seen' => flagDisk'.count >= flagDisk.count)
<1>0. TypeOK /\ MutexInv /\ FileInv /\ RecordInv
  BY CountInvParts DEF IInv
<1>1. flag.count \in Nat /\ flagDisk.count \in Nat
  BY <1>0 DEF TypeOK, Flags
<1>2. CASE UNCHANGED <<flag, flagDisk, seen, locked>>
  BY <1>0, <1>1, <1>2 DEF FileInv, UnlockIsCounted, Recorded
<1>3. ASSUME NEW r \in Requests, ArmUnlockForOwner(r)
      PROVE  FileInv' /\ ("unreadable" \notin seen' => flagDisk'.count >= flagDisk.count)
  <2>1. who[r] \in Owners /\ UNCHANGED locked
    BY <1>0, <1>3 DEF ArmUnlockForOwner, MutexInv, ArmSteps
  <2>2. CASE UNCHANGED <<flag, flagDisk, seen>>
    BY <1>2, <2>1, <2>2
  <2>3. CASE ~ UNCHANGED <<flag, flagDisk, seen>>
    <3> DEFINE h(g) == armedFor(g, who[r])
    <3>1. PICK g \in {flag, ZeroFlag}, w \in Writes :
            ~ (g.armed /\ g.phase # "") /\ Rewrite(g, h(g), w)
      BY <1>3, <2>3 DEF ArmUnlockForOwner
    <3>2. g \in Flags
      BY <1>0, ZeroFlagType DEF TypeOK
    <3>3. h(g) \in Flags /\ h(g).count = g.count
      BY <2>1, <3>2, ArmedFlag
    <3>4. g.count \in Nat
      BY <3>2 DEF Flags
    <3>5. h(g).count >= g.count /\ (Counted(g) => Counted(h(g)))
      <4> HIDE DEF h
      <4>1. h(g).count >= g.count /\ (g.count > 0 => h(g).count > 0)
        BY <3>3, <3>4
      <4>2. "verity-off" # ""
        OBVIOUS
      <4>3. QED
        BY <3>1, <4>1, <4>2, Zenon DEF Counted, Recorded
    <3> HIDE DEF h
    <3>6. QED
      BY <1>0, <2>1, <3>1, <3>3, <3>5, RewriteKeepsCounts
  <2>4. QED
    BY <2>2, <2>3
<1>4. ASSUME NEW r \in Requests, Disarm(r) \/ LockState(r) \/ Finalize(r)
      PROVE  FileInv' /\ ("unreadable" \notin seen' => flagDisk'.count >= flagDisk.count)
  <2>1. PICK g \in {flag, ZeroFlag}, w \in Writes : Rewrite(g, finalized(g), w)
    BY <1>4 DEF Disarm, LockState, Finalize
  <2>2. UNCHANGED locked
    BY <1>4 DEF Disarm, LockState, Finalize
  <2>3. QED
    BY <2>1, <2>2, ClearKeepsCounts
<1>5. ASSUME NEW r \in Requests, Record(r)
      PROVE  FileInv' /\ ("unreadable" \notin seen' => flagDisk'.count >= flagDisk.count)
  <2> DEFINE h == [f[r] EXCEPT !.phase = "verity-off"]
  <2>1. PICK w \in Writes : Rewrite(flag, h, w)
    BY <1>5 DEF Record
  <2>2. pc[r] = "record" /\ UNCHANGED locked
    BY <1>5 DEF Record
  <2>3. h \in Flags /\ h.count = f[r].count /\ h.armed = f[r].armed /\ h.phase = "verity-off"
    BY <1>0, RecordedFlag DEF TypeOK
  <2>4. f[r].armed
    BY <2>2 DEF IInv, ConsentInv, CopyBacked, ConsentSteps
  <2>5. Counted(h)
    BY <2>3, <2>4 DEF Counted, Recorded
  <2> HIDE DEF h
  <2>6. CASE "unreadable" \notin seen
    <3>1. h.count >= flag.count
      BY <1>0, <1>1, <2>2, <2>3, <2>6 DEF RecordInv
    <3>2. QED
      BY <1>0, <2>1, <2>2, <2>3, <2>5, <3>1, RewriteKeepsCounts
  <2>7. CASE "unreadable" \in seen
    <3>1. /\ seen \subseteq seen'
          /\ "unsynced" \notin seen' => \/ flag' = h /\ flagDisk' = h
                                        \/ flag' = flag /\ flagDisk' = flagDisk
      BY <1>0, <2>1, RewriteEffect
    <3>2. QED
      BY <1>0, <2>7, <3>1 DEF FileInv, UnlockIsCounted
  <2>8. QED
    BY <2>6, <2>7
<1>6. ASSUME NEW r \in Requests, SetUnlockBit(r)
      PROVE  FileInv' /\ ("unreadable" \notin seen' => flagDisk'.count >= flagDisk.count)
  <2>1. pc[r] = "setBit" /\ UNCHANGED <<flag, flagDisk, seen>>
    BY <1>6 DEF SetUnlockBit
  <2>2. seen = {} => Recorded(flag) /\ flag = flagDisk
    BY <1>0, <2>1 DEF RecordInv, FileInv, Wiping, WipeSteps
  <2>3. QED
    BY <1>0, <1>1, <2>1, <2>2 DEF FileInv, UnlockIsCounted, Recorded
<1>7. ASSUME NEW r \in Requests,
             \/ \E o \in Owners : ArmCheckLocked(r, o)
             \/ ArmVerifyPIN(r) \/ BeginUnlock(r) \/ VerifyPIN(r) \/ Validate(r)
             \/ DisableVerity(r) \/ ConfirmVerity(r) \/ prepareDataWipe(r) \/ WipeVar(r)
             \/ finishDataWipe(r) \/ CallFails(r)
      PROVE  UNCHANGED <<flag, flagDisk, seen, locked>>
  BY <1>7 DEF ArmCheckLocked, ArmVerifyPIN, BeginUnlock, VerifyPIN, Validate, DisableVerity,
              ConfirmVerity, prepareDataWipe, scrubBootArtifacts, finishDataWipe, CheckVolume,
              RemovePass, MkdirCustody, WipeVar, CallFails
<1>8. CASE PowerLoss \/ AgentRestart \/ Reboot \/ Writeback
  <2>1. /\ UNCHANGED <<seen, locked>>
        /\ \/ flag' = flagDisk /\ flagDisk' = flagDisk
           \/ flag' = flag /\ flagDisk' = flag
           \/ flag' = flag /\ flagDisk' = flagDisk
    BY <1>8 DEF PowerLoss, AgentRestart, Reboot, Writeback
  <2>2. QED
    BY <1>0, <1>1, <2>1 DEF FileInv, UnlockIsCounted, Recorded
<1>9. CASE CorruptFlag
  BY <1>9 DEF CorruptFlag, FileInv, UnlockIsCounted
<1>10. CASE UserActivity
  BY <1>2, <1>10 DEF UserActivity
<1>11. QED
  BY <1>2, <1>3, <1>4, <1>5, <1>6, <1>7, <1>8, <1>9, <1>10
  DEF Next, Request, Environment, UnlockBootloader, vars

\* With nobody inside UnlockBootloader there is nothing to record.
LEMMA NoHolderNoRecord ==
  ASSUME \A q \in Requests : pc[q] \notin HolderSteps
  PROVE  RecordInv
BY DEF RecordInv, Wiping, HolderSteps, ConsentSteps

\* Past the point of no return the phase stays recorded.
LEMMA RecordStep ==
  ASSUME IInv, [Next]_vars PROVE RecordInv'
<1> USE DEF HolderSteps, ConsentSteps, WipeSteps, Passes
<1>0. TypeOK /\ MutexInv /\ ConsentInv /\ RecordInv
  BY CountInvParts DEF IInv
<1>1. CASE UNCHANGED <<pc, f, flag, verityOff, seen>>
  BY <1>0, <1>1 DEF RecordInv, Wiping, Recorded
<1>2. ASSUME NEW r \in Requests,
             (\E o \in Owners : ArmCheckLocked(r, o)) \/ ArmVerifyPIN(r)
      PROVE  RecordInv'
  <2>1. /\ \E step \in {"armPIN", "armWrite", "idle"} : pc' = [pc EXCEPT ![r] = step]
        /\ UNCHANGED <<f, flag, verityOff, seen>>
    BY <1>2 DEF ArmCheckLocked, ArmVerifyPIN
  <2>2. QED
    BY <1>0, <2>1 DEF TypeOK, RecordInv, Wiping, Recorded
<1>3. ASSUME NEW r \in Requests, ArmUnlockForOwner(r) \/ Disarm(r) \/ LockState(r) PROVE RecordInv'
  <2>1. lockMu = NoReq /\ (pc' = [pc EXCEPT ![r] = "idle"] \/ pc' = pc)
    BY <1>3 DEF ArmUnlockForOwner, Disarm, LockState, LockedCall
  <2>2. \A q \in Requests : pc'[q] \notin HolderSteps
    BY <1>0, <2>1, OneHolder DEF TypeOK
  <2>3. QED
    BY <2>2 DEF RecordInv, Wiping
<1>4. ASSUME NEW r \in Requests, BeginUnlock(r) PROVE RecordInv'
  <2>1. \A q \in Requests : pc[q] \notin HolderSteps
    BY <1>0, <1>4, OneHolder DEF BeginUnlock, LockedCall
  <2>2. /\ UNCHANGED <<flag, verityOff, seen>>
        /\ \/ pc' = [pc EXCEPT ![r] = "verifyPIN"]
           \/ pc' = [pc EXCEPT ![r] = "prepare"] /\ Recorded(flag) /\ verityOff
    BY <1>4 DEF BeginUnlock, Recorded
  <2>3. QED
    BY <1>0, <2>1, <2>2 DEF TypeOK, RecordInv, Wiping, Recorded
<1>5. ASSUME NEW r \in Requests,
             \/ VerifyPIN(r) \/ Validate(r) \/ DisableVerity(r) \/ ConfirmVerity(r)
      PROVE  RecordInv'
  <2>1. /\ pc[r] \in ConsentSteps /\ UNCHANGED <<flag, seen>>
        /\ \/ \E step \in {"validate", "disableVerity", "confirmVerity", "idle"} : pc' = [pc EXCEPT ![r] = step]
           \/ pc' = [pc EXCEPT ![r] = "record"] /\ f' = [f EXCEPT ![r] = flag]
    BY <1>5 DEF VerifyPIN, Validate, DisableVerity, ConfirmVerity, GoTo, Return
  <2>2. \A q \in Requests \ {r} : pc'[q] \notin HolderSteps
    BY <1>0, <2>1, OneHolder DEF TypeOK
  <2>3. pc'[r] \notin WipeSteps /\ (pc'[r] = "record" => f'[r] = flag)
    BY <1>0, <2>1 DEF TypeOK
  <2>4. QED
    BY <2>1, <2>2, <2>3 DEF RecordInv, Wiping
<1>6. ASSUME NEW r \in Requests, Record(r) PROVE RecordInv'
  <2> DEFINE h == [f[r] EXCEPT !.phase = "verity-off"]
  <2>1. PICK w \in Writes :
          /\ Rewrite(flag, h, w)
          /\ IF w = "ok" THEN GoTo(r, "prepare") ELSE Return(r)
    BY <1>6 DEF Record
  <2>2. pc[r] = "record" /\ UNCHANGED verityOff
    BY <1>6 DEF Record
  <2>3. \A q \in Requests \ {r} : pc'[q] \notin HolderSteps
    BY <1>0, <2>1, <2>2, OneHolder DEF TypeOK, GoTo, Return
  <2>4. Recorded(h) /\ verityOff
    <3>1. f[r].armed /\ verityOff
      BY <1>0, <2>2 DEF ConsentInv, CopyBacked
    <3>2. h.armed = f[r].armed /\ h.phase = "verity-off"
      BY <1>0, RecordedFlag DEF TypeOK
    <3>3. QED
      BY <3>1, <3>2 DEF Recorded
  <2> HIDE DEF h
  <2>5. CASE w = "ok"
    <3>1. flag' = h /\ pc'[r] = "prepare"
      BY <1>0, <2>1, <2>5, RewriteEffect DEF TypeOK, GoTo
    <3>2. QED
      BY <2>2, <2>3, <2>4, <3>1 DEF RecordInv, Wiping, Recorded
  <2>6. CASE w # "ok"
    <3>1. pc'[r] = "idle"
      BY <1>0, <2>1, <2>6 DEF TypeOK, Return
    <3>2. QED
      BY <2>3, <3>1 DEF RecordInv, Wiping
  <2>7. QED
    BY <2>5, <2>6
<1>7. ASSUME NEW r \in Requests, prepareDataWipe(r) \/ WipeVar(r) \/ finishDataWipe(r) \/ SetUnlockBit(r)
      PROVE  RecordInv'
  <2>1. /\ pc[r] \in WipeSteps /\ UNCHANGED <<f, flag, verityOff, seen>>
        /\ \E next \in WipeSteps \cup {"idle"} : pc' = [pc EXCEPT ![r] = next]
    BY <1>7 DEF prepareDataWipe, scrubBootArtifacts, finishDataWipe, CheckVolume, RemovePass,
                MkdirCustody, WipeVar, SetUnlockBit, GoTo, Return
  <2>2. QED
    BY <1>0, <2>1 DEF TypeOK, RecordInv, Wiping, Recorded
<1>8. ASSUME NEW r \in Requests, Finalize(r) \/ CallFails(r) PROVE RecordInv'
  <2>1. pc[r] \in HolderSteps /\ pc' = [pc EXCEPT ![r] = "idle"]
    BY <1>8 DEF Finalize, CallFails, Return
  <2>2. \A q \in Requests : pc'[q] \notin HolderSteps
    BY <1>0, <2>1, OneHolder DEF TypeOK
  <2>3. QED
    BY <2>2 DEF RecordInv, Wiping
<1>9. CASE PowerLoss \/ AgentRestart \/ Reboot
  <2>1. \A q \in Requests : pc'[q] \notin HolderSteps
    BY <1>9 DEF PowerLoss, AgentRestart, Reboot, NoRequests
  <2>2. QED
    BY <2>1 DEF RecordInv, Wiping
<1>10. CASE CorruptFlag
  BY <1>10 DEF CorruptFlag, RecordInv
<1>11. CASE Writeback \/ UserActivity
  BY <1>1, <1>11 DEF Writeback, UserActivity
<1>12. QED
  BY <1>1, <1>2, <1>3, <1>4, <1>5, <1>6, <1>7, <1>8, <1>9, <1>10, <1>11
  DEF Next, Request, Environment, UnlockBootloader, vars

-------------------------------------------------------------------------------
(* The transaction on the medium *)

\* What a step may do to the transaction on the medium.
KeepsTransaction ==
  ("unreadable" \notin seen' /\ Recorded(flagDisk) /\ ~ Recorded(flagDisk')) => ~ locked

\* The part of KeptInv that the two copies of the file decide.
FilesKept ==
  ("unreadable" \notin seen /\ Recorded(flagDisk)) => Recorded(flag) \/ ~ locked

\* A read-modify-write that only drops a transaction of an unlocked bootloader
\* keeps the copies in order.
LEMMA RewriteKeepsTransaction ==
  ASSUME TypeOK, FilesKept, NEW g, NEW h \in Flags, NEW w \in Writes, Rewrite(g, h, w),
         (g = flag /\ Recorded(flag)) => Recorded(h) \/ ~ locked,
         UNCHANGED locked
  PROVE  FilesKept' /\ KeepsTransaction
<1>1. /\ flag' \in {flag, h} /\ flagDisk' \in {flagDisk, h} /\ seen \subseteq seen'
      /\ g # flag => "unreadable" \in seen'
      /\ flagDisk' = h => flag' = h \/ flagDisk' = flagDisk
  BY RewriteEffect
<1>2. CASE "unreadable" \in seen'
  BY <1>2 DEF FilesKept, KeepsTransaction
<1>3. CASE "unreadable" \notin seen'
  <2>1. g = flag /\ "unreadable" \notin seen
    BY <1>1, <1>3
  <2>2. CASE ~ locked
    BY <2>2 DEF FilesKept, KeepsTransaction
  <2>3. CASE locked
    <3>1. Recorded(flagDisk) => Recorded(flag) /\ Recorded(h)
      BY <2>1, <2>3 DEF FilesKept
    <3>2. KeepsTransaction
      BY <1>1, <3>1 DEF KeepsTransaction, Recorded
    <3>3. Recorded(flagDisk)' => Recorded(flag)'
      <4>1. CASE flagDisk' = flagDisk
        BY <1>1, <3>1, <4>1 DEF Recorded
      <4>2. CASE flagDisk' = h /\ flag' = h
        BY <4>2 DEF Recorded
      <4>3. QED
        BY <1>1, <4>1, <4>2
    <3>4. QED
      BY <3>2, <3>3 DEF FilesKept
  <2>4. QED
    BY <2>2, <2>3
<1>4. QED
  BY <1>2, <1>3

\* Every step keeps the copies in order and the transaction on the medium.
LEMMA FilesKeptStep ==
  ASSUME IInv, [Next]_vars PROVE FilesKept' /\ KeepsTransaction
<1>0. TypeOK /\ MutexInv /\ ConsentInv /\ FilesKept
  BY DEF IInv, KeptInv, FilesKept
<1>1. "verity-off" # ""
  OBVIOUS
<1>2. CASE UNCHANGED <<flag, flagDisk, seen>> /\ (locked' = locked \/ ~ locked')
  BY <1>0, <1>2 DEF FilesKept, KeepsTransaction, Recorded
<1>3. ASSUME NEW r \in Requests, ArmUnlockForOwner(r)
      PROVE  FilesKept' /\ KeepsTransaction
  <2>1. who[r] \in Owners /\ UNCHANGED locked
    BY <1>0, <1>3 DEF ArmUnlockForOwner, MutexInv, ArmSteps
  <2>2. CASE UNCHANGED <<flag, flagDisk, seen>>
    BY <1>2, <2>1, <2>2
  <2>3. CASE ~ UNCHANGED <<flag, flagDisk, seen>>
    <3>1. PICK g \in {flag, ZeroFlag}, w \in Writes :
            ~ (g.armed /\ g.phase # "") /\ Rewrite(g, armedFor(g, who[r]), w)
      BY <1>3, <2>3 DEF ArmUnlockForOwner
    <3>2. g \in Flags
      BY <1>0, ZeroFlagType DEF TypeOK
    <3>3. armedFor(g, who[r]) \in Flags
      BY <2>1, <3>2, ArmedFlag
    <3>4. ~ Recorded(g)
      BY <1>1, <3>1 DEF Recorded
    <3>5. QED
      BY <1>0, <2>1, <3>1, <3>3, <3>4, RewriteKeepsTransaction
  <2>4. QED
    BY <2>2, <2>3
<1>4. ASSUME NEW r \in Requests, Disarm(r) \/ LockState(r) \/ Finalize(r)
      PROVE  FilesKept' /\ KeepsTransaction
  <2>1. pc[r] = "finalize" => ~ locked
    BY DEF IInv, KeptInv
  <2>2. PICK g \in {flag, ZeroFlag}, w \in Writes :
          Rewrite(g, finalized(g), w) /\ (g.phase = "" \/ ~ locked)
    BY <1>4, <2>1 DEF Disarm, LockState, Finalize
  <2>3. UNCHANGED locked
    BY <1>4 DEF Disarm, LockState, Finalize
  <2>4. finalized(g) \in Flags
    BY <1>0, ZeroFlagType, FinalizedFlag DEF TypeOK
  <2>5. Recorded(g) => ~ locked
    BY <1>1, <2>2 DEF Recorded
  <2>6. QED
    BY <1>0, <2>2, <2>3, <2>4, <2>5, RewriteKeepsTransaction
<1>5. ASSUME NEW r \in Requests, Record(r)
      PROVE  FilesKept' /\ KeepsTransaction
  <2> DEFINE h == [f[r] EXCEPT !.phase = "verity-off"]
  <2>1. PICK w \in Writes : Rewrite(flag, h, w)
    BY <1>5 DEF Record
  <2>2. pc[r] = "record" /\ UNCHANGED locked
    BY <1>5 DEF Record
  <2>3. h \in Flags /\ h.armed = f[r].armed /\ h.phase = "verity-off"
    BY <1>0, RecordedFlag DEF TypeOK
  <2>4. f[r].armed
    BY <1>0, <2>2 DEF ConsentInv, CopyBacked, ConsentSteps
  <2>5. Recorded(h)
    BY <2>3, <2>4 DEF Recorded
  <2> HIDE DEF h
  <2>6. QED
    BY <1>0, <2>1, <2>2, <2>3, <2>5, RewriteKeepsTransaction
<1>6. ASSUME NEW r \in Requests, SetUnlockBit(r)
      PROVE  UNCHANGED <<flag, flagDisk, seen>> /\ ~ locked'
  BY <1>6 DEF SetUnlockBit
<1>7. ASSUME NEW r \in Requests,
             \/ \E o \in Owners : ArmCheckLocked(r, o)
             \/ ArmVerifyPIN(r) \/ BeginUnlock(r) \/ VerifyPIN(r) \/ Validate(r)
             \/ DisableVerity(r) \/ ConfirmVerity(r) \/ prepareDataWipe(r) \/ WipeVar(r)
             \/ finishDataWipe(r) \/ CallFails(r)
      PROVE  UNCHANGED <<flag, flagDisk, seen, locked>>
  BY <1>7 DEF ArmCheckLocked, ArmVerifyPIN, BeginUnlock, VerifyPIN, Validate, DisableVerity,
              ConfirmVerity, prepareDataWipe, scrubBootArtifacts, finishDataWipe, CheckVolume,
              RemovePass, MkdirCustody, WipeVar, CallFails
<1>8. CASE PowerLoss \/ AgentRestart \/ Reboot \/ Writeback
  <2>1. /\ UNCHANGED <<seen, locked>>
        /\ \/ flag' = flagDisk /\ flagDisk' = flagDisk
           \/ flag' = flag /\ flagDisk' = flag
           \/ flag' = flag /\ flagDisk' = flagDisk
    BY <1>8 DEF PowerLoss, AgentRestart, Reboot, Writeback
  <2>2. QED
    BY <1>0, <2>1 DEF FilesKept, KeepsTransaction, Recorded
<1>9. CASE CorruptFlag
  BY <1>9 DEF CorruptFlag, FilesKept, KeepsTransaction
<1>10. CASE UserActivity
  BY <1>2, <1>10 DEF UserActivity
<1>11. QED
  BY <1>2, <1>3, <1>4, <1>5, <1>6, <1>7, <1>8, <1>9, <1>10
  DEF Next, Request, Environment, UnlockBootloader, vars

\* The lock bit is cleared before UnlockBootloader gets to its last write, and
\* nothing sets it again.
LEMMA FinalizeStep ==
  ASSUME IInv, [Next]_vars
  PROVE  (\A r \in Requests : pc[r] = "finalize" => ~ locked)'
<1> DEFINE P == \A r \in Requests : pc[r] = "finalize" => ~ locked
<1>0. TypeOK /\ P
  BY DEF IInv, KeptInv
<1>1. ASSUME NEW r \in Requests, UNCHANGED locked,
             \E step \in Steps \ {"finalize"} : pc' = [pc EXCEPT ![r] = step]
      PROVE  P'
  BY <1>0, <1>1 DEF TypeOK
<1>2. CASE UNCHANGED <<pc, locked>>
  BY <1>0, <1>2
<1>3. ASSUME NEW r \in Requests,
             \/ \E o \in Owners : ArmCheckLocked(r, o)
             \/ ArmVerifyPIN(r) \/ ArmUnlockForOwner(r) \/ BeginUnlock(r) \/ VerifyPIN(r)
             \/ Validate(r) \/ DisableVerity(r) \/ ConfirmVerity(r)
             \/ WipeVar(r) \/ Finalize(r) \/ CallFails(r)
      PROVE  P'
  <2>1. UNCHANGED locked /\ \E step \in Steps \ {"finalize"} : pc' = [pc EXCEPT ![r] = step]
    BY <1>3 DEF ArmCheckLocked, ArmVerifyPIN, ArmUnlockForOwner, BeginUnlock, VerifyPIN, Validate,
                DisableVerity, ConfirmVerity, WipeVar, Finalize, CallFails, GoTo, Return,
                Steps, ArmSteps, HolderSteps, ConsentSteps, WipeSteps
  <2>2. QED
    BY <1>1, <2>1
<1>4. ASSUME NEW r \in Requests, Record(r) PROVE P'
  <2>1. UNCHANGED locked /\ \E step \in Steps \ {"finalize"} : pc' = [pc EXCEPT ![r] = step]
    BY <1>4 DEF Record, GoTo, Return, Steps, HolderSteps, WipeSteps
  <2>2. QED
    BY <1>1, <2>1
<1>5. ASSUME NEW r \in Requests, prepareDataWipe(r) \/ finishDataWipe(r) PROVE P'
  <2>1. UNCHANGED locked /\ \E step \in Steps \ {"finalize"} : pc' = [pc EXCEPT ![r] = step]
    BY <1>5 DEF prepareDataWipe, finishDataWipe, scrubBootArtifacts, CheckVolume, RemovePass,
                MkdirCustody, GoTo, Return, Steps, HolderSteps, WipeSteps, Passes
  <2>2. QED
    BY <1>1, <2>1
<1>6. ASSUME NEW r \in Requests, SetUnlockBit(r) PROVE P'
  BY <1>6 DEF SetUnlockBit
<1>7. ASSUME NEW r \in Requests, Disarm(r) \/ LockState(r) PROVE P'
  BY <1>2, <1>7 DEF Disarm, LockState
<1>8. CASE PowerLoss \/ AgentRestart \/ Reboot
  BY <1>8 DEF PowerLoss, AgentRestart, Reboot, NoRequests
<1>9. CASE Writeback \/ CorruptFlag \/ UserActivity
  BY <1>2, <1>9 DEF Writeback, CorruptFlag, UserActivity
<1>10. QED
  BY <1>2, <1>3, <1>4, <1>5, <1>6, <1>7, <1>8, <1>9
  DEF Next, Request, Environment, UnlockBootloader, vars

-------------------------------------------------------------------------------
(* The invariant and the theorems *)

\* The initial state satisfies the inductive invariant.
LEMMA InitIInv == Init => IInv
<1> SUFFICES ASSUME Init PROVE IInv
  OBVIOUS
<1> USE ConstantsAssumption DEF Init
<1>1. TypeOK
  BY ZeroFlagType DEF TypeOK, Steps
<1>2. \A r \in Requests : pc[r] \notin HolderSteps /\ pc[r] \notin ArmSteps
  BY DEF HolderSteps, ConsentSteps, WipeSteps, Passes, ArmSteps
<1>3. MutexInv
  BY <1>2 DEF MutexInv
<1>4. ConsentInv
  BY <1>2 DEF ConsentInv, Backed, CopyBacked, ZeroFlag, HolderSteps, ConsentSteps
<1>5. VolumeInv
  BY <1>2 DEF VolumeInv, WipeProgress, RetryFindsVolume, Required, Paths, AfterCheck, AfterBoot, AfterRootfs, HolderSteps
<1>6. CountInv
  <2>1. flag = flagDisk /\ flag.count = 0 /\ locked
    BY DEF ZeroFlag
  <2>2. FileInv
    BY <2>1 DEF FileInv, UnlockIsCounted
  <2>3. QED
    BY <1>2, <2>2, NoHolderNoRecord, CountInvParts
<1>7. KeptInv
  BY <1>2 DEF KeptInv, HolderSteps, WipeSteps
<1>8. QED
  BY <1>1, <1>3, <1>4, <1>5, <1>6, <1>7 DEF IInv

\* Every step keeps it.
LEMMA NextIInv == IInv /\ [Next]_vars => IInv'
<1> SUFFICES ASSUME IInv, [Next]_vars PROVE IInv'
  OBVIOUS
<1>1. TypeOK' /\ MutexInv' /\ ConsentInv' /\ VolumeInv'
  BY TypeStep, MutexStep, ConsentStep, VolumeStep DEF IInv
<1>2. CountInv'
  BY FileStep, RecordStep DEF CountInv, FileInv, RecordInv, WipeIsRecorded
<1>3. KeptInv'
  BY FilesKeptStep, FinalizeStep DEF KeptInv, FilesKept
<1>4. QED
  BY <1>1, <1>2, <1>3 DEF IInv

\* IInv holds in every reachable state.
THEOREM Invariance == Spec => []IInv
BY InitIInv, NextIInv, PTL DEF Spec

\* Every variable keeps its type.
THEOREM TypeCorrect == Spec => []TypeOK
<1>1. IInv => TypeOK
  BY DEF IInv
<1>2. QED
  BY Invariance, <1>1, PTL

\* No armed flag, read or restored by a power loss, and no running unlock
\* without a standing PIN-proven grant.
THEOREM ConsentIsBacked == Spec => []ConsentBacked
<1>1. IInv => ConsentBacked
  BY DEF IInv, ConsentInv, CopyBacked, Backed, ConsentBacked
<1>2. QED
  BY Invariance, <1>1, PTL

\* Nothing is erased for an owner who has not given the PIN both times.
THEOREM ErasureIsTwiceProven == Spec => []ErasedOnlyTwiceProven
<1>1. IInv => ErasedOnlyTwiceProven
  BY DEF IInv, ConsentInv, CopyBacked, ErasedOnlyTwiceProven, Wiping, HolderSteps,
         ConsentSteps, WipeSteps, Passes
<1>2. QED
  BY Invariance, <1>1, PTL

\* While the flag file is readable every wipe has its phase recorded.
THEOREM WipesAreRecorded == Spec => []WipeIsRecorded
<1>1. IInv => WipeIsRecorded
  BY DEF IInv, CountInv
<1>2. QED
  BY Invariance, <1>1, PTL

\* However often the wipe is torn, the installed volume still validates.
THEOREM RetriesFindVolume == Spec => []RetryFindsVolume
<1>1. IInv => RetryFindsVolume
  BY DEF IInv, VolumeInv
<1>2. QED
  BY Invariance, <1>1, PTL

\* An unlock is counted, or the medium holds what will count it.
THEOREM UnlocksAreCounted == Spec => []UnlockIsCounted
<1>1. IInv => UnlockIsCounted
  BY DEF IInv, CountInv
<1>2. QED
  BY Invariance, <1>1, PTL

\* The count on the medium never goes back while reads of the flag succeed.
THEOREM DurableCount == Spec => DurableCountMonotonic
<1>1. IInv /\ [Next]_vars => ["unreadable" \notin seen' => flagDisk'.count >= flagDisk.count]_vars
  BY FileStep
<1>2. QED
  BY Invariance, <1>1, PTL DEF Spec, DurableCountMonotonic

\* A recorded transaction leaves the medium only with the bootloader unlocked.
THEOREM TransactionsAreKept == Spec => TransactionKept
<1>1. IInv /\ [Next]_vars => [KeepsTransaction]_vars
  BY FilesKeptStep
<1>2. QED
  BY Invariance, <1>1, PTL DEF Spec, TransactionKept, KeepsTransaction

\* The lock bit flips only with verity off and no user data left.
THEOREM LockBitIsLast == Spec => LockBitLast
<1>1. ASSUME IInv, [Next]_vars, locked # locked'
      PROVE  verityOff /\ data[OwnVolume] \cap UserData = {}
  <2>1. \E r \in Requests : SetUnlockBit(r)
    <3>1. ASSUME NEW r \in Requests, Request(r), ~ SetUnlockBit(r) PROVE UNCHANGED locked
      <4>1. CASE (\E o \in Owners : ArmCheckLocked(r, o)) \/ ArmVerifyPIN(r) \/ ArmUnlockForOwner(r)
        BY <4>1 DEF ArmCheckLocked, ArmVerifyPIN, ArmUnlockForOwner
      <4>2. CASE Disarm(r) \/ LockState(r)
        BY <4>2 DEF Disarm, LockState
      <4>3. CASE UnlockBootloader(r)
        BY <3>1, <4>3
        DEF UnlockBootloader, BeginUnlock, VerifyPIN, Validate, DisableVerity, ConfirmVerity,
            Record, prepareDataWipe, scrubBootArtifacts, finishDataWipe, CheckVolume, RemovePass,
            MkdirCustody, WipeVar, Finalize, CallFails
      <4>4. QED
        BY <3>1, <4>1, <4>2, <4>3 DEF Request
    <3>2. Environment => UNCHANGED locked
      BY DEF Environment, PowerLoss, AgentRestart, Reboot, Writeback, CorruptFlag, UserActivity
    <3>3. QED
      BY <1>1, <3>1, <3>2 DEF Next, vars
  <2>2. PICK r \in Requests : pc[r] = "setBit"
    BY <2>1 DEF SetUnlockBit
  <2>3. verityOff
    BY <1>1, <2>2 DEF IInv, ConsentInv, CopyBacked, WipeSteps
  <2>4. data[OwnVolume] \cap UserData = {}
    BY <1>1, <2>2 DEF IInv, VolumeInv, WipeProgress
  <2>5. QED
    BY <2>3, <2>4
<1>2. IInv /\ [Next]_vars =>
        [locked # locked' => verityOff /\ data[OwnVolume] \cap UserData = {}]_vars
  BY <1>1
<1>3. QED
  BY Invariance, <1>2, PTL DEF Spec, LockBitLast

\* No volume but the installed one is ever written.
THEOREM ForeignVolumesUntouched == Spec => ForeignUntouched
<1>1. ASSUME IInv, [Next]_vars, NEW v \in Volumes \ {OwnVolume} PROVE data'[v] = data[v]
  <2>0. TypeOK /\ VolumeInv
    BY <1>1 DEF IInv
  <2>1. CASE UNCHANGED data
    BY <2>1
  <2>2. ASSUME NEW r \in Requests, NEW pass \in Passes, NEW next, RemovePass(r, pass, next)
        PROVE  data'[v] = data[v]
    BY <1>1, <2>2, PassStep
  <2>3. ASSUME NEW r \in Requests, MkdirCustody(r) \/ WipeVar(r) PROVE data'[v] = data[v]
    <3>1. mounted = OwnVolume
      BY <2>0, <2>3 DEF MkdirCustody, WipeVar, VolumeInv, WipeProgress, AfterCheck, WipeSteps, Passes
    <3>2. QED
      BY <2>0, <2>3, <3>1 DEF MkdirCustody, WipeVar, TypeOK
  <2>4. CASE PowerLoss \/ AgentRestart
    <3>1. data' \in CrashData
      BY <2>4 DEF PowerLoss, AgentRestart
    <3>2. CASE data' # data
      <4>1. /\ lockMu \in Requests /\ pc[lockMu] \in Passes
            /\ \E gone : data' = [data EXCEPT ![mounted] = @ \ gone]
        BY <3>1, <3>2 DEF CrashData
      <4>2. mounted = OwnVolume
        BY <2>0, <4>1 DEF VolumeInv, WipeProgress, AfterCheck, WipeSteps, Passes
      <4>3. QED
        BY <2>0, <4>1, <4>2 DEF TypeOK
    <3>3. QED
      BY <3>2
  <2>5. CASE UserActivity
    BY <2>0, <2>5 DEF UserActivity, TypeOK
  <2>6. ASSUME NEW r \in Requests,
               \/ \E o \in Owners : ArmCheckLocked(r, o)
               \/ ArmVerifyPIN(r) \/ ArmUnlockForOwner(r) \/ Disarm(r) \/ LockState(r)
               \/ BeginUnlock(r) \/ VerifyPIN(r) \/ Validate(r) \/ DisableVerity(r)
               \/ ConfirmVerity(r) \/ Record(r) \/ SetUnlockBit(r) \/ Finalize(r) \/ CallFails(r)
               \/ \E here, next : CheckVolume(r, here, next)
        PROVE  UNCHANGED data
    BY <2>6 DEF ArmCheckLocked, ArmVerifyPIN, ArmUnlockForOwner, Disarm, LockState, BeginUnlock,
                VerifyPIN, Validate, DisableVerity, ConfirmVerity, Record, SetUnlockBit, Finalize,
                CallFails, CheckVolume
  <2>7. CASE Reboot \/ Writeback \/ CorruptFlag
    BY <2>7 DEF Reboot, Writeback, CorruptFlag
  <2>8. QED
    BY <1>1, <2>1, <2>2, <2>3, <2>4, <2>5, <2>6, <2>7
    DEF Next, Request, Environment, UnlockBootloader, prepareDataWipe, scrubBootArtifacts,
        finishDataWipe, vars, Passes
<1>2. IInv /\ [Next]_vars => [\A v \in Volumes \ {OwnVolume} : data'[v] = data[v]]_vars
  BY <1>1
<1>3. QED
  BY Invariance, <1>2, PTL DEF Spec, ForeignUntouched

-------------------------------------------------------------------------------
(* Erasing *)

\* The installed volume loses an entry only to the request past the point of no
\* return, or to a crash in the middle of its work.
LEMMA ErasureStep ==
  ASSUME IInv, [Next]_vars, ~ (data[OwnVolume] \subseteq data'[OwnVolume])
  PROVE  \E r \in Requests : lockMu = r /\ Wiping(r) /\ mounted = OwnVolume
<1> USE DEF WipeSteps, Passes
<1>0. TypeOK /\ MutexInv /\ VolumeInv
  BY DEF IInv
<1>1. ~ UNCHANGED data
  OBVIOUS
<1>2. ASSUME NEW r \in Requests, pc[r] \in AfterCheck
      PROVE  \E q \in Requests : lockMu = q /\ Wiping(q) /\ mounted = OwnVolume
  BY <1>0, <1>2 DEF MutexInv, HolderSteps, VolumeInv, WipeProgress, Wiping, AfterCheck
<1>3. ASSUME NEW r \in Requests, prepareDataWipe(r) \/ finishDataWipe(r) \/ WipeVar(r)
      PROVE  pc[r] \in AfterCheck
  BY <1>1, <1>3 DEF prepareDataWipe, scrubBootArtifacts, finishDataWipe, CheckVolume, RemovePass,
                    MkdirCustody, WipeVar, AfterCheck
<1>4. CASE PowerLoss \/ AgentRestart
  <2>1. data' \in CrashData
    BY <1>4 DEF PowerLoss, AgentRestart
  <2>2. lockMu \in Requests /\ pc[lockMu] \in AfterCheck
    BY <1>1, <2>1 DEF CrashData, AfterCheck
  <2>3. QED
    BY <1>2, <2>2
<1>5. CASE UserActivity
  BY <1>0, <1>5, ConstantsAssumption DEF UserActivity, TypeOK
<1>6. ASSUME NEW r \in Requests,
             \/ \E o \in Owners : ArmCheckLocked(r, o)
             \/ ArmVerifyPIN(r) \/ ArmUnlockForOwner(r) \/ Disarm(r) \/ LockState(r)
             \/ BeginUnlock(r) \/ VerifyPIN(r) \/ Validate(r) \/ DisableVerity(r)
             \/ ConfirmVerity(r) \/ Record(r) \/ SetUnlockBit(r) \/ Finalize(r) \/ CallFails(r)
      PROVE  UNCHANGED data
  BY <1>6 DEF ArmCheckLocked, ArmVerifyPIN, ArmUnlockForOwner, Disarm, LockState, BeginUnlock,
              VerifyPIN, Validate, DisableVerity, ConfirmVerity, Record, SetUnlockBit, Finalize,
              CallFails
<1>7. CASE Reboot \/ Writeback \/ CorruptFlag
  BY <1>1, <1>7 DEF Reboot, Writeback, CorruptFlag
<1>8. QED
  BY <1>1, <1>2, <1>3, <1>4, <1>5, <1>6, <1>7
  DEF Next, Request, Environment, UnlockBootloader, vars

\* Whatever is erased from the installed volume, private or not, by a whole pass,
\* a torn one or a crash, is erased in recovery, under lockMu, with verity off,
\* for an owner who gave the PIN twice, and with the transaction recorded in the
\* flag for as long as the flag file can be read (UnlockBootloader,
\* prepareDataWipe, finishDataWipe).
ErasedUnderTransaction ==
  [][~ (data[OwnVolume] \subseteq data'[OwnVolume]) =>
       \E r \in Requests :
         /\ lockMu = r /\ Wiping(r) /\ boot = "recovery" /\ mounted = OwnVolume /\ verityOff
         /\ f[r].owner \in granted \cap proved
         /\ "unreadable" \notin seen => Recorded(flag)]_vars

\* Nothing is lost from the installed volume outside the transaction.
THEOREM ErasuresAreTransacted == Spec => ErasedUnderTransaction
<1> DEFINE Step == ~ (data[OwnVolume] \subseteq data'[OwnVolume]) =>
                     \E r \in Requests :
                       /\ lockMu = r /\ Wiping(r) /\ boot = "recovery" /\ mounted = OwnVolume /\ verityOff
                       /\ f[r].owner \in granted \cap proved
                       /\ "unreadable" \notin seen => Recorded(flag)
<1>1. IInv /\ [Next]_vars => Step
  <2> SUFFICES ASSUME IInv, [Next]_vars, ~ (data[OwnVolume] \subseteq data'[OwnVolume])
               PROVE  \E r \in Requests :
                        /\ lockMu = r /\ Wiping(r) /\ boot = "recovery" /\ mounted = OwnVolume /\ verityOff
                        /\ f[r].owner \in granted \cap proved
                        /\ "unreadable" \notin seen => Recorded(flag)
    OBVIOUS
  <2>1. PICK r \in Requests : lockMu = r /\ Wiping(r) /\ mounted = OwnVolume
    BY ErasureStep
  <2>2. boot = "recovery"
    BY <2>1, ConstantsAssumption DEF IInv, MutexInv
  <2>3. verityOff /\ f[r].owner \in granted /\ f[r].owner \in proved
    BY <2>1 DEF IInv, ConsentInv, CopyBacked, Wiping, HolderSteps, WipeSteps, Passes
  <2>4. "unreadable" \notin seen => Recorded(flag)
    BY <2>1 DEF IInv, CountInv, WipeIsRecorded
  <2>5. QED
    BY <2>1, <2>2, <2>3, <2>4
<1>2. QED
  BY Invariance, <1>1, PTL DEF Spec, ErasedUnderTransaction

-------------------------------------------------------------------------------
(* What the comments of lock.go may count on *)

\* An arm request lives in the running system, and what it writes was proven
\* against a key custody that is still there.
ArmInv ==
  \A r \in Requests :
    /\ pc[r] \in ArmSteps => boot = "runtime"
    /\ pc[r] = "armWrite" => "keys" \in data[OwnVolume]

\* The consent a request started from stands until the request replaces it: what
\* Validate and ConfirmVerity re-read cannot have changed but by damage to the file.
ConsentHeld ==
  "unreadable" \notin seen => \A r \in Requests : pc[r] \in ConsentSteps => SameConsent(r)

\* From the check of the volume on, the installed one stays mounted.
CheckedInv ==
  \A r \in Requests : pc[r] \in {"disableVerity", "confirmVerity", "record"} => mounted = OwnVolume

\* Consent that is open for a PIN has its custody, as long as no write of the flag
\* went without its sync.
CustodyInv == (seen = {} /\ flag.armed /\ flag.phase = "") => "keys" \in data[OwnVolume]

LEMMA ArmStep ==
  ASSUME IInv, ArmInv, [Next]_vars PROVE ArmInv'
<1> USE DEF ArmSteps, HolderSteps, ConsentSteps, WipeSteps, Passes
<1>0. TypeOK /\ MutexInv
  BY DEF IInv
<1>1. boot = "runtime" => data[OwnVolume] \subseteq data'[OwnVolume]
  BY <1>0, ErasureStep, ConstantsAssumption DEF MutexInv
<1>2. ASSUME UNCHANGED boot, \A q \in Requests : pc'[q] \in ArmSteps => pc'[q] = pc[q] PROVE ArmInv'
  BY <1>1, <1>2 DEF ArmInv
<1>3. ASSUME NEW r \in Requests, NEW o \in Owners, ArmCheckLocked(r, o) PROVE ArmInv'
  BY <1>0, <1>1, <1>3 DEF ArmInv, ArmCheckLocked, TypeOK
<1>4. ASSUME NEW r \in Requests, ArmVerifyPIN(r) PROVE ArmInv'
  BY <1>0, <1>4 DEF ArmInv, ArmVerifyPIN, TypeOK
<1>5. ASSUME NEW r \in Requests,
             \/ ArmUnlockForOwner(r) \/ Disarm(r) \/ LockState(r)
             \/ BeginUnlock(r) \/ VerifyPIN(r) \/ Validate(r) \/ DisableVerity(r)
             \/ ConfirmVerity(r) \/ SetUnlockBit(r) \/ Finalize(r) \/ CallFails(r) \/ WipeVar(r)
      PROVE  UNCHANGED boot /\ \A q \in Requests : pc'[q] \in ArmSteps => pc'[q] = pc[q]
  BY <1>0, <1>5
  DEF TypeOK, ArmUnlockForOwner, Disarm, LockState, BeginUnlock, VerifyPIN, Validate, DisableVerity,
      ConfirmVerity, SetUnlockBit, Finalize, CallFails, WipeVar, GoTo, Return
<1>6. ASSUME NEW r \in Requests, Record(r) \/ prepareDataWipe(r) \/ finishDataWipe(r)
      PROVE  UNCHANGED boot /\ \A q \in Requests : pc'[q] \in ArmSteps => pc'[q] = pc[q]
  <2>1. UNCHANGED boot /\ \E step \in HolderSteps \cup {"idle"} : pc' = [pc EXCEPT ![r] = step]
    BY <1>6 DEF Record, prepareDataWipe, scrubBootArtifacts, finishDataWipe, CheckVolume, RemovePass,
                MkdirCustody, GoTo, Return
  <2>2. QED
    BY <1>0, <2>1 DEF TypeOK
<1>7. CASE PowerLoss \/ AgentRestart \/ Reboot
  BY <1>7 DEF PowerLoss, AgentRestart, Reboot, NoRequests, ArmInv
<1>8. CASE Writeback \/ CorruptFlag \/ UserActivity \/ UNCHANGED vars
  BY <1>2, <1>8 DEF Writeback, CorruptFlag, UserActivity, vars
<1>9. QED
  BY <1>2, <1>3, <1>4, <1>5, <1>6, <1>7, <1>8 DEF Next, Request, Environment, UnlockBootloader

\* Where consent that is open for a PIN comes from: it was there before, or it is
\* being armed.
LEMMA ConsentOpens ==
  ASSUME IInv, [Next]_vars, seen' = {}, flag'.armed, flag'.phase = ""
  PROVE  /\ seen = {}
         /\ \/ flag.armed /\ flag.phase = ""
            \/ UNCHANGED data /\ \E r \in Requests : pc[r] = "armWrite"
<1>0. TypeOK /\ CountInv
  BY DEF IInv
<1>1. CASE UNCHANGED <<flag, seen>>
  BY <1>1
<1>2. ASSUME NEW r \in Requests, ArmUnlockForOwner(r)
      PROVE  /\ seen = {} /\ UNCHANGED data /\ pc[r] = "armWrite"
  <2>1. UNCHANGED data /\ pc[r] = "armWrite"
    BY <1>2 DEF ArmUnlockForOwner
  <2>2. seen \subseteq seen'
    BY <1>0, <1>2, RewriteEffect DEF ArmUnlockForOwner
  <2>3. QED
    BY <2>1, <2>2
<1>3. ASSUME NEW r \in Requests, Disarm(r) \/ LockState(r) \/ Finalize(r)
      PROVE  seen = {} /\ flag.armed /\ flag.phase = ""
  <2>1. PICK g \in {flag, ZeroFlag}, w \in Writes : Rewrite(g, finalized(g), w)
    BY <1>3 DEF Disarm, LockState, Finalize
  <2>2. seen \subseteq seen' /\ flag' \in {flag, finalized(g)}
    BY <1>0, <2>1, RewriteEffect
  <2>3. ~ finalized(g).armed
    BY <1>0, ZeroFlagType, FinalizedFlag DEF TypeOK
  <2>4. QED
    BY <2>2, <2>3
<1>4. ASSUME NEW r \in Requests, Record(r)
      PROVE  seen = {} /\ flag.armed /\ flag.phase = ""
  <2> DEFINE h == [f[r] EXCEPT !.phase = "verity-off"]
  <2>1. PICK w \in Writes : Rewrite(flag, h, w)
    BY <1>4 DEF Record
  <2>2. h.phase = "verity-off"
    BY <1>0, RecordedFlag DEF TypeOK
  <2> HIDE DEF h
  <2>3. seen \subseteq seen' /\ flag' \in {flag, h}
    BY <1>0, <2>1, RewriteEffect
  <2>4. QED
    BY <2>2, <2>3
<1>5. CASE PowerLoss
  BY <1>0, <1>5 DEF PowerLoss, CountInv
<1>6. CASE CorruptFlag
  BY <1>6 DEF CorruptFlag
<1>7. ASSUME NEW r \in Requests,
             \/ \E o \in Owners : ArmCheckLocked(r, o)
             \/ ArmVerifyPIN(r) \/ BeginUnlock(r) \/ VerifyPIN(r) \/ Validate(r)
             \/ DisableVerity(r) \/ ConfirmVerity(r) \/ prepareDataWipe(r) \/ WipeVar(r)
             \/ finishDataWipe(r) \/ SetUnlockBit(r) \/ CallFails(r)
      PROVE  UNCHANGED <<flag, seen>>
  BY <1>7 DEF ArmCheckLocked, ArmVerifyPIN, BeginUnlock, VerifyPIN, Validate, DisableVerity,
              ConfirmVerity, prepareDataWipe, scrubBootArtifacts, finishDataWipe, CheckVolume,
              RemovePass, MkdirCustody, WipeVar, SetUnlockBit, CallFails
<1>8. CASE AgentRestart \/ Reboot \/ Writeback \/ UserActivity
  BY <1>1, <1>8 DEF AgentRestart, Reboot, Writeback, UserActivity
<1>9. QED
  BY <1>1, <1>2, <1>3, <1>4, <1>5, <1>6, <1>7, <1>8
  DEF Next, Request, Environment, UnlockBootloader, vars

LEMMA CustodyStep ==
  ASSUME IInv, ArmInv, CustodyInv, [Next]_vars PROVE CustodyInv'
<1> SUFFICES ASSUME seen' = {}, flag'.armed, flag'.phase = "" PROVE "keys" \in data'[OwnVolume]
  BY DEF CustodyInv
<1>1. CASE UNCHANGED data /\ \E r \in Requests : pc[r] = "armWrite"
  BY <1>1 DEF ArmInv
<1>2. CASE seen = {} /\ flag.armed /\ flag.phase = ""
  <2>1. "keys" \in data[OwnVolume]
    BY <1>2 DEF CustodyInv
  <2>2. \A r \in Requests : ~ Wiping(r)
    <3>1. "verity-off" # ""
      OBVIOUS
    <3>2. QED
      BY <1>2, <3>1 DEF IInv, CountInv, WipeIsRecorded, Recorded
  <2>3. QED
    BY <2>1, <2>2, ErasureStep
<1>3. QED
  BY <1>1, <1>2, ConsentOpens

LEMMA HeldStep ==
  ASSUME IInv, ConsentHeld, CheckedInv, [Next]_vars PROVE ConsentHeld' /\ CheckedInv'
<1> USE DEF HolderSteps, ConsentSteps, WipeSteps, Passes
<1>0. TypeOK /\ MutexInv
  BY DEF IInv
<1>1. ASSUME \A q \in Requests : pc'[q] \notin ConsentSteps PROVE ConsentHeld' /\ CheckedInv'
  BY <1>1 DEF ConsentHeld, CheckedInv
<1>2. ASSUME UNCHANGED <<mounted, pc, f>>, UNCHANGED flag \/ "unreadable" \in seen', seen \subseteq seen'
      PROVE  ConsentHeld' /\ CheckedInv'
  BY <1>2 DEF ConsentHeld, CheckedInv, SameConsent
<1>3. ASSUME NEW r \in Requests, VerifyPIN(r) \/ Validate(r) \/ DisableVerity(r) PROVE ConsentHeld' /\ CheckedInv'
  <2>1. /\ UNCHANGED <<mounted, f, flag, seen>> /\ pc[r] \in {"verifyPIN", "validate", "disableVerity"}
        /\ \E step \in {"validate", "disableVerity", "confirmVerity", "idle"} :
             /\ pc' = [pc EXCEPT ![r] = step]
             /\ step = "disableVerity" => mounted = OwnVolume
             /\ step = "confirmVerity" => pc[r] = "disableVerity"
    BY <1>3 DEF VerifyPIN, Validate, DisableVerity, validateDataDir, GoTo, Return
  <2>2. CheckedInv'
    BY <1>0, <2>1 DEF TypeOK, CheckedInv
  <2>3. ConsentHeld'
    BY <1>0, <2>1 DEF TypeOK, ConsentHeld, SameConsent
  <2>4. QED
    BY <2>2, <2>3
<1>4. ASSUME NEW r \in Requests, ConfirmVerity(r) PROVE ConsentHeld' /\ CheckedInv'
  <2>1. \A q \in Requests \ {r} : pc'[q] \notin ConsentSteps
    BY <1>0, <1>4, OneHolder DEF TypeOK, ConfirmVerity, GoTo, Return
  <2>2. CASE pc' = [pc EXCEPT ![r] = "record"] /\ SameConsent(r) /\ f' = [f EXCEPT ![r] = flag]
    <3>1. SameConsent(r)'
      BY <1>0, <1>4, <2>2 DEF TypeOK, SameConsent, ConfirmVerity
    <3>2. mounted' = OwnVolume
      BY <1>4 DEF ConfirmVerity, CheckedInv
    <3>3. QED
      BY <2>1, <3>1, <3>2 DEF ConsentHeld, CheckedInv
  <2>3. CASE pc' = [pc EXCEPT ![r] = "idle"]
    BY <1>0, <1>1, <2>1, <2>3 DEF TypeOK
  <2>4. QED
    BY <1>4, <2>2, <2>3 DEF ConfirmVerity, GoTo, Return
<1>5. ASSUME NEW r \in Requests, BeginUnlock(r) PROVE ConsentHeld' /\ CheckedInv'
  <2>1. \A q \in Requests \ {r} : pc'[q] \notin ConsentSteps
    BY <1>0, <1>5, OneHolder DEF TypeOK, BeginUnlock, LockedCall
  <2>2. pc'[r] \in {"verifyPIN", "prepare"} /\ (pc'[r] = "verifyPIN" => flag.phase = "")
    BY <1>0, <1>5 DEF TypeOK, BeginUnlock
  <2>3. flag.armed /\ f'[r] = flag /\ flag' = flag
    BY <1>0, <1>5 DEF TypeOK, BeginUnlock
  <2>4. QED
    BY <2>1, <2>2, <2>3 DEF ConsentHeld, CheckedInv, SameConsent
<1>6. ASSUME NEW r \in Requests,
             Record(r) \/ prepareDataWipe(r) \/ finishDataWipe(r) \/ WipeVar(r) \/ SetUnlockBit(r) \/ Finalize(r) \/ CallFails(r)
      PROVE  \A q \in Requests : pc'[q] \notin ConsentSteps
  <2>1. pc[r] \in HolderSteps /\ \E step \in WipeSteps \cup {"idle"} : pc' = [pc EXCEPT ![r] = step]
    BY <1>6 DEF Record, prepareDataWipe, scrubBootArtifacts, finishDataWipe, CheckVolume, RemovePass,
                MkdirCustody, WipeVar, SetUnlockBit, Finalize, CallFails, GoTo, Return
  <2>2. QED
    BY <1>0, <2>1, OneHolder DEF TypeOK
<1>7. ASSUME NEW r \in Requests, ArmUnlockForOwner(r) \/ Disarm(r) \/ LockState(r)
      PROVE  \A q \in Requests : pc'[q] \notin ConsentSteps
  BY <1>0, <1>7, OneHolder DEF TypeOK, ArmUnlockForOwner, Disarm, LockState, LockedCall
<1>8. ASSUME NEW r \in Requests, (\E o \in Owners : ArmCheckLocked(r, o)) \/ ArmVerifyPIN(r)
      PROVE  ConsentHeld' /\ CheckedInv'
  <2>1. UNCHANGED <<mounted, f, flag, seen>> /\ \E step \in {"armPIN", "armWrite", "idle"} : pc' = [pc EXCEPT ![r] = step]
    BY <1>8 DEF ArmCheckLocked, ArmVerifyPIN
  <2>2. QED
    BY <1>0, <2>1 DEF TypeOK, ConsentHeld, CheckedInv, SameConsent
<1>9. CASE PowerLoss \/ AgentRestart \/ Reboot
  BY <1>1, <1>9 DEF PowerLoss, AgentRestart, Reboot, NoRequests
<1>10. CASE Writeback \/ CorruptFlag \/ UserActivity \/ UNCHANGED vars
  BY <1>2, <1>10 DEF Writeback, CorruptFlag, UserActivity, vars
<1>11. QED
  BY <1>1, <1>3, <1>4, <1>5, <1>6, <1>7, <1>8, <1>9, <1>10 DEF Next, Request, Environment, UnlockBootloader

\* The four together, on top of IInv.
HeldInv == IInv /\ ArmInv /\ ConsentHeld /\ CheckedInv /\ CustodyInv

LEMMA InitHeldInv == Init => HeldInv
<1>1. Init => ArmInv /\ ConsentHeld /\ CheckedInv /\ CustodyInv
  BY ConstantsAssumption DEF Init, ArmInv, ConsentHeld, CheckedInv, CustodyInv, Paths, ArmSteps, ConsentSteps
<1>2. QED
  BY <1>1, InitIInv DEF HeldInv

LEMMA HeldInvariance == Spec => []HeldInv
<1>1. HeldInv /\ [Next]_vars => HeldInv'
  BY NextIInv, ArmStep, HeldStep, CustodyStep DEF HeldInv
<1>2. QED
  BY InitHeldInv, <1>1, PTL DEF Spec

\* Once every read and every sync of the flag file has succeeded, what lock.go
\* says of itself holds (CustodyNeverNeededAgain without its exception): recovery
\* never asks for a PIN on the installed volume after the custody that checks it
\* is gone, and no open consent waits for such a PIN either.
CustodyOutlastsConsent ==
  seen = {} =>
    /\ \A r \in Requests : (pc[r] = "verifyPIN" /\ mounted = OwnVolume) => "keys" \in data[OwnVolume]
    /\ (flag.armed /\ flag.phase = "") => "keys" \in data[OwnVolume]

\* It takes a failed read or a sync that never happened to ask for a PIN in vain.
THEOREM CustodyIsThere == Spec => []CustodyOutlastsConsent
<1>1. HeldInv => CustodyOutlastsConsent
  <2> SUFFICES ASSUME HeldInv, seen = {} PROVE CustodyOutlastsConsent
    BY DEF CustodyOutlastsConsent
  <2>1. ASSUME NEW r \in Requests, pc[r] = "verifyPIN" PROVE flag.armed /\ flag.phase = ""
    BY <2>1 DEF HeldInv, ConsentHeld, SameConsent, ConsentSteps
  <2>2. QED
    BY <2>1 DEF HeldInv, CustodyInv, CustodyOutlastsConsent
<1>2. QED
  BY HeldInvariance, <1>1, PTL

\* Verity enforcement goes off once and for one reason: UnlockBootloader, in
\* recovery and under lockMu, on the installed volume, for an owner who gave the
\* PIN twice and whose consent still stands in the flag, unrecorded, unless the
\* file was damaged in between.  Nothing turns it on again.
VerityOffWithConsent ==
  [][verityOff' # verityOff =>
       /\ verityOff' /\ boot = "recovery" /\ mounted = OwnVolume
       /\ \E r \in Requests :
            /\ lockMu = r /\ f[r].owner \in granted \cap proved
            /\ "unreadable" \notin seen => SameConsent(r)]_vars

\* disable-verity runs for a standing, twice proven consent only.
THEOREM VerityIsConsented == Spec => VerityOffWithConsent
<1> DEFINE Step == verityOff' # verityOff =>
                     /\ verityOff' /\ boot = "recovery" /\ mounted = OwnVolume
                     /\ \E r \in Requests :
                          /\ lockMu = r /\ f[r].owner \in granted \cap proved
                          /\ "unreadable" \notin seen => SameConsent(r)
<1>1. HeldInv /\ [Next]_vars => Step
  <2> SUFFICES ASSUME HeldInv, [Next]_vars, verityOff' # verityOff
               PROVE  /\ verityOff' /\ boot = "recovery" /\ mounted = OwnVolume
                      /\ \E r \in Requests :
                           /\ lockMu = r /\ f[r].owner \in granted \cap proved
                           /\ "unreadable" \notin seen => SameConsent(r)
    OBVIOUS
  <2>1. PICK r \in Requests : DisableVerity(r)
    <3>1. ASSUME NEW r \in Requests, Request(r), ~ DisableVerity(r) PROVE UNCHANGED verityOff
      <4>1. CASE (\E o \in Owners : ArmCheckLocked(r, o)) \/ ArmVerifyPIN(r) \/ ArmUnlockForOwner(r)
        BY <4>1 DEF ArmCheckLocked, ArmVerifyPIN, ArmUnlockForOwner
      <4>2. CASE Disarm(r) \/ LockState(r)
        BY <4>2 DEF Disarm, LockState
      <4>3. CASE UnlockBootloader(r)
        BY <3>1, <4>3
        DEF UnlockBootloader, BeginUnlock, VerifyPIN, Validate, ConfirmVerity, SetUnlockBit,
            Record, prepareDataWipe, scrubBootArtifacts, finishDataWipe, CheckVolume, RemovePass,
            MkdirCustody, WipeVar, Finalize, CallFails
      <4>4. QED
        BY <3>1, <4>1, <4>2, <4>3 DEF Request
    <3>2. Environment => UNCHANGED verityOff
      BY DEF Environment, PowerLoss, AgentRestart, Reboot, Writeback, CorruptFlag, UserActivity
    <3>3. QED
      BY <3>1, <3>2 DEF Next, vars
  <2>2. pc[r] = "disableVerity" /\ verityOff'
    BY <2>1 DEF DisableVerity
  <2>3. lockMu = r /\ boot = "recovery"
    BY <2>2, ConstantsAssumption DEF HeldInv, IInv, MutexInv, HolderSteps, ConsentSteps
  <2>4. f[r].owner \in granted /\ f[r].owner \in proved
    BY <2>2 DEF HeldInv, IInv, ConsentInv, CopyBacked, HolderSteps, ConsentSteps
  <2>5. mounted = OwnVolume
    BY <2>2 DEF HeldInv, CheckedInv
  <2>6. "unreadable" \notin seen => SameConsent(r)
    BY <2>2 DEF HeldInv, ConsentHeld, ConsentSteps
  <2>7. QED
    BY <2>2, <2>3, <2>4, <2>5, <2>6
<1>2. QED
  BY HeldInvariance, <1>1, PTL DEF Spec, VerityOffWithConsent

-------------------------------------------------------------------------------
(* What it takes to leave verity off on a locked device *)

\* Steps of UnlockBootloader from the moment verity is off.
Committed == WipeSteps \cup {"confirmVerity", "record"}

\* Nothing has failed yet: what is under way stays under way, and whatever
\* UnlockBootloader began it is still working on.
Clean ==
  /\ seen = {}
  /\ \A r \in Requests : pc[r] \in WipeSteps => mounted = OwnVolume
  /\ flag.phase # "" => \E r \in Requests : pc[r] \in WipeSteps
  /\ (locked /\ verityOff) => \E r \in Requests : pc[r] \in Committed

CleanInv == faults <= MaxFaults /\ (faults = MaxFaults => Clean)

\* A read-modify-write that cost no fault read the file and wrote it for good.
LEMMA CleanRewrite ==
  ASSUME TypeOK, NEW g, NEW h, NEW w \in Writes, Rewrite(g, h, w)
  PROVE  /\ faults' <= faults
         /\ faults' = faults => g = flag /\ w = "ok" /\ flag' = h /\ seen' = seen
<1>1. faults \in Nat
  BY DEF TypeOK
<1>2. CASE g = flag /\ w = "ok"
  <2>1. faults' = faults - (0 + 0) /\ flag' = h /\ seen' = seen
    BY <1>2 DEF Rewrite, writeUnlockFlag, Spend, Pick, Writes
  <2>2. QED
    BY <1>1, <1>2, <2>1
<1>3. CASE ~ (g = flag /\ w = "ok")
  <2>1. \E n \in {1, 2} : faults' = faults - n
    BY <1>3 DEF Rewrite, Spend, Pick
  <2>2. QED
    BY <1>1, <2>1
<1>4. QED
  BY <1>2, <1>3

LEMMA CleanStep ==
  ASSUME HeldInv, CleanInv, [Next]_vars PROVE CleanInv'
<1> USE DEF HolderSteps, ConsentSteps, WipeSteps, Passes, Committed
<1>0. TypeOK /\ MutexInv /\ faults \in Nat /\ MaxFaults \in Nat
  BY ConstantsAssumption DEF HeldInv, IInv, TypeOK
<1>1. ASSUME \E n \in {1, 2} : faults' = faults - n PROVE CleanInv'
  BY <1>0, <1>1 DEF CleanInv
<1>2. ASSUME UNCHANGED <<mounted, flag, seen, faults, locked, verityOff>>,
             \A q \in Requests : pc[q] \in Committed \/ pc'[q] \in Committed => pc'[q] = pc[q]
      PROVE  CleanInv'
  BY <1>2 DEF CleanInv, Clean
\* The request under way goes on with the wipe.
<1>3. ASSUME NEW r \in Requests, pc[r] \in HolderSteps, NEW next \in WipeSteps, pc' = [pc EXCEPT ![r] = next],
             faults = MaxFaults => mounted = OwnVolume, UNCHANGED mounted,
             faults' <= faults, faults' = faults => UNCHANGED seen
      PROVE  CleanInv'
  <2>1. pc'[r] = next /\ \A q \in Requests \ {r} : pc'[q] \notin WipeSteps
    BY <1>0, <1>3, OneHolder DEF TypeOK
  <2>2. faults' \in Nat
    BY TypeStep DEF HeldInv, TypeOK
  <2>3. faults' <= MaxFaults /\ (faults' = MaxFaults => faults = MaxFaults /\ faults' = faults)
    BY <1>0, <1>3, <2>2 DEF CleanInv
  <2>4. ASSUME Clean, faults' = faults, faults = MaxFaults PROVE Clean'
    BY <1>3, <2>1, <2>4 DEF Clean
  <2>5. QED
    BY <2>3, <2>4 DEF CleanInv
\* A call that leaves no phase and no request in the middle of its work.
<1>4. ASSUME faults' <= faults,
             faults' = faults => UNCHANGED <<seen, locked, verityOff>> /\ flag'.phase = "",
             \A q \in Requests : pc'[q] \notin WipeSteps,
             (locked /\ verityOff) => \A q \in Requests : pc[q] \notin Committed
      PROVE  CleanInv'
  <2>1. ASSUME Clean, faults' = faults PROVE Clean'
    <3>1. ~ (locked /\ verityOff)
      BY <1>4, <2>1 DEF Clean
    <3>2. UNCHANGED <<seen, locked, verityOff>> /\ flag'.phase = ""
      BY <1>4, <2>1, Zenon
    <3>3. ~ (locked' /\ verityOff')
      BY <3>1, <3>2, Zenon
    <3>4. QED
      BY <1>4, <2>1, <3>2, <3>3 DEF Clean
  <2>2. faults' \in Nat /\ faults' <= faults
    BY <1>4, TypeStep DEF HeldInv, TypeOK
  <2>3. faults' <= MaxFaults /\ (faults' = MaxFaults => faults = MaxFaults /\ faults' = faults)
    BY <1>0, <2>2 DEF CleanInv
  <2>4. QED
    BY <2>1, <2>3 DEF CleanInv
<1>5. ASSUME NEW r \in Requests, NEW o \in Owners, ArmCheckLocked(r, o) PROVE CleanInv'
  <2>1. /\ UNCHANGED <<mounted, flag, seen, locked, verityOff>>
        /\ \A q \in Requests : pc[q] \in Committed \/ pc'[q] \in Committed => pc'[q] = pc[q]
    BY <1>0, <1>5 DEF TypeOK, ArmCheckLocked, LockedCall
  <2>2. faults' = faults \/ faults' = faults - 1
    BY <1>0, <1>5 DEF ArmCheckLocked, Spend, Pick
  <2>3. QED
    BY <1>1, <1>2, <2>1, <2>2
<1>6. ASSUME NEW r \in Requests, ArmVerifyPIN(r) PROVE CleanInv'
  <2>1. /\ UNCHANGED <<mounted, flag, seen, faults, locked, verityOff>>
        /\ \A q \in Requests : pc[q] \in Committed \/ pc'[q] \in Committed => pc'[q] = pc[q]
    BY <1>0, <1>6 DEF TypeOK, ArmVerifyPIN
  <2>2. QED
    BY <1>2, <2>1
<1>7. ASSUME NEW r \in Requests, ArmUnlockForOwner(r) PROVE CleanInv'
  <2>1. /\ UNCHANGED <<mounted, locked, verityOff>> /\ who[r] \in Owners
        /\ \A q \in Requests : pc[q] \notin Committed /\ pc'[q] \notin Committed
    BY <1>0, <1>7, OneHolder DEF TypeOK, MutexInv, ArmSteps, ArmUnlockForOwner
  <2>2. CASE UNCHANGED <<flag, seen, faults>>
    BY <1>2, <2>1, <2>2
  <2>3. ASSUME NEW g \in {flag, ZeroFlag}, NEW w \in Writes, Rewrite(g, armedFor(g, who[r]), w)
        PROVE  CleanInv'
    <3>1. g \in Flags
      BY <1>0, ZeroFlagType DEF TypeOK
    <3>2. armedFor(g, who[r]).phase = ""
      BY <2>1, <3>1, ArmedFlag
    <3>3. QED
      BY <1>0, <1>4, <2>1, <2>3, <3>2, CleanRewrite
  <2>4. QED
    BY <1>7, <2>2, <2>3 DEF ArmUnlockForOwner
<1>8. ASSUME NEW r \in Requests, Disarm(r) \/ LockState(r) \/ Finalize(r) PROVE CleanInv'
  <2>1. /\ UNCHANGED <<mounted, locked, verityOff>>
        /\ \A q \in Requests : pc'[q] \notin WipeSteps
    BY <1>0, <1>8, OneHolder DEF TypeOK, Disarm, LockState, LockedCall, Finalize, Return
  <2>2. locked => \A q \in Requests : pc[q] \notin Committed
    <3>1. pc[r] = "finalize" => ~ locked
      BY DEF HeldInv, IInv, KeptInv
    <3>2. QED
      BY <1>0, <1>8, <3>1, OneHolder DEF TypeOK, Disarm, LockState, LockedCall, Finalize
  <2>3. PICK g \in {flag, ZeroFlag}, w \in Writes : Rewrite(g, finalized(g), w)
    BY <1>8 DEF Disarm, LockState, Finalize
  <2>4. finalized(g).phase = ""
    BY <1>0, ZeroFlagType, FinalizedFlag DEF TypeOK
  <2>5. QED
    BY <1>0, <1>4, <2>1, <2>2, <2>3, <2>4, CleanRewrite
<1>9. ASSUME NEW r \in Requests, BeginUnlock(r) PROVE CleanInv'
  <2>1. /\ UNCHANGED <<mounted, flag, seen, faults, locked, verityOff>>
        /\ \A q \in Requests : pc[q] \notin Committed
    BY <1>0, <1>9, OneHolder DEF BeginUnlock, LockedCall
  <2>2. CASE faults = MaxFaults
    <3>1. flag.phase = ""
      BY <2>1, <2>2 DEF CleanInv, Clean
    <3>2. "verity-off" # ""
      OBVIOUS
    <3>3. pc' = [pc EXCEPT ![r] = "verifyPIN"]
      BY <1>9, <3>1, <3>2 DEF BeginUnlock
    <3>4. \A q \in Requests : pc'[q] \notin Committed
      BY <1>0, <2>1, <3>3 DEF TypeOK
    <3>5. QED
      BY <1>2, <2>1, <3>4
  <2>3. CASE faults # MaxFaults
    BY <2>1, <2>3 DEF CleanInv
  <2>4. QED
    BY <2>2, <2>3
<1>10. ASSUME NEW r \in Requests, VerifyPIN(r) \/ Validate(r) PROVE CleanInv'
  <2>1. /\ UNCHANGED <<mounted, flag, seen, faults, locked, verityOff>>
        /\ \A q \in Requests : pc[q] \notin Committed /\ pc'[q] \notin Committed
    BY <1>0, <1>10, OneHolder DEF TypeOK, VerifyPIN, Validate, GoTo, Return
  <2>2. QED
    BY <1>2, <2>1
<1>11. ASSUME NEW r \in Requests, DisableVerity(r) PROVE CleanInv'
  <2>1. CASE pc' = [pc EXCEPT ![r] = "confirmVerity"] /\ faults' = faults
    <3>1. pc'[r] = "confirmVerity" /\ \A q \in Requests : pc[q] \notin WipeSteps /\ pc'[q] \notin WipeSteps
      BY <1>0, <1>11, <2>1, OneHolder DEF TypeOK, DisableVerity
    <3>2. UNCHANGED <<flag, seen>>
      BY <1>11 DEF DisableVerity
    <3>3. QED
      BY <2>1, <3>1, <3>2 DEF CleanInv, Clean
  <2>2. QED
    BY <1>0, <1>1, <1>11, <2>1 DEF DisableVerity, GoTo, Spend
<1>12. ASSUME NEW r \in Requests, ConfirmVerity(r) PROVE CleanInv'
  <2>1. UNCHANGED <<mounted, flag, seen, faults, locked, verityOff>> /\ pc[r] = "confirmVerity"
    BY <1>12 DEF ConfirmVerity
  <2>2. \A q \in Requests : pc[q] \notin WipeSteps /\ pc'[q] \notin WipeSteps
    BY <1>0, <1>12, OneHolder DEF TypeOK, ConfirmVerity, GoTo, Return
  <2>3. CASE faults = MaxFaults
    <3>1. seen = {} /\ SameConsent(r)
      BY <2>1, <2>3 DEF CleanInv, Clean, HeldInv, ConsentHeld
    <3>2. verityOff => pc'[r] = "record"
      BY <1>0, <1>12, <3>1 DEF TypeOK, ConfirmVerity, GoTo
    <3>3. QED
      BY <2>1, <2>2, <3>2 DEF CleanInv, Clean
  <2>4. CASE faults # MaxFaults
    BY <2>1, <2>4 DEF CleanInv
  <2>5. QED
    BY <2>3, <2>4
<1>13. ASSUME NEW r \in Requests, Record(r) PROVE CleanInv'
  <2> DEFINE h == [f[r] EXCEPT !.phase = "verity-off"]
  <2>1. PICK w \in Writes : Rewrite(flag, h, w) /\ IF w = "ok" THEN GoTo(r, "prepare") ELSE Return(r)
    BY <1>13 DEF Record
  <2> HIDE DEF h
  <2>2. faults' <= faults /\ (faults' = faults => w = "ok" /\ seen' = seen)
    BY <1>0, <2>1, CleanRewrite
  <2>3. pc[r] = "record" /\ UNCHANGED mounted /\ mounted = OwnVolume
    BY <1>13 DEF Record, HeldInv, CheckedInv
  <2>4. CASE w = "ok"
    BY <1>3, <2>1, <2>2, <2>3, <2>4 DEF GoTo
  <2>5. CASE w # "ok"
    <3>1. faults' # faults /\ faults' \in Nat
      BY <2>2, <2>5, TypeStep DEF HeldInv, TypeOK
    <3>2. QED
      BY <1>0, <2>2, <3>1 DEF CleanInv
  <2>6. QED
    BY <2>4, <2>5
<1>14. ASSUME NEW r \in Requests, CheckVolume(r, "prepare", "scrubBoot") \/ CheckVolume(r, "finish", "finishTop")
       PROVE  CleanInv'
  <2>1. UNCHANGED <<mounted, flag, seen, faults, locked, verityOff>> /\ pc[r] \in {"prepare", "finish"}
    BY <1>14 DEF CheckVolume
  <2>2. CASE faults = MaxFaults
    <3>1. mounted = OwnVolume /\ validateDataDir
      BY <2>1, <2>2 DEF CleanInv, Clean, HeldInv, IInv, VolumeInv, RetryFindsVolume, validateDataDir
    <3>2. \E next \in WipeSteps : pc' = [pc EXCEPT ![r] = next]
      BY <1>14, <3>1 DEF CheckVolume, GoTo
    <3>3. pc[r] \in HolderSteps /\ faults' <= faults
      BY <1>0, <2>1
    <3>4. QED
      BY <1>3, <2>1, <3>1, <3>2, <3>3
  <2>3. CASE faults # MaxFaults
    BY <2>1, <2>3 DEF CleanInv
  <2>4. QED
    BY <2>2, <2>3
<1>15. ASSUME NEW r \in Requests, NEW pass \in Passes, NEW next \in WipeSteps, RemovePass(r, pass, next)
       PROVE  CleanInv'
  <2>1. UNCHANGED <<mounted, seen>> /\ pc[r] \in Passes /\ mounted = OwnVolume
    BY <1>15, PassStep DEF RemovePass, HeldInv
  <2>2. \/ pc' = [pc EXCEPT ![r] = next] /\ faults' = faults
        \/ faults' = faults - 1
    BY <1>0, <1>15 DEF RemovePass, GoTo, Spend
  <2>3. QED
    BY <1>0, <1>1, <1>3, <2>1, <2>2
<1>16. ASSUME NEW r \in Requests, MkdirCustody(r) \/ WipeVar(r) \/ SetUnlockBit(r) PROVE CleanInv'
  <2>1. UNCHANGED <<mounted, seen>> /\ pc[r] \in {"mkdir", "wipeVar", "setBit"}
    BY <1>16 DEF MkdirCustody, WipeVar, SetUnlockBit
  <2>2. \/ \E next \in WipeSteps : pc' = [pc EXCEPT ![r] = next] /\ faults' = faults
        \/ faults' = faults - 1
    BY <1>0, <1>16 DEF MkdirCustody, WipeVar, SetUnlockBit, GoTo, Spend
  <2>3. mounted = OwnVolume
    BY <2>1 DEF HeldInv, IInv, VolumeInv, WipeProgress, AfterCheck
  <2>4. QED
    BY <1>0, <1>1, <1>3, <2>1, <2>2, <2>3
<1>17. ASSUME NEW r \in Requests, CallFails(r) PROVE CleanInv'
  BY <1>1, <1>17 DEF CallFails, Spend
<1>18. CASE PowerLoss \/ AgentRestart \/ CorruptFlag
  BY <1>1, <1>18 DEF PowerLoss, AgentRestart, CorruptFlag, Spend
<1>19. CASE Reboot
  <2>1. UNCHANGED <<flag, seen, faults, locked, verityOff>>
    BY <1>19 DEF Reboot
  <2>2. \A q \in Requests : pc[q] \notin Committed /\ pc'[q] \notin Committed
    BY <1>0, <1>19, OneHolder DEF Reboot, NoRequests
  <2>3. QED
    BY <2>1, <2>2 DEF CleanInv, Clean
<1>20. CASE Writeback \/ UserActivity \/ UNCHANGED vars
  BY <1>2, <1>20 DEF Writeback, UserActivity, vars
<1>21. QED
  BY <1>5, <1>6, <1>7, <1>8, <1>9, <1>10, <1>11, <1>12, <1>13, <1>14, <1>15, <1>16, <1>17, <1>18, <1>19, <1>20
  DEF Next, Request, Environment, UnlockBootloader, prepareDataWipe, scrubBootArtifacts, finishDataWipe

\* "Bootloader: locked. Verified boot is on." (main.zig:144) is true of every locked
\* device with no unlock under way, armed or not, as long as no call has failed
\* and the power has stayed on: LockedMeansVerified needs a failure to be violated.
VerifiedUnlessFailed ==
  (faults = MaxFaults /\ lockMu = NoReq /\ locked) => ~ verityOff

\* Verity is left off on a locked device only by an attempt that failed.
THEOREM LockedIsVerified == Spec => []VerifiedUnlessFailed
<1>1. Init => CleanInv
  <2> SUFFICES ASSUME Init PROVE CleanInv
    OBVIOUS
  <2>1. ~ verityOff
    BY DEF Init
  <2>2. seen = {} /\ flag.phase = "" /\ \A r \in Requests : pc[r] \notin WipeSteps
    BY DEF Init, ZeroFlag, WipeSteps, Passes
  <2>3. Clean
    BY <2>1, <2>2 DEF Clean
  <2>4. QED
    BY <2>3, ConstantsAssumption DEF Init, CleanInv
<1>2. HeldInv /\ CleanInv /\ [Next]_vars => CleanInv'
  BY CleanStep
<1>3. HeldInv /\ CleanInv => VerifiedUnlessFailed
  <2>1. ASSUME HeldInv, lockMu = NoReq, NEW r \in Requests PROVE pc[r] \notin Committed
    BY <2>1, OneHolder DEF HeldInv, IInv, Committed, HolderSteps, ConsentSteps
  <2>2. QED
    BY <2>1 DEF CleanInv, Clean, VerifiedUnlessFailed
<1>4. QED
  BY <1>1, <1>2, <1>3, HeldInvariance, PTL DEF Spec

-------------------------------------------------------------------------------
(* How long lockMu is held *)

\* How many steps UnlockBootloader has left, at most.
StepsLeft(step) ==
  CASE step = "verifyPIN"   -> 16 [] step = "validate"      -> 15 [] step = "disableVerity" -> 14
    [] step = "confirmVerity" -> 13 [] step = "record"      -> 12 [] step = "prepare"       -> 11
    [] step = "scrubBoot"   -> 10 [] step = "scrubRootfs"   -> 9  [] step = "scrubTop"      -> 8
    [] step = "mkdir"       -> 7  [] step = "scrubLib"      -> 6  [] step = "wipeVar"       -> 5
    [] step = "finish"      -> 4  [] step = "finishTop"     -> 3  [] step = "setBit"        -> 2
    [] step = "finalize"    -> 1  [] OTHER                  -> 0

\* The holder of lockMu is the only one who moves itself, and every step it takes
\* lets go of the mutex or leaves fewer steps to go: no failure, refusal or torn
\* pass sends UnlockBootloader back, so it holds the mutex for at most sixteen
\* steps of its own.  Only the death of the agent takes the mutex from it.
HolderAdvances ==
  [][\A r \in Requests :
       lockMu = r =>
         \/ lockMu' = NoReq /\ pc'[r] = "idle"
         \/ lockMu' = r /\ StepsLeft(pc'[r]) < StepsLeft(pc[r])
         \/ ~ UnlockBootloader(r) /\ lockMu' = r /\ pc'[r] = pc[r]]_vars

\* The bound on how long UnlockBootloader makes everybody else wait; that its
\* steps are taken is LockReleased's fairness.
THEOREM HoldsAreBounded == Spec => HolderAdvances
<1> DEFINE Moves(r) == \/ lockMu' = NoReq /\ pc'[r] = "idle"
                       \/ lockMu' = r /\ StepsLeft(pc'[r]) < StepsLeft(pc[r])
           Waits(r) == lockMu' = r /\ pc'[r] = pc[r]
<1>1. ASSUME IInv, [Next]_vars, NEW r \in Requests, lockMu = r
      PROVE  Moves(r) \/ (~ UnlockBootloader(r) /\ Waits(r))
  <2> USE DEF HolderSteps, ConsentSteps, WipeSteps, Passes
  <2>0. TypeOK /\ MutexInv /\ lockMu # NoReq /\ pc[r] \in HolderSteps
    BY <1>1, ConstantsAssumption DEF IInv, MutexInv
  <2>1. ASSUME UnlockBootloader(r) PROVE Moves(r)
    <3>1. ~ BeginUnlock(r)
      BY <2>0 DEF BeginUnlock, LockedCall
    <3>2. CASE VerifyPIN(r) \/ Validate(r) \/ DisableVerity(r) \/ ConfirmVerity(r) \/ Record(r)
      <4>1. \/ lockMu' = NoReq /\ pc' = [pc EXCEPT ![r] = "idle"]
            \/ lockMu' = lockMu /\ pc[r] = "verifyPIN" /\ pc' = [pc EXCEPT ![r] = "validate"]
            \/ lockMu' = lockMu /\ pc[r] = "validate" /\ pc' = [pc EXCEPT ![r] = "disableVerity"]
            \/ lockMu' = lockMu /\ pc[r] = "disableVerity" /\ pc' = [pc EXCEPT ![r] = "confirmVerity"]
            \/ lockMu' = lockMu /\ pc[r] = "confirmVerity" /\ pc' = [pc EXCEPT ![r] = "record"]
            \/ lockMu' = lockMu /\ pc[r] = "record" /\ pc' = [pc EXCEPT ![r] = "prepare"]
        BY <3>2 DEF VerifyPIN, Validate, DisableVerity, ConfirmVerity, Record, GoTo, Return
      <4>2. QED
        BY <1>1, <2>0, <4>1 DEF TypeOK, StepsLeft
    <3>3. CASE prepareDataWipe(r)
      <4>1. \/ lockMu' = NoReq /\ pc' = [pc EXCEPT ![r] = "idle"]
            \/ lockMu' = lockMu /\ pc[r] = "prepare" /\ pc' = [pc EXCEPT ![r] = "scrubBoot"]
            \/ lockMu' = lockMu /\ pc[r] = "scrubBoot" /\ pc' = [pc EXCEPT ![r] = "scrubRootfs"]
            \/ lockMu' = lockMu /\ pc[r] = "scrubRootfs" /\ pc' = [pc EXCEPT ![r] = "scrubTop"]
            \/ lockMu' = lockMu /\ pc[r] = "scrubTop" /\ pc' = [pc EXCEPT ![r] = "mkdir"]
            \/ lockMu' = lockMu /\ pc[r] = "mkdir" /\ pc' = [pc EXCEPT ![r] = "scrubLib"]
            \/ lockMu' = lockMu /\ pc[r] = "scrubLib" /\ pc' = [pc EXCEPT ![r] = "wipeVar"]
        BY <3>3 DEF prepareDataWipe, scrubBootArtifacts, CheckVolume, RemovePass, MkdirCustody, GoTo, Return
      <4>2. QED
        BY <1>1, <2>0, <4>1 DEF TypeOK, StepsLeft
    <3>4. CASE WipeVar(r) \/ finishDataWipe(r) \/ SetUnlockBit(r) \/ Finalize(r) \/ CallFails(r)
      <4>1. \/ lockMu' = NoReq /\ pc' = [pc EXCEPT ![r] = "idle"]
            \/ lockMu' = lockMu /\ pc[r] = "wipeVar" /\ pc' = [pc EXCEPT ![r] = "finish"]
            \/ lockMu' = lockMu /\ pc[r] = "finish" /\ pc' = [pc EXCEPT ![r] = "finishTop"]
            \/ lockMu' = lockMu /\ pc[r] = "finishTop" /\ pc' = [pc EXCEPT ![r] = "setBit"]
            \/ lockMu' = lockMu /\ pc[r] = "setBit" /\ pc' = [pc EXCEPT ![r] = "finalize"]
        BY <3>4 DEF WipeVar, finishDataWipe, CheckVolume, RemovePass, SetUnlockBit, Finalize, CallFails, GoTo, Return
      <4>2. QED
        BY <1>1, <2>0, <4>1 DEF TypeOK, StepsLeft
    <3>5. QED
      BY <2>1, <3>1, <3>2, <3>3, <3>4 DEF UnlockBootloader
  <2>2. ASSUME NEW q \in Requests \ {r}, Request(q) PROVE Waits(r)
    <3>1. pc[q] \notin HolderSteps
      BY <1>1, <2>0 DEF MutexInv
    <3>2. ~ UnlockBootloader(q)
      BY <2>0, <3>1 DEF UnlockBootloader, BeginUnlock, LockedCall, VerifyPIN, Validate, DisableVerity, ConfirmVerity,
         Record, prepareDataWipe, scrubBootArtifacts, CheckVolume, RemovePass, MkdirCustody, WipeVar, finishDataWipe,
         SetUnlockBit, Finalize, CallFails
    <3>3. ArmVerifyPIN(q)
      BY <2>0, <2>2, <3>2 DEF Request, ArmCheckLocked, ArmUnlockForOwner, Disarm, LockState, LockedCall
    <3>4. QED
      BY <1>1, <2>0, <2>2, <3>3 DEF ArmVerifyPIN, TypeOK
  <2>3. ASSUME Request(r) PROVE UnlockBootloader(r)
    BY <2>0, <2>3 DEF Request, ArmCheckLocked, ArmVerifyPIN, ArmUnlockForOwner, Disarm, LockState, LockedCall
  <2>4. CASE PowerLoss \/ AgentRestart
    BY <2>4 DEF PowerLoss, AgentRestart, NoRequests
  <2>5. ASSUME Reboot \/ Writeback \/ CorruptFlag \/ UserActivity \/ UNCHANGED vars PROVE Waits(r)
    BY <1>1, <2>0, <2>5 DEF Reboot, Writeback, CorruptFlag, UserActivity, vars
  <2>6. Moves(r) \/ Waits(r)
    BY <1>1, <2>1, <2>2, <2>3, <2>4, <2>5 DEF Next, Environment
  <2> HIDE DEF Moves, Waits
  <2>7. QED
    BY <2>1, <2>6
<1>2. IInv /\ [Next]_vars =>
        [\A r \in Requests :
           lockMu = r =>
             \/ lockMu' = NoReq /\ pc'[r] = "idle"
             \/ lockMu' = r /\ StepsLeft(pc'[r]) < StepsLeft(pc[r])
             \/ ~ UnlockBootloader(r) /\ lockMu' = r /\ pc'[r] = pc[r]]_vars
  BY <1>1
<1>3. QED
  BY Invariance, <1>2, PTL DEF Spec, HolderAdvances

-------------------------------------------------------------------------------
(* Why an interrupted unlock can be completed *)

\* Whatever interrupted the attempt that recorded it, a recorded transaction, as
\* the agent reads it or as a power loss brings it back, is one UnlockBootloader
\* resumes: it names an owner, who has proved the PIN, so none is asked for, the
\* TPM agrees with the phase, and the installed volume passes validation.
Resumable ==
  \A g \in {flag, flagDisk} :
    g.phase # "" =>
      /\ g.armed /\ g.owner \in Owners \cap granted \cap proved
      /\ verityOff /\ Required \subseteq data[OwnVolume]

\* No recorded transaction is stuck.
THEOREM RecordedIsResumable == Spec => []Resumable
<1>1. IInv => Resumable
  <2> SUFFICES ASSUME IInv, NEW g \in {flag, flagDisk}, g.phase # "" PROVE
                 /\ g.armed /\ g.owner \in Owners \cap granted \cap proved
                 /\ verityOff /\ Required \subseteq data[OwnVolume]
    BY DEF Resumable
  <2>1. g.armed /\ g.owner \in granted \cap proved /\ verityOff
    BY DEF IInv, ConsentInv, Backed
  <2>2. g.owner \in Owners
    BY <2>1 DEF IInv, TypeOK
  <2>3. QED
    BY <2>1, <2>2 DEF IInv, VolumeInv, RetryFindsVolume
<1>2. QED
  BY Invariance, <1>1, PTL

\* On the installed volume a step of a wipe that meets no failure leads to the next
\* step, and the last one ends with the bootloader unlocked: however torn the
\* volume is that earlier attempts left, no check of prepareDataWipe or
\* finishDataWipe refuses it.
WipeGoesOn ==
  [][\A r \in Requests :
       (Wiping(r) /\ mounted = OwnVolume /\ UnlockBootloader(r) /\ faults' = faults) =>
         \/ pc'[r] \in WipeSteps /\ StepsLeft(pc'[r]) < StepsLeft(pc[r])
         \/ pc[r] = "finalize" /\ ~ locked']_vars

\* The safety half of ResumeCompletes: eleven steps and the bit is flipped.
THEOREM WipesGoOn == Spec => WipeGoesOn
<1> DEFINE Goes(r) == pc'[r] \in WipeSteps /\ StepsLeft(pc'[r]) < StepsLeft(pc[r])
           Ends(r) == pc[r] = "finalize" /\ ~ locked'
<1>1. ASSUME IInv, NEW r \in Requests, Wiping(r), mounted = OwnVolume, UnlockBootloader(r), faults' = faults
      PROVE  Goes(r) \/ Ends(r)
  <2>1. faults \in Int /\ faults' # faults - 1 /\ pc \in [Requests -> Steps]
    BY <1>1, ConstantsAssumption DEF IInv, TypeOK
  <2>2. ~ Spend(1)
    BY <2>1 DEF Spend
  <2>3. validateDataDir
    BY <1>1 DEF IInv, VolumeInv, RetryFindsVolume, validateDataDir
  <2>4. pc[r] \in WipeSteps /\ pc[r] \in HolderSteps
    BY <1>1 DEF Wiping, HolderSteps
  <2>5. CASE Finalize(r)
    BY <1>1, <2>5 DEF IInv, KeptInv, Finalize
  <2>6. CASE prepareDataWipe(r)
    <3>1. \/ pc[r] = "prepare" /\ pc'[r] = "scrubBoot"
          \/ pc[r] = "scrubBoot" /\ pc'[r] = "scrubRootfs"
          \/ pc[r] = "scrubRootfs" /\ pc'[r] = "scrubTop"
          \/ pc[r] = "scrubTop" /\ pc'[r] = "mkdir"
          \/ pc[r] = "mkdir" /\ pc'[r] = "scrubLib"
          \/ pc[r] = "scrubLib" /\ pc'[r] = "wipeVar"
      BY <2>1, <2>2, <2>3, <2>6
      DEF prepareDataWipe, scrubBootArtifacts, CheckVolume, RemovePass, MkdirCustody, GoTo
    <3>2. QED
      BY <3>1 DEF WipeSteps, Passes, StepsLeft
  <2>7. CASE WipeVar(r) \/ finishDataWipe(r) \/ SetUnlockBit(r)
    <3>1. \/ pc[r] = "wipeVar" /\ pc'[r] = "finish"
          \/ pc[r] = "finish" /\ pc'[r] = "finishTop"
          \/ pc[r] = "finishTop" /\ pc'[r] = "setBit"
          \/ pc[r] = "setBit" /\ pc'[r] = "finalize"
      BY <2>1, <2>2, <2>3, <2>7 DEF WipeVar, finishDataWipe, CheckVolume, RemovePass, SetUnlockBit, GoTo
    <3>2. QED
      BY <3>1 DEF WipeSteps, Passes, StepsLeft
  <2>8. ~ CallFails(r)
    BY <2>2 DEF CallFails
  <2>9. ~ (BeginUnlock(r) \/ VerifyPIN(r) \/ Validate(r) \/ DisableVerity(r) \/ ConfirmVerity(r) \/ Record(r))
    BY <2>4 DEF WipeSteps, Passes, BeginUnlock, LockedCall, VerifyPIN, Validate, DisableVerity, ConfirmVerity, Record
  <2>10. QED
    BY <1>1, <2>5, <2>6, <2>7, <2>8, <2>9 DEF UnlockBootloader
<1>2. IInv /\ [Next]_vars =>
        [\A r \in Requests :
           (Wiping(r) /\ mounted = OwnVolume /\ UnlockBootloader(r) /\ faults' = faults) =>
             \/ pc'[r] \in WipeSteps /\ StepsLeft(pc'[r]) < StepsLeft(pc[r])
             \/ pc[r] = "finalize" /\ ~ locked']_vars
  BY <1>1
<1>3. QED
  BY Invariance, <1>2, PTL DEF Spec, WipeGoesOn
=============================================================================
