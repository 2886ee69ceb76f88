--------------------------- MODULE UnlockRefinement ---------------------------
(***************************************************************************)
(* Unlock implements UnlockTx: its initial states map to initial states    *)
(* and each of its steps to a step of the abstract transaction or to a     *)
(* stutter.  Besides IInv the mapping needs one fact of its own, CopyFresh:*)
(* the flag a request is about to record is still the one everyone reads.  *)
(***************************************************************************)
EXTENDS UnlockProofs

CopyFresh ==
  "unreadable" \notin seen =>
    \A r \in Requests : pc[r] = "record" => f[r] = flag /\ flag.phase = ""

\* Between ConfirmVerity's second look at the consent and the write that records
\* it, nothing but damage to the file changes the flag.
LEMMA CopyFreshStep ==
  ASSUME IInv, CopyFresh, [Next]_vars PROVE CopyFresh'
<1>0. TypeOK /\ MutexInv
  BY DEF IInv
<1> SUFFICES ASSUME "unreadable" \notin seen', NEW r \in Requests, pc'[r] = "record"
             PROVE  f'[r] = flag' /\ flag'.phase = ""
  BY DEF CopyFresh
<1>1. CASE UNCHANGED <<pc, f, flag, seen>>
  BY <1>1 DEF CopyFresh
<1>2. ASSUME NEW q \in Requests, ConfirmVerity(q) PROVE f'[r] = flag' /\ flag'.phase = ""
  <2>1. CASE q = r
    BY <1>0, <1>2, <2>1 DEF ConfirmVerity, GoTo, Return, SameConsent, TypeOK
  <2>2. CASE q # r
    BY <1>0, <1>2, <2>2 DEF ConfirmVerity, GoTo, Return, CopyFresh, TypeOK
  <2>3. QED
    BY <2>1, <2>2
<1>4. ASSUME NEW q \in Requests, UnlockBootloader(q), ~ ConfirmVerity(q), ~ BeginUnlock(q)
      PROVE  f'[r] = flag' /\ flag'.phase = ""
  <2>1. pc[q] \in HolderSteps /\ pc'[q] # "record" /\ \E s \in Steps : pc' = [pc EXCEPT ![q] = s]
    <3> USE <1>0 DEF HolderSteps, ConsentSteps, WipeSteps, Passes, Steps, GoTo, Return, TypeOK
    <3>1. CASE VerifyPIN(q) \/ Validate(q) \/ DisableVerity(q)
      BY <3>1 DEF VerifyPIN, Validate, DisableVerity
    <3>2. CASE Record(q)
      BY <3>2 DEF Record
    <3>3. CASE prepareDataWipe(q) \/ finishDataWipe(q)
      BY <3>3 DEF prepareDataWipe, scrubBootArtifacts, finishDataWipe, CheckVolume, RemovePass, MkdirCustody
    <3>4. CASE WipeVar(q) \/ SetUnlockBit(q) \/ Finalize(q) \/ CallFails(q)
      BY <3>4 DEF WipeVar, SetUnlockBit, Finalize, CallFails
    <3>5. QED
      BY <1>4, <3>1, <3>2, <3>3, <3>4 DEF UnlockBootloader
  <2>2. lockMu = q /\ q # r /\ pc[r] = "record"
    BY <1>0, <2>1 DEF MutexInv, TypeOK
  <2>3. lockMu = r
    BY <1>0, <2>2 DEF MutexInv, HolderSteps, ConsentSteps
  <2>4. QED
    BY <2>2, <2>3
<1>5. ASSUME lockMu = NoReq PROVE pc[r] # "record"
  BY <1>0, <1>5, ConstantsAssumption DEF MutexInv, HolderSteps, ConsentSteps
<1>6. ASSUME NEW q \in Requests, BeginUnlock(q) PROVE FALSE
  BY <1>0, <1>5, <1>6 DEF BeginUnlock, LockedCall, TypeOK
<1>7. ASSUME NEW q \in Requests, NEW o \in Owners, ArmCheckLocked(q, o) PROVE FALSE
  BY <1>0, <1>5, <1>7 DEF ArmCheckLocked, LockedCall, TypeOK
<1>8. ASSUME NEW q \in Requests, ArmVerifyPIN(q) PROVE f'[r] = flag' /\ flag'.phase = ""
  BY <1>0, <1>8 DEF ArmVerifyPIN, CopyFresh, TypeOK
<1>9. ASSUME NEW q \in Requests, ArmUnlockForOwner(q) PROVE FALSE
  BY <1>0, <1>5, <1>9 DEF ArmUnlockForOwner, TypeOK
<1>10. ASSUME NEW q \in Requests, Disarm(q) \/ LockState(q) PROVE FALSE
  BY <1>0, <1>5, <1>10 DEF Disarm, LockState, LockedCall, TypeOK
<1>11. CASE Environment
  BY <1>0, <1>1, <1>11
  DEF Environment, PowerLoss, AgentRestart, Reboot, Writeback, CorruptFlag, UserActivity, NoRequests
<1>12. QED
  BY <1>1, <1>2, <1>4, <1>6, <1>7, <1>8, <1>9, <1>10, <1>11 DEF Next, Request, vars

-------------------------------------------------------------------------------
(* The mapping *)

StageOf(g) == IF ~ g.armed THEN "none" ELSE IF g.phase = "" THEN "armed" ELSE "recorded"
OwnerOf(g) == IF g.armed THEN g.owner ELSE NoOwner

\* What the mapping says of a flag, field by field, and of unlockFlag{}.
LEMMA MappedFields ==
  /\ \A g : /\ TxOf(g).stage = StageOf(g) /\ TxOf(g).owner = OwnerOf(g)
            /\ "unreadable" \notin seen => TxOf(g).count = g.count
  /\ TxOf(ZeroFlag) = Tx!NoTx
BY DEF TxOf, StageOf, OwnerOf, ZeroFlag, Tx!NoTx

\* A flag that was read maps to a transaction that was read.
LEMMA MappedRead ==
  ASSUME NEW g, NEW h, NEW w, Rewrite(g, h, w)
  PROVE  Tx!Read(TxOf(g))
<1>1. CASE g = flag
  <2>1. "unreadable" \in seen' <=> "unreadable" \in seen
    BY <1>1 DEF Rewrite, Pick
  <2>2. QED
    BY <1>1, <2>1 DEF Tx!Read
<1>2. CASE g # flag
  <2>1. g = ZeroFlag /\ "unreadable" \in seen'
    BY <1>2 DEF Rewrite, readUnlockFlag, Pick
  <2>2. TxOf(g) = Tx!NoTx
    BY <2>1, MappedFields
  <2>3. QED
    BY <2>1, <2>2 DEF Tx!Read
<1>3. QED
  BY <1>1, <1>2

\* A flag that was written maps to a transaction that was written, whatever
\* became of the write.
LEMMA MappedWrite ==
  ASSUME NEW g, NEW h, NEW w, Rewrite(g, h, w), NEW n,
         "unreadable" \notin seen' => n = h.count
  PROVE  Tx!Write([stage |-> StageOf(h), owner |-> OwnerOf(h), count |-> n], w)
<1> DEFINE t == [stage |-> StageOf(h), owner |-> OwnerOf(h), count |-> n]
<1>1. "unreadable" \in seen => "unreadable" \in seen'
  BY DEF Rewrite
<1>2. TxOf(flag)' = [stage |-> StageOf(flag'), owner |-> OwnerOf(flag'),
                     count |-> IF "unreadable" \in seen' THEN 0 ELSE flag'.count]
  BY DEF TxOf, StageOf, OwnerOf
<1>3. TxOf(flagDisk)' = [stage |-> StageOf(flagDisk'), owner |-> OwnerOf(flagDisk'),
                         count |-> IF "unreadable" \in seen' THEN 0 ELSE flagDisk'.count]
  BY DEF TxOf, StageOf, OwnerOf
<1>4. ASSUME NEW k
      PROVE  Tx!Known(TxOf(k)) =
               [stage |-> StageOf(k), owner |-> OwnerOf(k),
                count |-> IF "unreadable" \in seen' THEN 0 ELSE k.count]
  BY <1>1 DEF Tx!Known, TxOf, StageOf, OwnerOf
<1>5. Tx!Known(t) = [stage |-> StageOf(h), owner |-> OwnerOf(h),
                     count |-> IF "unreadable" \in seen' THEN 0 ELSE h.count]
  BY DEF Tx!Known
<1> HIDE DEF t
<1>6. TxOf(flag)' = Tx!Known(IF w = "lost" THEN TxOf(flag) ELSE t)
  BY <1>2, <1>4, <1>5 DEF Rewrite, writeUnlockFlag
<1>7. TxOf(flagDisk)' = Tx!Known(IF w = "ok" THEN t ELSE TxOf(flagDisk))
  BY <1>3, <1>4, <1>5 DEF Rewrite, writeUnlockFlag
<1>8. QED
  BY <1>6, <1>7 DEF Tx!Write, t

\* Arming maps to opening.
LEMMA ArmOpens ==
  ASSUME IInv, NEW r \in Requests, ArmUnlockForOwner(r)
  PROVE  (\E o \in Owners : Tx!Open(o)) \/ UNCHANGED Tx!txVars
<1>0. TypeOK /\ MutexInv /\ who[r] \in Owners
  BY DEF IInv, MutexInv, ArmUnlockForOwner, ArmSteps
<1>1. CASE UNCHANGED <<flag, flagDisk, faults, seen, granted, proved>>
  BY <1>1 DEF ArmUnlockForOwner, Tx!txVars, TxOf
<1>2. CASE \E g \in {flag, ZeroFlag}, w \in Writes :
             /\ ~ (g.armed /\ g.phase # "")
             /\ Rewrite(g, armedFor(g, who[r]), w)
             /\ granted' = IF w = "ok" THEN {who[r]}
                           ELSE granted \cup Pick(w = "lost", {}, {who[r]})
             /\ proved' = IF w = "ok" THEN {} ELSE proved
  <2>1. PICK g \in {flag, ZeroFlag}, w \in Writes :
             /\ ~ (g.armed /\ g.phase # "")
             /\ Rewrite(g, armedFor(g, who[r]), w)
             /\ granted' = IF w = "ok" THEN {who[r]}
                           ELSE granted \cup Pick(w = "lost", {}, {who[r]})
             /\ proved' = IF w = "ok" THEN {} ELSE proved
    BY <1>2
  <2> DEFINE t == TxOf(g)
             h == armedFor(g, who[r])
  <2>2. Tx!Read(t)
    BY <2>1, MappedRead
  <2>3. g \in Flags
    BY <1>0, ZeroFlagType DEF TypeOK
  <2>4. h.armed /\ h.owner = who[r] /\ h.phase = "" /\ h.count = g.count
    BY <1>0, <2>3, ArmedFlag
  <2>5. "unreadable" \notin seen' => t.count = h.count
    BY <2>1, <2>4 DEF Rewrite, TxOf
  <2>6. Tx!Write([stage |-> StageOf(h), owner |-> OwnerOf(h), count |-> t.count], w)
    BY <2>1, <2>5, MappedWrite
  <2>7. StageOf(h) = "armed" /\ OwnerOf(h) = who[r]
    BY <2>4 DEF StageOf, OwnerOf
  <2>8. t \in {TxOf(flag), Tx!NoTx} /\ t.stage # "recorded"
    BY <2>1, MappedFields DEF StageOf
  <2>9. /\ granted' = IF w = "ok" THEN {who[r]} ELSE IF w = "lost" THEN granted ELSE granted \cup {who[r]}
        /\ UNCHANGED <<data[OwnVolume] \cap UserData, locked>>
    BY <2>1 DEF Pick, ArmUnlockForOwner
  <2>10. w \in Tx!Outcomes
    BY DEF Writes, Tx!Outcomes
  <2> HIDE DEF t, h
  <2>11. Tx!Open(who[r])
    BY <2>1, <2>2, <2>6, <2>7, <2>8, <2>9, <2>10 DEF Tx!Open
  <2>12. QED
    BY <1>0, <2>11
<1>3. QED
  BY <1>1, <1>2 DEF ArmUnlockForOwner

\* Cancelling, settling and finishing map to closing.
LEMMA ClearCloses ==
  ASSUME IInv, NEW g \in {flag, ZeroFlag}, NEW w \in Writes,
         g.phase = "" \/ ~ locked, Rewrite(g, finalized(g), w), EndGrant(w),
         UNCHANGED <<data, locked>>
  PROVE  Tx!Close
<1> DEFINE t == TxOf(g)
           h == finalized(g)
<1>0. g \in Flags /\ (g.phase # "" => g.armed)
  <2>1. flag \in Flags /\ (flag.phase # "" => flag.armed)
    BY DEF IInv, TypeOK, ConsentInv, Backed
  <2>2. ZeroFlag.phase = ""
    BY DEF ZeroFlag
  <2>3. QED
    BY <2>1, <2>2, ZeroFlagType
<1>1. Tx!Read(t)
  BY MappedRead
<1>2. t.stage = "recorded" <=> g.phase # ""
  BY <1>0, MappedFields DEF StageOf
<1> DEFINE n == IF t.stage = "recorded" THEN t.count + 1 ELSE t.count
<1>3. "unreadable" \notin seen' => t.count = g.count
  BY MappedFields DEF Rewrite
<1>4. h.count = IF g.phase # "" THEN g.count + 1 ELSE g.count
  BY DEF finalized
<1>5. "unreadable" \notin seen' => n = h.count
  <2> HIDE DEF t, h
  <2>1. QED
    BY <1>2, <1>3, <1>4
<1>6. StageOf(h) = "none" /\ OwnerOf(h) = NoOwner
  <2>1. ~ h.armed
    BY <1>0, FinalizedFlag
  <2>2. QED
    BY <2>1 DEF StageOf, OwnerOf
<1>7. Tx!Write([stage |-> StageOf(h), owner |-> OwnerOf(h), count |-> n], w)
  BY <1>5, MappedWrite
<1>8. t \in {TxOf(flag), Tx!NoTx}
  BY MappedFields
<1>9. w \in Tx!Outcomes
  BY DEF Writes, Tx!Outcomes
<1>10. UNCHANGED <<data[OwnVolume] \cap UserData, locked>>
  OBVIOUS
<1> HIDE DEF t, h
<1>11. QED
  BY <1>1, <1>2, <1>6, <1>7, <1>8, <1>9, <1>10 DEF Tx!Close, Tx!CloseAs, EndGrant

\* A request past the point of no return has what the abstract erasure asks for.
LEMMA WipingMayErase ==
  ASSUME IInv, NEW r \in Requests, pc[r] \in WipeSteps
  PROVE  Tx!MayErase
<1>1. f[r].owner \in granted \cap proved
  BY DEF IInv, ConsentInv, CopyBacked, HolderSteps, WipeSteps, Passes
<1>2. "unreadable" \notin seen => Recorded(flag)
  BY DEF IInv, CountInv, WipeIsRecorded, Wiping
<1>3. Recorded(flag) => TxOf(flag).stage = "recorded"
  BY MappedFields DEF Recorded, StageOf
<1>4. QED
  BY <1>1, <1>2, <1>3 DEF Tx!MayErase

\* The steps of UnlockBootloader, one by one.
LEMMA UnlockMaps ==
  ASSUME IInv, CopyFresh, NEW r \in Requests, UnlockBootloader(r)
  PROVE  \/ \E o \in Owners : Tx!Prove(o) \/ Tx!Record(o)
         \/ Tx!Close \/ Tx!Erase \/ Tx!Flip \/ UNCHANGED Tx!txVars
<1>0. TypeOK /\ MutexInv /\ ConsentInv /\ VolumeInv
  BY DEF IInv
<1>1. ASSUME UNCHANGED <<flag, flagDisk, seen, granted, proved, data, locked>>
      PROVE  UNCHANGED Tx!txVars
  BY <1>1 DEF Tx!txVars, TxOf
<1>2. CASE \/ BeginUnlock(r) \/ Validate(r) \/ DisableVerity(r) \/ ConfirmVerity(r) \/ CallFails(r)
           \/ CheckVolume(r, "prepare", "scrubBoot") \/ CheckVolume(r, "finish", "finishTop")
  BY <1>1, <1>2 DEF BeginUnlock, Validate, DisableVerity, ConfirmVerity, CallFails, CheckVolume
<1>3. CASE VerifyPIN(r)
  <2>1. CASE UNCHANGED proved
    BY <1>1, <1>3, <2>1 DEF VerifyPIN
  <2>2. CASE proved' = proved \cup {f[r].owner}
    <3>1. f[r].owner \in granted /\ granted \subseteq Owners
      BY <1>0, <1>3 DEF VerifyPIN, ConsentInv, CopyBacked, HolderSteps, ConsentSteps, TypeOK
    <3>2. UNCHANGED <<TxOf(flag), TxOf(flagDisk), "unreadable" \notin seen, granted,
                      data[OwnVolume] \cap UserData, locked>>
      BY <1>3 DEF VerifyPIN, TxOf
    <3>3. QED
      BY <2>2, <3>1, <3>2 DEF Tx!Prove
  <2>3. QED
    BY <1>3, <2>1, <2>2 DEF VerifyPIN
<1>4. CASE Record(r)
  <2> DEFINE h == [f[r] EXCEPT !.phase = "verity-off"]
             o == f[r].owner
  <2>1. PICK w \in Writes : Rewrite(flag, h, w)
    BY <1>4 DEF Record
  <2>2. pc[r] = "record" /\ UNCHANGED <<granted, proved, data, locked>>
    BY <1>4 DEF Record
  <2>3. f[r] \in Flags /\ f[r].armed /\ o \in granted \cap proved /\ granted \subseteq Owners
    BY <1>0, <2>2 DEF TypeOK, ConsentInv, CopyBacked, HolderSteps, ConsentSteps
  <2>4. h.armed /\ h.owner = o /\ h.phase = "verity-off" /\ h.count = f[r].count
    BY <2>3, RecordedFlag
  <2>5. "unreadable" \in seen' <=> "unreadable" \in seen
    BY <2>1 DEF Rewrite, Pick
  <2>6. "unreadable" \notin seen => f[r] = flag /\ flag.phase = ""
    BY <2>2 DEF CopyFresh
  <2>7. "unreadable" \notin seen' => TxOf(flag).count = h.count
    BY <2>4, <2>5, <2>6, MappedFields
  <2>8. "unreadable" \notin seen => TxOf(flag).stage = "armed" /\ TxOf(flag).owner = o
    BY <2>3, <2>6, MappedFields DEF StageOf, OwnerOf
  <2>9. StageOf(h) = "recorded" /\ OwnerOf(h) = o
    BY <2>4 DEF StageOf, OwnerOf
  <2>10. Tx!Write([stage |-> StageOf(h), owner |-> OwnerOf(h), count |-> TxOf(flag).count], w)
    BY <2>1, <2>7, MappedWrite
  <2>11. w \in Tx!Outcomes /\ UNCHANGED <<"unreadable" \notin seen, data[OwnVolume] \cap UserData>>
    BY <2>2, <2>5 DEF Writes, Tx!Outcomes
  <2> HIDE DEF h, o
  <2>12. Tx!Record(o)
    BY <2>2, <2>3, <2>8, <2>9, <2>10, <2>11 DEF Tx!Record
  <2>13. QED
    BY <2>3, <2>12
<1>5. ASSUME pc[r] \in WipeSteps, data'[OwnVolume] \subseteq data[OwnVolume],
             UNCHANGED <<flag, flagDisk, seen, granted, proved, locked>>
      PROVE  Tx!Erase
  <2>1. UNCHANGED <<TxOf(flag), TxOf(flagDisk), "unreadable" \notin seen>>
    BY <1>5 DEF TxOf
  <2>2. (data[OwnVolume] \cap UserData)' \in SUBSET (data[OwnVolume] \cap UserData)
    BY <1>5
  <2>3. QED
    BY <1>5, <2>1, <2>2, WipingMayErase DEF Tx!Erase
<1>6. ASSUME NEW pass \in Passes, NEW next, RemovePass(r, pass, next) PROVE Tx!Erase
  <2>1. pc[r] \in WipeSteps /\ data'[OwnVolume] \subseteq data[OwnVolume]
    BY <1>6, PassStep DEF WipeSteps
  <2>2. QED
    BY <1>5, <1>6, <2>1 DEF RemovePass
<1>7. CASE WipeVar(r)
  <2>1. mounted = OwnVolume
    BY <1>0, <1>7 DEF WipeVar, VolumeInv, WipeProgress, AfterCheck, WipeSteps
  <2>2. data'[OwnVolume] \subseteq data[OwnVolume]
    BY <1>0, <1>7, <2>1 DEF WipeVar, TypeOK
  <2>3. QED
    BY <1>5, <1>7, <2>2 DEF WipeVar, WipeSteps
<1>8. CASE MkdirCustody(r)
  <2>1. data'[OwnVolume] \cap UserData = data[OwnVolume] \cap UserData
    BY <1>0, <1>8, ConstantsAssumption DEF MkdirCustody, TypeOK, UserData
  <2>2. QED
    BY <1>8, <2>1 DEF MkdirCustody, Tx!txVars, TxOf
<1>9. CASE SetUnlockBit(r)
  <2>1. data[OwnVolume] \cap UserData = {} /\ Tx!MayErase
    BY <1>0, <1>9, WipingMayErase DEF SetUnlockBit, VolumeInv, WipeProgress, WipeSteps
  <2>2. UNCHANGED <<TxOf(flag), TxOf(flagDisk), "unreadable" \notin seen, granted, proved,
                    data[OwnVolume] \cap UserData>> /\ locked' = FALSE
    BY <1>9 DEF SetUnlockBit, TxOf
  <2>3. QED
    BY <2>1, <2>2 DEF Tx!Flip
<1>10. CASE Finalize(r)
  <2>1. ~ locked
    BY <1>10 DEF Finalize, IInv, KeptInv
  <2>2. PICK g \in {flag, ZeroFlag}, w \in Writes : Rewrite(g, finalized(g), w) /\ EndGrant(w)
    BY <1>10 DEF Finalize
  <2>3. QED
    BY <1>10, <2>1, <2>2, ClearCloses DEF Finalize
<1>11. QED
  BY <1>2, <1>3, <1>4, <1>6, <1>7, <1>8, <1>9, <1>10
  DEF UnlockBootloader, prepareDataWipe, scrubBootArtifacts, finishDataWipe, Passes

\* What a crash leaves on the installed volume is part of what an erasure leaves.
LEMMA CrashErases ==
  ASSUME IInv, data' \in CrashData
  PROVE  \/ UNCHANGED (data[OwnVolume] \cap UserData)
         \/ /\ Tx!MayErase
            /\ (data[OwnVolume] \cap UserData)' \in SUBSET (data[OwnVolume] \cap UserData)
<1>1. CASE data' = data
  BY <1>1
<1>2. CASE data' # data
  <2>1. /\ lockMu \in Requests /\ pc[lockMu] \in Passes
        /\ \E gone : data' = [data EXCEPT ![mounted] = @ \ gone]
    BY <1>2 DEF CrashData
  <2>2. Tx!MayErase
    BY <2>1, WipingMayErase DEF WipeSteps
  <2>3. data'[OwnVolume] \subseteq data[OwnVolume]
    BY <2>1 DEF IInv, TypeOK
  <2>4. QED
    BY <2>2, <2>3
<1>3. QED
  BY <1>1, <1>2

\* Crashes, reboots, writeback, damage and the use of the installed system.
LEMMA EnvironmentMaps ==
  ASSUME IInv, Environment
  PROVE  \/ Tx!Erase \/ Tx!PowerLoss \/ Tx!Sync \/ Tx!Damage \/ Tx!Use
         \/ UNCHANGED Tx!txVars
<1>0. TypeOK
  BY DEF IInv
<1>1. CASE PowerLoss
  <2>1. TxOf(flag)' = TxOf(flagDisk) /\ UNCHANGED <<TxOf(flagDisk), "unreadable" \notin seen, granted, proved, locked>>
    BY <1>1 DEF PowerLoss, TxOf
  <2>2. (data[OwnVolume] \cap UserData)' \in
          IF Tx!MayErase THEN SUBSET (data[OwnVolume] \cap UserData) ELSE {data[OwnVolume] \cap UserData}
    BY <1>1, CrashErases DEF PowerLoss
  <2>3. QED
    BY <2>1, <2>2 DEF Tx!PowerLoss
<1>2. CASE AgentRestart
  <2>1. UNCHANGED <<TxOf(flag), TxOf(flagDisk), "unreadable" \notin seen, granted, proved, locked>>
    BY <1>2 DEF AgentRestart, TxOf
  <2>2. QED
    BY <1>2, <2>1, CrashErases DEF AgentRestart, Tx!Erase, Tx!txVars
<1>3. CASE Reboot \/ Writeback
  <2>1. /\ TxOf(flagDisk)' = TxOf(flag)
        /\ UNCHANGED <<TxOf(flag), "unreadable" \notin seen, granted, proved,
                       data[OwnVolume] \cap UserData, locked>>
    BY <1>3 DEF Reboot, Writeback, TxOf
  <2>2. QED
    BY <2>1 DEF Tx!Sync
<1>4. CASE CorruptFlag
  <2>1. "unreadable" \in seen' /\ flag' = ZeroFlag /\ flagDisk' = ZeroFlag
    BY <1>4 DEF CorruptFlag
  <2>2. TxOf(flag)' = Tx!NoTx /\ TxOf(flagDisk)' = Tx!NoTx
    BY <2>1 DEF TxOf, ZeroFlag, Tx!NoTx
  <2>3. UNCHANGED <<granted, proved, data[OwnVolume] \cap UserData, locked>>
    BY <1>4 DEF CorruptFlag
  <2>4. QED
    BY <2>1, <2>2, <2>3 DEF Tx!Damage
<1>5. CASE UserActivity
  <2>1. data'[OwnVolume] \cap UserData = UserData
    BY <1>0, <1>5, ConstantsAssumption DEF UserActivity, TypeOK, Paths, UserData
  <2>2. UNCHANGED <<TxOf(flag), TxOf(flagDisk), "unreadable" \notin seen, granted, proved, locked>>
    BY <1>5 DEF UserActivity, TxOf
  <2>3. QED
    BY <2>1, <2>2 DEF Tx!Use
<1>6. QED
  BY <1>1, <1>2, <1>3, <1>4, <1>5 DEF Environment

\* Every step maps to a step of the abstract transaction or to a stutter.
LEMMA StepMaps ==
  ASSUME IInv, CopyFresh, [Next]_vars PROVE [Tx!TxNext]_(Tx!txVars)
<1>1. CASE UNCHANGED vars
  BY <1>1 DEF vars, Tx!txVars, TxOf
<1>2. ASSUME NEW r \in Requests, (\E o \in Owners : ArmCheckLocked(r, o)) \/ ArmVerifyPIN(r)
      PROVE  UNCHANGED Tx!txVars
  BY <1>2 DEF ArmCheckLocked, ArmVerifyPIN, Tx!txVars, TxOf
<1>3. ASSUME NEW r \in Requests, Disarm(r) PROVE Tx!Close
  BY <1>3, ClearCloses DEF Disarm
<1>4. ASSUME NEW r \in Requests, LockState(r) PROVE Tx!Close
  BY <1>4, ClearCloses DEF LockState
<1>5. QED
  BY <1>1, <1>2, <1>3, <1>4, ArmOpens, UnlockMaps, EnvironmentMaps
  DEF Next, Request, Tx!TxNext

\* lock.go and data_wipe.go implement the abstract unlock transaction, for every
\* set of requests, owners and volumes and any number of faults.
THEOREM UnlockIsTransaction == Spec => ImplementsTx
<1>1. Init => Tx!TxInit /\ CopyFresh
  <2> SUFFICES ASSUME Init PROVE Tx!TxInit /\ CopyFresh
    OBVIOUS
  <2>1. TxOf(flag) = Tx!NoTx /\ TxOf(flagDisk) = Tx!NoTx /\ ("unreadable" \notin seen) = TRUE
    BY MappedFields DEF Init
  <2>2. data[OwnVolume] \cap UserData = UserData
    BY ConstantsAssumption DEF Init, Paths, UserData
  <2>3. CopyFresh
    BY DEF Init, CopyFresh
  <2>4. QED
    BY <2>1, <2>2, <2>3 DEF Init, Tx!TxInit
<1>2. IInv /\ CopyFresh /\ [Next]_vars => CopyFresh'
  BY CopyFreshStep
<1>3. IInv /\ CopyFresh /\ [Next]_vars => [Tx!TxNext]_(Tx!txVars)
  BY StepMaps
<1>4. QED
  BY Invariance, <1>1, <1>2, <1>3, PTL DEF Spec, ImplementsTx, Tx!TxSpec
===============================================================================
