-------------------------------- MODULE Unlock --------------------------------
(***************************************************************************)
(* The bootloader-unlock transaction of sinty-recovery: the ESP consent    *)
(* flag and its mutex (internal/recovery/lock.go), the data wipe           *)
(* (data_wipe.go), the TPM primitives behind the crypto seam               *)
(* (crypto_seam.go, crypto_sintykey.go) and the HTTP handlers that reach   *)
(* them (serve.go).                                                        *)
(*                                                                         *)
(* Requests are the handler goroutines of the agent that is running: the   *)
(* runtime policy daemon when the installed system is booted, the recovery *)
(* agent when the recovery image is.  The flag file, the TPM bits and the  *)
(* data volumes outlive both.  A step of a request is what the code does   *)
(* between two points at which a crash or a failing call leaves a          *)
(* different state behind.  A refusal that changes nothing is not a step.  *)
(***************************************************************************)
EXTENDS Integers, FiniteSets, DataDir

CONSTANTS
  Requests,    \* handler goroutines
  NoReq,       \* nobody holds lockMu
  Owners,      \* accounts whose uid is at least 1000
  NoOwner,     \* owner_uid 0
  Volumes,     \* volumes that may be mounted as atom-data in recovery
  OwnVolume,   \* the one whose install ID the ESP carries
  MaxFaults,   \* bound: failing calls, power losses and agent deaths
  MaxUnlocks   \* bound: nobody arms any more once the count is this high

ASSUME ConstantsAssumption ==
  /\ NoReq \notin Requests
  /\ NoOwner \notin Owners
  /\ OwnVolume \in Volumes
  /\ MaxFaults \in Nat
  /\ MaxUnlocks \in Nat

VARIABLES
  boot,       \* which system runs: "runtime" or "recovery"
  mounted,    \* the volume mounted at Config.DataDir
  lockMu,     \* Core.lockMu: the request that holds it, or NoReq
  pc,         \* where each request is
  f,          \* the flag copy a request keeps in its local variable f
  who,        \* the owner uid an arm request works for
  flag,       \* <ESP>/state/unlock-armed as the kernel shows it
  flagDisk,   \* the same file as the medium holds it
  verityOff,  \* TPM NV: verity enforcement is off
  locked,     \* TPM NV: the lock bit
  data,       \* the contents of every volume
  faults,     \* how many more faults may happen
  seen,       \* history: kinds of flag-file fault so far
  granted,    \* history: owners with a PIN-proven grant nobody took back
  proved      \* history: owners who proved their PIN again in recovery

vars == <<boot, mounted, lockMu, pc, f, who, flag, flagDisk, verityOff, locked,
          data, faults, seen, granted, proved>>

Phases == {"", "verity-off"}

Flags == [armed : BOOLEAN, count : Nat, owner : Owners \cup {NoOwner}, phase : Phases]

\* unlockFlag{}: what a missing, unreadable or corrupt file reads as.
ZeroFlag == [armed |-> FALSE, count |-> 0, owner |-> NoOwner, phase |-> ""]

ArmSteps == {"armPIN", "armWrite"}

\* UnlockBootloader before its point of no return ...
ConsentSteps == {"verifyPIN", "validate", "disableVerity", "confirmVerity", "record"}

\* ... and after it.
WipeSteps == Passes \cup {"prepare", "mkdir", "wipeVar", "finish", "setBit", "finalize"}

HolderSteps == ConsentSteps \cup WipeSteps

Steps == {"idle"} \cup ArmSteps \cup HolderSteps

Init ==
  /\ boot = "runtime"
  /\ mounted = OwnVolume
  /\ lockMu = NoReq
  /\ pc = [r \in Requests |-> "idle"]
  /\ f = [r \in Requests |-> ZeroFlag]
  /\ who = [r \in Requests |-> NoOwner]
  /\ flag = ZeroFlag
  /\ flagDisk = ZeroFlag
  /\ verityOff = FALSE
  /\ locked = TRUE
  /\ data = [v \in Volumes |-> Paths]
  /\ faults = MaxFaults
  /\ seen = {}
  /\ granted = {}
  /\ proved = {}

-------------------------------------------------------------------------------
(* Building blocks *)

Spend(n) == /\ n <= faults
            /\ faults' = faults - n

Pick(b, x, y) == IF b THEN x ELSE y

\* A read of the flag file that a caller goes on with: the file, or, when the
\* read fails, unlockFlag{}.
readUnlockFlag(g) == g \in {flag, ZeroFlag}

\* The outcomes of writeUnlockFlag: it returns nil; it fails before the rename;
\* or the rename is visible but syncDir fails, or the agent dies before it.
Writes == {"ok", "lost", "unsynced"}

writeUnlockFlagTruncates(g, w) ==
  /\ flag' = IF w = "lost" THEN flag ELSE g
  /\ flagDisk' = IF w = "ok" THEN g ELSE IF w = "lost" THEN flagDisk ELSE ZeroFlag

writeUnlockFlagNoSync(g, w) ==
  /\ flag' = IF w = "lost" THEN flag ELSE g
  /\ flagDisk' = flagDisk

writeUnlockFlag(g, w) ==
  /\ flag' = IF w = "lost" THEN flag ELSE g
  /\ flagDisk' = IF w = "ok" THEN g ELSE flagDisk

\* A request's read-modify-write of the flag file: it read g, it writes h.
Rewrite(g, h, w) ==
  /\ readUnlockFlag(g)
  /\ writeUnlockFlag(h, w)
  /\ Spend(Pick(g = flag, 0, 1) + Pick(w = "ok", 0, 1))
  /\ seen' = seen \cup Pick(g = flag, {}, {"unreadable"})
                  \cup Pick(w = "unsynced", {"unsynced"}, {})

finalizedNoCount(g) ==
  [armed |-> FALSE, count |-> g.count, owner |-> NoOwner, phase |-> ""]

\* finalizeUnlockFlag: the flag it writes for the flag it was given.
finalized(g) ==
  [armed |-> FALSE, count |-> IF g.phase # "" THEN g.count + 1 ELSE g.count,
   owner |-> NoOwner, phase |-> ""]

\* A grant ends when its clearing has been written for good.
EndGrant(w) ==
  /\ granted' = IF w = "ok" THEN {} ELSE granted
  /\ proved' = IF w = "ok" THEN {} ELSE proved

\* lockMu.Lock() and everything after it in a call that is one step.
LockedCall(r) == lockMu = NoReq /\ pc[r] = "idle"

\* UnlockBootloader returns, lockMu released by the deferred Unlock.
Return(r) == /\ pc' = [pc EXCEPT ![r] = "idle"]
             /\ lockMu' = NoReq

GoTo(r, step) == /\ pc' = [pc EXCEPT ![r] = step]
                 /\ UNCHANGED lockMu

validateDataDirNoID == Required \subseteq data[mounted]

validateDataDirNeedsLib ==
  mounted = OwnVolume /\ Required \cup {"lib"} \subseteq data[mounted]

\* The installed volume, with its markers, its boot chain and its active slot.
validateDataDir == mounted = OwnVolume /\ Required \subseteq data[mounted]

\* The consent a request re-reads must still be the one it started from.
SameConsent(r) == flag.armed /\ flag.owner = f[r].owner /\ flag.phase = ""

-------------------------------------------------------------------------------
(* POST /arm-unlock {"armed": true} at runtime *)

\* The handler refuses an unlocked bootloader; a TPM that cannot be read
\* counts as locked.
ArmCheckLocked(r, o) ==
  /\ boot = "runtime" /\ LockedCall(r)
  /\ flag.count < MaxUnlocks
  /\ Spend(Pick(locked, 0, 1))
  /\ pc' = [pc EXCEPT ![r] = "armPIN"]
  /\ who' = [who EXCEPT ![r] = o]
  /\ UNCHANGED <<boot, mounted, lockMu, f, flag, flagDisk, verityOff, locked,
                 data, seen, granted, proved>>

\* The PIN can be right only while the key custody exists; the mutex is free
\* during the check.
ArmVerifyPIN(r) ==
  /\ pc[r] = "armPIN"
  /\ \/ "keys" \in data[OwnVolume] /\ pc' = [pc EXCEPT ![r] = "armWrite"]
     \/ pc' = [pc EXCEPT ![r] = "idle"]
  /\ UNCHANGED <<boot, mounted, lockMu, f, who, flag, flagDisk, verityOff,
                 locked, data, faults, seen, granted, proved>>

armedFor(g, o) == [g EXCEPT !.armed = TRUE, !.owner = o, !.phase = ""]

ArmOverRecorded(r) ==
  /\ pc[r] = "armWrite" /\ lockMu = NoReq
  /\ \E g \in {flag, ZeroFlag}, w \in Writes :
       /\ Rewrite(g, armedFor(g, who[r]), w)
       /\ granted' = IF w = "ok" THEN {who[r]}
                     ELSE granted \cup Pick(w = "lost", {}, {who[r]})
       /\ proved' = IF w = "ok" THEN {} ELSE proved
  /\ pc' = [pc EXCEPT ![r] = "idle"]
  /\ UNCHANGED <<boot, mounted, lockMu, f, who, verityOff, locked, data>>

\* ArmUnlockForOwner(true, uid): refused while a transaction is recorded.
ArmUnlockForOwner(r) ==
  /\ pc[r] = "armWrite" /\ lockMu = NoReq
  /\ \/ \E g \in {flag, ZeroFlag}, w \in Writes :
          /\ ~ (g.armed /\ g.phase # "")
          /\ Rewrite(g, armedFor(g, who[r]), w)
          /\ granted' = IF w = "ok" THEN {who[r]}
                        ELSE granted \cup Pick(w = "lost", {}, {who[r]})
          /\ proved' = IF w = "ok" THEN {} ELSE proved
     \/ /\ flag.armed /\ flag.phase # ""
        /\ UNCHANGED <<flag, flagDisk, faults, seen, granted, proved>>
  /\ pc' = [pc EXCEPT ![r] = "idle"]
  /\ UNCHANGED <<boot, mounted, lockMu, f, who, verityOff, locked, data>>

-------------------------------------------------------------------------------
(* POST /arm-unlock {"armed": false} and GET /lock-state *)

DisarmAnyPhase(r) ==
  /\ LockedCall(r)
  /\ \E g \in {flag, ZeroFlag}, w \in Writes :
       /\ Rewrite(g, finalized(g), w)
       /\ EndGrant(w)
  /\ UNCHANGED <<boot, mounted, lockMu, pc, f, who, verityOff, locked, data>>

\* ArmUnlockForOwner(false, _): a recorded transaction can only be finalized,
\* and only once the TPM says the bootloader is unlocked.
Disarm(r) ==
  /\ LockedCall(r)
  /\ \E g \in {flag, ZeroFlag}, w \in Writes :
       /\ g.phase = "" \/ ~ locked
       /\ Rewrite(g, finalized(g), w)
       /\ EndGrant(w)
  /\ UNCHANGED <<boot, mounted, lockMu, pc, f, who, verityOff, locked, data>>

LockStateReadsOnly(r) ==
  /\ LockedCall(r)
  /\ ~ locked /\ flag.armed /\ flag.phase = "verity-off"
  /\ UNCHANGED vars

\* LockState settles what a finished unlock left behind; otherwise it reads.
LockState(r) ==
  /\ LockedCall(r)
  /\ ~ locked /\ flag.armed /\ flag.phase = "verity-off"
  /\ \E w \in Writes :
       /\ Rewrite(flag, finalized(flag), w)
       /\ EndGrant(w)
  /\ UNCHANGED <<boot, mounted, lockMu, pc, f, who, verityOff, locked, data>>

-------------------------------------------------------------------------------
(* POST /unlock-bootloader, which only the recovery policy routes *)

\* Confirmed with UNLOCK, armed: start over with the PIN, or resume without it
\* when the recorded phase and the TPM agree.
BeginUnlock(r) ==
  /\ boot = "recovery" /\ LockedCall(r)
  /\ flag.armed /\ flag.owner # NoOwner
  /\ lockMu' = r
  /\ f' = [f EXCEPT ![r] = flag]
  /\ \/ flag.phase = "" /\ pc' = [pc EXCEPT ![r] = "verifyPIN"]
     \/ flag.phase = "verity-off" /\ verityOff /\ pc' = [pc EXCEPT ![r] = "prepare"]
  /\ UNCHANGED <<boot, mounted, who, flag, flagDisk, verityOff, locked, data,
                 faults, seen, granted, proved>>

VerifyPINSkipped(r) ==
  /\ pc[r] = "verifyPIN"
  /\ GoTo(r, "validate")
  /\ UNCHANGED <<boot, mounted, f, who, flag, flagDisk, verityOff, locked,
                 data, faults, seen, granted, proved>>

\* The PIN of the owner who armed, against the key custody of the volume.
VerifyPIN(r) ==
  /\ pc[r] = "verifyPIN"
  /\ \/ /\ "keys" \in data[mounted]
        /\ proved' = proved \cup {f[r].owner}
        /\ GoTo(r, "validate")
     \/ /\ UNCHANGED proved
        /\ Return(r)
  /\ UNCHANGED <<boot, mounted, f, who, flag, flagDisk, verityOff, locked,
                 data, faults, seen, granted>>

\* The consent is read again and the volume is checked before anything changes.
Validate(r) ==
  /\ pc[r] = "validate"
  /\ IF SameConsent(r) /\ validateDataDir THEN GoTo(r, "disableVerity") ELSE Return(r)
  /\ UNCHANGED <<boot, mounted, f, who, flag, flagDisk, verityOff, locked,
                 data, faults, seen, granted, proved>>

\* sintykey disable-verity; a failing call may have had its effect.
DisableVerity(r) ==
  /\ pc[r] = "disableVerity"
  /\ verityOff' = TRUE
  /\ \/ GoTo(r, "confirmVerity") /\ Spend(0)
     \/ Return(r) /\ Spend(1)
  /\ UNCHANGED <<boot, mounted, f, who, flag, flagDisk, locked, data, seen,
                 granted, proved>>

\* The TPM must confirm it and the consent must still stand.
ConfirmVerity(r) ==
  /\ pc[r] = "confirmVerity"
  /\ IF verityOff /\ SameConsent(r)
       THEN GoTo(r, "record") /\ f' = [f EXCEPT ![r] = flag]
       ELSE Return(r) /\ UNCHANGED f
  /\ UNCHANGED <<boot, mounted, who, flag, flagDisk, verityOff, locked, data,
                 faults, seen, granted, proved>>

RecordIgnoringErrors(r) ==
  /\ pc[r] = "record"
  /\ LET current == [f[r] EXCEPT !.phase = "verity-off"] IN
       /\ f' = [f EXCEPT ![r] = current]
       /\ \E w \in Writes : Rewrite(flag, current, w)
       /\ GoTo(r, "prepare")
  /\ UNCHANGED <<boot, mounted, who, verityOff, locked, data, granted, proved>>

RecordMisspelt(r) ==
  /\ pc[r] = "record"
  /\ LET current == [f[r] EXCEPT !.phase = "verity_off"] IN
       /\ f' = [f EXCEPT ![r] = current]
       /\ \E w \in Writes :
            /\ Rewrite(flag, current, w)
            /\ IF w = "ok" THEN GoTo(r, "prepare") ELSE Return(r)
  /\ UNCHANGED <<boot, mounted, who, verityOff, locked, data, granted, proved>>

\* The phase is recorded in the copy of the flag the consent check read.
Record(r) ==
  /\ pc[r] = "record"
  /\ LET current == [f[r] EXCEPT !.phase = "verity-off"] IN
       /\ f' = [f EXCEPT ![r] = current]
       /\ \E w \in Writes :
            /\ Rewrite(flag, current, w)
            /\ IF w = "ok" THEN GoTo(r, "prepare") ELSE Return(r)
  /\ UNCHANGED <<boot, mounted, who, verityOff, locked, data, granted, proved>>

-------------------------------------------------------------------------------
(* prepareDataWipe, cryptoWipeVar, finishDataWipe, cryptoSetUnlockBit *)

CheckVolumeWaits(r, here, next) ==
  /\ pc[r] = here
  /\ IF validateDataDir THEN GoTo(r, next) ELSE UNCHANGED <<pc, lockMu>>
  /\ UNCHANGED <<boot, mounted, f, who, flag, flagDisk, verityOff, locked,
                 data, faults, seen, granted, proved>>

\* prepareDataWipe and finishDataWipe both start with validateDataDir.
CheckVolume(r, here, next) ==
  /\ pc[r] = here
  /\ IF validateDataDir THEN GoTo(r, next) ELSE Return(r)
  /\ UNCHANGED <<boot, mounted, f, who, flag, flagDisk, verityOff, locked,
                 data, faults, seen, granted, proved>>

\* removeChildrenExcept: the whole pass, or a failure part of the way.
RemovePass(r, pass, next) ==
  /\ pc[r] = pass
  /\ \/ /\ data' = [data EXCEPT ![mounted] = @ \ Removed(pass)]
        /\ GoTo(r, next) /\ Spend(0)
     \/ /\ \E gone \in TornRemoval(pass, data[mounted]) :
             data' = [data EXCEPT ![mounted] = @ \ gone]
        /\ Return(r) /\ Spend(1)
  /\ UNCHANGED <<boot, mounted, f, who, flag, flagDisk, verityOff, locked,
                 seen, granted, proved>>

scrubBootArtifacts(r) ==
  \/ RemovePass(r, "scrubBoot", "scrubRootfs")
  \/ RemovePass(r, "scrubRootfs", "scrubTop")

\* os.MkdirAll(lib/sinty)
MkdirCustody(r) ==
  /\ pc[r] = "mkdir"
  /\ data' = [data EXCEPT ![mounted] = @ \cup {"lib", "sinty"}]
  /\ GoTo(r, "scrubLib")
  /\ UNCHANGED <<boot, mounted, f, who, flag, flagDisk, verityOff, locked,
                 faults, seen, granted, proved>>

prepareDataWipe(r) ==
  \/ CheckVolume(r, "prepare", "scrubBoot")
  \/ scrubBootArtifacts(r)
  \/ RemovePass(r, "scrubTop", "mkdir")
  \/ MkdirCustody(r)
  \/ RemovePass(r, "scrubLib", "wipeVar")

\* sintykey wipe-var erases the key custody; a failing call may have done so.
WipeVar(r) ==
  /\ pc[r] = "wipeVar"
  /\ data' = [data EXCEPT ![mounted] = @ \ {"keys"}]
  /\ \/ GoTo(r, "finish") /\ Spend(0)
     \/ Return(r) /\ Spend(1)
  /\ UNCHANGED <<boot, mounted, f, who, flag, flagDisk, verityOff, locked,
                 seen, granted, proved>>

finishDataWipe(r) ==
  \/ CheckVolume(r, "finish", "finishTop")
  \/ RemovePass(r, "finishTop", "setBit")

\* sintykey set-unlock, the last change; a failing call may have had its effect.
SetUnlockBit(r) ==
  /\ pc[r] = "setBit"
  /\ locked' = FALSE
  /\ \/ GoTo(r, "finalize") /\ Spend(0)
     \/ Return(r) /\ Spend(1)
  /\ UNCHANGED <<boot, mounted, f, who, flag, flagDisk, verityOff, data, seen,
                 granted, proved>>

\* The flag is read afresh, counted and cleared; an error is not retried here.
Finalize(r) ==
  /\ pc[r] = "finalize"
  /\ \E g \in {flag, ZeroFlag}, w \in Writes :
       /\ Rewrite(g, finalized(g), w)
       /\ EndGrant(w)
  /\ Return(r)
  /\ UNCHANGED <<boot, mounted, f, who, verityOff, locked, data>>

\* Any call before the last one can fail without an effect: UnlockBootloader
\* returns the error and whoever asked may ask again.
CallFails(r) ==
  /\ pc[r] \in HolderSteps \ {"finalize", "record"}
  /\ Spend(1)
  /\ Return(r)
  /\ UNCHANGED <<boot, mounted, f, who, flag, flagDisk, verityOff, locked,
                 data, seen, granted, proved>>

UnlockBootloader(r) ==
  \/ BeginUnlock(r) \/ VerifyPIN(r) \/ Validate(r) \/ DisableVerity(r)
  \/ ConfirmVerity(r) \/ Record(r) \/ prepareDataWipe(r) \/ WipeVar(r)
  \/ finishDataWipe(r) \/ SetUnlockBit(r) \/ Finalize(r) \/ CallFails(r)

-------------------------------------------------------------------------------
(* The environment *)

\* What a crash in the middle of a removal pass leaves on the volume.
CrashData ==
  {data} \cup
  IF lockMu \in Requests /\ pc[lockMu] \in Passes
    THEN {[data EXCEPT ![mounted] = @ \ gone] :
            gone \in TornRemoval(pc[lockMu], data[mounted])}
    ELSE {}

\* Every request is gone.
NoRequests == /\ pc' = [r \in Requests |-> "idle"]
              /\ lockMu' = NoReq

BootInto(system) ==
  /\ boot' = system
  /\ mounted' \in IF system = "runtime" THEN {OwnVolume} ELSE Volumes

\* Only what reached the medium survives.
PowerLoss ==
  /\ Spend(1)
  /\ data' \in CrashData
  /\ flag' = flagDisk
  /\ NoRequests
  /\ \E system \in {"runtime", "recovery"} : BootInto(system)
  /\ UNCHANGED <<f, who, flagDisk, verityOff, locked, seen, granted, proved>>

\* The agent dies and is started again on the running system.
AgentRestart ==
  /\ Spend(1)
  /\ data' \in CrashData
  /\ NoRequests
  /\ UNCHANGED <<boot, mounted, f, who, flag, flagDisk, verityOff, locked, seen,
                 granted, proved>>

\* Reboot syncs; it is asked for when no unlock is under way.
Reboot ==
  /\ lockMu = NoReq
  /\ flagDisk' = flag
  /\ NoRequests
  /\ \E system \in {"runtime", "recovery"} : BootInto(system)
  /\ UNCHANGED <<f, who, flag, verityOff, locked, data, faults, seen, granted,
                 proved>>

\* The kernel writes the directory entry back in its own time.
Writeback ==
  /\ flagDisk # flag
  /\ flagDisk' = flag
  /\ UNCHANGED <<boot, mounted, lockMu, pc, f, who, flag, verityOff, locked,
                 data, faults, seen, granted, proved>>

\* The file is damaged: it reads as unlockFlag{} from now on.
CorruptFlag ==
  /\ flag # ZeroFlag
  /\ Spend(1)
  /\ flag' = ZeroFlag /\ flagDisk' = ZeroFlag
  /\ seen' = seen \cup {"unreadable"}
  /\ UNCHANGED <<boot, mounted, lockMu, pc, f, who, verityOff, locked, data,
                 granted, proved>>

\* The installed system is set up (again) and used.
UserActivity ==
  /\ boot = "runtime"
  /\ data[OwnVolume] # Paths
  /\ data' = [data EXCEPT ![OwnVolume] = Paths]
  /\ UNCHANGED <<boot, mounted, lockMu, pc, f, who, flag, flagDisk, verityOff,
                 locked, faults, seen, granted, proved>>

-------------------------------------------------------------------------------

Request(r) ==
  \/ \E o \in Owners : ArmCheckLocked(r, o)
  \/ ArmVerifyPIN(r) \/ ArmUnlockForOwner(r)
  \/ Disarm(r) \/ LockState(r) \/ UnlockBootloader(r)

Environment ==
  PowerLoss \/ AgentRestart \/ Reboot \/ Writeback \/ CorruptFlag \/ UserActivity

Next == (\E r \in Requests : Request(r)) \/ Environment

Spec == Init /\ [][Next]_vars

\* A request under way goes on: its goroutine runs and the calls it makes return.
Continue(r) ==
  \/ ArmVerifyPIN(r) \/ ArmUnlockForOwner(r)
  \/ lockMu = r /\ UnlockBootloader(r)

\* The recovery UI asks for the lock state over and over while its menu shows
\* (main.zig polls every third frame); the mutex is taken and given back in
\* between, and Go's Mutex starves no waiter.
Poll(r) == boot = "recovery" /\ LockState(r)

Fairness == \A r \in Requests : WF_vars(Continue(r)) /\ SF_vars(Poll(r))

FairSpec == Spec /\ Fairness

-------------------------------------------------------------------------------
(* Properties *)

TypeOK ==
  /\ boot \in {"runtime", "recovery"}
  /\ mounted \in Volumes
  /\ lockMu \in Requests \cup {NoReq}
  /\ pc \in [Requests -> Steps]
  /\ f \in [Requests -> Flags]
  /\ who \in [Requests -> Owners \cup {NoOwner}]
  /\ flag \in Flags
  /\ flagDisk \in Flags
  /\ verityOff \in BOOLEAN
  /\ locked \in BOOLEAN
  /\ data \in [Volumes -> SUBSET Paths]
  /\ faults \in Nat
  /\ seen \subseteq {"unreadable", "unsynced"}
  /\ granted \subseteq Owners
  /\ proved \subseteq Owners

\* A request is past the point of no return.
Wiping(r) == pc[r] \in WipeSteps

\* The transaction is in a flag: it names its owner and its phase.
Recorded(g) == g.armed /\ g.phase = "verity-off"

\* An armed flag, as the agent reads it or as a power loss would bring it back,
\* always names an owner whose PIN-proven grant has not been taken back: an
\* acknowledged cancel (ArmUnlock(false), TTY and UI "cancel") or a finished
\* unlock never comes back to life, whatever crashed or raced with it, and no
\* unlock is under way after it.
ConsentBacked ==
  /\ flag.armed => flag.owner \in granted
  /\ flagDisk.armed => flagDisk.owner \in granted
  /\ \A r \in Requests : pc[r] \in HolderSteps => f[r].owner \in granted

\* No user data is erased for an owner who has not given the PIN twice, once in
\* the running system to arm and once more in recovery, whether this call of
\* UnlockBootloader asked for it or resumes a transaction without asking.
ErasedOnlyTwiceProven ==
  \A r \in Requests : Wiping(r) => f[r].owner \in granted \cap proved

\* While the flag file stays readable, an unlock past the point of no return has
\* its phase in the flag the next attempt will read, and the TPM agrees, so an
\* attempt that dies anywhere is resumed and not asked for a PIN whose custody
\* is gone.
WipeIsRecorded ==
  "unreadable" \notin seen =>
    \A r \in Requests : Wiping(r) => Recorded(flag) /\ verityOff

\* The wipe never takes what validateDataDir asks for: after any number of torn
\* passes the installed volume still passes validation, so a retry can go on.
RetryFindsVolume == Required \subseteq data[OwnVolume]

\* An unlocked bootloader has been counted, or the medium still holds the
\* transaction that will count it, as long as the flag file never failed.
UnlockIsCounted ==
  (~ locked /\ seen = {}) => flagDisk.count > 0 \/ Recorded(flagDisk)

\* The lock bit goes last: it only flips with verity off and with no user data
\* left on the installed volume.
LockBitLast ==
  [][locked # locked' => /\ verityOff
                         /\ data[OwnVolume] \cap UserData = {}]_vars

\* Only the volume whose install ID matches the ESP is ever touched, whichever
\* one is mounted.
ForeignUntouched ==
  [][\A v \in Volumes \ {OwnVolume} : data'[v] = data[v]]_vars

\* The count that survives a power loss never goes back, as long as every read
\* of the flag file succeeds.
DurableCountMonotonic ==
  []["unreadable" \notin seen' => flagDisk'.count >= flagDisk.count]_vars

\* A transaction that has reached the medium ends in an unlocked bootloader: as
\* long as the flag file can be read, no cancel, no new arm and no crash drops
\* it while the bootloader is still locked and the volume perhaps half erased.
TransactionKept ==
  [][("unreadable" \notin seen' /\ Recorded(flagDisk) /\ ~ Recorded(flagDisk'))
       => ~ locked]_vars

\* "Consent cleanup will retry automatically" (UnlockBootloader's answer when
\* its last write fails): with the recovery UI polling, a finished unlock whose
\* flag is still armed gets counted and cleared.
CleanupRetries ==
  (~ locked /\ Recorded(flag)) ~> (~ Recorded(flag) \/ boot = "runtime")

\* Whatever fails on the way, UnlockBootloader lets go of lockMu: no later arm,
\* cancel, poll or unlock waits for ever.
LockReleased == \A r \in Requests : lockMu = r ~> lockMu # r

\* Once nothing fails any more, an attempt that is past the point of no return,
\* new or resumed after any number of torn attempts, unlocks the bootloader.
ResumeCompletes ==
  \A r \in Requests :
    (pc[r] = "prepare" /\ faults = 0 /\ mounted = OwnVolume) ~> ~ locked

-------------------------------------------------------------------------------
(* The inductive invariant behind the safety properties *)

\* lockMu is held by exactly the request inside UnlockBootloader, in recovery.
MutexInv ==
  /\ \A r \in Requests : pc[r] \in HolderSteps <=> lockMu = r
  /\ lockMu # NoReq => boot = "recovery"
  /\ boot = "runtime" => mounted = OwnVolume
  /\ \A r \in Requests : pc[r] \in ArmSteps => who[r] \in Owners

\* What every copy of the flag owes to history: g is armed only by a standing
\* grant, and carries a phase only when armed, proven and backed by the TPM.
Backed(g) ==
  /\ g.armed => g.owner \in granted
  /\ g.phase # "" => g.armed /\ g.owner \in proved /\ verityOff

\* What the copy of the flag a request works on owes to history.
CopyBacked(r) ==
  /\ pc[r] \in HolderSteps => f[r].owner \in granted
  /\ pc[r] \in ConsentSteps => f[r].armed
  /\ pc[r] \in HolderSteps \ {"verifyPIN"} => f[r].owner \in proved
  /\ pc[r] \in WipeSteps \cup {"record"} => verityOff

ConsentInv ==
  /\ Backed(flag)
  /\ Backed(flagDisk)
  /\ \A r \in Requests : CopyBacked(r)

\* The steps that come after each removal pass.
AfterCheck == WipeSteps \ {"prepare"}
AfterBoot == AfterCheck \ {"scrubBoot"}
AfterRootfs == AfterBoot \ {"scrubRootfs"}

\* The volume under a wipe is the installed one, and what a pass removed stays
\* gone until the lock bit flips.
WipeProgress(r) ==
  /\ pc[r] \in AfterCheck => mounted = OwnVolume
  /\ pc[r] \in AfterBoot => "bootOther" \notin data[OwnVolume]
  /\ pc[r] \in AfterRootfs => "rootfsOther" \notin data[OwnVolume]
  /\ pc[r] = "setBit" => data[OwnVolume] \cap UserData = {}

VolumeInv == RetryFindsVolume /\ \A r \in Requests : WipeProgress(r)

\* The medium lags behind what the agent reads only after a sync failed, and
\* then its count is not ahead.
CountInv ==
  /\ "unsynced" \notin seen => flag = flagDisk
  /\ "unreadable" \notin seen => flag.count >= flagDisk.count
  /\ "unreadable" \notin seen =>
       \A r \in Requests : pc[r] = "record" => f[r].count = flag.count
  /\ WipeIsRecorded
  /\ UnlockIsCounted

\* The transaction on the medium is the one the agent reads, or it is over; and
\* it is over when UnlockBootloader clears it.
KeptInv ==
  /\ ("unreadable" \notin seen /\ Recorded(flagDisk)) => Recorded(flag) \/ ~ locked
  /\ \A r \in Requests : pc[r] = "finalize" => ~ locked

IInv == TypeOK /\ MutexInv /\ ConsentInv /\ VolumeInv /\ CountInv /\ KeptInv

-------------------------------------------------------------------------------
(* The abstract transaction *)

\* What a flag says of the transaction; the count is dropped once a read failed.
TxOf(g) ==
  [stage |-> IF ~ g.armed THEN "none" ELSE IF g.phase = "" THEN "armed" ELSE "recorded",
   owner |-> IF g.armed THEN g.owner ELSE NoOwner,
   count |-> IF "unreadable" \in seen THEN 0 ELSE g.count]

Tx == INSTANCE UnlockTx WITH
  Private <- UserData, tx <- TxOf(flag), kept <- TxOf(flagDisk),
  readable <- "unreadable" \notin seen, grants <- granted, proofs <- proved,
  private <- data[OwnVolume] \cap UserData

\* However requests, cancels, polls, crashes, torn wipes and resumed attempts
\* interleave, lock.go and data_wipe.go behave as one transaction: opened by a
\* PIN, taken back or recorded, erasing only once recorded for an owner who gave
\* the PIN twice, the lock bit last, counted when it ends.
ImplementsTx == Tx!TxSpec

-------------------------------------------------------------------------------
(* What the repository says and the code does not do *)

\* "Count is monotonic across unlocks, for attestation" (lock.go:15): said of
\* the file, without a proviso for reads that fail.
CountMonotonic == [][flagDisk'.count >= flagDisk.count]_vars

\* "so deleted key custody is never needed again" (lock.go:168): recovery never
\* asks for a PIN on the installed volume after the custody that checks it is
\* gone.
CustodyNeverNeededAgain ==
  "unreadable" \notin seen =>
    \A r \in Requests :
      (pc[r] = "verifyPIN" /\ mounted = OwnVolume) => "keys" \in data[OwnVolume]

\* "Bootloader: locked. Verified boot is on." (main.zig:144), the menu's line
\* for every locked device, here one on which no unlock is armed or running.
LockedMeansVerified ==
  (boot = "recovery" /\ lockMu = NoReq /\ ~ flag.armed /\ locked) => ~ verityOff
=============================================================================
