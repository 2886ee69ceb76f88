# sinty-recovery: TLA+ models, model checking and proofs

sinty-recovery is the recovery environment of an image-based Linux system. An
agent written in Go owns the dangerous operations: reinstalling or repairing a
slot, and unlocking the bootloader, which erases the data of the device's
owner. A text UI drives it in the same process; a Cairo UI, written in Zig,
drives it over an HTTP API on a unix socket. Its own small Wi-Fi and DHCP
clients bring the network up when a reinstall has to download an image. In the
installed system a small daemon, `sinty-pind`, changes the PIN the unlock asks for.

The modules here model the parts of that program that keep state across steps,
calls, crashes and reboots.

## Inventory

| Component | Source | State | Operations | What makes it correct |
|---|---|---|---|---|
| Unlock transaction | `internal/recovery/lock.go` | the consent flag on the ESP (armed, count, owner, phase), `lockMu`, two bits in the TPM | `ArmUnlockForOwner`, `LockState`, `UnlockBootloader` | consent is the owner's and can be revoked; an interrupted unlock resumes; the lock bit goes last; unlocks are counted |
| Data wipe | `internal/recovery/data_wipe.go` | the entries of the data volume | `prepareDataWipe`, `finishDataWipe` | only the installed volume is touched; a torn wipe can be repeated |
| Crypto seam | `crypto_seam.go`, `crypto_sintykey.go` | none of its own | six commands of `sintykey` | errors are errors: no answer is taken for a good one |
| HTTP API | `serve.go` | the socket file, the process | the routes, in the recovery and in the runtime policy; start, stop | the runtime agent only arms and cancels; a restarted agent serves |
| Status and jobs | `serve.go` (`uiState`) | state, message, online | `start`, `POST /connect`, `GET /status` | what is shown is going on, and ends |
| Recovery core | `core.go`, `reinstall.go` | none of its own; the WAL, the boot state and the slots, written by an update library outside this repository | reinstall, repair, rollback, loader repair | the next boot finds an image; the boot state follows the WAL |
| Wi-Fi client | `internal/wifi/wifi.go` | none; the networks are wpa_supplicant's | `Connect`, `Scan` | the association is the one asked for |
| DHCP client | `internal/dhcp` | one transaction; address, route, resolver | `Acquire`, `Configure` | the lease is one a server granted now |
| Cairo UI | `ui/cairo/src` | screen, buffers, last status and lock state | one handler per screen, the loop | secrets do not outlive their screens; what it asks for was meant; what it says is so |
| Text UI | `tty.go` | the prompt it is at, the console's echo | a menu over the same core | an unlock is typed deliberately, a cancel is final, the end of input ends it, the echo comes back |
| Command line | `cmd/atom-recovery` | the mode | `run` | one core behind either UI |
| PIN daemon | `cmd/sinty-pind` | none of its own; the PIN each key is sealed under | one external command per connection | nobody changes another account's PIN or an unknown one; answers are true; every connection ends |
| Build | `ui/cairo/build.zig`, `vm-test.sh` | none | - | - |

How they interact. The UIs call the core, directly or through the API; handlers
are goroutines, so two of them interleave wherever no mutex is held. `lockMu`
covers the whole of `UnlockBootloader` and every single access to the flag, but
not the PIN verification of an arm request. `uiState`'s mutex covers one access.
The flag, the TPM and the volume are shared between boots: consent is given in
the running system and used in recovery. No mutex covers the slot directory:
jobs of the agent, and the wipe of an unlock, work on it side by side.

What is hard to test is listed under `hazards` in `PROJECT.json`, each at its
line: crashes between two steps of an unlock, a rename that is visible and not
yet durable, primitives that fail after their effect, passes of a wipe that stop
half-way, a cancel that races, a status that several handlers write, replies of
an earlier DHCP transaction, a supplicant that is still associated with the
network of the call before, a UI whose calls come back empty, a process that ends
between two calls of the update library, input that ends at a prompt, a socket
file left by a killed process, and two PIN changes at once.

## Modules

| Module | Models | Checked by | Proofs |
|---|---|---|---|
| `DataDir` | the entries of a volume and what each removal pass takes | through `Unlock` | in `UnlockProofs` |
| `UnlockTx` | the unlock as its callers may rely on it: an abstract transaction | as `ImplementsTx` by `MCUnlock` | `UnlockRefinement`, `RecoveryProofs` |
| `Unlock` | the flag, the mutex, arm, cancel, poll and every step of `UnlockBootloader`, with crashes and reboots | `MCUnlock` | `UnlockProofs`, `UnlockRefinement` |
| `Jobs` | `uiState` and the handlers that write it | through `Agent` | `JobsProofs`, `RecoveryProofs` |
| `Core` | reinstall, repair, rollback and loader repair as calls, over the WAL, the boot state and the slots | through `Agent` and `Tty` | in `RecoveryProofs` |
| `Agent` | serve mode: `Jobs` over `Core`, the wipe on the same directory, the link, the socket and the process | through `Recovery` | in `RecoveryProofs` |
| `Tty` | tty mode: every prompt of the text UI over `Core` and `UnlockTx` | through `Recovery` | in `RecoveryProofs` |
| `Recovery` | `atom-recovery`: `Agent` or `Tty`, by `-mode` | `MCRecovery` | `RecoveryProofs` |
| `Pind` | `sinty-pind` with concurrent connections | `MCPind` | `PindProofs` |
| `Dhcp` | `Acquire` and `Configure` against several servers | `MCDhcp` | `DhcpProofs` |
| `Wifi` | `Connect` and `Scan` against wpa_supplicant | `MCWifi` | `WifiProofs` |
| `Ui` | the screens of the Cairo UI and its calls to the agent | `MCUi` | `UiProofs` |

An `MC` module names the values of an instance (and, for the safety of `Unlock`,
its symmetries); the constants get them in its
`.cfg` files. Operators whose name says what is wrong with them
(`RecordIgnoringErrors`, `HeardAnyXid`, `ConfirmKeepsPIN`, ...) are mutants: each
stands before the definition it could replace, changes it the way a plausible
bug would, and shows that a property notices.

### Unlock and DataDir

A request is a handler goroutine; `pc[r]` is the next point of the code at which
a crash or a failing call would leave something different behind. The local
variable `f` of `UnlockBootloader` is `f[r]`, so a flag that changed since it was
read is visible. A request that is refused without changing anything is not a
step.

The flag exists twice: `flag` as the kernel shows it and `flagDisk` as the medium
holds it. `writeUnlockFlag` succeeds, fails before its rename, or fails or dies
between the rename and `syncDir`; only the first makes the two equal, and
`Writeback` may do it later. `PowerLoss` brings back `flagDisk`; `AgentRestart`
only loses the goroutines. `readUnlockFlag` returns the flag, or `unlockFlag{}`
when the read fails. Each primitive behind the crypto seam fails before or after
its effect.

A volume is a set of paths, one for each kind of thing the wipe tells apart:
the marker and directories validation asks for, key custody, the images, and
user data in the places the passes cover. A failing or interrupted `RemoveAll`
leaves any part of what it was removing (`TornRemoval`). In recovery a volume
that is not the installed one may be mounted.

`granted` and `proved` are history variables that no guard reads: who has a
grant that nobody took back, and who gave the PIN again in recovery. `seen`
remembers whether a read of the flag or its sync has failed, for the properties
that promise nothing afterwards.

### UnlockTx

What is left of the unlock when requests, the mutex, the volume's passes, the
phases of a resumption and the TPM's verity bit are forgotten: a transaction
that is none, armed or recorded, its copy on the medium, the owners who opened
and proved it, the user data left and the lock bit. `Open`, `Close`, `Prove`,
`Record`, `Erase`, `Flip`, and an environment that fails writes, loses power and
damages the flag. `TxOf` and the `INSTANCE` in `Unlock` are the mapping:
`ImplementsTx` says that every step of the code is one of these or changes
nothing that can be seen. Two things it makes precise. The count is part of the
promise only while every read of the flag has succeeded (`readable`), which is
what finding `unlock_count` is about. And a transaction may be recorded by a
write that is visible only, which is what `unlock_custody` is about.

### Core

The four operations as calls that a caller is inside of, with `wal`, `bootState`
and the slots that hold a whole image. The update library is external and kept to
what the callers rely on: `Stage` downloads to a file of its own and puts it in
the `-next` slot and the WAL in one step, `SyncBootState` derives the boot state
from the WAL, `Rollback` sets both. `Scrub` is what an unlock does to the slot
directory; `KeptSlots` is its keep map. `lag` is a history variable: the last
reinstall ended between its two library calls.

### Jobs and Agent

One step per access to `uiState`: `start`'s `working()` and `set` are two steps,
`setOnline` and the `set` after it are two more. In `Agent` the goroutine of a job
takes the steps of `Core` and reports what the call returned; an unlock scrubs
the directory the jobs stage into (`Wipe`); the link comes with a connect and
goes by itself. The process listens (removing a stale socket file first), sets
permissions, serves, and ends: by a signal, which closes the listener and so
unlinks the file, by a failed start, or by a kill, which leaves the file. Its
jobs end with it where they are, and the next process has a new `uiState`.

### Tty and Recovery

`at` is the prompt or call the one thread is in. `prompt` either reads a line or
finds the end of input, for good. The unlock behind the dialogue is `UnlockTx`: a
session finds none, an armed one, or one recorded and interrupted before.
`cancelUnlock` writes, and what it tells the operator depends on that write. A
signal cancels the context of scans, connects and downloads but does not end the
session, as in the code. A power loss starts a new session and keeps `said`, so
that a promise made before it is held to afterwards. `Recovery` runs one of the
two modes; the fair actions of one are disabled in the other.

### Pind

A connection takes the uid from the kernel, reads two PINs or fails by the
deadline, and runs `sintykey change-pin`, whose unseal and re-seal are two steps
beside those of other connections. The answer is written or lost. The daemon dies
with its socket file in place and is started again. Accounts begin with PINs of
their own, so that a PIN tells whose it is.

### Dhcp

The network is the set of packets ever sent: any of them is received at any
time, any number of times, or never, which is loss, duplication and reordering
at once. A receive takes what `exchange` takes (its transaction and the type it
waits for). Offers without a server identifier exist (`Named` has the servers
that send one). `Configure` fails between any two of its steps.

### Wifi

The supplicant is the environment: the networks it holds, the one selected, the
state of the association, which stays `COMPLETED` from earlier calls and changes
by itself. `waitConnected` polls; `MaxPolls` is its deadline. A command that is not
answered, or a SET_NETWORK that is refused, ends a call where it is. The reply of
SELECT_NETWORK is dropped (`wifi.go:166`): refused, it leaves the network that was
selected, and its link, and the call waits for COMPLETED all the same
(`SelectNetwork`). Calls overlap, up to `MaxConcurrent` of them: nothing in the agent
keeps two `POST /connect` apart. A scan waits three seconds, or for the end of its
context, beside the calls that connect.

### Ui

An iteration of `main`'s loop is a key (`Handle`), the second call of a confirmed
unlock where there is one, and `Refresh`; `frame` counts modulo three as the code
does. `pin` is a length, `word` says which letters typed are right, `psk`
remembers the network each character was typed for. The agent is reduced to what
the UI can see of it; it dies, restarts and loses its flag between any two steps,
and in the middle of the calls whose effect outlives it. `goPairing` has no
caller, so the pairing screen is left out.

## Runs

| Run | Checks | Shows |
|---|---|---|
| `unlock` | types, `ConsentBacked`, `ErasedOnlyTwiceProven`, `WipeIsRecorded`, `RetryFindsVolume`, `UnlockIsCounted`, `LockBitLast`, `ForeignUntouched`, `DurableCountMonotonic`, `TransactionKept`, `ImplementsTx` | the safety of the transaction under three faults, and that it implements `UnlockTx` |
| `unlock_live` | `CleanupRetries`, `LockReleased`, `ResumeCompletes` | an unlock completes once faults end, lets go of the mutex, and its flag is cleaned up |
| `recovery` | types, `BusyIsTrue`, `BootsWhole`, `BootFollowsWal`, `CancelledForGood`, `ErasedAsTyped`, `BusyEnds`, `RestartServes`, `SessionEnds` | both modes of the agent: a busy status has a cause and ends, the next boot has an image, a restarted agent serves, the text UI's unlock dialogue does what it says and ends |
| `pind` | types, `PINChain`, `AnswersAreTrue`, `ConnectionEnds` | PIN changes stay within an account and are reported truly; every connection is served to its end, across a death of the daemon |
| `dhcp` | types, `LeaseGranted`, `RouteHasAddress`, `AcquireEnds` | the lease was granted now; retries end |
| `wifi` | types, `LastSelectedIsAsAsked`, `ConnectEnds` | of two calls that overlap, one whose network is the selected one takes no link but its own; every call returns |
| `ui` | types, `SecretsInPlace`, `PasswordStays`, `UnlockAsked`, `ProgressEnds` | text stays where it belongs, an unlock is deliberate, progress can be left |

The others are disagreements between the code and what the repository says
of it; each is a finding in `PROJECT.json` with the line it contradicts.

| Run | Violated | Because |
|---|---|---|
| `unlock_count` | `CountMonotonic` | a flag that cannot be read is written back with count 0 |
| `unlock_custody` | `CustodyNeverNeededAgain` | a retry trusts a rename that never reached the medium, wipes the keys, and a power loss takes the phase back |
| `unlock_banner` | `LockedMeansVerified` | a failure after disable-verity and a cancel leave a locked device with verity off |
| `recovery_status` | `StatusTracks` | a connect overwrites the status of a running job |
| `wifi_link` | `AssociatedAsAsked` | `waitConnected` looks at `wpa_state` alone: any link that is up passes for the call's own |

`StatusTracks` has a second half, online only with a link, which fails too: no
code clears `online` when the link is lost (`serve.go:133`); TLC stops at the
first.

The progress screen shows a job with the status read before it was started, for
up to three frames: "Done. Reboot to finish." of the job before, and Esc leaves it
(`main.zig:548`, `:610`). `ProgressEnds` shows that the real outcome follows.

`AssociatedAsAsked` fails in two ways. Two calls of `POST /connect` overlap, the later
SELECT_NETWORK wins, and the earlier call takes the other's association for its own
(`wifi.go:190`). Or SELECT_NETWORK is refused, which nobody looks at, and the link of
an earlier call is still COMPLETED: a call by itself then goes on with the old
network, and with a wrong password. The two traces are equally long and TLC shows
either. What remains is `LastSelectedIsAsAsked`.

When the call for the unlock brings no message, the UI says "The device refused the
unlock request. Nothing was changed." (`main.zig:686`). Nothing was when it did not
send the request (`api.zig:454` to `:472`) or reached no agent; but the text is also
the one for an agent that died in the call (`api.zig:474`), and `Unlock` has the step in
which it dies with the lock bit flipped. No run is about the wording.

### Bounds

- `MaxFaults` (3 for safety, 2 for liveness): the longest stories the code
  handles are a torn attempt, a torn retry and a power loss. Two requests are
  enough for every race, since all but the PIN check of an arm is under `lockMu`;
  two owners for an arm that replaces another's; `MaxUnlocks` = 2 so that an
  unlocked device is armed and unlocked again.
- Two handlers for `Recovery`: two jobs at once, or a job beside a connect or an
  unlock; `MaxEnds` = 2, so that a process that ended is restarted and ends again.
  The proofs hold for any number of handlers. One owner: the console's dialogue
  acts for whoever armed the unlock. `Private` has two entries so that a wipe can
  be half done. Two connections and two accounts for `Pind`: a change within an
  account and across two; one crash, which can hit at any point.
- `Attempts` is 2 for the code's 5: one retransmission, and a last attempt
  that differs from the first; the proofs hold for any number. `MaxAcquires` = 2
  leaves packets of an earlier transaction on the network.
- `Wifi`: two calls that overlap, over two networks (`MaxNetworks` = 2), so that they
  compete, or one follows the other and finds its network and link; a poll before,
  during and after an association (`MaxPolls` = 3). A call is let in only when the
  supplicant has room for it (`Room`), so that the bound stops none half-way. The proofs
  hold for any number of calls, networks and polls.
- `WordLen`, `MinPin`: 1 for 6 and 4. The code only asks whether the word is the
  whole word and the PIN long enough, so a length at which "too short", "enough"
  and "more" differ is enough (`MaxTyped` = 1). The proofs need no bound on them.

Deadlock is checked for `Unlock` and `Recovery`, which always have a next step.
It is not checked for `Dhcp`, `Wifi` and `Pind`, which stop at their bound, nor
for `Ui`, which F12 ends.

### Fairness

- `Unlock`: a goroutine that has begun goes on (weak fairness of its next step).
  The recovery UI polls the lock state on its menu every third frame
  (`main.zig:1166`) and Go's mutex starves no waiter, hence strong fairness of
  `Poll`, which others' holding of the mutex disables again and again. New
  requests, reboots and cancels are never forced.
- `Agent`: handlers go on and jobs end. The latter is assumed of the update
  library: jobs run under `context.Background()` and nothing here bounds them.
  That an agent that ended is started again is assumed of the recovery image's
  init, which is outside the repository; what `RestartServes` adds is that being
  started is enough.
- `Tty`: calls return, and once input has ended every prompt does. A prompt that
  waits for an operator is never forced.
- `Pind`: the accept loop runs; the deadline of 30 s ends every read and write; that `sintykey` ends is
  assumed of it (`cmd.Run` has no deadline of its own); `Restart=on-failure` in
  `packaging/sinty-pind.service` starts a failed daemon again.
- `Dhcp`: `recv` has a deadline, so sending and timing out go on. Nothing is
  assumed of servers or of the network.
- `Wifi`: every command has a deadline of three seconds and `waitConnected` its
  own. Nothing is assumed of the supplicant.
- `Ui`: the poll for a key has a timeout, so the loop goes round; jobs end.
  `ProgressEnds` asks for nothing once the agent has died: a restarted agent
  answers idle, on which the progress screen is not left (`main.zig:610`).

## Proofs

TLAPS checks every theorem for all values of the constants; the only assumptions
are the named `ASSUME`s (`NoReq` is no request, `OwnVolume` is a volume, a bound
is a natural number, ...), which TLC evaluates in the runs.

**Unlock.** None of the safety properties is inductive. `IInv` is

- `MutexInv`: `lockMu` is held by exactly the request inside `UnlockBootloader`,
  and only in recovery, so at most one request works on a flag copy;
- `ConsentInv`: each copy of the flag, on the medium too, is armed only by a
  standing grant and carries a phase only when its owner has proved the PIN
  twice and the TPM has verity off; the copy a request holds likewise, by the
  step it has reached. The copy on the medium matters: a power loss makes it the
  flag;
- `VolumeInv`: what a pass removed stays gone until the bit flips, and what
  validation requires is never removed;
- `CountInv`: without a failed sync the two copies agree, without a failed read
  the one on the medium is never ahead;
- `KeptInv`: a transaction on the medium is the one the agent reads, or is over.

`UnlockProofs` shows one lemma per conjunct (`TypeStep`, `MutexStep`,
`ConsentStep`, `VolumeStep`, `FileStep`, `RecordStep`, ...), each with a case per
action, then `Invariance`, and from it the nine safety properties of the `unlock`
run, the action properties `LockBitLast`, `ForeignUntouched`,
`DurableCountMonotonic` and `TransactionKept` among them.

`RecordedIsResumable` collects from `IInv` what a resumed attempt stands on: whichever
copy of the flag it reads, no PIN is missing, the TPM agrees and the volume validates.

Four more results are about what a reader of `lock.go` would like to conclude and
no run lists. `ErasuresAreTransacted` extends the promise on user data to
everything on the installed volume, crashes included. `VerityIsConsented` says when
verity goes off. The other two give the findings their exact reach: `CustodyIsThere`
is "never needed again" for as long as no read and no sync of the flag has failed
(`seen = {}`), and `LockedIsVerified` is the menu's line for as long as nothing at
all has failed (`faults = MaxFaults`). They need more than `IInv`. `HeldInv` adds that
consent a request has read stands until the request replaces it (`ConsentHeld`: arms
happen in the running system, unlocks in recovery, and cancels take the mutex), that
the volume stays the installed one from its check on (`CheckedInv`), and that consent
open for a PIN has its custody (`CustodyInv`), which in turn needs that an arm about
to write has seen the keys (`ArmInv`). `CleanInv` adds that without a fault whatever
`UnlockBootloader` began it is still working on.

**UnlockRefinement.** `UnlockIsTransaction == Spec => ImplementsTx`: under `IInv`
the initial states map to `TxInit` and every step of `Unlock` maps to a step of
`UnlockTx` or to a stutter, one lemma per action. `IInv` is needed for what the
abstract guards ask: that the owner of a recorded flag is in `grants` and
`proofs`, that a pass only removes data while the flag is recorded, and that the
volume is empty of user data when the bit flips.

`UnlockTx` has a result of its own: `ContractKeepsConsent` (in `RecoveryProofs`), that
the abstract transaction alone keeps a grant behind every armed and a proof behind
every recorded flag, in both copies.

**Jobs and Recovery.** `BusyIsTrue` is inductive with the types (`JobsProofs`,
`JInv`). `RecoveryProofs` carries it into the composition, where the invariant
`RInv` adds

- `CoreInv`: whatever the WAL names as the slot to try or the last good one is
  whole (`SlotsInv`), and a call under way belongs to a running job (`CallInv`),
  so that every write of the boot state is to a whole slot and `BootsWhole` and
  `BootFollowsWal` are kept;
- `SessionInv`: what the transaction behind the dialogue can be (`TxInv`: a
  recorded one has an owner who proved it, also on the medium), what has been
  typed at each place of the dialogue (`DialogueInv`), and `CancelledForGood`;
- `EchoRestored`, that the echo is off at the PIN prompt only, and the types.

An action of one mode leaves the other's variables alone, so each conjunct is
shown for the part that writes it.

From `RInv` also follows `FloorIsKept`: no step loses a whole image or the last good
slot, since what a scrub keeps is all that `SlotsInv` allows. `Tty` is
written over the actions of `UnlockTx`, which `UnlockIsTransaction` shows the code to
implement, so it keeps what they keep: `TxConsented`, that no transaction is without its
owner's consent, is proved once for the abstract module (`ContractKeepsConsent`) and
carries over to the process (`SessionsKeepConsent`), whatever state of an earlier unlock
it starts from. `OneByOneIsShown` is the first half
of `StatusTracks` for requests that do not overlap (`Requests` has one member, which
may come back any number of times): finding `recovery_status` needs an overlap.

**Pind.** `PINChain` needs that a connection at `reseal` has unsealed under a PIN
its account had (`Follows`), even when another connection has re-sealed since, and
that the uid is the client's; `AnswersAreTrue` needs that only a connection past
`Reseal` is in `set` and that an answer is the last thing a connection does. The same
invariant gives `ChangesAreOwn`: a request is one change at most, made before its
answer, in its client's account.

**Wifi.** The types hold for any number of overlapping calls (`TInv`: a call past
ADD_NETWORK has a block, a call that waits has polls left), and so does `OInv`: no two
calls have the same block (`OwnBlocks`), a block is not the selected one until its call
selects it and holds what was asked for by then (`BlockInv`), and a link stands on a
right key that nobody changes (`LinkInv`). Hence `LastSelectionCounts`, for any
`MaxConcurrent`: a call whose selection still stands when it takes the link for its own
has the network it asked for, with the right key. A SELECT_NETWORK that was refused, or
overtaken by another call's, leaves a selection that is not the call's own, and then
nothing is promised; see `wifi_link`.

**Dhcp.** `IInv` relates packets to what was granted: an ACK on the network has a
binding and a REQUEST of the same transaction behind it, and the REQUESTs of the
current transaction are for the offer taken. With it an ACK that passes the
client's filter is a grant of this transaction for that address
(`LeasesAreGranted`); `RoutesHaveAddresses` rests on the order of `Configure`.
`AskedInv` adds that a transaction has one REQUEST, however often it is sent, and that
every grant answers one: `OneAddressIsAsked`, that an acquisition never costs a second
address, for any number of servers and attempts.

**Ui.** `UInv` adds to `SecretsInPlace` and `PasswordStays` what each screen has
already made sure of (`PassedChecks`): a PIN of full length on the confirmation
screen, the word and a fresh lock state behind the pending call. `UnlocksAreAsked`
follows because no other step flips the bit. The types of the screens, of what was
read, and of the agent are separate lemmas (`ViewTypes`, `AgentTypes`).
`ProgressShowsWork` needs that the agent says "working" only with a job running
(`WorkInv`).

**How far things can go.** Each liveness property of the runs has two halves: every
step of the one concerned brings it nearer to its end, and the steps are taken. The
first is safety and is proved, with a rank per place of the code, for any number of
others who interfere:

| Theorem | The safety half of | Rank |
|---|---|---|
| `HoldsAreBounded` | `LockReleased` | sixteen steps of `UnlockBootloader` |
| `WipesGoOn` | `ResumeCompletes` | the eleven last of them, without a fault |
| `OperationsAreBounded` | `BusyEnds` | the library calls of a core operation |
| `SessionsWindDown` | `SessionEnds` | three places once input has ended |
| `ConnectionsAreBounded` | `ConnectionEnds` | six places of a connection |
| `AcquiresAreBounded` | `AcquireEnds` | stage, then attempt, then sending or waiting |
| `CallsAreBounded` | `ConnectEnds` | the command, then the poll |
| `ProgressShowsWork` | `ProgressEnds` | none: work shown is under way or over |

The second half is fairness and stays with TLC.

Every invariant and every action property of the passing runs is proved; the
refinement too. Only model-checked: liveness as such (`CleanupRetries`, `LockReleased`,
`ResumeCompletes`, `BusyEnds`, `RestartServes`, `SessionEnds`, `ConnectionEnds`,
`AcquireEnds`, `ConnectEnds`, `ProgressEnds`), since neither fairness nor `ENABLED` is
within the prover's reach; of `CleanupRetries` and `RestartServes`, which wait for a
poll or for a new process, no half is proved. No module uses RECURSIVE,
and nothing proved needs induction over data. The properties of the last sections that
no run lists are defined in the proof modules, beside their theorems.

## Not modelled

- The inside of the update library (`atom.Stage`, `SyncBootState`, `Rollback`,
  `RepairLoader`): signatures, downloads, slot swaps and the WAL's format are not
  in this repository. `Core` has what its callers rely on.
- Parsing and formats: `sintykey` output, DHCP and netlink bytes, HTTP and JSON,
  the scan table, the syntax of a PIN. `Core.Status`, which only reads.
- A flag with a phase the code does not know, and file deletions that a power loss
  undoes.
- Permissions as the kernel enforces them. (`README.md:32` gives the socket mode
  0660; without a socket group `serve.go:288` sets 0600.)
- The values of the command line's flags; drawing, DRM and key codes of the UI;
  the pairing screen, which no key reaches; build and packaging.

## Plan

1. Done: the unlock transaction with the wipe, and the abstract transaction it
   implements; jobs, core, agent process and text UI, composed; the PIN daemon;
   DHCP; Wi-Fi; the screens of the Cairo UI; proofs for all of them.
2. `Ui` over `Agent` in place of its reduced agent, which needs a smaller `Ui` to
   stay within TLC's reach; `Wifi` over `Dhcp` for one `POST /connect`.
3. A PIN changed by `sinty-pind` between the arm and the unlock that verifies it.
4. Proofs across modules: the agent that `Ui` sees as an abstraction of `Jobs` and
   `Unlock`.
