--------------------------------- MODULE Tty ---------------------------------
(***************************************************************************)
(* The text UI (internal/recovery/tty.go): one thread that prompts, reads  *)
(* a line and calls the core in the same process.  The bootloader unlock   *)
(* behind it is the transaction of UnlockTx, which module Unlock is shown  *)
(* to implement; reinstall, repair and loader repair are those of Core.    *)
(* Standard input may end at any prompt, and a signal cancels the context  *)
(* of every later scan, connect and reinstall without ending the session.  *)
(***************************************************************************)
EXTENDS UnlockTx, Core

CONSTANT Console   \* the one caller

ASSUME TtyAssumption == Console \in Callers /\ NoOwner \notin Owners

VARIABLES
  at,           \* the prompt or call the session is in
  echo,         \* the terminal shows what is typed
  eof,          \* standard input has ended
  interrupted,  \* ctx is cancelled
  typed,        \* what the unlock dialogue has been given: "pin", "word"
  said          \* what the unlock dialogue said last

ttyVars == <<at, echo, eof, interrupted, typed, said>>
sessionVars == <<txVars, coreVars, ttyVars>>

Prompts == {"menu", "pin", "confirm", "network", "password", "askReinstall", "askLoader"}
InCall == {"cancelling", "unlocking", "connecting", "working"}

\* A session finds no unlock, one its owner has armed, or one that was recorded
\* and interrupted.
TtyInit ==
  /\ \/ TxInit
     \/ \E o \in Owners, stage \in {"armed", "recorded"} :
          /\ tx = [stage |-> stage, owner |-> o, count |-> 0] /\ kept = tx
          /\ readable = TRUE /\ locked = TRUE
          /\ grants = {o} /\ proofs = IF stage = "armed" THEN {} ELSE {o}
          /\ private = Private
  /\ CoreInit
  /\ at = "menu" /\ echo = TRUE /\ eof = FALSE /\ interrupted = FALSE
  /\ typed = {} /\ said = ""

Enter(place) == at' = place

setEcho(on) == echo' = on

\* prompt with input: a line was read.
Line == ~ eof /\ UNCHANGED <<eof, interrupted>>

\* prompt without: Scan returns false, now and from then on.
NoLine == eof' = TRUE /\ UNCHANGED interrupted

-------------------------------------------------------------------------------
(* The unlock dialogue *)

\* LockState says locked, which a bit that cannot be read counts as, and armed;
\* otherwise the menu comes again.
ChooseUnlock ==
  /\ at = "menu" /\ Line
  /\ tx.stage # "none"
  /\ Enter("pin") /\ setEcho(FALSE) /\ typed' = {} /\ said' = ""
  /\ UNCHANGED <<txVars, coreVars>>

\* LockState on an unlocked device settles what a finished unlock left behind.
SettleOnChoice ==
  /\ at = "menu" /\ Line
  /\ ~ locked /\ tx.stage = "recorded" /\ Close
  /\ UNCHANGED <<coreVars, at, echo, typed, said>>

\* Owner PIN>, with the echo turned back on whatever was read.
ReadPIN ==
  /\ at = "pin" /\ setEcho(TRUE)
  /\ \/ Line /\ Enter("confirm") /\ typed' = {"pin"}
     \/ NoLine /\ Enter("cancelling") /\ UNCHANGED typed
  /\ UNCHANGED <<txVars, coreVars, said>>

ConfirmAnyWord ==
  /\ at = "confirm"
  /\ \/ Line /\ Enter("unlocking") /\ typed' \in {typed, typed \cup {"word"}}
     \/ NoLine /\ Enter("cancelling") /\ UNCHANGED typed
  /\ UNCHANGED <<txVars, coreVars, echo, said>>

\* Type UNLOCK exactly: anything else, and the end of input, cancels.
ReadConfirm ==
  /\ at = "confirm"
  /\ \/ Line /\ Enter("unlocking") /\ typed' = typed \cup {"word"}
     \/ (Line \/ NoLine) /\ Enter("cancelling") /\ UNCHANGED typed
  /\ UNCHANGED <<txVars, coreVars, echo, said>>

Says(text) == said' = text /\ Enter("menu") /\ typed' = {}

CancelAlwaysTold ==
  /\ at = "cancelling" /\ Says("cancelled")
  /\ Close \/ UNCHANGED txVars
  /\ UNCHANGED <<coreVars, echo, eof, interrupted>>

\* cancelUnlock: ArmUnlock(false) refuses a recorded transaction, and reports a
\* write that failed, whose effect may be there all the same.
cancelUnlock ==
  /\ at = "cancelling"
  /\ \/ \E w \in Outcomes : CloseAs(w) /\ Says(IF w = "ok" THEN "cancelled" ELSE "failed")
     \/ tx.stage = "recorded" /\ UNCHANGED txVars /\ Says("failed")
  /\ UNCHANGED <<coreVars, echo, eof, interrupted>>

\* The steps of UnlockBootloader(confirm, pin): the PIN that was typed is the
\* owner's, the transaction is recorded, the data goes, the lock bit flips.
UnlockStep ==
  /\ at = "unlocking"
  /\ \/ /\ \/ tx.stage = "armed" /\ (Prove(tx.owner) \/ Record(tx.owner))
           \/ tx.stage = "recorded" /\ Flip
        /\ UNCHANGED coreVars
     \/ tx.stage = "recorded" /\ Erase /\ Scrub
  /\ UNCHANGED ttyVars

\* It fails at any point, or has flipped the bit and ends the transaction,
\* successful whether or not that write is.
UnlockReturns ==
  /\ at = "unlocking"
  /\ \/ UNCHANGED txVars /\ Says("failed")
     \/ ~ locked /\ tx.stage = "recorded" /\ Close /\ Says("unlocked")
  /\ UNCHANGED <<coreVars, echo, eof, interrupted>>

-------------------------------------------------------------------------------
(* The other entries of the menu *)

\* doWifi scans first: an error, which a cancelled context is, or an empty list
\* returns to the menu.
ChooseWifi ==
  /\ at = "menu" /\ Line /\ ~ interrupted
  /\ Enter("network")
  /\ UNCHANGED <<txVars, coreVars, echo, typed, said>>

\* A number of the list, of an open network or of one that takes a password.
PickNetwork ==
  /\ at = "network"
  /\ \/ Line /\ Enter("password")
     \/ Line /\ Enter("connecting")
     \/ (Line \/ NoLine) /\ Enter("menu")
  /\ UNCHANGED <<txVars, coreVars, echo, typed, said>>

\* Without a line the password is empty and the connect is tried.
ReadPassword ==
  /\ at = "password" /\ (Line \/ NoLine)
  /\ Enter("connecting")
  /\ UNCHANGED <<txVars, coreVars, echo, typed, said>>

ConnectReturns ==
  /\ at = "connecting" /\ Enter("menu")
  /\ \/ ~ interrupted /\ link' = TRUE
     \/ UNCHANGED link
  /\ UNCHANGED <<txVars, wal, bootState, slots, downloads, call, lag, echo, eof,
                 interrupted, typed, said>>

Ask ==
  /\ at = "menu" /\ Line
  /\ Enter("askReinstall") \/ Enter("askLoader")
  /\ UNCHANGED <<txVars, coreVars, echo, typed, said>>

\* The core call a menu entry makes, blocking the session.
Calls(op) ==
  /\ call' = [call EXCEPT ![Console] = op] /\ Enter("working")
  /\ UNCHANGED <<wal, bootState, slots, downloads, link, lag>>

\* [s/N]: only "s" starts it.
Answer ==
  /\ \/ at = "askReinstall" /\ Line /\ Calls("fetch")
     \/ at = "askLoader" /\ Line /\ Calls("loader")
     \/ at \in {"askReinstall", "askLoader"} /\ (Line \/ NoLine) /\ Enter("menu") /\ UNCHANGED coreVars
  /\ UNCHANGED <<txVars, echo, typed, said>>

ChooseRepair ==
  /\ at = "menu" /\ Line /\ Calls("repair")
  /\ UNCHANGED <<txVars, echo, typed, said>>

\* Fetching an image takes ctx; the other operations do not.
Work ==
  /\ at = "working"
  /\ CoreStep(Console) /\ (call[Console] = "fetch" /\ interrupted => call'[Console] = "failed")
  /\ UNCHANGED <<txVars, ttyVars>>

WorkReturns ==
  /\ at = "working" /\ call[Console] \in {"ok", "failed"}
  /\ At(Console, "none") /\ Enter("menu")
  /\ UNCHANGED <<txVars, wal, bootState, slots, downloads, link, lag, echo, eof,
                 interrupted, typed, said>>

MenuIgnoresEnd ==
  /\ at = "menu"
  /\ \/ Line /\ Enter("gone")
     \/ NoLine /\ Enter("menu")
  /\ UNCHANGED <<txVars, coreVars, echo, typed, said>>

\* q, a reboot, or the end of input.
Leave ==
  /\ at = "menu"
  /\ Line \/ NoLine
  /\ Enter("gone")
  /\ UNCHANGED <<txVars, coreVars, echo, typed, said>>

Signal ==
  /\ at # "gone" /\ ~ interrupted /\ interrupted' = TRUE
  /\ UNCHANGED <<txVars, coreVars, at, echo, eof, typed, said>>

\* The power goes: the session with it, what was told to the operator not.  The
\* wipe of a running unlock may get on before it does.
PowerFails ==
  /\ PowerLoss /\ (private' # private => at = "unlocking" /\ tx.stage = "recorded") /\ CallsCut
  /\ at' = "menu" /\ echo' = TRUE /\ eof' = FALSE /\ interrupted' = FALSE
  /\ typed' = {} /\ UNCHANGED said

Writeback == Sync /\ UNCHANGED <<coreVars, ttyVars>>

\* A call ends, whatever comes of it.
Returns == cancelUnlock \/ UnlockReturns \/ ConnectReturns \/ Work \/ WorkReturns

Reads == ReadPIN \/ ReadConfirm \/ PickNetwork \/ ReadPassword \/ Answer \/ Leave

TtyNext ==
  \/ ChooseUnlock \/ SettleOnChoice \/ UnlockStep \/ ChooseWifi \/ Ask \/ ChooseRepair
  \/ Reads \/ Returns
  \/ Signal \/ PowerFails \/ Writeback

\* Calls return, and at the end of input so does every prompt.
TtyFairness == WF_sessionVars(Returns) /\ WF_sessionVars(eof /\ Reads)

-------------------------------------------------------------------------------
(* Properties *)

TtyTypeOK ==
  /\ CoreTypeOK
  /\ tx.stage \in {"none", "armed", "recorded"} /\ tx.owner \in Owners \cup {NoOwner}
  /\ private \subseteq Private /\ locked \in BOOLEAN
  /\ at \in Prompts \cup InCall \cup {"gone"}
  /\ echo \in BOOLEAN /\ eof \in BOOLEAN /\ interrupted \in BOOLEAN
  /\ typed \subseteq {"pin", "word"}
  /\ said \in {"", "cancelled", "failed", "unlocked"}

\* Input that ends, or a signal, at the PIN prompt does not leave the console
\* without echo for the rest of the session.
EchoRestored == at # "pin" => echo

\* "Unlock cancelled." (tty.go:122) is final: no armed or recorded consent is
\* left, neither in the flag the agent reads nor in the one a power loss brings
\* back, although the same dialogue may have got as far as a failed attempt.
CancelledForGood == said = "cancelled" => tx.stage = "none" /\ kept.stage = "none"

\* Data goes only in a dialogue that was given a PIN and the exact word, on a
\* recorded transaction whose owner proved the PIN, now or before an interruption.
ErasedAsTyped ==
  [][private' # private =>
       /\ at = "unlocking" /\ typed = {"pin", "word"}
       /\ tx.stage = "recorded" /\ tx.owner \in proofs]_sessionVars

\* Input that ends ends the session, from every prompt and every call, and leaves
\* the console with its echo on: no prompt is repeated for ever (unless the power
\* goes first).
SessionEnds == eof ~> ((at = "gone" /\ echo) \/ ~ eof)
===============================================================================
