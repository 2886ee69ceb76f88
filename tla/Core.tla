--------------------------------- MODULE Core ---------------------------------
(***************************************************************************)
(* The recovery operations of internal/recovery/core.go and reinstall.go:  *)
(* reinstall, repair, rollback and loader repair, as calls that either UI  *)
(* makes.  What the update library does in Stage, SyncBootState and        *)
(* Rollback is outside the repository and reduced to what these callers    *)
(* rely on: Stage downloads to a file of its own in the slot directory,    *)
(* checks it, and puts it in the -next slot and in the WAL as one step.    *)
(* Nothing here is under a mutex, so calls of two callers interleave.      *)
(***************************************************************************)

CONSTANT Callers   \* goroutines that call the core

VARIABLES
  wal,        \* deployment.json: the slot to boot and last_known_good
  bootState,  \* the slot the next boot tries, derived from the WAL
  slots,      \* the slots that hold a whole image
  downloads,  \* callers whose download is in the slot directory, to be staged
  call,       \* where each caller is in a core operation
  link,       \* the machine is on a network
  lag         \* history: the last reinstall ended between its two library calls

coreVars == <<wal, bootState, slots, downloads, call, link, lag>>

Slots == {"active", "next", "prev"}

CallPlaces == {"none", "fetch", "stage", "sync", "repair", "rollback", "loader", "ok", "failed"}

\* Recovery starts with the slot that no longer boots as the current one, and
\* with or without a last good one.
CoreInit ==
  /\ wal \in {[try |-> "active", good |-> g] : g \in {"prev", "none"}}
  /\ bootState = "active"
  /\ slots = {wal.good} \ {"none"}
  /\ downloads = {} /\ link = FALSE /\ lag = FALSE
  /\ call = [c \in Callers |-> "none"]

At(c, place) == call' = [call EXCEPT ![c] = place]

-------------------------------------------------------------------------------
(* Reinstall: atom.Stage, then atom.SyncBootState *)

\* Stage downloads and verifies the signed image.
Fetch(c) ==
  /\ call[c] = "fetch" /\ link
  /\ downloads' = downloads \cup {c}
  /\ At(c, "stage")
  /\ UNCHANGED <<wal, bootState, slots, link, lag>>

\* Stage moves it to the -next slot; there is nothing to move when the file has
\* gone, and the library fails.
Stage(c) ==
  /\ call[c] = "stage" /\ c \in downloads
  /\ slots' = slots \cup {"next"}
  /\ downloads' = downloads \ {c}
  /\ wal' = [wal EXCEPT !.try = "next"]
  /\ At(c, "sync")
  /\ UNCHANGED <<bootState, link, lag>>

SkipSync(c) ==
  /\ call[c] = "sync"
  /\ At(c, "ok")
  /\ UNCHANGED <<wal, bootState, slots, downloads, link, lag>>

\* Point the derived boot state at the candidate, or fail with the image staged.
SyncBootState(c) ==
  /\ call[c] = "sync"
  /\ \/ bootState' = wal.try /\ At(c, "ok") /\ lag' = FALSE
     \/ bootState' = bootState /\ At(c, "failed") /\ lag' = TRUE
  /\ UNCHANGED <<wal, slots, downloads, link>>

Reinstall(c) == Fetch(c) \/ Stage(c) \/ SyncBootState(c)

-------------------------------------------------------------------------------

\* Repair: only with a last good slot to return to.
Repair(c) ==
  /\ call[c] = "repair" /\ wal.good # "none"
  /\ At(c, "rollback")
  /\ UNCHANGED <<wal, bootState, slots, downloads, link, lag>>

\* atom.Rollback: the WAL and the boot state return to the last good slot.
Rollback(c) ==
  /\ call[c] = "rollback" /\ wal.good # "none"
  /\ wal' = [wal EXCEPT !.try = wal.good]
  /\ bootState' = wal.good /\ lag' = FALSE
  /\ At(c, "ok")
  /\ UNCHANGED <<slots, downloads, link>>

\* RepairLoader reads the loader and its signature and hands them over; the
\* loader on the ESP is outside the slots.
RepairLoader(c) ==
  /\ call[c] = "loader"
  /\ At(c, "ok")
  /\ UNCHANGED <<wal, bootState, slots, downloads, link, lag>>

\* Any call fails where it is; a download it leaves behind is used by nobody.
CoreFails(c) ==
  /\ call[c] \in {"fetch", "stage", "repair", "rollback", "loader"}
  /\ downloads' = downloads \ {c}
  /\ At(c, "failed")
  /\ UNCHANGED <<wal, bootState, slots, link, lag>>

CoreStep(c) == Reinstall(c) \/ Repair(c) \/ Rollback(c) \/ RepairLoader(c) \/ CoreFails(c)

-------------------------------------------------------------------------------
(* What others do to the same directory and the same network *)

KeepActiveOnly == {"active"}

\* The slot images in scrubBootArtifacts' keep map.
KeptSlots == {"active", "next", "prev"}

\* scrubBootArtifacts in an unlock, whole or torn: everything but the slots and
\* the WAL goes, downloads under way among it.
Scrub ==
  /\ downloads' \in SUBSET downloads
  /\ slots' = slots \cap KeptSlots
  /\ UNCHANGED <<wal, bootState, call, link, lag>>

LinkLost ==
  /\ link /\ link' = FALSE
  /\ UNCHANGED <<wal, bootState, slots, downloads, call, lag>>

\* The process ends and its calls with it; the files stay.
CallsCut ==
  /\ call' = [c \in Callers |-> "none"]
  /\ lag' = (lag \/ \E c \in Callers : call[c] = "sync")
  /\ downloads' = {}
  /\ UNCHANGED <<wal, bootState, slots, link>>

-------------------------------------------------------------------------------
(* Properties *)

CoreTypeOK ==
  /\ wal \in [try : Slots, good : {"prev", "none"}]
  /\ bootState \in Slots
  /\ slots \subseteq Slots
  /\ downloads \subseteq Callers
  /\ call \in [Callers -> CallPlaces]
  /\ link \in BOOLEAN /\ lag \in BOOLEAN

\* Whatever recovery did, the next boot finds a whole image, or the slot that
\* was there before: no reinstall, alone or beside another job or an unlock that
\* scrubs the same directory, points the boot state at a slot without one.
BootsWhole == bootState # "active" => bootState \in slots

\* The boot state and the WAL name the same slot, except while a reinstall is
\* between its two library calls, or after one that failed or was cut there.
BootFollowsWal ==
  bootState # wal.try => lag \/ \E c \in Callers : call[c] = "sync"
===============================================================================
