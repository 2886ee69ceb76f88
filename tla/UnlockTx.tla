------------------------------- MODULE UnlockTx -------------------------------
(***************************************************************************)
(* The bootloader unlock as its callers may rely on it: a transaction that *)
(* an owner opens with a PIN, that anyone may take back until it is        *)
(* recorded, that erases only once it is recorded, and that ends, counted, *)
(* with the bootloader unlocked.  No mutex, no requests, no volumes and no *)
(* resumption: module Unlock is shown to implement this one, and module    *)
(* Tty uses it as the core behind the text UI.                             *)
(***************************************************************************)
EXTENDS Naturals

CONSTANTS Owners, NoOwner, Private

VARIABLES
  tx,        \* the transaction as the agent reads it
  kept,      \* the transaction as a power loss would bring it back
  readable,  \* no read of it has failed so far
  grants,    \* owners who opened it with a PIN and did not take it back
  proofs,    \* owners who gave the PIN again in recovery
  private,   \* the user data still on the installed volume
  locked     \* the lock bit

txVars == <<tx, kept, readable, grants, proofs, private, locked>>

NoTx == [stage |-> "none", owner |-> NoOwner, count |-> 0]

TxInit ==
  /\ tx = NoTx /\ kept = NoTx /\ readable = TRUE
  /\ grants = {} /\ proofs = {}
  /\ private = Private /\ locked = TRUE

\* What a caller goes on with; a read that fails reads as NoTx.
Read(t) ==
  \/ t = tx /\ UNCHANGED readable
  \/ t = NoTx /\ readable' = FALSE

\* The count means something only as long as every read has succeeded.
Known(t) == IF readable' THEN t ELSE [t EXCEPT !.count = 0]

\* A write: done for good, visible only, or without effect.
Outcomes == {"ok", "unsynced", "lost"}

Write(t, w) ==
  /\ tx' = Known(IF w = "lost" THEN tx ELSE t)
  /\ kept' = Known(IF w = "ok" THEN t ELSE kept)

-------------------------------------------------------------------------------

\* An owner's PIN opens the transaction, or opens it anew, unless it is recorded.
Open(o) ==
  \E t \in {tx, NoTx}, w \in Outcomes :
    /\ Read(t) /\ t.stage # "recorded"
    /\ Write([stage |-> "armed", owner |-> o, count |-> t.count], w)
    /\ grants' = IF w = "ok" THEN {o} ELSE IF w = "lost" THEN grants ELSE grants \cup {o}
    /\ proofs' = IF w = "ok" THEN {} ELSE proofs
    /\ UNCHANGED <<private, locked>>

\* It is taken back, or, once the bootloader is unlocked, counted and ended.
CloseAs(w) ==
  \E t \in {tx, NoTx} :
    /\ Read(t) /\ (t.stage = "recorded" => ~ locked)
    /\ Write([stage |-> "none", owner |-> NoOwner,
              count |-> IF t.stage = "recorded" THEN t.count + 1 ELSE t.count], w)
    /\ grants' = IF w = "ok" THEN {} ELSE grants
    /\ proofs' = IF w = "ok" THEN {} ELSE proofs
    /\ UNCHANGED <<private, locked>>

Close == \E w \in Outcomes : CloseAs(w)

Prove(o) ==
  /\ o \in grants
  /\ proofs' = proofs \cup {o}
  /\ UNCHANGED <<tx, kept, readable, grants, private, locked>>

\* The point of no return, for the owner who opened it and proved it again.
Record(o) ==
  /\ o \in grants \cap proofs
  /\ readable => tx.stage = "armed" /\ tx.owner = o
  /\ UNCHANGED <<readable, grants, proofs, private, locked>>
  /\ \E w \in Outcomes : Write([stage |-> "recorded", owner |-> o, count |-> tx.count], w)

MayErase == grants \cap proofs # {} /\ (readable => tx.stage = "recorded")

Erase ==
  /\ MayErase
  /\ private' \in SUBSET private
  /\ UNCHANGED <<tx, kept, readable, grants, proofs, locked>>

\* The lock bit goes last.
Flip ==
  /\ MayErase /\ private = {}
  /\ locked' = FALSE
  /\ UNCHANGED <<tx, kept, readable, grants, proofs, private>>

-------------------------------------------------------------------------------
(* The environment *)

PowerLoss ==
  /\ tx' = kept
  /\ private' \in IF MayErase THEN SUBSET private ELSE {private}
  /\ UNCHANGED <<kept, readable, grants, proofs, locked>>

Sync == kept' = tx /\ UNCHANGED <<tx, readable, grants, proofs, private, locked>>

Damage ==
  /\ tx' = NoTx /\ kept' = NoTx /\ readable' = FALSE
  /\ UNCHANGED <<grants, proofs, private, locked>>

\* The installed system is set up (again) and used.
Use == private' = Private /\ UNCHANGED <<tx, kept, readable, grants, proofs, locked>>

TxNext ==
  \/ \E o \in Owners : Open(o) \/ Prove(o) \/ Record(o)
  \/ Close \/ Erase \/ Flip \/ PowerLoss \/ Sync \/ Damage \/ Use

TxSpec == TxInit /\ [][TxNext]_txVars
===============================================================================
