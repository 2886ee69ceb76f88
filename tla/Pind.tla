--------------------------------- MODULE Pind ---------------------------------
(***************************************************************************)
(* sinty-pind (cmd/sinty-pind/main.go): the daemon through which a desktop *)
(* user changes the PIN.  Each connection is a goroutine that takes the    *)
(* caller's uid from the kernel, reads the current and the new PIN under   *)
(* a deadline, and runs sintykey change-pin, for as long as it takes and   *)
(* beside the commands of other connections.  sintykey, outside the        *)
(* repository, unseals under the current PIN and then re-seals under the   *)
(* new one.  The service manager starts the daemon again when it fails.    *)
(***************************************************************************)
EXTENDS Naturals

CONSTANTS
  Conns,      \* connections, one request each
  Users,      \* desktop accounts
  PINs,       \* what a client may send
  LongPINs,   \* the PINs of at least four characters
  MaxCrashes  \* bound: deaths of the daemon

ASSUME PindAssumption == LongPINs \subseteq PINs /\ Users \subseteq LongPINs /\ MaxCrashes \in Nat

VARIABLES
  proc,      \* the daemon: "none", "bound" or "serving"
  socket,    \* the socket file: "none", "live" or "stale"
  at,        \* where each connection is
  client,    \* history: the account that opened the connection
  uid,       \* the uid handle works for
  cur, new,  \* the PINs read from the connection
  sealed,    \* the PIN each account's key is sealed under
  set,       \* history: connections whose new PIN was sealed
  answer,    \* what the client was told
  crashes    \* how many more times the daemon may die

connVars == <<at, client, uid, cur, new, answer>>
vars == <<proc, socket, connVars, sealed, set, crashes>>

Open == {"accepted", "reading", "change", "reseal", "resealed", "failed"}

\* The PIN of an account before anyone changed it; accounts differ in it.
FirstPIN(u) == u

Init ==
  /\ proc = "none" /\ socket = "none" /\ crashes = MaxCrashes
  /\ at = [c \in Conns |-> "new"] /\ answer = [c \in Conns |-> "none"]
  /\ client \in [Conns -> Users] /\ uid = client
  /\ cur = client /\ new = client   \* nothing read yet
  /\ sealed = [u \in Users |-> FirstPIN(u)] /\ set = {}

Goes(c, place) == at' = [at EXCEPT ![c] = place]

\* The answer is written, or the deadline has passed and it is lost; either way
\* the connection is closed.
Answer(c, text) ==
  /\ answer' = [answer EXCEPT ![c] = text] \/ answer' = [answer EXCEPT ![c] = "lost"]
  /\ Goes(c, "closed")

-------------------------------------------------------------------------------
(* main *)

\* net.Listen alone: it fails while a file is in the way.
ListenOnly ==
  /\ proc = "none"
  /\ IF socket = "none" THEN proc' = "bound" /\ socket' = "live" ELSE UNCHANGED <<proc, socket>>
  /\ UNCHANGED <<connVars, sealed, set, crashes>>

\* os.Remove, then net.Listen.
Listen ==
  /\ proc = "none"
  /\ proc' = "bound" /\ socket' = "live"
  /\ UNCHANGED <<connVars, sealed, set, crashes>>

\* os.Chmod, then the loop.
Serve ==
  /\ proc = "bound" /\ proc' = "serving"
  /\ UNCHANGED <<socket, connVars, sealed, set, crashes>>

\* A failed chmod or a death: the socket file stays, connections are cut and
\* their commands with them.
Crash ==
  /\ proc # "none" /\ proc' = "none" /\ socket' = "stale"
  /\ crashes > 0 /\ crashes' = crashes - 1
  /\ at' = [c \in Conns |-> IF at[c] \in Open THEN "closed" ELSE at[c]]
  /\ UNCHANGED <<client, uid, cur, new, answer, sealed, set>>

Accept(c) ==
  /\ proc = "serving" /\ at[c] = "new"
  /\ Goes(c, "accepted")
  /\ UNCHANGED <<proc, socket, client, uid, cur, new, answer, sealed, set, crashes>>

-------------------------------------------------------------------------------
(* handle *)

uidAsClaimed(c) ==
  /\ at[c] = "accepted"
  /\ uid' \in {[uid EXCEPT ![c] = u] : u \in Users} /\ Goes(c, "reading")
  /\ UNCHANGED <<proc, socket, client, cur, new, answer, sealed, set, crashes>>

\* SO_PEERCRED, or a refusal.
peerUID(c) ==
  /\ at[c] = "accepted"
  /\ \/ uid' = [uid EXCEPT ![c] = client[c]] /\ Goes(c, "reading") /\ UNCHANGED answer
     \/ Answer(c, "refused") /\ UNCHANGED uid
  /\ UNCHANGED <<proc, socket, client, cur, new, sealed, set, crashes>>

AnyLength(c) ==
  /\ at[c] = "reading"
  /\ \E p, q \in PINs : cur' = [cur EXCEPT ![c] = p] /\ new' = [new EXCEPT ![c] = q]
  /\ Goes(c, "change")
  /\ UNCHANGED <<proc, socket, client, uid, answer, sealed, set, crashes>>

\* Both lines, the new PIN long enough.
ReadPINs(c) ==
  /\ at[c] = "reading"
  /\ \E p \in PINs, q \in LongPINs : cur' = [cur EXCEPT ![c] = p] /\ new' = [new EXCEPT ![c] = q]
  /\ Goes(c, "change")
  /\ UNCHANGED <<proc, socket, client, uid, answer, sealed, set, crashes>>

\* A protocol error, a short PIN, or a client that sends nothing until the
\* deadline ends the read.
ReadFails(c) ==
  /\ at[c] = "reading"
  /\ Answer(c, "refused")
  /\ UNCHANGED <<proc, socket, client, uid, cur, new, sealed, set, crashes>>

\* sintykey change-pin unseals under the current PIN; the wrong one fails.
Unseal(c) ==
  /\ at[c] = "change"
  /\ \/ cur[c] = sealed[uid[c]] /\ Goes(c, "reseal")
     \/ Goes(c, "failed")
  /\ UNCHANGED <<proc, socket, client, uid, cur, new, answer, sealed, set, crashes>>

\* It re-seals under the new one, and may fail before or after it has.
Reseal(c) ==
  /\ at[c] = "reseal"
  /\ \/ /\ sealed' = [sealed EXCEPT ![uid[c]] = new[c]]
        /\ set' = set \cup {c}
        /\ Goes(c, "resealed") \/ Goes(c, "failed")
     \/ Goes(c, "failed") /\ UNCHANGED <<sealed, set>>
  /\ UNCHANGED <<proc, socket, client, uid, cur, new, answer, crashes>>

ReplyAlwaysOK(c) ==
  /\ at[c] \in {"resealed", "failed"} /\ Answer(c, "OK")
  /\ UNCHANGED <<proc, socket, client, uid, cur, new, sealed, set, crashes>>

\* OK when the command succeeded.
Reply(c) ==
  /\ \/ at[c] = "resealed" /\ Answer(c, "OK")
     \/ at[c] = "failed" /\ Answer(c, "FAIL")
  /\ UNCHANGED <<proc, socket, client, uid, cur, new, sealed, set, crashes>>

handle(c) == peerUID(c) \/ ReadPINs(c) \/ ReadFails(c) \/ Unseal(c) \/ Reseal(c) \/ Reply(c)

Next ==
  \/ Listen \/ Serve \/ Crash
  \/ \E c \in Conns : Accept(c) \/ (proc = "serving" /\ handle(c))

Spec == Init /\ [][Next]_vars

\* The deadline ends every read and write, and the accept loop runs.  That
\* sintykey ends is assumed of it, that a failed daemon is started again is
\* Restart=on-failure in packaging/sinty-pind.service.
Fairness ==
  /\ WF_vars(Listen) /\ WF_vars(Serve)
  /\ \A c \in Conns :
       /\ WF_vars(Accept(c))
       /\ WF_vars(proc = "serving" /\ (peerUID(c) \/ ReadFails(c) \/ Unseal(c) \/ Reseal(c) \/ Reply(c)))

FairSpec == Spec /\ Fairness

-------------------------------------------------------------------------------
(* Properties *)

TypeOK ==
  /\ proc \in {"none", "bound", "serving"} /\ socket \in {"none", "live", "stale"}
  /\ at \in [Conns -> Open \cup {"new", "closed"}]
  /\ client \in [Conns -> Users] /\ uid \in [Conns -> Users]
  /\ cur \in [Conns -> PINs] /\ new \in [Conns -> LongPINs]
  /\ sealed \in [Users -> LongPINs] /\ set \subseteq Conns
  /\ answer \in [Conns -> {"none", "lost", "refused", "FAIL", "OK"}]
  /\ crashes \in 0..MaxCrashes

\* c's new PIN follows, in its client's own account, the first PIN or one that
\* a connection of the same account had set.
Follows(c) ==
  \/ cur[c] = FirstPIN(client[c])
  \/ \E d \in set : client[d] = client[c] /\ new[d] = cur[c]

\* However connections interleave, every PIN in force goes back to the account's
\* first one through connections of that account, each of which knew the PIN the
\* one before had set: nobody changes another account's PIN, or one not known.
PINChain ==
  /\ \A c \in set : Follows(c)
  /\ \A u \in Users :
       sealed[u] = FirstPIN(u) \/ \E c \in set : client[c] = u /\ new[c] = sealed[u]

\* "OK" is only said of a change that happened, and a request that was refused
\* before the command ran changed nothing, though the answer to one that did
\* change the PIN may be lost or be a failure.
AnswersAreTrue ==
  \A c \in Conns : (answer[c] = "OK" => c \in set) /\ (answer[c] = "refused" => c \notin set)

\* Every connection that waits to be accepted is, and is closed in the end:
\* whatever its client does not send, and however the daemon died, since the next
\* one gets past the socket file it left.
ConnectionEnds == \A c \in Conns : at[c] # "closed" ~> at[c] = "closed"
===============================================================================
