------------------------------ MODULE JobsProofs ------------------------------
(***************************************************************************)
(* BusyIsTrue for every set of requests and verbs.  It is inductive as it  *)
(* stands once the types are known: a step either leaves the status alone  *)
(* and its witness running, or writes a status of its own.                 *)
(***************************************************************************)
EXTENDS Jobs, TLAPS

JInv == TypeOK /\ BusyIsTrue

\* The initial status claims nothing.
LEMMA InitJInv == Init => JInv
<1> SUFFICES ASSUME Init PROVE JInv
  OBVIOUS
<1>1. online \in BOOLEAN
  BY Zenon DEF Init
<1>2. TypeOK
  BY <1>1 DEF Init, TypeOK, Places, Idle, Failed
<1>3. BusyIsTrue
  BY DEF Init, BusyIsTrue, Idle, Connecting, Working
<1>4. QED
  BY <1>2, <1>3 DEF JInv

\* A step that does not end the work the status names keeps the claim.
LEMMA BusyUnchanged ==
  ASSUME JInv, NEW r \in Requests, UNCHANGED <<state, message>>,
         pc[r] \notin {"running", "connecting", "connected"} \/ (pc[r] = "connecting" /\ pc'[r] = "connected"),
         \A q \in Requests \ {r} : pc'[q] = pc[q] /\ verb'[q] = verb[q]
  PROVE  BusyIsTrue'
<1>1. ASSUME state = Working PROVE \E q \in Requests : pc'[q] = "running" /\ verb'[q] = message'
  <2>1. PICK q \in Requests : pc[q] = "running" /\ verb[q] = message
    BY <1>1 DEF JInv, BusyIsTrue
  <2>2. QED
    BY <2>1
<1>2. ASSUME state = Connecting PROVE \E q \in Requests : pc'[q] \in {"connecting", "connected"}
  <2>1. PICK q \in Requests : pc[q] \in {"connecting", "connected"}
    BY <1>2 DEF JInv, BusyIsTrue
  <2>2. QED
    BY <2>1
<1>3. QED
  BY <1>1, <1>2 DEF BusyIsTrue

\* Every step keeps the types and the claim.
LEMMA NextJInv == JInv /\ [Next]_vars => JInv'
<1> SUFFICES ASSUME JInv, [Next]_vars PROVE JInv'
  OBVIOUS
<1> USE DEF Idle, Connecting, Working, Done, Failed
<1>0. TypeOK
  BY DEF JInv
<1>1. CASE UNCHANGED vars
  BY <1>1 DEF vars, JInv, TypeOK, BusyIsTrue
<1>2. ASSUME NEW r \in Requests, NEW v \in Verbs, CheckWorking(r, v) PROVE JInv'
  <2>1. TypeOK'
    BY <1>0, <1>2 DEF TypeOK, CheckWorking, Goes, Places
  <2>2. BusyIsTrue'
    BY <1>0, <1>2, BusyUnchanged DEF TypeOK, CheckWorking, Goes
  <2>3. QED
    BY <2>1, <2>2 DEF JInv
<1>3. ASSUME NEW r \in Requests, StartJob(r) PROVE JInv'
  <2>1. TypeOK'
    BY <1>0, <1>3 DEF TypeOK, StartJob, set, Goes, Places
  <2>2. pc'[r] = "running" /\ verb'[r] = message' /\ state' = Working
    BY <1>0, <1>3 DEF TypeOK, StartJob, set, Goes
  <2>3. QED
    BY <2>1, <2>2 DEF JInv, BusyIsTrue
<1>4. ASSUME NEW r \in Requests, JobEnds(r) \/ ConnectFails(r) \/ ConnectEnds(r) PROVE JInv'
  <2>1. TypeOK'
    BY <1>0, <1>4 DEF TypeOK, JobEnds, ConnectFails, ConnectEnds, set, Goes, Places
  <2>2. state' \notin {Working, Connecting}
    BY <1>4 DEF JobEnds, ConnectFails, ConnectEnds, set
  <2>3. QED
    BY <2>1, <2>2 DEF JInv, BusyIsTrue
<1>5. ASSUME NEW r \in Requests, ConnectBegins(r) PROVE JInv'
  <2>1. TypeOK'
    BY <1>0, <1>5 DEF TypeOK, ConnectBegins, set, Goes, Places
  <2>2. state' = Connecting /\ pc'[r] = "connecting"
    BY <1>0, <1>5 DEF TypeOK, ConnectBegins, set, Goes
  <2>3. QED
    BY <2>1, <2>2 DEF JInv, BusyIsTrue
<1>6. ASSUME NEW r \in Requests, SetOnline(r) PROVE JInv'
  <2>1. TypeOK'
    BY <1>0, <1>6 DEF TypeOK, SetOnline, Goes, Places
  <2>2. BusyIsTrue'
    BY <1>0, <1>6, BusyUnchanged DEF TypeOK, SetOnline, Goes
  <2>3. QED
    BY <2>1, <2>2 DEF JInv
<1>7. ASSUME NEW r \in Requests, UnlockBegins(r) PROVE JInv'
  <2>1. TypeOK'
    BY <1>0, <1>7 DEF TypeOK, UnlockBegins, Goes, Places
  <2>2. BusyIsTrue'
    BY <1>0, <1>7, BusyUnchanged DEF TypeOK, UnlockBegins, Goes
  <2>3. QED
    BY <2>1, <2>2 DEF JInv
<1>8. ASSUME NEW r \in Requests, UnlockEnds(r) PROVE JInv'
  <2>1. TypeOK'
    BY <1>0, <1>8 DEF TypeOK, UnlockEnds, set, Goes, Places
  <2>2. BusyIsTrue'
    <3>1. CASE state' = Done
      BY <3>1 DEF BusyIsTrue
    <3>2. CASE UNCHANGED <<state, message>>
      BY <1>0, <1>8, <3>2, BusyUnchanged DEF TypeOK, UnlockEnds, Goes
    <3>3. QED
      BY <1>8, <3>1, <3>2 DEF UnlockEnds, set
  <2>3. QED
    BY <2>1, <2>2 DEF JInv
<1>9. QED
  BY <1>1, <1>2, <1>3, <1>4, <1>5, <1>6, <1>7, <1>8 DEF Next, Ends

\* What GET /status says is going on is going on, whatever races with it.
THEOREM StatusIsTrue == Spec => []BusyIsTrue
<1>1. JInv => BusyIsTrue
  BY DEF JInv
<1>2. QED
  BY InitJInv, NextJInv, <1>1, PTL DEF Spec
=============================================================================
