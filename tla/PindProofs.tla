------------------------------ MODULE PindProofs ------------------------------
(***************************************************************************)
(* sinty-pind for any number of connections, accounts and PINs.            *)
(***************************************************************************)
EXTENDS Pind, TLAPS

Settled == {"resealed", "failed", "closed"}

\* A connection works for its client, re-seals only what follows, and sets a
\* PIN before it says so.
ConnInv ==
  /\ uid = client
  /\ \A c \in Conns : at[c] = "reseal" => Follows(c)
  /\ \A c \in Conns : at[c] = "resealed" => c \in set
  /\ \A c \in set : at[c] \in Settled
  /\ \A c \in Conns : at[c] # "closed" => answer[c] = "none"

PInv == TypeOK /\ ConnInv /\ PINChain /\ AnswersAreTrue

LEMMA InitPInv == Init => PInv
<1> SUFFICES ASSUME Init PROVE PInv
  OBVIOUS
<1>1. TypeOK
  BY PindAssumption DEF Init, TypeOK, FirstPIN
<1>2. ConnInv /\ PINChain /\ AnswersAreTrue
  BY DEF Init, ConnInv, PINChain, AnswersAreTrue, FirstPIN
<1>3. QED
  BY <1>1, <1>2 DEF PInv

\* A step that seals nothing, reads nothing for a connection that has sealed and
\* moves one connection c on keeps the chain.
LEMMA ChainKept ==
  ASSUME PInv, NEW c \in Conns, at[c] \notin Settled,
         \A d \in Conns \ {c} : cur'[d] = cur[d] /\ new'[d] = new[d],
         UNCHANGED <<client, sealed, set>>
  PROVE  PINChain' /\ \A d \in Conns \ {c} : Follows(d) => Follows(d)'
<1>1. set \subseteq Conns \ {c}
  BY DEF PInv, TypeOK, ConnInv
<1>2. ASSUME NEW d \in Conns \ {c}, Follows(d) PROVE Follows(d)'
  BY <1>1, <1>2 DEF Follows, FirstPIN
<1>3. PINChain'
  BY <1>1, <1>2 DEF PInv, PINChain, FirstPIN
<1>4. QED
  BY <1>2, <1>3

\* A step that leaves every PIN alone.
LEMMA ChainSame ==
  ASSUME PInv, UNCHANGED <<client, cur, new, sealed, set>>
  PROVE  PINChain' /\ \A d \in Conns : Follows(d) => Follows(d)'
<1>1. ASSUME NEW d \in Conns, Follows(d) PROVE Follows(d)'
  BY <1>1 DEF Follows, FirstPIN
<1>2. set \subseteq Conns
  BY DEF PInv, TypeOK
<1>3. PINChain'
  BY <1>1, <1>2 DEF PInv, PINChain, FirstPIN
<1>4. QED
  BY <1>1, <1>3

LEMMA NextPInv == PInv /\ [Next]_vars => PInv'
<1> SUFFICES ASSUME PInv, [Next]_vars PROVE PInv'
  OBVIOUS
<1>0. TypeOK /\ ConnInv /\ PINChain /\ AnswersAreTrue /\ uid = client
  BY DEF PInv, ConnInv
<1> USE DEF Open, Settled
<1>1. CASE UNCHANGED vars
  BY <1>0, <1>1, ChainSame DEF PInv, TypeOK, ConnInv, AnswersAreTrue, vars, connVars
<1>2. CASE Listen \/ Serve
  BY <1>0, <1>2, ChainSame DEF PInv, TypeOK, ConnInv, AnswersAreTrue, Listen, Serve, connVars
<1>3. CASE Crash
  <2>1. TypeOK'
    <3>1. at' \in [Conns -> Open \cup {"new", "closed"}]
      BY <1>0, <1>3 DEF TypeOK, Crash
    <3>2. crashes' \in 0..MaxCrashes
      BY <1>0, <1>3, PindAssumption DEF TypeOK, Crash
    <3>3. QED
      BY <1>0, <1>3, <3>1, <3>2 DEF TypeOK, Crash
  <2>2. ConnInv' /\ PINChain' /\ AnswersAreTrue'
    BY <1>0, <1>3, ChainSame DEF Crash, TypeOK, ConnInv, AnswersAreTrue
  <2>3. QED
    BY <2>1, <2>2 DEF PInv
<1>4. ASSUME NEW c \in Conns, Accept(c) PROVE PInv'
  <2>1. TypeOK'
    BY <1>0, <1>4 DEF TypeOK, Accept, Goes
  <2>2. ConnInv' /\ PINChain' /\ AnswersAreTrue'
    BY <1>0, <1>4, ChainSame DEF Accept, Goes, TypeOK, ConnInv, AnswersAreTrue
  <2>3. QED
    BY <2>1, <2>2 DEF PInv
<1>5. ASSUME NEW c \in Conns, peerUID(c) PROVE PInv'
  <2>1. TypeOK'
    BY <1>0, <1>5 DEF TypeOK, peerUID, Goes, Answer
  <2>2. uid' = client'
    BY <1>0, <1>5 DEF peerUID, TypeOK
  <2>3. c \notin set
    BY <1>0, <1>5 DEF ConnInv, peerUID
  <2>4. ConnInv' /\ PINChain' /\ AnswersAreTrue'
    BY <1>0, <1>5, <2>2, <2>3, ChainSame DEF peerUID, Goes, Answer, TypeOK, ConnInv, AnswersAreTrue
  <2>5. QED
    BY <2>1, <2>4 DEF PInv
<1>6. ASSUME NEW c \in Conns, ReadPINs(c) PROVE PInv'
  <2>1. TypeOK'
    BY <1>0, <1>6 DEF TypeOK, ReadPINs, Goes
  <2>2. PINChain' /\ \A d \in Conns \ {c} : Follows(d) => Follows(d)'
    BY <1>0, <1>6, ChainKept DEF ReadPINs, TypeOK
  <2>3. at' = [at EXCEPT ![c] = "change"] /\ at[c] = "reading" /\ set' = set /\ uid' = client' /\ answer' = answer
    BY <1>0, <1>6 DEF ReadPINs, Goes
  <2>4. ConnInv' /\ AnswersAreTrue'
    BY <1>0, <2>2, <2>3 DEF TypeOK, ConnInv, AnswersAreTrue
  <2>5. QED
    BY <2>1, <2>2, <2>4 DEF PInv
<1>7. ASSUME NEW c \in Conns, ReadFails(c) PROVE PInv'
  <2>1. TypeOK' /\ c \notin set
    BY <1>0, <1>7 DEF TypeOK, ConnInv, ReadFails, Goes, Answer
  <2>2. ConnInv' /\ PINChain' /\ AnswersAreTrue'
    BY <1>0, <1>7, <2>1, ChainSame DEF ReadFails, Goes, Answer, TypeOK, ConnInv, AnswersAreTrue
  <2>3. QED
    BY <2>1, <2>2 DEF PInv
<1>8. ASSUME NEW c \in Conns, Unseal(c) PROVE PInv'
  <2>1. TypeOK'
    BY <1>0, <1>8 DEF TypeOK, Unseal, Goes
  <2>2. cur[c] = sealed[client[c]] => Follows(c)
    BY <1>0 DEF PINChain, Follows, TypeOK
  <2>3. PINChain' /\ \A d \in Conns : Follows(d) => Follows(d)'
    BY <1>8, ChainSame DEF Unseal
  <2>4. ConnInv' /\ AnswersAreTrue'
    BY <1>0, <1>8, <2>2, <2>3 DEF Unseal, Goes, TypeOK, ConnInv, AnswersAreTrue
  <2>5. QED
    BY <2>1, <2>3, <2>4 DEF PInv
<1>9. ASSUME NEW c \in Conns, Reseal(c) PROVE PInv'
  <2>1. TypeOK'
    BY <1>0, <1>9 DEF TypeOK, Reseal, Goes
  <2>2. CASE UNCHANGED <<sealed, set>>
    BY <1>0, <1>9, <2>1, <2>2, ChainSame DEF PInv, Reseal, Goes, TypeOK, ConnInv, AnswersAreTrue
  <2>3. CASE sealed' = [sealed EXCEPT ![uid[c]] = new[c]] /\ set' = set \cup {c}
    <3>1. UNCHANGED <<client, uid, cur, new, answer>> /\ at[c] = "reseal" /\ Follows(c)
      BY <1>0, <1>9 DEF Reseal, ConnInv
    <3>2. \A d \in Conns : Follows(d) => Follows(d)'
      BY <2>3, <3>1 DEF Follows, FirstPIN
    <3>3. \A d \in set' : Follows(d)'
      BY <1>0, <2>3, <3>1, <3>2 DEF PINChain, TypeOK
    <3>4. ASSUME NEW u \in Users
          PROVE  sealed'[u] = FirstPIN(u) \/ \E d \in set' : client'[d] = u /\ new'[d] = sealed'[u]
      <4>1. CASE u = client[c]
        BY <1>0, <2>3, <3>1, <4>1 DEF TypeOK
      <4>2. CASE u # client[c]
        BY <1>0, <2>3, <3>1, <4>2 DEF TypeOK, PINChain
      <4>3. QED
        BY <4>1, <4>2
    <3>5. PINChain'
      BY <3>3, <3>4 DEF PINChain, FirstPIN
    <3>6. ConnInv' /\ AnswersAreTrue'
      <4>1. \A d \in Conns : d # c => at'[d] = at[d]
        BY <1>0, <1>9 DEF Reseal, Goes, TypeOK
      <4>2. at'[c] \in {"resealed", "failed"}
        BY <1>0, <1>9 DEF Reseal, Goes, TypeOK
      <4>3. answer[c] # "refused"
        BY <1>0, <2>1, <3>1 DEF ConnInv
      <4>4. QED
        BY <1>0, <2>3, <3>1, <3>2, <4>1, <4>2, <4>3 DEF TypeOK, ConnInv, AnswersAreTrue
    <3>7. QED
      BY <2>1, <3>5, <3>6 DEF PInv
  <2>4. QED
    BY <1>9, <2>2, <2>3 DEF Reseal
<1>10. ASSUME NEW c \in Conns, Reply(c) PROVE PInv'
  <2>1. TypeOK'
    BY <1>0, <1>10 DEF TypeOK, Reply, Goes, Answer
  <2>2. ConnInv' /\ PINChain' /\ AnswersAreTrue'
    BY <1>0, <1>10, ChainSame DEF Reply, Goes, Answer, TypeOK, ConnInv, AnswersAreTrue
  <2>3. QED
    BY <2>1, <2>2 DEF PInv
<1>11. QED
  BY <1>1, <1>2, <1>3, <1>4, <1>5, <1>6, <1>7, <1>8, <1>9, <1>10 DEF Next, handle

LEMMA PindInvariance == Spec => []PInv
BY InitPInv, NextPInv, PTL DEF Spec

\* Every variable of the daemon keeps its type: no short PIN is ever sealed.
THEOREM PindTypes == Spec => []TypeOK
<1>1. PInv => TypeOK
  BY DEF PInv
<1>2. QED
  BY <1>1, PindInvariance, PTL

\* Every PIN in force goes back to the first through its own account.
THEOREM PINsFollow == Spec => []PINChain
<1>1. PInv => PINChain
  BY DEF PInv
<1>2. QED
  BY <1>1, PindInvariance, PTL

\* OK is said of changes only, and a refused request changes nothing.
THEOREM AnswersHold == Spec => []AnswersAreTrue
<1>1. PInv => AnswersAreTrue
  BY DEF PInv
<1>2. QED
  BY <1>1, PindInvariance, PTL

-------------------------------------------------------------------------------
(* One request, one change, one answer *)

\* A PIN in force changes only through a connection of its own account that has
\* not changed one before and has not been answered: no request is applied twice,
\* no change is made after its answer, and no two PINs change in one step.
ChangedOnce ==
  [][\A u \in Users :
       sealed'[u] # sealed[u] =>
         \E c \in Conns :
           /\ client[c] = u /\ new[c] = sealed'[u] /\ Follows(c)
           /\ c \notin set /\ set' = set \cup {c} /\ answer[c] = "none"
           /\ \A v \in Users \ {u} : sealed'[v] = sealed[v]]_vars

\* Whatever fails, dies or overlaps, a request is one change at most.
THEOREM ChangesAreOwn == Spec => ChangedOnce
<1> DEFINE Own(u) == \E c \in Conns :
             /\ client[c] = u /\ new[c] = sealed'[u] /\ Follows(c)
             /\ c \notin set /\ set' = set \cup {c} /\ answer[c] = "none"
             /\ \A v \in Users \ {u} : sealed'[v] = sealed[v]
<1>1. ASSUME PInv, [Next]_vars, NEW u \in Users, sealed'[u] # sealed[u] PROVE Own(u)
  <2>1. PICK c \in Conns : Reseal(c)
    BY <1>1 DEF Next, handle, Listen, Serve, Crash, Accept, peerUID, ReadPINs, ReadFails, Unseal, Reply, vars
  <2>2. sealed' = [sealed EXCEPT ![client[c]] = new[c]] /\ set' = set \cup {c}
    BY <1>1, <2>1 DEF Reseal, PInv, ConnInv
  <2>3. Follows(c) /\ c \notin set /\ answer[c] = "none"
    BY <1>1, <2>1 DEF Reseal, PInv, ConnInv, Settled
  <2>4. client[c] \in Users /\ sealed \in [Users -> LongPINs]
    BY <1>1 DEF PInv, TypeOK
  <2>5. client[c] = u /\ new[c] = sealed'[u] /\ \A v \in Users \ {u} : sealed'[v] = sealed[v]
    BY <1>1, <2>2, <2>4
  <2>6. QED
    BY <2>2, <2>3, <2>5
<1>2. PInv /\ [Next]_vars =>
        [\A u \in Users :
           sealed'[u] # sealed[u] =>
             \E c \in Conns :
               /\ client[c] = u /\ new[c] = sealed'[u] /\ Follows(c)
               /\ c \notin set /\ set' = set \cup {c} /\ answer[c] = "none"
               /\ \A v \in Users \ {u} : sealed'[v] = sealed[v]]_vars
  BY <1>1
<1>3. QED
  BY <1>2, PindInvariance, PTL DEF Spec, ChangedOnce

\* Steps still to come.
StepsLeft(place) ==
  CASE place = "new" -> 6 [] place = "accepted" -> 5 [] place = "reading" -> 4 [] place = "change" -> 3
    [] place = "reseal" -> 2 [] place \in {"resealed", "failed"} -> 1 [] OTHER -> 0

\* A connection only goes forward, by steps of its own or cut with the daemon; no
\* other connection moves it or answers for it; and once it is closed what its
\* client was told stands.
ConnectionAdvances ==
  [][\A c \in Conns :
       /\ \/ at'[c] = at[c] /\ answer'[c] = answer[c]
          \/ StepsLeft(at'[c]) < StepsLeft(at[c])
       /\ (proc = "serving" /\ handle(c)) => StepsLeft(at'[c]) < StepsLeft(at[c])]_vars

LEMMA OwnStepAdvances ==
  ASSUME TypeOK, NEW c \in Conns, Accept(c) \/ handle(c)
  PROVE  StepsLeft(at'[c]) < StepsLeft(at[c]) /\ \A d \in Conns \ {c} : at'[d] = at[d] /\ answer'[d] = answer[d]
<1>1. \/ at[c] = "new" /\ at'[c] = "accepted"
      \/ at[c] = "accepted" /\ at'[c] = "reading"
      \/ at[c] = "reading" /\ at'[c] = "change"
      \/ at[c] = "change" /\ at'[c] = "reseal"
      \/ at[c] \in {"change", "reseal"} /\ at'[c] \in {"resealed", "failed"}
      \/ at[c] \in {"accepted", "reading", "resealed", "failed"} /\ at'[c] = "closed"
  BY DEF TypeOK, Accept, handle, peerUID, ReadPINs, ReadFails, Unseal, Reseal, Reply, Answer, Goes
<1>2. StepsLeft(at'[c]) < StepsLeft(at[c])
  BY <1>1 DEF StepsLeft
<1>3. \A d \in Conns \ {c} : at'[d] = at[d] /\ answer'[d] = answer[d]
  BY DEF TypeOK, Accept, handle, peerUID, ReadPINs, ReadFails, Unseal, Reseal, Reply, Answer, Goes
<1>4. QED
  BY <1>2, <1>3

\* At most six steps from a connection to its end; that they are taken is
\* ConnectionEnds's fairness.
THEOREM ConnectionsAreBounded == Spec => ConnectionAdvances
<1> DEFINE Forward(c) == StepsLeft(at'[c]) < StepsLeft(at[c])
           Stays(c) == at'[c] = at[c] /\ answer'[c] = answer[c]
<1>1. ASSUME TypeOK, [Next]_vars, NEW c \in Conns
      PROVE  (Stays(c) \/ Forward(c)) /\ (handle(c) => Forward(c))
  <2>1. handle(c) => Forward(c)
    BY <1>1, OwnStepAdvances
  <2>2. ASSUME NEW d \in Conns, Accept(d) \/ handle(d) PROVE Stays(c) \/ Forward(c)
    <3>1. CASE c = d
      BY <1>1, <2>2, <3>1, OwnStepAdvances
    <3>2. CASE c # d
      BY <1>1, <2>2, <3>2, OwnStepAdvances
    <3>3. QED
      BY <3>1, <3>2
  <2>3. ASSUME Listen \/ Serve \/ UNCHANGED vars PROVE Stays(c)
    BY <2>3 DEF Listen, Serve, vars, connVars
  <2>4. ASSUME Crash PROVE Stays(c) \/ Forward(c)
    <3>1. \/ at'[c] = at[c] /\ answer'[c] = answer[c]
          \/ at[c] \in Open /\ at'[c] = "closed"
      BY <1>1, <2>4 DEF Crash, TypeOK
    <3>2. QED
      BY <3>1 DEF StepsLeft, Open
  <2> HIDE DEF Forward, Stays
  <2>5. Stays(c) \/ Forward(c)
    BY <1>1, <2>2, <2>3, <2>4 DEF Next
  <2>6. QED
    BY <2>1, <2>5
<1>2. TypeOK /\ [Next]_vars =>
        [\A c \in Conns :
           /\ \/ at'[c] = at[c] /\ answer'[c] = answer[c]
              \/ StepsLeft(at'[c]) < StepsLeft(at[c])
           /\ (proc = "serving" /\ handle(c)) => StepsLeft(at'[c]) < StepsLeft(at[c])]_vars
  BY <1>1
<1>3. QED
  BY <1>2, PindTypes, PTL DEF Spec, ConnectionAdvances
===============================================================================
