------------------------------ MODULE WifiProofs ------------------------------
(***************************************************************************)
(* What module Wifi promises, for any number of calls, names, polls and    *)
(* networks, however many calls overlap and whichever commands are         *)
(* refused: the types, and that a call that takes the link for its own     *)
(* while its selection stands has a link to the network it asked for, with *)
(* the key it was given.  That the selection does stand is more than       *)
(* wifi.go makes sure of: another call may have selected its own network   *)
(* since, or SELECT_NETWORK may have been refused.                         *)
(***************************************************************************)
EXTENDS Wifi, SequenceTheorems, TLAPS

-------------------------------------------------------------------------------
(* Types *)

\* What TypeOK leaves out: a call that is past ADD_NETWORK has a block, and a call
\* that waits has polls left.
IdInv == \A c \in Calls : pc[c] \in {"ssid", "key", "select", "wait", "lease"} => id[c] \in 1..Len(networks)

PollInv == \A c \in Calls : pc[c] \in {"add", "ssid", "key", "select", "wait"} => polls[c] < MaxPolls

TInv == TypeOK /\ IdInv /\ PollInv

LEMMA InitTInv == Init => TInv
  BY ConstantsAssumption DEF Init, TInv, TypeOK, IdInv, PollInv, Steps, Blocks, NoAsk, Keys

\* Calls that send nothing to the supplicant's network list.
LEMMA QuietTypes ==
  ASSUME TInv, NEW c \in Calls, Scan(c) \/ Sweep(c) \/ ScanResults(c) \/ lease(c) \/ Cancel(c) \/ waitConnected(c)
  PROVE  TInv'
<1> USE ConstantsAssumption DEF TInv, TypeOK, IdInv, PollInv, GoTo, Steps
<1>1. CASE Scan(c)
  BY <1>1 DEF Scan, Admitted
<1>2. CASE Sweep(c)
  BY <1>2 DEF Sweep
<1>3. CASE ScanResults(c) \/ lease(c)
  BY <1>3 DEF ScanResults, lease
<1>4. CASE Cancel(c)
  BY <1>4 DEF Cancel
<1>5. CASE waitConnected(c)
  <2>1. CASE polls' = polls /\ pc' \in {[pc EXCEPT ![c] = "lease"], [pc EXCEPT ![c] = "idle"]}
    BY <1>5, <2>1 DEF waitConnected
  <2>2. CASE polls' = [polls EXCEPT ![c] = @ + 1]
             /\ pc' = [pc EXCEPT ![c] = IF polls'[c] = MaxPolls THEN "idle" ELSE "wait"]
    <3>1. polls[c] \in Nat /\ polls[c] < MaxPolls /\ polls'[c] = polls[c] + 1
      BY <1>5, <2>2 DEF waitConnected
    <3>2. polls' \in [Calls -> 0..MaxPolls] /\ pc' \in [Calls -> Steps]
      BY <2>2, <3>1
    <3>3. TypeOK' /\ IdInv'
      BY <1>5, <2>2, <3>2 DEF waitConnected
    <3>4. PollInv'
      BY <1>5, <2>2, <3>1, <3>2 DEF waitConnected
    <3>5. QED
      BY <3>3, <3>4
  <2>3. QED
    BY <1>5, <2>1, <2>2 DEF waitConnected
<1>6. QED
  BY <1>1, <1>2, <1>3, <1>4, <1>5

LEMMA BeginTypes ==
  ASSUME TInv, NEW c \in Calls, NEW ssid \in Ssids, NEW key \in {"right", "wrong"}, Begin(c, ssid, key)
  PROVE  TInv'
  BY ConstantsAssumption DEF TInv, TypeOK, IdInv, PollInv, GoTo, Steps, Begin, Admitted, Supplicant, Blocks, Keys

\* A block more at the end of the list: ids stay what they were.
LEMMA AddTypes ==
  ASSUME TInv, NEW c \in Calls, AddNetwork(c) PROVE TInv'
<1> USE ConstantsAssumption DEF TInv, AddNetwork
<1>1. NoAsk \in Blocks
  BY DEF NoAsk, Blocks, Keys
<1>2. networks' \in Seq(Blocks) /\ Len(networks') = Len(networks) + 1 /\ Len(networks) \in Nat
  BY <1>1 DEF TypeOK
<1>3. TypeOK'
  BY <1>2 DEF TypeOK, GoTo, Steps
<1>4. IdInv' /\ PollInv'
  BY <1>2 DEF TypeOK, IdInv, PollInv, GoTo
<1>5. QED
  BY <1>3, <1>4

LEMMA SetTypes ==
  ASSUME TInv, NEW c \in Calls, NEW step \in {"ssid", "key"}, NEW next \in {"key", "select"},
         NEW block \in Blocks, SetNetwork(c, step, next, block)
  PROVE  TInv'
<1> USE ConstantsAssumption DEF TInv, SetNetwork
<1>1. id[c] \in 1..Len(networks)
  BY DEF IdInv
<1>2. networks' \in Seq(Blocks) /\ Len(networks') = Len(networks) /\ Len(networks) \in Nat
  BY <1>1, ExceptSeq DEF TypeOK
<1>3. TypeOK'
  BY <1>2 DEF TypeOK, GoTo, Steps
<1>4. IdInv' /\ PollInv'
  BY <1>2 DEF TypeOK, IdInv, PollInv, GoTo
<1>5. QED
  BY <1>3, <1>4

\* What SetSsid and SetKey write is a block.
LEMMA BlocksWritten ==
  ASSUME TInv, NEW c \in Calls, pc[c] \in {"ssid", "key"}
  PROVE  /\ [networks[id[c]] EXCEPT !.ssid = ask[c].ssid] \in Blocks
         /\ [networks[id[c]] EXCEPT !.key = ask[c].key] \in Blocks
<1>1. networks[id[c]] \in Blocks /\ ask[c] \in Blocks
  BY DEF TInv, TypeOK, IdInv
<1>2. QED
  BY <1>1 DEF Blocks

LEMMA SelectTypes ==
  ASSUME TInv, NEW c \in Calls, SelectNetwork(c) PROVE TInv'
  BY ConstantsAssumption DEF TInv, TypeOK, IdInv, PollInv, GoTo, Steps, SelectNetwork, Selected, Supplicant

LEMMA FailTypes ==
  ASSUME TInv, NEW c \in Calls, CmdFails(c) PROVE TInv'
<1> USE ConstantsAssumption DEF TInv, CmdFails, Selected, Supplicant
<1>1. CASE UNCHANGED <<networks, selected, assoc>>
  BY <1>1 DEF TypeOK, IdInv, PollInv, GoTo, Steps
<1>2. CASE networks' = Append(networks, NoAsk) /\ Len(networks) < MaxNetworks /\ UNCHANGED <<selected, assoc>>
  <2>1. NoAsk \in Blocks
    BY DEF NoAsk, Blocks, Keys
  <2>2. networks' \in Seq(Blocks) /\ Len(networks') = Len(networks) + 1 /\ Len(networks) \in Nat
    BY <1>2, <2>1 DEF TypeOK
  <2>3. QED
    BY <1>2, <2>2 DEF TypeOK, IdInv, PollInv, GoTo, Steps
<1>3. CASE pc[c] = "select" /\ selected' = id[c] /\ UNCHANGED networks
           /\ assoc' = (IF assoc = id[c] THEN assoc ELSE 0)
  BY <1>3 DEF TypeOK, IdInv, PollInv, GoTo, Steps
<1>4. QED
  BY <1>1, <1>2, <1>3

LEMMA LinkTypes ==
  ASSUME TInv, Associate \/ LinkLost \/ UNCHANGED vars PROVE TInv'
  BY ConstantsAssumption DEF TInv, TypeOK, IdInv, PollInv, Associate, LinkLost, vars

\* Every call's step, as the lemmas above take it.
LEMMA CallCases ==
  ASSUME NEW c \in Calls, Call(c)
  PROVE  \/ Scan(c) \/ Sweep(c) \/ ScanResults(c) \/ lease(c) \/ Cancel(c) \/ waitConnected(c)
         \/ \E ssid \in Ssids, key \in {"right", "wrong"} : Begin(c, ssid, key)
         \/ AddNetwork(c) \/ SetSsid(c) \/ SetKey(c) \/ SelectNetwork(c) \/ CmdFails(c)
  BY DEF Call, Connect, Proceeds

LEMMA NextTInv == TInv /\ [Next]_vars => TInv'
<1> SUFFICES ASSUME TInv, [Next]_vars PROVE TInv'
  OBVIOUS
<1>1. CASE Associate \/ LinkLost \/ UNCHANGED vars
  BY <1>1, LinkTypes
<1>2. ASSUME NEW c \in Calls, Call(c) PROVE TInv'
  <2>1. CASE SetSsid(c) \/ SetKey(c)
    <3>1. pc[c] \in {"ssid", "key"}
      BY <2>1 DEF SetSsid, SetKey, SetNetwork
    <3>2. QED
      BY <2>1, <3>1, BlocksWritten, SetTypes DEF SetSsid, SetKey
  <2>2. QED
    BY <1>2, <2>1, CallCases, QuietTypes, BeginTypes, AddTypes, SelectTypes, FailTypes
<1>3. QED
  BY <1>1, <1>2 DEF Next

\* Whatever calls overlap, fail or are cancelled, ids name blocks, the link is one
\* to the selected network, and no call polls past its deadline.
THEOREM WifiTypes == Spec => []TypeOK
<1>1. Spec => []TInv
  BY InitTInv, NextTInv, PTL DEF Spec
<1>2. TInv => TypeOK
  BY DEF TInv
<1>3. QED
  BY <1>1, <1>2, PTL

-------------------------------------------------------------------------------
(* Calls that overlap *)

\* Steps at which a call has a block of its own in the supplicant.
Owning == {"ssid", "key", "select", "wait"}

\* No two calls write to, or wait for, the same block.
OwnBlocks == \A c, d \in Calls : pc[c] \in Owning /\ pc[d] \in Owning /\ id[c] = id[d] => c = d

\* The block of a call is not the selected one until the call selects it, and by
\* then it holds the name and the key asked for.
BlockInv ==
  \A c \in Calls :
    /\ pc[c] \in {"ssid", "key", "select"} => id[c] # selected
    /\ pc[c] \in {"key", "select", "wait"} => networks[id[c]].ssid = ask[c].ssid
    /\ pc[c] \in {"select", "wait"} => networks[id[c]].key = ask[c].key

\* A link stands on a right key, which no call changes under it.
LinkInv == assoc # 0 => networks[assoc].key = "right"

OInv == TInv /\ OwnBlocks /\ BlockInv /\ LinkInv

LEMMA InitOInv == Init => OInv
<1>1. Init => OwnBlocks /\ BlockInv /\ LinkInv
  BY DEF Init, OwnBlocks, Owning, BlockInv, LinkInv
<1>2. QED
  BY <1>1, InitTInv DEF OInv

\* A call that keeps out of the supplicant and gains no block.
LEMMA QuietBlocks ==
  ASSUME OInv, NEW c \in Calls, NEW step \in Steps, pc' = [pc EXCEPT ![c] = step],
         step \in Owning => step = pc[c] \/ (pc[c] = "select" /\ step = "wait"),
         UNCHANGED <<networks, selected, assoc>>,
         \A d \in Calls : pc[d] \in Owning => ask'[d] = ask[d] /\ id'[d] = id[d]
  PROVE  OwnBlocks' /\ BlockInv' /\ LinkInv'
<1>1. \A d \in Calls : pc'[d] \in Owning =>
        /\ pc'[d] = pc[d] \/ (pc[d] = "select" /\ pc'[d] = "wait")
        /\ pc[d] \in Owning /\ ask'[d] = ask[d] /\ id'[d] = id[d]
  BY DEF OInv, TInv, TypeOK, Owning
<1>2. OwnBlocks'
  BY <1>1 DEF OInv, OwnBlocks
<1>3. BlockInv'
  BY <1>1 DEF OInv, BlockInv, Owning
<1>4. QED
  BY <1>2, <1>3 DEF OInv, LinkInv

LEMMA ReadersBlocks ==
  ASSUME OInv, NEW c \in Calls,
         \/ Scan(c) \/ Sweep(c) \/ ScanResults(c) \/ lease(c) \/ Cancel(c) \/ waitConnected(c)
         \/ \E ssid \in Ssids, key \in {"right", "wrong"} : Begin(c, ssid, key)
  PROVE  OwnBlocks' /\ BlockInv' /\ LinkInv'
<1>1. CASE Cancel(c)
  BY <1>1 DEF Cancel, OInv, OwnBlocks, BlockInv, LinkInv
<1>2. CASE Scan(c) \/ Sweep(c) \/ ScanResults(c) \/ lease(c)
  <2>1. PICK step \in {"sweep", "results", "idle"} : GoTo(c, step)
    BY <1>2 DEF Scan, Sweep, ScanResults, lease
  <2>2. UNCHANGED <<ask, id, networks, selected, assoc>>
    BY <1>2 DEF Scan, Sweep, ScanResults, lease
  <2>3. QED
    BY <2>1, <2>2, QuietBlocks DEF GoTo, Steps, Owning
<1>3. CASE waitConnected(c)
  <2>1. pc[c] = "wait" /\ UNCHANGED <<ask, id, networks, selected, assoc>>
    BY <1>3 DEF waitConnected
  <2>2. PICK step \in {"lease", "idle", "wait"} : GoTo(c, step)
    BY <1>3 DEF waitConnected
  <2>3. QED
    BY <2>1, <2>2, QuietBlocks DEF GoTo, Steps, Owning
<1>4. ASSUME NEW ssid \in Ssids, NEW key \in {"right", "wrong"}, Begin(c, ssid, key)
      PROVE  OwnBlocks' /\ BlockInv' /\ LinkInv'
  <2>1. pc[c] = "idle" /\ GoTo(c, "add") /\ UNCHANGED <<networks, selected, assoc>>
    BY <1>4 DEF Begin, Admitted, Supplicant
  <2>2. \A d \in Calls : d # c => ask'[d] = ask[d] /\ id'[d] = id[d]
    BY <1>4 DEF Begin, OInv, TInv, TypeOK
  <2>3. QED
    BY <2>1, <2>2, QuietBlocks DEF GoTo, Steps, Owning
<1>5. QED
  BY <1>1, <1>2, <1>3, <1>4

\* The block added is a new one, past the selected one and past every other call's.
LEMMA AddBlocks ==
  ASSUME OInv, NEW c \in Calls, AddNetwork(c)
  PROVE  OwnBlocks' /\ BlockInv' /\ LinkInv'
<1>1. /\ networks \in Seq(Blocks) /\ Len(networks') = Len(networks) + 1 /\ Len(networks) \in Nat
      /\ \A i \in 1..Len(networks) : networks'[i] = networks[i]
  BY DEF OInv, TInv, TypeOK, AddNetwork
<1>2. id'[c] = Len(networks) + 1 /\ selected \in 0..Len(networks) /\ assoc \in {0, selected}
  BY <1>1 DEF OInv, TInv, TypeOK, AddNetwork
<1>3. \A d \in Calls : d # c => pc'[d] = pc[d] /\ id'[d] = id[d]
  BY DEF OInv, TInv, TypeOK, AddNetwork, GoTo
<1>4. pc'[c] = "ssid" /\ UNCHANGED <<ask, selected, assoc>>
  BY DEF OInv, TInv, TypeOK, AddNetwork, GoTo
<1>5. \A d \in Calls : pc[d] \in Owning => id[d] \in 1..Len(networks)
  BY DEF OInv, TInv, IdInv, Owning
<1>6. OwnBlocks'
  BY <1>1, <1>2, <1>3, <1>5 DEF OInv, OwnBlocks
<1>7. BlockInv'
  <2> SUFFICES ASSUME NEW d \in Calls
               PROVE  /\ pc'[d] \in {"ssid", "key", "select"} => id'[d] # selected'
                      /\ pc'[d] \in {"key", "select", "wait"} => networks'[id'[d]].ssid = ask'[d].ssid
                      /\ pc'[d] \in {"select", "wait"} => networks'[id'[d]].key = ask'[d].key
    BY DEF BlockInv
  <2>1. CASE d = c
    BY <1>1, <1>2, <1>4, <2>1
  <2>2. CASE d # c
    BY <1>1, <1>3, <1>4, <1>5, <2>2 DEF OInv, BlockInv, Owning
  <2>3. QED
    BY <2>1, <2>2
<1>8. LinkInv'
  BY <1>1, <1>2, <1>4 DEF OInv, LinkInv
<1>9. QED
  BY <1>6, <1>7, <1>8

\* SET_NETWORK writes the call's own block, which is neither another call's nor
\* the one a link stands on.
LEMMA SetBlocks ==
  ASSUME OInv, NEW c \in Calls, SetSsid(c) \/ SetKey(c)
  PROVE  OwnBlocks' /\ BlockInv' /\ LinkInv'
<1>1. /\ UNCHANGED <<ask, id, selected, assoc>>
      /\ pc[c] \in {"ssid", "key"} /\ id[c] # selected
      /\ id[c] \in 1..Len(networks) /\ networks \in Seq(Blocks) /\ assoc \in {0, selected} /\ selected \in 0..Len(networks)
      /\ networks[id[c]] \in Blocks /\ ask[c] \in Blocks
  BY DEF SetSsid, SetKey, SetNetwork, OInv, TInv, TypeOK, IdInv, BlockInv
<1>2. CASE UNCHANGED networks /\ GoTo(c, "idle")
  BY <1>1, <1>2, QuietBlocks DEF GoTo, Steps, Owning
<1>3. ASSUME NEW block, NEW next \in {"key", "select"},
             GoTo(c, next), networks' = [networks EXCEPT ![id[c]] = block],
             block.ssid = ask[c].ssid, next = "select" => block.key = ask[c].key
      PROVE  OwnBlocks' /\ BlockInv' /\ LinkInv'
  <2>1. networks'[id[c]] = block /\ \A i \in 1..Len(networks) : i # id[c] => networks'[i] = networks[i]
    BY <1>1, <1>3
  <2>2. pc'[c] = next /\ \A d \in Calls : d # c => pc'[d] = pc[d]
    BY <1>3 DEF GoTo, OInv, TInv, TypeOK
  <2>3. \A d \in Calls : pc[d] \in Owning /\ d # c => id[d] # id[c] /\ id[d] \in 1..Len(networks)
    BY <1>1 DEF OInv, OwnBlocks, TInv, IdInv, Owning
  <2>4. OwnBlocks'
    BY <1>1, <2>2 DEF OInv, OwnBlocks, Owning
  <2>5. BlockInv'
    <3> SUFFICES ASSUME NEW d \in Calls
                 PROVE  /\ pc'[d] \in {"ssid", "key", "select"} => id'[d] # selected'
                        /\ pc'[d] \in {"key", "select", "wait"} => networks'[id'[d]].ssid = ask'[d].ssid
                        /\ pc'[d] \in {"select", "wait"} => networks'[id'[d]].key = ask'[d].key
      BY DEF BlockInv
    <3>1. CASE d = c
      BY <1>1, <1>3, <2>1, <2>2, <3>1
    <3>2. CASE d # c
      BY <1>1, <2>1, <2>2, <2>3, <3>2 DEF OInv, BlockInv, Owning
    <3>3. QED
      BY <3>1, <3>2
  <2>6. LinkInv'
    BY <1>1, <2>1 DEF OInv, LinkInv
  <2>7. QED
    BY <2>4, <2>5, <2>6
<1>4. CASE SetSsid(c) /\ GoTo(c, "key") /\ networks' = [networks EXCEPT ![id[c]] = [networks[id[c]] EXCEPT !.ssid = ask[c].ssid]]
  <2>1. [networks[id[c]] EXCEPT !.ssid = ask[c].ssid].ssid = ask[c].ssid
    BY <1>1 DEF Blocks
  <2>2. QED
    BY <1>3, <1>4, <2>1
<1>5. CASE SetKey(c) /\ GoTo(c, "select") /\ networks' = [networks EXCEPT ![id[c]] = [networks[id[c]] EXCEPT !.key = ask[c].key]]
  <2> DEFINE block == [networks[id[c]] EXCEPT !.key = ask[c].key]
  <2>1. networks[id[c]].ssid = ask[c].ssid
    BY <1>5 DEF SetKey, SetNetwork, OInv, BlockInv
  <2>2. block.ssid = ask[c].ssid /\ block.key = ask[c].key
    BY <1>1, <2>1 DEF Blocks
  <2>3. QED
    BY <1>3, <1>5, <2>2
<1>6. QED
  BY <1>2, <1>4, <1>5 DEF SetSsid, SetKey, SetNetwork

\* SELECT_NETWORK, whether its answer arrives or not: the block selected is no
\* other call's, and the link there was is taken down.
LEMMA SelectBlocks ==
  ASSUME OInv, NEW c \in Calls, pc[c] = "select", NEW step \in {"wait", "idle"}, pc' = [pc EXCEPT ![c] = step],
         selected' = id[c], assoc' = IF assoc = id[c] THEN assoc ELSE 0, UNCHANGED <<ask, id, networks>>
  PROVE  OwnBlocks' /\ BlockInv' /\ LinkInv' /\ assoc' = 0
<1>1. assoc' = 0
  BY DEF OInv, TInv, TypeOK, IdInv, BlockInv
<1>2. pc'[c] = step /\ \A d \in Calls : d # c => pc'[d] = pc[d]
  BY DEF OInv, TInv, TypeOK
<1>3. OwnBlocks'
  BY <1>2 DEF OInv, OwnBlocks, Owning
<1>4. BlockInv'
  BY <1>2 DEF OInv, OwnBlocks, BlockInv, Owning
<1>5. QED
  BY <1>1, <1>3, <1>4 DEF LinkInv

LEMMA FailBlocks ==
  ASSUME OInv, NEW c \in Calls, CmdFails(c)
  PROVE  OwnBlocks' /\ BlockInv' /\ LinkInv'
<1>1. pc' = [pc EXCEPT ![c] = "idle"] /\ UNCHANGED <<ask, id>>
  BY DEF CmdFails, GoTo
<1>2. CASE pc[c] = "select" /\ selected' = id[c] /\ assoc' = (IF assoc = id[c] THEN assoc ELSE 0) /\ UNCHANGED networks
  BY <1>1, <1>2, SelectBlocks
<1>3. CASE UNCHANGED <<networks, selected, assoc>>
  BY <1>1, <1>3, QuietBlocks DEF Steps, Owning
<1>4. CASE networks' = Append(networks, NoAsk) /\ UNCHANGED <<selected, assoc>>
  <2>1. \A i \in 1..Len(networks) : networks'[i] = networks[i]
    BY <1>4 DEF OInv, TInv, TypeOK
  <2>2. \A d \in Calls : pc'[d] \in Owning => pc'[d] = pc[d] /\ id[d] \in 1..Len(networks)
    BY <1>1 DEF OInv, TInv, TypeOK, IdInv, Owning
  <2>3. OwnBlocks'
    BY <1>1, <2>2 DEF OInv, OwnBlocks
  <2>4. BlockInv'
    BY <1>1, <1>4, <2>1, <2>2 DEF OInv, BlockInv, Owning
  <2>5. LinkInv'
    BY <1>4, <2>1 DEF OInv, LinkInv, TInv, TypeOK
  <2>6. QED
    BY <2>3, <2>4, <2>5
<1>5. QED
  BY <1>2, <1>3, <1>4 DEF CmdFails, Selected, Supplicant

LEMMA LinkBlocks ==
  ASSUME OInv, Associate \/ LinkLost \/ UNCHANGED vars
  PROVE  OwnBlocks' /\ BlockInv' /\ LinkInv'
  BY DEF OInv, OwnBlocks, BlockInv, LinkInv, Associate, LinkLost, vars

LEMMA NextOInv == OInv /\ [Next]_vars => OInv'
<1> SUFFICES ASSUME OInv, [Next]_vars PROVE OInv'
  OBVIOUS
<1>1. TInv'
  BY NextTInv DEF OInv
<1>2. CASE Associate \/ LinkLost \/ UNCHANGED vars
  BY <1>1, <1>2, LinkBlocks DEF OInv
<1>3. ASSUME NEW c \in Calls, Call(c) PROVE OInv'
  <2>1. CASE SelectNetwork(c) /\ Selected(c)
    BY <1>1, <2>1, SelectBlocks DEF SelectNetwork, Selected, GoTo, OInv
  <2>2. CASE SelectNetwork(c) /\ UNCHANGED Supplicant
    BY <1>1, <2>2, QuietBlocks DEF SelectNetwork, Supplicant, GoTo, Steps, Owning, OInv
  <2>3. CASE ~ SelectNetwork(c)
    BY <1>1, <1>3, <2>3, CallCases, ReadersBlocks, AddBlocks, SetBlocks, FailBlocks DEF OInv
  <2>4. QED
    BY <2>1, <2>2, <2>3 DEF SelectNetwork
<1>4. QED
  BY <1>2, <1>3 DEF Next

LEMMA OverlapInvariance == Spec => []OInv
  BY InitOInv, NextOInv, PTL DEF Spec

\* A call goes on to its lease in one step only: waitConnected finds COMPLETED.
LEMMA LeaseStep ==
  ASSUME TInv, [Next]_vars, NEW c \in Calls, pc[c] = "wait", pc'[c] = "lease"
  PROVE  waitConnected(c) /\ assoc # 0
<1>1. PICK d \in Calls : Call(d)
  BY DEF Next, Associate, LinkLost, vars
<1>2. d = c
  <2>1. PICK step : pc' = [pc EXCEPT ![d] = step] \/ pc' = pc
    BY <1>1, CallCases DEF Scan, Sweep, ScanResults, lease, Cancel, waitConnected, Begin, AddNetwork,
       SetSsid, SetKey, SetNetwork, SelectNetwork, CmdFails, GoTo
  <2>2. QED
    BY <2>1 DEF TInv, TypeOK
<1>3. waitConnected(c)
  BY <1>1, <1>2, CallCases DEF TInv, TypeOK, Scan, Sweep, ScanResults, lease, Cancel, Begin,
     Admitted, AddNetwork, SetSsid, SetKey, SetNetwork, SelectNetwork, CmdFails, GoTo
<1>4. QED
  BY <1>3 DEF waitConnected, TInv, TypeOK, GoTo

\* What overlapping calls of Connect may rely on, for every number of them.
THEOREM LastSelectionCounts == Spec => LastSelectedIsAsAsked
<1> DEFINE Step == \A c \in Calls :
                     (pc[c] = "wait" /\ pc'[c] = "lease" /\ selected = id[c])
                       => /\ assoc = id[c] /\ networks[assoc].ssid = ask[c].ssid
                          /\ ask[c].key = "right"
<1>1. OInv /\ [Next]_vars => Step
  <2> SUFFICES ASSUME OInv, [Next]_vars, NEW c \in Calls, pc[c] = "wait", pc'[c] = "lease", selected = id[c]
               PROVE  /\ assoc = id[c] /\ networks[assoc].ssid = ask[c].ssid
                      /\ ask[c].key = "right"
    OBVIOUS
  <2>1. assoc # 0
    BY LeaseStep DEF OInv
  <2>2. assoc = id[c]
    BY <2>1 DEF OInv, TInv, TypeOK
  <2>3. QED
    BY <2>1, <2>2 DEF OInv, BlockInv, LinkInv
<1>2. QED
  BY OverlapInvariance, <1>1, PTL DEF Spec, LastSelectedIsAsAsked

-------------------------------------------------------------------------------
(* How far a call can go *)

\* Steps still to come.
StepsLeft(step) ==
  CASE step = "add" -> 6 [] step = "ssid" -> 5 [] step = "key" -> 4 [] step = "select" -> 3
    [] step = "wait" -> 2 [] step = "lease" -> 1 [] step = "sweep" -> 2 [] step = "results" -> 1
    [] OTHER -> 0

\* A call that has begun only goes forward: every command it sends, answered or
\* not, brings it to a later step or to its end, and a poll that finds no link
\* uses up one of the polls the deadline allows.  Other calls, the supplicant and
\* a cancelled context do not move it.
CallAdvances ==
  [][\A c \in Calls :
       pc[c] # "idle" =>
         \/ StepsLeft(pc'[c]) < StepsLeft(pc[c])
         \/ pc[c] = "wait" /\ pc'[c] = "wait" /\ polls'[c] = polls[c] + 1 /\ polls'[c] < MaxPolls
         \/ ~ Connect(c) /\ pc'[c] = pc[c] /\ polls'[c] = polls[c]]_vars

\* A step of another call leaves a call where it is.
LEMMA OthersStep ==
  ASSUME TInv, NEW c \in Calls, NEW d \in Calls \ {c}, Call(d)
  PROVE  pc'[c] = pc[c] /\ polls'[c] = polls[c]
<1>1. \/ pc' = pc
      \/ \E step \in Steps : pc' = [pc EXCEPT ![d] = step]
  <2>1. CASE Scan(d) \/ Sweep(d) \/ ScanResults(d) \/ lease(d) \/ Cancel(d) \/ waitConnected(d)
    BY <2>1 DEF Scan, Sweep, ScanResults, lease, Cancel, waitConnected, GoTo, Steps
  <2>2. CASE \E ssid \in Ssids, key \in {"right", "wrong"} : Begin(d, ssid, key)
    BY <2>2 DEF Begin, GoTo, Steps
  <2>3. CASE AddNetwork(d) \/ SetSsid(d) \/ SetKey(d) \/ SelectNetwork(d) \/ CmdFails(d)
    BY <2>3 DEF AddNetwork, SetSsid, SetKey, SetNetwork, SelectNetwork, CmdFails, GoTo, Steps
  <2>4. QED
    BY <2>1, <2>2, <2>3, CallCases
<1>2. \/ polls' = polls
      \/ polls' = [polls EXCEPT ![d] = 0]
      \/ polls' = [polls EXCEPT ![d] = @ + 1]
  BY CallCases DEF Scan, Sweep, ScanResults, lease, Cancel, waitConnected, Begin, AddNetwork,
     SetSsid, SetKey, SetNetwork, SelectNetwork, CmdFails
<1>3. QED
  BY <1>1, <1>2 DEF TInv, TypeOK

\* A step of the call itself brings it to a later one.
LEMMA OwnStep ==
  ASSUME TInv, NEW c \in Calls, Connect(c)
  PROVE  \/ StepsLeft(pc'[c]) < StepsLeft(pc[c])
         \/ pc[c] = "wait" /\ pc'[c] = "wait" /\ polls'[c] = polls[c] + 1 /\ polls'[c] < MaxPolls
<1>1. CASE AddNetwork(c) \/ SetSsid(c) \/ SetKey(c) \/ SelectNetwork(c) \/ lease(c) \/ Sweep(c) \/ ScanResults(c)
  <2>1. \/ pc[c] \in {"ssid", "key", "sweep", "results", "lease"} /\ pc'[c] = "idle"
        \/ pc[c] = "add" /\ pc'[c] = "ssid"
        \/ pc[c] = "ssid" /\ pc'[c] = "key"
        \/ pc[c] = "key" /\ pc'[c] = "select"
        \/ pc[c] = "select" /\ pc'[c] = "wait"
        \/ pc[c] = "sweep" /\ pc'[c] = "results"
    BY <1>1 DEF AddNetwork, SetSsid, SetKey, SetNetwork, SelectNetwork, lease, Sweep, ScanResults, GoTo, TInv, TypeOK
  <2>2. QED
    BY <2>1 DEF StepsLeft
<1>2. CASE CmdFails(c)
  <2>1. pc[c] \in {"add", "ssid", "key", "select", "wait"} /\ pc'[c] = "idle"
    BY <1>2 DEF CmdFails, GoTo, TInv, TypeOK
  <2>2. QED
    BY <2>1 DEF StepsLeft
<1>3. CASE waitConnected(c)
  <2>1. pc[c] = "wait" /\ polls[c] \in Nat /\ polls[c] < MaxPolls /\ MaxPolls \in Nat
    BY <1>3, ConstantsAssumption DEF waitConnected, TInv, TypeOK, PollInv
  <2>2. \/ pc'[c] = "lease" \/ pc'[c] = "idle"
        \/ polls'[c] = polls[c] + 1 /\ polls'[c] # MaxPolls /\ pc'[c] = "wait"
    BY <1>3 DEF waitConnected, GoTo, TInv, TypeOK
  <2>3. CASE pc'[c] = "lease" \/ pc'[c] = "idle"
    BY <2>1, <2>3 DEF StepsLeft
  <2>4. CASE polls'[c] = polls[c] + 1 /\ polls'[c] # MaxPolls /\ pc'[c] = "wait"
    BY <2>1, <2>4
  <2>5. QED
    BY <2>2, <2>3, <2>4
<1>4. QED
  BY <1>1, <1>2, <1>3 DEF Connect, Proceeds

\* Scan and Connect are bounded whatever the supplicant does and however many
\* calls overlap; that their steps are taken is ConnectEnds's fairness.
THEOREM CallsAreBounded == Spec => CallAdvances
<1> DEFINE Advances(c) ==
             \/ StepsLeft(pc'[c]) < StepsLeft(pc[c])
             \/ pc[c] = "wait" /\ pc'[c] = "wait" /\ polls'[c] = polls[c] + 1 /\ polls'[c] < MaxPolls
           Stays(c) == ~ Connect(c) /\ pc'[c] = pc[c] /\ polls'[c] = polls[c]
<1>1. TInv /\ [Next]_vars => \A c \in Calls : pc[c] # "idle" => Advances(c) \/ Stays(c)
  <2> SUFFICES ASSUME TInv, [Next]_vars, NEW c \in Calls, pc[c] # "idle", ~ Connect(c)
               PROVE  pc'[c] = pc[c] /\ polls'[c] = polls[c]
    BY OwnStep
  <2>1. CASE \E d \in Calls \ {c} : Call(d)
    BY <2>1, OthersStep
  <2>2. CASE Call(c)
    BY <2>2 DEF Call, Begin, Scan, Admitted, Cancel
  <2>3. CASE Associate \/ LinkLost \/ UNCHANGED vars
    BY <2>3 DEF Associate, LinkLost, vars
  <2>4. QED
    BY <2>1, <2>2, <2>3 DEF Next
<1>2. TInv /\ [Next]_vars =>
        [\A c \in Calls :
           pc[c] # "idle" =>
             \/ StepsLeft(pc'[c]) < StepsLeft(pc[c])
             \/ pc[c] = "wait" /\ pc'[c] = "wait" /\ polls'[c] = polls[c] + 1 /\ polls'[c] < MaxPolls
             \/ ~ Connect(c) /\ pc'[c] = pc[c] /\ polls'[c] = polls[c]]_vars
  BY <1>1
<1>3. QED
  BY InitTInv, NextTInv, <1>2, PTL DEF Spec, CallAdvances
===============================================================================
