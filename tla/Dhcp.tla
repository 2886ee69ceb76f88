--------------------------------- MODULE Dhcp ---------------------------------
(***************************************************************************)
(* The DHCP client of internal/dhcp: Acquire (DISCOVER, OFFER, REQUEST,    *)
(* ACK with retransmission) and Configure, for one interface on which      *)
(* several servers answer.  The network may lose, duplicate, delay and     *)
(* reorder packets, across acquisitions too: a packet once sent may be     *)
(* received any number of times from then on, or never.                    *)
(***************************************************************************)
EXTENDS Naturals, FiniteSets

CONSTANTS
  Servers,      \* DHCP servers that hear the interface's broadcasts
  Addrs,        \* addresses they may hand out
  None,         \* no server, no address
  Named,        \* the servers whose offers carry a server identifier
  Routers,      \* the servers whose leases carry a router
  Resolvers,    \* the servers whose leases carry name servers
  Attempts,     \* transmissions per exchange: 5 in the code
  MaxAcquires   \* bound: calls of Acquire

ASSUME DhcpAssumption ==
  /\ None \notin Servers \cup Addrs
  /\ Named \subseteq Servers
  /\ Routers \subseteq Servers /\ Resolvers \subseteq Servers
  /\ Attempts \in Nat \ {0} /\ MaxAcquires \in Nat

VARIABLES
  pc,        \* where Acquire and Configure are
  xid,       \* transaction id: drawn afresh by every Acquire
  attempt,   \* the attempt counter of exchange
  waiting,   \* between send and the deadline of recv
  offer,     \* the OFFER taken: its server and address
  lease,     \* leaseFrom(ack)
  net,       \* every packet ever sent
  bound,     \* external: what each server has granted, per transaction
  ifaddrs,   \* addresses of the interface
  route,     \* the default route, by the server whose lease named it
  resolv     \* /etc/resolv.conf, likewise

client == <<pc, xid, attempt, waiting, offer, lease>>
host == <<ifaddrs, route, resolv>>
vars == <<client, net, bound, host>>

Nothing == [server |-> None, addr |-> None]
Grants == [server : Servers, addr : Addrs]

\* A packet names the server it is from or, if it is a REQUEST, for.
Packet(type, x, g) == [type |-> type, xid |-> x, server |-> g.server, addr |-> g.addr]

Exchanges == {"discover", "request"}
ConfigSteps == {"address", "route", "resolv"}

Init ==
  /\ pc = "idle" /\ xid = 0 /\ attempt = 0 /\ waiting = FALSE
  /\ offer = Nothing /\ lease = Nothing
  /\ net = {} /\ bound = {}
  /\ ifaddrs = {} /\ route = None /\ resolv = None

-------------------------------------------------------------------------------
(* Acquire *)

\* A fresh transaction; DISCOVER comes first.
Acquire ==
  /\ pc \in {"idle", "done", "failed"} /\ xid < MaxAcquires
  /\ pc' = "discover" /\ xid' = xid + 1 /\ attempt' = 0 /\ waiting' = FALSE
  /\ offer' = Nothing /\ lease' = Nothing
  /\ UNCHANGED <<net, bound, host>>

\* The message of the exchange: a REQUEST is for the address of the offer taken
\* and, if that said which server it is from, for that server.
Message ==
  Packet(pc, xid, [offer EXCEPT !.server = IF offer.server \in Named THEN @ ELSE None])

SendOnceMore ==
  /\ pc \in Exchanges /\ ~ waiting /\ attempt <= Attempts
  /\ net' = net \cup {Message}
  /\ waiting' = TRUE
  /\ UNCHANGED <<pc, xid, attempt, offer, lease, bound, host>>

\* exchange: one more transmission of the same message.
Send ==
  /\ pc \in Exchanges /\ ~ waiting /\ attempt < Attempts
  /\ net' = net \cup {Message}
  /\ waiting' = TRUE
  /\ UNCHANGED <<pc, xid, attempt, offer, lease, bound, host>>

TimeoutForever ==
  /\ waiting
  /\ waiting' = FALSE
  /\ UNCHANGED <<pc, xid, attempt, offer, lease, net, bound, host>>

\* The deadline of this attempt passes.
Timeout ==
  /\ waiting
  /\ waiting' = FALSE /\ attempt' = attempt + 1
  /\ UNCHANGED <<pc, xid, offer, lease, net, bound, host>>

Want == IF pc = "discover" THEN "offer" ELSE "ack"

HeardAnyXid(m) == waiting /\ m \in net /\ m.type \in {"offer", "ack", "nak"}

\* recv hands over a reply of this transaction; every other packet is skipped.
Heard(m) ==
  /\ waiting /\ m \in net /\ m.xid = xid
  /\ m.type \in {"offer", "ack", "nak"}

\* The first OFFER ends the first exchange.
ReceiveOffer(m) ==
  /\ pc = "discover" /\ Heard(m) /\ m.type = Want
  /\ pc' = "request" /\ attempt' = 0 /\ waiting' = FALSE
  /\ offer' = [server |-> m.server, addr |-> m.addr]
  /\ UNCHANGED <<xid, lease, net, bound, host>>

\* The ACK is not compared with the OFFER: leaseFrom takes what it says.
ReceiveAck(m) ==
  /\ pc = "request" /\ Heard(m) /\ m.type = Want
  /\ pc' = "address" /\ waiting' = FALSE
  /\ lease' = [server |-> m.server, addr |-> m.addr]
  /\ UNCHANGED <<xid, attempt, offer, net, bound, host>>

Fail == /\ pc' = "failed" /\ waiting' = FALSE
        /\ UNCHANGED <<xid, attempt, offer, lease, net, bound, host>>

\* A NAK of this transaction ends either exchange.
ReceiveNak(m) == pc \in Exchanges /\ Heard(m) /\ m.type = "nak" /\ Fail

\* All attempts are used up, or the context ends, or send fails.
GiveUp == pc \in Exchanges /\ ~ waiting /\ Fail

-------------------------------------------------------------------------------
(* Configure *)

AddressSkipped ==
  /\ pc = "address"
  /\ pc' = "route"
  /\ UNCHANGED <<xid, attempt, waiting, offer, lease, net, bound, host>>

\* addAddress, with NLM_F_REPLACE: older addresses stay.
AddAddress ==
  /\ pc = "address"
  /\ ifaddrs' = ifaddrs \cup {lease}
  /\ pc' = "route"
  /\ UNCHANGED <<xid, attempt, waiting, offer, lease, net, bound, route, resolv>>

\* addDefaultRoute replaces the default route, when the lease names a router.
AddDefaultRoute ==
  /\ pc = "route"
  /\ route' = IF lease.server \in Routers THEN lease.server ELSE route
  /\ pc' = "resolv"
  /\ UNCHANGED <<xid, attempt, waiting, offer, lease, net, bound, ifaddrs, resolv>>

\* resolv.conf is written when the lease names name servers.
WriteResolv ==
  /\ pc = "resolv"
  /\ resolv' = IF lease.server \in Resolvers THEN lease.server ELSE resolv
  /\ pc' = "done"
  /\ UNCHANGED <<xid, attempt, waiting, offer, lease, net, bound, ifaddrs, route>>

\* Any of the three calls may fail; what came before it stays.
ConfigureFails == pc \in ConfigSteps /\ Fail

-------------------------------------------------------------------------------
(* The servers (external): one offer per transaction, a grant only for a     *)
(* REQUEST that names them or no server at all.                              *)

ServerOffers(s, a) ==
  \E m \in net :
    /\ m.type = "discover"
    /\ ~ \E o \in net : o.type = "offer" /\ o.xid = m.xid /\ o.server = s
    /\ net' = net \cup {Packet("offer", m.xid, [server |-> s, addr |-> a])}
    /\ UNCHANGED <<client, bound, host>>

ServerAnswers(s) ==
  \E m \in net :
    /\ m.type = "request" /\ m.server \in {s, None}
    /\ LET grant == [server |-> s, addr |-> m.addr] IN
         \/ /\ net' = net \cup {Packet("ack", m.xid, grant)}
            /\ bound' = bound \cup {[xid |-> m.xid, server |-> s, addr |-> m.addr]}
         \/ /\ net' = net \cup {Packet("nak", m.xid, grant)}
            /\ UNCHANGED bound
    /\ UNCHANGED <<client, host>>

-------------------------------------------------------------------------------

Exchange ==
  \/ Send \/ Timeout \/ GiveUp
  \/ \E m \in net : ReceiveOffer(m) \/ ReceiveAck(m) \/ ReceiveNak(m)

Configure == AddAddress \/ AddDefaultRoute \/ WriteResolv \/ ConfigureFails

Next ==
  \/ Acquire \/ Exchange \/ Configure
  \/ \E s \in Servers : (\E a \in Addrs : ServerOffers(s, a)) \/ ServerAnswers(s)

Spec == Init /\ [][Next]_vars

\* The client's own steps: recv has a deadline, so waiting always ends.  Nothing
\* is assumed of the servers or of the network.
Fairness == WF_<<client, host>>(Send \/ Timeout) /\ WF_vars(GiveUp /\ attempt = Attempts) /\ WF_vars(Configure)

FairSpec == Spec /\ Fairness

-------------------------------------------------------------------------------
(* Properties *)

Packets ==
  [type : {"discover", "request", "offer", "ack", "nak"}, xid : Nat,
   server : Servers \cup {None}, addr : Addrs \cup {None}]

TypeOK ==
  /\ pc \in {"idle", "done", "failed"} \cup Exchanges \cup ConfigSteps
  /\ xid \in 0..MaxAcquires /\ attempt \in 0..Attempts /\ waiting \in BOOLEAN
  /\ offer \in Grants \cup {Nothing} /\ lease \in Grants \cup {Nothing}
  /\ net \subseteq Packets
  /\ bound \subseteq [xid : Nat, server : Servers, addr : Addrs]
  /\ ifaddrs \subseteq Grants
  /\ route \in Servers \cup {None} /\ resolv \in Servers \cup {None}

\* The lease the interface is configured with is one that its server granted, in
\* this transaction and for the address this client chose, and by the server it
\* chose if that named itself: neither a packet left over from an earlier Acquire
\* nor one meant for the other exchange is taken for it.
LeaseGranted ==
  pc \in ConfigSteps \cup {"done"} =>
    /\ lease.addr = offer.addr
    /\ offer.server \in Named => lease.server = offer.server
    /\ [xid |-> xid, server |-> lease.server, addr |-> lease.addr] \in bound

\* A default route or a name server is only in place with an address on the
\* network it belongs to, also after a Configure that failed half-way.
RouteHasAddress ==
  /\ route # None => \E l \in ifaddrs : l.server = route
  /\ resolv # None => \E l \in ifaddrs : l.server = resolv

\* Acquire ends after its attempts whether or not any server ever answers.
AcquireEnds == pc \in Exchanges \cup ConfigSteps ~> pc \in {"done", "failed"}

-------------------------------------------------------------------------------
(* The inductive invariant behind LeaseGranted and RouteHasAddress *)

\* Packets of later transactions do not exist; an answer names its server, and
\* all but a DISCOVER an address.
PacketInv ==
  \A m \in net :
    /\ m.xid <= xid
    /\ m.type # "discover" => m.addr \in Addrs
    /\ m.type \in {"offer", "ack"} => m.server \in Servers

\* The REQUESTs of this transaction are for the offer taken.
RequestInv ==
  /\ \A m \in net :
       (m.type = "request" /\ m.xid = xid) =>
         /\ pc # "discover"
         /\ m.addr = offer.addr
         /\ offer.server \in Named => m.server = offer.server
  /\ pc \in {"request", "done"} \cup ConfigSteps => offer \in Grants
  /\ pc \in ConfigSteps => lease \in Grants

\* An ACK answers a REQUEST of its transaction and was granted.
AckInv ==
  \A m \in net :
    m.type = "ack" =>
      /\ [xid |-> m.xid, server |-> m.server, addr |-> m.addr] \in bound
      /\ \E q \in net : /\ q.type = "request" /\ q.xid = m.xid
                        /\ q.server \in {m.server, None} /\ q.addr = m.addr

\* The attempt that is waited for is one of those allowed.
AttemptInv == waiting => attempt < Attempts

\* Past the first step of Configure the address is in place.
ConfigInv == pc \in {"route", "resolv"} => lease \in ifaddrs

IInv ==
  /\ TypeOK /\ AttemptInv /\ PacketInv /\ RequestInv /\ AckInv /\ ConfigInv
  /\ LeaseGranted /\ RouteHasAddress
=============================================================================
