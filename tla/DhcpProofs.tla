------------------------------ MODULE DhcpProofs ------------------------------
(* TypeOK, LeaseGranted and RouteHasAddress of Dhcp, what the servers are made   *)
(* to grant, and how far an acquisition can go, for any number of servers,       *)
(* addresses, attempts and acquisitions.                                         *)
EXTENDS Dhcp, TLAPS

\* The fields of a packet are what it was made from.
LEMMA PacketFields ==
  ASSUME NEW t, NEW x, NEW g
  PROVE  /\ Packet(t, x, g).type = t /\ Packet(t, x, g).xid = x
         /\ Packet(t, x, g).server = g.server /\ Packet(t, x, g).addr = g.addr
BY DEF Packet

\* What the client sends: its own transaction, a REQUEST only for the offer taken.
LEMMA MessageFields ==
  ASSUME TypeOK, RequestInv, pc \in Exchanges
  PROVE  /\ Message \in Packets /\ Message.type = pc /\ Message.xid = xid
         /\ pc = "request" => /\ Message.addr = offer.addr /\ offer.addr \in Addrs
                              /\ offer.server \in Named => Message.server = offer.server
<1>1. /\ offer \in [server : Servers \cup {None}, addr : Addrs \cup {None}]
      /\ pc = "request" => offer.addr \in Addrs
  BY DEF TypeOK, RequestInv, Grants, Nothing
<1>2. xid \in Nat
  BY DhcpAssumption DEF TypeOK
<1>3. QED
  BY <1>1, <1>2 DEF Message, Packet, Packets, Exchanges

\* Initially no packet, lease or route exists.
LEMMA InitIInv == Init => IInv
<1> SUFFICES ASSUME Init PROVE IInv
  OBVIOUS
<1>1. xid \in 0..MaxAcquires /\ attempt \in 0..Attempts
  BY DhcpAssumption DEF Init
<1>2. TypeOK
  BY <1>1 DEF Init, TypeOK
<1>3. /\ AttemptInv /\ PacketInv /\ RequestInv /\ AckInv /\ ConfigInv
      /\ LeaseGranted /\ RouteHasAddress
  BY DEF Init, AttemptInv, PacketInv, RequestInv, AckInv, ConfigInv, LeaseGranted,
         RouteHasAddress, ConfigSteps
<1>4. QED
  BY <1>2, <1>3 DEF IInv

\* A new acquisition starts with no packet of its transaction under way.
LEMMA AcquireStep == ASSUME IInv, Acquire PROVE IInv'
<1> USE DEF IInv
<1>0. xid' \in 0..MaxAcquires /\ attempt' \in 0..Attempts
  BY DhcpAssumption DEF Acquire, TypeOK
<1>1. TypeOK'
  BY <1>0 DEF Acquire, TypeOK, host, Exchanges
<1>2. xid \in Nat /\ xid' = xid + 1 /\ UNCHANGED <<net, bound, ifaddrs, route, resolv>> /\ pc' = "discover"
  BY DhcpAssumption DEF Acquire, TypeOK, host
<1>3. PacketInv' /\ \A m \in net : m.xid # xid'
  BY <1>2 DEF PacketInv, TypeOK, Packets
<1>4. RequestInv'
  BY <1>2, <1>3 DEF RequestInv, ConfigSteps
<1>5. AttemptInv' /\ AckInv' /\ ConfigInv' /\ LeaseGranted' /\ RouteHasAddress'
  BY <1>2 DEF Acquire, AttemptInv, AckInv, ConfigInv, LeaseGranted, RouteHasAddress, ConfigSteps
<1>6. QED
  BY <1>1, <1>3, <1>4, <1>5

\* A transmission adds a packet of this transaction, for the offer taken.
LEMMA SendStep == ASSUME IInv, Send PROVE IInv'
<1> USE DEF IInv
<1>1. /\ pc \in Exchanges /\ attempt < Attempts /\ net' = net \cup {Message}
      /\ UNCHANGED <<pc, xid, attempt, offer, lease, bound, ifaddrs, route, resolv>>
      /\ waiting' = TRUE
  BY DEF Send, host
<1>2. /\ Message \in Packets /\ Message.type = pc /\ Message.xid = xid
      /\ pc = "request" => /\ Message.addr = offer.addr /\ offer.addr \in Addrs
                           /\ offer.server \in Named => Message.server = offer.server
  BY <1>1, MessageFields
<1>3. xid \in Nat /\ pc \in {"discover", "request"}
  BY <1>1, DhcpAssumption DEF TypeOK, Exchanges
<1> HIDE DEF IInv
<1>4. TypeOK'
  BY <1>1, <1>2 DEF IInv, TypeOK
<1>5. PacketInv'
  BY <1>1, <1>2, <1>3 DEF IInv, PacketInv
<1>6. RequestInv'
  BY <1>1, <1>2, <1>3 DEF IInv, RequestInv
<1>7. AckInv'
  BY <1>1, <1>2, <1>3 DEF IInv, AckInv
<1>8. AttemptInv' /\ ConfigInv' /\ LeaseGranted' /\ RouteHasAddress'
  BY <1>1 DEF IInv, AttemptInv, ConfigInv, LeaseGranted, RouteHasAddress
<1>9. QED
  BY <1>4, <1>5, <1>6, <1>7, <1>8 DEF IInv

\* The OFFER taken names a server and an address.
LEMMA OfferStep == ASSUME IInv, NEW m \in net, ReceiveOffer(m) PROVE IInv'
<1>1. /\ pc = "discover" /\ m.type = "offer"
      /\ pc' = "request" /\ attempt' = 0 /\ waiting' = FALSE
      /\ offer' = [server |-> m.server, addr |-> m.addr]
      /\ UNCHANGED <<xid, lease, net, bound, ifaddrs, route, resolv>>
  BY DEF ReceiveOffer, Want, host
<1>2. offer' \in Grants
  BY <1>1 DEF IInv, PacketInv, Grants
<1>3. TypeOK'
  <2>1. attempt' \in 0..Attempts
    BY <1>1, DhcpAssumption
  <2>2. QED
    BY <1>1, <1>2, <2>1 DEF IInv, TypeOK, Exchanges
<1>4. RequestInv'
  BY <1>1, <1>2 DEF IInv, RequestInv, ConfigSteps
<1>5. AttemptInv' /\ PacketInv' /\ AckInv' /\ ConfigInv' /\ LeaseGranted' /\ RouteHasAddress'
  BY <1>1 DEF IInv, AttemptInv, PacketInv, AckInv, ConfigInv, LeaseGranted, RouteHasAddress, ConfigSteps
<1>6. QED
  BY <1>3, <1>4, <1>5 DEF IInv

\* The ACK taken was granted for a REQUEST of this transaction.
LEMMA AckStep == ASSUME IInv, NEW m \in net, ReceiveAck(m) PROVE IInv'
<1>1. /\ pc = "request" /\ m.type = "ack" /\ m.xid = xid
      /\ pc' = "address" /\ waiting' = FALSE
      /\ lease' = [server |-> m.server, addr |-> m.addr]
      /\ UNCHANGED <<xid, attempt, offer, net, bound, ifaddrs, route, resolv>>
  BY DEF ReceiveAck, Want, Heard, host
<1>2. lease' \in Grants /\ offer \in Grants
  BY <1>1 DEF IInv, PacketInv, RequestInv, Grants
<1>3. TypeOK'
  BY <1>1, <1>2 DEF IInv, TypeOK, ConfigSteps
<1>4. RequestInv'
  BY <1>1, <1>2 DEF IInv, RequestInv, ConfigSteps
<1>5. PICK q \in net : /\ q.type = "request" /\ q.xid = xid
                       /\ q.server \in {m.server, None} /\ q.addr = m.addr
  BY <1>1 DEF IInv, AckInv
<1>6. q.addr = offer.addr /\ (offer.server \in Named => q.server = offer.server)
  BY <1>5 DEF IInv, RequestInv
<1>7. LeaseGranted'
  <2>1. [xid |-> xid, server |-> m.server, addr |-> m.addr] \in bound
    BY <1>1 DEF IInv, AckInv
  <2>2. offer.server \in Named => m.server = offer.server
    BY <1>5, <1>6, DhcpAssumption
  <2>3. lease'.addr = m.addr /\ lease'.server = m.server
    BY <1>1
  <2>4. QED
    BY <1>1, <1>5, <1>6, <2>1, <2>2, <2>3 DEF LeaseGranted
<1>8. AttemptInv' /\ PacketInv' /\ AckInv' /\ ConfigInv' /\ RouteHasAddress'
  BY <1>1 DEF IInv, AttemptInv, PacketInv, AckInv, ConfigInv, RouteHasAddress
<1>9. QED
  BY <1>3, <1>4, <1>7, <1>8 DEF IInv

\* A deadline only counts an attempt.
LEMMA TimeoutStep == ASSUME IInv, Timeout PROVE IInv'
<1>1. /\ waiting' = FALSE /\ attempt' = attempt + 1
      /\ UNCHANGED <<pc, xid, offer, lease, net, bound, ifaddrs, route, resolv>>
  BY DEF Timeout, host
<1>2. TypeOK'
  <2>1. waiting /\ attempt < Attempts
    BY DEF Timeout, IInv, AttemptInv
  <2>2. attempt' \in 0..Attempts
    BY <1>1, <2>1, DhcpAssumption DEF IInv, TypeOK
  <2>3. QED
    BY <1>1, <2>2 DEF IInv, TypeOK
<1>3. /\ AttemptInv' /\ PacketInv' /\ RequestInv' /\ AckInv' /\ ConfigInv'
      /\ LeaseGranted' /\ RouteHasAddress'
  BY <1>1 DEF IInv, AttemptInv, PacketInv, RequestInv, AckInv, ConfigInv, LeaseGranted, RouteHasAddress
<1>4. QED
  BY <1>2, <1>3 DEF IInv

\* A failure leaves everything but the client's place as it is.
LEMMA FailStep == ASSUME IInv, Fail PROVE IInv'
<1>1. /\ pc' = "failed" /\ waiting' = FALSE
      /\ UNCHANGED <<xid, attempt, offer, lease, net, bound, ifaddrs, route, resolv>>
  BY DEF Fail, host
<1>2. TypeOK'
  BY <1>1 DEF IInv, TypeOK
<1>3. /\ AttemptInv' /\ PacketInv' /\ RequestInv' /\ AckInv' /\ ConfigInv'
      /\ LeaseGranted' /\ RouteHasAddress'
  BY <1>1 DEF IInv, AttemptInv, PacketInv, RequestInv, AckInv, ConfigInv, LeaseGranted, RouteHasAddress, ConfigSteps
<1>4. QED
  BY <1>2, <1>3 DEF IInv

\* The address comes before the route and the name servers.
LEMMA ConfigureStep ==
  ASSUME IInv, AddAddress \/ AddDefaultRoute \/ WriteResolv PROVE IInv'
<1>1. /\ pc \in ConfigSteps
      /\ pc' \in ConfigSteps \cup {"done"}
      /\ UNCHANGED <<xid, attempt, waiting, offer, lease, net, bound>>
  BY DEF AddAddress, AddDefaultRoute, WriteResolv, ConfigSteps
<1>2. lease \in Grants
  BY <1>1 DEF IInv, RequestInv
<1>3. TypeOK' /\ ConfigInv' /\ RouteHasAddress'
  <2>1. CASE AddAddress
    BY <1>1, <1>2, <2>1 DEF AddAddress, IInv, TypeOK, ConfigInv, RouteHasAddress, ConfigSteps
  <2>2. CASE AddDefaultRoute
    BY <1>1, <1>2, <2>2 DEF AddDefaultRoute, IInv, TypeOK, ConfigInv, RouteHasAddress, ConfigSteps, Grants
  <2>3. CASE WriteResolv
    BY <1>1, <1>2, <2>3 DEF WriteResolv, IInv, TypeOK, ConfigInv, RouteHasAddress, ConfigSteps, Grants
  <2>4. QED
    BY <2>1, <2>2, <2>3
<1>4. AttemptInv' /\ PacketInv' /\ RequestInv' /\ AckInv' /\ LeaseGranted'
  BY <1>1 DEF IInv, AttemptInv, PacketInv, RequestInv, AckInv, LeaseGranted, ConfigSteps
<1>5. QED
  BY <1>3, <1>4 DEF IInv

\* A server only adds packets that are no REQUEST.
LEMMA OffersStep ==
  ASSUME IInv, NEW s \in Servers, NEW a \in Addrs, ServerOffers(s, a) PROVE IInv'
<1> DEFINE g == [server |-> s, addr |-> a]
<1>1. PICK m \in net : m.type = "discover" /\ net' = net \cup {Packet("offer", m.xid, g)}
  BY DEF ServerOffers
<1>2. UNCHANGED <<pc, xid, attempt, waiting, offer, lease, bound, ifaddrs, route, resolv>>
  BY DEF ServerOffers, client, host
<1> DEFINE p == Packet("offer", m.xid, g)
<1>3. p.type = "offer" /\ p.xid = m.xid /\ p.server = s /\ p.addr = a
  BY PacketFields
<1>4. p \in Packets /\ m.xid <= xid
  BY <1>1 DEF Packet, Packets, IInv, TypeOK, PacketInv
<1> HIDE DEF p, g
<1>5. net' = net \cup {p}
  BY <1>1 DEF p
<1>6. TypeOK'
  BY <1>2, <1>4, <1>5 DEF IInv, TypeOK
<1>7. PacketInv'
  BY <1>2, <1>3, <1>4, <1>5 DEF IInv, PacketInv
<1>8. RequestInv'
  BY <1>2, <1>3, <1>5 DEF IInv, RequestInv
<1>9. AckInv'
  BY <1>2, <1>3, <1>5 DEF IInv, AckInv
<1>10. AttemptInv' /\ ConfigInv' /\ LeaseGranted' /\ RouteHasAddress'
  BY <1>2 DEF IInv, AttemptInv, ConfigInv, LeaseGranted, RouteHasAddress
<1>11. QED
  BY <1>6, <1>7, <1>8, <1>9, <1>10 DEF IInv

\* A server notes a grant when it sends the ACK for a REQUEST.
LEMMA AnswersStep ==
  ASSUME IInv, NEW s \in Servers, ServerAnswers(s) PROVE IInv'
<1>1. PICK m \in net, t \in {"ack", "nak"} :
        /\ m.type = "request" /\ m.server \in {s, None}
        /\ net' = net \cup {Packet(t, m.xid, [server |-> s, addr |-> m.addr])}
        /\ bound \subseteq bound'
        /\ bound' \subseteq bound \cup {[xid |-> m.xid, server |-> s, addr |-> m.addr]}
        /\ t = "ack" => [xid |-> m.xid, server |-> s, addr |-> m.addr] \in bound'
  BY DEF ServerAnswers
<1>2. UNCHANGED <<pc, xid, attempt, waiting, offer, lease, ifaddrs, route, resolv>>
  BY DEF ServerAnswers, client, host
<1> DEFINE p == Packet(t, m.xid, [server |-> s, addr |-> m.addr])
<1>3. p.type = t /\ p.xid = m.xid /\ p.server = s /\ p.addr = m.addr
  BY PacketFields
<1>4. m.xid <= xid /\ m.xid \in Nat /\ m.addr \in Addrs
  BY <1>1 DEF IInv, TypeOK, PacketInv, Packets
<1>5. p \in Packets
  BY <1>1, <1>4 DEF Packet, Packets
<1> HIDE DEF p
<1>6. net' = net \cup {p}
  BY <1>1 DEF p
<1>7. TypeOK'
  BY <1>1, <1>2, <1>4, <1>5, <1>6 DEF IInv, TypeOK
<1>8. PacketInv'
  BY <1>1, <1>2, <1>3, <1>4, <1>6 DEF IInv, PacketInv
<1>9. RequestInv'
  BY <1>1, <1>2, <1>3, <1>6 DEF IInv, RequestInv
<1>10. AckInv'
  <2>1. ASSUME NEW k \in net', k.type = "ack"
        PROVE  /\ [xid |-> k.xid, server |-> k.server, addr |-> k.addr] \in bound'
               /\ \E q \in net' : /\ q.type = "request" /\ q.xid = k.xid
                                  /\ q.server \in {k.server, None} /\ q.addr = k.addr
    <3>1. CASE k \in net
      BY <1>1, <1>6, <2>1, <3>1 DEF IInv, AckInv
    <3>2. CASE k = p
      BY <1>1, <1>3, <1>6, <2>1, <3>2
    <3>3. QED
      BY <1>6, <3>1, <3>2
  <2>2. QED
    BY <2>1 DEF AckInv
<1>11. AttemptInv' /\ ConfigInv' /\ LeaseGranted' /\ RouteHasAddress'
  BY <1>1, <1>2 DEF IInv, AttemptInv, ConfigInv, LeaseGranted, RouteHasAddress
<1>12. QED
  BY <1>7, <1>8, <1>9, <1>10, <1>11 DEF IInv

-------------------------------------------------------------------------------

\* Every step keeps the inductive invariant.
LEMMA NextIInv == IInv /\ [Next]_vars => IInv'
<1> SUFFICES ASSUME IInv, [Next]_vars PROVE IInv'
  OBVIOUS
<1>1. CASE Acquire
  BY <1>1, AcquireStep
<1>2. CASE Send \/ Timeout
  BY <1>2, SendStep, TimeoutStep
<1>3. CASE GiveUp \/ ConfigureFails
  BY <1>3, FailStep DEF GiveUp, ConfigureFails
<1>4. ASSUME NEW m \in net, ReceiveOffer(m) \/ ReceiveAck(m) \/ ReceiveNak(m) PROVE IInv'
  BY <1>4, OfferStep, AckStep, FailStep DEF ReceiveNak
<1>5. CASE AddAddress \/ AddDefaultRoute \/ WriteResolv
  BY <1>5, ConfigureStep
<1>6. ASSUME NEW s \in Servers, (\E a \in Addrs : ServerOffers(s, a)) \/ ServerAnswers(s)
      PROVE  IInv'
  BY <1>6, OffersStep, AnswersStep
<1>7. CASE UNCHANGED vars
  BY <1>7
  DEF vars, client, host, IInv, TypeOK, AttemptInv, PacketInv, RequestInv, AckInv, ConfigInv,
      LeaseGranted, RouteHasAddress
<1>8. QED
  BY <1>1, <1>2, <1>3, <1>4, <1>5, <1>6, <1>7 DEF Next, Exchange, Configure

\* The inductive invariant holds in every reachable state.
THEOREM Invariance == Spec => []IInv
BY InitIInv, NextIInv, PTL DEF Spec

\* Whatever is lost, duplicated, delayed or reordered, the lease configured is one
\* granted in this transaction for the address asked for.
THEOREM LeasesAreGranted == Spec => []LeaseGranted
<1>1. IInv => LeaseGranted
  BY DEF IInv
<1>2. QED
  BY Invariance, <1>1, PTL

\* A default route or a name server has an address of its network beside it.
THEOREM RoutesHaveAddresses == Spec => []RouteHasAddress
<1>1. IInv => RouteHasAddress
  BY DEF IInv
<1>2. QED
  BY Invariance, <1>1, PTL

\* Attempts, transactions and packets stay within their bounds whatever arrives.
THEOREM DhcpTypes == Spec => []TypeOK
<1>1. IInv => TypeOK
  BY DEF IInv
<1>2. QED
  BY Invariance, <1>1, PTL

-------------------------------------------------------------------------------
(* What the client makes servers grant *)

\* What exchange sends as the REQUEST of this transaction, every time.
Asked == Packet("request", xid, [offer EXCEPT !.server = IF offer.server \in Named THEN @ ELSE None])

\* A transaction has one REQUEST, however often it is sent, and every grant is an
\* answer to it.
AskedInv ==
  /\ \A m \in net : (m.type = "request" /\ m.xid = xid) => m = Asked
  /\ \A m, n \in net : (m.type = "request" /\ n.type = "request" /\ m.xid = n.xid) => m = n
  /\ \A g \in bound :
       \E q \in net : /\ q.type = "request" /\ q.xid = g.xid
                      /\ q.addr = g.addr /\ q.server \in {g.server, None}

LEMMA AskedStep == ASSUME IInv, AskedInv, [Next]_vars PROVE AskedInv'
<1> USE DEF AskedInv
<1>1. CASE Acquire
  <2>1. xid \in Nat /\ xid' = xid + 1 /\ UNCHANGED <<net, bound>>
    BY <1>1, DhcpAssumption DEF Acquire, IInv, TypeOK
  <2>2. \A m \in net : m.xid # xid'
    BY <2>1 DEF IInv, PacketInv, TypeOK, Packets
  <2>3. QED
    BY <2>1, <2>2
<1>2. CASE Send
  <2>1. net' = net \cup {Message} /\ UNCHANGED <<pc, xid, offer, bound>> /\ pc \in Exchanges
    BY <1>2 DEF Send
  <2>2. Message.type = pc /\ Message.xid = xid
    BY <2>1, PacketFields DEF Message
  <2>3. pc = "request" => Message = Asked
    BY DEF Message, Asked
  <2>4. Asked' = Asked
    BY <2>1 DEF Asked
  <2>5. CASE pc = "request"
    BY <2>1, <2>2, <2>3, <2>4, <2>5
  <2>6. CASE pc # "request"
    BY <2>1, <2>2, <2>4, <2>6
  <2>7. QED
    BY <2>5, <2>6
<1>3. ASSUME UNCHANGED <<xid, offer, net, bound>> PROVE AskedInv'
  BY <1>3 DEF Asked
<1>4. CASE Timeout \/ GiveUp \/ ConfigureFails \/ AddAddress \/ AddDefaultRoute \/ WriteResolv \/ UNCHANGED vars
  BY <1>3, <1>4 DEF Timeout, GiveUp, ConfigureFails, Fail, AddAddress, AddDefaultRoute, WriteResolv, vars, client
<1>5. ASSUME NEW m \in net, ReceiveAck(m) \/ ReceiveNak(m) PROVE AskedInv'
  BY <1>3, <1>5 DEF ReceiveAck, ReceiveNak, Fail
<1>6. ASSUME NEW m \in net, ReceiveOffer(m) PROVE AskedInv'
  <2>1. UNCHANGED <<xid, net, bound>> /\ pc = "discover"
    BY <1>6 DEF ReceiveOffer
  <2>2. \A q \in net : ~ (q.type = "request" /\ q.xid = xid)
    BY <2>1 DEF IInv, RequestInv
  <2>3. QED
    BY <2>1, <2>2
<1>7. ASSUME NEW s \in Servers, NEW a \in Addrs, ServerOffers(s, a) PROVE AskedInv'
  <2>1. PICK m \in net : net' = net \cup {Packet("offer", m.xid, [server |-> s, addr |-> a])}
    BY <1>7 DEF ServerOffers
  <2>2. UNCHANGED <<xid, offer, bound>>
    BY <1>7 DEF ServerOffers, client
  <2>3. Packet("offer", m.xid, [server |-> s, addr |-> a]).type = "offer"
    BY PacketFields
  <2>4. Asked' = Asked
    BY <2>2 DEF Asked
  <2>5. QED
    BY <2>1, <2>2, <2>3, <2>4
<1>8. ASSUME NEW s \in Servers, ServerAnswers(s) PROVE AskedInv'
  <2>1. PICK m \in net :
          /\ m.type = "request" /\ m.server \in {s, None}
          /\ LET grant == [server |-> s, addr |-> m.addr] IN
               \/ /\ net' = net \cup {Packet("ack", m.xid, grant)}
                  /\ bound' = bound \cup {[xid |-> m.xid, server |-> s, addr |-> m.addr]}
               \/ /\ net' = net \cup {Packet("nak", m.xid, grant)}
                  /\ UNCHANGED bound
    BY <1>8 DEF ServerAnswers
  <2>2. UNCHANGED <<xid, offer>>
    BY <1>8 DEF ServerAnswers, client
  <2>3. Asked' = Asked
    BY <2>2 DEF Asked
  <2>4. PICK p : net' = net \cup {p} /\ p.type \in {"ack", "nak"}
    BY <2>1, PacketFields
  <2>5. \A g \in bound' : g \in bound \/ (g.xid = m.xid /\ g.server = s /\ g.addr = m.addr)
    BY <2>1
  <2>6. QED
    BY <2>1, <2>2, <2>3, <2>4, <2>5
<1>9. QED
  BY <1>1, <1>2, <1>4, <1>5, <1>6, <1>7, <1>8 DEF Next, Exchange, Configure

\* However many servers answer and however often packets are repeated or delayed,
\* one call of Acquire makes the servers set aside one address: every REQUEST of
\* the transaction asks for the same one, also after a later OFFER, and two
\* servers grant it only when the offer taken did not say whose it is.
OneAddressPerAcquire ==
  \A g, h \in bound :
    g.xid = h.xid =>
      /\ g.addr = h.addr
      /\ g.server = h.server \/ \E q \in net : q.type = "request" /\ q.xid = g.xid /\ q.server = None

\* Retransmission never asks for a second address (exchange, Acquire).
THEOREM OneAddressIsAsked == Spec => []OneAddressPerAcquire
<1>1. Init => AskedInv
  BY DEF Init, AskedInv
<1>2. IInv /\ AskedInv /\ [Next]_vars => AskedInv'
  BY AskedStep
<1>3. AskedInv => OneAddressPerAcquire
  <2> SUFFICES ASSUME AskedInv, NEW g \in bound, NEW h \in bound, g.xid = h.xid
               PROVE  /\ g.addr = h.addr
                      /\ g.server = h.server \/ \E q \in net : q.type = "request" /\ q.xid = g.xid /\ q.server = None
    BY DEF OneAddressPerAcquire
  <2>1. PICK q \in net : q.type = "request" /\ q.xid = g.xid /\ q.addr = g.addr /\ q.server \in {g.server, None}
    BY DEF AskedInv
  <2>2. PICK p \in net : p.type = "request" /\ p.xid = h.xid /\ p.addr = h.addr /\ p.server \in {h.server, None}
    BY DEF AskedInv
  <2>3. p = q
    BY <2>1, <2>2 DEF AskedInv
  <2>4. QED
    BY <2>1, <2>2, <2>3
<1>4. QED
  BY Invariance, <1>1, <1>2, <1>3, PTL DEF Spec

-------------------------------------------------------------------------------
(* How far an acquisition can go *)

\* Stages still to come.
StagesLeft(step) ==
  CASE step = "discover" -> 5 [] step = "request" -> 4 [] step = "address" -> 3
    [] step = "route" -> 2 [] step = "resolv" -> 1 [] OTHER -> 0

\* Between two calls of Acquire every step of the client goes forward: to a later
\* stage, from sending to waiting, or to the next of its Attempts.  No packet, of
\* this transaction or an old one, sends it back or gives it attempts to spare.
ClientAdvances ==
  [][(UNCHANGED xid /\ client' # client) =>
       \/ StagesLeft(pc') < StagesLeft(pc)
       \/ pc' = pc /\ attempt' = attempt /\ ~ waiting /\ waiting'
       \/ pc' = pc /\ attempt' = attempt + 1 /\ attempt' <= Attempts /\ waiting /\ ~ waiting']_vars

\* An acquisition is at most two exchanges of Attempts transmissions each and
\* three steps of Configure; that it takes them is AcquireEnds's fairness.
THEOREM AcquiresAreBounded == Spec => ClientAdvances
<1> DEFINE Step == (UNCHANGED xid /\ client' # client) =>
                     \/ StagesLeft(pc') < StagesLeft(pc)
                     \/ pc' = pc /\ attempt' = attempt /\ ~ waiting /\ waiting'
                     \/ pc' = pc /\ attempt' = attempt + 1 /\ attempt' <= Attempts /\ waiting /\ ~ waiting'
<1>1. IInv /\ [Next]_vars => Step
  <2> SUFFICES ASSUME IInv, [Next]_vars, UNCHANGED xid, client' # client
               PROVE  \/ StagesLeft(pc') < StagesLeft(pc)
                      \/ pc' = pc /\ attempt' = attempt /\ ~ waiting /\ waiting'
                      \/ pc' = pc /\ attempt' = attempt + 1 /\ attempt' <= Attempts /\ waiting /\ ~ waiting'
    OBVIOUS
  <2>1. ~ Acquire
    <3>1. xid \in Nat
      BY DhcpAssumption DEF IInv, TypeOK
    <3>2. QED
      BY <3>1 DEF Acquire
  <2>2. CASE Send
    BY <2>2, Zenon DEF Send
  <2>3. CASE Timeout
    <3>1. attempt \in Nat /\ attempt < Attempts /\ Attempts \in Nat
      BY <2>3, DhcpAssumption DEF Timeout, IInv, TypeOK, AttemptInv
    <3>2. attempt' = attempt + 1 /\ attempt' <= Attempts
      BY <2>3, <3>1 DEF Timeout
    <3>3. QED
      BY <2>3, <3>2, Zenon DEF Timeout
  <2>4. CASE GiveUp \/ ConfigureFails \/ \E m \in net : ReceiveOffer(m) \/ ReceiveAck(m) \/ ReceiveNak(m)
    <3>1. \/ pc' = "failed" /\ pc \in Exchanges \cup ConfigSteps
          \/ pc' = "request" /\ pc = "discover"
          \/ pc' = "address" /\ pc = "request"
      BY <2>4 DEF GiveUp, ConfigureFails, ReceiveOffer, ReceiveAck, ReceiveNak, Fail
    <3>2. QED
      BY <3>1 DEF StagesLeft, Exchanges, ConfigSteps
  <2>5. CASE AddAddress \/ AddDefaultRoute \/ WriteResolv
    BY <2>5 DEF AddAddress, AddDefaultRoute, WriteResolv, StagesLeft
  <2>6. ASSUME NEW s \in Servers, (\E a \in Addrs : ServerOffers(s, a)) \/ ServerAnswers(s) PROVE UNCHANGED client
    BY <2>6 DEF ServerOffers, ServerAnswers
  <2>7. QED
    BY <2>1, <2>2, <2>3, <2>4, <2>5, <2>6 DEF Next, Exchange, Configure, vars
<1>2. QED
  BY Invariance, <1>1, PTL DEF Spec, ClientAdvances
===============================================================================
