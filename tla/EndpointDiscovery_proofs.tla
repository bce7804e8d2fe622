---------------------- MODULE EndpointDiscovery_proofs ----------------------
(***************************************************************************)
(* Proofs about EndpointDiscovery, for any team, any reach of the walkers  *)
(* and any number of restarts.                                             *)
(***************************************************************************)
EXTENDS EndpointDiscovery, TLAPS

-----------------------------------------------------------------------------
(* Type correctness.                                                       *)

\* Every packet written is a packet.
LEMMA PacketsTyped ==
    ASSUME TypeOK
    PROVE  /\ \A n, m \in Member : Announcement(n, m) \in Packet /\ Request(n, m) \in Packet
           /\ \A n, m, t \in Member : \A e \in Endpoint :
                 Gossip(n, m, t, e) \in Packet /\ Walk(n, t, e) \in Packet
  <1>1. 1 \in Endpoint /\ \A n \in Member : life[n] \in Endpoint
    BY LivesAssumption DEF TypeOK, Endpoint
  <1> QED BY <1>1 DEF Announcement, Request, Gossip, Walk, Packet

\* The endpoint of whoever is not missing is an endpoint.
LEMMA NotMissing ==
    ASSUME TypeOK, NEW n \in Member, NEW m \in Teammates(n) \ Missing(n)
    PROVE  endpoints[n][m] \in Endpoint /\ endpoints[n][m] # Unknown
  BY DEF TypeOK, Missing, Teammates

LEMMA GossipTyped ==
    ASSUME TypeOK, NEW n \in Member, NEW t \in Member, NEW e \in Endpoint
    PROVE  GossipKnown(n, t, e) \subseteq Packet
  <1>1. \A o \in Teammates(n) \ (Missing(n) \cup {t}) :
           o \in Member /\ endpoints[n][o] \in Endpoint
    BY NotMissing DEF Teammates
  <1> QED BY <1>1, PacketsTyped DEF GossipKnown

LEMMA TypedInit == Init => TypeOK
  BY LivesAssumption DEF Init, TypeOK, Endpoint

LEMMA TypedOverlay ==
    ASSUME TypeOK, Overlay
    PROVE  TypeOK'
  <1>1. ASSUME NEW n \in Member, NEW m \in Member, Walked(n, m) PROVE TypeOK'
    BY <1>1 DEF Walked, TypeOK
  <1>2. ASSUME NEW n \in Member, NEW m \in Member, Introduced(n, m) PROVE TypeOK'
    <2>1. mail' \subseteq Packet
      BY <1>2, PacketsTyped DEF Introduced, TypeOK
    <2> QED BY <1>2, <2>1 DEF Introduced, TypeOK
  <1>3. ASSUME NEW n \in Member, AnnounceToTeam(n) \/ RequestEndpoints(n) PROVE TypeOK'
    <2>1. Missing(n) \subseteq Member
      BY DEF Missing, Teammates
    <2>2. mail' \subseteq Packet
      BY <1>3, <2>1, PacketsTyped DEF AnnounceToTeam, RequestEndpoints, TypeOK
    <2> QED BY <1>3, <2>2 DEF AnnounceToTeam, RequestEndpoints, TypeOK
  <1>4. ASSUME NEW p \in mail, Receive(p) PROVE TypeOK'
    <2>1. p.from \in Member /\ p.to \in Member /\ p.about \in Member /\ p.at \in Endpoint
      BY DEF TypeOK, Packet
    <2>2. CASE OnAnnouncement(p)
      <3>1. mail' \subseteq Packet
        BY <2>1, <2>2, GossipTyped DEF OnAnnouncement, TypeOK
      <3>2. endpoints' \in [Member -> [Member -> Endpoint \cup {Unknown}]]
        BY <2>1, <2>2 DEF OnAnnouncement, TypeOK
      <3> QED BY <2>2, <3>1, <3>2 DEF OnAnnouncement, TypeOK
    <2>3. CASE OnRequest(p)
      BY <2>1, <2>3, PacketsTyped DEF OnRequest, TypeOK
    <2>4. CASE OnGossip(p)
      BY <2>1, <2>4, PacketsTyped DEF OnGossip, TypeOK
    <2> QED BY <1>4, <2>2, <2>3, <2>4 DEF Receive
  <1> QED BY <1>1, <1>2, <1>3, <1>4 DEF Overlay

LEMMA TypedSession ==
    ASSUME TypeOK, NEW n \in Member,
           EndpointsFound(n) \/ ServerFound(n) \/ Leave(n) \/ Restart(n)
    PROVE  TypeOK'
  <1>1. CASE EndpointsFound(n)
    BY <1>1 DEF EndpointsFound, TypeOK
  <1>2. CASE ServerFound(n) \/ Leave(n)
    BY <1>2 DEF ServerFound, Leave, TypeOK
  <1>3. CASE Restart(n)
    <2>1. life[n] + 1 \in Endpoint
      BY <1>3, LivesAssumption DEF Restart, TypeOK, Endpoint
    <2>2. life' \in [Member -> Endpoint]
      BY <1>3, <2>1 DEF Restart, TypeOK
    <2>3. [m \in Member |-> Unknown] \in [Member -> Endpoint \cup {Unknown}]
      OBVIOUS
    <2> QED BY <1>3, <2>2, <2>3 DEF Restart, TypeOK
  <1> QED BY <1>1, <1>2, <1>3

\* Every variable of the discovery always holds values of its kind.
THEOREM DiscoveryTyped == Spec => []TypeOK
  <1>1. TypeOK /\ [Next]_vars => TypeOK'
    <2>1. TypeOK /\ UNCHANGED vars => TypeOK'
      BY DEF vars, TypeOK
    <2> QED BY <2>1, TypedOverlay, TypedSession DEF Next, Session, Departure
  <1> QED BY TypedInit, <1>1, PTL DEF Spec

-----------------------------------------------------------------------------
(* Nobody believes hearsay.                                                *)

\* The packets and the lives only grow.
LEMMA Grows ==
    ASSUME TypeOK, [Next]_vars
    PROVE  mail \subseteq mail' /\ \A m \in Member : life'[m] \in Nat /\ life[m] \in Nat /\ life[m] <= life'[m]
  <1>1. \A m \in Member : life[m] \in Nat
    BY LivesAssumption DEF TypeOK, Endpoint
  <1>2. CASE Overlay
    <2>1. \A n, m \in Member : Walked(n, m) \/ Introduced(n, m) => mail \subseteq mail' /\ life' = life
      BY DEF Walked, Introduced
    <2>2. \A n \in Member : AnnounceToTeam(n) \/ RequestEndpoints(n) => mail \subseteq mail' /\ life' = life
      BY DEF AnnounceToTeam, RequestEndpoints
    <2>3. \A p : Receive(p) => mail \subseteq mail' /\ life' = life
      BY DEF Receive, OnAnnouncement, OnRequest, OnGossip
    <2>4. mail \subseteq mail' /\ life' = life
      BY <1>2, <2>1, <2>2, <2>3 DEF Overlay
    <2> QED BY <1>1, <2>4
  <1>3. ASSUME NEW n \in Member, EndpointsFound(n) \/ ServerFound(n) \/ Leave(n)
        PROVE  mail' = mail /\ life' = life
    BY <1>3 DEF EndpointsFound, ServerFound, Leave
  <1>4. ASSUME NEW n \in Member, Restart(n)
        PROVE  mail' = mail /\ \A m \in Member : life'[m] = life[m] \/ life'[m] = life[m] + 1
    BY <1>4 DEF Restart, TypeOK
  <1>5. CASE UNCHANGED vars
    BY <1>1, <1>5 DEF vars
  <1> QED BY <1>1, <1>2, <1>3, <1>4, <1>5 DEF Next, Session, Departure

\* What has been told stays told.
LEMMA ToldKept ==
    ASSUME TypeOK, [Next]_vars, NEW m \in Member, NEW n \in Member, NEW e \in Nat, Told(m, n, e)
    PROVE  Told(m, n, e)'
  BY Grows DEF Told

\* The packets a step adds.
New == mail' \ mail

\* A step keeps the rule if the endpoints it writes and the packets it adds obey it.
LEMMA HearsayKept ==
    ASSUME TypeOK, TypeOK', NoHearsay, [Next]_vars,
           \A n, m \in Member : \/ endpoints'[n][m] = endpoints[n][m]
                                \/ endpoints'[n][m] = Unknown
                                \/ Told(m, n, endpoints'[n][m]),
           \A p \in New : /\ p.kind = "announcement" => p.at = life[p.from] /\ life' = life
                          /\ p.kind = "gossip" => Told(p.about, p.from, p.at)
    PROVE  NoHearsay'
  <1> USE DEF NoHearsay
  <1>1. ASSUME NEW n \in Member, NEW m \in Member, endpoints'[n][m] # Unknown
        PROVE  Told(m, n, endpoints[n][m])'
    <2>1. Told(m, n, endpoints'[n][m])
      BY <1>1
    <2>2. endpoints'[n][m] \in Nat
      BY DEF TypeOK, Endpoint, Unknown
    <2> DEFINE e == endpoints'[n][m]
    <2>3. Told(m, n, e)
      BY <2>1
    <2> QED BY <2>1, <2>2, Grows DEF Told
  <1>2. ASSUME NEW p \in mail', p.kind = "announcement"
        PROVE  Told(p.from, p.to, p.at)'
    <2>1. p.from \in Member /\ p.to \in Member /\ p.at \in Nat
      BY DEF TypeOK, Packet, Endpoint
    <2>2. CASE p \in mail
      BY <1>2, <2>1, <2>2, ToldKept
    <2>3. CASE p \in New
      BY <1>2, <2>1, <2>3, Grows DEF Told
    <2> QED BY <2>2, <2>3 DEF New
  <1>3. ASSUME NEW p \in mail', p.kind = "gossip"
        PROVE  Told(p.about, p.from, p.at)'
    <2>1. p.from \in Member /\ p.about \in Member /\ p.at \in Nat
      BY DEF TypeOK, Packet, Endpoint
    <2>2. Told(p.about, p.from, p.at)
      BY <1>3 DEF New
    <2> QED BY <2>1, <2>2, ToldKept
  <1> QED BY <1>1, <1>2, <1>3

\* What n gossips of a newcomer t, and to it, n has been told.
LEMMA GossipTold ==
    ASSUME TypeOK, NoHearsay, NEW n \in Member, NEW t \in Member, NEW e, Told(t, n, e),
           NEW p \in GossipKnown(n, t, e)
    PROVE  p.kind = "gossip" /\ Told(p.about, p.from, p.at)
  <1> DEFINE others == Teammates(n) \ (Missing(n) \cup {t})
  <1>1. CASE \E o \in others : p = Gossip(n, o, t, e)
    BY <1>1 DEF Gossip
  <1>2. CASE \E o \in others : p = Gossip(n, t, o, endpoints[n][o])
    <2>1. PICK o \in others : p = Gossip(n, t, o, endpoints[n][o])
      BY <1>2
    <2>2. o \in Member /\ endpoints[n][o] # Unknown
      BY <2>1, NotMissing DEF Teammates
    <2>3. Told(o, n, endpoints[n][o])
      BY <2>2 DEF NoHearsay
    <2> QED BY <2>1, <2>3 DEF Gossip
  <1> QED BY <1>1, <1>2 DEF GossipKnown

LEMMA HearsayInit == Init => NoHearsay
  BY DEF Init, NoHearsay

LEMMA HearsayStep ==
    ASSUME TypeOK, TypeOK', NoHearsay, [Next]_vars
    PROVE  NoHearsay'
  <1>1. ASSUME NEW n \in Member, NEW m \in Member, Walked(n, m) PROVE NoHearsay'
    BY <1>1, HearsayKept DEF Walked, New
  <1>2. ASSUME NEW n \in Member, NEW m \in Member, Introduced(n, m) PROVE NoHearsay'
    <2>1. \A p \in New : p = Request(n, m) \/ p = Announcement(n, m)
      BY <1>2 DEF Introduced, New
    <2>2. \A p \in New : p.kind = "announcement" => p.at = life[p.from]
      BY <2>1 DEF Request, Announcement
    <2>3. \A p \in New : p.kind # "gossip"
      BY <2>1 DEF Request, Announcement
    <2>4. endpoints' = endpoints /\ life' = life
      BY <1>2 DEF Introduced
    <2> QED BY <2>2, <2>3, <2>4, HearsayKept
  <1>3. ASSUME NEW n \in Member, AnnounceToTeam(n) \/ RequestEndpoints(n) PROVE NoHearsay'
    <2>1. \A p \in New : \E m \in Member : p = Request(n, m) \/ p = Announcement(n, m)
      BY <1>3 DEF AnnounceToTeam, RequestEndpoints, New, Missing, Teammates
    <2>2. \A p \in New : p.kind = "announcement" => p.at = life[p.from]
      BY <2>1 DEF Request, Announcement
    <2>3. \A p \in New : p.kind # "gossip"
      BY <2>1 DEF Request, Announcement
    <2>4. endpoints' = endpoints /\ life' = life
      BY <1>3 DEF AnnounceToTeam, RequestEndpoints
    <2> QED BY <2>2, <2>3, <2>4, HearsayKept
  <1>4. ASSUME NEW q \in mail, OnAnnouncement(q) PROVE NoHearsay'
    <2>1. q.from \in Member /\ q.to \in Member /\ Told(q.from, q.to, q.at)
      BY <1>4 DEF TypeOK, Packet, NoHearsay, OnAnnouncement
    <2>2. \A p \in New : p.kind = "gossip" /\ Told(p.about, p.from, p.at)
      BY <1>4, <2>1, GossipTold DEF OnAnnouncement, New
    <2>3. \A n, m \in Member : \/ endpoints'[n][m] = endpoints[n][m]
                               \/ Told(m, n, endpoints'[n][m])
      BY <1>4, <2>1 DEF OnAnnouncement, TypeOK
    <2> QED BY <2>2, <2>3, HearsayKept
  <1>5. ASSUME NEW q \in mail, OnRequest(q) PROVE NoHearsay'
    <2>1. \A p \in New : p = Announcement(q.to, q.from)
      BY <1>5 DEF OnRequest, New
    <2>2. \A p \in New : p.kind = "announcement" /\ p.at = life[p.from]
      BY <2>1 DEF Announcement
    <2>3. endpoints' = endpoints /\ life' = life
      BY <1>5 DEF OnRequest
    <2> QED BY <2>2, <2>3, HearsayKept
  <1>6. ASSUME NEW q \in mail, OnGossip(q) PROVE NoHearsay'
    <2>1. \A p \in New : p.kind = "walk"
      BY <1>6 DEF OnGossip, New, Walk
    <2>2. endpoints' = endpoints
      BY <1>6 DEF OnGossip
    <2> QED BY <2>1, <2>2, HearsayKept
  <1>7. ASSUME NEW n \in Member, EndpointsFound(n) \/ ServerFound(n) \/ Leave(n) PROVE NoHearsay'
    BY <1>7, HearsayKept DEF EndpointsFound, ServerFound, Leave, New
  <1>8. ASSUME NEW n \in Member, Restart(n) PROVE NoHearsay'
    <2>1. New = {}
      BY <1>8 DEF Restart, New
    <2>2. \A k, m \in Member : endpoints'[k][m] = endpoints[k][m] \/ endpoints'[k][m] = Unknown
      BY <1>8 DEF Restart, TypeOK
    <2> QED BY <2>1, <2>2, HearsayKept
  <1>9. ASSUME UNCHANGED vars PROVE NoHearsay'
    BY <1>9, HearsayKept DEF vars, New
  <1> QED BY <1>1, <1>2, <1>3, <1>4, <1>5, <1>6, <1>7, <1>8, <1>9
             DEF Next, Overlay, Session, Departure, Receive

LEMMA RaceInit == Init => RaceKnowsTeam
  BY DEF Init, RaceKnowsTeam

LEMMA RaceStep ==
    ASSUME TypeOK, NoHearsay, RaceKnowsTeam, [Next]_vars
    PROVE  RaceKnowsTeam'
  <1> USE DEF RaceKnowsTeam
  <1>1. ASSUME NEW n \in Member, phase'[n] \in {"seeking", "racing"},
               NEW m \in Teammates(n),
               \/ phase[n] \in {"seeking", "racing"} /\ peers'[n] = peers[n]
               \/ EndpointsFound(n)
        PROVE  Told(m, n, peers[n][m])'
    <2>1. m \in Member /\ peers'[n][m] \in Nat /\ Told(m, n, peers'[n][m])
      <3>1. CASE phase[n] \in {"seeking", "racing"} /\ peers'[n] = peers[n]
        BY <3>1 DEF Teammates, TypeOK, Endpoint, Unknown
      <3>2. CASE EndpointsFound(n)
        <4>1. Missing(n) = {} /\ peers'[n] = endpoints[n]
          BY <3>2 DEF EndpointsFound, TypeOK
        <4>2. m \in Member /\ endpoints[n][m] # Unknown /\ endpoints[n][m] \in Nat
          BY <4>1, NotMissing DEF Teammates, Endpoint
        <4>3. Told(m, n, endpoints[n][m])
          BY <4>2 DEF NoHearsay
        <4> QED BY <4>1, <4>2, <4>3
      <3> QED BY <1>1, <3>1, <3>2
    <2> QED BY <2>1, Grows DEF Told
  <1>2. CASE Overlay \/ UNCHANGED vars
    <2>1. \A n, m \in Member : Walked(n, m) \/ Introduced(n, m) => UNCHANGED <<phase, peers>>
      BY DEF Walked, Introduced
    <2>2. \A n \in Member : AnnounceToTeam(n) \/ RequestEndpoints(n) => UNCHANGED <<phase, peers>>
      BY DEF AnnounceToTeam, RequestEndpoints
    <2>3. \A p : Receive(p) => UNCHANGED <<phase, peers>>
      BY DEF Receive, OnAnnouncement, OnRequest, OnGossip
    <2>4. UNCHANGED <<phase, peers>>
      BY <1>2, <2>1, <2>2, <2>3 DEF Overlay, vars
    <2> QED BY <1>1, <2>4 DEF Teammates
  <1>3. ASSUME NEW k \in Member, EndpointsFound(k) PROVE RaceKnowsTeam'
    <2>1. \A n \in Member : n # k => phase'[n] = phase[n] /\ peers'[n] = peers[n]
      BY <1>3 DEF EndpointsFound, TypeOK
    <2> QED BY <1>1, <1>3, <2>1 DEF Teammates
  <1>4. ASSUME NEW k \in Member, ServerFound(k) \/ Leave(k) PROVE RaceKnowsTeam'
    <2>1. peers' = peers
      BY <1>4 DEF ServerFound, Leave
    <2>2. \A n \in Member : phase'[n] \in {"seeking", "racing"} => phase[n] \in {"seeking", "racing"}
      BY <1>4 DEF ServerFound, Leave, TypeOK
    <2> QED BY <1>1, <2>1, <2>2 DEF Teammates
  <1>5. ASSUME NEW k \in Member, Restart(k) PROVE RaceKnowsTeam'
    <2>1. \A n \in Member : n # k => phase'[n] = phase[n] /\ peers'[n] = peers[n]
      BY <1>5 DEF Restart, TypeOK
    <2>2. phase'[k] = "discovering"
      BY <1>5 DEF Restart, TypeOK
    <2> QED BY <1>1, <2>1, <2>2 DEF Teammates
  <1> QED BY <1>2, <1>3, <1>4, <1>5 DEF Next, Session, Departure

DInv == TypeOK /\ NoHearsay /\ RaceKnowsTeam

LEMMA DiscoveryInvariant == Spec => []DInv
  <1>1. Init => DInv
    BY TypedInit, HearsayInit, RaceInit DEF DInv
  <1>2. DInv /\ [Next]_vars => DInv'
    <2> SUFFICES ASSUME DInv, [Next]_vars PROVE DInv'
      OBVIOUS
    <2>1. TypeOK'
      <3>1. UNCHANGED vars => TypeOK'
        BY DEF DInv, vars, TypeOK
      <3> QED BY <3>1, TypedOverlay, TypedSession DEF DInv, Next, Session, Departure
    <2> QED BY <2>1, HearsayStep, RaceStep DEF DInv
  <1> QED BY <1>1, <1>2, PTL DEF Spec

\* An endpoint a node holds, announces or gossips is one its owner has announced
\* itself, however packets are delayed, repeated or outlive the life they tell of.
THEOREM EndpointsAreFirstHand == Spec => []NoHearsay
  <1>1. DInv => NoHearsay
    BY DEF DInv
  <1> QED BY DiscoveryInvariant, <1>1, PTL

\* No member races before every teammate has told it where to send.
THEOREM TeamIsKnown == Spec => []RaceKnowsTeam
  <1>1. DInv => RaceKnowsTeam
    BY DEF DInv
  <1> QED BY DiscoveryInvariant, <1>1, PTL

\* The endpoints a member races with stay those it has copied.
LEMMA MisledStep ==
    ASSUME TypeOK, [Next]_vars, NEW n \in Member, NEW m \in Member, Misled(n, m)
    PROVE  Misled(n, m)' \/ phase'[n] = "stopped" \/ life'[n] # life[n]
  <1>1. life'[m] \in Nat /\ life[m] \in Nat /\ life[m] <= life'[m] /\ peers[n][m] \in Nat
    BY Grows DEF TypeOK, Endpoint, Unknown
  <1>2. CASE Overlay \/ UNCHANGED vars
    <2>1. UNCHANGED <<life, phase, peers>>
      BY <1>2 DEF Overlay, Walked, Introduced, AnnounceToTeam, RequestEndpoints, Receive,
         OnAnnouncement, OnRequest, OnGossip, vars
    <2> QED BY <2>1 DEF Misled
  <1>3. ASSUME NEW k \in Member, EndpointsFound(k)
        PROVE  Misled(n, m)'
    <2>1. k # n
      BY <1>3 DEF EndpointsFound, Misled
    <2> QED BY <1>3, <2>1 DEF EndpointsFound, Misled, TypeOK
  <1>4. ASSUME NEW k \in Member, ServerFound(k) \/ Leave(k)
        PROVE  Misled(n, m)' \/ phase'[n] = "stopped"
    BY <1>4 DEF ServerFound, Leave, Misled, TypeOK
  <1>5. ASSUME NEW k \in Member, Restart(k)
        PROVE  Misled(n, m)' \/ life'[n] # life[n]
    <2>1. CASE k = n
      BY <1>5, <2>1 DEF Restart, TypeOK, Endpoint
    <2>2. CASE k # n
      <3>1. peers'[n] = peers[n] /\ phase'[n] = phase[n]
        BY <1>5, <2>2 DEF Restart, TypeOK
      <3> QED BY <1>1, <3>1 DEF Misled
    <2> QED BY <2>1, <2>2
  <1> QED BY <1>2, <1>3, <1>4, <1>5 DEF Next, Session, Departure

\* Who races with an endpoint of a teammate's earlier life goes on so.
THEOREM StaleEndpointStays == Spec => MisledForGood
  <1>1. DInv /\ [Next]_vars =>
            [\A n, m \in Member : Misled(n, m) =>
                Misled(n, m)' \/ phase'[n] = "stopped" \/ life'[n] # life[n]]_vars
    BY MisledStep DEF DInv
  <1> QED BY <1>1, DiscoveryInvariant, PTL DEF Spec, MisledForGood

-----------------------------------------------------------------------------
(* The overlay implements Rendezvous.                                      *)

Tellings == {<<p.from, p.to, p.at>> : p \in {q \in mail : q.kind = "announcement"}}

\* Packets other than announcements tell nobody anything.
LEMMA NothingTold ==
    ASSUME mail \subseteq mail', \A p \in New : p.kind # "announcement"
    PROVE  Tellings' = Tellings
  BY DEF Tellings, New

\* Announcements of n to the members ms are one step of telling.
LEMMA Telling ==
    ASSUME UNCHANGED <<life, endpoints, peers>>, NEW n \in Member, NEW ms \in SUBSET Member,
           mail \subseteq mail', \A m \in ms : Announcement(n, m) \in mail',
           \A p \in New : p.kind = "announcement" => \E m \in ms : p = Announcement(n, m)
    PROVE  Meeting!Tell(n)
  <1>1. \A m \in ms : /\ Announcement(n, m).kind = "announcement" /\ Announcement(n, m).from = n
                      /\ Announcement(n, m).to = m /\ Announcement(n, m).at = life[n]
    BY DEF Announcement
  <1>2. Tellings' = Tellings \cup {<<n, m, life[n]>> : m \in ms}
    <2>1. ASSUME NEW t \in Tellings' PROVE t \in Tellings \cup {<<n, m, life[n]>> : m \in ms}
      <3>1. PICK p \in mail' : p.kind = "announcement" /\ t = <<p.from, p.to, p.at>>
        BY <2>1 DEF Tellings
      <3> QED BY <1>1, <3>1 DEF Tellings, New
    <2>2. Tellings \subseteq Tellings'
      BY DEF Tellings
    <2>3. ASSUME NEW m \in ms PROVE <<n, m, life[n]>> \in Tellings'
      <3> DEFINE p == Announcement(n, m)
      <3>1. p \in mail' /\ p.kind = "announcement" /\ <<n, m, life[n]>> = <<p.from, p.to, p.at>>
        BY <1>1
      <3> HIDE DEF p
      <3> QED BY <3>1 DEF Tellings
    <2> QED BY <2>1, <2>2, <2>3
  <1> QED BY <1>2 DEF Tellings, Meeting!Tell

LEMMA InitMeets == Init => Meeting!RendezvousInit
  <1> SUFFICES ASSUME Init PROVE Meeting!RendezvousInit
    OBVIOUS
  <1>1. peers = [n \in Member |-> IF n \in {} THEN Meeting!Given(n) ELSE Meeting!Nobody]
    BY DEF Init, Meeting!Nobody, Unknown
  <1> QED BY <1>1 DEF Init, Unknown, Meeting!RendezvousInit, Meeting!Nobody

LEMMA OverlayMeets ==
    ASSUME TypeOK, NoHearsay, Overlay
    PROVE  \/ UNCHANGED <<life, endpoints, peers, Tellings>>
           \/ \E n \in Member : Meeting!Tell(n) \/ \E m \in Member : Meeting!Learn(n, m)
  <1>1. ASSUME NEW n \in Member, NEW m \in Member, Walked(n, m)
        PROVE  UNCHANGED <<life, endpoints, peers, Tellings>>
    BY <1>1 DEF Walked, Tellings
  <1>2. ASSUME NEW n \in Member, NEW m \in Member, Introduced(n, m)
        PROVE  Meeting!Tell(n)
    <2>1. /\ mail' = mail \cup {p \in {Request(n, m), Announcement(n, m)} : m \in Missing(n)}
          /\ UNCHANGED <<life, endpoints, peers>>
      BY <1>2 DEF Introduced
    <2>2. Request(n, m).kind # "announcement"
      BY DEF Request
    <2> DEFINE ms == {k \in {m} : k \in Missing(n)}
    <2>3. /\ ms \in SUBSET Member /\ \A k \in ms : Announcement(n, k) \in mail'
          /\ \A p \in New : p.kind = "announcement" => \E k \in ms : p = Announcement(n, k)
      BY <2>1, <2>2 DEF New
    <2> HIDE DEF ms
    <2> QED BY <2>1, <2>3, Telling
  <1>3. ASSUME NEW n \in Member, AnnounceToTeam(n) PROVE Meeting!Tell(n)
    <2> DEFINE ms == contacts[n] \cap Missing(n)
    <2>1. mail' = mail \cup {Announcement(n, k) : k \in ms} /\ UNCHANGED <<life, endpoints, peers>>
      BY <1>3 DEF AnnounceToTeam
    <2>2. ms \in SUBSET Member
      BY DEF Missing, Teammates
    <2> HIDE DEF ms
    <2> QED BY <2>1, <2>2, Telling DEF New
  <1>4. ASSUME NEW n \in Member, RequestEndpoints(n)
        PROVE  UNCHANGED <<life, endpoints, peers, Tellings>>
    <2>1. \A p \in New : p.kind # "announcement"
      BY <1>4 DEF RequestEndpoints, Request, New
    <2> QED BY <1>4, <2>1, NothingTold DEF RequestEndpoints
  <1>5. ASSUME NEW p \in mail, OnAnnouncement(p)
        PROVE  Meeting!Learn(p.to, p.from) /\ p.to \in Member /\ p.from \in Member
    <2>1. p.to \in Member /\ p.from \in Member /\ p.at \in Endpoint /\ Told(p.from, p.to, p.at)
      BY <1>5 DEF OnAnnouncement, TypeOK, Packet, NoHearsay
    <2>2. \A q \in New : q.kind # "announcement"
      BY <1>5, <2>1, GossipTold DEF OnAnnouncement, New
    <2>3. Tellings' = Tellings
      BY <1>5, <2>2, NothingTold DEF OnAnnouncement
    <2>4. <<p.from, p.to, p.at>> \in Tellings /\ p.at \in 1..life[p.from]
      BY <1>5, <2>1 DEF OnAnnouncement, Tellings, Told, Endpoint, TypeOK
    <2> QED BY <1>5, <2>1, <2>3, <2>4 DEF OnAnnouncement, Meeting!Learn, Tellings
  <1>6. ASSUME NEW p \in mail, OnRequest(p)
        PROVE  Meeting!Tell(p.to) /\ p.to \in Member
    <2>1. p.to \in Member /\ {p.from} \in SUBSET Member
      BY DEF TypeOK, Packet
    <2> QED BY <1>6, <2>1, Telling DEF OnRequest, New
  <1>7. ASSUME NEW p \in mail, OnGossip(p)
        PROVE  UNCHANGED <<life, endpoints, peers, Tellings>>
    <2>1. \A q \in New : q.kind # "announcement"
      BY <1>7 DEF OnGossip, Walk, New
    <2> QED BY <1>7, <2>1, NothingTold DEF OnGossip
  <1> QED BY <1>1, <1>2, <1>3, <1>4, <1>5, <1>6, <1>7 DEF Overlay, Receive

LEMMA StepMeets ==
    ASSUME TypeOK, NoHearsay, [Next]_vars
    PROVE  [Meeting!RendezvousNext]_(Meeting!rendezvousVars)
  <1>1. CASE Overlay
    BY <1>1, OverlayMeets DEF Meeting!RendezvousNext, Meeting!rendezvousVars, Tellings
  <1>2. ASSUME NEW n \in Member, EndpointsFound(n) PROVE Meeting!Rely(n)
    <2>1. \A m \in Member \ {n} : endpoints[n][m] # 0
      BY <1>2 DEF EndpointsFound, Missing, Teammates, Unknown
    <2> QED BY <1>2, <2>1 DEF EndpointsFound, Meeting!Rely
  <1>3. ASSUME NEW n \in Member, Restart(n) PROVE Meeting!Renew(n)
    BY <1>3 DEF Restart, Meeting!Renew, Meeting!Nobody, Unknown
  <1>4. ASSUME NEW n \in Member, ServerFound(n) \/ Leave(n)
        PROVE  UNCHANGED <<life, endpoints, peers, mail>>
    BY <1>4 DEF ServerFound, Leave
  <1>5. UNCHANGED vars => UNCHANGED <<life, endpoints, peers, mail>>
    BY DEF vars
  <1> QED BY <1>1, <1>2, <1>3, <1>4, <1>5
             DEF Next, Session, Departure, Meeting!RendezvousNext, Meeting!rendezvousVars

\* Whatever is walked, requested, gossiped, repeated or restarted: what the members
\* know of one another comes from them, and they rely on all of it or on nothing.
THEOREM DiscoveryImplementsRendezvous == Spec => TeamMeets
  <1>1. DInv /\ [Next]_vars => [Meeting!RendezvousNext]_(Meeting!rendezvousVars)
    BY StepMeets DEF DInv
  <1> QED BY InitMeets, <1>1, DiscoveryInvariant, PTL DEF Spec, TeamMeets, Meeting!RendezvousSpec
=============================================================================
