-------------------------- MODULE PrepPhase_proofs --------------------------
(***************************************************************************)
(* Proofs about PrepPhase: what a report of lab2-prep is worth, and that   *)
(* the race knows the team although members prepare in the same overlay.   *)
(***************************************************************************)
EXTENDS PrepPhase, EndpointDiscovery_proofs

PrepTypeOK ==
    /\ stage \in [Member -> {"discovering", "announcing", "testing", "done", "timedOut", "racing"}]
    /\ manual \subseteq Member
    /\ datagrams \subseteq Datagram
    /\ heard \in [Member -> SUBSET Member]
    /\ verdict \in [Member -> [Member -> {"none", "ok", "fail"}]]

\* Who prepares is in its first life; who was given the endpoints has them.
Preparing ==
    \A n \in Member : stage[n] # "racing" =>
        /\ life[n] = 1
        /\ phase[n] \in {"discovering", "stopped"}
        /\ n \in manual => \A m \in Teammates(n) : peers[n][m] # Unknown

\* Who says hello has found everybody and been told by them; who is heard has said
\* hello; who is reported as reachable has been heard, and was told in this life.
HelloMeans(d) ==
    /\ d.to \in Teammates(d.from)
    /\ stage[d.from] \notin {"discovering", "announcing"}
    /\ stage[d.from] # "racing" => \A m \in Teammates(d.from) : peers[d.from][m] # Unknown
    /\ d.from \notin manual => \E e \in Endpoint : Told(d.to, d.from, e)
Evidence ==
    /\ \A d \in datagrams : d.kind = "hello" => HelloMeans(d)
    /\ \A n \in Member : \A m \in heard[n] : Sent("hello", m, n) \in datagrams
    /\ \A n, m \in Member : verdict[n][m] = "ok" =>
          m \in heard[n] /\ (m \notin manual => Told(n, m, 1))

PInv ==
    /\ TypeOK
    /\ NoHearsay
    /\ RaceKnowsTeam
    /\ PrepTypeOK
    /\ Preparing
    /\ ReportsOnTeam
    /\ Evidence

-----------------------------------------------------------------------------
LEMMA PrepInitInv == PrepInit => PInv
  <1> SUFFICES ASSUME PrepInit PROVE PInv
    OBVIOUS
  <1>1. TypeOK
    BY LivesAssumption DEF PrepInit, TypeOK, Endpoint
  <1>2. NoHearsay /\ RaceKnowsTeam
    BY DEF PrepInit, NoHearsay, RaceKnowsTeam
  <1>3. PrepTypeOK
    BY PlansAssumption DEF PrepInit, PrepTypeOK
  <1>4. Preparing
    BY DEF PrepInit, Preparing, Teammates, Unknown
  <1>5. ReportsOnTeam /\ Evidence
    BY PlansAssumption DEF PrepInit, ReportsOnTeam, Evidence
  <1> QED BY <1>1, <1>2, <1>3, <1>4, <1>5 DEF PInv

\* What a step keeps that leaves every member that does not race where it is.
LEMMA Carried ==
    ASSUME PInv, PrepTypeOK',
           UNCHANGED <<manual, datagrams, heard, verdict>>,
           \A m, n \in Member : \A e \in Nat : Told(m, n, e) => Told(m, n, e)',
           \A k \in Member :
              \/ stage'[k] = "racing"
              \/ /\ stage'[k] = stage[k] /\ peers'[k] = peers[k] /\ life'[k] = life[k]
                 /\ phase'[k] = phase[k]
    PROVE  Preparing' /\ ReportsOnTeam' /\ Evidence'
  <1> USE DEF PInv
  <1>1. Preparing'
    BY DEF Preparing, Teammates
  <1>2. ReportsOnTeam'
    <2> SUFFICES ASSUME NEW n \in Member, n \notin manual,
                        stage'[n] \in {"announcing", "testing", "done"},
                        NEW m \in Teammates(n)
                 PROVE  Told(m, n, peers[n][m])'
      BY DEF ReportsOnTeam, Teammates
    <2>1. peers'[n] = peers[n] /\ stage'[n] = stage[n]
      OBVIOUS
    <2>2. Told(m, n, peers[n][m]) /\ m \in Member /\ peers[n][m] \in Nat
      BY <2>1 DEF ReportsOnTeam, Teammates, TypeOK, Endpoint, Unknown
    <2> QED BY <2>1, <2>2 DEF Told
  <1>3. ASSUME NEW d \in datagrams', d.kind = "hello"
        PROVE  HelloMeans(d)'
    <2>1. HelloMeans(d) /\ d.from \in Member /\ d.to \in Member
      BY <1>3 DEF Evidence, PrepTypeOK, Datagram
    <2>2. d.from \notin manual => \E e \in Endpoint : Told(d.to, d.from, e)'
      BY <2>1 DEF HelloMeans, Endpoint
    <2> QED BY <2>1, <2>2 DEF HelloMeans, Teammates
  <1>4. Evidence'
    BY <1>3 DEF Evidence
  <1> QED BY <1>1, <1>2, <1>4

\* A step of the overlay or of the race is one of EndpointDiscovery, of which a
\* preparing member notices nothing but what it is told.
LEMMA DiscoveryStep ==
    ASSUME PInv,
           PrepOverlay \/ \E n \in Member : StartRace(n) \/ Race(n)
    PROVE  PInv'
  <1> USE DEF PInv
  <1>1. [Next]_vars
    BY DEF PrepOverlay, StartRace, Race, Next, Session, Departure
  <1>2. TypeOK'
    BY TypedOverlay, TypedSession DEF PrepOverlay, StartRace, Race
  <1>3. NoHearsay' /\ RaceKnowsTeam'
    BY <1>1, <1>2, HearsayStep, RaceStep
  <1>4. \A m, n \in Member : \A e \in Nat : Told(m, n, e) => Told(m, n, e)'
    BY <1>1, ToldKept
  <1>5. UNCHANGED <<manual, datagrams, heard, verdict>>
    BY DEF PrepOverlay, StartRace, Race
  <1>6. CASE PrepOverlay
    <2>1. \A n, m \in Member : Walked(n, m) \/ Introduced(n, m) => UNCHANGED <<life, peers, phase>>
      BY DEF Walked, Introduced
    <2>2. \A n \in Member : AnnounceToTeam(n) \/ RequestEndpoints(n) => UNCHANGED <<life, peers, phase>>
      BY DEF AnnounceToTeam, RequestEndpoints
    <2>3. \A p : Receive(p) => UNCHANGED <<life, peers, phase>>
      BY DEF Receive, OnAnnouncement, OnRequest, OnGossip
    <2>4. UNCHANGED <<life, peers, phase, stage>>
      BY <1>6, <2>1, <2>2, <2>3 DEF PrepOverlay, Overlay
    <2> QED BY <1>2, <1>3, <1>4, <1>5, <2>4, Carried DEF PrepTypeOK
  <1>7. ASSUME NEW n \in Member, StartRace(n) \/ Race(n)
        PROVE  PInv'
    <2>1. stage' \in [Member -> {"discovering", "announcing", "testing", "done", "timedOut", "racing"}]
          /\ stage'[n] = "racing" /\ \A k \in Member \ {n} : stage'[k] = stage[k]
      BY <1>7 DEF StartRace, Race, PrepTypeOK
    <2>2. \A k \in Member \ {n} : peers'[k] = peers[k] /\ life'[k] = life[k] /\ phase'[k] = phase[k]
      BY <1>7 DEF StartRace, Restart, Race, EndpointsFound, ServerFound, Leave, TypeOK
    <2>3. PrepTypeOK'
      BY <1>5, <2>1 DEF PrepTypeOK
    <2>4. \A k \in Member :
             \/ stage'[k] = "racing"
             \/ /\ stage'[k] = stage[k] /\ peers'[k] = peers[k] /\ life'[k] = life[k]
                /\ phase'[k] = phase[k]
      BY <2>1, <2>2
    <2> QED BY <1>2, <1>3, <1>4, <1>5, <2>3, <2>4, Carried
  <1> QED BY <1>6, <1>7

\* A step of the command touches neither the lives nor the mail nor the endpoints,
\* and nobody's race.
LEMMA CommandStep ==
    ASSUME PInv, NEW n \in Member,
           \/ Discovered(n) \/ AnnounceEndpoint(n) \/ Judge(n) \/ TimesOut(n)
           \/ \E m \in Member : OnHello(n, m) \/ OnPing(n, m)
    PROVE  PInv'
  <1> USE DEF PInv
  <1>1. mail' = mail /\ life' = life /\ endpoints' = endpoints /\ contacts' = contacts
        /\ manual' = manual
    BY DEF Discovered, AnnounceEndpoint, Judge, Complete, TimesOut, OnHello, OnPing, Responded, NoResponse,
           vars
  <1>2. NoHearsay'
    BY <1>1 DEF NoHearsay, Told
  <1>3. CASE Discovered(n)
    <2>1. Missing(n) = {} /\ stage[n] = "discovering" /\ UNCHANGED <<datagrams, heard, verdict>>
          /\ stage' = [stage EXCEPT ![n] = "announcing"]
          /\ phase' = [phase EXCEPT ![n] = "stopped"]
          /\ peers' = [peers EXCEPT ![n] = endpoints[n]]
      BY <1>3 DEF Discovered
    <2>2. TypeOK' /\ PrepTypeOK'
      BY <1>1, <2>1 DEF TypeOK, PrepTypeOK
    <2>3. \A m \in Teammates(n) : endpoints[n][m] # Unknown /\ Told(m, n, endpoints[n][m])
      BY <2>1, NotMissing DEF NoHearsay, Teammates
    <2>4. /\ peers'[n] = endpoints[n] /\ phase'[n] = "stopped"
          /\ \A k \in Member : k # n => peers'[k] = peers[k] /\ stage'[k] = stage[k] /\ phase'[k] = phase[k]
      BY <2>1 DEF TypeOK, PrepTypeOK
    <2>5. ReportsOnTeam' /\ RaceKnowsTeam'
      BY <1>1, <2>3, <2>4 DEF ReportsOnTeam, RaceKnowsTeam, Told, Teammates
    <2>6. Preparing'
      BY <1>1, <2>1, <2>3, <2>4 DEF Preparing, Teammates
    <2>7. \A d \in datagrams : d.kind = "hello" => d.from \in Member /\ d.from # n
      BY <2>1 DEF Evidence, HelloMeans, PrepTypeOK, Datagram
    <2>8. Evidence'
      BY <1>1, <2>1, <2>4, <2>7 DEF Evidence, HelloMeans, Told, Teammates
    <2> QED BY <1>2, <2>2, <2>5, <2>6, <2>8
  <1>4. CASE AnnounceEndpoint(n)
    <2>1. \/ /\ stage' = [stage EXCEPT ![n] = "testing"]
             /\ datagrams' = datagrams \cup ToAll(n, {"hello", "ping"})
          \/ /\ stage' = [stage EXCEPT ![n] = "done"]
             /\ datagrams' = datagrams \cup ToAll(n, {"hello"})
      BY <1>4 DEF AnnounceEndpoint
    <2>2. stage[n] = "announcing"
          /\ UNCHANGED <<life, phase, contacts, endpoints, peers, mail, manual, heard, verdict>>
      BY <1>4 DEF AnnounceEndpoint, vars
    <2>3. TypeOK' /\ RaceKnowsTeam'
      BY <2>2 DEF TypeOK, RaceKnowsTeam, Told, Teammates
    <2>4. \A d \in datagrams' : d \in datagrams \/ (d.from = n /\ d.to \in Teammates(n) /\ d \in Datagram)
      BY <2>1 DEF ToAll, Sent, Datagram, Teammates
    <2>5. PrepTypeOK'
      BY <2>1, <2>2, <2>4 DEF PrepTypeOK
    <2>6. stage'[n] \in {"testing", "done"} /\ \A k \in Member \ {n} : stage'[k] = stage[k]
      BY <2>1 DEF PrepTypeOK
    <2>7. ReportsOnTeam' /\ Preparing'
      BY <2>2, <2>6 DEF ReportsOnTeam, Preparing, Told, Teammates
    <2>8. \A m \in Teammates(n) :
             peers[n][m] # Unknown /\ (n \notin manual => \E e \in Endpoint : Told(m, n, e))
      <3>1. ASSUME NEW m \in Teammates(n), n \notin manual
            PROVE  peers[n][m] # Unknown /\ \E e \in Endpoint : Told(m, n, e)
        <4>1. Told(m, n, peers[n][m])
          BY <2>2, <3>1 DEF ReportsOnTeam
        <4>2. PICK p \in mail : p.kind = "announcement" /\ p.at = peers[n][m]
          BY <4>1 DEF Told
        <4> QED BY <4>1, <4>2 DEF TypeOK, Packet, Endpoint, Unknown
      <3> QED BY <2>2, <3>1 DEF Preparing
    <2>9. ASSUME NEW d \in datagrams', d.kind = "hello"
          PROVE  HelloMeans(d)'
      <3>1. CASE d \in datagrams
        <4>1. HelloMeans(d) /\ d.from \in Member /\ d.from # n
          BY <2>2, <2>9, <3>1 DEF Evidence, HelloMeans, PrepTypeOK, Datagram
        <4> QED BY <2>2, <2>6, <4>1 DEF HelloMeans, Told, Teammates
      <3>2. CASE d.from = n /\ d.to \in Teammates(n)
        BY <2>2, <2>6, <2>8, <3>2 DEF HelloMeans, Told, Teammates
      <3> QED BY <2>4, <3>1, <3>2
    <2>10. Evidence'
      BY <2>1, <2>2, <2>9 DEF Evidence, Told
    <2> QED BY <1>2, <2>3, <2>5, <2>7, <2>10
  <1>5. CASE Complete(n) \/ TimesOut(n)
    <2>1. /\ UNCHANGED <<life, contacts, endpoints, peers, mail, manual, datagrams, heard, verdict>>
          /\ phase' = phase \/ phase' = [phase EXCEPT ![n] = "stopped"]
          /\ stage[n] \in {"discovering", "announcing", "testing"}
          /\ \/ stage[n] = "testing" /\ stage' = [stage EXCEPT ![n] = "done"]
             \/ stage' = [stage EXCEPT ![n] = "timedOut"]
      <3>1. CASE Complete(n)
        BY <3>1 DEF Complete, vars
      <3>2. CASE TimesOut(n)
        BY <3>2 DEF TimesOut, Listening
      <3> QED BY <1>5, <3>1, <3>2
    <2>2. TypeOK' /\ PrepTypeOK'
      <3>1. TypeOK'
        BY <2>1 DEF TypeOK
      <3>2. stage' \in [Member -> {"discovering", "announcing", "testing", "done", "timedOut", "racing"}]
        BY <2>1 DEF PrepTypeOK
      <3> QED BY <2>1, <3>1, <3>2 DEF PrepTypeOK
    <2>3. \A k \in Member :
             /\ stage'[k] \in {"announcing", "testing", "done"} => stage[k] \in {"announcing", "testing", "done"}
             /\ stage[k] \notin {"discovering", "announcing"} => stage'[k] \notin {"discovering", "announcing"}
             /\ stage[k] = "racing" <=> stage'[k] = "racing"
             /\ phase'[k] = phase[k] \/ phase'[k] = "stopped"
      BY <2>1 DEF PrepTypeOK, TypeOK
    <2>4. ReportsOnTeam' /\ RaceKnowsTeam' /\ Preparing'
      BY <2>1, <2>3 DEF ReportsOnTeam, RaceKnowsTeam, Preparing, Told, Teammates
    <2>5. \A d \in datagrams : d.from \in Member
      BY DEF PrepTypeOK, Datagram
    <2>6. Evidence'
      BY <2>1, <2>3, <2>5 DEF Evidence, HelloMeans, Told, Teammates
    <2> QED BY <1>2, <2>2, <2>4, <2>6
  <1>6. ASSUME NEW m \in Member, OnHello(n, m) \/ OnPing(n, m) \/ Responded(n, m) \/ NoResponse(n, m)
        PROVE  PInv'
    <2>1. UNCHANGED <<life, phase, contacts, endpoints, peers, mail, stage, manual>>
      BY <1>6 DEF OnHello, OnPing, Responded, NoResponse, vars
    <2>2. TypeOK' /\ ReportsOnTeam' /\ RaceKnowsTeam' /\ Preparing'
      BY <2>1 DEF TypeOK, ReportsOnTeam, RaceKnowsTeam, Preparing, Told, Teammates
    <2>3. \A d : HelloMeans(d)' <=> HelloMeans(d)
      BY <2>1 DEF HelloMeans, Told, Teammates
    <2>4. \A k, j \in Member : Told(k, j, 1)' <=> Told(k, j, 1)
      BY <2>1 DEF Told
    <2>5. CASE OnHello(n, m)
      BY <1>2, <2>1, <2>2, <2>3, <2>4, <2>5 DEF OnHello, PrepTypeOK, Evidence
    <2>6. CASE OnPing(n, m)
      <3>1. Sent("pong", n, m) \in Datagram /\ Sent("pong", n, m).kind # "hello"
        BY DEF Sent, Datagram
      <3> QED BY <1>2, <2>1, <2>2, <2>3, <2>4, <2>6, <3>1 DEF OnPing, PrepTypeOK, Evidence
    <2>7. CASE Responded(n, m)
      <3>1. Sent("hello", m, n) \in datagrams /\ stage[n] = "testing" /\ m \in heard[n]
        BY <2>7 DEF Responded, Evidence
      <3>2. HelloMeans(Sent("hello", m, n))
        BY <3>1 DEF Evidence, Sent
      <3>3. ASSUME m \notin manual PROVE Told(n, m, 1)
        <4>1. PICK e \in Endpoint : Told(n, m, e)
          BY <3>2, <3>3 DEF HelloMeans, Sent
        <4>2. life[n] = 1 /\ e = 1
          BY <3>1, <4>1 DEF Preparing, Told, Endpoint
        <4> QED BY <4>1, <4>2
      <3> QED BY <1>2, <2>1, <2>2, <2>3, <2>4, <2>7, <3>1, <3>3 DEF Responded, PrepTypeOK, Evidence
    <2>8. CASE NoResponse(n, m)
      BY <1>2, <2>1, <2>2, <2>3, <2>4, <2>8 DEF NoResponse, PrepTypeOK, Evidence
    <2> QED BY <1>6, <2>5, <2>6, <2>7, <2>8
  <1> QED BY <1>3, <1>4, <1>5, <1>6 DEF Judge

LEMMA PrepInvariant == PrepSpec => []PInv
  <1>1. PInv /\ [PrepNext]_prepVars => PInv'
    <2>1. PInv /\ UNCHANGED prepVars => PInv'
      BY DEF prepVars, vars, PInv, TypeOK, NoHearsay, RaceKnowsTeam, Told, PrepTypeOK, Preparing,
             ReportsOnTeam, Evidence, HelloMeans, Teammates
    <2> QED BY <2>1, DiscoveryStep, CommandStep DEF PrepNext
  <1> QED BY PrepInitInv, <1>1, PTL DEF PrepSpec

\* A report covers the whole team, each of whom has told the node where it is.
THEOREM ReportCoversTeam == PrepSpec => []ReportsOnTeam
  <1>1. PInv => ReportsOnTeam
    BY DEF PInv
  <1> QED BY PrepInvariant, <1>1, PTL

\* A teammate reported as reachable has itself found the node that reports it, also
\* when either of them has run out of time or gone on to the race since.
THEOREM ReachableHasFound == PrepSpec => []OkMeansFound
  <1>1. ASSUME PInv, NEW n \in Member, NEW m \in Member, verdict[n][m] = "ok"
        PROVE  /\ stage[m] # "discovering"
               /\ stage[m] # "racing" => peers[m][n] # Unknown
               /\ m \notin manual => Told(n, m, 1)
    <2>1. Sent("hello", m, n) \in datagrams /\ (m \notin manual => Told(n, m, 1))
      BY <1>1 DEF PInv, Evidence
    <2>2. /\ Sent("hello", m, n).kind = "hello"
          /\ Sent("hello", m, n).from = m /\ Sent("hello", m, n).to = n
      BY DEF Sent
    <2> QED BY <1>1, <2>1, <2>2 DEF PInv, Evidence, HelloMeans
  <1>2. PInv => OkMeansFound
    BY <1>1 DEF OkMeansFound
  <1> QED BY PrepInvariant, <1>2, PTL

\* No member races before every teammate has told it where to send, also when some
\* of them are still preparing.
THEOREM TeamIsKnownAfterPrep == PrepSpec => []RaceKnowsTeam
  <1>1. PInv => RaceKnowsTeam
    BY DEF PInv
  <1> QED BY PrepInvariant, <1>1, PTL

-----------------------------------------------------------------------------
(* The preparation, too, implements Rendezvous.                            *)

LEMMA PrepInitMeets == PrepInit => Meeting!RendezvousInit
  <1> SUFFICES ASSUME PrepInit PROVE Meeting!RendezvousInit
    OBVIOUS
  <1>1. manual \in SUBSET Member
    BY DEF PrepInit
  <1>2. peers = [n \in Member |-> IF n \in manual THEN Meeting!Given(n) ELSE Meeting!Nobody]
    BY DEF PrepInit, Meeting!Given, Meeting!Nobody, Unknown
  <1> QED BY <1>1, <1>2 DEF PrepInit, Unknown, Meeting!RendezvousInit, Meeting!Nobody

\* A step of the program is one of EndpointDiscovery, or relies on what it has found, or
\* touches nothing the others are told.
LEMMA PrepStepMeets ==
    ASSUME PInv, [PrepNext]_prepVars
    PROVE  [Meeting!RendezvousNext]_(Meeting!rendezvousVars)
  <1>1. CASE PrepOverlay \/ (\E n \in Member : StartRace(n) \/ Race(n)) \/ UNCHANGED prepVars
    <2>1. [Next]_vars
      BY <1>1 DEF PrepOverlay, StartRace, Race, Next, Session, Departure, prepVars
    <2> QED BY <2>1, StepMeets DEF PInv
  <1>2. ASSUME NEW n \in Member, Discovered(n) PROVE Meeting!Rely(n)
    <2>1. \A m \in Member \ {n} : endpoints[n][m] # 0
      BY <1>2 DEF Discovered, Missing, Teammates, Unknown
    <2> QED BY <1>2, <2>1 DEF Discovered, Meeting!Rely
  <1>3. ASSUME NEW n \in Member,
               \/ AnnounceEndpoint(n) \/ Judge(n) \/ TimesOut(n)
               \/ \E m \in Member : OnHello(n, m) \/ OnPing(n, m)
        PROVE  UNCHANGED <<life, endpoints, peers, mail>>
    BY <1>3 DEF AnnounceEndpoint, Judge, Complete, Responded, NoResponse, TimesOut, OnHello, OnPing,
       vars
  <1> QED BY <1>1, <1>2, <1>3 DEF PrepNext, Meeting!RendezvousNext, Meeting!rendezvousVars

\* With members that prepare, race, are told on the command line or start again, what
\* they know of one another still comes from them.
THEOREM PrepImplementsRendezvous == PrepSpec => TeamMeets
  <1> QED BY PrepInitMeets, PrepStepMeets, PrepInvariant, PTL
             DEF PrepSpec, TeamMeets, Meeting!RendezvousSpec

\* Whoever prepares meanwhile, a racing member's endpoints stay those it has copied.
THEOREM StaleEndpointStaysInPrep == PrepSpec => MisledForGood
  <1>1. ASSUME PInv, [PrepNext]_prepVars, NEW n \in Member, NEW m \in Member, Misled(n, m)
        PROVE  Misled(n, m)' \/ phase'[n] = "stopped" \/ life'[n] # life[n]
    <2> USE <1>1 DEF PInv
    <2>1. CASE PrepOverlay \/ (\E k \in Member : StartRace(k) \/ Race(k)) \/ UNCHANGED prepVars
      <3>1. [Next]_vars
        BY <2>1 DEF PrepOverlay, StartRace, Race, Next, Session, Departure, prepVars
      <3> QED BY <3>1, MisledStep
    <2>2. ASSUME NEW k \in Member, Discovered(k) \/ TimesOut(k)
          PROVE  Misled(n, m)'
      <3>1. k # n
        BY <2>2 DEF Discovered, TimesOut, Listening, Preparing, Misled
      <3> QED BY <2>2, <3>1 DEF Discovered, TimesOut, Misled, TypeOK
    <2>3. ASSUME NEW k \in Member,
                 \/ AnnounceEndpoint(k) \/ Judge(k)
                 \/ \E j \in Member : OnHello(k, j) \/ OnPing(k, j)
          PROVE  Misled(n, m)'
      BY <2>3 DEF AnnounceEndpoint, Judge, Complete, Responded, NoResponse, OnHello, OnPing, vars,
         Misled
    <2> QED BY <2>1, <2>2, <2>3 DEF PrepNext
  <1>2. PInv /\ [PrepNext]_prepVars =>
            [\A n, m \in Member : Misled(n, m) =>
                Misled(n, m)' \/ phase'[n] = "stopped" \/ life'[n] # life[n]]_vars
    BY <1>1
  <1> QED BY <1>2, PrepInvariant, PTL DEF PrepSpec, MisledForGood

-----------------------------------------------------------------------------
(* A preparation deserted by a teammate.                                   *)

Silent(m, n) == ~Online(m) /\ ~\E p \in mail : p.kind = "announcement" /\ p.from = m /\ p.to = n

\* Whoever has left tells nobody anything, until it starts again.
LEMMA SilenceStep ==
    ASSUME TypeOK, [Next]_vars, NEW m \in Member, NEW n \in Member, Silent(m, n)
    PROVE  Silent(m, n)' \/ life'[m] # life[m]
  <1>1. CASE Overlay
    <2>1. phase' = phase
      BY <1>1 DEF Overlay, Walked, Introduced, AnnounceToTeam, RequestEndpoints, Receive,
         OnAnnouncement, OnRequest, OnGossip
    <2>2. ASSUME NEW p \in New, p.kind = "announcement" PROVE p.from # m
      <3>1. \A k, j : Announcement(k, j).from = k /\ Request(k, j).kind # "announcement"
        BY DEF Announcement, Request
      <3>2. \A k, t, e : \A g \in GossipKnown(k, t, e) : g.kind # "announcement"
        BY DEF GossipKnown, Gossip
      <3>3. \A k, t, e : Walk(k, t, e).kind # "announcement"
        BY DEF Walk
      <3>4. ASSUME NEW k \in Member, NEW j \in Member, Walked(k, j) \/ Introduced(k, j)
            PROVE  p.from # m
        BY <2>2, <3>1, <3>4 DEF Walked, Introduced, New, Silent
      <3>5. ASSUME NEW k \in Member, AnnounceToTeam(k) \/ RequestEndpoints(k) PROVE p.from # m
        BY <2>2, <3>1, <3>5 DEF AnnounceToTeam, RequestEndpoints, New, Silent
      <3>6. ASSUME NEW q \in mail, Receive(q) PROVE p.from # m
        BY <2>2, <3>1, <3>2, <3>3, <3>6
           DEF Receive, OnAnnouncement, OnRequest, OnGossip, New, Silent
      <3> QED BY <1>1, <3>4, <3>5, <3>6 DEF Overlay
    <2> QED BY <2>1, <2>2 DEF Silent, Online, New
  <1>2. ASSUME NEW k \in Member, EndpointsFound(k) \/ ServerFound(k) \/ Leave(k)
        PROVE  Silent(m, n)'
    BY <1>2 DEF EndpointsFound, ServerFound, Leave, Silent, Online, TypeOK
  <1>3. ASSUME NEW k \in Member, Restart(k)
        PROVE  Silent(m, n)' \/ life'[m] # life[m]
    <2>1. CASE k = m
      BY <1>3, <2>1 DEF Restart, TypeOK, Endpoint
    <2>2. CASE k # m
      BY <1>3, <2>2 DEF Restart, TypeOK, Silent, Online
    <2> QED BY <2>1, <2>2
  <1>4. CASE UNCHANGED vars
    BY <1>4 DEF vars, Silent, Online
  <1> QED BY <1>1, <1>2, <1>3, <1>4 DEF Next, Session, Departure

\* prep_cli.py leaves the overlay as soon as its own discovery is done: a teammate it has
\* not told by then runs into its deadline, unless the member comes back to race.
THEOREM ForsakenPrepFails == PrepSpec => ForsakenFails
  <1>1. ASSUME PInv, [PrepNext]_prepVars, NEW n \in Member, NEW m \in Teammates(n), Silent(m, n),
               stage[n] = "discovering"
        PROVE  \/ stage'[n] = "discovering" /\ Silent(m, n)'
               \/ stage'[n] \in {"timedOut", "racing"}
               \/ life'[m] # life[m]
    <2> USE DEF PInv
    <2>1. m \in Member /\ m \in Missing(n)
      BY <1>1 DEF Missing, Teammates, NoHearsay, Told, Silent
    <2>2. CASE PrepOverlay \/ UNCHANGED prepVars
      <3>1. [Next]_vars /\ stage' = stage
        BY <2>2 DEF PrepOverlay, Next, prepVars
      <3> QED BY <1>1, <2>1, <3>1, SilenceStep
    <2>3. ASSUME NEW k \in Member, StartRace(k) \/ Race(k)
          PROVE  \/ stage'[n] = "discovering" /\ Silent(m, n)'
                 \/ stage'[n] \in {"timedOut", "racing"}
                 \/ life'[m] # life[m]
      <3>1. [Next]_vars
        BY <2>3 DEF StartRace, Race, Next, Session, Departure
      <3>2. stage'[n] = stage[n] \/ stage'[n] = "racing"
        BY <1>1, <2>3 DEF StartRace, Race, PrepTypeOK
      <3>3. Silent(m, n)' \/ life'[m] # life[m]
        BY <1>1, <2>1, <3>1, SilenceStep
      <3> QED BY <1>1, <3>2, <3>3
    <2>4. ASSUME NEW k \in Member,
                 \/ Discovered(k) \/ AnnounceEndpoint(k) \/ Judge(k) \/ TimesOut(k)
                 \/ \E j \in Member : OnHello(k, j) \/ OnPing(k, j)
          PROVE  Silent(m, n)' /\ (stage'[n] = "discovering" \/ stage'[n] = "timedOut")
      <3>1. mail' = mail /\ (phase' = phase \/ phase' = [phase EXCEPT ![k] = "stopped"])
        BY <2>4 DEF Discovered, AnnounceEndpoint, Judge, Complete, Responded, NoResponse, TimesOut,
           OnHello, OnPing, vars
      <3>2. phase[m] = "stopped"
        BY <1>1, <2>1 DEF Silent, Online, TypeOK
      <3>3. phase'[m] = "stopped"
        BY <1>1, <2>1, <3>1, <3>2 DEF TypeOK
      <3>4. Silent(m, n)'
        BY <1>1, <3>1, <3>3 DEF Silent, Online
      <3>5. stage'[n] = "discovering" \/ stage'[n] = "timedOut"
        <4>1. CASE Discovered(k)
          BY <1>1, <2>1, <4>1 DEF Discovered, PrepTypeOK
        <4>2. CASE TimesOut(k)
          BY <1>1, <4>2 DEF TimesOut, PrepTypeOK
        <4>3. CASE \/ AnnounceEndpoint(k) \/ Judge(k)
                   \/ \E j \in Member : OnHello(k, j) \/ OnPing(k, j)
          BY <1>1, <4>3 DEF AnnounceEndpoint, Judge, Complete, Responded, NoResponse, OnHello, OnPing,
             PrepTypeOK
        <4> QED BY <2>4, <4>1, <4>2, <4>3
      <3> QED BY <3>4, <3>5
    <2> QED BY <1>1, <2>2, <2>3, <2>4 DEF PrepNext
  <1>2. PInv /\ [PrepNext]_prepVars =>
            [\A n \in Member : stage[n] = "discovering" /\ Deserted(n) =>
                \/ (stage[n] = "discovering" /\ Deserted(n))'
                \/ stage'[n] \in {"timedOut", "racing"}
                \/ \E m \in Teammates(n) : life'[m] # life[m]]_prepVars
    BY <1>1 DEF Deserted, Silent, Teammates
  <1> QED BY <1>2, PrepInvariant, PTL DEF PrepSpec, ForsakenFails
=============================================================================
