------------------------- MODULE EndpointDiscovery -------------------------
(***************************************************************************)
(* How the members of a team learn one another's UDP endpoints over IPv8   *)
(* (Lab2Community in community.py) before they race: run_relay_race up to  *)
(* the start of the session (race.py).                                     *)
(*                                                                         *)
(* An endpoint is the address of one life of a member: a member that is    *)
(* started again may have another.  `mail` only grows: an IPv8 packet may  *)
(* arrive never, once or repeatedly, in any order, also in a later life of *)
(* its receiver.                                                           *)
(***************************************************************************)
EXTENDS Naturals

CONSTANTS
    Member,      \* the team
    Walks,       \* <<n, m>>: the IPv8 walker of n can reach m
    MaxLives     \* bound on the lives of a member

ASSUME WalksAssumption == Walks \subseteq Member \X Member
ASSUME LivesAssumption == MaxLives \in Nat \ {0}

VARIABLES
    life,       \* how often each member has been started
    phase,      \* where run_relay_race is
    contacts,   \* Community.get_peers(), the team's part of it
    endpoints,  \* Lab2Community.peer_endpoints
    peers,      \* SignedUdpNode.peers, set once
    mail        \* IPv8 packets sent

vars == <<life, phase, contacts, endpoints, peers, mail>>

Unknown == 0
Endpoint == 1..MaxLives
Packet == [kind: {"announcement", "request", "gossip", "walk"},
           from: Member, to: Member, about: Member, at: Endpoint]

-----------------------------------------------------------------------------
(* The packets                                                             *)

\* A node that looks its own endpoint up among those of its peers.
BrokenAnnouncement(n, m) ==
    [kind |-> "announcement", from |-> n, to |-> m, about |-> n, at |-> endpoints[n][n]]

Announcement(n, m) ==
    [kind |-> "announcement", from |-> n, to |-> m, about |-> n, at |-> life[n]]
Request(n, m) ==
    [kind |-> "request", from |-> n, to |-> m, about |-> m, at |-> 1]
Gossip(n, m, t, e) ==
    [kind |-> "gossip", from |-> n, to |-> m, about |-> t, at |-> e]

\* walk_to(): an introduction request to the endpoint gossiped.  That is the address
\* of the member's signed UDP node, which drops what it cannot decode: no action
\* receives a walk.
Walk(n, t, e) ==
    [kind |-> "walk", from |-> n, to |-> t, about |-> t, at |-> e]

Teammates(n) == Member \ {n}
Online(n) == phase[n] # "stopped"
Missing(n) == {m \in Teammates(n) : endpoints[n][m] = Unknown}

-----------------------------------------------------------------------------
(* Introductions, external: the walker's requests and responses            *)

\* A request of n's walker reaches m.
Walked(n, m) ==
    /\ <<n, m>> \in Walks /\ n # m
    /\ Online(n) /\ Online(m)
    /\ contacts' = [contacts EXCEPT ![m] = @ \cup {n}]
    /\ UNCHANGED <<life, phase, endpoints, peers, mail>>

\* introduction_response_callback(): asked and told at once, if m is not known yet.
Introduced(n, m) ==
    /\ <<n, m>> \in Walks
    /\ Online(n) /\ n \in contacts[m]
    /\ contacts' = [contacts EXCEPT ![n] = @ \cup {m}]
    /\ mail' = mail \cup {p \in {Request(n, m), Announcement(n, m)} : m \in Missing(n)}
    /\ UNCHANGED <<life, phase, endpoints, peers>>

-----------------------------------------------------------------------------
(* The periodic tasks and the handlers                                     *)

\* announce_to_team(): whom n knows already is not told again.
AnnounceToTeam(n) ==
    /\ Online(n)
    /\ mail' = mail \cup {Announcement(n, m) : m \in contacts[n] \cap Missing(n)}
    /\ UNCHANGED <<life, phase, contacts, endpoints, peers>>

\* wait_for_endpoints(), while somebody is missing.
RequestEndpoints(n) ==
    /\ phase[n] = "discovering"
    /\ mail' = mail \cup {Request(n, m) : m \in contacts[n] \cap Missing(n)}
    /\ UNCHANGED <<life, phase, contacts, endpoints, peers>>

\* _gossip_known_endpoints(): n tells those it knows of the newcomer t, and t of them.
GossipKnown(n, t, e) ==
    LET others == Teammates(n) \ (Missing(n) \cup {t})
    IN  {Gossip(n, o, t, e) : o \in others \cap contacts[n]} \cup
        {Gossip(n, t, o, endpoints[n][o]) : o \in {x \in others : t \in contacts[n]}}

\* on_endpoint_announcement(): the last one to arrive counts.
OnAnnouncement(p) ==
    /\ p.kind = "announcement" /\ Online(p.to)
    /\ endpoints' = [endpoints EXCEPT ![p.to][p.from] = p.at]
    /\ mail' = mail \cup {g \in GossipKnown(p.to, p.from, p.at) : p.from \in Missing(p.to)}
    /\ UNCHANGED <<life, phase, contacts, peers>>

\* A node that answers only those it does not know yet.
BrokenOnRequest(p) ==
    /\ p.kind = "request" /\ Online(p.to)
    /\ mail' = mail \cup {a \in {Announcement(p.to, p.from)} : p.from \in Missing(p.to)}
    /\ UNCHANGED <<life, phase, contacts, endpoints, peers>>

\* The overlay still answers when the command has stopped it.
BrokenOnRequestStopped(p) ==
    /\ p.kind = "request"
    /\ mail' = mail \cup {Announcement(p.to, p.from)}
    /\ UNCHANGED <<life, phase, contacts, endpoints, peers>>

\* on_endpoint_request()
OnRequest(p) ==
    /\ p.kind = "request" /\ Online(p.to)
    /\ mail' = mail \cup {Announcement(p.to, p.from)}
    /\ UNCHANGED <<life, phase, contacts, endpoints, peers>>

\* A node that takes the gossip for the endpoint.
BrokenOnGossip(p) ==
    /\ p.kind = "gossip" /\ Online(p.to)
    /\ p.about \in Missing(p.to)
    /\ endpoints' = [endpoints EXCEPT ![p.to][p.about] = p.at]
    /\ UNCHANGED <<life, phase, contacts, peers, mail>>

\* on_endpoint_gossip(): n walks to whom it does not know, and records nothing.
OnGossip(p) ==
    /\ p.kind = "gossip" /\ Online(p.to)
    /\ p.about \in Missing(p.to)
    /\ mail' = mail \cup {Walk(p.to, p.about, p.at)}
    /\ UNCHANGED <<life, phase, contacts, endpoints, peers>>

-----------------------------------------------------------------------------
(* run_relay_race                                                          *)

\* What has been found when the deadline expires is taken as it is.
BrokenEndpointsFound(n) ==
    /\ phase[n] = "discovering"
    /\ phase' = [phase EXCEPT ![n] = "seeking"]
    /\ peers' = [peers EXCEPT ![n] = endpoints[n]]
    /\ UNCHANGED <<life, contacts, endpoints, mail>>

\* _discover_team_endpoints() and set_peers()
EndpointsFound(n) ==
    /\ phase[n] = "discovering"
    /\ Missing(n) = {}
    /\ phase' = [phase EXCEPT ![n] = "seeking"]
    /\ peers' = [peers EXCEPT ![n] = endpoints[n]]
    /\ UNCHANGED <<life, contacts, endpoints, mail>>

\* The endpoints are copied once the server has been found, too.
BrokenServerFound(n) ==
    /\ phase[n] = "seeking"
    /\ phase' = [phase EXCEPT ![n] = "racing"]
    /\ peers' = [peers EXCEPT ![n] = endpoints[n]]
    /\ UNCHANGED <<life, contacts, endpoints, mail>>

\* wait_for_server_peer(): the session begins.
ServerFound(n) ==
    /\ phase[n] = "seeking"
    /\ phase' = [phase EXCEPT ![n] = "racing"]
    /\ UNCHANGED <<life, contacts, endpoints, peers, mail>>

\* Teammates or the server are still missing at the deadline, or the session ends:
\* the overlay is stopped.
Leave(n) ==
    /\ \/ phase[n] = "discovering" /\ Missing(n) # {}
       \/ phase[n] \in {"seeking", "racing"}
    /\ phase' = [phase EXCEPT ![n] = "stopped"]
    /\ UNCHANGED <<life, contacts, endpoints, peers, mail>>

\* What an earlier life has learnt is kept.
BrokenRestart(n) ==
    /\ life[n] < MaxLives
    /\ life' = [life EXCEPT ![n] = @ + 1]
    /\ phase' = [phase EXCEPT ![n] = "discovering"]
    /\ contacts' = [contacts EXCEPT ![n] = {}]
    /\ peers' = [peers EXCEPT ![n] = [m \in Member |-> Unknown]]
    /\ UNCHANGED <<endpoints, mail>>

\* The program is started again, from whatever state.
Restart(n) ==
    /\ life[n] < MaxLives
    /\ life' = [life EXCEPT ![n] = @ + 1]
    /\ phase' = [phase EXCEPT ![n] = "discovering"]
    /\ contacts' = [contacts EXCEPT ![n] = {}]
    /\ endpoints' = [endpoints EXCEPT ![n] = [m \in Member |-> Unknown]]
    /\ peers' = [peers EXCEPT ![n] = [m \in Member |-> Unknown]]
    /\ UNCHANGED mail

-----------------------------------------------------------------------------
Init ==
    /\ life = [n \in Member |-> 1]
    /\ phase = [n \in Member |-> "discovering"]
    /\ contacts = [n \in Member |-> {}]
    /\ endpoints = [n \in Member |-> [m \in Member |-> Unknown]]
    /\ peers = [n \in Member |-> [m \in Member |-> Unknown]]
    /\ mail = {}

Receive(p) == p \in mail /\ (OnAnnouncement(p) \/ OnRequest(p) \/ OnGossip(p))
Overlay ==
    \/ \E n, m \in Member : Walked(n, m) \/ Introduced(n, m)
    \/ \E n \in Member : AnnounceToTeam(n) \/ RequestEndpoints(n)
    \/ \E p \in mail : Receive(p)
Session == \E n \in Member : EndpointsFound(n) \/ ServerFound(n)
Departure == \E n \in Member : Leave(n) \/ Restart(n)
Next == Overlay \/ Session \/ Departure

Spec == Init /\ [][Next]_vars

\* The packets some action sends and some action receives.
Deliverable ==
    {p \in Packet : p.from # p.to /\
        \/ p.kind = "announcement" /\ p.about = p.from
        \/ p.kind = "request" /\ p.about = p.to /\ p.at = 1
        \/ p.kind = "gossip" /\ p.about \notin {p.from, p.to}}

\* The walker and the tasks are periodic, the server answers, what is sent over and
\* over arrives; and nobody leaves.
FairOverlay ==
    /\ \A n, m \in Member : WF_vars(Walked(n, m)) /\ WF_vars(Introduced(n, m))
    /\ \A n \in Member : WF_vars(AnnounceToTeam(n)) /\ WF_vars(RequestEndpoints(n))
    /\ \A p \in Deliverable : WF_vars(Receive(p))
FairSpec ==
    /\ Init /\ [][Overlay \/ Session]_vars
    /\ FairOverlay
    /\ \A n \in Member : WF_vars(EndpointsFound(n)) /\ WF_vars(ServerFound(n))
-----------------------------------------------------------------------------
(* What the code guarantees, and what it does not.                         *)

\* Every variable holds values of its kind.
TypeOK ==
    /\ life \in [Member -> Endpoint]
    /\ phase \in [Member -> {"discovering", "seeking", "racing", "stopped"}]
    /\ contacts \in [Member -> SUBSET Member]
    /\ endpoints \in [Member -> [Member -> Endpoint \cup {Unknown}]]
    /\ peers \in [Member -> [Member -> Endpoint \cup {Unknown}]]
    /\ mail \subseteq Packet

\* m itself has told n, in this or an earlier life, that its endpoint is e.
Told(m, n, e) ==
    /\ e <= life[m]
    /\ \E p \in mail : p.kind = "announcement" /\ p.from = m /\ p.to = n /\ p.at = e

\* Nobody believes hearsay: an endpoint a node holds, announces or gossips is one its
\* owner has announced itself, to that very node.
NoHearsay ==
    /\ \A n, m \in Member : endpoints[n][m] # Unknown => Told(m, n, endpoints[n][m])
    /\ \A p \in mail : p.kind = "announcement" => Told(p.from, p.to, p.at)
    /\ \A p \in mail : p.kind = "gossip" => Told(p.about, p.from, p.at)

\* Nobody races before each teammate has told it where to send: no send() of the
\* race fails for want of a peer.
RaceKnowsTeam ==
    \A n \in Member : phase[n] \in {"seeking", "racing"} =>
        \A m \in Teammates(n) : Told(m, n, peers[n][m])

\* n sends to where a teammate was in an earlier life.
Misled(n, m) ==
    /\ phase[n] \in {"seeking", "racing"}
    /\ peers[n][m] # Unknown /\ peers[n][m] < life[m]

\* set_peers() is called once: who races with a teammate that has been started again
\* since never reaches it, whatever that one announces, until it leaves or is itself
\* started again.
MisledForGood ==
    [][\A n, m \in Member : Misled(n, m) =>
          Misled(n, m)' \/ phase'[n] = "stopped" \/ life'[n] # life[n]]_vars

\* The overlay implements Rendezvous: whatever is walked, requested, gossiped, repeated
\* or outlives its sender, endpoints come from their owners and nobody relies on less
\* than all of them.
Meeting == INSTANCE Rendezvous WITH generation <- life, known <- endpoints, relied <- peers,
    told <- {<<p.from, p.to, p.at>> : p \in {q \in mail : q.kind = "announcement"}}
TeamMeets == Meeting!RendezvousSpec

\* If the walkers reach everybody and nobody leaves, everybody races, although a
\* node no longer announces itself to those it knows.
EverybodyRaces == <>(\A n \in Member : phase[n] = "racing")

\* Who is told by gossip of a teammate finds it.
GossipConnects ==
    \A n, t \in Member :
        (\E p \in mail : p.kind = "gossip" /\ p.to = n /\ p.about = t) ~> endpoints[n][t] # Unknown
=============================================================================
