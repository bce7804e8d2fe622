----------------------------- MODULE PrepPhase -----------------------------
(***************************************************************************)
(* lab2-prep on every member (prep_cli.py, udp_prep.py), and the start of  *)
(* lab2-race after it: the overlay of EndpointDiscovery until the member   *)
(* itself has found everybody, then one hello and one ping to each         *)
(* teammate, and a verdict on each.  Both programs use the same overlay,   *)
(* so a member that still prepares may meet one that races.                *)
(*                                                                         *)
(* `datagrams` only grows, like `mail`.  A ping is sent from a socket of   *)
(* its own; the pong goes back to that socket, whose protocol ignores it,  *)
(* so no action receives a pong.                                           *)
(***************************************************************************)
EXTENDS EndpointDiscovery

CONSTANTS
    Racers,  \* bound: the members that may start lab2-race when they have begun
    Plans    \* what the members begin with: lab2-prep, with or without the overlay, or lab2-race

ASSUME RacersAssumption == Racers \subseteq Member
ASSUME PlansAssumption == Plans \subseteq [Member -> {"discovering", "announcing", "racing"}]

VARIABLES
    stage,      \* where run_prep_phase is, or "racing": the member runs lab2-race
    manual,     \* the members given their teammates' endpoints on the command line
    datagrams,  \* hellos, pings and pongs sent
    heard,      \* UdpPrepServer.response_events that are set
    verdict     \* run_udp_test, per teammate

prepVars == <<vars, stage, manual, datagrams, heard, verdict>>

Datagram == [kind: {"hello", "ping", "pong"}, from: Member, to: Member]
Sent(k, n, m) == [kind |-> k, from |-> n, to |-> m]
ToAll(n, kinds) == {Sent(k, n, m) : k \in kinds, m \in Teammates(n)}

\* The UDP server is open from the first step of the program to the last.
Listening(n) == stage[n] \in {"discovering", "announcing", "testing"}

-----------------------------------------------------------------------------
PrepOverlay == Overlay /\ UNCHANGED <<stage, manual, datagrams, heard, verdict>>

\* A node that announces itself before it has found everybody.
BrokenDiscovered(n) ==
    /\ stage[n] = "discovering"
    /\ stage' = [stage EXCEPT ![n] = "announcing"]
    /\ phase' = [phase EXCEPT ![n] = "stopped"]
    /\ peers' = [peers EXCEPT ![n] = endpoints[n]]
    /\ UNCHANGED <<life, contacts, endpoints, mail, manual, datagrams, heard, verdict>>

\* wait_for_endpoints() returns everybody; the overlay is stopped.
Discovered(n) ==
    /\ stage[n] = "discovering"
    /\ Missing(n) = {}
    /\ stage' = [stage EXCEPT ![n] = "announcing"]
    /\ phase' = [phase EXCEPT ![n] = "stopped"]
    /\ peers' = [peers EXCEPT ![n] = endpoints[n]]
    /\ UNCHANGED <<life, contacts, endpoints, mail, manual, datagrams, heard, verdict>>

\* announce_endpoint() and, with --test-udp, the pings of run_udp_test()
AnnounceEndpoint(n) ==
    /\ stage[n] = "announcing"
    /\ \/ /\ stage' = [stage EXCEPT ![n] = "testing"]
          /\ datagrams' = datagrams \cup ToAll(n, {"hello", "ping"})
       \/ /\ stage' = [stage EXCEPT ![n] = "done"]
          /\ datagrams' = datagrams \cup ToAll(n, {"hello"})
    /\ UNCHANGED <<vars, manual, heard, verdict>>

\* _handle_hello()
OnHello(n, m) ==
    /\ Listening(n) /\ Sent("hello", m, n) \in datagrams
    /\ heard' = [heard EXCEPT ![n] = @ \cup {m}]
    /\ UNCHANGED <<vars, stage, manual, datagrams, verdict>>

\* _handle_ping(): the pong goes to the address of the ping.
OnPing(n, m) ==
    /\ Listening(n) /\ Sent("ping", m, n) \in datagrams
    /\ datagrams' = datagrams \cup {Sent("pong", n, m)}
    /\ UNCHANGED <<vars, stage, manual, heard, verdict>>

\* wait_for_pong() that does not tell a timeout from an answer.
BrokenResponded(n, m) ==
    /\ stage[n] = "testing" /\ verdict[n][m] = "none" /\ n # m
    /\ verdict' = [verdict EXCEPT ![n][m] = "ok"]
    /\ UNCHANGED <<vars, stage, manual, datagrams, heard>>

\* wait_for_pong(): anything heard of m will do ...
Responded(n, m) ==
    /\ stage[n] = "testing" /\ verdict[n][m] = "none"
    /\ m \in heard[n]
    /\ verdict' = [verdict EXCEPT ![n][m] = "ok"]
    /\ UNCHANGED <<vars, stage, manual, datagrams, heard>>

\* ... and nothing heard for two seconds is a failure.
NoResponse(n, m) ==
    /\ stage[n] = "testing" /\ verdict[n][m] = "none" /\ n # m
    /\ m \notin heard[n]
    /\ verdict' = [verdict EXCEPT ![n][m] = "fail"]
    /\ UNCHANGED <<vars, stage, manual, datagrams, heard>>

\* Every teammate is judged: the server is stopped.
Complete(n) ==
    /\ stage[n] = "testing"
    /\ \A m \in Teammates(n) : verdict[n][m] # "none"
    /\ stage' = [stage EXCEPT ![n] = "done"]
    /\ UNCHANGED <<vars, manual, datagrams, heard, verdict>>

\* The deadline of the whole command.
TimesOut(n) ==
    /\ Listening(n)
    /\ stage' = [stage EXCEPT ![n] = "timedOut"]
    /\ phase' = [phase EXCEPT ![n] = "stopped"]
    /\ UNCHANGED <<life, contacts, endpoints, peers, mail, manual, datagrams, heard, verdict>>

\* The member starts lab2-race, once more perhaps, also when it has broken off the
\* preparation; then run_relay_race goes on.
StartRace(n) ==
    /\ n \in Racers
    /\ Restart(n)
    /\ stage' = [stage EXCEPT ![n] = "racing"]
    /\ UNCHANGED <<manual, datagrams, heard, verdict>>
Race(n) ==
    /\ stage[n] = "racing"
    /\ EndpointsFound(n) \/ ServerFound(n) \/ Leave(n)
    /\ UNCHANGED <<stage, manual, datagrams, heard, verdict>>

-----------------------------------------------------------------------------
PrepInit ==
    /\ stage \in Plans
    /\ manual = {n \in Member : stage[n] = "announcing"}
    /\ life = [n \in Member |-> 1]
    /\ phase = [n \in Member |-> IF n \in manual THEN "stopped" ELSE "discovering"]
    /\ contacts = [n \in Member |-> {}]
    /\ endpoints = [n \in Member |-> [m \in Member |-> Unknown]]
    /\ peers = [n \in Member |-> [m \in Member |-> IF n \in manual /\ m # n THEN 1 ELSE Unknown]]
    /\ mail = {}
    /\ datagrams = {}
    /\ heard = [n \in Member |-> {}]
    /\ verdict = [n \in Member |-> [m \in Member |-> "none"]]

Judge(n) == Complete(n) \/ \E m \in Member : Responded(n, m) \/ NoResponse(n, m)
PrepNext ==
    \/ PrepOverlay
    \/ \E n \in Member :
          \/ Discovered(n) \/ AnnounceEndpoint(n) \/ Judge(n) \/ TimesOut(n)
          \/ StartRace(n) \/ Race(n)
          \/ \E m \in Member : OnHello(n, m) \/ OnPing(n, m)

PrepSpec == PrepInit /\ [][PrepNext]_prepVars

\* The overlay as in EndpointDiscovery; a command goes on, and does not wait longer
\* than its timeouts.
FairPrepSpec ==
    /\ PrepSpec
    /\ FairOverlay
    /\ \A n \in Member : WF_prepVars(Discovered(n) \/ AnnounceEndpoint(n) \/ Judge(n))
-----------------------------------------------------------------------------
(* What the command shows, and what it does not.                           *)

\* A teammate reported as reachable has found this node, or was given its endpoint:
\* it is past its discovery, and this node had told it where it is.
OkMeansFound ==
    \A n, m \in Member : verdict[n][m] = "ok" =>
        /\ stage[m] # "discovering"
        /\ stage[m] # "racing" => peers[m][n] # Unknown
        /\ m \notin manual => Told(n, m, 1)

\* A node that reports does so on the whole team, each of whom has told it where it
\* is (or the user has); hearsay would not do.
ReportsOnTeam ==
    \A n \in Member \ manual : stage[n] \in {"announcing", "testing", "done"} =>
        \A m \in Teammates(n) : Told(m, n, peers[n][m])

\* A teammate has left the overlay, because it had itself found everybody or its time
\* was up, and had not yet told this node where it is.
Deserted(n) ==
    \E m \in Teammates(n) :
        /\ ~Online(m)
        /\ ~\E p \in mail : p.kind = "announcement" /\ p.from = m /\ p.to = n

\* A preparation deserted by a teammate is lost: whatever is still on its way and
\* whoever else answers, it ends by its deadline, unless a teammate comes back to race
\* (prep_cli.py stops the overlay as soon as its own discovery is done).
ForsakenFails ==
    [][\A n \in Member : stage[n] = "discovering" /\ Deserted(n) =>
          \/ (stage[n] = "discovering" /\ Deserted(n))'
          \/ stage'[n] \in {"timedOut", "racing"}
          \/ \E m \in Teammates(n) : life'[m] # life[m]]_prepVars

\* A preparation comes to its end, unless it is lost that way.
EveryPrepEnds == \A n \in Member : stage[n] = "discovering" ~> (~Listening(n) \/ Deserted(n))

\* A teammate reported as reachable has answered a ping of this node.
OkMeansAnswered ==
    \A n, m \in Member : verdict[n][m] = "ok" => Sent("pong", m, n) \in datagrams
=============================================================================
