# A formal model of the Lab 2 relay race and the Lab 1 client

TLA+ modules, TLC configurations and TLAPS proofs kept beside the repository.
The repository holds two small IPv8 programs: the Lab 1 proof-of-work client
(`src/lab1_pow_ipv8`) and the Lab 2 relay race (`src/lab2_relay_race`), in which
three processes A, B and C sign three server nonces inside ten seconds. Most of
what is hard to test is in Lab 2, where the processes depend on one another; what
Lab 1 adds is a directory that several runs share, and a server whose answers are
told apart by their address only.

## 1. Inventory

| Component | Source | State | Operations | What makes it correct |
|---|---|---|---|---|
| Relay race session | `race.py` `_RelayRaceSession` | the point in `run()`, `group_id`, `signed_rounds`, the leader's `missing`/`signatures`/challenge, the `_send_baton` task | register, GroupReady barrier, follow, baton or fallback, challenge, collect, submit, pass the baton, return | rounds in turn; only nonces of the right round signed; bundle complete; nobody stuck |
| Race set-up | `race.py` `run_relay_race`, `_discover_team_endpoints` | UDP node, IPv8 service, endpoint map | start, discover, look up the server, run, stop | endpoints of both teammates are known when the race starts |
| Signed UDP channel | `udp_runtime.py`, `udp_protocol.py` | `_sequence`, `_seen_sequences`, `_queue`, `_backlog` | send, decode, receive, wait_for | a datagram is read at most once, nothing accepted is lost |
| Server messages | `community.py` 58-109, 327-402 | three reply queues | three requests, three handlers, three waits | replies only from the server, awaited with a timeout |
| Endpoint discovery | `community.py` 112-325, 404-575 | `local_endpoint`, `peer_endpoints`, `target_pubkeys`, known peers | announce, request, gossip, walk, wait | everybody finally knows everybody |
| Course server | not in the repository | group, challenges, accepted rounds, budget | the three replies | as documented in `docs/Lab2.md` |
| Team configuration | `team.py` | members in the order A, B, C | `submitter_for_round` | order and roles agree on all nodes |
| Prep command | `prep_cli.py`, `udp_prep.py` | discovery and ping state | discovery, ping, pong, hello | reports reachability truthfully |
| Proof-of-work client | `lab1_pow_ipv8/client.py`, `main.py` | the command line, the nonce, `_response` | check, search, submit, wait | a verdict is the server's, on this submission or on that of a run that ended at the same address; every run ends |
| Proof-of-work search | `pow.py` | the nonce being tried | `leading_zero_bits`, `mine_pow` | the first solution, by the bits the server counts |
| Input validation | `validation.py` | none | checks of email, nonce, URL | what is accepted here the server accepts too |
| Libsodium bootstrap | `libsodium_bootstrap.py` | the files under `vendor/libsodium`, shared by all runs | look up, download, unpack, select, copy | whoever is sent to `bin` finds the whole of the preferred build, unless a run broke off or two overlapped; what is settled is not written again |
| Key utilities, message ids, race command | `keyutil.py`, `message_ids.py`, `race_cli.py` | none | pure functions | not modelled, section 6 |

Interaction. The three sessions talk to each other over the signed UDP channel
(GroupReady, BatonPass, Nonce, SignatureReply and ACKs) and to the server over
IPv8 (`ez_send`, three reply queues filled by callbacks). Within one process
everything runs on one asyncio event loop, so a step is what happens between two
awaits; the only concurrent pair of tasks in a session is `_send_baton` and the
wait for the round result.

Hard behaviours, each listed at its line under `hazards` in `PROJECT.json`:
datagrams and server messages lost, late, duplicated or overtaken; retries that
race their answers; deadlines that expire while an answer is under way; a node
that has gone on or stopped while another still needs it; the starvation of the
event loop by `wait_for`; members in different programs in one overlay; files that
another run is writing, or was killed while it wrote; a response meant for a run that
has ended; a download that no deadline covers.

## 2. Modules

| Module | Models | Composes |
|---|---|---|
| `LabServer` | the course server and the IPv8 messages to and from it (external environment) | - |
| `RelayRace` | the three `run()` coroutines, `receive`/`wait_for` with the backlog, the network, the deadlines | extends `LabServer` |
| `RelayTurn` | abstract: rounds take turns begin, sign, submit, accept | instantiated by `RelayRace` |
| `MCRelayRace` | symmetry of nonces for TLC | extends `RelayRace` |
| `RelayRace_proofs` | type correctness, the order of the rounds | extends `RelayRace` |
| `RelayGuarantees_proofs` | what is signed, submitted and reported; the refinement of `RelayTurn` | extends `RelayRace_proofs` |
| `RelayStandstill_proofs` | the two ways in which the race comes to a standstill for good | extends `RelayGuarantees_proofs` |
| `SignedUdpNode` | one node's codec, queue and backlog; senders that are started again; the network | - |
| `AtMostOnceChannel` | abstract: posted items are delivered at most once | instantiated by `SignedUdpNode` |
| `MCSignedUdpNode` | one sender, two kinds | extends `SignedUdpNode` |
| `SignedUdpNode_proofs` | its invariants and the refinement of the channel | extends `SignedUdpNode` |
| `EndpointDiscovery` | announcements, requests, gossip, introductions; `run_relay_race` around them | - |
| `Rendezvous` | abstract: members tell others where they are, learn it from them, and rely on it when they know everybody | instantiated by `EndpointDiscovery`, for `PrepPhase` too |
| `MCEndpointDiscovery` | who can reach whom | extends `EndpointDiscovery` |
| `EndpointDiscovery_proofs` | its invariants and the refinement of `Rendezvous` | extends `EndpointDiscovery` |
| `PrepPhase` | `lab2-prep`: discovery, then hello, ping and the verdicts; `lab2-race` after it, in the same overlay | extends `EndpointDiscovery` |
| `MCPrepPhase` | who can reach whom | extends `PrepPhase` |
| `PrepPhase_proofs` | what a report is worth; that both commands in one overlay still refine `Rendezvous` | extends `PrepPhase`, `EndpointDiscovery_proofs` |
| `LibsodiumBootstrap` | `ensure_libsodium()` in processes that share `vendor/` | - |
| `LibsodiumBootstrap_proofs` | when the library is sound, and that settled files stay | extends `LibsodiumBootstrap` |
| `ProofOfWork` | `leading_zero_bits`, and what the server counts | - |
| `PowClient` | runs of the Lab 1 program, and its server (external) | extends `LibsodiumBootstrap`, `ProofOfWork` |
| `MCPowClient` | machines, command lines, digests | extends `PowClient` |
| `PowClient_proofs` | types, verdicts, the count of zero bits and the search; the program implements the bootstrap | extends `PowClient`, `LibsodiumBootstrap_proofs` |

### RelayRace: state and actions

`pc[n]` is the await in which the coroutine of node n is suspended; the other
node variables carry the source's names (`groupId` for `group_id`, `signed` for
`signed_rounds`; `baton` is the `_send_baton` task). Sections of the module
follow the methods of `_RelayRaceSession` in order. Each action is the whole
piece of code from one await to the next: for example `GroupReadyAcked` discards
the ACK's sender, goes round the loop, resends to the rest or leaves the method
and sends the first challenge request.

`datagrams` holds every datagram in flight or waiting in a node's receive queue.
It is a set: the order of reading is arbitrary, a datagram may stay unread for
ever (a loss), and each is read at most once (`SignedUdpCodec` refuses replays;
equal content sent twice while the first is unread counts once). `Lose` removes
one explicitly, where a property must see the loss. `backlog` is
`SignedUdpNode._backlog`; `Spinning(n)` says that n is inside a `wait_for` whose
set-aside message does not match: `receive()` hands that message straight back,
nothing is awaited, and the event loop of n reads neither socket until the
deadline of the wait.

Signatures are deterministic, so the signature of a member over a nonce is
represented by the nonce; `verify_signature` is the comparison with the leader's
own challenge. Nonces are model values and interchangeable.

Retries. A retry interval elapsing is `Resend`. When nothing sent by the node is
about to be read and no answer is on its way (`Quiet`), the retry is free; a
retry that overtakes an answer still under way is what makes duplicates, and is
bounded by `MaxEarlyRetries`. Deadlines expire at any moment when they belong to
`Deadlines`.

### SignedUdpNode: state and actions

One node and whoever sends to it. `RelayRace` takes the channel between the nodes
as a set from which each datagram is read at most once; this module says why it
may. `network` only grows, so a datagram in it may arrive never, once, again, or
after later ones; `Damage` adds a copy whose signature does not verify. `Send` is
`send()` with `encode()` (count, then sign), `Restart` a new process whose counter
is zero again while the receiver still has its `seen` numbers. `OnDatagram` is the
whole callback: decode, replay check, queue. `receive()` is two actions, one per
source it takes from, and `wait_for()` is four: a matching message set aside
is returned at once, otherwise the call is running (`wanted`) until it returns,
sets a message aside or expires. While `Spinning`, the event loop is not given up
and `OnDatagram` is disabled, as in `RelayRace`. `read` is a history variable: what
the callers have been given, in order. The envelope carries no time, so a datagram
never expires.

`caller` is the part of the session that reads: the barrier (`_send_group_ready`,
`_wait_for_group_ready`) and the baton (`_send_baton`) call `wait_for()` only, the rounds
call `receive()` only, and when the session has ended nobody reads. `BarrierOpens`,
`BundleSent` and `SessionEnds` go from one to the next; `SessionEnds` may come at any
time, since every part may raise. What exactly the session waits for is `RelayRace`'s
matter; here it may ask for any kind.

`SetsOneAside` (an invariant of the proofs) is the precise form of that starvation: with
one message set aside nothing else is taken from the queue.

### EndpointDiscovery and PrepPhase: state and actions

An endpoint is represented by the number of the life of the process that announced
it, so that one of an earlier life can be told from the current one. `mail` is the
set of IPv8 packets ever sent; like `network`, it loses, repeats and reorders, also
across restarts of the receiver. `contacts` is the team's part of `get_peers()`;
introductions are IPv8's and external: `Walks` says whose walker reaches whom,
`Walked` and `Introduced` are the two ends of an introduction. Each handler and each
turn of a periodic task is one action with everything it sends: `OnAnnouncement`
gossips the newcomer, `Introduced` asks and announces at once. `phase` is where
`run_relay_race` is; `EndpointsFound` copies the map into `peers`, the endpoints of
the UDP node, once; `Leave` is a deadline or the end of the session, `Restart` a new process at a new
endpoint. `Overlay` and `Session` are all that goes on while nobody leaves.

`PrepPhase` runs the same overlay under `prep_cli.py` and `race_cli.py`. Each member
begins as `Plans` allows: preparing with discovery, preparing with the endpoints of its
teammates on the command line (`manual`), or racing; a member of `Racers` starts the
race when it likes (`StartRace`), also if it has broken off the preparation, and then
takes the steps of `run_relay_race` (`Race`). `Discovered` stops the overlay
at the moment the node itself knows everybody, `AnnounceEndpoint` sends the hellos
and pings (one step for what the code sends across several awaits: the packets are
independent of one another and each may be late), `heard` is the set of `response_events` that are set, and `verdict` what
`run_udp_test` prints. Pings leave from a socket of their own, to which the pong
goes back and whose protocol ignores it: no action receives a pong.

### LibsodiumBootstrap and PowClient: state and actions

`disk` says what each file under `vendor/libsodium` holds: nothing, something torn, or
its intact contents. The code looks for names only (`exists()`), and so does `Exists`:
a torn file is taken for the library. Writing is two actions, opening and completing, so
a `Crash` or another process may come in between; `extractall` writes one member after
the other in any order. `overlapped` remembers that two processes have been at work at
once. `env` is the machine (operating system, `LIBSODIUM_DIR`, what is installed, the
two environment variables), `found` the folder that was put in front of the loader's
path. The archive of `LIBSODIUM_URL` is taken to hold one library; that for Windows
holds several builds, of which `_select_windows_dll` prefers the x64 release by the
names of its folders, whatever the machine is. Whether the preferred build `fits` the
machine is part of `env`, and matters to the loader only. A process that is killed
while it unpacks or copies has `brokenOff`; killed earlier, it has merely `crashed`.

`PowClient` composes it with the program: `stage` is where a run of `main()` is,
`Begin` the checks of the arguments, `Mine` one turn of `mine_pow`, `Ensure`,
`Bootstrap` and `Downloaded` the steps of the bootstrap, then IPv8. IPv8 listens on the
first free port, so a run that begins after another has ended has its address, and a
response is recognised by its sender only. `Submit` may be repeated while nothing has been
heard, since the set `mail` does not count. `MayLoad` and `MayNotLoad` are the dynamic
loader, external: it takes the build that runs on the machine. Addresses and URLs are
members of small sets: `WellFormed` and `AllowedUrl` are those `validate_email` and
`validate_github_url` accept, `ServedEmail` and `ServedUrl` those the server takes, and
neither side's set is derived from the other's. The server is modelled from the
responses `docs/Lab1.md` lists; it keeps one email per key. SHA-256 is a function of
the instance.

## 3. Runs

The race has the three nodes and rounds of the code, one group identifier
and two nonces: a third nonce would be needed only in round 3, and
`OnlyRoundOneCompletes` (proved, section 5) shows that round 3 is never issued a
challenge.

| Run | Asks | Bounds |
|---|---|---|
| `race_lossy` | types; nobody leads early; the budget starts after the barrier; refusals come of the budget; every wait ends, but two; a signature lost when its member no longer answers stays lost | every deadline, refusal of the registration, delivery not fair and one reply lost outright |
| `race_turns` | refinement of `RelayTurn`; only nonces of the right round signed and submitted; no second round; what a leader is told is accepted is recorded; nobody signs two nonces for one round; a starved barrier opens no more; the inductive invariant | one duplicated request, one early retry; the wait for the baton may be given up, the budget may close |
| `race_reliable` | round 1 is recorded and A returns, unless an early retry has starved the barrier | delivery is fair, one early retry; the waits for the baton's ACK and for the verdict may give up |
| `race_all_rounds` | finding: three rounds never complete | delivery is fair |
| `race_barrier` | finding: the barrier may never open | delivery is fair, one early retry |
| `race_one_loss` | finding: one lost signature is never replaced | one loss |
| `node` | types, numbering, conservation, exact replay check, also between lives; refinement of `AtMostOnceChannel`; what is accepted is read, unless the session leaves its rounds first | one sender, two messages in each of two lives, two kinds |
| `discovery_reliable` | no hearsay; everybody finally races | three members in a ring: each walker reaches one other |
| `discovery_line` | finding: gossip connects nobody | three members in a line |
| `prep_race` | types; nobody races with an incomplete team; a verdict OK means the teammate has found this node; a report covers the whole team; a preparation ends unless it is deserted, and if it is, only by its deadline; refinement of `Rendezvous`; who races with an outdated endpoint keeps it | two members, every plan, one of them races, up to its third life |
| `prep_ping` | finding: OK without an answered ping | two members |
| `lab1` | types; the first solution is found; the server refuses for a reason; a verdict is the server's; the preferred library is whole; settled files stay; every run ends | two runs, five machines (one of them Windows where the preferred build does not run), eleven command lines, nonces 0..2, one process killed at work |

Why the bounds are enough. In the race, one loss and one early retry suffice for
the hazards listed: each scenario needs a single message to be missing or doubled.
`race_reliable` has an early retry because the retry timers run whether or not an answer
is under way (race.py:257-264); a retry that overtakes the ACK of a GroupReady is what
starves the barrier (finding 2), so the two properties say that this is the only thing
that can go wrong there. Deadlines before the verdict do not pass in that run: each of
them ends the race by design.
`RejectedOnlyAfterBudget` is asked where no request is duplicated: the second copy
of a bundle is refused for its round, by the server's rule and not by a fault of
the client. A message that is merely never delivered is a loss too; `Lossable`
names the replies that are lost outright, so that their sender's retry may start
without counting as early. The node needs two messages to have one waited
for and one set aside, and two lives for a number to come again. Gossip needs three
members; two that restart already mix the packets of several lives, and `lab2-prep`
allows a team of two (prep_cli.py:55), where nothing depends on gossip. For Lab 1, two
runs are what it takes to overlap, to follow a killed one and to share an address; the
digests have two bytes, of which twelve bits must be zero, so that the boundary lies
inside a byte, and the command lines have a nonce that solves, one that is a bit short,
one above the range, an address that is not canonical, one that is not accepted and one
that is but that the server does not take, and a URL that is not accepted.
`LeadingZerosAssumption` compares the count of zero bits with its definition bit by bit
for every digest of two bytes.
What does not depend on the bounds at all is proved.

Deadlock. In the race a terminated system stutters explicitly (`Terminated`), so a
deadlock would be a node waiting in a state no step leaves; in the
`node` and `discovery_reliable` runs it is checked too. The two prep
runs and `lab1` turn it off: there every process may have stopped for good.

Fairness. `ProcessesRun`: a coroutine whose wait has timed out continues
(asyncio runs ready tasks). `NetworkDelivers`, assumed only where a property is
about a working network: what is on its way to a node, a reply or a request is
finally handled. `DeadlinesPass`: wall-clock deadlines are reached, except the
timeout of `_follow_round`, which starts again with every datagram. In
`SignedUdpNode`, the rounds call `receive` again and again and nothing else, and the
barrier has a deadline, both weakly fair; no `wait_for` is relied upon to return, and
nothing is assumed of the baton or of the end, where what was accepted may stay unread:
`AcceptedIsRead` says so. In `EndpointDiscovery`, walker and tasks are periodic (`register_task`
with an interval, the loop of `wait_for_endpoints`), packets arrive in the end, and
`FairSpec` is about a team that nobody leaves. `FairPrepSpec` adds that a preparation
goes on and that a ping is not awaited for ever; members may leave, which is why
`EveryPrepEnds` has its exception; the deadline of the command is not relied upon.
In `PowClient` a run that has begun goes on, and the
deadline of the response passes; the download is given no fairness, because `urlopen` has
no timeout (libsodium_bootstrap.py:218), and neither have the network and the server.

## 4. Findings

1. `AllRoundsComplete`: `run()` returns after the node's own round and
   `run_relay_race` stops the UDP node (race.py:154-156, 219); B and C still need
   A's signature. No execution completes a second round.
2. `BarrierOpens`: a `wait_for` that has set a message aside starves the event loop
   (udp_runtime.py:99-104). A retransmitted GroupReady and its second ACK are
   enough to block node A for the rest of the 30 s. That nothing gets it out of there
   and that the race is over with it is proved (`BarrierNeverReopens`,
   `StarvedBarrierEndsRace`).
3. `LastSignatureArrives`: a follower drops rebroadcasts of an earlier round
   (race.py:298-304), so the leader's retransmission cannot make good a lost reply. That no other step
   can, either, and that the leader then collects for ever is proved
   (`LostSignatureStaysLost`, `LostSignatureEndsRace`).
4. `GossipConnects`: `on_endpoint_gossip` records nothing and walks to the teammate's
   signed UDP port (community.py:523), where nothing answers introductions. Two
   members that do not reach one another by IPv8's own walks never meet.
5. `OkMeansAnswered`: in `lab2-prep` a hello satisfies `wait_for_pong`, and pongs go to
   a socket that ignores them (udp_prep.py:126, 146, 170-173): OK means only that the
   teammate has found this node (`OkMeansFound`, proved).

## 5. Proofs

Proved by TLAPS for all constants (any sets of groups and nonces, any deadlines
and bounds):

- `TypeCorrect`: `Spec => []TypeOK`. The invariant is `TypeInv == TypeOK /\ Places`;
  `Places` (node A never follows, a follower is below its own round, C passes no
  baton) is needed because a message is built for the round after the node's own.
- `Ordered`, and from it `LeadersInTurn` and `RelayEndsAfterRoundOne`. Neither
  property is inductive alone. `RelayOrder` adds that a challenge reply or a nonce
  on its way belongs to a round the server has begun, that a bundle on its way is of
  its sender's round, and the core of the argument: round 2's nonce is only sent
  when round 1 is recorded, by then A has left its loop, so A never signs for
  round 2 and B never has the last signature.

- `SignedUdpNode`: `NodeTyped`, `NumbersAreUnique`, `NothingIsLost`, `OnlyTeamIsHeard`,
  `ReplayCheckIsExact` and `ImplementsChannel`, from `IInv == TypeOK /\ SetsOneAside /\
  Numbered /\ Conserved /\ Authentic`. `Conserved` needs `SetsOneAside` (the set-aside
  message and the queue are never rearranged past one another), and
  `RefusedOnlyIfAccepted` follows from the rest: a refused number is that of an
  accepted message; in the same life `Numbered` makes it the same message, and the other
  case, a number of another life, is what a restart costs. The
  refinement maps each step that returns a message to `Deliver`, the first
  `Send` of a team member to `Post`, and everything else to a stutter.
- `EndpointDiscovery`: `DiscoveryTyped`, `EndpointsAreFirstHand`, `TeamIsKnown`, from
  `DInv == TypeOK /\ NoHearsay /\ RaceKnowsTeam`. `NoHearsay` speaks of packets too,
  because an endpoint is believed when an announcement arrives, however late.
  `StaleEndpointStays` is the other side of copying the endpoints once: who races with
  an endpoint of a teammate's earlier life keeps it, whatever is announced.
- `DiscoveryImplementsRendezvous`: `told` is what the announcements in `mail` say, so
  every step that announces (`Introduced`, `AnnounceToTeam`, `OnRequest`) maps to one
  `Tell` to all it announces to, `OnAnnouncement` to `Learn`, `EndpointsFound` to `Rely`,
  `Restart` to `Renew`; requests, gossip, walks and departures are stutters
  (`NothingTold`). `Learn` asks that the endpoint was told, `Rely` that nobody is
  missing: that is where `NoHearsay` and `RaceKnowsTeam` come from in the code.
- `PrepPhase`: `ReachableHasFound`, `ReportCoversTeam` and `TeamIsKnownAfterPrep`, from
  `PInv`, which adds the chain of evidence behind a verdict: reported, hence heard, hence
  a hello was sent, hence its sender had found everybody. The invariants of
  `EndpointDiscovery` are carried over, though members now race while others prepare.
  `PrepImplementsRendezvous` adds that `Discovered` is a `Rely` and that nothing else
  the commands do shows. `ForsakenPrepFails` rests on `Silent` (a teammate that has left
  and never announced itself to this member tells it nothing until it starts again, so it
  stays missing); it and `StaleEndpointStaysInPrep` are action properties.
- `LibsodiumBootstrap`: `LoneBootstrapIsSound` and `SettledFilesStay`, for any number of
  runs. `BootInv` says that at most one process is at work as long as none has overlapped
  (`Alone`), which files that process may still have torn, and that everybody else finds
  whole ones as long as nobody has broken off. `SettledFilesStay` needs only
  types and that a member being unpacked is a library (`MembersHeld`): whoever is about to write a file has found it missing, and it stays in
  `Writing(f)` until it has.
- `PowClient`: `ClientsBootstrap` (every step of the program is one of the bootstrap or
  leaves its state alone, so `FoundIsSound` and `SettledFileStays` carry over),
  `ClientTypeCorrect`, and `VerdictComesFromServer` from `ClientInv`: a reply goes to the
  address of its submission, two runs that are online at once differ in theirs, and
  whoever has submitted is online or has ended.
- `CountsLeadingZeros`: `leading_zero_bits` takes the first byte that is not zero, adds
  eight for each byte before it and the bits `bit_length()` leaves of it; the server's
  count is bit by bit. The proof finds that byte (or that there is none), places it by
  the table of bit lengths (`BitLength`, `ByteBits`), and compares the two before, in and
  after it. From it, `SearchFindsFirst` by `SearchInv` (nothing from the first
  nonce up to the one being tried solves; who has gone on has a solution) and
  `RefusalHasCause` (what is on its way to the server solves at the difficulty of its
  run, so the server, asking for no more, refuses for the address, the URL or the key's
  registration only).
- `RelayGuarantees`: three invariants on top of the order of the rounds. `GenuineInv`:
  every message on its way, or set aside, is worth what it says (a nonce or
  a signature is of the nonce the server issued for that round, an acknowledgement is from
  a member that knows the group, a positive result from a server that recorded the round).
  None of the properties holds by itself: a bundle is complete because the leader's
  collected signatures are, those because the replies are, those because the nonces are.
  It is preserved because what is settled stays settled (`Settled`). From it
  `SignaturesAreGenuine`, `BundlesAreComplete`, `BarrierPrecedesBudget` and
  `AcceptedMeansRecorded`. `OnceInv`, for `RefusedMeansLate`, adds that where no request is
  duplicated the only bundle is A's of round 1. `EndorseInv`, for `RelayImplementsTurns`,
  adds that a signature on its way is in its signer's cache and that whoever a leader does
  not miss has signed. With it each step maps to one of `RelayTurn`: a challenge the
  leader takes to `Begin`, a member's first signature to `Endorse`, sending the bundle to
  `Submit`, the server's acceptance to `Accept`, the rest to stutters. `NobodySignsTwice`
  follows from `GenuineInv` too: a nonce for a round already signed is the
  same one, as the server issues one per round, so signing anew changes nothing.
- `RelayStandstill`: what finding 2 and 3 show on one execution each, for all of them.
  `BarrierInv` says that until the barrier opens no challenge has been asked for and no
  round has begun (`Unbegun`), and that what A has set aside is no ACK it waits for
  (`Deferred`). Then a starved A can only expire, and after that nobody is left to ask
  the server (`Closed`). For the lost
  signature the argument goes over each step that could send one: the member that owes it
  has stopped, or is C following round 2, which drops the nonce of round 1; the steps of
  the others leave it where it is (`OthersRest`), and A's own only ask again.

Assumptions: `NoneAssumption` (None is no group, nonce or node), `ServerAssumption`,
`DeadlinesAssumption`, `BoundAssumption` for the race; `TeamAssumption`,
`KindsAssumption` and `BoundAssumption` for the node; `WalksAssumption` and
`LivesAssumption` for the discovery; `RacersAssumption` and `PlansAssumption` for the
preparation; `EnvironmentsAssumption` and `CrashesAssumption` for the bootstrap;
`ArgumentsAssumption`, `EmailAssumption`, `UrlAssumption`, `PowAssumption` and `NobodyAssumption` for the
client; TLC evaluates them on every run. `RefusedMeansLate` alone assumes a bound,
`MaxDuplicates = 0`, and says so. The
layout is one lemma per action or group of actions, combined by one lemma per invariant.

Every safety invariant, action property and refinement that a passing run checks is also
proved. Only model-checked is liveness, which is outside the prover's reach, as is ENABLED:
`RoundOneCompletes`, `LeaderReturns`, `WaitsAreBounded`, `AcceptedIsRead`,
`EverybodyRaces`, `EveryPrepEnds`, `EveryRunEnds`. `LeadingZerosAssumption` is evaluated
by TLC for digests of two bytes, as a check of the definitions `CountsLeadingZeros` is about;
no proof uses it.

## 6. Not modelled, and the plan

What the models show beside the runs, without a text that promises otherwise or
with one too loose to be refuted by a run:

- Outside Windows a library found in `LIBSODIUM_DIR` ends the search but is put on no
  path (libsodium_bootstrap.py:49-50; the repository's README.md:182 says to set the
  variable); `found = "unlisted"` in the model, where the loader may fail.
- On Windows for 32-bit or ARM64 machines the x64 release build is selected and copied
  to `bin`, since only the folder names are scored (libsodium_bootstrap.py:178-183); the
  loader then fails. `FoundIsSound` says "the preferred build", never "the right one".
- A run killed while it writes leaves a torn archive or copy that no later run repairs,
  since only names are looked for: `SettledFileStays` holds for torn files too. A torn
  archive makes every later run that unpacks fail; `FoundIsSound` says that it does no worse, and has to
  except runs that broke off while they unpacked or copied.
- Two runs at once may leave a damaged copy in `bin` for good; `FoundIsSound` excepts them,
  and `SettledFileStays` says only that no run that comes later writes it again.
- A message of the baton's or a given-up barrier's time may never be read, and a
  restarted sender's first messages are refused: `AcceptedIsRead` and
  `RefusedOnlyIfAccepted` name the exceptions.
- `urlopen` has no timeout, so a run may hang in it; `EveryRunEnds` excepts it.

The plan:

1. Restarts in `RelayRace`: a node that comes back at another endpoint, and with its
   sequence numbers starting over, composing what `EndpointDiscovery` (`MisledForGood`,
   race.py:139) and `SignedUdpNode` (numbers of another life refused) say with the race.
2. Stale announcements: the last one to arrive wins (community.py:424), so one of an
   earlier life may undo a later one. `TeamMeets` says that it is at least one the
   owner has told; what could be stated is how long it lasts.
3. A preparation with one teammate only, and the checks of the arguments of `lab2-prep`.

Left out for good: `ensure_udp_connectivity` (unused), key utilities and message
identifiers (pure functions without state), `race_cli` (it calls `run_relay_race`),
`--bootstrap` addresses and the walker's settings (IPv8's own), packets with unsupported
curves that `on_packet` drops (now the same as lost ones), logging, file formats,
cryptography itself.
