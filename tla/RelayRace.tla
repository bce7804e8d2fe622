----------------------------- MODULE RelayRace -----------------------------
(***************************************************************************)
(* The three `_RelayRaceSession.run` coroutines of race.py, one per team   *)
(* member, composed with the course server (LabServer) and the signed UDP  *)
(* channel between the members (SignedUdpNode).                            *)
(*                                                                         *)
(* A step is what one node does between two awaits.  `datagrams` holds     *)
(* what is in flight or waiting in a node's receive queue: each element is *)
(* read at most once (the codec rejects replays), in any order, or never   *)
(* (a lost datagram); at most one copy of identical content is unread.     *)
(* `backlog` is SignedUdpNode._backlog, the messages wait_for set aside.   *)
(***************************************************************************)
EXTENDS LabServer, Sequences

CONSTANTS
    Deadlines,       \* the timeouts that may expire in this instance
    MaxEarlyRetries, \* bound on the retries while something is still on its way
    MaxLosses,       \* bound on the datagrams explicitly lost
    Lossable         \* the kinds of datagrams among which they are

Deadline == {"registration", "group_ready", "follow", "await_baton",
             "send_baton", "challenge", "result", "budget"}

ASSUME DeadlinesAssumption == Deadlines \subseteq Deadline
ASSUME BoundAssumption == MaxEarlyRetries \in Nat /\ MaxLosses \in Nat

VARIABLES
    pc,         \* where each node's run() is suspended
    round,      \* the round the node follows or leads
    groupId,    \* the group the node knows, or None
    signed,     \* signed_rounds: the nonce signed for each round, or None
    missing,    \* the teammates still to acknowledge or to sign
    sigs,       \* the signatures the leader has collected
    challenge,  \* the nonce of the challenge the leader holds, or None
    baton,      \* the _send_baton task: "idle", "sending" or "done"
    result,     \* the final result of _lead_round
    datagrams, backlog,
    losses,     \* datagrams lost so far
    early       \* retries so far that did not wait for an answer under way

nodeVars == <<pc, round, groupId, signed, missing, sigs, challenge, baton, result>>
netVars == <<datagrams, backlog, losses, early>>
vars == <<serverVars, nodeVars, netVars>>

Members == <<"A", "B", "C">>
LocalRound == [n \in Node |-> CASE n = "A" -> 1 [] n = "B" -> 2 [] n = "C" -> 3]
SubmitterForRound(r) == Members[r]

Location == {"start", "await_registration", "await_ack", "await_group_ready", "follow",
             "await_baton", "fallback", "await_challenge", "collect", "await_result",
             "finishing", "done", "error"}
Stopped(n) == pc[n] \in {"done", "error"}
Led(n) == pc[n] \in {"await_result", "finishing", "done"}

-----------------------------------------------------------------------------
(* Datagrams between members.  A signature is the nonce it signs.          *)

GroupDatagram == [kind: {"GroupReady", "BatonPass"},
                  src: Node, dst: Node, round: 0..3, val: MaybeGroup]
NonceDatagram == [kind: {"Nonce", "SignatureReply"},
                  src: Node, dst: Node, round: Round, val: MaybeNonce]
AckDatagram == [kind: {"GroupReadyAck", "BatonAck"},
                src: Node, dst: Node, round: 0..3, val: {None}]
Datagram == GroupDatagram \cup NonceDatagram \cup AckDatagram

GroupReady(d, g) ==
    [kind |-> "GroupReady", src |-> "A", dst |-> d, round |-> 0, val |-> g]
GroupReadyAck(n) ==
    [kind |-> "GroupReadyAck", src |-> n, dst |-> "A", round |-> 0, val |-> None]
Nonce(n, d, v) ==
    [kind |-> "Nonce", src |-> n, dst |-> d, round |-> LocalRound[n], val |-> v]
SignatureReply(n, d, r, v) ==
    [kind |-> "SignatureReply", src |-> n, dst |-> d, round |-> r, val |-> v]
BatonPass(n) ==
    [kind |-> "BatonPass", src |-> n, dst |-> SubmitterForRound(LocalRound[n] + 1),
     round |-> LocalRound[n] + 1, val |-> groupId[n]]
BatonAck(n, d) ==
    [kind |-> "BatonAck", src |-> n, dst |-> d, round |-> LocalRound[n], val |-> None]

\* receive(): the head of the backlog if there is one, else a datagram of the socket.
Received(n) ==
    IF backlog[n] = <<>> THEN {m \in datagrams : m.dst = n} ELSE {Head(backlog[n])}

\* Consume m, obtained by receive() or by wait_for(), and send the set `out`.
Exchange(n, m, out) ==
    /\ datagrams' = (IF backlog[n] = <<>> THEN datagrams \ {m} ELSE datagrams) \cup out
    /\ backlog' = [backlog EXCEPT ![n] = IF @ = <<>> THEN @ ELSE Tail(@)]
    /\ UNCHANGED <<losses, early>>

Send(out) == datagrams' = datagrams \cup out /\ UNCHANGED <<backlog, losses, early>>

\* The predicate of the wait_for call the node is suspended in.
InWaitFor(n) == pc[n] \in {"await_ack", "await_group_ready"} \/ baton[n] = "sending"
Awaited(n, m) ==
    \/ pc[n] = "await_ack" /\ m.kind = "GroupReadyAck" /\ m.src \in missing[n]
    \/ pc[n] = "await_group_ready" /\ m.kind = "GroupReady" /\ m.src = "A"
    \/ /\ baton[n] = "sending"
       /\ m.kind = "BatonAck"
       /\ m.src = SubmitterForRound(LocalRound[n] + 1)
       /\ m.round = LocalRound[n] + 1

\* wait_for() pops its own backlog without awaiting: while no backlog message
\* matches, the event loop of n is stuck and reads neither socket.
Spinning(n) == InWaitFor(n) /\ backlog[n] # <<>> /\ ~Awaited(n, Head(backlog[n]))

(* Definitions named Broken... are bugs a change could introduce; nothing uses *)
(* them but the mutation checks of the properties.                             *)

\* The channel answers nonces by itself while the node waits for something else.
BrokenWaitForDefers(n) ==
    /\ InWaitFor(n)
    /\ backlog[n] = <<>>
    /\ \E m \in Received(n) :
          /\ ~Awaited(n, m)
          /\ datagrams' = (datagrams \ {m}) \cup
                (IF m.kind = "Nonce" THEN {SignatureReply(n, m.src, m.round, m.val)} ELSE {})
          /\ backlog' = [backlog EXCEPT ![n] = IF m.kind = "Nonce" THEN @ ELSE Append(@, m)]
    /\ UNCHANGED <<losses, early, serverVars, nodeVars>>

\* wait_for() sets a message that does not match aside.
WaitForDefers(n) ==
    /\ InWaitFor(n)
    /\ backlog[n] = <<>>
    /\ \E m \in Received(n) :
          /\ ~Awaited(n, m)
          /\ datagrams' = datagrams \ {m}
          /\ backlog' = [backlog EXCEPT ![n] = Append(@, m)]
    /\ UNCHANGED <<losses, early, serverVars, nodeVars>>

-----------------------------------------------------------------------------
(* The server side of a node: requests are sent with ez_send, replies wait *)
(* in the community's queues until the node awaits them.                   *)

serverState == <<group, issued, submitters, completed, budget, duplicates>>

RequestServer(out) == requests' = requests \cup out /\ UNCHANGED <<replies, serverState>>

\* Take reply m out of its queue and send the requests `out`.
TakeReply(m, out) ==
    /\ replies' = replies \ {m}
    /\ requests' = requests \cup out
    /\ UNCHANGED serverState

RepliesTo(n, kind) == {m \in replies : m.dst = n /\ m.kind = kind}

Expires(t) == t \in Deadlines

\* Who is about to read its socket, and which reply it awaits.
ReadsUdp(n) ==
    \/ pc[n] \in {"follow", "await_baton", "collect"}
    \/ InWaitFor(n) /\ ~Spinning(n)
AwaitsReply(n, kind) ==
    \/ pc[n] = "await_registration" /\ kind = "GroupRegisterResponse"
    \/ pc[n] \in {"fallback", "await_challenge"} /\ kind = "ChallengeResponse"
    \/ pc[n] = "await_result" /\ ~Spinning(n) /\ kind = "RoundResult"

\* Nothing n sent is about to be read, and no answer is on its way to n.
Quiet(n) ==
    /\ \A m \in requests : m.src # n
    /\ \A m \in datagrams : n \in {m.src, m.dst} => ~ReadsUdp(m.dst)
    /\ \A m \in replies : m.dst = n => ~AwaitsReply(n, m.kind)

\* A retry interval of n elapses: the requests `req` and the datagrams `out` are
\* sent again, early if an answer may still be on its way.
Resend(n, req, out) ==
    /\ \/ Quiet(n) /\ UNCHANGED early
       \/ /\ ~Quiet(n) /\ ~(req \subseteq requests /\ out \subseteq datagrams)
          /\ early < MaxEarlyRetries
          /\ early' = early + 1
    /\ RequestServer(req)
    /\ datagrams' = datagrams \cup out
    /\ UNCHANGED <<backlog, losses, nodeVars>>

Goto(n, l) == pc' = [pc EXCEPT ![n] = l]
Fail(n) ==
    /\ Goto(n, "error")
    /\ UNCHANGED <<serverVars, netVars, round, groupId, signed, missing, sigs,
                   challenge, baton, result>>

-----------------------------------------------------------------------------
(* _register_group and _send_group_ready: node A.                          *)

StartRegistration ==
    /\ pc["A"] = "start"
    /\ Goto("A", "await_registration")
    /\ RequestServer({GroupRegister("A")})
    /\ UNCHANGED <<netVars, round, groupId, signed, missing, sigs, challenge, baton, result>>

RegistrationRetry ==
    /\ pc["A"] = "await_registration"
    /\ Resend("A", {GroupRegister("A")}, {})

RegistrationResult ==
    /\ pc["A"] = "await_registration"
    /\ \E m \in RepliesTo("A", "GroupRegisterResponse") :
          /\ TakeReply(m, {})
          /\ IF m.success
             THEN /\ Goto("A", "await_ack")
                  /\ groupId' = [groupId EXCEPT !["A"] = m.group]
                  /\ missing' = [missing EXCEPT !["A"] = Node \ {"A"}]
                  /\ Send({GroupReady(d, m.group) : d \in Node \ {"A"}})
             ELSE /\ Goto("A", "error")
                  /\ UNCHANGED <<groupId, missing, netVars>>
    /\ UNCHANGED <<round, signed, sigs, challenge, baton, result>>

RegistrationExpired ==
    pc["A"] = "await_registration" /\ Expires("registration") /\ Fail("A")

\* The barrier opens at the first ACK.
BrokenGroupReadyAcked ==
    /\ pc["A"] = "await_ack"
    /\ ~Spinning("A")
    /\ \E m \in Received("A") : Awaited("A", m) /\ Exchange("A", m, {})
    /\ missing' = [missing EXCEPT !["A"] = {}]
    /\ Goto("A", "await_challenge")
    /\ RequestServer({ChallengeRequest("A", groupId["A"])})
    /\ UNCHANGED <<round, groupId, signed, sigs, challenge, baton, result>>

\* An ACK shrinks `missing`; the loop then resends to the rest or, when nobody
\* is missing, run() goes on to request the round-1 challenge.
GroupReadyAcked ==
    /\ pc["A"] = "await_ack"
    /\ ~Spinning("A")
    /\ \E m \in Received("A") :
          /\ Awaited("A", m)
          /\ LET rest == missing["A"] \ {m.src} IN
                /\ missing' = [missing EXCEPT !["A"] = rest]
                /\ Exchange("A", m, {GroupReady(d, groupId["A"]) : d \in rest})
                /\ IF rest = {}
                   THEN /\ Goto("A", "await_challenge")
                        /\ RequestServer({ChallengeRequest("A", groupId["A"])})
                   ELSE UNCHANGED <<pc, serverVars>>
    /\ UNCHANGED <<round, groupId, signed, sigs, challenge, baton, result>>

\* Once an interval has passed one teammate is enough.
BrokenGroupReadyRetry ==
    /\ pc["A"] = "await_ack"
    /\ \/ /\ missing["A"] = Node \ {"A"}
          /\ Resend("A", {}, {GroupReady(d, groupId["A"]) : d \in missing["A"]})
       \/ /\ missing["A"] # Node \ {"A"}
          /\ missing' = [missing EXCEPT !["A"] = {}]
          /\ Goto("A", "await_challenge")
          /\ RequestServer({ChallengeRequest("A", groupId["A"])})
          /\ UNCHANGED <<netVars, round, groupId, signed, sigs, challenge, baton, result>>

GroupReadyRetry ==
    /\ pc["A"] = "await_ack"
    /\ Resend("A", {}, {GroupReady(d, groupId["A"]) : d \in missing["A"]})

GroupReadyExpired == pc["A"] = "await_ack" /\ Expires("group_ready") /\ Fail("A")

(* _wait_for_group_ready: nodes B and C. *)

GroupReadyReceived(n) ==
    /\ pc[n] = "await_group_ready"
    /\ ~Spinning(n)
    /\ \E m \in Received(n) :
          /\ Awaited(n, m)
          /\ groupId' = [groupId EXCEPT ![n] = m.val]
          /\ Exchange(n, m, {GroupReadyAck(n)})
    /\ Goto(n, "follow")
    /\ round' = [round EXCEPT ![n] = 1]
    /\ UNCHANGED <<serverVars, signed, missing, sigs, challenge, baton, result>>

GroupReadyMissed(n) == pc[n] = "await_group_ready" /\ Expires("group_ready") /\ Fail(n)

-----------------------------------------------------------------------------
(* _handle_common_message and _reply_to_nonce_broadcast.                   *)

IsGroupReady(m) == m.kind = "GroupReady" /\ m.src = "A"
IsBatonFor(n, m) ==
    /\ LocalRound[n] > 1
    /\ m.kind = "BatonPass"
    /\ m.src = SubmitterForRound(LocalRound[n] - 1)
    /\ m.round = LocalRound[n]
IsCommon(n, m) == IsGroupReady(m) \/ IsBatonFor(n, m)

CommonAck(n, m) == {IF IsGroupReady(m) THEN GroupReadyAck(n) ELSE BatonAck(n, m.src)}

\* The wrong field of the body is read.
BrokenLearnGroup(n, m) == groupId' = [groupId EXCEPT ![n] = m.round]
LearnGroup(n, m) == groupId' = IF IsGroupReady(m) THEN [groupId EXCEPT ![n] = m.val]
                               ELSE groupId

Answered(m) == m.src = SubmitterForRound(m.round)

\* The cache is filed under the round the node is in, not the message's.
BrokenSign(n, m) == signed' = [signed EXCEPT ![n][round[n]] = m.val]

\* Only the last nonce signed is remembered.
BrokenSignLast(n, m) ==
    signed' = IF Answered(m)
              THEN [signed EXCEPT ![n] = [r \in Round |-> IF r = m.round THEN m.val ELSE None]]
              ELSE signed

\* Only the leader of a round is answered; a nonce already signed for the round
\* is answered from the cache, another one replaces it.
Signature(n, m) == IF Answered(m) THEN {SignatureReply(n, m.src, m.round, m.val)} ELSE {}
Sign(n, m) == signed' = IF Answered(m) THEN [signed EXCEPT ![n][m.round] = m.val] ELSE signed

(* _follow_round *)

\* A nonce of any round is taken for that of the round being followed.
BrokenIsFollowed(n, m) == m.kind = "Nonce" /\ Answered(m)

FollowCommon(n) ==
    /\ pc[n] = "follow"
    /\ \E m \in Received(n) :
          /\ IsCommon(n, m)
          /\ LearnGroup(n, m)
          /\ Exchange(n, m, CommonAck(n, m))
    /\ UNCHANGED <<serverVars, pc, round, signed, missing, sigs, challenge, baton, result>>

IsFollowed(n, m) ==
    m.kind = "Nonce" /\ m.src = SubmitterForRound(round[n]) /\ m.round = round[n]

\* The first nonce is taken note of but the signature is not sent.
BrokenFollowNonce(n) ==
    /\ pc[n] = "follow"
    /\ \E m \in Received(n) : IsFollowed(n, m) /\ Sign(n, m) /\ Exchange(n, m, {})
    /\ round' = [round EXCEPT ![n] = @ + 1]
    /\ IF round[n] + 1 < LocalRound[n] THEN UNCHANGED pc ELSE Goto(n, "await_baton")
    /\ UNCHANGED <<serverVars, groupId, missing, sigs, challenge, baton, result>>

FollowNonce(n) ==
    /\ pc[n] = "follow"
    /\ \E m \in Received(n) :
          /\ IsFollowed(n, m)
          /\ Sign(n, m)
          /\ Exchange(n, m, Signature(n, m))
    /\ round' = [round EXCEPT ![n] = @ + 1]
    /\ IF round[n] + 1 < LocalRound[n] THEN UNCHANGED pc ELSE Goto(n, "await_baton")
    /\ UNCHANGED <<serverVars, groupId, missing, sigs, challenge, baton, result>>

\* Everything else is dropped, a rebroadcast of an earlier round included.
FollowDrop(n) ==
    /\ pc[n] = "follow"
    /\ \E m \in Received(n) :
          /\ ~IsCommon(n, m) /\ ~IsFollowed(n, m)
          /\ Exchange(n, m, {})
    /\ UNCHANGED <<serverVars, nodeVars>>

FollowExpired(n) == pc[n] = "follow" /\ Expires("follow") /\ Fail(n)

(* _wait_for_baton_or_fallback.  The loop would drop any other message; none is *)
(* sent to a node in it, since ACKs and signatures go to leaders.              *)

AwaitBatonReply(n) ==
    /\ pc[n] = "await_baton"
    /\ \E m \in Received(n) :
          \/ /\ IsGroupReady(m)
             /\ LearnGroup(n, m)
             /\ Exchange(n, m, CommonAck(n, m))
             /\ UNCHANGED signed
          \/ /\ m.kind = "Nonce"
             /\ Sign(n, m)
             /\ Exchange(n, m, Signature(n, m))
             /\ UNCHANGED groupId
    /\ UNCHANGED <<serverVars, pc, round, missing, sigs, challenge, baton, result>>

BatonReceived(n) ==
    /\ pc[n] = "await_baton"
    /\ \E m \in Received(n) :
          /\ IsBatonFor(n, m)
          /\ Exchange(n, m, {BatonAck(n, m.src)})
    /\ Goto(n, "await_challenge")
    /\ RequestServer({ChallengeRequest(n, groupId[n])})
    /\ UNCHANGED <<round, groupId, signed, missing, sigs, challenge, baton, result>>

BatonMissing(n) ==
    /\ pc[n] = "await_baton"
    /\ Expires("await_baton")
    /\ Goto(n, "fallback")
    /\ RequestServer({ChallengeRequest(n, groupId[n])})
    /\ UNCHANGED <<netVars, round, groupId, signed, missing, sigs, challenge, baton, result>>

-----------------------------------------------------------------------------
(* _request_challenge_until: first as the fallback, then to lead.          *)

Polling(n) == pc[n] \in {"fallback", "await_challenge"}

ChallengeRetry(n) ==
    /\ Polling(n)
    /\ Resend(n, {ChallengeRequest(n, groupId[n])}, {})

\* A challenge of another round is skipped and the request sent again.
ChallengeOfOtherRound(n) ==
    /\ Polling(n)
    /\ \E m \in RepliesTo(n, "ChallengeResponse") :
          /\ m.round # LocalRound[n]
          /\ TakeReply(m, {ChallengeRequest(n, groupId[n])})
    /\ UNCHANGED <<netVars, nodeVars>>

\* The fallback returns, and _lead_round asks for the same challenge again.
FallbackChallenge(n) ==
    /\ pc[n] = "fallback"
    /\ \E m \in RepliesTo(n, "ChallengeResponse") :
          /\ m.round = LocalRound[n]
          /\ TakeReply(m, {ChallengeRequest(n, groupId[n])})
    /\ Goto(n, "await_challenge")
    /\ UNCHANGED <<netVars, round, groupId, signed, missing, sigs, challenge, baton, result>>

\* The round of the challenge is not compared with the expected one.
BrokenLeadRound(n) ==
    /\ pc[n] = "await_challenge"
    /\ \E m \in RepliesTo(n, "ChallengeResponse") :
          /\ TakeReply(m, {})
          /\ challenge' = [challenge EXCEPT ![n] = m.nonce]
          /\ sigs' = [sigs EXCEPT ![n] = [NoSignatures EXCEPT ![n] = m.nonce]]
          /\ Send({Nonce(n, d, m.nonce) : d \in Node \ {n}})
    /\ missing' = [missing EXCEPT ![n] = Node \ {n}]
    /\ Goto(n, "collect")
    /\ UNCHANGED <<round, groupId, signed, baton, result>>

\* _lead_round: sign the nonce and broadcast it.
LeadRound(n) ==
    /\ pc[n] = "await_challenge"
    /\ \E m \in RepliesTo(n, "ChallengeResponse") :
          /\ m.round = LocalRound[n]
          /\ TakeReply(m, {})
          /\ challenge' = [challenge EXCEPT ![n] = m.nonce]
          /\ sigs' = [sigs EXCEPT ![n] = [NoSignatures EXCEPT ![n] = m.nonce]]
          /\ Send({Nonce(n, d, m.nonce) : d \in Node \ {n}})
    /\ missing' = [missing EXCEPT ![n] = Node \ {n}]
    /\ Goto(n, "collect")
    /\ UNCHANGED <<round, groupId, signed, baton, result>>

ChallengeExpired(n) == Polling(n) /\ Expires("challenge") /\ Fail(n)

-----------------------------------------------------------------------------
(* _lead_round, the collection loop.  Each iteration ends by sending the   *)
(* nonce again to every member still missing.                              *)

Rebroadcast(n, ds) == {Nonce(n, d, challenge[n]) : d \in ds}

IsSignature(n, m) ==
    /\ m.kind = "SignatureReply"
    /\ m.src \in missing[n]
    /\ m.round = LocalRound[n]
    /\ m.val = challenge[n]     \* verify_signature

CollectRetry(n) ==
    /\ pc[n] = "collect"
    /\ Resend(n, {}, Rebroadcast(n, missing[n]))

CollectReply(n) ==
    /\ pc[n] = "collect"
    /\ \E m \in Received(n) :
          \/ /\ IsCommon(n, m)
             /\ LearnGroup(n, m)
             /\ Exchange(n, m, CommonAck(n, m) \cup Rebroadcast(n, missing[n]))
             /\ UNCHANGED signed
          \/ /\ m.kind = "Nonce"
             /\ Sign(n, m)
             /\ Exchange(n, m, Signature(n, m) \cup Rebroadcast(n, missing[n]))
             /\ UNCHANGED groupId
    /\ UNCHANGED <<serverVars, pc, round, missing, sigs, challenge, baton, result>>

CollectDrop(n) ==
    /\ pc[n] = "collect"
    /\ \E m \in Received(n) :
          /\ ~IsCommon(n, m) /\ m.kind # "Nonce" /\ ~IsSignature(n, m)
          /\ Exchange(n, m, Rebroadcast(n, missing[n]))
    /\ UNCHANGED <<serverVars, nodeVars>>

CollectSignature(n) ==
    /\ pc[n] = "collect"
    /\ \E m \in Received(n) :
          /\ IsSignature(n, m)
          /\ missing[n] # {m.src}
          /\ missing' = [missing EXCEPT ![n] = @ \ {m.src}]
          /\ sigs' = [sigs EXCEPT ![n][m.src] = m.val]
          /\ Exchange(n, m, Rebroadcast(n, missing[n] \ {m.src}))
    /\ UNCHANGED <<serverVars, pc, round, groupId, signed, challenge, baton, result>>

\* Two signatures of three are taken for enough.
BrokenSubmitBundle(n) ==
    /\ pc[n] = "collect"
    /\ \E m \in Received(n) :
          /\ IsSignature(n, m)
          /\ sigs' = [sigs EXCEPT ![n][m.src] = m.val]
          /\ RequestServer({SignatureBundle(n, groupId[n], LocalRound[n], sigs'[n])})
          /\ Exchange(n, m, {})
    /\ baton' = [baton EXCEPT ![n] = "done"]
    /\ missing' = [missing EXCEPT ![n] = {}]
    /\ Goto(n, "await_result")
    /\ UNCHANGED <<round, groupId, signed, challenge, result>>

\* The last signature: the bundle goes to the server, once, and a round before
\* the last starts the _send_baton task.
SubmitBundle(n) ==
    /\ pc[n] = "collect"
    /\ \E m \in Received(n) :
          /\ IsSignature(n, m)
          /\ missing[n] = {m.src}
          /\ sigs' = [sigs EXCEPT ![n][m.src] = m.val]
          /\ RequestServer({SignatureBundle(n, groupId[n], LocalRound[n], sigs'[n])})
          /\ IF LocalRound[n] < 3
             THEN /\ baton' = [baton EXCEPT ![n] = "sending"]
                  /\ Exchange(n, m, {BatonPass(n)})
             ELSE /\ baton' = [baton EXCEPT ![n] = "done"]
                  /\ Exchange(n, m, {})
    /\ missing' = [missing EXCEPT ![n] = {}]
    /\ Goto(n, "await_result")
    /\ UNCHANGED <<round, groupId, signed, challenge, result>>

-----------------------------------------------------------------------------
(* The _send_baton task, concurrent with the wait for the round result.    *)

BatonAcked(n) ==
    /\ baton[n] = "sending"
    /\ ~Spinning(n)
    /\ \E m \in Received(n) : Awaited(n, m) /\ Exchange(n, m, {})
    /\ baton' = [baton EXCEPT ![n] = "done"]
    /\ UNCHANGED <<serverVars, pc, round, groupId, signed, missing, sigs, challenge, result>>

BatonRetry(n) ==
    /\ baton[n] = "sending"
    /\ Resend(n, {}, {BatonPass(n)})

\* The baton task retries for ever.
BrokenBatonExpired(n) == baton[n] = "sending" /\ FALSE /\ UNCHANGED vars

BatonExpired(n) ==
    /\ baton[n] = "sending"
    /\ Expires("send_baton")
    /\ baton' = [baton EXCEPT ![n] = "done"]
    /\ UNCHANGED <<serverVars, netVars, pc, round, groupId, signed, missing, sigs,
                   challenge, result>>

\* The verdict's flag is not looked at.
BrokenResultFlag(n) ==
    /\ pc[n] = "await_result"
    /\ ~Spinning(n)
    /\ \E m \in RepliesTo(n, "RoundResult") : TakeReply(m, {})
    /\ result' = [result EXCEPT ![n] = "accepted"]
    /\ Goto(n, "finishing")
    /\ UNCHANGED <<netVars, round, groupId, signed, missing, sigs, challenge, baton>>

\* Any RoundResult in the queue is taken for the verdict on the bundle.
RoundResultTaken(n) ==
    /\ pc[n] = "await_result"
    /\ ~Spinning(n)
    /\ \E m \in RepliesTo(n, "RoundResult") :
          /\ TakeReply(m, {})
          /\ result' = [result EXCEPT ![n] = IF m.success THEN "accepted" ELSE "rejected"]
    /\ Goto(n, "finishing")
    /\ UNCHANGED <<netVars, round, groupId, signed, missing, sigs, challenge, baton>>

\* The verdict is awaited without a deadline.
BrokenRoundResultExpired(n) == pc[n] = "await_result" /\ FALSE /\ UNCHANGED vars

RoundResultExpired(n) ==
    /\ pc[n] = "await_result"
    /\ ~Spinning(n)
    /\ Expires("result")
    /\ result' = [result EXCEPT ![n] = "unknown"]
    /\ Goto(n, "finishing")
    /\ UNCHANGED <<serverVars, netVars, round, groupId, signed, missing, sigs,
                   challenge, baton>>

\* run() returns when the baton task has ended; run_relay_race stops the UDP
\* node and IPv8, so the node answers nobody any more.
Finish(n) ==
    /\ pc[n] = "finishing"
    /\ baton[n] = "done"
    /\ Goto(n, "done")
    /\ UNCHANGED <<serverVars, netVars, round, groupId, signed, missing, sigs,
                   challenge, baton, result>>

-----------------------------------------------------------------------------
Init ==
    /\ ServerInit
    /\ pc = [n \in Node |-> IF n = "A" THEN "start" ELSE "await_group_ready"]
    /\ round = [n \in Node |-> 1]
    /\ groupId = [n \in Node |-> None]
    /\ signed = [n \in Node |-> [r \in Round |-> None]]
    /\ missing = [n \in Node |-> {}]
    /\ sigs = [n \in Node |-> NoSignatures]
    /\ challenge = [n \in Node |-> None]
    /\ baton = [n \in Node |-> "idle"]
    /\ result = [n \in Node |-> "none"]
    /\ datagrams = {}
    /\ backlog = [n \in Node |-> <<>>]
    /\ losses = 0
    /\ early = 0

Register == StartRegistration \/ RegistrationResult
Barrier(n) == (n = "A" /\ GroupReadyAcked) \/ GroupReadyReceived(n)
Follow(n) == FollowCommon(n) \/ FollowNonce(n) \/ FollowDrop(n)
AwaitBaton(n) == AwaitBatonReply(n) \/ BatonReceived(n)
Challenged(n) == ChallengeOfOtherRound(n) \/ FallbackChallenge(n) \/ LeadRound(n)
Collect(n) == CollectReply(n) \/ CollectDrop(n) \/ CollectSignature(n) \/ SubmitBundle(n)

\* What a node does with a datagram, with a server reply, on its own.
OnDatagram(n) ==
    WaitForDefers(n) \/ Barrier(n) \/ Follow(n) \/ AwaitBaton(n) \/ Collect(n) \/ BatonAcked(n)
OnReply(n) == (n = "A" /\ Register) \/ Challenged(n) \/ RoundResultTaken(n)
Retry(n) ==
    \/ n = "A" /\ (RegistrationRetry \/ GroupReadyRetry)
    \/ ChallengeRetry(n) \/ CollectRetry(n) \/ BatonRetry(n)
Expire(n) ==
    \/ n = "A" /\ (RegistrationExpired \/ GroupReadyExpired)
    \/ GroupReadyMissed(n) \/ FollowExpired(n) \/ BatonMissing(n)
    \/ ChallengeExpired(n) \/ BatonExpired(n) \/ RoundResultExpired(n)
NodeStep(n) == OnDatagram(n) \/ OnReply(n) \/ Retry(n) \/ Expire(n) \/ Finish(n)

\* The server's window closes, the network loses a datagram.
ServerStep ==
    /\ (\E n \in Node : Serve(n)) \/ (Expires("budget") /\ BudgetCloses)
    /\ UNCHANGED <<nodeVars, netVars>>
Lose ==
    /\ losses < MaxLosses
    /\ \E m \in datagrams : m.kind \in Lossable /\ datagrams' = datagrams \ {m}
    /\ losses' = losses + 1
    /\ UNCHANGED <<serverVars, nodeVars, backlog, early>>

\* When all three processes have ended, nothing happens any more.
Terminated == (\A n \in Node : Stopped(n)) /\ UNCHANGED vars

Next == (\E n \in Node : NodeStep(n)) \/ ServerStep \/ Lose \/ Terminated
Spec == Init /\ [][Next]_vars

(* Fairness.  A process keeps running its own steps and its retries; in a   *)
(* reliable network what was sent is also delivered; a deadline of the whole *)
(* wait is eventually reached, while the 10 s of _follow_round start again   *)
(* with every message and are not.                                          *)
ProcessesRun == \A n \in Node :
    WF_vars(Retry(n)) /\ WF_vars(Finish(n)) /\ WF_vars(n = "A" /\ StartRegistration)
NetworkDelivers ==
    \A n \in Node : /\ WF_vars(OnDatagram(n)) /\ WF_vars(OnReply(n))
                    /\ WF_vars(Serve(n) /\ UNCHANGED <<nodeVars, netVars>>)
DeadlinesPass == \A n \in Node : WF_vars(Expire(n) /\ pc[n] # "follow")

ReliableSpec == Spec /\ ProcessesRun /\ NetworkDelivers /\ DeadlinesPass
LossySpec == Spec /\ ProcessesRun /\ DeadlinesPass
-----------------------------------------------------------------------------
(* What the code guarantees.                                               *)

\* Every variable holds values of its kind.
NodeTypeOK ==
    /\ pc \in [Node -> Location]
    /\ round \in [Node -> Round]
    /\ groupId \in [Node -> MaybeGroup]
    /\ signed \in [Node -> [Round -> MaybeNonce]]
    /\ missing \in [Node -> SUBSET Node]
    /\ sigs \in [Node -> Signatures]
    /\ challenge \in [Node -> MaybeNonce]
    /\ baton \in [Node -> {"idle", "sending", "done"}]
    /\ result \in [Node -> {"none", "accepted", "rejected", "unknown"}]
NetTypeOK ==
    /\ datagrams \subseteq Datagram
    /\ backlog \in [Node -> Seq(Datagram)]
    /\ losses \in Nat
    /\ early \in Nat
TypeOK == ServerTypeOK /\ NodeTypeOK /\ NetTypeOK

\* The nonce is broadcast by one leader at a time: no leader collects before the
\* server has accepted the round before its own (baton, fallback and the round
\* check of _request_challenge_until together).
OneLeaderAtATime ==
    \A n \in Node : pc[n] = "collect" => completed >= LocalRound[n] - 1

\* The 10-second budget starts (round-1 challenge issued) only after both
\* teammates have received GroupReady with the registered group.
BudgetStartsAfterBarrier ==
    issued[1] # None => \A n \in Node : groupId[n] = group

\* A member's cache of signed rounds only ever holds nonces the server issued
\* for that very round: nobody is made to sign the nonce of another round.
SignedIsIssued ==
    \A n \in Node, r \in Round : signed[n][r] # None => signed[n][r] = issued[r]

\* A submitted bundle carries, in member order, the three signatures over the
\* nonce the server issued for its round, whatever was late, lost or replayed.
BundleIsComplete ==
    \A m \in requests : m.kind = "SignatureBundle" =>
        \A n \in Node : m.sigs[n] = issued[m.round] /\ issued[m.round] # None

\* A node that reports its round as accepted is the recorded submitter of it.
AcceptedIsRecorded ==
    \A n \in Node : result[n] = "accepted" => submitters[LocalRound[n]] = n

\* Without duplicated requests, a bundle is refused only when the budget closed:
\* the client never causes a "wrong round" or "invalid signature" itself.
RejectedOnlyAfterBudget ==
    \A n \in Node : result[n] = "rejected" => budget = "closed"

\* The relay never gets past the first round: a leader stops its UDP node when
\* its own round is over (race.py run, run_relay_race), and a later round needs
\* the signature of every member.
OnlyRoundOneCompletes == completed <= 1

\* A member never signs two nonces for one round: whatever a leader repeats or the
\* server issues again, the cache keeps what it holds (_reply_to_nonce_broadcast,
\* which signs anew and overwrites when the nonce differs).
SignedOnce ==
    [][\A n \in Node, r \in Round : signed[n][r] # None => signed'[n][r] = signed[n][r]]_vars

\* A leads round 1 and misses the signature of a member that has stopped, or of C
\* that has gone on to follow round 2, and no such signature is on its way.
Deaf(k) == Stopped(k) \/ (k = "C" /\ pc[k] = "follow" /\ round[k] # 1)
SignatureOf(k, m) == m.kind = "SignatureReply" /\ m.src = k
Unsigned(k) ==
    /\ k \in missing["A"] /\ Deaf(k)
    /\ \A m \in datagrams : ~SignatureOf(k, m)
    /\ \A i \in 1..Len(backlog["A"]) : ~SignatureOf(k, backlog["A"][i])
SignatureLost == pc["A"] = "collect" /\ \E k \in Node \ {"A"} : Unsigned(k)

\* One lost signature is one too many: nothing A rebroadcasts and nothing the others
\* do ever brings it, and A collects for good (race.py:298 has no deadline).
LostForGood == [][SignatureLost => SignatureLost']_vars

\* A waits for the acknowledgements and has set a message aside.
Starved == pc["A"] = "await_ack" /\ backlog["A"] # <<>>

\* wait_for() then never reads the socket again: the barrier can only be given up
\* (udp_runtime.py wait_for pops its own backlog), whatever arrives.
BarrierStaysShut == [][Starved => Starved' \/ pc'["A"] = "error"]_vars

(* The strengthening that makes OneLeaderAtATime and OnlyRoundOneCompletes   *)
(* inductive.  Round 2 cannot be led to its end: its nonces are only sent    *)
(* once round 1 is recorded, by then A has left its loop, so no signature of *)
(* A for round 2 is ever on its way to B.                                    *)

\* No nonce of a round is on its way before the server has begun that round, and
\* node A has signed nothing but its own round.
Timely(m) ==
    /\ m.kind = "Nonce" => m.round = LocalRound[m.src] /\ completed >= m.round - 1
    /\ m.kind = "SignatureReply" /\ m.src = "A" => m.round = 1

ServerOrder ==
    /\ \A m \in requests : m.kind = "SignatureBundle" => m.round = LocalRound[m.src] /\ Led(m.src)
    /\ \A m \in replies : m.kind = "ChallengeResponse" => completed >= m.round - 1
NetOrder ==
    /\ \A m \in datagrams : Timely(m)
    /\ \A n \in Node : \A i \in 1..Len(backlog[n]) : Timely(backlog[n][i])
LeadOrder ==
    /\ completed = 1 => Led("A")
    /\ ~Led("B")
    /\ pc["B"] = "collect" => "A" \in missing["B"]

\* Everything on its way, from a request to a datagram set aside, belongs to a
\* round the server has begun, and B never has the signature of A it waits for.
RelayOrder == ServerOrder /\ NetOrder /\ LeadOrder /\ OneLeaderAtATime /\ OnlyRoundOneCompletes

\* The relay implements RelayTurn: whatever is delayed, lost, duplicated or given
\* up, nobody collects, signs, submits or is recorded out of turn.
Leading(n) ==
    CASE pc[n] = "collect" -> "collecting" [] Led(n) -> "submitted" [] OTHER -> "idle"
Turn(r) == IF r > 3 THEN "idle" ELSE Leading(SubmitterForRound(r))
Signers(r) ==
    IF Turn(r) = "idle" THEN {}
    ELSE {n \in Node : signed[n][r] # None} \cup {SubmitterForRound(r)}
Relay == INSTANCE RelayTurn WITH Member <- Node, Submitter <- Members,
    turn <- completed + 1, stage <- Turn(completed + 1), signers <- Signers(completed + 1)
TakesTurns == Relay!TurnSpec

\* In a network that delivers, and with none of the deadlines before the verdict
\* passing, the first round is raced to its recorded end - or an early GroupReady
\* retry has starved the barrier, the one thing that can keep it from that.
RoundOneCompletes == <>(completed >= 1 \/ Starved)

\* ... and, but for the starved barrier, node A's run() returns: the verdict arrives
\* and the baton task ends, at the latest with baton_timeout.
LeaderReturns == <>(pc["A"] = "done" \/ Starved)

\* Whatever the network loses, every wait of run() ends except two: the signature
\* collection, which has no deadline, and following, whose deadline is re-armed.
WaitsAreBounded ==
    \A n \in Node : []<>(Stopped(n) \/ pc[n] \in {"collect", "follow"})

\* docs/Lab2.md:7 and README.md:121-123: rounds 1 to 3 are each signed by all
\* three members and submitted by node A, B and C in turn.
AllRoundsComplete == <>(completed = 3)

\* README.md:118: node A sends GroupReady, B and C wait for it, and the race
\* begins; race.py:268 gives up only when ACKs do not arrive.
BarrierOpens == <>(pc["A"] \notin {"start", "await_registration", "await_ack"})
\* docs/Lab2.md:7, "All 3 members sign it": when B's signature of round 1 is in,
\* C's follows, if need be by way of the rebroadcasts.
LastSignatureArrives ==
    (pc["A"] = "collect" /\ missing["A"] = {"C"}) ~> pc["A"] # "collect"
=============================================================================
