----------------------------- MODULE LabServer -----------------------------
(***************************************************************************)
(* The Lab 2 course server and its IPv8 messages, as the client in         *)
(* lab2_relay_race uses them.  The server is not part of this repository:  *)
(* it is the environment of the relay race, modelled from the payloads the *)
(* client exchanges with it (community.py) and from the responses the      *)
(* client is written against (docs/Lab2.md, "Server").                     *)
(*                                                                         *)
(* Requests and replies in flight are sets: a message may be delayed for   *)
(* ever (that is how a lost datagram appears), messages overtake one       *)
(* another, and at most one copy of identical content is in flight.        *)
(***************************************************************************)
EXTENDS Naturals

CONSTANTS
    GroupIds,            \* the group identifiers the server may hand out
    Nonces,              \* the 32-byte nonces, as opaque values
    None,                \* no group, no nonce, no submitter
    MaxDuplicates,       \* bound on the requests the network delivers twice
    RegistrationMayFail  \* may the server refuse the three keys?

ASSUME NoneAssumption == None \notin GroupIds \cup Nonces \cup {"A", "B", "C"}
ASSUME ServerAssumption == MaxDuplicates \in Nat /\ RegistrationMayFail \in BOOLEAN

VARIABLES
    requests,    \* client -> server messages in flight
    replies,     \* server -> client messages in flight
    group,       \* the registered group, or None
    issued,      \* issued[r]: the nonce of round r, or None
    submitters,  \* submitters[r]: who submitted the accepted round r, or None
    completed,   \* number of accepted rounds
    budget,      \* the wall-clock budget: "unstarted", "open" or "closed"
    duplicates   \* requests delivered twice so far

serverVars == <<requests, replies, group, issued, submitters, completed, budget, duplicates>>

Node == {"A", "B", "C"}
Round == 1..3
MaybeGroup == GroupIds \cup {None}
MaybeNonce == Nonces \cup {None}

\* A signature is Ed25519 and deterministic: a member's signature over a nonce
\* is represented by the nonce it signs.
Signatures == [Node -> MaybeNonce]
NoSignatures == [n \in Node |-> None]

Request == [kind: {"GroupRegister", "ChallengeRequest", "SignatureBundle"},
            src: Node, group: MaybeGroup, round: 0..3, sigs: Signatures]
Reply == [kind: {"GroupRegisterResponse", "ChallengeResponse", "RoundResult"},
          dst: Node, success: BOOLEAN, group: MaybeGroup, round: 0..3, nonce: MaybeNonce]

GroupRegister(n) ==
    [kind |-> "GroupRegister", src |-> n, group |-> None, round |-> 0, sigs |-> NoSignatures]
ChallengeRequest(n, g) ==
    [kind |-> "ChallengeRequest", src |-> n, group |-> g, round |-> 0, sigs |-> NoSignatures]
SignatureBundle(n, g, r, s) ==
    [kind |-> "SignatureBundle", src |-> n, group |-> g, round |-> r, sigs |-> s]

GroupRegisterResponse(n, ok, g) ==
    [kind |-> "GroupRegisterResponse", dst |-> n, success |-> ok, group |-> g,
     round |-> 0, nonce |-> None]
ChallengeResponse(n, r, v) ==
    [kind |-> "ChallengeResponse", dst |-> n, success |-> TRUE, group |-> None,
     round |-> r, nonce |-> v]
RoundResult(n, ok, r) ==
    [kind |-> "RoundResult", dst |-> n, success |-> ok, group |-> None,
     round |-> r, nonce |-> None]

ServerTypeOK ==
    /\ requests \subseteq Request
    /\ replies \subseteq Reply
    /\ group \in MaybeGroup
    /\ issued \in [Round -> MaybeNonce]
    /\ submitters \in [Round -> Node \cup {None}]
    /\ completed \in 0..3
    /\ budget \in {"unstarted", "open", "closed"}
    /\ duplicates \in Nat

ServerInit ==
    /\ requests = {}
    /\ replies = {}
    /\ group = None
    /\ issued = [r \in Round |-> None]
    /\ submitters = [r \in Round |-> None]
    /\ completed = 0
    /\ budget = "unstarted"
    /\ duplicates = 0

\* The network hands request m to the server; a duplicated one stays in flight.
Arrive(m) ==
    /\ m \in requests
    /\ \/ requests' = requests \ {m} /\ UNCHANGED duplicates
       \/ /\ duplicates < MaxDuplicates
          /\ duplicates' = duplicates + 1
          /\ UNCHANGED requests

\* A registration creates the group, or finds the one with these three keys.
ServeRegister(m) ==
    /\ m.kind = "GroupRegister"
    /\ Arrive(m)
    /\ \/ /\ group' \in IF group = None THEN GroupIds ELSE {group}
          /\ replies' = replies \cup {GroupRegisterResponse(m.src, TRUE, group')}
       \/ /\ RegistrationMayFail
          /\ replies' = replies \cup {GroupRegisterResponse(m.src, FALSE, None)}
          /\ UNCHANGED group
    /\ UNCHANGED <<issued, submitters, completed, budget>>

\* A challenge request returns the nonce of the current round, drawing it the
\* first time; the round-1 response starts the budget.  A request that cannot be
\* fulfilled is answered by a negative RoundResult.
ServeChallenge(m) ==
    /\ m.kind = "ChallengeRequest"
    /\ Arrive(m)
    /\ IF m.group # group \/ completed = 3 \/ budget = "closed"
       THEN /\ replies' = replies \cup {RoundResult(m.src, FALSE, completed)}
            /\ UNCHANGED <<issued, budget>>
       ELSE /\ issued' \in IF issued[completed + 1] # None THEN {issued}
                           ELSE {[issued EXCEPT ![completed + 1] = v] :
                                   v \in {w \in Nonces : \A r \in Round : issued[r] # w}}
            /\ budget' = "open"
            /\ replies' = replies \cup
                   {ChallengeResponse(m.src, completed + 1, issued'[completed + 1])}
    /\ UNCHANGED <<group, submitters, completed>>

\* The checks of docs/Lab2.md on a bundle: the group and the round are current,
\* the challenge is live, the submitter is new and all three signatures verify.
Acceptable(m) ==
    /\ m.group = group
    /\ budget = "open"
    /\ m.round = completed + 1
    /\ issued[m.round] # None
    /\ \A r \in Round : submitters[r] # m.src
    /\ \A n \in Node : m.sigs[n] = issued[m.round]

ServeBundle(m) ==
    /\ m.kind = "SignatureBundle"
    /\ Arrive(m)
    /\ replies' = replies \cup {RoundResult(m.src, Acceptable(m), m.round)}
    /\ IF Acceptable(m)
       THEN /\ completed' = m.round
            /\ submitters' = [submitters EXCEPT ![m.round] = m.src]
       ELSE UNCHANGED <<completed, submitters>>
    /\ UNCHANGED <<group, issued, budget>>

\* Ten seconds after the round-1 response the window closes.
BudgetCloses ==
    /\ budget = "open"
    /\ budget' = "closed"
    /\ UNCHANGED <<requests, replies, group, issued, submitters, completed, duplicates>>

\* The server answers member n.
Serve(n) ==
    \E m \in requests :
        m.src = n /\ (ServeRegister(m) \/ ServeChallenge(m) \/ ServeBundle(m))
=============================================================================
