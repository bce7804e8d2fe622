----------------------- MODULE RelayGuarantees_proofs -----------------------
(***************************************************************************)
(* What is signed, bundled and reported in the relay race is what the      *)
(* server issued and decided, and the race takes turns as RelayTurn says,  *)
(* for every set of groups and nonces, every set of deadlines and every    *)
(* bound.                                                                  *)
(***************************************************************************)
EXTENDS RelayRace_proofs

-----------------------------------------------------------------------------
(* The invariant: every message is worth what it says.                     *)

Issued(r, v) == v # None /\ issued[r] = v

\* Everybody has been told the group, so the barrier may open.
Open == group # None /\ \A n \in Node : groupId[n] = group

\* A nonce is one the server issued for the round it names, an acknowledgement
\* comes from a member that knows the group.
Genuine(m) ==
    /\ m.kind \in {"Nonce", "SignatureReply"} => Issued(m.round, m.val)
    /\ m.kind = "GroupReady" => group # None /\ m.val = group
    /\ m.kind = "GroupReadyAck" => group # None /\ groupId[m.src] = group
NetGenuine ==
    /\ \A m \in datagrams : Genuine(m)
    /\ \A n \in Node : \A i \in 1..Len(backlog[n]) : Genuine(backlog[n][i])

GenuineReply(m) ==
    /\ m.kind = "GroupRegisterResponse" /\ m.success => group # None /\ m.group = group
    /\ m.kind = "ChallengeResponse" => m.round \in Round /\ Issued(m.round, m.nonce)
    /\ m.kind = "RoundResult" /\ m.success =>
          m.round = LocalRound[m.dst] /\ submitters[m.round] = m.dst
GenuineRequest(m) ==
    /\ m.kind = "ChallengeRequest" => Open /\ m.group = group
    /\ m.kind = "SignatureBundle" =>
          Open /\ m.group = group /\ \A n \in Node : Issued(m.round, m.sigs[n])
ServerGenuine ==
    /\ \A m \in replies : GenuineReply(m)
    /\ \A m \in requests : GenuineRequest(m)
    /\ \A r \in Round : issued[r] # None => Open

\* The leader's challenge is that of its round, and so is all it has collected.
Collected(n) ==
    /\ Issued(LocalRound[n], challenge[n])
    /\ \A k \in Node \ missing[n] : sigs[n][k] = challenge[n]
NodeGenuine(n) ==
    /\ groupId[n] \in {None, group}
    /\ \A r \in Round : signed[n][r] # None => signed[n][r] = issued[r]
    /\ pc[n] \in {"await_baton", "fallback", "await_challenge", "collect"} => Open
    /\ pc[n] = "collect" => Collected(n)
    /\ baton[n] # "idle" => Led(n)
    /\ result[n] = "accepted" => submitters[LocalRound[n]] = n
BarrierGenuine ==
    pc["A"] = "await_ack" =>
        /\ group # None /\ groupId["A"] = group
        /\ \A n \in Node \ missing["A"] : groupId[n] = group

AllGenuine == NetGenuine /\ ServerGenuine /\ BarrierGenuine /\ \A n \in Node : NodeGenuine(n)
GenuineInv == OrderInv /\ AllGenuine

LEMMA InitGenuine == Init => AllGenuine
  BY DEF Init, ServerInit, AllGenuine, NetGenuine, ServerGenuine, BarrierGenuine, NodeGenuine, Node

-----------------------------------------------------------------------------
(* What is once settled stays: the group, a member's knowledge of it, the  *)
(* nonce of a round and its submitter.                                     *)

Settled ==
    /\ group # None => group' = group
    /\ \A n \in Node : group # None /\ groupId[n] = group => groupId'[n] = group
    /\ \A r \in Round : issued[r] # None => issued'[r] = issued[r]
    /\ \A r \in Round : submitters[r] # None /\ LocalRound[submitters[r]] = r
                            => submitters'[r] = submitters[r]

LEMMA DatagramFacts ==
    ASSUME NEW m \in Datagram
    PROVE  /\ m.src \in Node
           /\ m.kind \in {"Nonce", "SignatureReply"} => m.round \in Round /\ m.val \in MaybeNonce
  BY DEF Datagram, GroupDatagram, NonceDatagram, AckDatagram

LEMMA OpenStays ==
    ASSUME Settled, Open
    PROVE  Open'
  BY DEF Settled, Open

LEMMA IssuedStays ==
    ASSUME Settled, NEW r \in Round, NEW v, Issued(r, v)
    PROVE  Issued(r, v)'
  BY DEF Settled, Issued

LEMMA GenuineStays ==
    ASSUME Settled, NEW m \in Datagram, Genuine(m)
    PROVE  Genuine(m)'
  <1>1. m.kind \in {"Nonce", "SignatureReply"} => Issued(m.round, m.val)'
    BY DatagramFacts, IssuedStays DEF Genuine
  <1>2. m.kind = "GroupReady" => group' # None /\ m.val = group'
    BY DEF Settled, Genuine
  <1>3. m.kind = "GroupReadyAck" => group' # None /\ groupId'[m.src] = group'
    BY DatagramFacts DEF Settled, Genuine
  <1> QED
    BY <1>1, <1>2, <1>3 DEF Genuine

LEMMA ReceivedGenuine ==
    ASSUME GenuineInv, NEW n \in Node, NEW m \in Received(n)
    PROVE  m \in Datagram /\ Genuine(m)
  <1>1. m \in Datagram
    BY ReceivedType DEF GenuineInv, OrderInv, TypeInv
  <1>2. CASE backlog[n] = <<>>
    BY <1>1, <1>2 DEF Received, GenuineInv, AllGenuine, NetGenuine
  <1>3. CASE backlog[n] # <<>>
    <2>1. backlog[n] \in Seq(Datagram)
      BY DEF GenuineInv, OrderInv, TypeInv, TypeOK, NetTypeOK
    <2>2. m = backlog[n][1] /\ 1 \in 1..Len(backlog[n])
      BY <1>3, <2>1 DEF Received
    <2> QED
      BY <1>1, <2>2 DEF GenuineInv, AllGenuine, NetGenuine
  <1> QED
    BY <1>2, <1>3

\* The network after a step: what was there, and the messages `out`.
Moves(out) ==
    /\ datagrams' \subseteq datagrams \cup out
    /\ \A k \in Node : \A i \in 1..Len(backlog'[k]) :
           \/ \E j \in 1..Len(backlog[k]) : backlog'[k][i] = backlog[k][j]
           \/ backlog'[k][i] \in datagrams

LEMMA ExchangeMoves ==
    ASSUME TypeInv, NEW n \in Node, NEW m, NEW out, Exchange(n, m, out)
    PROVE  Moves(out)
  <1>1. datagrams' \subseteq datagrams \cup out
    BY DEF Exchange
  <1>2. backlog \in [Node -> Seq(Datagram)]
    BY DEF TypeInv, TypeOK, NetTypeOK
  <1>3. ASSUME NEW k \in Node, NEW i \in 1..Len(backlog'[k])
        PROVE  \E j \in 1..Len(backlog[k]) : backlog'[k][i] = backlog[k][j]
    <2>1. CASE backlog'[k] = backlog[k]
      BY <1>3, <2>1
    <2>2. CASE backlog'[k] # backlog[k]
      <3>1. k = n /\ backlog[k] # <<>> /\ backlog'[k] = Tail(backlog[k])
        BY <1>2, <2>2 DEF Exchange
      <3>2. i + 1 \in 1..Len(backlog[k]) /\ backlog'[k][i] = backlog[k][i + 1]
        BY <1>2, <1>3, <3>1
      <3> QED
        BY <3>2
    <2> QED
      BY <2>1, <2>2
  <1> QED
    BY <1>1, <1>3 DEF Moves

LEMMA SendMoves ==
    ASSUME NEW out, datagrams' \subseteq datagrams \cup out, UNCHANGED backlog
    PROVE  Moves(out)
  BY DEF Moves

LEMMA WaitForMoves ==
    ASSUME TypeInv, NEW n \in Node, WaitForDefers(n), NEW out
    PROVE  Moves(out)
  <1>1. PICK m \in Received(n) :
           /\ datagrams' = datagrams \ {m}
           /\ backlog' = [backlog EXCEPT ![n] = Append(@, m)]
    BY DEF WaitForDefers
  <1>2. backlog[n] = <<>>
    BY DEF WaitForDefers
  <1>3. backlog \in [Node -> Seq(Datagram)] /\ m \in datagrams
    BY <1>2 DEF Received, TypeInv, TypeOK, NetTypeOK
  <1> QED
    BY <1>1, <1>2, <1>3 DEF Moves

LEMMA NetStays ==
    ASSUME GenuineInv, Settled, NEW out, Moves(out), \A d \in out : Genuine(d)'
    PROVE  NetGenuine'
  <1>1. datagrams \subseteq Datagram /\ backlog \in [Node -> Seq(Datagram)]
    BY DEF GenuineInv, OrderInv, TypeInv, TypeOK, NetTypeOK
  <1>2. \A d \in datagrams : Genuine(d)'
    BY <1>1, GenuineStays DEF GenuineInv, AllGenuine, NetGenuine
  <1>3. ASSUME NEW k \in Node, NEW j \in 1..Len(backlog[k]), NEW d, d = backlog[k][j]
        PROVE  Genuine(d)'
    <2>1. d \in Datagram
      BY <1>1, <1>3
    <2>2. Genuine(d)
      BY <1>3 DEF GenuineInv, AllGenuine, NetGenuine
    <2> QED
      BY <2>1, <2>2, GenuineStays
  <1>4. ASSUME NEW d \in datagrams' PROVE Genuine(d)'
    BY <1>2 DEF Moves
  <1>5. ASSUME NEW k \in Node, NEW i \in 1..Len(backlog'[k]), NEW d, d = backlog'[k][i]
        PROVE  Genuine(d)'
    BY <1>2, <1>3, <1>5 DEF Moves
  <1> QED
    BY <1>4, <1>5 DEF NetGenuine

LEMMA ExchangeStays ==
    ASSUME GenuineInv, Settled, NEW n \in Node, NEW m, NEW out, Exchange(n, m, out),
           \A d \in out : Genuine(d)'
    PROVE  NetGenuine'
  BY ExchangeMoves, NetStays DEF GenuineInv, OrderInv

LEMMA SendStays ==
    ASSUME GenuineInv, Settled, NEW out, datagrams' \subseteq datagrams \cup out,
           UNCHANGED backlog, \A d \in out : Genuine(d)'
    PROVE  NetGenuine'
  BY SendMoves, NetStays

\* A node's step leaves the server alone, takes replies and adds requests.
LEMMA ServerStays ==
    ASSUME GenuineInv, Settled, UNCHANGED serverState, replies' \subseteq replies,
           \A m \in requests' : m \in requests \/ GenuineRequest(m)'
    PROVE  ServerGenuine'
  <1>1. UNCHANGED <<group, issued, submitters>>
    BY DEF serverState
  <1>2. \A m \in replies' : GenuineReply(m)'
    BY <1>1 DEF GenuineInv, AllGenuine, ServerGenuine, GenuineReply, Issued
  <1>3. \A m \in requests : GenuineRequest(m)'
    BY <1>1, OpenStays DEF GenuineInv, AllGenuine, ServerGenuine, GenuineRequest, Issued
  <1>4. \A r \in Round : issued'[r] # None => Open'
    BY <1>1, OpenStays DEF GenuineInv, AllGenuine, ServerGenuine
  <1> QED
    BY <1>2, <1>3, <1>4 DEF ServerGenuine

\* A member whose step touches none of its own variables below stays as it is.
LEMMA NodeStays ==
    ASSUME GenuineInv, Settled, NEW n \in Node, groupId'[n] \in {None, group'},
           \A r \in Round : signed'[n][r] = signed[n][r] \/ signed'[n][r] = issued[r],
           result'[n] = result[n],
           pc'[n] \in {"await_baton", "fallback", "await_challenge", "collect"} =>
               Open' \/ pc[n] \in {"await_baton", "fallback", "await_challenge", "collect"},
           pc'[n] = "collect" => pc[n] = "collect" /\ missing'[n] = missing[n]
                                 /\ sigs'[n] = sigs[n] /\ challenge'[n] = challenge[n],
           baton'[n] # "idle" => baton[n] # "idle" \/ Led(n)',
           Led(n) => Led(n)'
    PROVE  NodeGenuine(n)'
  <1>1. NodeGenuine(n) /\ LocalRound[n] \in Round
    BY RoundFacts DEF GenuineInv, AllGenuine
  <1>2. \A r \in Round : signed'[n][r] # None => signed'[n][r] = issued'[r]
    BY <1>1 DEF NodeGenuine, Settled
  <1>3. pc'[n] = "collect" => Collected(n)'
    BY <1>1, IssuedStays DEF NodeGenuine, Collected
  <1>4. result'[n] = "accepted" => submitters'[LocalRound[n]] = n
    BY <1>1, NoneAssumption DEF NodeGenuine, Settled, Node
  <1>5. pc'[n] \in {"await_baton", "fallback", "await_challenge", "collect"} => Open'
    BY <1>1, OpenStays DEF NodeGenuine
  <1>6. baton'[n] # "idle" => Led(n)'
    BY <1>1 DEF NodeGenuine
  <1> QED
    BY <1>2, <1>3, <1>4, <1>5, <1>6 DEF NodeGenuine

-----------------------------------------------------------------------------
(* Steps of the nodes                                                      *)

Untouched(k) ==
    /\ pc'[k] = pc[k] /\ groupId'[k] = groupId[k] /\ signed'[k] = signed[k]
    /\ missing'[k] = missing[k] /\ sigs'[k] = sigs[k] /\ challenge'[k] = challenge[k]
    /\ baton'[k] = baton[k] /\ result'[k] = result[k]

LEMMA OthersStay ==
    ASSUME GenuineInv, Settled, NEW k \in Node, Untouched(k)
    PROVE  NodeGenuine(k)'
  <1>1. NodeGenuine(k)
    BY DEF GenuineInv, AllGenuine
  <1>2. groupId'[k] \in {None, group'}
    BY <1>1 DEF NodeGenuine, Settled, Untouched
  <1>3. Led(k) => Led(k)'
    BY DEF Led, Untouched
  <1> QED
    BY <1>1, <1>2, <1>3, NodeStays DEF Untouched

LEMMA BarrierStays ==
    ASSUME GenuineInv, Settled, pc'["A"] = "await_ack" => pc["A"] = "await_ack",
           pc'["A"] = "await_ack" => missing'["A"] = missing["A"]
    PROVE  BarrierGenuine'
  BY DEF GenuineInv, AllGenuine, BarrierGenuine, Settled, Node

\* What a step of node n has to show.
LEMMA StepGenuine ==
    ASSUME GenuineInv, NEW n \in Node, Settled, UNCHANGED serverState, replies' \subseteq replies,
           \A m \in requests' : m \in requests \/ GenuineRequest(m)',
           NetGenuine', BarrierGenuine', \A k \in Node \ {n} : Untouched(k), NodeGenuine(n)'
    PROVE  AllGenuine'
  <1>1. ServerGenuine'
    BY ServerStays
  <1>2. \A k \in Node : NodeGenuine(k)'
    BY OthersStay
  <1> QED
    BY <1>1, <1>2 DEF AllGenuine

\* A step that leaves what the members know of the group alone.
LEMMA SteadySettled ==
    ASSUME UNCHANGED <<serverState, groupId>>
    PROVE  Settled
  BY DEF Settled, serverState

\* Steps that touch the network and the requests only.
LEMMA NetStepGenuine ==
    ASSUME GenuineInv, UNCHANGED <<serverState, nodeVars>>, replies' \subseteq replies,
           \A m \in requests' : m \in requests \/ GenuineRequest(m)', NetGenuine'
    PROVE  AllGenuine'
  <1>1. Settled
    BY SteadySettled DEF nodeVars
  <1>2. BarrierGenuine'
    BY <1>1, BarrierStays DEF nodeVars
  <1>3. \A k \in Node : Untouched(k)
    BY DEF nodeVars, Untouched
  <1>4. "A" \in Node
    BY DEF Node
  <1>5. NodeGenuine("A")'
    BY <1>1, <1>3, <1>4, OthersStay
  <1> QED
    BY <1>1, <1>2, <1>3, <1>4, <1>5, StepGenuine

\* A step that only changes where node n is, and what it has asked the server.
LEMMA GotoGenuine ==
    ASSUME GenuineInv, NEW n \in Node, NEW l \in Location \ {"await_ack", "collect"}, Goto(n, l),
           UNCHANGED <<serverState, groupId, signed, missing, sigs, challenge, baton, result>>,
           replies' \subseteq replies,
           \A m \in requests' : m \in requests \/ GenuineRequest(m)', NetGenuine',
           l \in {"await_baton", "fallback", "await_challenge"} => Open,
           Led(n) => l \in {"await_result", "finishing", "done"}
    PROVE  AllGenuine'
  <1>1. Settled
    BY SteadySettled
  <1>2. pc' = [pc EXCEPT ![n] = l] /\ pc \in [Node -> Location]
    BY DEF Goto, GenuineInv, OrderInv, TypeInv, TypeOK, NodeTypeOK
  <1>3. BarrierGenuine'
    BY <1>1, <1>2, BarrierStays DEF Node
  <1>4. \A k \in Node \ {n} : Untouched(k)
    BY <1>2 DEF Untouched
  <1>5. NodeGenuine(n)'
    <2>1. NodeGenuine(n) /\ pc'[n] = l
      BY <1>2 DEF GenuineInv, AllGenuine
    <2>2. groupId'[n] \in {None, group'}
      BY <2>1 DEF NodeGenuine, serverState
    <2>3. Led(n) => Led(n)'
      BY <2>1 DEF Led
    <2>4. l \in {"await_baton", "fallback", "await_challenge"} => Open'
      BY <1>1, OpenStays
    <2> QED
      BY <1>1, <2>1, <2>2, <2>3, <2>4, NodeStays
  <1> QED
    BY <1>1, <1>3, <1>4, <1>5, StepGenuine

LEMMA NetUntouched ==
    ASSUME GenuineInv, Settled, UNCHANGED netVars
    PROVE  NetGenuine'
  <1> DEFINE none == {}
  <1>1. datagrams' \subseteq datagrams \cup none /\ UNCHANGED backlog
    BY DEF netVars
  <1>2. \A d \in none : Genuine(d)'
    OBVIOUS
  <1> HIDE DEF none
  <1> QED
    BY <1>1, <1>2, SendStays

\* What a node sends while it is where it may send it is genuine.
LEMMA SentGenuine ==
    ASSUME GenuineInv, Settled, NEW n \in Node
    PROVE  /\ Open \/ group # None => \A k : \A d \in {GroupReady(k, group)} : Genuine(d)'
           /\ group # None /\ groupId'[n] = group => \A d \in {GroupReadyAck(n)} : Genuine(d)'
           /\ \A k : \A d \in {BatonAck(n, k), BatonPass(n)} : Genuine(d)'
           /\ \A k, v : Issued(LocalRound[n], v) => \A d \in {Nonce(n, k, v)} : Genuine(d)'
           /\ pc[n] = "collect" => \A ds : \A d \in Rebroadcast(n, ds) : Genuine(d)'
           /\ \A m \in Received(n) : m.kind = "Nonce" => \A d \in Signature(n, m) : Genuine(d)'
           /\ Open => \A m \in {ChallengeRequest(n, groupId[n])} : GenuineRequest(m)'
  <1>1. Open \/ group # None => \A k : \A d \in {GroupReady(k, group)} : Genuine(d)'
    BY DEF GroupReady, Genuine, Settled, Open
  <1>2. group # None /\ groupId'[n] = group => \A d \in {GroupReadyAck(n)} : Genuine(d)'
    BY DEF GroupReadyAck, Genuine, Settled
  <1>3. \A k : \A d \in {BatonAck(n, k), BatonPass(n)} : Genuine(d)'
    BY DEF BatonAck, BatonPass, Genuine
  <1>4. ASSUME NEW v, Issued(LocalRound[n], v), NEW k, NEW d \in {Nonce(n, k, v)}
        PROVE  Genuine(d)'
    <2>1. LocalRound[n] \in Round
      BY RoundFacts
    <2>2. Issued(LocalRound[n], v)'
      BY <1>4, <2>1, IssuedStays
    <2> QED
      BY <1>4, <2>2 DEF Nonce, Genuine
  <1>5. ASSUME pc[n] = "collect", NEW ds, NEW d \in Rebroadcast(n, ds)
        PROVE  Genuine(d)'
    <2>1. Issued(LocalRound[n], challenge[n])
      BY <1>5 DEF GenuineInv, AllGenuine, NodeGenuine, Collected
    <2> QED
      BY <1>4, <1>5, <2>1 DEF Rebroadcast
  <1>6. ASSUME NEW m \in Received(n), m.kind = "Nonce", NEW d \in Signature(n, m)
        PROVE  Genuine(d)'
    <2>1. Issued(m.round, m.val) /\ m.round \in Round
      BY <1>6, ReceivedGenuine, DatagramFacts DEF Genuine
    <2>2. d = SignatureReply(n, m.src, m.round, m.val)
      BY <1>6 DEF Signature
    <2>3. Issued(d.round, d.val)' /\ d.kind = "SignatureReply"
      <3>1. d.round = m.round /\ d.val = m.val /\ d.kind = "SignatureReply"
        BY <2>2 DEF SignatureReply
      <3>2. Issued(m.round, m.val)'
        BY <2>1, IssuedStays
      <3> QED
        BY <3>1, <3>2
    <2> QED
      BY <2>3 DEF Genuine, Issued
  <1>7. ASSUME Open, NEW m \in {ChallengeRequest(n, groupId[n])} PROVE GenuineRequest(m)'
    <2>1. Open' /\ group' = group /\ groupId[n] = group
      BY <1>7, OpenStays DEF Open, Settled
    <2>2. m.kind = "ChallengeRequest" /\ m.group = groupId[n]
      BY <1>7 DEF ChallengeRequest
    <2> QED
      BY <2>1, <2>2 DEF GenuineRequest
  <1> QED
    BY <1>1, <1>2, <1>3, <1>4, <1>5, <1>6, <1>7

\* A retry only sends again what was sent before.
LEMMA RetryGenuine ==
    ASSUME GenuineInv, NEW n \in Node, Retry(n)
    PROVE  AllGenuine'
  <1>1. ASSUME NEW k \in Node, NEW req, NEW out, Resend(k, req, out),
               \A m \in req : GenuineRequest(m)', \A d \in out : Genuine(d)'
        PROVE  AllGenuine'
    <2>1. /\ UNCHANGED <<serverState, nodeVars, replies, backlog>>
          /\ requests' = requests \cup req /\ datagrams' = datagrams \cup out
      BY <1>1 DEF Resend, RequestServer
    <2>2. Settled
      BY <2>1, SteadySettled DEF nodeVars
    <2>3. NetGenuine'
      BY <1>1, <2>1, <2>2, SendStays
    <2> QED
      BY <1>1, <2>1, <2>3, NetStepGenuine
  <1>2. UNCHANGED <<serverState, nodeVars>>
    BY DEF Retry, RegistrationRetry, GroupReadyRetry, ChallengeRetry, CollectRetry, BatonRetry,
           Resend, RequestServer
  <1>3. Settled
    BY <1>2, SteadySettled DEF nodeVars
  <1>4. NodeGenuine(n) /\ BarrierGenuine /\ "A" \in Node
    BY DEF GenuineInv, AllGenuine, Node
  <1> DEFINE none == {}
  <1>5. (\A d \in none : Genuine(d)') /\ (\A m \in none : GenuineRequest(m)')
    OBVIOUS
  <1> HIDE DEF none
  <1>6. CASE RegistrationRetry
    <2>1. \A m \in {GroupRegister("A")} : GenuineRequest(m)'
      BY DEF GroupRegister, GenuineRequest
    <2>2. Resend("A", {GroupRegister("A")}, none)
      BY <1>6 DEF RegistrationRetry, none
    <2> QED
      BY <1>1, <1>4, <1>5, <2>1, <2>2
  <1>7. CASE GroupReadyRetry
    <2>1. group # None /\ (groupId["A"] = group)
      BY <1>4, <1>7 DEF GroupReadyRetry, BarrierGenuine
    <2>2. \A d \in {GroupReady(k, groupId["A"]) : k \in missing["A"]} : Genuine(d)'
      BY <1>3, <2>1, SentGenuine
    <2>3. Resend("A", none, {GroupReady(k, groupId["A"]) : k \in missing["A"]})
      BY <1>7 DEF GroupReadyRetry, none
    <2> QED
      BY <1>1, <1>4, <1>5, <2>2, <2>3
  <1>8. CASE ChallengeRetry(n)
    <2>1. Open
      BY <1>4, <1>8 DEF ChallengeRetry, Polling, NodeGenuine
    <2>2. \A m \in {ChallengeRequest(n, groupId[n])} : GenuineRequest(m)'
      BY <1>3, <2>1, SentGenuine
    <2>3. Resend(n, {ChallengeRequest(n, groupId[n])}, none)
      BY <1>8 DEF ChallengeRetry, none
    <2> QED
      BY <1>1, <1>5, <2>2, <2>3
  <1>9. CASE CollectRetry(n)
    <2>1. \A d \in Rebroadcast(n, missing[n]) : Genuine(d)'
      BY <1>3, <1>9, SentGenuine DEF CollectRetry
    <2>2. Resend(n, none, Rebroadcast(n, missing[n]))
      BY <1>9 DEF CollectRetry, none
    <2> QED
      BY <1>1, <1>5, <2>1, <2>2
  <1>10. CASE BatonRetry(n)
    <2>1. \A d \in {BatonPass(n)} : Genuine(d)'
      BY <1>3, SentGenuine
    <2>2. Resend(n, none, {BatonPass(n)})
      BY <1>10 DEF BatonRetry, none
    <2> QED
      BY <1>1, <1>5, <2>1, <2>2
  <1> QED
    BY <1>6, <1>7, <1>8, <1>9, <1>10 DEF Retry

LEMMA RegisterGenuine ==
    ASSUME GenuineInv, Register
    PROVE  AllGenuine'
  <1>a. "A" \in Node /\ NodeGenuine("A")
    BY DEF GenuineInv, AllGenuine, Node
  <1>1. CASE StartRegistration
    <2>1. /\ Goto("A", "await_registration") /\ pc["A"] = "start"
          /\ UNCHANGED <<serverState, replies, netVars, groupId, signed, missing, sigs, challenge,
                         baton, result>>
          /\ requests' = requests \cup {GroupRegister("A")}
      BY <1>1 DEF StartRegistration, RequestServer
    <2>2. \A m \in {GroupRegister("A")} : GenuineRequest(m)'
      BY DEF GroupRegister, GenuineRequest
    <2>3. NetGenuine'
      BY <2>1, SteadySettled, NetUntouched
    <2> QED
      BY <1>a, <2>1, <2>2, <2>3, GotoGenuine DEF Location, Led
  <1>2. CASE RegistrationResult
    <2>1. PICK m \in RepliesTo("A", "GroupRegisterResponse") :
             /\ TakeReply(m, {})
             /\ IF m.success
                THEN /\ Goto("A", "await_ack")
                     /\ groupId' = [groupId EXCEPT !["A"] = m.group]
                     /\ missing' = [missing EXCEPT !["A"] = Node \ {"A"}]
                     /\ Send({GroupReady(d, m.group) : d \in Node \ {"A"}})
                ELSE /\ Goto("A", "error")
                     /\ UNCHANGED <<groupId, missing, netVars>>
      BY <1>2 DEF RegistrationResult
    <2>2. /\ UNCHANGED <<serverState, round, signed, sigs, challenge, baton, result>>
          /\ replies' \subseteq replies /\ requests' = requests /\ pc["A"] = "await_registration"
      BY <1>2, <2>1 DEF RegistrationResult, TakeReply
    <2>3. CASE ~m.success
      <3>1. Goto("A", "error") /\ UNCHANGED <<groupId, missing, netVars>>
        BY <2>1, <2>3
      <3>2. NetGenuine'
        BY <2>2, <3>1, SteadySettled, NetUntouched
      <3> QED
        BY <1>a, <2>2, <3>1, <3>2, GotoGenuine DEF Location, Led
    <2>4. CASE m.success
      <3>1. group # None /\ m.group = group
        BY <2>1, <2>4 DEF RepliesTo, GenuineInv, AllGenuine, ServerGenuine, GenuineReply
      <3>2. /\ pc' = [pc EXCEPT !["A"] = "await_ack"]
            /\ groupId' = [groupId EXCEPT !["A"] = group]
            /\ missing' = [missing EXCEPT !["A"] = Node \ {"A"}]
            /\ Send({GroupReady(d, group) : d \in Node \ {"A"}})
        BY <2>1, <2>4, <3>1 DEF Goto
      <3>3. /\ pc \in [Node -> Location] /\ groupId \in [Node -> MaybeGroup]
            /\ missing \in [Node -> SUBSET Node]
        BY DEF GenuineInv, OrderInv, TypeInv, TypeOK, NodeTypeOK
      <3>4. Settled
        BY <2>2, <3>2, <3>3 DEF Settled, serverState
      <3>5. \A d \in {GroupReady(k, group) : k \in Node \ {"A"}} : Genuine(d)'
        BY <1>a, <3>1, <3>4, SentGenuine
      <3>6. NetGenuine'
        BY <3>2, <3>4, <3>5, SendStays DEF Send
      <3>7. BarrierGenuine'
        BY <1>a, <2>2, <3>1, <3>2, <3>3 DEF BarrierGenuine, serverState
      <3>8. \A k \in Node \ {"A"} : Untouched(k)
        BY <2>2, <3>2, <3>3 DEF Untouched
      <3>9. NodeGenuine("A")'
        <4>1. pc'["A"] = "await_ack" /\ groupId'["A"] = group' /\ ~Led("A")
          BY <1>a, <2>2, <3>2, <3>3 DEF serverState, Led
        <4> QED
          BY <1>a, <2>2, <3>4, <4>1, NodeStays
      <3> QED
        BY <1>a, <2>2, <3>4, <3>6, <3>7, <3>8, <3>9, StepGenuine
    <2> QED
      BY <2>3, <2>4
  <1> QED
    BY <1>1, <1>2 DEF Register

LEMMA BarrierStepGenuine ==
    ASSUME GenuineInv, NEW n \in Node, Barrier(n)
    PROVE  AllGenuine'
  <1>a. "A" \in Node /\ NodeGenuine("A") /\ NodeGenuine(n)
    BY DEF GenuineInv, AllGenuine, Node
  <1>b. /\ pc \in [Node -> Location] /\ groupId \in [Node -> MaybeGroup]
        /\ missing \in [Node -> SUBSET Node] /\ missing["A"] \subseteq Node
    BY <1>a DEF GenuineInv, OrderInv, TypeInv, TypeOK, NodeTypeOK
  <1>1. CASE GroupReadyAcked
    <2> DEFINE rest(m) == missing["A"] \ {m.src}
               out(m) == {GroupReady(d, groupId["A"]) : d \in rest(m)}
    <2>1. PICK m \in Received("A") :
             /\ Awaited("A", m)
             /\ missing' = [missing EXCEPT !["A"] = rest(m)]
             /\ Exchange("A", m, out(m))
             /\ IF rest(m) = {}
                THEN /\ Goto("A", "await_challenge")
                     /\ RequestServer({ChallengeRequest("A", groupId["A"])})
                ELSE UNCHANGED <<pc, serverVars>>
      BY <1>1, Zenon DEF GroupReadyAcked
    <2>2. /\ UNCHANGED <<serverState, replies, groupId, signed, sigs, challenge, baton, result>>
          /\ pc["A"] = "await_ack"
      BY <1>1, <2>1 DEF GroupReadyAcked, RequestServer, serverVars, serverState
    <2>3. Settled /\ group # None /\ groupId["A"] = group
      BY <2>2, SteadySettled DEF GenuineInv, AllGenuine, BarrierGenuine
    <2>4. m.kind = "GroupReadyAck"
      BY <1>a, <2>1, <2>2 DEF Awaited, NodeGenuine, Led
    <2>5. \A k \in Node \ rest(m) : groupId[k] = group
      BY <2>1, <2>2, <2>4, <1>a, ReceivedGenuine DEF GenuineInv, AllGenuine, BarrierGenuine, Genuine
    <2>6. NetGenuine'
      <3>1. \A d \in out(m) : Genuine(d)'
        BY <1>a, <2>3, SentGenuine
      <3> HIDE DEF out
      <3> QED
        BY <1>a, <2>1, <2>3, <3>1, ExchangeStays
    <2>7. missing'["A"] = rest(m)
      BY <1>a, <1>b, <2>1
    <2>8. BarrierGenuine'
      BY <2>2, <2>3, <2>5, <2>7 DEF BarrierGenuine, serverState
    <2>9. \A m2 \in requests' : m2 \in requests \/ GenuineRequest(m2)'
      <3>1. CASE rest(m) = {}
        <4>1. Open
          BY <2>3, <2>5, <3>1 DEF Open
        <4>2. \A m2 \in {ChallengeRequest("A", groupId["A"])} : GenuineRequest(m2)'
          BY <1>a, <2>3, <4>1, SentGenuine
        <4> QED
          BY <2>1, <3>1, <4>2 DEF RequestServer
      <3>2. CASE rest(m) # {}
        BY <2>1, <3>2 DEF serverVars
      <3> QED
        BY <3>1, <3>2
    <2>10. \A k \in Node \ {"A"} : Untouched(k)
      BY <1>b, <2>1, <2>2 DEF Untouched, Goto
    <2>11. NodeGenuine("A")'
      <3>1. pc'["A"] = "await_ack" \/ (pc'["A"] = "await_challenge" /\ Open')
        <4>1. CASE rest(m) = {}
          <5>1. Open
            BY <2>3, <2>5, <4>1 DEF Open
          <5> QED
            BY <1>a, <1>b, <2>1, <2>3, <4>1, <5>1, OpenStays DEF Goto
        <4>2. CASE rest(m) # {}
          BY <2>1, <2>2, <4>2
        <4> QED
          BY <4>1, <4>2
      <3>2. ~Led("A") /\ groupId'["A"] \in {None, group'}
        BY <2>2, <2>3 DEF Led, serverState
      <3> QED
        BY <1>a, <2>2, <2>3, <3>1, <3>2, NodeStays
    <2> QED
      BY <1>a, <2>2, <2>3, <2>6, <2>8, <2>9, <2>10, <2>11, StepGenuine
  <1>2. CASE GroupReadyReceived(n)
    <2>1. PICK m \in Received(n) :
             /\ Awaited(n, m)
             /\ groupId' = [groupId EXCEPT ![n] = m.val]
             /\ Exchange(n, m, {GroupReadyAck(n)})
      BY <1>2 DEF GroupReadyReceived
    <2>2. /\ UNCHANGED <<serverVars, signed, missing, sigs, challenge, baton, result>>
          /\ pc[n] = "await_group_ready" /\ pc' = [pc EXCEPT ![n] = "follow"]
      BY <1>2 DEF GroupReadyReceived, Goto
    <2>3. m.kind = "GroupReady"
      BY <1>a, <2>1, <2>2 DEF Awaited, NodeGenuine, Led
    <2>4. group # None /\ m.val = group
      BY <2>3, ReceivedGenuine DEF Genuine
    <2>5. Settled /\ groupId'[n] = group /\ group' = group
      BY <1>b, <2>1, <2>2, <2>4 DEF Settled, serverVars
    <2>6. NetGenuine'
      BY <2>1, <2>4, <2>5, SentGenuine, ExchangeStays
    <2>7. BarrierGenuine'
      BY <1>b, <2>2, <2>5, BarrierStays DEF Node
    <2>8. \A k \in Node \ {n} : Untouched(k)
      BY <1>b, <2>1, <2>2 DEF Untouched
    <2>9. NodeGenuine(n)'
      <3>1. pc'[n] = "follow" /\ ~Led(n)
        BY <1>b, <2>2 DEF Led
      <3> QED
        BY <2>2, <2>5, <3>1, NodeStays
    <2> QED
      BY <2>2, <2>5, <2>6, <2>7, <2>8, <2>9, StepGenuine DEF serverVars, serverState
  <1> QED
    BY <1>1, <1>2 DEF Barrier

\* A node that takes a message where it is, learns the group or signs a nonce, and
\* answers; a nonce may end its following.
LEMMA ReadGenuine ==
    ASSUME GenuineInv, NEW n \in Node, NEW m \in Received(n), NEW out, Exchange(n, m, out),
           UNCHANGED <<serverVars, missing, sigs, challenge, baton, result>>,
           \/ IsCommon(n, m) /\ LearnGroup(n, m) /\ UNCHANGED signed
           \/ m.kind = "Nonce" /\ Sign(n, m) /\ UNCHANGED groupId
           \/ UNCHANGED <<groupId, signed>>,
           \/ UNCHANGED pc
           \/ pc[n] = "follow" /\ m.kind = "Nonce" /\ Goto(n, "await_baton"),
           \A d \in out :
               \/ IsCommon(n, m) /\ LearnGroup(n, m) /\ d \in CommonAck(n, m)
               \/ m.kind = "Nonce" /\ d \in Signature(n, m)
               \/ pc[n] = "collect" /\ d \in Rebroadcast(n, missing[n])
    PROVE  AllGenuine'
  <1>1. /\ pc \in [Node -> Location] /\ groupId \in [Node -> MaybeGroup]
        /\ signed \in [Node -> [Round -> MaybeNonce]]
    BY DEF GenuineInv, OrderInv, TypeInv, TypeOK, NodeTypeOK
  <1>2. UNCHANGED <<serverState, group, issued, submitters, requests, replies>>
    BY DEF serverVars, serverState
  <1>3. m \in Datagram /\ Genuine(m) /\ NodeGenuine(n)
    BY ReceivedGenuine DEF GenuineInv, AllGenuine
  <1>4. IsCommon(n, m) /\ LearnGroup(n, m) /\ IsGroupReady(m) =>
           group # None /\ groupId' = [groupId EXCEPT ![n] = group]
    BY <1>3 DEF LearnGroup, IsGroupReady, Genuine
  <1>5. groupId' = groupId \/ (group # None /\ groupId' = [groupId EXCEPT ![n] = group])
    BY <1>4 DEF LearnGroup, IsCommon
  <1>6. Settled
    BY <1>1, <1>2, <1>5 DEF Settled
  <1>7. m.kind = "Nonce" => Open /\ m.round \in Round /\ m.val = issued[m.round]
    BY <1>3, DatagramFacts DEF Genuine, Issued, GenuineInv, AllGenuine, ServerGenuine
  <1>8. \A r \in Round : signed'[n][r] = signed[n][r] \/ signed'[n][r] = issued[r]
    BY <1>1, <1>7 DEF Sign
  <1>9. NetGenuine'
    <2>1. ASSUME NEW d \in out PROVE Genuine(d)'
      <3>1. CASE IsCommon(n, m) /\ LearnGroup(n, m) /\ d \in CommonAck(n, m)
        <4>1. CASE IsGroupReady(m)
          BY <1>1, <1>4, <1>6, <3>1, <4>1, SentGenuine DEF CommonAck
        <4>2. CASE ~IsGroupReady(m)
          BY <1>6, <3>1, <4>2, SentGenuine DEF CommonAck
        <4> QED
          BY <4>1, <4>2
      <3>2. CASE m.kind = "Nonce" /\ d \in Signature(n, m)
        BY <1>6, <3>2, SentGenuine
      <3>3. CASE pc[n] = "collect" /\ d \in Rebroadcast(n, missing[n])
        BY <1>6, <3>3, SentGenuine
      <3> QED
        BY <2>1, <3>1, <3>2, <3>3
    <2> QED
      BY <1>6, <2>1, ExchangeStays
  <1>10. \A k \in Node \ {n} : Untouched(k)
    BY <1>1, <1>5 DEF Untouched, Goto, Sign
  <1>11. pc' = pc \/ (pc[n] = "follow" /\ Open' /\ pc' = [pc EXCEPT ![n] = "await_baton"])
    BY <1>6, <1>7, OpenStays DEF Goto
  <1>12. BarrierGenuine'
    BY <1>1, <1>6, <1>11, BarrierStays DEF Node
  <1>13. NodeGenuine(n)'
    <2>1. groupId'[n] \in {None, group'}
      BY <1>1, <1>2, <1>3, <1>5 DEF NodeGenuine
    <2>2. /\ pc'[n] = "collect" => pc[n] = "collect"
          /\ pc'[n] \in {"await_baton", "fallback", "await_challenge", "collect"} =>
               Open' \/ pc[n] \in {"await_baton", "fallback", "await_challenge", "collect"}
          /\ Led(n) => Led(n)'
      BY <1>1, <1>11 DEF Led
    <2> QED
      BY <1>6, <1>8, <2>1, <2>2, NodeStays
  <1> QED
    BY <1>2, <1>6, <1>9, <1>10, <1>12, <1>13, StepGenuine

LEMMA WaitForGenuine ==
    ASSUME GenuineInv, NEW n \in Node, WaitForDefers(n)
    PROVE  AllGenuine'
  <1>1. UNCHANGED <<serverVars, nodeVars>>
    BY DEF WaitForDefers
  <1>2. Settled
    BY <1>1, SteadySettled DEF serverVars, serverState, nodeVars
  <1> DEFINE none == {}
  <1>3. Moves(none) /\ \A d \in none : Genuine(d)'
    BY WaitForMoves DEF GenuineInv, OrderInv
  <1> HIDE DEF none
  <1>4. NetGenuine'
    BY <1>2, <1>3, NetStays
  <1> QED
    BY <1>1, <1>4, NetStepGenuine DEF serverVars, serverState

LEMMA FollowGenuine ==
    ASSUME GenuineInv, NEW n \in Node, Follow(n) \/ AwaitBaton(n) \/ BatonMissing(n)
    PROVE  AllGenuine'
  <1>a. NodeGenuine(n)
    BY DEF GenuineInv, AllGenuine
  <1>1. CASE FollowCommon(n)
    BY <1>1, ReadGenuine DEF FollowCommon
  <1>2. CASE FollowNonce(n)
    <2>1. PICK m \in Received(n) :
             m.kind = "Nonce" /\ Sign(n, m) /\ Exchange(n, m, Signature(n, m))
      BY <1>2 DEF FollowNonce, IsFollowed
    <2>2. /\ UNCHANGED <<serverVars, groupId, missing, sigs, challenge, baton, result>>
          /\ pc[n] = "follow" /\ (UNCHANGED pc \/ Goto(n, "await_baton"))
      BY <1>2 DEF FollowNonce
    <2> QED
      BY <2>1, <2>2, ReadGenuine
  <1>3. CASE FollowDrop(n)
    <2>1. PICK m \in Received(n) : Exchange(n, m, {})
      BY <1>3 DEF FollowDrop
    <2>2. UNCHANGED <<serverVars, nodeVars>>
      BY <1>3 DEF FollowDrop
    <2> QED
      BY <2>1, <2>2, ReadGenuine DEF nodeVars
  <1>4. CASE AwaitBatonReply(n)
    <2>1. PICK m \in Received(n) :
             \/ /\ IsGroupReady(m) /\ LearnGroup(n, m)
                /\ Exchange(n, m, CommonAck(n, m)) /\ UNCHANGED signed
             \/ /\ m.kind = "Nonce" /\ Sign(n, m)
                /\ Exchange(n, m, Signature(n, m)) /\ UNCHANGED groupId
      BY <1>4 DEF AwaitBatonReply
    <2>2. UNCHANGED <<serverVars, pc, missing, sigs, challenge, baton, result>>
      BY <1>4 DEF AwaitBatonReply
    <2>3. IsGroupReady(m) => IsCommon(n, m)
      BY DEF IsCommon
    <2>4. CASE /\ IsGroupReady(m) /\ LearnGroup(n, m)
               /\ Exchange(n, m, CommonAck(n, m)) /\ UNCHANGED signed
      BY <2>2, <2>3, <2>4, ReadGenuine
    <2>5. CASE /\ m.kind = "Nonce" /\ Sign(n, m)
               /\ Exchange(n, m, Signature(n, m)) /\ UNCHANGED groupId
      BY <2>2, <2>5, ReadGenuine
    <2> QED
      BY <2>1, <2>4, <2>5
  <1>5. ASSUME pc[n] = "await_baton", NEW l \in {"await_challenge", "fallback"}, Goto(n, l),
               RequestServer({ChallengeRequest(n, groupId[n])}),
               UNCHANGED <<groupId, signed, missing, sigs, challenge, baton, result>>,
               \/ UNCHANGED netVars
               \/ \E m \in Received(n) : Exchange(n, m, {BatonAck(n, m.src)})
        PROVE  AllGenuine'
    <2>1. UNCHANGED <<serverState, replies, groupId>> /\ Open /\ ~Led(n)
      BY <1>a, <1>5 DEF RequestServer, NodeGenuine, Led
    <2>2. Settled
      BY <2>1, SteadySettled
    <2>3. \A m \in requests' : m \in requests \/ GenuineRequest(m)'
      BY <1>5, <2>1, <2>2, SentGenuine DEF RequestServer
    <2>4. NetGenuine'
      <3>1. CASE UNCHANGED netVars
        BY <2>2, <3>1, NetUntouched
      <3>2. ASSUME NEW m \in Received(n), Exchange(n, m, {BatonAck(n, m.src)}) PROVE NetGenuine'
        <4>1. \A d \in {BatonAck(n, m.src)} : Genuine(d)'
          BY <2>2, SentGenuine
        <4> QED
          BY <2>2, <3>2, <4>1, ExchangeStays
      <3> QED
        BY <1>5, <3>1, <3>2
    <2> QED
      BY <1>5, <2>1, <2>3, <2>4, GotoGenuine DEF Location
  <1>6. CASE BatonReceived(n)
    <2>1. \E m \in Received(n) : Exchange(n, m, {BatonAck(n, m.src)})
      BY <1>6 DEF BatonReceived
    <2> QED
      BY <1>5, <1>6, <2>1 DEF BatonReceived
  <1>7. CASE BatonMissing(n)
    BY <1>5, <1>7 DEF BatonMissing
  <1> QED
    BY <1>1, <1>2, <1>3, <1>4, <1>6, <1>7 DEF Follow, AwaitBaton

\* Leading starts with a nonce that is the round's own.
LEMMA ChallengeGenuine ==
    ASSUME GenuineInv, NEW n \in Node, Challenged(n)
    PROVE  AllGenuine'
  <1>a. NodeGenuine(n)
    BY DEF GenuineInv, AllGenuine
  <1>b. Open
    BY <1>a DEF NodeGenuine, Challenged, ChallengeOfOtherRound, FallbackChallenge, LeadRound, Polling
  <1>1. CASE ChallengeOfOtherRound(n)
    <2>1. /\ UNCHANGED <<netVars, nodeVars, serverState>> /\ replies' \subseteq replies
          /\ requests' = requests \cup {ChallengeRequest(n, groupId[n])}
      BY <1>1 DEF ChallengeOfOtherRound, TakeReply
    <2>2. Settled
      BY <2>1, SteadySettled DEF nodeVars
    <2> QED
      BY <1>b, <2>1, <2>2, SentGenuine, NetUntouched, NetStepGenuine
  <1>2. CASE FallbackChallenge(n)
    <2>1. /\ UNCHANGED <<netVars, serverState, groupId, signed, missing, sigs, challenge, baton, result>>
          /\ replies' \subseteq replies /\ Goto(n, "await_challenge") /\ pc[n] = "fallback"
          /\ requests' = requests \cup {ChallengeRequest(n, groupId[n])}
      BY <1>2 DEF FallbackChallenge, TakeReply
    <2>2. Settled
      BY <2>1, SteadySettled
    <2>3. NetGenuine' /\ \A m \in requests' : m \in requests \/ GenuineRequest(m)'
      BY <1>b, <2>1, <2>2, SentGenuine, NetUntouched
    <2> QED
      BY <1>b, <2>1, <2>3, GotoGenuine DEF Location, Led
  <1>3. CASE LeadRound(n)
    <2>1. PICK m \in replies :
             /\ m.kind = "ChallengeResponse" /\ m.round = LocalRound[n]
             /\ TakeReply(m, {})
             /\ challenge' = [challenge EXCEPT ![n] = m.nonce]
             /\ sigs' = [sigs EXCEPT ![n] = [NoSignatures EXCEPT ![n] = m.nonce]]
             /\ Send({Nonce(n, d, m.nonce) : d \in Node \ {n}})
      BY <1>3 DEF LeadRound, RepliesTo
    <2>2. /\ UNCHANGED <<serverState, requests, groupId, signed, baton, result>>
          /\ replies' \subseteq replies /\ pc[n] = "await_challenge"
          /\ missing' = [missing EXCEPT ![n] = Node \ {n}] /\ pc' = [pc EXCEPT ![n] = "collect"]
      BY <1>3, <2>1 DEF LeadRound, TakeReply, Goto
    <2>3. Settled
      BY <2>2, SteadySettled
    <2>4. Issued(LocalRound[n], m.nonce) /\ LocalRound[n] \in Round
      BY <2>1, RoundFacts DEF GenuineInv, AllGenuine, ServerGenuine, GenuineReply
    <2>5. NetGenuine'
      <3>1. \A d \in {Nonce(n, k, m.nonce) : k \in Node \ {n}} : Genuine(d)'
        BY <2>3, <2>4, SentGenuine
      <3> QED
        BY <2>1, <2>3, <3>1, SendStays DEF Send
    <2>6. /\ pc \in [Node -> Location] /\ missing \in [Node -> SUBSET Node]
          /\ challenge \in [Node -> MaybeNonce] /\ sigs \in [Node -> Signatures]
      BY DEF GenuineInv, OrderInv, TypeInv, TypeOK, NodeTypeOK
    <2>7. BarrierGenuine'
      BY <2>2, <2>3, <2>6, BarrierStays DEF Node
    <2>8. \A k \in Node \ {n} : Untouched(k)
      BY <2>1, <2>2, <2>6 DEF Untouched
    <2>9. NodeGenuine(n)'
      <3>1. /\ challenge'[n] = m.nonce /\ missing'[n] = Node \ {n} /\ sigs'[n][n] = m.nonce
            /\ pc'[n] = "collect"
        BY <2>1, <2>2, <2>6 DEF NoSignatures
      <3>2. Collected(n)'
        BY <2>3, <2>4, <3>1, IssuedStays DEF Collected, Issued, Settled
      <3>3. Open' /\ UNCHANGED <<group, issued, submitters>>
        BY <1>b, <2>2, <2>3, OpenStays DEF serverState
      <3>4. baton'[n] = "idle"
        BY <1>a, <2>2 DEF NodeGenuine, Led
      <3> QED
        BY <1>a, <2>2, <3>1, <3>2, <3>3, <3>4 DEF NodeGenuine
    <2> QED
      BY <2>2, <2>3, <2>5, <2>7, <2>8, <2>9, StepGenuine
  <1> QED
    BY <1>1, <1>2, <1>3 DEF Challenged

LEMMA CollectGenuine ==
    ASSUME GenuineInv, NEW n \in Node, Collect(n)
    PROVE  AllGenuine'
  <1>a. NodeGenuine(n) /\ Open /\ pc[n] = "collect" /\ Collected(n)
    BY DEF GenuineInv, AllGenuine, NodeGenuine, Collect, CollectReply, CollectDrop,
           CollectSignature, SubmitBundle
  <1>b. /\ pc \in [Node -> Location] /\ missing \in [Node -> SUBSET Node]
        /\ sigs \in [Node -> Signatures] /\ baton \in [Node -> {"idle", "sending", "done"}]
    BY DEF GenuineInv, OrderInv, TypeInv, TypeOK, NodeTypeOK
  <1> DEFINE again == Rebroadcast(n, missing[n])
  <1>1. CASE CollectReply(n)
    <2>1. PICK m \in Received(n) :
             \/ /\ IsCommon(n, m) /\ LearnGroup(n, m)
                /\ Exchange(n, m, CommonAck(n, m) \cup again) /\ UNCHANGED signed
             \/ /\ m.kind = "Nonce" /\ Sign(n, m)
                /\ Exchange(n, m, Signature(n, m) \cup again) /\ UNCHANGED groupId
      BY <1>1 DEF CollectReply
    <2>2. UNCHANGED <<serverVars, pc, missing, sigs, challenge, baton, result>>
      BY <1>1 DEF CollectReply
    <2> HIDE DEF again
    <2>3. \A d \in again : pc[n] = "collect" /\ d \in Rebroadcast(n, missing[n])
      BY <1>a DEF again
    <2>4. CASE /\ IsCommon(n, m) /\ LearnGroup(n, m)
               /\ Exchange(n, m, CommonAck(n, m) \cup again) /\ UNCHANGED signed
      <3>1. \A d \in CommonAck(n, m) \cup again :
               \/ IsCommon(n, m) /\ LearnGroup(n, m) /\ d \in CommonAck(n, m)
               \/ pc[n] = "collect" /\ d \in Rebroadcast(n, missing[n])
        BY <2>3, <2>4
      <3> QED
        BY <2>2, <2>4, <3>1, ReadGenuine
    <2>5. CASE /\ m.kind = "Nonce" /\ Sign(n, m)
               /\ Exchange(n, m, Signature(n, m) \cup again) /\ UNCHANGED groupId
      <3>1. \A d \in Signature(n, m) \cup again :
               \/ m.kind = "Nonce" /\ d \in Signature(n, m)
               \/ pc[n] = "collect" /\ d \in Rebroadcast(n, missing[n])
        BY <2>3, <2>5
      <3> QED
        BY <2>2, <2>5, <3>1, ReadGenuine
    <2> QED
      BY <2>1, <2>4, <2>5
  <1>2. CASE CollectDrop(n)
    <2>1. PICK m \in Received(n) : Exchange(n, m, again)
      BY <1>2 DEF CollectDrop
    <2>2. UNCHANGED <<serverVars, nodeVars>>
      BY <1>2 DEF CollectDrop
    <2>3. \A d \in again : pc[n] = "collect" /\ d \in Rebroadcast(n, missing[n])
      BY <1>a
    <2> HIDE DEF again
    <2> QED
      BY <2>1, <2>2, <2>3, ReadGenuine DEF nodeVars
  <1>3. CASE CollectSignature(n)
    <2>1. PICK m \in Received(n) :
             /\ IsSignature(n, m)
             /\ missing' = [missing EXCEPT ![n] = @ \ {m.src}]
             /\ sigs' = [sigs EXCEPT ![n][m.src] = m.val]
             /\ Exchange(n, m, Rebroadcast(n, missing[n] \ {m.src}))
      BY <1>3 DEF CollectSignature
    <2>2. UNCHANGED <<serverState, requests, replies, pc, groupId, signed, challenge, baton, result>>
      BY <1>3 DEF CollectSignature, serverVars, serverState
    <2>3. Settled
      BY <2>2, SteadySettled
    <2>4. NetGenuine'
      <3>1. \A d \in Rebroadcast(n, missing[n] \ {m.src}) : Genuine(d)'
        BY <1>a, <2>3, SentGenuine
      <3> QED
        BY <2>1, <2>3, <3>1, ExchangeStays
    <2>5. BarrierGenuine'
      BY <1>a, <1>b, <2>1, <2>2, <2>3, BarrierStays DEF Node
    <2>6. \A k \in Node \ {n} : Untouched(k)
      BY <1>b, <2>1, <2>2 DEF Untouched
    <2>7. NodeGenuine(n)'
      <3>1. m.src \in Node /\ m.val = challenge[n]
        BY <2>1, ReceivedGenuine, DatagramFacts DEF IsSignature
      <3>2. /\ missing'[n] = missing[n] \ {m.src}
            /\ \A k \in Node : sigs'[n][k] = IF k = m.src THEN m.val ELSE sigs[n][k]
        BY <1>b, <2>1, <3>1 DEF Signatures
      <3>3. UNCHANGED <<group, issued, submitters>> /\ Open'
        BY <1>a, <2>2, <2>3, OpenStays DEF serverState
      <3>4. Collected(n)'
        BY <1>a, <2>2, <3>1, <3>2, <3>3 DEF Collected, Issued
      <3> QED
        BY <1>a, <2>2, <3>3, <3>4 DEF NodeGenuine, Led
    <2> QED
      BY <2>2, <2>3, <2>4, <2>5, <2>6, <2>7, StepGenuine
  <1>4. CASE SubmitBundle(n)
    <2>1. PICK m \in Received(n) :
             /\ IsSignature(n, m) /\ missing[n] = {m.src}
             /\ sigs' = [sigs EXCEPT ![n][m.src] = m.val]
             /\ RequestServer({SignatureBundle(n, groupId[n], LocalRound[n], sigs'[n])})
             /\ \/ baton' = [baton EXCEPT ![n] = "sending"] /\ Exchange(n, m, {BatonPass(n)})
                \/ baton' = [baton EXCEPT ![n] = "done"] /\ Exchange(n, m, {})
      BY <1>4, Zenon DEF SubmitBundle
    <2>2. /\ UNCHANGED <<serverState, replies, groupId, signed, challenge, result>>
          /\ requests' = requests \cup {SignatureBundle(n, groupId[n], LocalRound[n], sigs'[n])}
          /\ missing' = [missing EXCEPT ![n] = {}] /\ pc' = [pc EXCEPT ![n] = "await_result"]
      BY <1>4, <2>1 DEF SubmitBundle, RequestServer, Goto
    <2>3. Settled
      BY <2>2, SteadySettled
    <2>4. NetGenuine'
      <3> DEFINE none == {}
      <3>1. (\A d \in none : Genuine(d)') /\ (\A d \in {BatonPass(n)} : Genuine(d)')
        BY <2>3, SentGenuine
      <3>2. Exchange(n, m, {BatonPass(n)}) \/ Exchange(n, m, none)
        BY <2>1
      <3> HIDE DEF none
      <3> QED
        BY <2>1, <2>3, <3>1, <3>2, ExchangeStays
    <2>5. BarrierGenuine'
      BY <1>b, <2>2, <2>3, BarrierStays DEF Node
    <2>6. \A k \in Node \ {n} : Untouched(k)
      BY <1>b, <2>1, <2>2 DEF Untouched
    <2>7. Open' /\ UNCHANGED <<group, issued, submitters>> /\ groupId[n] = group
      BY <1>a, <2>2, <2>3, OpenStays DEF serverState, Open
    <2>8. \A q \in requests' : q \in requests \/ GenuineRequest(q)'
      <3>1. m.src \in Node /\ m.val = challenge[n]
        BY <2>1, ReceivedGenuine, DatagramFacts DEF IsSignature
      <3>2. \A k \in Node : sigs'[n][k] = challenge[n]
        BY <1>a, <1>b, <2>1, <3>1 DEF Signatures, Collected
      <3> DEFINE s == sigs'[n]
      <3>3. \A k \in Node : issued[LocalRound[n]] = s[k] /\ s[k] # None
        BY <1>a, <3>2 DEF Collected, Issued
      <3> HIDE DEF s
      <3>4. ASSUME NEW q, q = SignatureBundle(n, groupId[n], LocalRound[n], s)
            PROVE  GenuineRequest(q)'
        <4>1. q.kind = "SignatureBundle" /\ q.group = groupId[n] /\ q.round = LocalRound[n] /\ q.sigs = s
          BY <3>4 DEF SignatureBundle
        <4> QED
          BY <2>7, <3>3, <4>1 DEF GenuineRequest, Issued
      <3> QED
        BY <2>2, <3>4 DEF s
    <2>9. NodeGenuine(n)'
      <3>1. pc'[n] = "await_result" /\ Led(n)'
        BY <1>b, <2>2 DEF Led
      <3>2. groupId'[n] \in {None, group'} /\ result'[n] = result[n]
        BY <2>2, <2>7
      <3> QED
        BY <2>2, <2>3, <3>1, <3>2, NodeStays
    <2> QED
      BY <2>2, <2>3, <2>4, <2>5, <2>6, <2>8, <2>9, StepGenuine
  <1> QED
    BY <1>1, <1>2, <1>3, <1>4 DEF Collect

\* After the bundle: the baton task, the verdict, the end.
LEMMA LeadEndGenuine ==
    ASSUME GenuineInv, NEW n \in Node,
           BatonAcked(n) \/ BatonExpired(n) \/ RoundResultTaken(n) \/ RoundResultExpired(n)
              \/ Finish(n)
    PROVE  AllGenuine'
  <1>a. NodeGenuine(n)
    BY DEF GenuineInv, AllGenuine
  <1>b. /\ pc \in [Node -> Location] /\ baton \in [Node -> {"idle", "sending", "done"}]
        /\ result \in [Node -> {"none", "accepted", "rejected", "unknown"}]
    BY DEF GenuineInv, OrderInv, TypeInv, TypeOK, NodeTypeOK
  <1>1. ASSUME UNCHANGED <<serverState, requests, groupId, signed, missing, sigs, challenge>>,
               replies' \subseteq replies, NetGenuine',
               \A k \in Node \ {n} : pc'[k] = pc[k] /\ baton'[k] = baton[k] /\ result'[k] = result[k],
               Led(n), pc'[n] \in {"await_result", "finishing", "done"},
               result'[n] = "accepted" => submitters[LocalRound[n]] = n
        PROVE  AllGenuine'
    <2>1. Settled
      BY <1>1, SteadySettled
    <2>2. BarrierGenuine'
      BY <1>1, <2>1, BarrierStays DEF Node
    <2>3. \A k \in Node \ {n} : Untouched(k)
      BY <1>1 DEF Untouched
    <2>4. NodeGenuine(n)'
      BY <1>a, <1>1 DEF NodeGenuine, Led, serverState
    <2> QED
      BY <1>1, <2>1, <2>2, <2>3, <2>4, StepGenuine
  <1>2. CASE BatonAcked(n)
    <2>1. PICK m \in Received(n) : Exchange(n, m, {})
      BY <1>2 DEF BatonAcked
    <2>2. /\ UNCHANGED <<serverVars, pc, groupId, signed, missing, sigs, challenge, result>>
          /\ baton[n] = "sending" /\ baton' = [baton EXCEPT ![n] = "done"]
      BY <1>2 DEF BatonAcked
    <2>3. Led(n)
      BY <1>a, <2>2 DEF NodeGenuine
    <2>4. NetGenuine'
      <3> DEFINE none == {}
      <3>1. Exchange(n, m, none) /\ \A d \in none : Genuine(d)'
        BY <2>1
      <3>2. Settled
        BY <2>2, SteadySettled DEF serverVars, serverState
      <3> HIDE DEF none
      <3> QED
        BY <3>1, <3>2, ExchangeStays
    <2> QED
      BY <1>a, <1>b, <1>1, <2>2, <2>3, <2>4 DEF serverVars, serverState, NodeGenuine, Led
  <1>3. CASE BatonExpired(n)
    <2>1. /\ UNCHANGED <<serverVars, netVars, pc, groupId, signed, missing, sigs, challenge, result>>
          /\ baton[n] = "sending" /\ baton' = [baton EXCEPT ![n] = "done"]
      BY <1>3 DEF BatonExpired
    <2>2. Led(n) /\ NetGenuine'
      BY <1>a, <2>1, SteadySettled, NetUntouched DEF NodeGenuine, serverVars, serverState
    <2> QED
      BY <1>a, <1>b, <1>1, <2>1, <2>2 DEF serverVars, serverState, NodeGenuine, Led
  <1>4. CASE RoundResultTaken(n)
    <2>1. PICK m \in RepliesTo(n, "RoundResult") :
             /\ TakeReply(m, {})
             /\ result' = [result EXCEPT ![n] = IF m.success THEN "accepted" ELSE "rejected"]
      BY <1>4 DEF RoundResultTaken
    <2>2. /\ UNCHANGED <<serverState, netVars, groupId, signed, missing, sigs, challenge, baton>>
          /\ requests' = requests /\ replies' \subseteq replies
          /\ pc[n] = "await_result" /\ pc' = [pc EXCEPT ![n] = "finishing"]
      BY <1>4, <2>1 DEF RoundResultTaken, TakeReply, Goto
    <2>3. result'[n] = "accepted" => m.success
      BY <1>b, <2>1
    <2>4. m.success => submitters[LocalRound[n]] = n
      BY <2>1 DEF RepliesTo, GenuineInv, AllGenuine, ServerGenuine, GenuineReply
    <2>5. NetGenuine'
      BY <2>2, SteadySettled, NetUntouched
    <2> QED
      BY <1>b, <1>1, <2>1, <2>2, <2>3, <2>4, <2>5 DEF Led
  <1>5. CASE RoundResultExpired(n)
    <2>1. /\ UNCHANGED <<serverVars, netVars, groupId, signed, missing, sigs, challenge, baton>>
          /\ pc[n] = "await_result" /\ pc' = [pc EXCEPT ![n] = "finishing"]
          /\ result' = [result EXCEPT ![n] = "unknown"]
      BY <1>5 DEF RoundResultExpired, Goto
    <2>2. NetGenuine'
      BY <2>1, SteadySettled, NetUntouched DEF serverVars, serverState
    <2> QED
      BY <1>b, <1>1, <2>1, <2>2 DEF Led, serverVars, serverState
  <1>6. CASE Finish(n)
    <2>1. /\ UNCHANGED <<serverVars, netVars, groupId, signed, missing, sigs, challenge, baton,
                         result>>
          /\ pc[n] = "finishing" /\ pc' = [pc EXCEPT ![n] = "done"]
      BY <1>6 DEF Finish, Goto
    <2>2. NetGenuine'
      BY <2>1, SteadySettled, NetUntouched DEF serverVars, serverState
    <2> QED
      BY <1>a, <1>b, <1>1, <2>1, <2>2 DEF Led, serverVars, serverState, NodeGenuine
  <1> QED
    BY <1>2, <1>3, <1>4, <1>5, <1>6

LEMMA ExpireGenuine ==
    ASSUME GenuineInv, NEW n \in Node, Expire(n)
    PROVE  AllGenuine'
  <1>1. ASSUME NEW k \in Node, Fail(k), ~Led(k) PROVE AllGenuine'
    <2>1. /\ UNCHANGED <<serverState, requests, replies, netVars, groupId, signed, missing, sigs,
                         challenge, baton, result>>
          /\ Goto(k, "error")
      BY <1>1 DEF Fail, serverVars, serverState
    <2>2. NetGenuine'
      BY <2>1, SteadySettled, NetUntouched
    <2> QED
      BY <1>1, <2>1, <2>2, GotoGenuine DEF Location
  <1>2. CASE BatonMissing(n)
    BY <1>2, FollowGenuine
  <1>3. CASE BatonExpired(n) \/ RoundResultExpired(n)
    BY <1>3, LeadEndGenuine
  <1>4. CASE (RegistrationExpired \/ GroupReadyExpired) /\ n = "A"
    BY <1>1, <1>4 DEF RegistrationExpired, GroupReadyExpired, Led
  <1>5. CASE GroupReadyMissed(n) \/ FollowExpired(n) \/ ChallengeExpired(n)
    BY <1>1, <1>5 DEF GroupReadyMissed, FollowExpired, ChallengeExpired, Polling, Led
  <1> QED
    BY <1>2, <1>3, <1>4, <1>5 DEF Expire

-----------------------------------------------------------------------------
(* Steps of the server and of the network                                  *)

\* What was under way stays genuine, so the server answers for its new replies.
LEMMA AnswerGenuine ==
    ASSUME GenuineInv, Settled, requests' \subseteq requests,
           \A m \in replies' : m \in replies \/ GenuineReply(m)',
           \A r \in Round : issued'[r] # None => Open'
    PROVE  ServerGenuine'
  <1>a. replies \subseteq Reply /\ requests \subseteq Request
    BY DEF GenuineInv, OrderInv, TypeInv, TypeOK, ServerTypeOK
  <1>1. ASSUME NEW m \in replies PROVE GenuineReply(m)'
    <2>1. GenuineReply(m) /\ m.dst \in Node
      BY <1>a DEF Reply, GenuineInv, AllGenuine, ServerGenuine
    <2>2. m.kind = "GroupRegisterResponse" /\ m.success => group' # None /\ m.group = group'
      BY <2>1 DEF GenuineReply, Settled
    <2>3. m.kind = "ChallengeResponse" => m.round \in Round /\ Issued(m.round, m.nonce)'
      BY <2>1, IssuedStays DEF GenuineReply
    <2>4. m.kind = "RoundResult" /\ m.success =>
             m.round = LocalRound[m.dst] /\ submitters'[m.round] = m.dst
      BY <2>1, RoundFacts, NoneAssumption DEF GenuineReply, Settled, Node
    <2> QED
      BY <2>2, <2>3, <2>4 DEF GenuineReply
  <1>2. ASSUME NEW m \in requests PROVE GenuineRequest(m)'
    <2>1. GenuineRequest(m)
      BY DEF GenuineInv, AllGenuine, ServerGenuine
    <2>2. m.kind = "SignatureBundle" => m.round \in Round
      BY <1>a, RoundFacts DEF Request, GenuineInv, OrderInv, RelayOrder, ServerOrder
    <2>3. m.kind \in {"ChallengeRequest", "SignatureBundle"} => Open' /\ m.group = group'
      BY <2>1, OpenStays DEF GenuineRequest, Open, Settled
    <2>4. m.kind = "SignatureBundle" => \A k \in Node : Issued(m.round, m.sigs[k])'
      BY <2>1, <2>2, IssuedStays DEF GenuineRequest
    <2> QED
      BY <2>3, <2>4 DEF GenuineRequest
  <1> QED
    BY <1>1, <1>2 DEF ServerGenuine

LEMMA ServerStepGenuine ==
    ASSUME GenuineInv, ServerStep
    PROVE  AllGenuine'
  <1>a. UNCHANGED <<nodeVars, netVars>>
    BY DEF ServerStep
  <1>b. /\ completed \in 0..3 /\ issued \in [Round -> MaybeNonce]
        /\ submitters \in [Round -> Node \cup {None}]
        /\ requests \subseteq Request /\ None \notin Node
    BY NoneAssumption DEF GenuineInv, OrderInv, TypeInv, TypeOK, ServerTypeOK, Node
  <1>1. ASSUME Settled, ServerGenuine' PROVE AllGenuine'
    <2>1. NetGenuine' /\ BarrierGenuine'
      BY <1>a, <1>1, NetUntouched, BarrierStays DEF nodeVars
    <2>2. \A k \in Node : NodeGenuine(k)'
      BY <1>a, <1>1, OthersStay DEF nodeVars, Untouched
    <2> QED
      BY <1>1, <2>1, <2>2 DEF AllGenuine
  <1>2. CASE BudgetCloses
    <2>1. UNCHANGED <<requests, replies, group, issued, submitters, groupId>>
      BY <1>a, <1>2 DEF BudgetCloses, nodeVars
    <2>2. Settled
      BY <2>1 DEF Settled
    <2>3. ServerGenuine'
      BY <2>1, <2>2, OpenStays, AnswerGenuine DEF GenuineInv, AllGenuine, ServerGenuine
    <2> QED
      BY <1>1, <2>2, <2>3
  <1>3. ASSUME NEW m \in requests, ServeRegister(m) PROVE AllGenuine'
    <2>1. /\ UNCHANGED <<issued, submitters, groupId>> /\ requests' \subseteq requests
          /\ group # None => group' = group
      BY <1>a, <1>3 DEF ServeRegister, Arrive, nodeVars
    <2>2. Settled
      BY <2>1 DEF Settled
    <2>3. ASSUME NEW q \in replies', q \notin replies PROVE GenuineReply(q)'
      <3>1. CASE group' # None /\ q = GroupRegisterResponse(m.src, TRUE, group')
        BY <3>1 DEF GroupRegisterResponse, GenuineReply
      <3>2. CASE q = GroupRegisterResponse(m.src, FALSE, None)
        BY <3>2 DEF GroupRegisterResponse, GenuineReply
      <3> QED
        BY <1>3, <2>3, <3>1, <3>2, NoneAssumption DEF ServeRegister
    <2>4. ServerGenuine'
      BY <2>1, <2>2, <2>3, OpenStays, AnswerGenuine DEF GenuineInv, AllGenuine, ServerGenuine
    <2> QED
      BY <1>1, <2>2, <2>4
  <1>4. ASSUME NEW m \in requests, ServeChallenge(m) PROVE AllGenuine'
    <2>1. /\ UNCHANGED <<group, submitters, groupId>> /\ requests' \subseteq requests
          /\ m.kind = "ChallengeRequest"
      BY <1>a, <1>4 DEF ServeChallenge, Arrive, nodeVars
    <2>2. Open
      BY <2>1 DEF GenuineInv, AllGenuine, ServerGenuine, GenuineRequest
    <2>3. CASE replies' = replies \cup {RoundResult(m.src, FALSE, completed)} /\ UNCHANGED issued
      <3>1. Settled
        BY <2>1, <2>3 DEF Settled
      <3>2. \A q \in replies' : q \in replies \/ GenuineReply(q)'
        BY <2>3 DEF RoundResult, GenuineReply
      <3> QED
        BY <1>1, <2>1, <2>2, <3>1, <3>2, OpenStays, AnswerGenuine
    <2>4. CASE /\ completed # 3
               /\ issued' \in IF issued[completed + 1] # None THEN {issued}
                              ELSE {[issued EXCEPT ![completed + 1] = v] :
                                   v \in {w \in Nonces : \A r \in Round : issued[r] # w}}
               /\ replies' = replies \cup
                    {ChallengeResponse(m.src, completed + 1, issued'[completed + 1])}
      <3>1. completed + 1 \in Round
        BY <1>b, <2>4 DEF Round
      <3>2. /\ issued'[completed + 1] # None
            /\ \A r \in Round : issued[r] # None => issued'[r] = issued[r]
        <4>1. CASE issued[completed + 1] # None
          BY <2>4, <4>1
        <4>2. CASE issued[completed + 1] = None
          <5>1. PICK v \in Nonces : issued' = [issued EXCEPT ![completed + 1] = v]
            BY <2>4, <4>2
          <5> QED
            BY <1>b, <3>1, <4>2, <5>1, NoneAssumption
        <4> QED
          BY <4>1, <4>2
      <3>3. Settled
        BY <2>1, <3>2 DEF Settled
      <3>4. ASSUME NEW q \in replies', q \notin replies PROVE GenuineReply(q)'
        <4>1. q = ChallengeResponse(m.src, completed + 1, issued'[completed + 1])
          BY <2>4, <3>4
        <4>2. /\ q.kind = "ChallengeResponse" /\ q.round = completed + 1
              /\ q.nonce = issued'[completed + 1]
          BY <4>1 DEF ChallengeResponse
        <4> QED
          BY <3>1, <3>2, <4>2 DEF GenuineReply, Issued
      <3> QED
        BY <1>1, <2>1, <2>2, <3>3, <3>4, OpenStays, AnswerGenuine
    <2> QED
      BY <1>4, <2>3, <2>4 DEF ServeChallenge
  <1>5. ASSUME NEW m \in requests, ServeBundle(m) PROVE AllGenuine'
    <2>1. /\ UNCHANGED <<group, issued, groupId>> /\ requests' \subseteq requests
          /\ replies' = replies \cup {RoundResult(m.src, Acceptable(m), m.round)}
          /\ m.src \in Node /\ m.round = LocalRound[m.src] /\ m.round \in Round
      BY <1>a, <1>b, <1>5, RoundFacts DEF ServeBundle, Arrive, nodeVars, Request,
         GenuineInv, OrderInv, RelayOrder, ServerOrder
    <2>2. IF Acceptable(m) THEN submitters' = [submitters EXCEPT ![m.round] = m.src]
          ELSE UNCHANGED submitters
      BY <1>5 DEF ServeBundle
    <2>3. \A r \in Round : submitters[r] # None /\ LocalRound[submitters[r]] = r
                               => submitters'[r] = submitters[r]
      <3>1. \A k \in Node : LocalRound[k] = m.round => k = m.src
        BY <2>1, RoundFacts DEF Node
      <3> QED
        BY <1>b, <2>1, <2>2, <3>1
    <2>4. Settled
      BY <2>1, <2>3 DEF Settled
    <2>5. ASSUME NEW q \in replies', q \notin replies PROVE GenuineReply(q)'
      <3>1. q = RoundResult(m.src, Acceptable(m), m.round)
        BY <2>1, <2>5
      <3>2. /\ q.kind = "RoundResult" /\ q.success = Acceptable(m) /\ q.round = m.round
            /\ q.dst = m.src
        BY <3>1 DEF RoundResult
      <3>3. Acceptable(m) => submitters'[m.round] = m.src
        BY <1>b, <2>1, <2>2
      <3> QED
        BY <2>1, <3>2, <3>3 DEF GenuineReply
    <2>6. ServerGenuine'
      BY <2>1, <2>4, <2>5, OpenStays, AnswerGenuine DEF GenuineInv, AllGenuine, ServerGenuine
    <2> QED
      BY <1>1, <2>4, <2>6
  <1> QED
    BY <1>2, <1>3, <1>4, <1>5 DEF ServerStep, Serve

LEMMA LoseGenuine ==
    ASSUME GenuineInv, Lose
    PROVE  AllGenuine'
  <1>1. UNCHANGED <<serverVars, nodeVars, backlog>> /\ datagrams' \subseteq datagrams
    BY DEF Lose
  <1>2. Settled
    BY <1>1, SteadySettled DEF serverVars, serverState, nodeVars
  <1> DEFINE none == {}
  <1>3. datagrams' \subseteq datagrams \cup none /\ \A d \in none : Genuine(d)'
    BY <1>1
  <1> HIDE DEF none
  <1>4. NetGenuine'
    BY <1>1, <1>2, <1>3, SendStays
  <1> QED
    BY <1>1, <1>4, NetStepGenuine DEF serverVars, serverState

LEMMA NextGenuine == GenuineInv /\ [Next]_vars => GenuineInv'
  <1> SUFFICES ASSUME GenuineInv, [Next]_vars PROVE GenuineInv'
    OBVIOUS
  <1>1. OrderInv'
    BY NextOrder DEF GenuineInv
  <1> SUFFICES AllGenuine'
    BY <1>1 DEF GenuineInv
  <1>2. ASSUME NEW n \in Node, NodeStep(n) PROVE AllGenuine'
    BY <1>2, WaitForGenuine, RegisterGenuine, BarrierStepGenuine, FollowGenuine,
       ChallengeGenuine, CollectGenuine, LeadEndGenuine, RetryGenuine, ExpireGenuine
       DEF NodeStep, OnDatagram, OnReply
  <1>3. CASE UNCHANGED vars
    <2>1. UNCHANGED <<serverState, requests, replies, nodeVars, netVars>>
      BY <1>3 DEF vars, serverVars, serverState
    <2>2. NetGenuine'
      BY <2>1, SteadySettled, NetUntouched DEF nodeVars
    <2> QED
      BY <2>1, <2>2, NetStepGenuine
  <1>4. CASE ServerStep
    BY <1>4, ServerStepGenuine
  <1>5. CASE Lose
    BY <1>5, LoseGenuine
  <1> QED
    BY <1>2, <1>3, <1>4, <1>5 DEF Next, Terminated

-----------------------------------------------------------------------------
LEMMA GenuineAlways == Spec => []GenuineInv
  <1>1. Init => GenuineInv
    BY InitTypeInv, InitOrder, InitGenuine DEF GenuineInv, OrderInv
  <1> QED
    BY <1>1, NextGenuine, PTL DEF Spec

\* Whatever is late, repeated or set aside by wait_for: signed_rounds of
\* _reply_to_nonce_broadcast never holds, for a round, anything but the nonce the
\* server issued for that round.
THEOREM SignaturesAreGenuine == Spec => []SignedIsIssued
  <1>1. GenuineInv => SignedIsIssued
    BY DEF GenuineInv, AllGenuine, NodeGenuine, SignedIsIssued
  <1> QED
    BY <1>1, GenuineAlways, PTL

\* What a nonce that is signed puts into the cache is already there, or nothing was.
LEMMA SignAgain ==
    ASSUME GenuineInv, NEW n \in Node, NEW m \in Received(n), m.kind = "Nonce", Sign(n, m),
           NEW k \in Node, NEW r \in Round, signed[k][r] # None
    PROVE  signed'[k][r] = signed[k][r]
  <1>1. signed \in [Node -> [Round -> MaybeNonce]]
    BY DEF GenuineInv, OrderInv, TypeInv, TypeOK, NodeTypeOK
  <1>2. CASE k = n /\ r = m.round
    <2>1. m.val = issued[r]
      BY <1>2, ReceivedGenuine DEF Genuine, Issued
    <2>2. signed[k][r] = issued[r]
      BY DEF GenuineInv, AllGenuine, NodeGenuine
    <2> QED
      BY <1>1, <1>2, <2>1, <2>2 DEF Sign
  <1>3. CASE ~(k = n /\ r = m.round)
    <2>1. CASE m.round \in Round
      BY <1>1, <1>3, <2>1 DEF Sign
    <2>2. CASE m.round \notin Round
      BY <2>2, ReceivedGenuine, DatagramFacts
    <2> QED
      BY <2>1, <2>2
  <1> QED
    BY <1>2, <1>3

\* Only the three places that answer a nonce sign.
LEMMA WhoSigns ==
    ASSUME [Next]_vars, UNCHANGED signed => FALSE
    PROVE  \E n \in Node : \E m \in Received(n) : m.kind = "Nonce" /\ Sign(n, m)
  <1>1. UNCHANGED signed \/ \E n \in Node : OnDatagram(n)
    <2>1. ASSUME NEW n \in Node, OnReply(n) PROVE UNCHANGED signed
      BY <2>1 DEF OnReply, Register, StartRegistration, RegistrationResult, Challenged,
         ChallengeOfOtherRound, FallbackChallenge, LeadRound, RoundResultTaken, nodeVars
    <2>2. ASSUME NEW n \in Node, Retry(n) PROVE UNCHANGED signed
      BY <2>2 DEF Retry, RegistrationRetry, GroupReadyRetry, ChallengeRetry, CollectRetry,
         BatonRetry, Resend, nodeVars
    <2>3. ASSUME NEW n \in Node, Expire(n) PROVE UNCHANGED signed
      BY <2>3 DEF Expire, RegistrationExpired, GroupReadyExpired, GroupReadyMissed,
         FollowExpired, BatonMissing, ChallengeExpired, BatonExpired, RoundResultExpired, Fail
    <2>4. ServerStep \/ Lose \/ Terminated \/ UNCHANGED vars => UNCHANGED signed
      BY DEF ServerStep, Lose, Terminated, vars, nodeVars
    <2> QED
      BY <2>1, <2>2, <2>3, <2>4 DEF Next, NodeStep, Finish
  <1>2. ASSUME NEW n \in Node, OnDatagram(n)
        PROVE  UNCHANGED signed \/ \E m \in Received(n) : m.kind = "Nonce" /\ Sign(n, m)
    <2>1. CASE WaitForDefers(n) \/ Barrier(n) \/ BatonAcked(n)
      BY <2>1 DEF WaitForDefers, Barrier, GroupReadyAcked, GroupReadyReceived, BatonAcked, nodeVars
    <2>2. CASE Follow(n)
      BY <2>2 DEF Follow, FollowCommon, FollowNonce, FollowDrop, IsFollowed, nodeVars
    <2>3. CASE AwaitBaton(n)
      BY <2>3 DEF AwaitBaton, AwaitBatonReply, BatonReceived
    <2>4. CASE Collect(n)
      BY <2>4 DEF Collect, CollectReply, CollectDrop, CollectSignature, SubmitBundle, nodeVars
    <2> QED
      BY <1>2, <2>1, <2>2, <2>3, <2>4 DEF OnDatagram
  <1> QED
    BY <1>1, <1>2

\* _reply_to_nonce_broadcast overwrites its cache when the nonce differs: it never does.
THEOREM NobodySignsTwice == Spec => SignedOnce
  <1>1. GenuineInv /\ [Next]_vars =>
            [\A n \in Node, r \in Round : signed[n][r] # None => signed'[n][r] = signed[n][r]]_vars
    BY WhoSigns, SignAgain
  <1> QED
    BY <1>1, GenuineAlways, PTL DEF Spec, SignedOnce

\* _lead_round submits a bundle only with the signatures of all three members over
\* the nonce of its round, in whatever order replies and repeated nonces arrive.
THEOREM BundlesAreComplete == Spec => []BundleIsComplete
  <1>1. GenuineInv => BundleIsComplete
    BY DEF GenuineInv, AllGenuine, ServerGenuine, GenuineRequest, Issued, BundleIsComplete
  <1> QED
    BY <1>1, GenuineAlways, PTL

\* _send_group_ready is a barrier: the first challenge, which starts the server's
\* clock, is issued only when both teammates know the registered group.
THEOREM BarrierPrecedesBudget == Spec => []BudgetStartsAfterBarrier
  <1>1. GenuineInv => BudgetStartsAfterBarrier
    BY DEF GenuineInv, AllGenuine, ServerGenuine, Open, Round, BudgetStartsAfterBarrier
  <1> QED
    BY <1>1, GenuineAlways, PTL

\* A member whose _lead_round reports "accepted" is the one the server recorded for
\* the round, however stale the RoundResult it found in its queue.
THEOREM AcceptedMeansRecorded == Spec => []AcceptedIsRecorded
  <1>1. GenuineInv => AcceptedIsRecorded
    BY DEF GenuineInv, AllGenuine, NodeGenuine, AcceptedIsRecorded
  <1> QED
    BY <1>1, GenuineAlways, PTL

-----------------------------------------------------------------------------
(* Where no request is delivered twice, the only bundle there ever is, A's *)
(* of round 1, finds the server in round 1, so only the budget refuses it. *)

IsBundle(m) == m.kind = "SignatureBundle"
Once ==
    /\ \A r \in Round : issued[r] # None => budget # "unstarted"
    /\ completed = 0 => \A r \in Round : submitters[r] = None
    /\ \A m \in requests : IsBundle(m) => m.src = "A" /\ completed = 0
    /\ \A m1, m2 \in requests : IsBundle(m1) /\ IsBundle(m2) => m1 = m2
    /\ \A m \in replies : m.kind = "RoundResult" /\ ~m.success => budget = "closed"
    /\ RejectedOnlyAfterBudget
OnceInv == GenuineInv /\ MaxDuplicates = 0 /\ Once

LEMMA InitOnce == Init => Once
  BY DEF Init, ServerInit, Once, RejectedOnlyAfterBudget

\* A node's step that submits nothing and takes no verdict.
LEMMA SteadyOnce ==
    ASSUME Once, UNCHANGED serverState, replies' \subseteq replies,
           \A m \in requests' : m \in requests \/ ~IsBundle(m),
           \A n \in Node : result'[n] = "rejected" => budget = "closed"
    PROVE  Once'
  BY DEF Once, serverState, IsBundle, RejectedOnlyAfterBudget

LEMMA UnjudgedOnce ==
    ASSUME OnceInv, UNCHANGED <<serverState, result>>, replies' \subseteq replies,
           \A m \in requests' : m \in requests \/ ~IsBundle(m)
    PROVE  Once'
  BY SteadyOnce DEF OnceInv, Once, RejectedOnlyAfterBudget

LEMMA SubmitOnce ==
    ASSUME OnceInv, NEW n \in Node, SubmitBundle(n)
    PROVE  Once'
  <1>1. PICK m \in Received(n) :
           /\ IsSignature(n, m) /\ missing[n] = {m.src}
           /\ RequestServer({SignatureBundle(n, groupId[n], LocalRound[n], sigs'[n])})
    BY Zenon DEF SubmitBundle
  <1>2. pc[n] = "collect" /\ UNCHANGED <<serverState, replies, result>>
    BY <1>1 DEF SubmitBundle, RequestServer
  <1>3. n = "A"
    <2>1. n # "B"
      BY <1>1, <1>2, SignatureOfA DEF OnceInv, GenuineInv, OrderInv, RelayOrder, LeadOrder
    <2>2. n # "C"
      BY <1>2, RoundFacts DEF OnceInv, GenuineInv, OrderInv, RelayOrder, OneLeaderAtATime,
         OnlyRoundOneCompletes, TypeInv, TypeOK, ServerTypeOK
    <2> QED
      BY <2>1, <2>2 DEF Node
  <1>4. completed = 0
    BY <1>2, <1>3 DEF Led, OnceInv, GenuineInv, OrderInv, RelayOrder, LeadOrder,
       OnlyRoundOneCompletes, TypeInv, TypeOK, ServerTypeOK
  <1>5. \A q \in requests : ~IsBundle(q)
    BY <1>2, <1>3 DEF OnceInv, Once, GenuineInv, OrderInv, RelayOrder, ServerOrder, Led, IsBundle
  <1>6. \A q \in requests' : q \in requests \/
           (q = SignatureBundle(n, groupId[n], LocalRound[n], sigs'[n]) /\ q.src = "A")
    BY <1>1, <1>3 DEF RequestServer, SignatureBundle
  <1> QED
    BY <1>2, <1>4, <1>5, <1>6 DEF OnceInv, Once, serverState, RejectedOnlyAfterBudget

LEMMA NodeOnce ==
    ASSUME OnceInv, NEW n \in Node, NodeStep(n)
    PROVE  Once'
  <1> USE DEF serverState, serverVars, RequestServer, TakeReply
  <1>1. CASE SubmitBundle(n)
    BY <1>1, SubmitOnce
  <1>2. CASE RoundResultTaken(n)
    <2>1. PICK m \in replies :
             /\ m.kind = "RoundResult" /\ TakeReply(m, {})
             /\ result' = [result EXCEPT ![n] = IF m.success THEN "accepted" ELSE "rejected"]
      BY <1>2 DEF RoundResultTaken, RepliesTo
    <2>2. result \in [Node -> {"none", "accepted", "rejected", "unknown"}]
      BY DEF OnceInv, GenuineInv, OrderInv, TypeInv, TypeOK, NodeTypeOK
    <2>3. \A k \in Node : result'[k] = "rejected" => budget = "closed"
      BY <2>1, <2>2 DEF OnceInv, Once, RejectedOnlyAfterBudget
    <2> QED
      BY <2>1, <2>3, SteadyOnce DEF OnceInv
  <1>3. CASE RoundResultExpired(n)
    <2>1. result \in [Node -> {"none", "accepted", "rejected", "unknown"}]
      BY DEF OnceInv, GenuineInv, OrderInv, TypeInv, TypeOK, NodeTypeOK
    <2>2. \A k \in Node : result'[k] = "rejected" => budget = "closed"
      BY <1>3, <2>1 DEF RoundResultExpired, OnceInv, Once, RejectedOnlyAfterBudget
    <2> QED
      BY <1>3, <2>2, SteadyOnce DEF RoundResultExpired, OnceInv
  <1>4. CASE WaitForDefers(n) \/ Follow(n) \/ AwaitBatonReply(n) \/ CollectReply(n)
             \/ CollectDrop(n) \/ CollectSignature(n) \/ BatonAcked(n) \/ GroupReadyReceived(n)
    <2>1. UNCHANGED <<serverVars, result>>
      BY <1>4 DEF WaitForDefers, Follow, FollowCommon, FollowNonce, FollowDrop, AwaitBatonReply,
         CollectReply, CollectDrop, CollectSignature, BatonAcked, GroupReadyReceived, nodeVars
    <2> QED
      BY <2>1, UnjudgedOnce
  <1>5. CASE GroupReadyAcked
    <2>1. UNCHANGED <<serverState, result, replies>>
      BY <1>5 DEF GroupReadyAcked
    <2>2. requests' = requests \/ requests' = requests \cup {ChallengeRequest("A", groupId["A"])}
      BY <1>5 DEF GroupReadyAcked
    <2> QED
      BY <2>1, <2>2, UnjudgedOnce DEF IsBundle, ChallengeRequest
  <1>6. CASE StartRegistration \/ RegistrationResult
    <2>1. /\ UNCHANGED <<serverState, result>> /\ replies' \subseteq replies
          /\ requests' \subseteq requests \cup {GroupRegister("A")}
      BY <1>6 DEF StartRegistration, RegistrationResult
    <2> QED
      BY <2>1, UnjudgedOnce DEF IsBundle, GroupRegister
  <1>10. CASE BatonReceived(n) \/ BatonMissing(n) \/ Challenged(n)
    <2>1. UNCHANGED <<serverState, result>> /\ replies' \subseteq replies
      BY <1>10 DEF BatonReceived, BatonMissing, Challenged, ChallengeOfOtherRound,
         FallbackChallenge, LeadRound, nodeVars
    <2>2. requests' \subseteq requests \cup {ChallengeRequest(n, groupId[n])}
      BY <1>10 DEF BatonReceived, BatonMissing, Challenged, ChallengeOfOtherRound,
         FallbackChallenge, LeadRound
    <2> QED
      BY <2>1, <2>2, UnjudgedOnce DEF IsBundle, ChallengeRequest
  <1>7. CASE Retry(n)
    <2>1. /\ UNCHANGED <<serverState, result, replies>>
          /\ \A q \in requests' : q \in requests \/ q.kind \in {"GroupRegister", "ChallengeRequest"}
      BY <1>7 DEF Retry, RegistrationRetry, GroupReadyRetry, ChallengeRetry, CollectRetry,
         BatonRetry, Resend, GroupRegister, ChallengeRequest, nodeVars
    <2> QED
      BY <2>1, UnjudgedOnce DEF IsBundle
  <1>8. CASE Finish(n) \/ BatonExpired(n) \/ (\E k \in Node : Fail(k))
    <2>1. UNCHANGED <<serverVars, result>>
      BY <1>8 DEF Finish, BatonExpired, Fail
    <2> QED
      BY <2>1, UnjudgedOnce
  <1>9. Expire(n) => \/ BatonMissing(n) \/ BatonExpired(n) \/ RoundResultExpired(n)
                     \/ \E k \in Node : Fail(k)
    BY DEF Expire, RegistrationExpired, GroupReadyExpired, GroupReadyMissed, FollowExpired,
       ChallengeExpired
  <1> QED
    BY <1>1, <1>2, <1>3, <1>4, <1>5, <1>6, <1>7, <1>8, <1>9,
       <1>10 DEF NodeStep, OnDatagram, OnReply, Barrier, Register, AwaitBaton, Collect

LEMMA ServerOnce ==
    ASSUME OnceInv, ServerStep
    PROVE  Once'
  <1>a. UNCHANGED result /\ duplicates \in Nat /\ completed \in 0..1
    BY DEF ServerStep, nodeVars, OnceInv, GenuineInv, OrderInv, TypeInv, TypeOK, ServerTypeOK,
           RelayOrder, OnlyRoundOneCompletes
  <1>b. ASSUME NEW m, Arrive(m) PROVE requests' = requests \ {m}
    BY <1>a, <1>b DEF Arrive, OnceInv
  <1>1. CASE BudgetCloses
    BY <1>a, <1>1 DEF BudgetCloses, OnceInv, Once, RejectedOnlyAfterBudget
  <1>2. ASSUME NEW m \in requests, ServeRegister(m) PROVE Once'
    <2>1. /\ UNCHANGED <<issued, submitters, completed, budget>> /\ requests' \subseteq requests
          /\ \A q \in replies' : q \in replies \/ q.kind = "GroupRegisterResponse"
      BY <1>2 DEF ServeRegister, Arrive, GroupRegisterResponse
    <2> QED
      BY <1>a, <2>1 DEF OnceInv, Once, RejectedOnlyAfterBudget
  <1>3. ASSUME NEW m \in requests, ServeChallenge(m) PROVE Once'
    <2>1. UNCHANGED <<group, submitters, completed>> /\ requests' \subseteq requests
          /\ m.group = group
      BY <1>3 DEF ServeChallenge, Arrive, OnceInv, GenuineInv, AllGenuine, ServerGenuine,
         GenuineRequest
    <2>2. CASE budget = "closed"
      <3>1. UNCHANGED <<issued, budget>>
        BY <1>3, <2>2 DEF ServeChallenge
      <3> QED
        BY <1>a, <2>1, <2>2, <3>1 DEF OnceInv, Once, RejectedOnlyAfterBudget
    <2>3. CASE budget # "closed"
      <3> DEFINE reply == ChallengeResponse(m.src, completed + 1, issued'[completed + 1])
      <3>0. ~(m.group # group \/ completed = 3 \/ budget = "closed")
        BY <1>a, <2>1, <2>3
      <3>1. budget' = "open" /\ replies' = replies \cup {reply}
        BY <1>3, <3>0, Zenon DEF ServeChallenge
      <3>2. \A q \in replies' : q \in replies \/ q.kind = "ChallengeResponse"
        BY <3>1 DEF ChallengeResponse
      <3> QED
        BY <1>a, <2>1, <2>3, <3>1, <3>2 DEF OnceInv, Once, RejectedOnlyAfterBudget
    <2> QED
      BY <2>2, <2>3
  <1>4. ASSUME NEW m \in requests, ServeBundle(m) PROVE Once'
    <2>1. /\ UNCHANGED <<group, issued, budget>> /\ requests' = requests \ {m}
          /\ replies' = replies \cup {RoundResult(m.src, Acceptable(m), m.round)}
          /\ IsBundle(m) /\ m.src = "A" /\ m.round = 1 /\ completed = 0
      BY <1>b, <1>4, RoundFacts DEF ServeBundle, IsBundle, OnceInv, Once, GenuineInv, OrderInv,
         RelayOrder, ServerOrder
    <2>2. \A q \in requests' : ~IsBundle(q)
      BY <2>1 DEF OnceInv, Once
    <2>3. ~Acceptable(m) => budget = "closed"
      <3>1. m.group = group /\ \A k \in Node : issued[1] # None /\ m.sigs[k] = issued[1]
        BY <2>1 DEF IsBundle, OnceInv, GenuineInv, AllGenuine, ServerGenuine, GenuineRequest, Issued
      <3>2. issued[1] # None /\ 1 \in Round /\ budget \in {"unstarted", "open", "closed"}
        BY <3>1 DEF Node, Round, OnceInv, GenuineInv, OrderInv, TypeInv, TypeOK, ServerTypeOK
      <3>3. \A r \in Round : submitters[r] # m.src
        BY <2>1, NoneAssumption DEF OnceInv, Once
      <3> QED
        BY <2>1, <3>1, <3>2, <3>3 DEF Acceptable, OnceInv, Once
    <2>4. \A q \in replies' : q \in replies \/ (q.success = Acceptable(m))
      BY <2>1 DEF RoundResult
    <2>5. completed' = 0 => UNCHANGED submitters
      BY <1>4, <2>1 DEF ServeBundle
    <2> QED
      BY <1>a, <2>1, <2>2, <2>3, <2>4, <2>5 DEF OnceInv, Once, RejectedOnlyAfterBudget
  <1> QED
    BY <1>1, <1>2, <1>3, <1>4 DEF ServerStep, Serve

LEMMA NextOnce == OnceInv /\ [Next]_vars => OnceInv'
  <1> SUFFICES ASSUME OnceInv, [Next]_vars PROVE OnceInv'
    OBVIOUS
  <1>1. GenuineInv' /\ MaxDuplicates = 0
    BY NextGenuine DEF OnceInv
  <1> SUFFICES Once'
    BY <1>1 DEF OnceInv
  <1>2. CASE ServerStep
    BY <1>2, ServerOnce
  <1>3. CASE Lose \/ UNCHANGED vars
    BY <1>3, UnjudgedOnce DEF Lose, vars, serverVars, serverState, nodeVars
  <1> QED
    BY <1>2, <1>3, NodeOnce DEF Next, Terminated

\* When no request to the server is delivered twice, the client never earns a
\* "wrong round" or "invalid signature": a verdict it takes for a refusal
\* (_lead_round) means that the ten seconds were over.
THEOREM RefusedMeansLate ==
    ASSUME MaxDuplicates = 0
    PROVE  Spec => []RejectedOnlyAfterBudget
  <1>1. Init => OnceInv
    BY InitTypeInv, InitOrder, InitGenuine, InitOnce DEF OnceInv, GenuineInv, OrderInv
  <1>2. OnceInv => RejectedOnlyAfterBudget
    BY DEF OnceInv, Once
  <1> QED
    BY <1>1, <1>2, NextOnce, PTL DEF Spec

-----------------------------------------------------------------------------
(* The relay implements RelayTurn.  What is added to the invariant: a nonce *)
(* comes from a leader that has not given up, a signature from a member     *)
(* whose cache holds it, and whoever a leader does not miss has signed.     *)

Leads(n) == pc[n] = "collect" \/ Led(n)
HasSigned(n, r) == signed[n][r] # None

Endorsed(m) ==
    /\ m.kind = "Nonce" => Leads(m.src)
    /\ m.kind = "SignatureReply" => HasSigned(m.src, m.round)
NetEndorsed ==
    /\ \A m \in datagrams : Endorsed(m)
    /\ \A n \in Node : \A i \in 1..Len(backlog[n]) : Endorsed(backlog[n][i])
LeaderEndorsed(n) ==
    /\ Leads(n) => \A k \in Node \ (missing[n] \cup {n}) : HasSigned(k, LocalRound[n])
    /\ Led(n) => missing[n] = {}
AllEndorsed ==
    /\ NetEndorsed
    /\ \A n \in Node : LeaderEndorsed(n)
    /\ \A n \in Node, r \in Round : HasSigned(n, r) => Leads(SubmitterForRound(r))
EndorseInv == GenuineInv /\ AllEndorsed

\* A leader stays one until the end, a signature is never taken back.
Grows ==
    \A n \in Node : /\ Leads(n) => Leads(n)'
                    /\ \A r \in Round : HasSigned(n, r) => HasSigned(n, r)'

LEMMA EndorsedNet ==
    ASSUME EndorseInv, Grows, NEW out, Moves(out), \A d \in out : Endorsed(d)'
    PROVE  NetEndorsed'
  <1>1. datagrams \subseteq Datagram /\ backlog \in [Node -> Seq(Datagram)]
    BY DEF EndorseInv, GenuineInv, OrderInv, TypeInv, TypeOK, NetTypeOK
  <1>2. ASSUME NEW d \in Datagram, Endorsed(d) PROVE Endorsed(d)'
    BY <1>2, DatagramFacts DEF Endorsed, Grows
  <1>3. \A d \in datagrams : Endorsed(d)'
    BY <1>1, <1>2 DEF EndorseInv, AllEndorsed, NetEndorsed
  <1>4. ASSUME NEW k \in Node, NEW j \in 1..Len(backlog[k]), NEW d, d = backlog[k][j]
        PROVE  Endorsed(d)'
    <2>1. d \in Datagram
      BY <1>1, <1>4
    <2>2. Endorsed(d)
      BY <1>4 DEF EndorseInv, AllEndorsed, NetEndorsed
    <2> QED
      BY <2>1, <2>2, <1>2
  <1>5. ASSUME NEW d \in datagrams' PROVE Endorsed(d)'
    BY <1>3 DEF Moves
  <1>6. ASSUME NEW k \in Node, NEW i \in 1..Len(backlog'[k]), NEW d, d = backlog'[k][i]
        PROVE  Endorsed(d)'
    BY <1>3, <1>4, <1>6 DEF Moves
  <1> QED
    BY <1>5, <1>6 DEF NetEndorsed

LEMMA ReceivedEndorsed ==
    ASSUME EndorseInv, NEW n \in Node, NEW m \in Received(n)
    PROVE  Endorsed(m)
  <1>1. CASE backlog[n] = <<>>
    BY <1>1 DEF Received, EndorseInv, AllEndorsed, NetEndorsed
  <1>2. CASE backlog[n] # <<>>
    <2>1. backlog[n] \in Seq(Datagram)
      BY DEF EndorseInv, GenuineInv, OrderInv, TypeInv, TypeOK, NetTypeOK
    <2>2. m = backlog[n][1] /\ 1 \in 1..Len(backlog[n])
      BY <1>2, <2>1 DEF Received
    <2> QED
      BY <2>2 DEF EndorseInv, AllEndorsed, NetEndorsed
  <1> QED
    BY <1>1, <1>2

\* How a state of the relay looks to RelayTurn.
Mapped ==
    LET s == SubmitterForRound(completed + 1) IN
    /\ completed + 1 \in Round /\ s \in Node /\ LocalRound[s] = completed + 1
    /\ Turn(completed + 1) = IF pc[s] = "collect" THEN "collecting"
                             ELSE IF Led(s) THEN "submitted" ELSE "idle"
    /\ Signers(completed + 1) = IF Leads(s) THEN {n \in Node : HasSigned(n, completed + 1)} \cup {s}
                                ELSE {}

LEMMA Mapping == OrderInv => Mapped
  <1> SUFFICES ASSUME OrderInv PROVE Mapped
    OBVIOUS
  <1> DEFINE s == SubmitterForRound(completed + 1)
  <1>1. completed + 1 \in Round /\ ~(completed + 1 > 3)
    BY DEF OrderInv, RelayOrder, OnlyRoundOneCompletes, TypeInv, TypeOK, ServerTypeOK, Round
  <1>2. s \in Node /\ LocalRound[s] = completed + 1
    BY <1>1, RoundFacts
  <1>3. Turn(completed + 1) = Leading(s)
    BY <1>1 DEF Turn
  <1>4. Leading(s) = IF pc[s] = "collect" THEN "collecting"
                     ELSE IF Led(s) THEN "submitted" ELSE "idle"
    BY DEF Leading, Led
  <1>5. Signers(completed + 1) =
           IF Leads(s) THEN {n \in Node : HasSigned(n, completed + 1)} \cup {s} ELSE {}
    BY <1>3, <1>4 DEF Signers, Leads, HasSigned
  <1> QED
    BY <1>1, <1>2, <1>3, <1>4, <1>5 DEF Mapped

\* What a step has to show.
Keeps == AllEndorsed' /\ [Relay!TurnNext]_(Relay!turnVars)

\* Leaders are where they were; a leader only gives up missing who has signed.
Same ==
    \A k \in Node : /\ pc'[k] = "collect" <=> pc[k] = "collect"
                    /\ Led(k)' <=> Led(k)
StillMissing ==
    \A k \in Node : Leads(k) =>
        \/ missing'[k] = missing[k]
        \/ pc[k] = "collect" /\ \A j \in missing[k] \ missing'[k] : HasSigned(j, LocalRound[k])

\* At most one signature is added, of a round that is being led.
Endorses(n) ==
    \/ UNCHANGED signed
    \/ \E r \in Round : /\ Leads(SubmitterForRound(r)) /\ HasSigned(n, r)'
                        /\ \A k \in Node, q \in Round :
                              k # n \/ q # r => signed'[k][q] = signed[k][q]

LEMMA SteadyStep ==
    ASSUME EndorseInv, OrderInv', completed' = completed, Same, StillMissing,
           NEW n \in Node, Endorses(n), NEW out, Moves(out), \A d \in out : Endorsed(d)'
    PROVE  Keeps
  <1>1. Grows
    BY DEF Grows, Same, Leads, Endorses, HasSigned
  <1>2. NetEndorsed'
    BY <1>1, EndorsedNet
  <1>3. \A k \in Node : Leads(k)' <=> Leads(k)
    BY DEF Same, Leads
  <1>4. \A k \in Node : LeaderEndorsed(k)'
    <2> SUFFICES ASSUME NEW k \in Node, Leads(k) PROVE LeaderEndorsed(k)'
      BY <1>3 DEF LeaderEndorsed, Leads
    <2>1. LeaderEndorsed(k) /\ LocalRound[k] \in Round /\ (Led(k)' => Led(k) /\ pc[k] # "collect")
      BY RoundFacts DEF EndorseInv, AllEndorsed, Same, Led
    <2>2. \A j \in Node \ (missing'[k] \cup {k}) : HasSigned(j, LocalRound[k])
      BY <2>1 DEF LeaderEndorsed, StillMissing
    <2>3. \A j \in Node \ (missing'[k] \cup {k}) : HasSigned(j, LocalRound[k])'
      BY <1>1, <2>1, <2>2 DEF Grows
    <2>4. Led(k)' => missing'[k] = {}
      BY <2>1 DEF LeaderEndorsed, StillMissing
    <2> QED
      BY <2>3, <2>4 DEF LeaderEndorsed
  <1>5. \A k \in Node, r \in Round : HasSigned(k, r)' => Leads(SubmitterForRound(r))'
    BY <1>3, RoundFacts DEF EndorseInv, AllEndorsed, Endorses, HasSigned
  <1> DEFINE r0 == completed + 1
             s == SubmitterForRound(r0)
  <1>6. Mapped /\ Mapped'
    BY Mapping, PTL DEF EndorseInv, GenuineInv
  <1>7. /\ r0 \in Round /\ s \in Node /\ LocalRound[s] = r0
        /\ Turn(r0) = IF pc[s] = "collect" THEN "collecting" ELSE IF Led(s) THEN "submitted" ELSE "idle"
        /\ Signers(r0) = IF Leads(s) THEN {k \in Node : HasSigned(k, r0)} \cup {s} ELSE {}
    BY <1>6 DEF Mapped
  <1>8. /\ Turn(r0)' = IF pc'[s] = "collect" THEN "collecting" ELSE IF Led(s)' THEN "submitted" ELSE "idle"
        /\ Signers(r0)' = IF Leads(s)' THEN {k \in Node : HasSigned(k, r0)'} \cup {s} ELSE {}
    BY <1>6 DEF Mapped, SubmitterForRound
  <1>9. Turn(r0)' = Turn(r0)
    BY <1>7, <1>8 DEF Same
  <1>10. Signers(r0)' = Signers(r0) \/ Relay!Endorse
    <2>1. CASE {k \in Node : HasSigned(k, r0)'} \cup {s} = {k \in Node : HasSigned(k, r0)} \cup {s}
      BY <1>3, <1>7, <1>8, <2>1
    <2>2. CASE /\ {k \in Node : HasSigned(k, r0)'} \cup {s} # {k \in Node : HasSigned(k, r0)} \cup {s}
      <3>1. /\ n # s /\ ~HasSigned(n, r0) /\ HasSigned(n, r0)' /\ Leads(s)
            /\ \A k \in Node : k # n => (HasSigned(k, r0)' <=> HasSigned(k, r0))
        BY <1>7, <2>2 DEF Endorses, HasSigned
      <3>2. pc[s] = "collect"
        BY <1>7, <3>1 DEF Leads, EndorseInv, AllEndorsed, LeaderEndorsed
      <3>3. Turn(r0) = "collecting" /\ n \in Node \ Signers(r0)
        BY <1>7, <3>1, <3>2
      <3>4. Signers(r0)' = Signers(r0) \cup {n}
        BY <1>3, <1>7, <1>8, <3>1
      <3> QED
        BY <1>9, <3>3, <3>4 DEF Relay!Endorse
    <2> QED
      BY <2>1, <2>2
  <1>11. [Relay!TurnNext]_(Relay!turnVars)
    BY <1>9, <1>10 DEF Relay!TurnNext, Relay!turnVars
  <1> QED
    BY <1>2, <1>4, <1>5, <1>11 DEF Keeps, AllEndorsed

\* A step that sends neither nonce nor signature, and signs nothing.
LEMMA SilentStep ==
    ASSUME EndorseInv, OrderInv', UNCHANGED <<signed, completed>>, Same, StillMissing,
           NEW out, Moves(out), \A d \in out : d.kind \notin {"Nonce", "SignatureReply"}
    PROVE  Keeps
  <1>1. Endorses("A") /\ "A" \in Node
    BY DEF Endorses, Node
  <1>2. \A d \in out : Endorsed(d)'
    BY DEF Endorsed
  <1> QED
    BY <1>1, <1>2, SteadyStep

\* ... and leaves the network alone, or only loses messages.
LEMMA LocalStep ==
    ASSUME EndorseInv, OrderInv', UNCHANGED <<signed, completed, backlog>>, Same, StillMissing,
           datagrams' \subseteq datagrams
    PROVE  Keeps
  <1> DEFINE none == {}
  <1>1. Moves(none) /\ \A d \in none : d.kind \notin {"Nonce", "SignatureReply"}
    BY DEF Moves
  <1> HIDE DEF none
  <1> QED
    BY <1>1, SilentStep

LEMMA SameByGoto ==
    ASSUME EndorseInv, NEW n \in Node, NEW l \in Location \ {"collect"}, Goto(n, l),
           pc[n] # "collect", Led(n) <=> l \in {"await_result", "finishing", "done"}
    PROVE  Same
  BY DEF Goto, Same, Led, EndorseInv, GenuineInv, OrderInv, TypeInv, TypeOK, NodeTypeOK

LEMMA SameByStay ==
    ASSUME UNCHANGED pc
    PROVE  Same
  BY DEF Same, Led

LEMMA MissingStays ==
    ASSUME UNCHANGED missing
    PROVE  StillMissing
  BY DEF StillMissing

\* The messages of group and baton, and the nonce a leader repeats.
LEMMA SentEndorsed ==
    ASSUME NEW n \in Node
    PROVE  /\ \A k, g : GroupReady(k, g).kind \notin {"Nonce", "SignatureReply"}
           /\ \A m : \A d \in CommonAck(n, m) : d.kind \notin {"Nonce", "SignatureReply"}
           /\ \A d \in {GroupReadyAck(n), BatonPass(n)} : d.kind \notin {"Nonce", "SignatureReply"}
           /\ \A k : BatonAck(n, k).kind \notin {"Nonce", "SignatureReply"}
           /\ Leads(n)' => \A k, v : Endorsed(Nonce(n, k, v))'
           /\ Leads(n)' => \A ds : \A d \in Rebroadcast(n, ds) : Endorsed(d)'
  <1>1. \A k, g : GroupReady(k, g).kind \notin {"Nonce", "SignatureReply"}
    BY DEF GroupReady
  <1>2. \A m : \A d \in CommonAck(n, m) : d.kind \notin {"Nonce", "SignatureReply"}
    BY DEF CommonAck, GroupReadyAck, BatonAck
  <1>3. /\ \A d \in {GroupReadyAck(n), BatonPass(n)} : d.kind \notin {"Nonce", "SignatureReply"}
        /\ \A k : BatonAck(n, k).kind \notin {"Nonce", "SignatureReply"}
    BY DEF GroupReadyAck, BatonPass, BatonAck
  <1>4. ASSUME Leads(n)', NEW k, NEW v, NEW d, d = Nonce(n, k, v) PROVE Endorsed(d)'
    <2>1. d.kind = "Nonce" /\ d.src = n
      BY <1>4 DEF Nonce
    <2> QED
      BY <1>4, <2>1 DEF Endorsed
  <1>5. ASSUME Leads(n)', NEW ds, NEW d \in Rebroadcast(n, ds) PROVE Endorsed(d)'
    <2>1. d.kind = "Nonce" /\ d.src = n
      BY <1>5 DEF Rebroadcast, Nonce
    <2> QED
      BY <1>5, <2>1 DEF Endorsed
  <1> QED
    BY <1>1, <1>2, <1>3, <1>4, <1>5

\* A nonce that is answered is signed, for a round that is being led.
LEMMA SignEndorses ==
    ASSUME EndorseInv, NEW n \in Node, NEW m \in Received(n), m.kind = "Nonce", Sign(n, m)
    PROVE  Endorses(n) /\ \A d \in Signature(n, m) : Endorsed(d)'
  <1>1. /\ m \in Datagram /\ m.src \in Node /\ m.round \in Round /\ m.val # None
        /\ m.round = LocalRound[m.src] /\ Leads(m.src)
    <2>1. m \in Datagram /\ Genuine(m) /\ Timely(m) /\ Endorsed(m)
      BY ReceivedGenuine, ReceivedTimely, ReceivedEndorsed DEF EndorseInv, GenuineInv
    <2> QED
      BY <2>1, DatagramFacts DEF Genuine, Timely, Endorsed, Issued
  <1>2. Answered(m)
    BY <1>1, RoundFacts DEF Answered
  <1>3. signed' = [signed EXCEPT ![n][m.round] = m.val]
    BY <1>2 DEF Sign
  <1>4. signed \in [Node -> [Round -> MaybeNonce]]
    BY DEF EndorseInv, GenuineInv, OrderInv, TypeInv, TypeOK, NodeTypeOK
  <1>5. /\ HasSigned(n, m.round)'
        /\ \A k \in Node, q \in Round : k # n \/ q # m.round => signed'[k][q] = signed[k][q]
    BY <1>1, <1>3, <1>4 DEF HasSigned
  <1>6. Endorses(n)
    BY <1>1, <1>2, <1>5 DEF Endorses, Answered
  <1>7. ASSUME NEW d \in Signature(n, m) PROVE Endorsed(d)'
    <2>1. d.kind = "SignatureReply" /\ d.src = n /\ d.round = m.round
      BY <1>7 DEF Signature, SignatureReply
    <2> QED
      BY <1>5, <2>1 DEF Endorsed, HasSigned
  <1> QED
    BY <1>6, <1>7

LEMMA SilentExchange ==
    ASSUME EndorseInv, OrderInv', NEW n \in Node, NEW m, NEW out, Exchange(n, m, out),
           UNCHANGED <<signed, completed>>, Same, StillMissing,
           \A d \in out : d.kind \notin {"Nonce", "SignatureReply"}
    PROVE  Keeps
  BY ExchangeMoves, SilentStep DEF EndorseInv, GenuineInv, OrderInv

LEMMA RegisterKeeps ==
    ASSUME EndorseInv, OrderInv', Register
    PROVE  Keeps
  <1>a. "A" \in Node /\ missing \in [Node -> SUBSET Node]
    BY DEF Node, EndorseInv, GenuineInv, OrderInv, TypeInv, TypeOK, NodeTypeOK
  <1>1. CASE StartRegistration
    <2>1. UNCHANGED <<signed, completed, datagrams, backlog, missing>>
      BY <1>1 DEF StartRegistration, RequestServer, serverState, netVars
    <2>2. Same
      BY <1>a, <1>1, SameByGoto DEF StartRegistration, Location, Led
    <2> QED
      BY <2>1, <2>2, MissingStays, LocalStep
  <1>2. CASE RegistrationResult
    <2>1. PICK m : /\ TakeReply(m, {})
                   /\ \/ /\ Goto("A", "await_ack")
                         /\ missing' = [missing EXCEPT !["A"] = Node \ {"A"}]
                         /\ Send({GroupReady(d, m.group) : d \in Node \ {"A"}})
                      \/ Goto("A", "error") /\ UNCHANGED <<missing, netVars>>
      BY <1>2 DEF RegistrationResult
    <2>2. UNCHANGED <<signed, completed>> /\ pc["A"] = "await_registration"
      BY <1>2, <2>1 DEF RegistrationResult, TakeReply, serverState
    <2>3. Same
      BY <1>a, <2>1, <2>2, SameByGoto DEF Location, Led
    <2>4. StillMissing
      BY <1>a, <2>1, <2>2 DEF StillMissing, Leads, Led
    <2>5. CASE Send({GroupReady(d, m.group) : d \in Node \ {"A"}})
      <3>1. \A d \in {GroupReady(k, m.group) : k \in Node \ {"A"}} :
               d.kind \notin {"Nonce", "SignatureReply"}
        BY <1>a, SentEndorsed
      <3> QED
        BY <2>2, <2>3, <2>4, <2>5, <3>1, SendMoves, SilentStep DEF Send
    <2>6. CASE UNCHANGED netVars
      BY <2>2, <2>3, <2>4, <2>6, LocalStep DEF netVars
    <2> QED
      BY <2>1, <2>5, <2>6
  <1> QED
    BY <1>1, <1>2 DEF Register

LEMMA BarrierKeeps ==
    ASSUME EndorseInv, OrderInv', NEW n \in Node, Barrier(n)
    PROVE  Keeps
  <1>a. "A" \in Node /\ missing \in [Node -> SUBSET Node]
    BY DEF Node, EndorseInv, GenuineInv, OrderInv, TypeInv, TypeOK, NodeTypeOK
  <1>1. CASE GroupReadyAcked
    <2>1. PICK m \in Received("A") : LET rest == missing["A"] \ {m.src} IN
             /\ missing' = [missing EXCEPT !["A"] = rest]
             /\ Exchange("A", m, {GroupReady(d, groupId["A"]) : d \in rest})
             /\ \/ Goto("A", "await_challenge")
                   /\ RequestServer({ChallengeRequest("A", groupId["A"])})
                \/ UNCHANGED <<pc, serverVars>>
      BY <1>1 DEF GroupReadyAcked
    <2> DEFINE out == {GroupReady(d, groupId["A"]) : d \in missing["A"] \ {m.src}}
    <2>2. UNCHANGED <<signed, completed>> /\ pc["A"] = "await_ack" /\ Exchange("A", m, out)
      BY <1>1, <2>1 DEF GroupReadyAcked, RequestServer, serverState, serverVars
    <2>3. Same
      BY <1>a, <2>1, <2>2, SameByGoto, SameByStay DEF Location, Led
    <2>4. StillMissing
      BY <1>a, <2>1, <2>2 DEF StillMissing, Leads, Led
    <2>5. \A d \in out : d.kind \notin {"Nonce", "SignatureReply"}
      BY <1>a, SentEndorsed
    <2> HIDE DEF out
    <2> QED
      BY <1>a, <2>2, <2>3, <2>4, <2>5, SilentExchange
  <1>2. CASE GroupReadyReceived(n)
    <2>1. PICK m \in Received(n) : Exchange(n, m, {GroupReadyAck(n)})
      BY <1>2 DEF GroupReadyReceived
    <2>2. UNCHANGED <<signed, completed, missing>>
      BY <1>2 DEF GroupReadyReceived, serverVars
    <2>3. Same
      BY <1>2, SameByGoto DEF GroupReadyReceived, Location, Led
    <2>4. \A d \in {GroupReadyAck(n)} : d.kind \notin {"Nonce", "SignatureReply"}
      BY SentEndorsed
    <2> QED
      BY <2>1, <2>2, <2>3, <2>4, MissingStays, SilentExchange
  <1> QED
    BY <1>1, <1>2 DEF Barrier

LEMMA FollowKeeps ==
    ASSUME EndorseInv, OrderInv', NEW n \in Node, Follow(n) \/ AwaitBaton(n) \/ BatonMissing(n)
    PROVE  Keeps
  <1>1. ASSUME UNCHANGED <<completed, missing>>, Same, NEW m \in Received(n), m.kind = "Nonce",
               Sign(n, m), Exchange(n, m, Signature(n, m))
        PROVE  Keeps
    BY <1>1, SignEndorses, ExchangeMoves, MissingStays, SteadyStep DEF EndorseInv, GenuineInv, OrderInv
  <1>2. ASSUME UNCHANGED <<completed, missing, signed>>, Same, NEW m \in Received(n),
               Exchange(n, m, CommonAck(n, m))
        PROVE  Keeps
    BY <1>2, SentEndorsed, MissingStays, SilentExchange
  <1>3. CASE FollowCommon(n)
    <2>1. PICK m \in Received(n) : Exchange(n, m, CommonAck(n, m))
      BY <1>3 DEF FollowCommon
    <2> QED
      BY <1>2, <1>3, <2>1, SameByStay DEF FollowCommon, serverVars
  <1>4. CASE FollowNonce(n)
    <2>1. PICK m \in Received(n) : m.kind = "Nonce" /\ Sign(n, m) /\ Exchange(n, m, Signature(n, m))
      BY <1>4 DEF FollowNonce, IsFollowed
    <2>2. Same
      BY <1>4, SameByStay, SameByGoto DEF FollowNonce, Location, Led
    <2> QED
      BY <1>1, <1>4, <2>1, <2>2 DEF FollowNonce, serverVars
  <1>5. CASE FollowDrop(n)
    <2>1. PICK m \in Received(n) : Exchange(n, m, {})
      BY <1>5 DEF FollowDrop
    <2>2. UNCHANGED <<completed, missing, signed>> /\ Same
      BY <1>5, SameByStay DEF FollowDrop, serverVars, nodeVars
    <2>3. \A d \in {} : d.kind \notin {"Nonce", "SignatureReply"}
      OBVIOUS
    <2> QED
      BY <2>1, <2>2, <2>3, MissingStays, SilentExchange
  <1>6. CASE AwaitBatonReply(n)
    <2>1. PICK m \in Received(n) :
             \/ Exchange(n, m, CommonAck(n, m)) /\ UNCHANGED signed
             \/ m.kind = "Nonce" /\ Sign(n, m) /\ Exchange(n, m, Signature(n, m))
      BY <1>6 DEF AwaitBatonReply
    <2>2. UNCHANGED <<completed, missing>> /\ Same
      BY <1>6, SameByStay DEF AwaitBatonReply, serverVars
    <2> QED
      BY <1>1, <1>2, <2>1, <2>2
  <1>7. CASE BatonReceived(n)
    <2>1. PICK m \in Received(n) : Exchange(n, m, {BatonAck(n, m.src)})
      BY <1>7 DEF BatonReceived
    <2>2. UNCHANGED <<completed, missing, signed>>
      BY <1>7 DEF BatonReceived, RequestServer, serverState
    <2>3. Same
      BY <1>7, SameByGoto DEF BatonReceived, Location, Led
    <2>4. \A d \in {BatonAck(n, m.src)} : d.kind \notin {"Nonce", "SignatureReply"}
      BY SentEndorsed
    <2> QED
      BY <2>1, <2>2, <2>3, <2>4, MissingStays, SilentExchange
  <1>8. CASE BatonMissing(n)
    <2>1. UNCHANGED <<completed, missing, signed, datagrams, backlog>>
      BY <1>8 DEF BatonMissing, RequestServer, serverState, netVars
    <2>2. Same
      BY <1>8, SameByGoto DEF BatonMissing, Location, Led
    <2> QED
      BY <2>1, <2>2, MissingStays, LocalStep
  <1> QED
    BY <1>3, <1>4, <1>5, <1>6, <1>7, <1>8 DEF Follow, AwaitBaton

\* A node that takes the challenge of its round begins the turn.
LEMMA LeadKeeps ==
    ASSUME EndorseInv, OrderInv', NEW n \in Node, LeadRound(n)
    PROVE  Keeps
  <1>1. PICK m \in replies :
           /\ m.kind = "ChallengeResponse" /\ m.round = LocalRound[n]
           /\ TakeReply(m, {})
           /\ Send({Nonce(n, d, m.nonce) : d \in Node \ {n}})
    BY DEF LeadRound, RepliesTo
  <1>2. /\ UNCHANGED <<completed, signed>> /\ pc[n] = "await_challenge"
        /\ missing' = [missing EXCEPT ![n] = Node \ {n}] /\ pc' = [pc EXCEPT ![n] = "collect"]
    BY <1>1 DEF LeadRound, TakeReply, Goto, serverState
  <1>3. pc \in [Node -> Location] /\ missing \in [Node -> SUBSET Node]
    BY DEF EndorseInv, GenuineInv, OrderInv, TypeInv, TypeOK, NodeTypeOK
  <1>4. /\ pc'[n] = "collect" /\ ~Leads(n) /\ Leads(n)' /\ ~Led(n)'
        /\ \A k \in Node \ {n} : pc'[k] = pc[k] /\ missing'[k] = missing[k]
        /\ missing'[n] = Node \ {n}
    BY <1>2, <1>3 DEF Leads, Led
  <1>5. \A k \in Node \ {n} : (Leads(k)' <=> Leads(k)) /\ (Led(k)' <=> Led(k))
    BY <1>4 DEF Leads, Led
  <1>6. Grows
    BY <1>2, <1>4, <1>5 DEF Grows, HasSigned
  <1>7. NetEndorsed'
    <2>1. \A d \in {Nonce(n, k, m.nonce) : k \in Node \ {n}} : Endorsed(d)'
      BY <1>4, SentEndorsed
    <2> QED
      BY <1>1, <1>6, <2>1, SendMoves, EndorsedNet DEF Send
  <1>8. \A k \in Node : LeaderEndorsed(k)'
    BY <1>2, <1>4, <1>5 DEF LeaderEndorsed, HasSigned, EndorseInv, AllEndorsed
  <1>9. \A k \in Node, r \in Round : HasSigned(k, r)' => Leads(SubmitterForRound(r))'
    BY <1>2, <1>6, RoundFacts DEF HasSigned, Grows, EndorseInv, AllEndorsed
  <1>10. n = SubmitterForRound(completed + 1)
    <2>1. completed >= LocalRound[n] - 1 /\ completed \in 0..1
      BY <1>1 DEF EndorseInv, GenuineInv, OrderInv, RelayOrder, ServerOrder, OnlyRoundOneCompletes,
         TypeInv, TypeOK, ServerTypeOK
    <2>2. ~(n = "A" /\ completed = 1)
      BY <1>2 DEF Led, EndorseInv, GenuineInv, OrderInv, RelayOrder, LeadOrder
    <2>3. LocalRound[n] = completed + 1
      BY <2>1, <2>2, RoundFacts DEF Node
    <2> QED
      BY <2>3, RoundFacts
  <1> DEFINE r0 == completed + 1
  <1>11. Mapped /\ Mapped'
    BY Mapping, PTL DEF EndorseInv, GenuineInv
  <1>12. r0 \in Round /\ Turn(r0) = "idle"
    BY <1>4, <1>10, <1>11 DEF Mapped, Leads
  <1>13. \A k \in Node : ~HasSigned(k, r0)
    BY <1>4, <1>10, <1>12 DEF EndorseInv, AllEndorsed
  <1>14. Turn(r0)' = "collecting" /\ Signers(r0)' = {n}
    <2>1. Turn(r0)' = "collecting"
      BY <1>2, <1>4, <1>10, <1>11 DEF Mapped, SubmitterForRound
    <2>2. Signers(r0)' = {k \in Node : HasSigned(k, r0)'} \cup {n}
      BY <1>2, <1>4, <1>10, <1>11 DEF Mapped, SubmitterForRound
    <2> QED
      BY <1>2, <1>13, <2>1, <2>2 DEF HasSigned
  <1>15. Relay!Begin
    BY <1>2, <1>10, <1>12, <1>14 DEF Relay!Begin, SubmitterForRound, Round
  <1> QED
    BY <1>7, <1>8, <1>9, <1>15 DEF Keeps, AllEndorsed, Relay!TurnNext

LEMMA ChallengeKeeps ==
    ASSUME EndorseInv, OrderInv', NEW n \in Node, Challenged(n)
    PROVE  Keeps
  <1>1. CASE ChallengeOfOtherRound(n)
    <2>1. UNCHANGED <<completed, missing, signed, datagrams, backlog, pc>>
      BY <1>1 DEF ChallengeOfOtherRound, TakeReply, serverState, netVars, nodeVars
    <2> QED
      BY <2>1, SameByStay, MissingStays, LocalStep
  <1>2. CASE FallbackChallenge(n)
    <2>1. UNCHANGED <<completed, missing, signed, datagrams, backlog>>
      BY <1>2 DEF FallbackChallenge, TakeReply, serverState, netVars
    <2>2. Same
      BY <1>2, SameByGoto DEF FallbackChallenge, Location, Led
    <2> QED
      BY <2>1, <2>2, MissingStays, LocalStep
  <1> QED
    BY <1>1, <1>2, LeadKeeps DEF Challenged

\* The last signature submits the turn: nobody is missing, so everybody has signed.
LEMMA SubmitKeeps ==
    ASSUME EndorseInv, OrderInv', NEW n \in Node, SubmitBundle(n)
    PROVE  Keeps
  <1>1. PICK m \in Received(n) :
           /\ IsSignature(n, m) /\ missing[n] = {m.src}
           /\ RequestServer({SignatureBundle(n, groupId[n], LocalRound[n], sigs'[n])})
           /\ (Exchange(n, m, {BatonPass(n)}) \/ Exchange(n, m, {}))
    BY DEF SubmitBundle
  <1>2. /\ UNCHANGED <<completed, signed>> /\ pc[n] = "collect"
        /\ missing' = [missing EXCEPT ![n] = {}] /\ pc' = [pc EXCEPT ![n] = "await_result"]
    BY <1>1 DEF SubmitBundle, RequestServer, Goto, serverState
  <1>3. pc \in [Node -> Location] /\ missing \in [Node -> SUBSET Node]
    BY DEF EndorseInv, GenuineInv, OrderInv, TypeInv, TypeOK, NodeTypeOK
  <1>4. /\ pc'[n] = "await_result" /\ Leads(n) /\ Leads(n)' /\ Led(n)' /\ missing'[n] = {}
        /\ \A k \in Node \ {n} : pc'[k] = pc[k] /\ missing'[k] = missing[k]
    BY <1>2, <1>3 DEF Leads, Led
  <1>5. \A k \in Node \ {n} : (Leads(k)' <=> Leads(k)) /\ (Led(k)' <=> Led(k))
    BY <1>4 DEF Leads, Led
  <1>6. Grows
    BY <1>2, <1>4, <1>5 DEF Grows, HasSigned
  <1>7. NetEndorsed'
    <2> DEFINE none == {}
    <2>1. (\A d \in none : Endorsed(d)') /\ (\A d \in {BatonPass(n)} : Endorsed(d)')
      BY SentEndorsed DEF Endorsed
    <2>2. Exchange(n, m, {BatonPass(n)}) \/ Exchange(n, m, none)
      BY <1>1
    <2> HIDE DEF none
    <2>3. Moves({BatonPass(n)}) \/ Moves(none)
      BY <2>2, ExchangeMoves DEF EndorseInv, GenuineInv, OrderInv
    <2> QED
      BY <1>6, <2>1, <2>3, EndorsedNet
  <1>8. \A k \in Node : k # n => HasSigned(k, LocalRound[n])
    <2>1. HasSigned(m.src, LocalRound[n])
      BY <1>1, ReceivedEndorsed DEF IsSignature, Endorsed
    <2>2. \A k \in Node \ {m.src, n} : HasSigned(k, LocalRound[n])
      BY <1>1, <1>4 DEF EndorseInv, AllEndorsed, LeaderEndorsed
    <2> QED
      BY <2>1, <2>2
  <1>9. \A k \in Node : LeaderEndorsed(k)'
    BY <1>2, <1>4, <1>5, <1>8 DEF LeaderEndorsed, HasSigned, EndorseInv, AllEndorsed
  <1>10. \A k \in Node, r \in Round : HasSigned(k, r)' => Leads(SubmitterForRound(r))'
    BY <1>2, <1>6, RoundFacts DEF HasSigned, Grows, EndorseInv, AllEndorsed
  <1>11. n = SubmitterForRound(completed + 1)
    <2>1. n # "B"
      BY <1>1, <1>2, SignatureOfA DEF EndorseInv, GenuineInv, OrderInv, RelayOrder, LeadOrder
    <2>2. n # "C" /\ completed \in 0..1
      BY <1>2, RoundFacts DEF EndorseInv, GenuineInv, OrderInv, RelayOrder, OneLeaderAtATime,
         OnlyRoundOneCompletes, TypeInv, TypeOK, ServerTypeOK
    <2>3. ~Led("A") \/ n # "A"
      BY <1>2 DEF Led
    <2>4. n = "A" /\ completed = 0
      BY <2>1, <2>2, <2>3 DEF Node, EndorseInv, GenuineInv, OrderInv, RelayOrder, LeadOrder
    <2> QED
      BY <2>4, RoundFacts
  <1> DEFINE r0 == completed + 1
  <1>12. Mapped /\ Mapped'
    BY Mapping, PTL DEF EndorseInv, GenuineInv
  <1>13. r0 = LocalRound[n]
    BY <1>11, <1>12 DEF Mapped
  <1>14. Turn(r0) = "collecting" /\ Signers(r0) = Node
    <2>1. Turn(r0) = "collecting" /\ Signers(r0) = {k \in Node : HasSigned(k, r0)} \cup {n}
      BY <1>2, <1>4, <1>11, <1>12 DEF Mapped
    <2> QED
      BY <1>8, <1>13, <2>1
  <1>15. Turn(r0)' = "submitted" /\ Signers(r0)' = Node
    <2>1. Turn(r0)' = "submitted"
      BY <1>2, <1>4, <1>11, <1>12 DEF Mapped, SubmitterForRound
    <2>2. Signers(r0)' = {k \in Node : HasSigned(k, r0)'} \cup {n}
      BY <1>2, <1>4, <1>11, <1>12 DEF Mapped, SubmitterForRound
    <2> QED
      BY <1>2, <1>8, <1>13, <2>1, <2>2 DEF HasSigned
  <1>16. Relay!Submit
    BY <1>2, <1>14, <1>15 DEF Relay!Submit
  <1> QED
    BY <1>7, <1>9, <1>10, <1>16 DEF Keeps, AllEndorsed, Relay!TurnNext

LEMMA CollectKeeps ==
    ASSUME EndorseInv, OrderInv', NEW n \in Node, Collect(n)
    PROVE  Keeps
  <1>a. TypeInv /\ missing \in [Node -> SUBSET Node]
    BY DEF EndorseInv, GenuineInv, OrderInv, TypeInv, TypeOK, NodeTypeOK
  <1>b. ASSUME UNCHANGED pc, pc[n] = "collect", NEW ds, NEW d \in Rebroadcast(n, ds)
        PROVE  Endorsed(d)'
    BY <1>b, SentEndorsed DEF Leads
  <1> DEFINE again == Rebroadcast(n, missing[n])
  <1>1. CASE CollectReply(n)
    <2>1. PICK m \in Received(n) :
             \/ Exchange(n, m, CommonAck(n, m) \cup again) /\ UNCHANGED signed
             \/ m.kind = "Nonce" /\ Sign(n, m) /\ Exchange(n, m, Signature(n, m) \cup again)
      BY <1>1 DEF CollectReply
    <2>2. UNCHANGED <<completed, missing, pc>> /\ pc[n] = "collect" /\ Same
      BY <1>1, SameByStay DEF CollectReply, serverVars
    <2>3. \A d \in again : Endorsed(d)'
      BY <1>b, <2>2
    <2> HIDE DEF again
    <2>4. CASE Exchange(n, m, CommonAck(n, m) \cup again) /\ UNCHANGED signed
      <3>1. \A d \in CommonAck(n, m) \cup again : Endorsed(d)'
        BY <2>3, SentEndorsed DEF Endorsed
      <3>2. Endorses(n)
        BY <2>4 DEF Endorses
      <3> QED
        BY <1>a, <2>2, <2>4, <3>1, <3>2, ExchangeMoves, MissingStays, SteadyStep
    <2>5. CASE m.kind = "Nonce" /\ Sign(n, m) /\ Exchange(n, m, Signature(n, m) \cup again)
      <3>1. Endorses(n) /\ \A d \in Signature(n, m) \cup again : Endorsed(d)'
        BY <2>3, <2>5, SignEndorses
      <3> QED
        BY <1>a, <2>2, <2>5, <3>1, ExchangeMoves, MissingStays, SteadyStep
    <2> QED
      BY <2>1, <2>4, <2>5
  <1>2. CASE CollectDrop(n)
    <2>1. PICK m \in Received(n) : Exchange(n, m, again)
      BY <1>2 DEF CollectDrop
    <2>2. UNCHANGED <<completed, missing, pc>> /\ pc[n] = "collect" /\ Same /\ Endorses(n)
      BY <1>2, SameByStay DEF CollectDrop, serverVars, nodeVars, Endorses
    <2>3. \A d \in again : Endorsed(d)'
      BY <1>b, <2>2
    <2> HIDE DEF again
    <2> QED
      BY <1>a, <2>1, <2>2, <2>3, ExchangeMoves, MissingStays, SteadyStep
  <1>3. CASE CollectSignature(n)
    <2>1. PICK m \in Received(n) :
             /\ IsSignature(n, m)
             /\ missing' = [missing EXCEPT ![n] = @ \ {m.src}]
             /\ Exchange(n, m, Rebroadcast(n, missing[n] \ {m.src}))
      BY <1>3 DEF CollectSignature
    <2>2. UNCHANGED <<completed, signed, pc>> /\ pc[n] = "collect" /\ Same /\ Endorses(n)
      BY <1>3, SameByStay DEF CollectSignature, serverVars, Endorses
    <2>3. HasSigned(m.src, LocalRound[n])
      BY <2>1, ReceivedEndorsed DEF IsSignature, Endorsed
    <2>4. StillMissing
      BY <1>a, <2>1, <2>2, <2>3 DEF StillMissing
    <2>5. \A d \in Rebroadcast(n, missing[n] \ {m.src}) : Endorsed(d)'
      BY <1>b, <2>2
    <2>6. Moves(Rebroadcast(n, missing[n] \ {m.src}))
      BY <1>a, <2>1, ExchangeMoves
    <2> QED
      BY <2>2, <2>4, <2>5, <2>6, SteadyStep
  <1> QED
    BY <1>1, <1>2, <1>3, SubmitKeeps DEF Collect

LEMMA LeadEndKeeps ==
    ASSUME EndorseInv, OrderInv', NEW n \in Node,
           BatonAcked(n) \/ BatonExpired(n) \/ RoundResultTaken(n) \/ RoundResultExpired(n)
              \/ Finish(n)
    PROVE  Keeps
  <1>1. ASSUME UNCHANGED <<completed, signed, missing, netVars>>,
               UNCHANGED pc \/ (Led(n) /\ pc[n] # "collect" /\ (Goto(n, "finishing") \/ Goto(n, "done")))
        PROVE  Keeps
    <2>1. Same
      BY <1>1, SameByStay, SameByGoto DEF Location
    <2> QED
      BY <1>1, <2>1, MissingStays, LocalStep DEF netVars
  <1>2. CASE BatonAcked(n)
    <2>1. PICK m \in Received(n) : Exchange(n, m, {})
      BY <1>2 DEF BatonAcked
    <2>2. UNCHANGED <<completed, signed, missing>> /\ Same
      BY <1>2, SameByStay DEF BatonAcked, serverVars
    <2>3. \A d \in {} : d.kind \notin {"Nonce", "SignatureReply"}
      OBVIOUS
    <2> QED
      BY <2>1, <2>2, <2>3, MissingStays, SilentExchange
  <1>3. CASE BatonExpired(n)
    BY <1>1, <1>3 DEF BatonExpired, serverVars
  <1>4. CASE RoundResultTaken(n)
    <2>1. UNCHANGED completed
      BY <1>4 DEF RoundResultTaken, TakeReply, serverState
    <2> QED
      BY <1>1, <1>4, <2>1 DEF RoundResultTaken, Led
  <1>5. CASE RoundResultExpired(n)
    BY <1>1, <1>5 DEF RoundResultExpired, serverVars, Led
  <1>6. CASE Finish(n)
    BY <1>1, <1>6 DEF Finish, serverVars, Led
  <1> QED
    BY <1>2, <1>3, <1>4, <1>5, <1>6

LEMMA RetryKeeps ==
    ASSUME EndorseInv, OrderInv', NEW n \in Node, Retry(n)
    PROVE  Keeps
  <1>1. ASSUME NEW k \in Node, NEW req, NEW out, Resend(k, req, out), \A d \in out : Endorsed(d)'
        PROVE  Keeps
    <2>1. /\ UNCHANGED <<completed, signed, missing, pc, backlog>>
          /\ datagrams' = datagrams \cup out
      BY <1>1 DEF Resend, RequestServer, serverState, nodeVars
    <2>2. Moves(out) /\ Endorses(n)
      BY <2>1, SendMoves DEF Endorses
    <2> QED
      BY <1>1, <2>1, <2>2, SameByStay, MissingStays, SteadyStep
  <1> DEFINE none == {}
  <1>2. \A d \in none : Endorsed(d)'
    OBVIOUS
  <1>3. "A" \in Node
    BY DEF Node
  <1> HIDE DEF none
  <1>4. CASE RegistrationRetry
    BY <1>1, <1>2, <1>3, <1>4 DEF RegistrationRetry, none
  <1>5. CASE GroupReadyRetry
    <2>1. \A d \in {GroupReady(k, groupId["A"]) : k \in missing["A"]} : Endorsed(d)'
      BY <1>3, SentEndorsed DEF Endorsed
    <2> QED
      BY <1>1, <1>3, <1>5, <2>1 DEF GroupReadyRetry
  <1>6. CASE ChallengeRetry(n)
    BY <1>1, <1>2, <1>6 DEF ChallengeRetry, none
  <1>7. CASE CollectRetry(n)
    <2>1. Leads(n)'
      BY <1>7 DEF CollectRetry, Resend, nodeVars, Leads
    <2>2. \A d \in Rebroadcast(n, missing[n]) : Endorsed(d)'
      BY <2>1, SentEndorsed
    <2> QED
      BY <1>1, <1>7, <2>2 DEF CollectRetry
  <1>8. CASE BatonRetry(n)
    <2>1. \A d \in {BatonPass(n)} : Endorsed(d)'
      BY SentEndorsed DEF Endorsed
    <2> QED
      BY <1>1, <1>8, <2>1 DEF BatonRetry
  <1> QED
    BY <1>4, <1>5, <1>6, <1>7, <1>8 DEF Retry

LEMMA ExpireKeeps ==
    ASSUME EndorseInv, OrderInv', NEW n \in Node, Expire(n)
    PROVE  Keeps
  <1>1. ASSUME NEW k \in Node, Fail(k), ~Leads(k) PROVE Keeps
    <2>1. UNCHANGED <<completed, signed, missing, datagrams, backlog>> /\ Goto(k, "error")
      BY <1>1 DEF Fail, serverVars, netVars
    <2>2. Same
      BY <1>1, <2>1, SameByGoto DEF Location, Leads
    <2> QED
      BY <2>1, <2>2, MissingStays, LocalStep
  <1>2. CASE BatonMissing(n)
    BY <1>2, FollowKeeps
  <1>3. CASE BatonExpired(n) \/ RoundResultExpired(n)
    BY <1>3, LeadEndKeeps
  <1>4. CASE (RegistrationExpired \/ GroupReadyExpired) /\ n = "A"
    BY <1>1, <1>4 DEF RegistrationExpired, GroupReadyExpired, Leads, Led
  <1>5. CASE GroupReadyMissed(n) \/ FollowExpired(n) \/ ChallengeExpired(n)
    BY <1>1, <1>5 DEF GroupReadyMissed, FollowExpired, ChallengeExpired, Polling, Leads, Led
  <1> QED
    BY <1>2, <1>3, <1>4, <1>5 DEF Expire

\* An accepted bundle passes the turn on, and nobody has begun the next one yet.
LEMMA ServerKeeps ==
    ASSUME EndorseInv, OrderInv', ServerStep
    PROVE  Keeps
  <1>1. UNCHANGED <<signed, missing, pc, datagrams, backlog>> /\ Same
    BY SameByStay DEF ServerStep, nodeVars, netVars
  <1>2. CASE completed' = completed
    BY <1>1, <1>2, MissingStays, LocalStep
  <1>3. CASE completed' # completed
    <2>1. PICK m \in requests : ServeBundle(m) /\ Acceptable(m)
      BY <1>3 DEF ServerStep, Serve, ServeRegister, ServeChallenge, ServeBundle, BudgetCloses
    <2>2. completed = 0 /\ completed' = 1 /\ m.round = 1
      BY <2>1 DEF ServeBundle, Acceptable, EndorseInv, GenuineInv, OrderInv, RelayOrder,
         OnlyRoundOneCompletes, TypeInv, TypeOK, ServerTypeOK
    <2>3. m.src \in Node /\ LocalRound[m.src] = 1 /\ Led(m.src)
      BY <2>1, <2>2 DEF ServeBundle, EndorseInv, GenuineInv, OrderInv, RelayOrder, ServerOrder,
         TypeInv, TypeOK, ServerTypeOK, Request
    <2>4. Led("A")
      BY <2>3, RoundFacts DEF Node
    <2>5. pc["B"] # "collect" /\ ~Led("B")
      BY <2>2, RoundFacts DEF Node, EndorseInv, GenuineInv, OrderInv, RelayOrder, LeadOrder,
         OneLeaderAtATime
    <2>6. Mapped /\ Mapped'
      BY Mapping, PTL DEF EndorseInv, GenuineInv
    <2>7. SubmitterForRound(1) = "A" /\ SubmitterForRound(2) = "B"
      BY DEF SubmitterForRound, Members
    <2>8. Turn(completed + 1) = "submitted"
      BY <2>2, <2>4, <2>6, <2>7 DEF Mapped, Led
    <2>9. Turn(completed + 1)' = "idle" /\ Signers(completed + 1)' = {}
      <3>1. SubmitterForRound(completed + 1)' = "B"
        BY <2>2, <2>7 DEF SubmitterForRound
      <3>2. pc'["B"] # "collect" /\ ~Led("B")' /\ ~Leads("B")'
        BY <1>1, <2>5 DEF Led, Leads
      <3> QED
        BY <2>6, <3>1, <3>2 DEF Mapped, Led, Leads
    <2>10. Relay!Accept
      BY <2>2, <2>8, <2>9 DEF Relay!Accept
    <2>11. Grows /\ \A k \in Node : Leads(k)' <=> Leads(k)
      BY <1>1 DEF Grows, HasSigned, Same, Leads
    <2>12. AllEndorsed'
      BY <1>1, <2>11 DEF EndorseInv, AllEndorsed, NetEndorsed, Endorsed, LeaderEndorsed, HasSigned,
         Leads, Led, SubmitterForRound
    <2> QED
      BY <2>10, <2>12 DEF Keeps, Relay!TurnNext
  <1> QED
    BY <1>2, <1>3

LEMMA NextKeeps == EndorseInv /\ [Next]_vars => EndorseInv' /\ [Relay!TurnNext]_(Relay!turnVars)
  <1> SUFFICES ASSUME EndorseInv, [Next]_vars
               PROVE  EndorseInv' /\ [Relay!TurnNext]_(Relay!turnVars)
    OBVIOUS
  <1>1. GenuineInv' /\ OrderInv'
    BY NextGenuine DEF EndorseInv, GenuineInv
  <1> SUFFICES Keeps
    BY <1>1 DEF Keeps, EndorseInv
  <1>2. CASE Lose \/ UNCHANGED vars
    <2>1. UNCHANGED <<signed, completed, backlog, missing, pc>> /\ datagrams' \subseteq datagrams
      BY <1>2 DEF Lose, vars, serverVars, nodeVars, netVars
    <2> QED
      BY <1>1, <2>1, SameByStay, MissingStays, LocalStep
  <1>3. ASSUME NEW n \in Node, WaitForDefers(n) PROVE Keeps
    <2>1. UNCHANGED <<signed, completed, missing, pc>>
      BY <1>3 DEF WaitForDefers, serverVars, nodeVars
    <2> DEFINE none == {}
    <2>2. Moves(none) /\ \A d \in none : d.kind \notin {"Nonce", "SignatureReply"}
      BY <1>3, WaitForMoves DEF EndorseInv, GenuineInv, OrderInv
    <2> HIDE DEF none
    <2> QED
      BY <1>1, <2>1, <2>2, SameByStay, MissingStays, SilentStep
  <1>4. ASSUME NEW n \in Node, NodeStep(n) PROVE Keeps
    BY <1>1, <1>3, <1>4, RegisterKeeps, BarrierKeeps, FollowKeeps, ChallengeKeeps, CollectKeeps,
       LeadEndKeeps, RetryKeeps, ExpireKeeps DEF NodeStep, OnDatagram, OnReply
  <1> QED
    BY <1>1, <1>2, <1>4, ServerKeeps DEF Next, Terminated

\* Every behaviour of the three run() coroutines, whatever is delayed, lost, repeated
\* or given up, is one of RelayTurn: nobody collects, signs, submits or is recorded
\* out of turn, and a round is submitted only when all three have signed it.
THEOREM RelayImplementsTurns == Spec => TakesTurns
  <1>1. Init => EndorseInv
    <2> SUFFICES ASSUME Init PROVE EndorseInv
      OBVIOUS
    <2>1. GenuineInv
      BY InitTypeInv, InitOrder, InitGenuine DEF GenuineInv, OrderInv
    <2>2. AllEndorsed
      BY DEF Init, AllEndorsed, NetEndorsed, LeaderEndorsed, Leads, Led, HasSigned
    <2> QED
      BY <2>1, <2>2 DEF EndorseInv
  <1>2. Init => Relay!TurnInit
    <2> SUFFICES ASSUME Init PROVE Relay!TurnInit
      OBVIOUS
    <2>1. completed = 0 /\ Mapped
      BY InitTypeInv, InitOrder, Mapping DEF Init, ServerInit, OrderInv
    <2>2. SubmitterForRound(1) = "A" /\ pc["A"] = "start"
      BY DEF SubmitterForRound, Members, Init, Node
    <2> QED
      BY <2>1, <2>2 DEF Mapped, Leads, Led, Relay!TurnInit
  <1> QED
    BY <1>1, <1>2, NextKeeps, PTL DEF Spec, TakesTurns, Relay!TurnSpec
=============================================================================
