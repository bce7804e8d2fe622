-------------------------- MODULE RelayRace_proofs --------------------------
(***************************************************************************)
(* Proofs about RelayRace, for every set of groups and nonces, every set   *)
(* of deadlines and every bound.                                           *)
(***************************************************************************)
EXTENDS RelayRace, SequenceTheorems, TLAPS

-----------------------------------------------------------------------------
(* Messages                                                                *)

LEMMA RoundFacts ==
    /\ LocalRound \in [Node -> Round]
    /\ LocalRound["A"] = 1 /\ LocalRound["B"] = 2 /\ LocalRound["C"] = 3
    /\ \A r \in Round : SubmitterForRound(r) \in Node /\ LocalRound[SubmitterForRound(r)] = r
    /\ \A n \in Node : SubmitterForRound(LocalRound[n]) = n
  BY DEF LocalRound, Node, Round, SubmitterForRound, Members

LEMMA DatagramTypes ==
    ASSUME NEW n \in Node, NEW d \in Node
    PROVE  /\ \A g \in MaybeGroup : GroupReady(d, g) \in Datagram
           /\ GroupReadyAck(n) \in Datagram
           /\ BatonAck(n, d) \in Datagram
           /\ \A v \in MaybeNonce : Nonce(n, d, v) \in Datagram
           /\ \A r \in Round, v \in MaybeNonce : SignatureReply(n, d, r, v) \in Datagram
           /\ TypeOK /\ LocalRound[n] < 3 => BatonPass(n) \in Datagram
  <1>1. Round = 1..3 /\ "A" \in Node
    BY DEF Round, Node
  <1>2. LocalRound[n] \in Round
    BY RoundFacts
  <1>3. \A g \in MaybeGroup : GroupReady(d, g) \in Datagram
    BY <1>1 DEF GroupReady, Datagram, GroupDatagram
  <1>4. GroupReadyAck(n) \in Datagram /\ BatonAck(n, d) \in Datagram
    BY <1>1, <1>2 DEF GroupReadyAck, BatonAck, Datagram, AckDatagram
  <1>5. \A v \in MaybeNonce : Nonce(n, d, v) \in Datagram
    BY <1>2 DEF Nonce, Datagram, NonceDatagram
  <1>6. \A r \in Round, v \in MaybeNonce : SignatureReply(n, d, r, v) \in Datagram
    BY DEF SignatureReply, Datagram, NonceDatagram
  <1>7. ASSUME TypeOK, LocalRound[n] < 3 PROVE BatonPass(n) \in Datagram
    <2>1. LocalRound[n] + 1 \in Round /\ LocalRound[n] + 1 \in 0..3
      BY <1>1, <1>2, <1>7
    <2>2. groupId[n] \in MaybeGroup
      BY <1>7 DEF TypeOK, NodeTypeOK
    <2> QED
      BY <2>1, <2>2, RoundFacts DEF BatonPass, Datagram, GroupDatagram
  <1> QED
    BY <1>3, <1>4, <1>5, <1>6, <1>7

\* What a node receives is a datagram; one addressed to it if it comes from the socket.
LEMMA ReceivedType ==
    ASSUME TypeOK, NEW n \in Node
    PROVE  Received(n) \subseteq Datagram
  <1>1. backlog[n] \in Seq(Datagram)
    BY DEF TypeOK, NetTypeOK
  <1>2. backlog[n] # <<>> => Head(backlog[n]) \in Datagram
    BY <1>1
  <1> QED
    BY <1>2 DEF Received, TypeOK, NetTypeOK

LEMMA ExchangeType ==
    ASSUME TypeOK, NEW n \in Node, NEW m, NEW out, out \subseteq Datagram, Exchange(n, m, out)
    PROVE  NetTypeOK'
  <1>1. backlog[n] \in Seq(Datagram)
    BY DEF TypeOK, NetTypeOK
  <1>2. backlog[n] # <<>> => Tail(backlog[n]) \in Seq(Datagram)
    BY <1>1
  <1>3. backlog' \in [Node -> Seq(Datagram)]
    BY <1>1, <1>2 DEF Exchange, TypeOK, NetTypeOK
  <1>4. datagrams' \subseteq Datagram
    BY DEF Exchange, TypeOK, NetTypeOK
  <1> QED
    BY <1>3, <1>4 DEF Exchange, TypeOK, NetTypeOK

LEMMA SendType ==
    ASSUME TypeOK, NEW out, out \subseteq Datagram, Send(out)
    PROVE  NetTypeOK'
  BY DEF Send, TypeOK, NetTypeOK

LEMMA RequestTypes ==
    ASSUME NEW n \in Node, NEW g \in MaybeGroup
    PROVE  /\ GroupRegister(n) \in Request
           /\ ChallengeRequest(n, g) \in Request
           /\ \A r \in Round, s \in Signatures : SignatureBundle(n, g, r, s) \in Request
  BY DEF GroupRegister, ChallengeRequest, SignatureBundle, Request, Signatures, NoSignatures,
         MaybeGroup, MaybeNonce, Round

LEMMA ReplyTypes ==
    ASSUME NEW n \in Node
    PROVE  /\ \A ok \in BOOLEAN, g \in MaybeGroup : GroupRegisterResponse(n, ok, g) \in Reply
           /\ \A r \in Round, v \in MaybeNonce : ChallengeResponse(n, r, v) \in Reply
           /\ \A ok \in BOOLEAN, r \in 0..3 : RoundResult(n, ok, r) \in Reply
  BY DEF GroupRegisterResponse, ChallengeResponse, RoundResult, Reply, MaybeGroup,
         MaybeNonce, Round

LEMMA ServerRequestType ==
    ASSUME TypeOK, NEW out, out \subseteq Request, RequestServer(out)
    PROVE  ServerTypeOK'
  BY DEF RequestServer, serverState, TypeOK, ServerTypeOK

LEMMA TakeReplyType ==
    ASSUME TypeOK, NEW m, NEW out, out \subseteq Request, TakeReply(m, out)
    PROVE  ServerTypeOK'
  BY DEF TakeReply, serverState, TypeOK, ServerTypeOK

-----------------------------------------------------------------------------
(* The server                                                              *)

LEMMA ServerPreservesType ==
    ASSUME TypeOK, ServerStep
    PROVE  ServerTypeOK'
  <1>1. CASE BudgetCloses
    BY <1>1 DEF BudgetCloses, TypeOK, ServerTypeOK
  <1>2. ASSUME NEW m \in requests, m.src \in Node,
               ServeRegister(m) \/ ServeChallenge(m) \/ ServeBundle(m)
        PROVE  ServerTypeOK'
    <2>1. m \in Request /\ m.group \in MaybeGroup /\ m.round \in 0..3
      BY <1>2 DEF TypeOK, ServerTypeOK, Request
    <2>2. Arrive(m) => requests' \subseteq Request /\ duplicates' \in Nat
      BY DEF Arrive, TypeOK, ServerTypeOK
    <2>3. CASE ServeRegister(m)
      <3>1. replies' \subseteq Reply /\ group' \in MaybeGroup
        BY <1>2, <2>3, ReplyTypes DEF ServeRegister, TypeOK, ServerTypeOK, MaybeGroup
      <3> QED
        BY <2>2, <2>3, <3>1 DEF ServeRegister, TypeOK, ServerTypeOK
    <2>4. CASE ServeChallenge(m)
      <3>1. CASE m.group # group \/ completed = 3 \/ budget = "closed"
        <4>1. RoundResult(m.src, FALSE, completed) \in Reply
          BY <1>2, ReplyTypes DEF TypeOK, ServerTypeOK
        <4>2. replies' \subseteq Reply
          BY <2>4, <3>1, <4>1 DEF ServeChallenge, TypeOK, ServerTypeOK
        <4> QED
          BY <2>2, <2>4, <3>1, <4>2 DEF ServeChallenge, TypeOK, ServerTypeOK
      <3>2. CASE ~(m.group # group \/ completed = 3 \/ budget = "closed")
        <4>1. completed + 1 \in Round
          BY <3>2 DEF TypeOK, ServerTypeOK, Round
        <4>2. issued' \in [Round -> MaybeNonce]
          BY <2>4, <3>2, <4>1 DEF ServeChallenge, TypeOK, ServerTypeOK, MaybeNonce
        <4>3. replies' \subseteq Reply
          BY <1>2, <2>4, <3>2, <4>1, <4>2, ReplyTypes DEF ServeChallenge, TypeOK, ServerTypeOK
        <4> QED
          BY <2>2, <2>4, <3>2, <4>2, <4>3 DEF ServeChallenge, TypeOK, ServerTypeOK
      <3> QED
        BY <3>1, <3>2
    <2>5. CASE ServeBundle(m)
      <3>1. replies' \subseteq Reply
        BY <1>2, <2>1, <2>5, ReplyTypes DEF ServeBundle, Acceptable, TypeOK, ServerTypeOK
      <3>2. completed' \in 0..3 /\ submitters' \in [Round -> Node \cup {None}]
        BY <1>2, <2>1, <2>5 DEF ServeBundle, TypeOK, ServerTypeOK
      <3> QED
        BY <2>2, <2>5, <3>1, <3>2 DEF ServeBundle, TypeOK, ServerTypeOK
    <2> QED
      BY <1>2, <2>3, <2>4, <2>5
  <1> QED
    BY <1>1, <1>2 DEF ServerStep, Serve
-----------------------------------------------------------------------------
(* Type correctness.  Inductive with the places a node can be in: A never  *)
(* follows, a follower is below its own round, C has nobody to pass a      *)
(* baton to.                                                               *)

Places ==
    /\ pc["A"] \notin {"await_group_ready", "follow", "await_baton", "fallback"}
    /\ \A n \in Node : pc[n] = "follow" => round[n] < LocalRound[n]
    /\ baton["C"] # "sending"
TypeInv == TypeOK /\ Places

LEMMA InitTypeInv == Init => TypeInv
  <1> SUFFICES ASSUME Init PROVE TypeInv
    OBVIOUS
  <1>1. ServerTypeOK
    BY DEF Init, ServerInit, ServerTypeOK, MaybeGroup, MaybeNonce, Round
  <1>2. NodeTypeOK
    BY DEF Init, NodeTypeOK, Location, MaybeGroup, MaybeNonce, Round, Signatures, NoSignatures
  <1>3. NetTypeOK
    BY DEF Init, NetTypeOK
  <1>4. Places
    BY DEF Init, Places, Node
  <1> QED
    BY <1>1, <1>2, <1>3, <1>4 DEF TypeInv, TypeOK

LEMMA FailPreserves ==
    ASSUME TypeInv, NEW n \in Node, Fail(n) PROVE TypeInv'
  BY DEF Fail, Goto, TypeInv, TypeOK, ServerTypeOK, NodeTypeOK, NetTypeOK, Places, Location,
         serverVars, netVars, Node

LEMMA ResendPreserves ==
    ASSUME TypeInv, NEW n \in Node, NEW req, NEW out, req \subseteq Request,
           out \subseteq Datagram, Resend(n, req, out)
    PROVE  TypeInv'
  <1>1. ServerTypeOK'
    BY ServerRequestType DEF Resend, TypeInv
  <1>2. NodeTypeOK' /\ NetTypeOK' /\ Places'
    BY DEF Resend, nodeVars, TypeInv, TypeOK, NodeTypeOK, NetTypeOK, Places
  <1> QED
    BY <1>1, <1>2 DEF TypeInv, TypeOK

\* What B and C do with a message, whatever the loop they are in.
LEMMA HandlerTypes ==
    ASSUME TypeInv, NEW n \in Node, NEW m \in Datagram
    PROVE  /\ IsCommon(n, m) => CommonAck(n, m) \subseteq Datagram
           /\ IsCommon(n, m) /\ LearnGroup(n, m) => groupId' \in [Node -> MaybeGroup]
           /\ m.kind = "Nonce" => Signature(n, m) \subseteq Datagram
           /\ m.kind = "Nonce" /\ Sign(n, m) => signed' \in [Node -> [Round -> MaybeNonce]]
           /\ pc[n] = "collect" => \A ds \in SUBSET Node : Rebroadcast(n, ds) \subseteq Datagram
  <1>1. m.src \in Node
    BY DEF Datagram, GroupDatagram, NonceDatagram, AckDatagram
  <1>2. IsGroupReady(m) => m.val \in MaybeGroup
    BY DEF IsGroupReady, Datagram, GroupDatagram, NonceDatagram, AckDatagram
  <1>3. m.kind = "Nonce" => m.round \in Round /\ m.val \in MaybeNonce
    BY DEF Datagram, GroupDatagram, NonceDatagram, AckDatagram
  <1>4. IsCommon(n, m) => CommonAck(n, m) \subseteq Datagram
    BY <1>1, DatagramTypes DEF CommonAck
  <1>5. IsCommon(n, m) /\ LearnGroup(n, m) => groupId' \in [Node -> MaybeGroup]
    BY <1>2 DEF LearnGroup, TypeInv, TypeOK, NodeTypeOK
  <1>6. m.kind = "Nonce" => Signature(n, m) \subseteq Datagram
    BY <1>1, <1>3, DatagramTypes DEF Signature
  <1>7. m.kind = "Nonce" /\ Sign(n, m) => signed' \in [Node -> [Round -> MaybeNonce]]
    BY <1>3 DEF Sign, TypeInv, TypeOK, NodeTypeOK
  <1>8. \A ds \in SUBSET Node : Rebroadcast(n, ds) \subseteq Datagram
    BY DatagramTypes DEF Rebroadcast, TypeInv, TypeOK, NodeTypeOK
  <1> QED
    BY <1>4, <1>5, <1>6, <1>7, <1>8

LEMMA BarrierPreservesType ==
    ASSUME TypeInv, NEW n \in Node,
           StartRegistration \/ RegistrationResult \/ GroupReadyAcked \/ GroupReadyReceived(n)
    PROVE  TypeInv'
  <1>a. "A" \in Node /\ TypeOK
    BY DEF Node, TypeInv
  <1>1. CASE StartRegistration
    <2>1. ServerTypeOK'
      BY <1>a, <1>1, ServerRequestType, RequestTypes DEF StartRegistration, MaybeGroup
    <2>2. NodeTypeOK' /\ NetTypeOK' /\ Places'
      BY <1>a, <1>1 DEF StartRegistration, Goto, netVars, TypeInv, TypeOK, NodeTypeOK, NetTypeOK,
         Places, Location
    <2> QED
      BY <2>1, <2>2 DEF TypeInv, TypeOK
  <1>2. CASE RegistrationResult
    <2>1. PICK m \in RepliesTo("A", "GroupRegisterResponse") :
                /\ TakeReply(m, {})
                /\ IF m.success
                   THEN /\ Goto("A", "await_ack")
                        /\ groupId' = [groupId EXCEPT !["A"] = m.group]
                        /\ missing' = [missing EXCEPT !["A"] = Node \ {"A"}]
                        /\ Send({GroupReady(d, m.group) : d \in Node \ {"A"}})
                   ELSE /\ Goto("A", "error")
                        /\ UNCHANGED <<groupId, missing, netVars>>
      BY <1>2 DEF RegistrationResult
    <2>2. m.group \in MaybeGroup
      BY <1>a DEF RepliesTo, TypeOK, ServerTypeOK, Reply
    <2>3. {GroupReady(d, m.group) : d \in Node \ {"A"}} \subseteq Datagram
      BY <2>2, DatagramTypes
    <2>4. ServerTypeOK'
      BY <1>a, <2>1, TakeReplyType
    <2>5. NetTypeOK'
      BY <1>a, <2>1, <2>3, SendType DEF netVars, TypeOK, NetTypeOK
    <2>6. /\ pc' \in [Node -> Location]
          /\ pc'["A"] \in {"await_ack", "error"}
          /\ \A d \in Node : d # "A" => pc'[d] = pc[d]
      BY <1>a, <2>1 DEF Goto, TypeOK, NodeTypeOK, Location
    <2>7. groupId' \in [Node -> MaybeGroup] /\ missing' \in [Node -> SUBSET Node]
      <3>1. groupId' = [groupId EXCEPT !["A"] = m.group] \/ groupId' = groupId
        BY <2>1
      <3>2. missing' = [missing EXCEPT !["A"] = Node \ {"A"}] \/ missing' = missing
        BY <2>1
      <3>3. groupId' \in [Node -> MaybeGroup]
        BY <1>a, <2>2, <3>1 DEF TypeOK, NodeTypeOK
      <3> DEFINE teammates == Node \ {"A"}
      <3>4. teammates \in SUBSET Node
        OBVIOUS
      <3> HIDE DEF teammates
      <3>5. missing \in [Node -> SUBSET Node]
        BY <1>a DEF TypeOK, NodeTypeOK
      <3>6. missing' \in [Node -> SUBSET Node]
        BY <3>2, <3>4, <3>5 DEF teammates
      <3> QED
        BY <3>3, <3>6
    <2>8. UNCHANGED <<round, signed, sigs, challenge, baton, result>>
      BY <1>2 DEF RegistrationResult
    <2>9. NodeTypeOK' /\ Places'
      BY <2>6, <2>7, <2>8 DEF TypeInv, TypeOK, NodeTypeOK, Places
    <2> QED
      BY <2>4, <2>5, <2>9 DEF TypeInv, TypeOK
  <1>3. CASE GroupReadyAcked
    <2> DEFINE rest(m) == missing["A"] \ {m.src}
               out(m) == {GroupReady(d, groupId["A"]) : d \in rest(m)}
    <2>1. PICK m \in Received("A") :
                /\ missing' = [missing EXCEPT !["A"] = rest(m)]
                /\ Exchange("A", m, out(m))
                /\ IF rest(m) = {}
                   THEN /\ Goto("A", "await_challenge")
                        /\ RequestServer({ChallengeRequest("A", groupId["A"])})
                   ELSE UNCHANGED <<pc, serverVars>>
      BY <1>3, Zenon DEF GroupReadyAcked
    <2>2. rest(m) \subseteq Node /\ groupId["A"] \in MaybeGroup
      BY <1>a DEF TypeOK, NodeTypeOK
    <2>3. out(m) \subseteq Datagram
      BY <2>2, DatagramTypes
    <2>4. NetTypeOK'
      BY <1>a, <2>1, <2>3, ExchangeType
    <2>5. ServerTypeOK'
      BY <1>a, <2>1, <2>2, ServerRequestType, RequestTypes DEF serverVars, TypeOK, ServerTypeOK
    <2>6. NodeTypeOK' /\ Places'
      BY <1>a, <1>3, <2>1, <2>2 DEF GroupReadyAcked, Goto, TypeInv, TypeOK, NodeTypeOK, Places,
         Location
    <2> QED
      BY <2>4, <2>5, <2>6 DEF TypeInv, TypeOK
  <1>4. CASE GroupReadyReceived(n)
    <2>1. PICK m \in Received(n) :
                /\ Awaited(n, m)
                /\ groupId' = [groupId EXCEPT ![n] = m.val]
                /\ Exchange(n, m, {GroupReadyAck(n)})
      BY <1>4 DEF GroupReadyReceived
    <2>2. m \in Datagram
      BY <1>a, ReceivedType
    <2>3. NetTypeOK'
      BY <1>a, <2>1, ExchangeType, DatagramTypes
    <2>4. n # "A" /\ LocalRound[n] > 1
      BY <1>4, RoundFacts DEF GroupReadyReceived, TypeInv, Places, Node
    <2>5. m.val \in MaybeGroup
      <3>1. m.kind = "GroupReady" \/ baton[n] = "sending"
        BY <1>4, <2>1 DEF GroupReadyReceived, Awaited
      <3> QED
        BY <1>4, <2>1, <2>2, <3>1 DEF GroupReadyReceived, Awaited, Datagram, GroupDatagram,
           NonceDatagram, AckDatagram, MaybeGroup
    <2>6. NodeTypeOK' /\ Places'
      BY <1>4, <2>1, <2>4, <2>5 DEF GroupReadyReceived, Goto, TypeInv, TypeOK, NodeTypeOK, Places,
         Location, Round
    <2>7. ServerTypeOK'
      BY <1>a, <1>4 DEF GroupReadyReceived, serverVars, TypeOK, ServerTypeOK
    <2> QED
      BY <2>3, <2>6, <2>7 DEF TypeInv, TypeOK
  <1> QED
    BY <1>1, <1>2, <1>3, <1>4
LEMMA FollowPreservesType ==
    ASSUME TypeInv, NEW n \in Node, Follow(n) \/ AwaitBaton(n) \/ BatonMissing(n)
    PROVE  TypeInv'
  <1>a. TypeOK /\ (pc[n] \in {"follow", "await_baton"} => n # "A")
    BY DEF TypeInv, Places
  <1>1. CASE FollowCommon(n)
    <2>1. PICK m \in Received(n) :
                IsCommon(n, m) /\ LearnGroup(n, m) /\ Exchange(n, m, CommonAck(n, m))
      BY <1>1 DEF FollowCommon
    <2>2. m \in Datagram
      BY <1>a, ReceivedType
    <2>3. NetTypeOK' /\ groupId' \in [Node -> MaybeGroup]
      BY <1>a, <2>1, <2>2, HandlerTypes, ExchangeType
    <2> QED
      BY <1>1, <2>3 DEF FollowCommon, serverVars, TypeInv, TypeOK, ServerTypeOK, NodeTypeOK, Places
  <1>2. CASE FollowNonce(n)
    <2>1. PICK m \in Received(n) :
                IsFollowed(n, m) /\ Sign(n, m) /\ Exchange(n, m, Signature(n, m))
      BY <1>2 DEF FollowNonce
    <2>2. m \in Datagram /\ m.kind = "Nonce"
      BY <1>a, <2>1, ReceivedType DEF IsFollowed
    <2>3. NetTypeOK' /\ signed' \in [Node -> [Round -> MaybeNonce]]
      BY <1>a, <2>1, <2>2, HandlerTypes, ExchangeType
    <2>4. round[n] \in Round /\ LocalRound[n] \in Round /\ round[n] < LocalRound[n]
      BY <1>2, RoundFacts DEF FollowNonce, TypeInv, TypeOK, NodeTypeOK, Places
    <2>5. round[n] + 1 \in Round
      BY <2>4 DEF Round
    <2>6. round' \in [Node -> Round] /\ pc' \in [Node -> Location]
      BY <1>2, <2>5 DEF FollowNonce, Goto, TypeInv, TypeOK, NodeTypeOK, Location
    <2>7. Places'
      <3>1. /\ pc'[n] \in {"follow", "await_baton"}
            /\ pc'[n] = "follow" => round'[n] < LocalRound[n]
        BY <1>2, <2>4 DEF FollowNonce, Goto, TypeInv, TypeOK, NodeTypeOK
      <3>2. \A d \in Node : d # n => pc'[d] = pc[d] /\ round'[d] = round[d]
        BY <1>2 DEF FollowNonce, Goto, TypeInv, TypeOK, NodeTypeOK
      <3>3. UNCHANGED baton /\ n # "A"
        BY <1>a, <1>2 DEF FollowNonce
      <3> QED
        BY <3>1, <3>2, <3>3 DEF TypeInv, Places, Node
    <2> QED
      BY <1>2, <2>3, <2>6, <2>7 DEF FollowNonce, serverVars, TypeInv, TypeOK, ServerTypeOK, NodeTypeOK
  <1>3. CASE FollowDrop(n)
    <2>1. PICK m \in Received(n) : Exchange(n, m, {})
      BY <1>3 DEF FollowDrop
    <2>2. NetTypeOK'
      BY <1>a, <2>1, ExchangeType
    <2> QED
      BY <1>3, <2>2 DEF FollowDrop, serverVars, nodeVars, TypeInv, TypeOK,
         ServerTypeOK, NodeTypeOK, Places
  <1>4. CASE AwaitBatonReply(n)
    <2>1. PICK m \in Received(n) :
                \/ /\ IsGroupReady(m) /\ LearnGroup(n, m)
                   /\ Exchange(n, m, CommonAck(n, m)) /\ UNCHANGED signed
                \/ /\ m.kind = "Nonce" /\ Sign(n, m)
                   /\ Exchange(n, m, Signature(n, m)) /\ UNCHANGED groupId
      BY <1>4 DEF AwaitBatonReply
    <2>2. m \in Datagram /\ (IsGroupReady(m) => IsCommon(n, m))
      BY <1>a, ReceivedType DEF IsCommon
    <2>3. NetTypeOK'
      BY <1>a, <2>1, <2>2, HandlerTypes, ExchangeType
    <2>4. groupId' \in [Node -> MaybeGroup] /\ signed' \in [Node -> [Round -> MaybeNonce]]
      BY <1>a, <2>1, <2>2, HandlerTypes DEF TypeOK, NodeTypeOK
    <2> QED
      BY <1>4, <2>3, <2>4 DEF AwaitBatonReply, serverVars, TypeInv, TypeOK, ServerTypeOK,
         NodeTypeOK, Places
  <1>5. CASE BatonReceived(n)
    <2>1. PICK m \in Received(n) : Exchange(n, m, {BatonAck(n, m.src)})
      BY <1>5 DEF BatonReceived
    <2>2. m.src \in Node
      BY <1>a, ReceivedType DEF Datagram, GroupDatagram, NonceDatagram, AckDatagram
    <2>3. NetTypeOK'
      BY <1>a, <2>1, <2>2, DatagramTypes, ExchangeType
    <2>4. ServerTypeOK'
      BY <1>a, <1>5, RequestTypes, ServerRequestType DEF BatonReceived, TypeOK, NodeTypeOK
    <2> QED
      BY <1>a, <1>5, <2>3, <2>4 DEF BatonReceived, Goto, TypeInv, TypeOK, NodeTypeOK, Places, Location
  <1>6. CASE BatonMissing(n)
    <2>1. ServerTypeOK'
      BY <1>a, <1>6, RequestTypes, ServerRequestType DEF BatonMissing, TypeOK, NodeTypeOK
    <2> QED
      BY <1>a, <1>6, <2>1 DEF BatonMissing, Goto, netVars, TypeInv, TypeOK, NodeTypeOK, NetTypeOK,
         Places, Location
  <1> QED
    BY <1>1, <1>2, <1>3, <1>4, <1>5, <1>6 DEF Follow, AwaitBaton

LEMMA ChallengePreservesType ==
    ASSUME TypeInv, NEW n \in Node, Challenged(n) PROVE TypeInv'
  <1>a. TypeOK /\ groupId[n] \in MaybeGroup
    BY DEF TypeInv, TypeOK, NodeTypeOK
  <1>1. CASE ChallengeOfOtherRound(n)
    <2>1. ServerTypeOK'
      BY <1>a, <1>1, RequestTypes, TakeReplyType DEF ChallengeOfOtherRound
    <2> QED
      BY <1>1, <2>1 DEF ChallengeOfOtherRound, netVars, nodeVars, TypeInv, TypeOK, NodeTypeOK,
         NetTypeOK, Places
  <1>2. CASE FallbackChallenge(n)
    <2>1. ServerTypeOK'
      BY <1>a, <1>2, RequestTypes, TakeReplyType DEF FallbackChallenge
    <2> QED
      BY <1>2, <2>1 DEF FallbackChallenge, Goto, netVars, TypeInv, TypeOK, NodeTypeOK, NetTypeOK,
         Places, Location
  <1>3. CASE LeadRound(n)
    <2>1. PICK m \in RepliesTo(n, "ChallengeResponse") :
                /\ TakeReply(m, {})
                /\ challenge' = [challenge EXCEPT ![n] = m.nonce]
                /\ sigs' = [sigs EXCEPT ![n] = [NoSignatures EXCEPT ![n] = m.nonce]]
                /\ Send({Nonce(n, d, m.nonce) : d \in Node \ {n}})
      BY <1>3 DEF LeadRound
    <2>2. m.nonce \in MaybeNonce
      BY <1>a DEF RepliesTo, TypeOK, ServerTypeOK, Reply
    <2>3. {Nonce(n, d, m.nonce) : d \in Node \ {n}} \subseteq Datagram
      BY <2>2, DatagramTypes
    <2>4. NetTypeOK'
      BY <1>a, <2>1, <2>3, SendType
    <2>5. ServerTypeOK'
      BY <1>a, <2>1, TakeReplyType
    <2>6. [NoSignatures EXCEPT ![n] = m.nonce] \in Signatures
      BY <2>2 DEF NoSignatures, Signatures, MaybeNonce
    <2>7. challenge' \in [Node -> MaybeNonce] /\ sigs' \in [Node -> Signatures]
      BY <1>a, <2>1, <2>2, <2>6 DEF TypeOK, NodeTypeOK
    <2>8. pc' \in [Node -> Location] /\ missing' \in [Node -> SUBSET Node] /\ Places'
      BY <1>3 DEF LeadRound, Goto, TypeInv, TypeOK, NodeTypeOK, Places, Location
    <2>9. UNCHANGED <<round, groupId, signed, baton, result>>
      BY <1>3 DEF LeadRound
    <2>10. NodeTypeOK'
      BY <1>a, <2>7, <2>8, <2>9 DEF TypeOK, NodeTypeOK
    <2> QED
      BY <2>4, <2>5, <2>8, <2>10 DEF TypeInv, TypeOK
  <1> QED
    BY <1>1, <1>2, <1>3 DEF Challenged

LEMMA CollectPreservesType ==
    ASSUME TypeInv, NEW n \in Node, Collect(n) PROVE TypeInv'
  <1>a. TypeOK /\ groupId[n] \in MaybeGroup /\ missing[n] \in SUBSET Node
    BY DEF TypeInv, TypeOK, NodeTypeOK
  <1>b. pc[n] = "collect"
    BY DEF Collect, CollectReply, CollectDrop, CollectSignature, SubmitBundle
  <1>1. CASE CollectReply(n)
    <2>1. PICK m \in Received(n) :
                \/ /\ IsCommon(n, m) /\ LearnGroup(n, m)
                   /\ Exchange(n, m, CommonAck(n, m) \cup Rebroadcast(n, missing[n]))
                   /\ UNCHANGED signed
                \/ /\ m.kind = "Nonce" /\ Sign(n, m)
                   /\ Exchange(n, m, Signature(n, m) \cup Rebroadcast(n, missing[n]))
                   /\ UNCHANGED groupId
      BY <1>1 DEF CollectReply
    <2>2. m \in Datagram
      BY <1>a, ReceivedType
    <2>3. /\ Rebroadcast(n, missing[n]) \subseteq Datagram
          /\ IsCommon(n, m) => CommonAck(n, m) \subseteq Datagram
          /\ m.kind = "Nonce" => Signature(n, m) \subseteq Datagram
      BY <1>a, <1>b, <2>2, HandlerTypes
    <2>4. NetTypeOK'
      <3>1. IsCommon(n, m) => CommonAck(n, m) \cup Rebroadcast(n, missing[n]) \subseteq Datagram
        BY <2>3
      <3>2. m.kind = "Nonce" => Signature(n, m) \cup Rebroadcast(n, missing[n]) \subseteq Datagram
        BY <2>3
      <3> QED
        BY <1>a, <2>1, <3>1, <3>2, ExchangeType
    <2>5. groupId' \in [Node -> MaybeGroup] /\ signed' \in [Node -> [Round -> MaybeNonce]]
      BY <1>a, <2>1, <2>2, HandlerTypes DEF TypeOK, NodeTypeOK
    <2> QED
      BY <1>1, <2>4, <2>5 DEF CollectReply, serverVars, TypeInv, TypeOK, ServerTypeOK,
         NodeTypeOK, Places
  <1>2. CASE CollectDrop(n)
    <2>1. PICK m \in Received(n) : Exchange(n, m, Rebroadcast(n, missing[n]))
      BY <1>2 DEF CollectDrop
    <2>2. m \in Datagram
      BY <1>a, ReceivedType
    <2>3. NetTypeOK'
      BY <1>a, <1>b, <2>1, <2>2, HandlerTypes, ExchangeType
    <2> QED
      BY <1>2, <2>3 DEF CollectDrop, serverVars, nodeVars, TypeInv, TypeOK, ServerTypeOK,
         NodeTypeOK, Places
  <1>3. CASE CollectSignature(n)
    <2>1. PICK m \in Received(n) :
                /\ IsSignature(n, m)
                /\ missing' = [missing EXCEPT ![n] = @ \ {m.src}]
                /\ sigs' = [sigs EXCEPT ![n][m.src] = m.val]
                /\ Exchange(n, m, Rebroadcast(n, missing[n] \ {m.src}))
      BY <1>3 DEF CollectSignature
    <2>2. m \in Datagram /\ missing[n] \ {m.src} \in SUBSET Node
      BY <1>a, ReceivedType
    <2>3. NetTypeOK'
      BY <1>a, <1>b, <2>1, <2>2, HandlerTypes, ExchangeType
    <2>4. m.src \in Node /\ m.val \in MaybeNonce
      BY <1>a, <2>1 DEF IsSignature, TypeOK, NodeTypeOK
    <2>5. sigs' \in [Node -> Signatures]
      BY <1>a, <2>1, <2>4 DEF TypeOK, NodeTypeOK, Signatures
    <2>6. missing' \in [Node -> SUBSET Node]
      BY <1>a, <2>1, <2>2 DEF TypeOK, NodeTypeOK
    <2> QED
      BY <1>3, <2>3, <2>5, <2>6 DEF CollectSignature, serverVars, TypeInv, TypeOK, ServerTypeOK,
         NodeTypeOK, Places
  <1>4. CASE SubmitBundle(n)
    <2> DEFINE out == IF LocalRound[n] < 3 THEN {BatonPass(n)} ELSE {}
    <2>1. PICK m \in Received(n) :
                /\ IsSignature(n, m)
                /\ sigs' = [sigs EXCEPT ![n][m.src] = m.val]
                /\ RequestServer({SignatureBundle(n, groupId[n], LocalRound[n], sigs'[n])})
                /\ baton' = [baton EXCEPT ![n] = IF LocalRound[n] < 3 THEN "sending" ELSE "done"]
                /\ Exchange(n, m, out)
      BY <1>4 DEF SubmitBundle
    <2>2. out \subseteq Datagram
      BY <1>a, DatagramTypes
    <2>3. NetTypeOK'
      BY <1>a, <2>1, <2>2, ExchangeType
    <2>4. m.src \in Node /\ m.val \in MaybeNonce
      BY <1>a, <2>1 DEF IsSignature, TypeOK, NodeTypeOK
    <2>5. sigs' \in [Node -> Signatures] /\ sigs'[n] \in Signatures
      BY <1>a, <2>1, <2>4 DEF TypeOK, NodeTypeOK, Signatures
    <2>6. ServerTypeOK'
      <3>1. SignatureBundle(n, groupId[n], LocalRound[n], sigs'[n]) \in Request
        BY <1>a, <2>5, RoundFacts, RequestTypes
      <3> QED
        BY <1>a, <2>1, <3>1, ServerRequestType
    <2>7. baton' \in [Node -> {"idle", "sending", "done"}] /\ baton'["C"] # "sending"
      <3>1. CASE LocalRound[n] < 3
        <4>1. n # "C" /\ baton' = [baton EXCEPT ![n] = "sending"]
          BY <2>1, <3>1, RoundFacts
        <4> QED
          BY <4>1 DEF TypeInv, TypeOK, NodeTypeOK, Places, Node
      <3>2. CASE ~(LocalRound[n] < 3)
        <4>1. baton' = [baton EXCEPT ![n] = "done"]
          BY <2>1, <3>2
        <4> QED
          BY <4>1 DEF TypeInv, TypeOK, NodeTypeOK, Places, Node
      <3> QED
        BY <3>1, <3>2
    <2>8. pc' \in [Node -> Location] /\ missing' \in [Node -> SUBSET Node]
          /\ UNCHANGED <<round, groupId, signed, challenge, result>>
      BY <1>4 DEF SubmitBundle, Goto, TypeInv, TypeOK, NodeTypeOK, Location
    <2>9. Places'
      BY <1>4, <2>7, <2>8 DEF SubmitBundle, Goto, TypeInv, TypeOK, NodeTypeOK, Places
    <2>10. NodeTypeOK'
      BY <1>a, <2>5, <2>7, <2>8 DEF TypeOK, NodeTypeOK
    <2> QED
      BY <2>3, <2>6, <2>9, <2>10 DEF TypeInv, TypeOK
  <1> QED
    BY <1>1, <1>2, <1>3, <1>4 DEF Collect

LEMMA BatonPreservesType ==
    ASSUME TypeInv, NEW n \in Node,
           WaitForDefers(n) \/ BatonAcked(n) \/ BatonExpired(n) \/ RoundResultTaken(n)
              \/ RoundResultExpired(n) \/ Finish(n)
    PROVE  TypeInv'
  <1>a. TypeOK
    BY DEF TypeInv
  <1>1. CASE WaitForDefers(n)
    <2>1. PICK m \in Received(n) :
                /\ datagrams' = datagrams \ {m}
                /\ backlog' = [backlog EXCEPT ![n] = Append(@, m)]
      BY <1>1 DEF WaitForDefers
    <2>2. m \in Datagram
      BY <1>a, ReceivedType
    <2>3. Append(backlog[n], m) \in Seq(Datagram)
      BY <1>a, <2>2 DEF TypeOK, NetTypeOK
    <2>4. NetTypeOK'
      BY <1>a, <1>1, <2>1, <2>3 DEF WaitForDefers, TypeOK, NetTypeOK
    <2> QED
      BY <1>1, <2>4 DEF WaitForDefers, serverVars, nodeVars, TypeInv, TypeOK, ServerTypeOK,
         NodeTypeOK, Places
  <1>2. CASE BatonAcked(n)
    <2>1. NetTypeOK'
      BY <1>a, <1>2, ExchangeType DEF BatonAcked
    <2> QED
      BY <1>2, <2>1 DEF BatonAcked, serverVars, TypeInv, TypeOK, ServerTypeOK, NodeTypeOK, Places
  <1>3. CASE BatonExpired(n)
    BY <1>3 DEF BatonExpired, serverVars, netVars, TypeInv, TypeOK, ServerTypeOK, NodeTypeOK,
       NetTypeOK, Places
  <1>4. CASE RoundResultTaken(n)
    <2>1. ServerTypeOK'
      BY <1>a, <1>4, TakeReplyType DEF RoundResultTaken
    <2> QED
      BY <1>4, <2>1 DEF RoundResultTaken, Goto, netVars, TypeInv, TypeOK, NodeTypeOK, NetTypeOK,
         Places, Location
  <1>5. CASE RoundResultExpired(n)
    BY <1>5 DEF RoundResultExpired, Goto, serverVars, netVars, TypeInv, TypeOK, ServerTypeOK,
       NodeTypeOK, NetTypeOK, Places, Location
  <1>6. CASE Finish(n)
    BY <1>6 DEF Finish, Goto, serverVars, netVars, TypeInv, TypeOK, ServerTypeOK,
       NodeTypeOK, NetTypeOK, Places, Location
  <1> QED
    BY <1>1, <1>2, <1>3, <1>4, <1>5, <1>6

LEMMA RetryPreservesType ==
    ASSUME TypeInv, NEW n \in Node, Retry(n) PROVE TypeInv'
  <1>a. /\ TypeOK /\ "A" \in Node
        /\ \A d \in Node : groupId[d] \in MaybeGroup /\ missing[d] \in SUBSET Node
        /\ challenge[n] \in MaybeNonce
    BY DEF TypeInv, TypeOK, NodeTypeOK, Node
  <1>1. CASE RegistrationRetry
    BY <1>a, <1>1, RequestTypes, ResendPreserves DEF RegistrationRetry, MaybeGroup
  <1>2. CASE GroupReadyRetry
    <2>1. {GroupReady(d, groupId["A"]) : d \in missing["A"]} \subseteq Datagram
      BY <1>a, DatagramTypes
    <2> QED
      BY <1>a, <1>2, <2>1, ResendPreserves DEF GroupReadyRetry
  <1>3. CASE ChallengeRetry(n)
    BY <1>a, <1>3, RequestTypes, ResendPreserves DEF ChallengeRetry
  <1>4. CASE CollectRetry(n)
    <2>1. Rebroadcast(n, missing[n]) \subseteq Datagram
      BY <1>a, DatagramTypes DEF Rebroadcast
    <2> QED
      BY <1>4, <2>1, ResendPreserves DEF CollectRetry
  <1>5. CASE BatonRetry(n)
    <2>1. LocalRound[n] < 3
      BY <1>5, RoundFacts DEF BatonRetry, TypeInv, Places, Node
    <2> QED
      BY <1>a, <1>5, <2>1, DatagramTypes, ResendPreserves DEF BatonRetry
  <1> QED
    BY <1>1, <1>2, <1>3, <1>4, <1>5 DEF Retry

LEMMA ExpirePreservesType ==
    ASSUME TypeInv, NEW n \in Node, Expire(n) PROVE TypeInv'
  <1>1. CASE BatonMissing(n)
    BY <1>1, FollowPreservesType
  <1>2. CASE BatonExpired(n) \/ RoundResultExpired(n)
    BY <1>2, BatonPreservesType
  <1>3. CASE Fail(n)
    BY <1>3, FailPreserves
  <1> QED
    BY <1>1, <1>2, <1>3 DEF Expire, RegistrationExpired, GroupReadyExpired, GroupReadyMissed,
       FollowExpired, ChallengeExpired

LEMMA NextPreservesType == TypeInv /\ [Next]_vars => TypeInv'
  <1> SUFFICES ASSUME TypeInv, [Next]_vars PROVE TypeInv'
    OBVIOUS
  <1>1. ASSUME NEW n \in Node, NodeStep(n) PROVE TypeInv'
    BY <1>1, BarrierPreservesType, FollowPreservesType, ChallengePreservesType,
       CollectPreservesType, BatonPreservesType, RetryPreservesType, ExpirePreservesType
       DEF NodeStep, OnDatagram, OnReply, Barrier, Register
  <1>2. CASE ServerStep
    <2>1. ServerTypeOK'
      BY <1>2, ServerPreservesType DEF TypeInv
    <2> QED
      BY <1>2, <2>1 DEF ServerStep, nodeVars, netVars, TypeInv, TypeOK, NodeTypeOK, NetTypeOK, Places
  <1>3. CASE Lose
    BY <1>3 DEF Lose, serverVars, nodeVars, TypeInv, TypeOK, ServerTypeOK, NodeTypeOK, NetTypeOK,
       Places
  <1>4. CASE UNCHANGED vars
    BY <1>4 DEF vars, serverVars, nodeVars, netVars, TypeInv, TypeOK, ServerTypeOK, NodeTypeOK,
       NetTypeOK, Places
  <1> QED
    BY <1>1, <1>2, <1>3, <1>4 DEF Next, Terminated

\* Every reachable state is well typed, and every node is where its role can be.
THEOREM TypeCorrect == Spec => []TypeOK
  <1>1. TypeInv => TypeOK
    BY DEF TypeInv
  <1> QED
    BY <1>1, InitTypeInv, NextPreservesType, PTL DEF Spec

(***************************************************************************)
(* The order of the rounds: RelayOrder is an invariant.                    *)
(***************************************************************************)
OrderInv == TypeInv /\ RelayOrder

LEMMA InitOrder == Init => RelayOrder
  BY DEF Init, ServerInit, RelayOrder, ServerOrder, NetOrder, LeadOrder, OneLeaderAtATime,
         OnlyRoundOneCompletes, Led, Node

-----------------------------------------------------------------------------
(* Datagrams                                                               *)

LEMMA ReceivedTimely ==
    ASSUME OrderInv, NEW n \in Node, NEW m \in Received(n)
    PROVE  Timely(m)
  <1>1. CASE backlog[n] = <<>>
    BY <1>1 DEF Received, OrderInv, RelayOrder, NetOrder
  <1>2. CASE backlog[n] # <<>>
    <2>1. backlog[n] \in Seq(Datagram)
      BY DEF OrderInv, TypeInv, TypeOK, NetTypeOK
    <2>2. m = backlog[n][1] /\ 1 \in 1..Len(backlog[n])
      BY <1>2, <2>1 DEF Received
    <2> QED
      BY <2>2 DEF OrderInv, RelayOrder, NetOrder
  <1> QED
    BY <1>1, <1>2

LEMMA TimelyKept ==
    ASSUME completed' = completed, NEW m, Timely(m)
    PROVE  Timely(m)'
  BY DEF Timely

LEMMA ExchangeOrder ==
    ASSUME OrderInv, NEW n \in Node, NEW m, NEW out, Exchange(n, m, out),
           completed' = completed, \A d \in out : Timely(d)
    PROVE  NetOrder'
  <1>1. \A d \in datagrams' : Timely(d)
    BY DEF Exchange, OrderInv, RelayOrder, NetOrder
  <1>2. backlog \in [Node -> Seq(Datagram)]
    BY DEF OrderInv, TypeInv, TypeOK, NetTypeOK
  <1>3. ASSUME NEW k \in Node, NEW i \in 1..Len(backlog'[k])
        PROVE  Timely(backlog'[k][i])
    <2>1. CASE backlog'[k] = backlog[k]
      BY <1>3, <2>1 DEF OrderInv, RelayOrder, NetOrder
    <2>2. CASE backlog'[k] # backlog[k]
      <3>1. k = n /\ backlog[k] # <<>> /\ backlog'[k] = Tail(backlog[k])
        BY <1>2, <2>2 DEF Exchange
      <3>2. i + 1 \in 1..Len(backlog[k]) /\ backlog'[k][i] = backlog[k][i + 1]
        BY <1>2, <1>3, <3>1
      <3> QED
        BY <3>2 DEF OrderInv, RelayOrder, NetOrder
    <2> QED
      BY <2>1, <2>2
  <1> QED
    BY <1>1, <1>3, TimelyKept DEF NetOrder

LEMMA SendOrder ==
    ASSUME OrderInv, NEW out, datagrams' \subseteq datagrams \cup out, UNCHANGED backlog,
           completed' = completed, \A d \in out : Timely(d)
    PROVE  NetOrder'
  <1>1. \A d \in datagrams' : Timely(d)
    BY DEF OrderInv, RelayOrder, NetOrder
  <1>2. \A k \in Node : \A i \in 1..Len(backlog'[k]) : Timely(backlog'[k][i])
    BY DEF OrderInv, RelayOrder, NetOrder
  <1> QED
    BY <1>1, <1>2, TimelyKept DEF NetOrder

\* What each handler sends is timely.
LEMMA SentTimely ==
    ASSUME OrderInv, NEW n \in Node
    PROVE  /\ \A m : \A d \in CommonAck(n, m) : Timely(d)
           /\ \A d \in {GroupReadyAck(n), BatonPass(n)} : Timely(d)
           /\ \A k, g : Timely(GroupReady(k, g))
           /\ \A k : Timely(BatonAck(n, k))
           /\ pc[n] = "collect" => \A ds : \A d \in Rebroadcast(n, ds) : Timely(d)
           /\ \A m \in Received(n) :
                m.kind = "Nonce" /\ pc[n] \in {"follow", "await_baton", "collect"}
                    => \A d \in Signature(n, m) : Timely(d)
  <1>1. pc[n] = "collect" => \A ds : \A d \in Rebroadcast(n, ds) : Timely(d)
    BY DEF OrderInv, RelayOrder, OneLeaderAtATime, Rebroadcast, Nonce, Timely
  <1>2. ASSUME NEW m \in Received(n), m.kind = "Nonce",
               pc[n] \in {"follow", "await_baton", "collect"},
               NEW d \in Signature(n, m)
        PROVE  Timely(d)
    <2>1. d = SignatureReply(n, m.src, m.round, m.val)
      BY <1>2 DEF Signature
    <2>2. n = "A" => m.round = 1
      <3> SUFFICES ASSUME n = "A" PROVE m.round = 1
        OBVIOUS
      <3>1. pc["A"] = "collect"
        BY <1>2 DEF OrderInv, TypeInv, Places
      <3>2. completed \in 0..3 /\ completed <= 1 /\ completed # 1
        BY <3>1 DEF OrderInv, RelayOrder, LeadOrder, OnlyRoundOneCompletes, Led, TypeInv, TypeOK,
                    ServerTypeOK
      <3>3. m.round \in Round /\ completed >= m.round - 1
        <4>1. m \in Datagram
          BY ReceivedType DEF OrderInv, TypeInv
        <4>2. m.round \in Round
          BY <1>2, <4>1 DEF Datagram, GroupDatagram, NonceDatagram, AckDatagram
        <4> QED
          BY <1>2, <4>2, ReceivedTimely DEF Timely
      <3> QED
        BY <3>2, <3>3 DEF Round
    <2> QED
      BY <2>1, <2>2 DEF SignatureReply, Timely
  <1>3. /\ \A m : \A d \in CommonAck(n, m) : Timely(d)
        /\ \A d \in {GroupReadyAck(n), BatonPass(n)} : Timely(d)
        /\ \A k, g : Timely(GroupReady(k, g))
        /\ \A k : Timely(BatonAck(n, k))
    BY DEF CommonAck, GroupReadyAck, BatonPass, BatonAck, GroupReady, Timely
  <1> QED
    BY <1>1, <1>2, <1>3

-----------------------------------------------------------------------------
(* Steps                                                                   *)

\* A step that leaves the rounds and the leaders where they are only has to
\* answer for what it sends.
LEMMA SteadyOrder ==
    ASSUME OrderInv, NetOrder', completed' = completed, replies' \subseteq replies,
           \A m \in requests' : m \in requests \/ m.kind # "SignatureBundle",
           \A n \in Node : Led(n)' = Led(n),
           \A n \in Node : pc'[n] = "collect" => pc[n] = "collect",
           pc'["B"] = "collect" => missing'["B"] = missing["B"]
    PROVE  RelayOrder'
  <1>1. ServerOrder'
    BY DEF OrderInv, RelayOrder, ServerOrder, TypeInv, TypeOK, ServerTypeOK, Request
  <1>2. LeadOrder'
    BY DEF OrderInv, RelayOrder, LeadOrder, Node
  <1>3. OneLeaderAtATime' /\ OnlyRoundOneCompletes'
    BY DEF OrderInv, RelayOrder, OneLeaderAtATime, OnlyRoundOneCompletes
  <1> QED
    BY <1>1, <1>2, <1>3 DEF RelayOrder

LEMMA ServerStepOrder ==
    ASSUME OrderInv, ServerStep
    PROVE  RelayOrder'
  <1> USE DEF nodeVars, netVars
  <1>a. UNCHANGED <<nodeVars, netVars>>
    BY DEF ServerStep
  <1>b. completed \in 0..1 /\ (\A m \in requests : m.src \in Node)
    BY DEF OrderInv, RelayOrder, OnlyRoundOneCompletes, TypeInv, TypeOK, ServerTypeOK, Request
  <1>1. ASSUME completed' = completed, requests' \subseteq requests,
               \A m \in replies' : m \in replies \/
                    (m.kind = "ChallengeResponse" => completed >= m.round - 1)
        PROVE  RelayOrder'
    BY <1>a, <1>1 DEF OrderInv, RelayOrder, ServerOrder, NetOrder, LeadOrder, OneLeaderAtATime,
       OnlyRoundOneCompletes, Timely, Led
  <1>2. CASE BudgetCloses
    BY <1>1, <1>2 DEF BudgetCloses
  <1>3. ASSUME NEW m \in requests, ServeRegister(m) PROVE RelayOrder'
    <2>1. replies' \subseteq replies \cup
             {GroupRegisterResponse(m.src, TRUE, group'), GroupRegisterResponse(m.src, FALSE, None)}
      BY <1>3 DEF ServeRegister
    <2>2. \A q \in replies' : q \in replies \/ q.kind # "ChallengeResponse"
      BY <2>1 DEF GroupRegisterResponse
    <2> QED
      BY <1>1, <1>3, <2>2 DEF ServeRegister, Arrive
  <1>4. ASSUME NEW m \in requests, ServeChallenge(m) PROVE RelayOrder'
    <2>1. replies' \subseteq replies \cup {RoundResult(m.src, FALSE, completed),
             ChallengeResponse(m.src, completed + 1, issued'[completed + 1])}
      BY <1>4 DEF ServeChallenge
    <2>2. \A q \in replies' :
             q \in replies \/ (q.kind = "ChallengeResponse" => completed >= q.round - 1)
      BY <1>b, <2>1 DEF RoundResult, ChallengeResponse
    <2> QED
      BY <1>1, <1>4, <2>2 DEF ServeChallenge, Arrive
  <1>5. ASSUME NEW m \in requests, ServeBundle(m) PROVE RelayOrder'
    <2>1. \A q \in replies' : q \in replies \/ q.kind # "ChallengeResponse"
      BY <1>5 DEF ServeBundle, RoundResult
    <2>2. CASE ~Acceptable(m)
      BY <1>1, <1>5, <2>1, <2>2 DEF ServeBundle, Arrive
    <2>3. CASE Acceptable(m)
      <3>1. m.round = completed + 1 /\ completed' = m.round /\ requests' \subseteq requests
        BY <1>5, <2>3 DEF ServeBundle, Acceptable, Arrive
      <3>2. m.round = LocalRound[m.src] /\ Led(m.src) /\ m.src # "B"
        BY <1>5 DEF ServeBundle, OrderInv, RelayOrder, ServerOrder, LeadOrder
      <3>3. completed = 0 /\ completed' = 1 /\ Led("A")
        BY <1>b, <3>1, <3>2, RoundFacts DEF Node
      <3>4. ServerOrder'
        <4>1. \A q \in replies' : q.kind = "ChallengeResponse" => completed >= q.round - 1
          BY <2>1 DEF OrderInv, RelayOrder, ServerOrder
        <4>2. \A q \in replies' : q.kind = "ChallengeResponse" => completed' >= q.round - 1
          <5>1. replies' \subseteq Reply
            BY ServerPreservesType DEF OrderInv, TypeInv, ServerTypeOK
          <5>2. \A q \in Reply : q.round \in Int
            BY DEF Reply
          <5> QED
            BY <3>3, <4>1, <5>1, <5>2
        <4> QED
          BY <1>a, <3>1, <4>2 DEF OrderInv, RelayOrder, ServerOrder, Led
      <3>5. NetOrder'
        <4>1. ASSUME NEW q \in Datagram, Timely(q) PROVE Timely(q)'
          <5>1. q.kind = "Nonce" => q.round \in Int
            BY DEF Datagram, GroupDatagram, NonceDatagram, AckDatagram, Round
          <5> QED
            BY <3>3, <4>1, <5>1 DEF Timely
        <4>2. datagrams \subseteq Datagram /\ backlog \in [Node -> Seq(Datagram)]
          BY DEF OrderInv, TypeInv, TypeOK, NetTypeOK
        <4>3. \A k \in Node : \A i \in 1..Len(backlog[k]) : backlog[k][i] \in Datagram
          BY <4>2
        <4> QED
          BY <1>a, <4>1, <4>2, <4>3 DEF OrderInv, RelayOrder, NetOrder
      <3>6. LeadOrder' /\ OneLeaderAtATime' /\ OnlyRoundOneCompletes'
        BY <1>a, <3>3, RoundFacts DEF OrderInv, RelayOrder, LeadOrder, OneLeaderAtATime,
           OnlyRoundOneCompletes, Led, Round
      <3> QED
        BY <3>4, <3>5, <3>6 DEF RelayOrder
    <2> QED
      BY <2>2, <2>3
  <1> QED
    BY <1>2, <1>3, <1>4, <1>5 DEF ServerStep, Serve

\* A retry only sends again what was sent before.
LEMMA ResendOrder ==
    ASSUME OrderInv, NEW n \in Node, NEW req, NEW out, Resend(n, req, out),
           \A m \in req : m.kind # "SignatureBundle", \A d \in out : Timely(d)
    PROVE  RelayOrder'
  <1>1. UNCHANGED <<nodeVars, replies, completed>> /\ requests' = requests \cup req
    BY DEF Resend, RequestServer, serverState
  <1>2. NetOrder'
    BY <1>1, SendOrder DEF Resend
  <1> QED
    BY <1>1, <1>2, SteadyOrder DEF nodeVars, Led

\* A step to another place that is not a leader's.
LEMMA GotoOrder ==
    ASSUME OrderInv, NEW n \in Node, NEW l \in Location, Goto(n, l), l # "collect",
           Led(n) <=> l \in {"await_result", "finishing", "done"}
    PROVE  \A k \in Node : Led(k)' = Led(k) /\ (pc'[k] = "collect" => pc[k] = "collect")
  BY DEF Goto, Led, OrderInv, TypeInv, TypeOK, NodeTypeOK

\* A node that gives up before it has led.
LEMMA FailOrder ==
    ASSUME OrderInv, NEW n \in Node, Fail(n), ~Led(n)
    PROVE  RelayOrder'
  <1>1. UNCHANGED <<serverVars, netVars, missing>> /\ pc' = [pc EXCEPT ![n] = "error"]
    BY DEF Fail, Goto
  <1>2. NetOrder'
    BY <1>1 DEF serverVars, netVars, OrderInv, RelayOrder, NetOrder, Timely
  <1>3. \A k \in Node : Led(k)' = Led(k) /\ (pc'[k] = "collect" => pc[k] = "collect")
    BY <1>1 DEF Led, OrderInv, TypeInv, TypeOK, NodeTypeOK
  <1> QED
    BY <1>1, <1>2, <1>3, SteadyOrder DEF serverVars

LEMMA RetryOrder ==
    ASSUME OrderInv, NEW n \in Node, Retry(n)
    PROVE  RelayOrder'
  <1>1. CASE RegistrationRetry
    BY <1>1, ResendOrder DEF RegistrationRetry, GroupRegister, Node
  <1>2. CASE GroupReadyRetry
    <2>1. \A d \in {GroupReady(k, groupId["A"]) : k \in missing["A"]} : Timely(d)
      BY SentTimely
    <2> QED
      BY <1>2, <2>1, ResendOrder DEF GroupReadyRetry, Node
  <1>3. CASE ChallengeRetry(n)
    BY <1>3, ResendOrder DEF ChallengeRetry, ChallengeRequest
  <1>4. CASE CollectRetry(n)
    BY <1>4, SentTimely, ResendOrder DEF CollectRetry
  <1>5. CASE BatonRetry(n)
    BY <1>5, SentTimely, ResendOrder DEF BatonRetry
  <1> QED
    BY <1>1, <1>2, <1>3, <1>4, <1>5 DEF Retry

LEMMA RegisterOrder ==
    ASSUME OrderInv, Register
    PROVE  RelayOrder'
  <1>1. CASE StartRegistration
    <2>1. UNCHANGED <<netVars, missing, completed, replies>>
          /\ pc["A"] = "start" /\ pc' = [pc EXCEPT !["A"] = "await_registration"]
          /\ requests' = requests \cup {GroupRegister("A")}
      BY <1>1 DEF StartRegistration, Goto, RequestServer, serverState
    <2>2. NetOrder'
      BY <2>1 DEF netVars, OrderInv, RelayOrder, NetOrder, Timely
    <2>3. \A k \in Node : Led(k)' = Led(k) /\ (pc'[k] = "collect" => pc[k] = "collect")
      BY <2>1 DEF Led, OrderInv, TypeInv, TypeOK, NodeTypeOK
    <2> QED
      BY <2>1, <2>2, <2>3, SteadyOrder DEF GroupRegister
  <1>2. CASE RegistrationResult
    <2>1. PICK m \in RepliesTo("A", "GroupRegisterResponse") :
             /\ TakeReply(m, {})
             /\ \/ /\ Goto("A", "await_ack")
                   /\ missing' = [missing EXCEPT !["A"] = Node \ {"A"}]
                   /\ Send({GroupReady(d, m.group) : d \in Node \ {"A"}})
                \/ Goto("A", "error") /\ UNCHANGED <<missing, netVars>>
      BY <1>2 DEF RegistrationResult
    <2>2. UNCHANGED completed /\ replies' \subseteq replies /\ requests' = requests
      BY <2>1 DEF TakeReply, serverState
    <2>3. \A d \in {GroupReady(k, m.group) : k \in Node \ {"A"}} : Timely(d)
      BY SentTimely, "A" \in Node DEF Node
    <2>4. NetOrder'
      <3>1. CASE Send({GroupReady(d, m.group) : d \in Node \ {"A"}})
        BY <2>2, <2>3, <3>1, SendOrder DEF Send
      <3>2. CASE UNCHANGED netVars
        BY <2>2, <3>2 DEF netVars, OrderInv, RelayOrder, NetOrder, Timely
      <3> QED
        BY <2>1, <3>1, <3>2
    <2>5. /\ \A k \in Node : Led(k)' = Led(k) /\ (pc'[k] = "collect" => pc[k] = "collect")
          /\ missing'["B"] = missing["B"]
      <3>1. pc["A"] = "await_registration" /\ (Goto("A", "await_ack") \/ Goto("A", "error"))
        BY <1>2, <2>1 DEF RegistrationResult
      <3>2. missing'["B"] = missing["B"]
        BY <2>1 DEF OrderInv, TypeInv, TypeOK, NodeTypeOK, Node
      <3> QED
        BY <3>1, <3>2, GotoOrder DEF Led, Location, Node
    <2> QED
      BY <2>2, <2>4, <2>5, SteadyOrder
  <1> QED
    BY <1>1, <1>2 DEF Register

LEMMA BarrierOrder ==
    ASSUME OrderInv, NEW n \in Node, Barrier(n)
    PROVE  RelayOrder'
  <1>1. CASE GroupReadyAcked
    <2>1. PICK m \in Received("A") : LET rest == missing["A"] \ {m.src} IN
             /\ missing' = [missing EXCEPT !["A"] = rest]
             /\ Exchange("A", m, {GroupReady(d, groupId["A"]) : d \in rest})
             /\ \/ Goto("A", "await_challenge")
                   /\ RequestServer({ChallengeRequest("A", groupId["A"])})
                \/ UNCHANGED <<pc, serverVars>>
      BY <1>1 DEF GroupReadyAcked
    <2> DEFINE out == {GroupReady(d, groupId["A"]) : d \in missing["A"] \ {m.src}}
    <2>2. /\ UNCHANGED <<completed, replies>>
          /\ \A q \in requests' : q \in requests \/ q.kind # "SignatureBundle"
      BY <2>1 DEF RequestServer, serverState, serverVars, ChallengeRequest
    <2>3. NetOrder'
      <3>1. \A d \in out : Timely(d)
        BY SentTimely, "A" \in Node DEF Node
      <3>2. Exchange("A", m, out)
        BY <2>1
      <3> HIDE DEF out
      <3> QED
        BY <2>2, <3>1, <3>2, ExchangeOrder DEF Node
    <2>4. /\ \A k \in Node : Led(k)' = Led(k) /\ (pc'[k] = "collect" => pc[k] = "collect")
          /\ missing'["B"] = missing["B"]
      <3>1. pc["A"] = "await_ack" /\ (Goto("A", "await_challenge") \/ UNCHANGED pc)
        BY <1>1, <2>1 DEF GroupReadyAcked, serverVars
      <3>2. missing'["B"] = missing["B"]
        BY <2>1 DEF OrderInv, TypeInv, TypeOK, NodeTypeOK, Node
      <3>3. CASE UNCHANGED pc
        BY <3>2, <3>3 DEF Led
      <3>4. CASE Goto("A", "await_challenge")
        BY <3>1, <3>2, <3>4, GotoOrder DEF Led, Location, Node
      <3> QED
        BY <3>1, <3>3, <3>4
    <2> QED
      BY <2>2, <2>3, <2>4, SteadyOrder
  <1>2. CASE GroupReadyReceived(n)
    <2>1. UNCHANGED <<completed, replies, requests, missing>>
      BY <1>2 DEF GroupReadyReceived, serverVars
    <2>2. NetOrder'
      BY <1>2, <2>1, SentTimely, ExchangeOrder DEF GroupReadyReceived
    <2>3. \A k \in Node : Led(k)' = Led(k) /\ (pc'[k] = "collect" => pc[k] = "collect")
      BY <1>2, GotoOrder DEF GroupReadyReceived, Led, Location
    <2> QED
      BY <2>1, <2>2, <2>3, SteadyOrder
  <1> QED
    BY <1>1, <1>2 DEF Barrier

\* A node that reads a datagram and stays where it is.
LEMMA ReadOrder ==
    ASSUME OrderInv, NEW n \in Node, UNCHANGED <<serverVars, pc, missing>>,
           NEW m \in Received(n), NEW out, Exchange(n, m, out), \A d \in out : Timely(d)
    PROVE  RelayOrder'
  <1>1. NetOrder'
    BY ExchangeOrder DEF serverVars
  <1> QED
    BY <1>1, SteadyOrder DEF serverVars, Led

LEMMA WaitForOrder ==
    ASSUME OrderInv, NEW n \in Node, WaitForDefers(n)
    PROVE  RelayOrder'
  <1>1. PICK m \in datagrams : /\ backlog[n] = <<>>
                               /\ datagrams' = datagrams \ {m}
                               /\ backlog' = [backlog EXCEPT ![n] = Append(@, m)]
                               /\ UNCHANGED <<serverVars, nodeVars>>
    BY DEF WaitForDefers, Received
  <1>2. NetOrder'
    <2>1. backlog \in [Node -> Seq(Datagram)] /\ datagrams \subseteq Datagram
      BY DEF OrderInv, TypeInv, TypeOK, NetTypeOK
    <2>2. backlog'[n] = <<m>>
      BY <1>1, <2>1
    <2>3. ASSUME NEW k \in Node, NEW i \in 1..Len(backlog'[k]) PROVE Timely(backlog'[k][i])
      <3>1. CASE k = n
        BY <1>1, <2>2, <2>3, <3>1 DEF OrderInv, RelayOrder, NetOrder
      <3>2. CASE k # n
        BY <1>1, <2>1, <2>3, <3>2 DEF OrderInv, RelayOrder, NetOrder
      <3> QED
        BY <3>1, <3>2
    <2> QED
      BY <1>1, <2>3, TimelyKept DEF OrderInv, RelayOrder, NetOrder, serverVars
  <1> QED
    BY <1>1, <1>2, SteadyOrder DEF serverVars, nodeVars, Led

LEMMA FollowOrder ==
    ASSUME OrderInv, NEW n \in Node, Follow(n) \/ AwaitBaton(n) \/ BatonMissing(n)
    PROVE  RelayOrder'
  <1>1. CASE FollowCommon(n)
    <2>1. PICK m \in Received(n) : Exchange(n, m, CommonAck(n, m))
      BY <1>1 DEF FollowCommon
    <2> QED
      BY <1>1, <2>1, SentTimely, ReadOrder DEF FollowCommon
  <1>2. CASE FollowNonce(n)
    <2>1. PICK m \in Received(n) : m.kind = "Nonce" /\ Exchange(n, m, Signature(n, m))
      BY <1>2 DEF FollowNonce, IsFollowed
    <2>2. UNCHANGED <<serverVars, missing>> /\ pc[n] = "follow"
          /\ (UNCHANGED pc \/ Goto(n, "await_baton"))
      BY <1>2 DEF FollowNonce
    <2>3. NetOrder'
      BY <2>1, <2>2, SentTimely, ExchangeOrder DEF serverVars
    <2>4. \A k \in Node : Led(k)' = Led(k) /\ (pc'[k] = "collect" => pc[k] = "collect")
      <3>1. CASE UNCHANGED pc
        BY <3>1 DEF Led
      <3>2. CASE Goto(n, "await_baton")
        BY <2>2, <3>2, GotoOrder DEF Led, Location
      <3> QED
        BY <2>2, <3>1, <3>2
    <2> QED
      BY <2>2, <2>3, <2>4, SteadyOrder DEF serverVars
  <1>3. CASE FollowDrop(n)
    BY <1>3, ReadOrder DEF FollowDrop, nodeVars
  <1>4. CASE AwaitBatonReply(n)
    <2>1. PICK m \in Received(n) : \/ Exchange(n, m, CommonAck(n, m))
                                   \/ m.kind = "Nonce" /\ Exchange(n, m, Signature(n, m))
      BY <1>4 DEF AwaitBatonReply
    <2>2. UNCHANGED <<serverVars, pc, missing>> /\ pc[n] = "await_baton"
      BY <1>4 DEF AwaitBatonReply
    <2>3. CASE Exchange(n, m, CommonAck(n, m))
      BY <2>2, <2>3, SentTimely, ReadOrder
    <2>4. CASE m.kind = "Nonce" /\ Exchange(n, m, Signature(n, m))
      BY <2>2, <2>4, SentTimely, ReadOrder
    <2> QED
      BY <2>1, <2>3, <2>4
  <1>5. CASE BatonReceived(n)
    <2>1. PICK m \in Received(n) : Exchange(n, m, {BatonAck(n, m.src)})
      BY <1>5 DEF BatonReceived
    <2>2. /\ UNCHANGED <<replies, completed, missing>>
          /\ requests' = requests \cup {ChallengeRequest(n, groupId[n])}
          /\ pc[n] = "await_baton" /\ Goto(n, "await_challenge")
      BY <1>5 DEF BatonReceived, RequestServer, serverState
    <2>3. NetOrder'
      BY <2>1, <2>2, SentTimely, ExchangeOrder
    <2>4. \A k \in Node : Led(k)' = Led(k) /\ (pc'[k] = "collect" => pc[k] = "collect")
      BY <2>2, GotoOrder DEF Led, Location
    <2> QED
      BY <2>2, <2>3, <2>4, SteadyOrder DEF ChallengeRequest
  <1>6. CASE BatonMissing(n)
    <2>1. /\ UNCHANGED <<netVars, replies, completed, missing>>
          /\ requests' = requests \cup {ChallengeRequest(n, groupId[n])}
          /\ pc[n] = "await_baton" /\ Goto(n, "fallback")
      BY <1>6 DEF BatonMissing, RequestServer, serverState
    <2>2. NetOrder'
      BY <2>1 DEF netVars, OrderInv, RelayOrder, NetOrder, Timely
    <2>3. \A k \in Node : Led(k)' = Led(k) /\ (pc'[k] = "collect" => pc[k] = "collect")
      BY <2>1, GotoOrder DEF Led, Location
    <2> QED
      BY <2>1, <2>2, <2>3, SteadyOrder DEF ChallengeRequest
  <1> QED
    BY <1>1, <1>2, <1>3, <1>4, <1>5, <1>6 DEF Follow, AwaitBaton

\* Leading starts with a challenge of the node's own round, which the server had
\* begun when it sent it.
LEMMA ChallengeOrder ==
    ASSUME OrderInv, NEW n \in Node, Challenged(n)
    PROVE  RelayOrder'
  <1>1. CASE ChallengeOfOtherRound(n)
    <2>1. /\ UNCHANGED <<netVars, nodeVars, completed>> /\ replies' \subseteq replies
          /\ requests' = requests \cup {ChallengeRequest(n, groupId[n])}
      BY <1>1 DEF ChallengeOfOtherRound, TakeReply, serverState
    <2>2. NetOrder'
      BY <2>1 DEF netVars, OrderInv, RelayOrder, NetOrder, Timely
    <2> QED
      BY <2>1, <2>2, SteadyOrder DEF ChallengeRequest, nodeVars, Led
  <1>2. CASE FallbackChallenge(n)
    <2>1. /\ UNCHANGED <<netVars, missing, completed>> /\ replies' \subseteq replies
          /\ requests' = requests \cup {ChallengeRequest(n, groupId[n])}
          /\ pc[n] = "fallback" /\ Goto(n, "await_challenge")
      BY <1>2 DEF FallbackChallenge, TakeReply, serverState
    <2>2. NetOrder'
      BY <2>1 DEF netVars, OrderInv, RelayOrder, NetOrder, Timely
    <2>3. \A k \in Node : Led(k)' = Led(k) /\ (pc'[k] = "collect" => pc[k] = "collect")
      BY <2>1, GotoOrder DEF Led, Location
    <2> QED
      BY <2>1, <2>2, <2>3, SteadyOrder DEF ChallengeRequest
  <1>3. CASE LeadRound(n)
    <2>1. PICK m \in replies :
             /\ m.kind = "ChallengeResponse" /\ m.round = LocalRound[n]
             /\ TakeReply(m, {})
             /\ Send({Nonce(n, d, m.nonce) : d \in Node \ {n}})
      BY <1>3 DEF LeadRound, RepliesTo
    <2>2. /\ UNCHANGED <<completed, requests>> /\ replies' \subseteq replies
          /\ missing' = [missing EXCEPT ![n] = Node \ {n}]
          /\ pc[n] = "await_challenge" /\ pc' = [pc EXCEPT ![n] = "collect"]
      BY <1>3, <2>1 DEF LeadRound, TakeReply, serverState, Goto
    <2>3. completed >= LocalRound[n] - 1
      BY <2>1 DEF OrderInv, RelayOrder, ServerOrder
    <2>4. NetOrder'
      <3>1. \A d \in {Nonce(n, k, m.nonce) : k \in Node \ {n}} : Timely(d)
        BY <2>3 DEF Nonce, Timely
      <3> QED
        BY <2>1, <2>2, <3>1, SendOrder DEF Send
    <2>5. \A k \in Node : /\ Led(k)' = Led(k)
                          /\ pc'[k] = "collect" => pc[k] = "collect" \/ k = n
                          /\ k # n => missing'[k] = missing[k]
      BY <2>2 DEF Led, OrderInv, TypeInv, TypeOK, NodeTypeOK
    <2>6. ServerOrder'
      BY <2>2, <2>5 DEF OrderInv, RelayOrder, ServerOrder, TypeInv, TypeOK, ServerTypeOK, Request
    <2>7. LeadOrder'
      <3>1. missing'[n] = Node \ {n}
        BY <2>2 DEF OrderInv, TypeInv, TypeOK, NodeTypeOK
      <3> QED
        BY <2>2, <2>5, <3>1 DEF OrderInv, RelayOrder, LeadOrder, Node
    <2>8. OneLeaderAtATime' /\ OnlyRoundOneCompletes'
      BY <2>2, <2>3, <2>5 DEF OrderInv, RelayOrder, OneLeaderAtATime, OnlyRoundOneCompletes
    <2> QED
      BY <2>4, <2>6, <2>7, <2>8 DEF RelayOrder
  <1> QED
    BY <1>1, <1>2, <1>3 DEF Challenged

\* B never gets the signature of A: the one it needs is of round 2.
LEMMA SignatureOfA ==
    ASSUME OrderInv, NEW m \in Received("B"), IsSignature("B", m)
    PROVE  m.src # "A"
  <1>1. m.src = "A" => m.round = 1
    BY ReceivedTimely DEF IsSignature, Timely, Node
  <1> QED
    BY <1>1, RoundFacts DEF IsSignature

LEMMA CollectOrder ==
    ASSUME OrderInv, NEW n \in Node, Collect(n)
    PROVE  RelayOrder'
  <1>1. CASE CollectReply(n)
    <2> DEFINE again == Rebroadcast(n, missing[n])
    <2>1. PICK m \in Received(n) :
             \/ Exchange(n, m, CommonAck(n, m) \cup again)
             \/ m.kind = "Nonce" /\ Exchange(n, m, Signature(n, m) \cup again)
      BY <1>1 DEF CollectReply
    <2>2. UNCHANGED <<serverVars, pc, missing>> /\ pc[n] = "collect"
      BY <1>1 DEF CollectReply
    <2>3. \A d \in CommonAck(n, m) \cup again : Timely(d)
      BY <2>2, SentTimely
    <2>4. m.kind = "Nonce" => \A d \in Signature(n, m) \cup again : Timely(d)
      BY <2>2, SentTimely
    <2> HIDE DEF again
    <2>5. CASE Exchange(n, m, CommonAck(n, m) \cup again)
      BY <2>2, <2>3, <2>5, ReadOrder
    <2>6. CASE m.kind = "Nonce" /\ Exchange(n, m, Signature(n, m) \cup again)
      BY <2>2, <2>4, <2>6, ReadOrder
    <2> QED
      BY <2>1, <2>5, <2>6
  <1>2. CASE CollectDrop(n)
    <2>1. PICK m \in Received(n) : Exchange(n, m, Rebroadcast(n, missing[n]))
      BY <1>2 DEF CollectDrop
    <2>2. UNCHANGED <<serverVars, pc, missing>> /\ pc[n] = "collect"
      BY <1>2 DEF CollectDrop, nodeVars
    <2> QED
      BY <2>1, <2>2, SentTimely, ReadOrder
  <1>3. CASE CollectSignature(n)
    <2>1. PICK m \in Received(n) : /\ IsSignature(n, m)
                                   /\ missing' = [missing EXCEPT ![n] = @ \ {m.src}]
                                   /\ Exchange(n, m, Rebroadcast(n, missing[n] \ {m.src}))
      BY <1>3 DEF CollectSignature
    <2>2. UNCHANGED <<serverVars, pc>> /\ pc[n] = "collect"
      BY <1>3 DEF CollectSignature
    <2>3. NetOrder'
      BY <2>1, <2>2, SentTimely, ExchangeOrder DEF serverVars
    <2>4. n = "B" => m.src # "A"
      BY <2>1, SignatureOfA
    <2>5. "A" \in missing["B"] => "A" \in missing'["B"]
      BY <2>1, <2>4 DEF OrderInv, TypeInv, TypeOK, NodeTypeOK, Node
    <2>6. LeadOrder'
      BY <2>2, <2>5 DEF serverVars, Led, OrderInv, RelayOrder, LeadOrder
    <2>7. ServerOrder' /\ OneLeaderAtATime' /\ OnlyRoundOneCompletes'
      BY <2>2 DEF serverVars, Led, OrderInv, RelayOrder, ServerOrder, OneLeaderAtATime,
         OnlyRoundOneCompletes
    <2> QED
      BY <2>3, <2>6, <2>7 DEF RelayOrder
  <1>4. CASE SubmitBundle(n)
    <2>1. PICK m \in Received(n) :
             /\ IsSignature(n, m) /\ missing[n] = {m.src}
             /\ RequestServer({SignatureBundle(n, groupId[n], LocalRound[n], sigs'[n])})
             /\ \/ Exchange(n, m, {BatonPass(n)})
                \/ Exchange(n, m, {})
      BY <1>4 DEF SubmitBundle
    <2>2. /\ UNCHANGED <<completed, replies>>
          /\ requests' = requests \cup {SignatureBundle(n, groupId[n], LocalRound[n], sigs'[n])}
          /\ pc[n] = "collect" /\ pc' = [pc EXCEPT ![n] = "await_result"]
      BY <1>4, <2>1 DEF SubmitBundle, Goto, RequestServer, serverState
    <2>3. n = "A"
      <3>1. n # "B"
        BY <2>1, <2>2, SignatureOfA DEF OrderInv, RelayOrder, LeadOrder
      <3>2. n # "C"
        BY <2>2, RoundFacts DEF OrderInv, RelayOrder, OneLeaderAtATime, OnlyRoundOneCompletes,
           TypeInv, TypeOK, ServerTypeOK
      <3> QED
        BY <3>1, <3>2 DEF Node
    <2>4. NetOrder'
      BY <2>1, <2>2, SentTimely, ExchangeOrder
    <2>5. /\ \A k \in Node : Led(k)' <=> Led(k) \/ k = n
          /\ \A k \in Node : pc'[k] = "collect" => pc[k] = "collect"
          /\ missing'["B"] = missing["B"] /\ pc'["B"] = pc["B"]
      <3>1. missing' = [missing EXCEPT !["A"] = {}]
        BY <1>4, <2>3 DEF SubmitBundle
      <3> QED
        BY <2>2, <2>3, <3>1 DEF Led, OrderInv, TypeInv, TypeOK, NodeTypeOK, Node
    <2>6. ServerOrder'
      BY <2>2, <2>5 DEF SignatureBundle, OrderInv, RelayOrder, ServerOrder, TypeInv, TypeOK,
         ServerTypeOK, Request
    <2>7. LeadOrder'
      BY <2>2, <2>3, <2>5 DEF OrderInv, RelayOrder, LeadOrder, Node
    <2>8. OneLeaderAtATime' /\ OnlyRoundOneCompletes'
      BY <2>2, <2>5 DEF OrderInv, RelayOrder, OneLeaderAtATime, OnlyRoundOneCompletes
    <2> QED
      BY <2>4, <2>6, <2>7, <2>8 DEF RelayOrder
  <1> QED
    BY <1>1, <1>2, <1>3, <1>4 DEF Collect

\* After the bundle: the baton task, the verdict, the end.
LEMMA LeadEndOrder ==
    ASSUME OrderInv, NEW n \in Node,
           BatonAcked(n) \/ BatonExpired(n) \/ RoundResultTaken(n) \/ RoundResultExpired(n)
              \/ Finish(n)
    PROVE  RelayOrder'
  <1>1. CASE BatonAcked(n)
    BY <1>1, ReadOrder DEF BatonAcked
  <1>2. ASSUME UNCHANGED <<netVars, requests, completed, missing>>, replies' \subseteq replies,
               \/ UNCHANGED pc
               \/ Led(n) /\ (Goto(n, "finishing") \/ Goto(n, "done"))
        PROVE  RelayOrder'
    <2>1. NetOrder'
      BY <1>2 DEF netVars, OrderInv, RelayOrder, NetOrder, Timely
    <2>2. \A k \in Node : Led(k)' = Led(k) /\ (pc'[k] = "collect" => pc[k] = "collect")
      <3>1. CASE UNCHANGED pc
        BY <3>1 DEF Led
      <3>2. CASE Led(n) /\ (Goto(n, "finishing") \/ Goto(n, "done"))
        BY <3>2, GotoOrder DEF Location
      <3> QED
        BY <1>2, <3>1, <3>2
    <2> QED
      BY <1>2, <2>1, <2>2, SteadyOrder
  <1>3. CASE BatonExpired(n)
    BY <1>2, <1>3 DEF BatonExpired, serverVars
  <1>4. CASE RoundResultTaken(n)
    <2>1. PICK m : TakeReply(m, {})
      BY <1>4 DEF RoundResultTaken
    <2>2. UNCHANGED <<requests, completed>> /\ replies' \subseteq replies
      BY <2>1 DEF TakeReply, serverState
    <2> QED
      BY <1>2, <1>4, <2>2 DEF RoundResultTaken, Led
  <1>5. CASE RoundResultExpired(n)
    BY <1>2, <1>5 DEF RoundResultExpired, serverVars, Led
  <1>6. CASE Finish(n)
    BY <1>2, <1>6 DEF Finish, serverVars, Led
  <1> QED
    BY <1>1, <1>3, <1>4, <1>5, <1>6

LEMMA ExpireOrder ==
    ASSUME OrderInv, NEW n \in Node, Expire(n)
    PROVE  RelayOrder'
  <1>1. CASE BatonMissing(n)
    BY <1>1, FollowOrder
  <1>2. CASE BatonExpired(n) \/ RoundResultExpired(n)
    BY <1>2, LeadEndOrder
  <1>3. CASE (RegistrationExpired \/ GroupReadyExpired) /\ n = "A"
    BY <1>3, FailOrder DEF RegistrationExpired, GroupReadyExpired, Led
  <1>4. CASE GroupReadyMissed(n) \/ FollowExpired(n) \/ ChallengeExpired(n)
    BY <1>4, FailOrder DEF GroupReadyMissed, FollowExpired, ChallengeExpired, Polling, Led
  <1> QED
    BY <1>1, <1>2, <1>3, <1>4 DEF Expire

LEMMA LoseOrder ==
    ASSUME OrderInv, Lose
    PROVE  RelayOrder'
  <1>1. UNCHANGED <<serverVars, nodeVars, backlog>> /\ datagrams' \subseteq datagrams
    BY DEF Lose
  <1>2. NetOrder'
    BY <1>1 DEF serverVars, OrderInv, RelayOrder, NetOrder, Timely
  <1> QED
    BY <1>1, <1>2, SteadyOrder DEF serverVars, nodeVars, Led

LEMMA NextOrder == OrderInv /\ [Next]_vars => OrderInv'
  <1> SUFFICES ASSUME OrderInv, [Next]_vars PROVE OrderInv'
    OBVIOUS
  <1>1. TypeInv'
    BY NextPreservesType DEF OrderInv
  <1> SUFFICES RelayOrder'
    BY <1>1 DEF OrderInv
  <1>2. ASSUME NEW n \in Node, NodeStep(n) PROVE RelayOrder'
    BY <1>2, WaitForOrder, RegisterOrder, BarrierOrder, FollowOrder, ChallengeOrder,
       CollectOrder, LeadEndOrder, RetryOrder, ExpireOrder
       DEF NodeStep, OnDatagram, OnReply
  <1>3. CASE UNCHANGED vars
    <2>1. UNCHANGED <<requests, replies, completed, pc, missing, datagrams, backlog>>
      BY <1>3 DEF vars, serverVars, nodeVars, netVars
    <2>2. NetOrder'
      BY <2>1 DEF OrderInv, RelayOrder, NetOrder, Timely
    <2>3. \A n \in Node : Led(n)' = Led(n)
      BY <2>1 DEF Led
    <2> QED
      BY <2>1, <2>2, <2>3, SteadyOrder
  <1>4. CASE ServerStep
    BY <1>4, ServerStepOrder
  <1>5. CASE Lose
    BY <1>5, LoseOrder
  <1> QED
    BY <1>2, <1>3, <1>4, <1>5 DEF Next, Terminated

-----------------------------------------------------------------------------
\* RelayOrder always holds.
THEOREM Ordered == Spec => []RelayOrder
  <1>1. Init => OrderInv
    BY InitTypeInv, InitOrder DEF OrderInv
  <1>2. OrderInv => RelayOrder
    BY DEF OrderInv
  <1> QED
    BY <1>1, <1>2, NextOrder, PTL DEF Spec

\* Whatever is delayed, lost or duplicated: nobody broadcasts the nonce of a round
\* (_lead_round's loop) before the server has accepted the round before it.
THEOREM LeadersInTurn == Spec => []OneLeaderAtATime
  <1>1. RelayOrder => OneLeaderAtATime
    BY DEF RelayOrder
  <1> QED
    BY <1>1, Ordered, PTL

\* However many retries and whatever the deadlines, the server never accepts a
\* second round: run() leaves after its own round.
THEOREM RelayEndsAfterRoundOne == Spec => []OnlyRoundOneCompletes
  <1>1. RelayOrder => OnlyRoundOneCompletes
    BY DEF RelayOrder
  <1> QED
    BY <1>1, Ordered, PTL
=============================================================================
