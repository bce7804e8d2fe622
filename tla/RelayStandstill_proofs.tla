----------------------- MODULE RelayStandstill_proofs -----------------------
(***************************************************************************)
(* Where the relay race stands still for good: a barrier starved by a      *)
(* message that was set aside, and a signature that was lost.  For every   *)
(* set of groups and nonces, every set of deadlines and every bound.       *)
(***************************************************************************)
EXTENDS RelayGuarantees_proofs

-----------------------------------------------------------------------------
(* What a step of one node leaves to the others, and which steps a node    *)
(* can take where it is.                                                   *)

\* A node's step leaves alone where the others are.
Resting(k) ==
    /\ pc'[k] = pc[k] /\ round'[k] = round[k] /\ missing'[k] = missing[k]
    /\ backlog'[k] = backlog[k] /\ baton'[k] = baton[k]

LEMMA OthersRest ==
    ASSUME TypeInv, NEW n \in Node, NodeStep(n), NEW k \in Node \ {n}
    PROVE  Resting(k)
  <1>1. /\ pc \in [Node -> Location] /\ round \in [Node -> Round]
        /\ missing \in [Node -> SUBSET Node]
        /\ baton \in [Node -> {"idle", "sending", "done"}] /\ backlog \in [Node -> Seq(Datagram)]
    BY DEF TypeInv, TypeOK, NodeTypeOK, NetTypeOK
  <1>2. CASE n = "A" /\ Register
    BY <1>1, <1>2 DEF Register, StartRegistration, RegistrationResult, Goto, Send, Resting, netVars
  <1>8. CASE Barrier(n)
    <2>1. CASE n = "A" /\ GroupReadyAcked
      BY <1>1, <2>1 DEF GroupReadyAcked, Goto, Exchange, Resting
    <2>2. CASE GroupReadyReceived(n)
      BY <1>1, <2>2 DEF GroupReadyReceived, Goto, Exchange, Resting
    <2> QED
      BY <1>8, <2>1, <2>2 DEF Barrier
  <1>3. CASE WaitForDefers(n) \/ BatonAcked(n) \/ RoundResultTaken(n) \/ Finish(n)
    BY <1>1, <1>3 DEF WaitForDefers, BatonAcked, RoundResultTaken, Finish, Goto, Exchange, Resting,
       netVars, nodeVars
  <1>4. CASE Follow(n) \/ AwaitBaton(n)
    BY <1>1, <1>4 DEF Follow, FollowCommon, FollowNonce, FollowDrop, AwaitBaton, AwaitBatonReply,
       BatonReceived, Goto, Exchange, Resting, nodeVars
  <1>5. CASE CollectReply(n) \/ CollectDrop(n) \/ CollectSignature(n)
    BY <1>1, <1>5 DEF CollectReply, CollectDrop, CollectSignature, Exchange, Resting, nodeVars
  <1>9. CASE SubmitBundle(n)
    BY <1>1, <1>9 DEF SubmitBundle, Goto, Exchange, Resting
  <1>10. CASE Challenged(n)
    BY <1>1, <1>10 DEF Challenged, ChallengeOfOtherRound, FallbackChallenge, LeadRound, Goto, Send,
       Resting, nodeVars, netVars
  <1>6. CASE Retry(n)
    BY <1>1, <1>6 DEF Retry, RegistrationRetry, GroupReadyRetry, ChallengeRetry, CollectRetry,
       BatonRetry, Resend, nodeVars, Resting
  <1>7. CASE Expire(n)
    BY <1>1, <1>7 DEF Expire, RegistrationExpired, GroupReadyExpired, GroupReadyMissed,
       FollowExpired, BatonMissing, ChallengeExpired, BatonExpired, RoundResultExpired, Fail, Goto,
       Resting, netVars
  <1> QED
    BY <1>2, <1>3, <1>4, <1>5, <1>6, <1>7, <1>8, <1>9, <1>10
       DEF NodeStep, OnDatagram, OnReply, Collect

\* Which step a member can take before it leads.
LEMMA NoBatonYet ==
    ASSUME GenuineInv, NEW n \in Node, ~Led(n)
    PROVE  baton[n] = "idle"
  BY DEF GenuineInv, AllGenuine, NodeGenuine

LEMMA StepsBeforeBarrier ==
    ASSUME GenuineInv, NodeStep("A"), pc["A"] \in {"start", "await_registration", "await_ack"}
    PROVE  \/ Register \/ RegistrationRetry \/ RegistrationExpired
           \/ WaitForDefers("A") \/ GroupReadyAcked \/ GroupReadyRetry \/ GroupReadyExpired
  <1>1. baton["A"] = "idle"
    BY NoBatonYet DEF Led, Node
  <1>2. CASE OnDatagram("A")
    BY <1>1, <1>2 DEF OnDatagram, Barrier, GroupReadyReceived, Follow, FollowCommon, FollowNonce,
       FollowDrop, AwaitBaton, AwaitBatonReply, BatonReceived, Collect, CollectReply, CollectDrop,
       CollectSignature, SubmitBundle, BatonAcked
  <1>3. CASE OnReply("A")
    BY <1>3 DEF OnReply, Challenged, ChallengeOfOtherRound, FallbackChallenge, LeadRound, Polling,
       RoundResultTaken
  <1>4. CASE Retry("A")
    BY <1>1, <1>4 DEF Retry, ChallengeRetry, CollectRetry, BatonRetry, Polling
  <1>5. CASE Expire("A")
    BY <1>1, <1>5 DEF Expire, GroupReadyMissed, FollowExpired, BatonMissing, ChallengeExpired,
       BatonExpired, RoundResultExpired, Polling
  <1> QED
    BY <1>2, <1>3, <1>4, <1>5 DEF NodeStep, Finish

LEMMA StepsOfFollower ==
    ASSUME GenuineInv, NEW n \in Node, NodeStep(n), pc[n] \in {"await_group_ready", "follow"}
    PROVE  \/ WaitForDefers(n) \/ GroupReadyReceived(n) \/ GroupReadyMissed(n)
           \/ Follow(n) \/ FollowExpired(n)
  <1>1. baton[n] = "idle"
    BY NoBatonYet DEF Led
  <1>2. CASE OnDatagram(n)
    BY <1>1, <1>2 DEF OnDatagram, Barrier, GroupReadyAcked, 
       AwaitBaton, AwaitBatonReply, BatonReceived, Collect, CollectReply, CollectDrop,
       CollectSignature, SubmitBundle, BatonAcked
  <1>3. CASE OnReply(n)
    BY <1>3 DEF OnReply, Register, StartRegistration, RegistrationResult, Challenged,
       ChallengeOfOtherRound, FallbackChallenge, LeadRound, Polling, RoundResultTaken
  <1>4. CASE Retry(n)
    BY <1>1, <1>4 DEF Retry, RegistrationRetry, GroupReadyRetry, ChallengeRetry, CollectRetry,
       BatonRetry, Polling
  <1>5. CASE Expire(n)
    BY <1>1, <1>5 DEF Expire, RegistrationExpired, GroupReadyExpired, BatonMissing,
       ChallengeExpired, BatonExpired, RoundResultExpired, Polling
  <1> QED
    BY <1>2, <1>3, <1>4, <1>5 DEF NodeStep, Finish

LEMMA StepsOfStopped ==
    ASSUME NEW n \in Node, NodeStep(n), Stopped(n)
    PROVE  WaitForDefers(n) \/ BatonAcked(n) \/ BatonRetry(n) \/ BatonExpired(n)
  <1>1. CASE OnDatagram(n)
    BY <1>1 DEF OnDatagram, Stopped, Barrier, GroupReadyAcked, GroupReadyReceived, Follow,
       FollowCommon, FollowNonce, FollowDrop, AwaitBaton, AwaitBatonReply, BatonReceived,
       Collect, CollectReply, CollectDrop, CollectSignature, SubmitBundle
  <1>2. CASE OnReply(n)
    BY <1>2 DEF OnReply, Stopped, Register, StartRegistration, RegistrationResult, Challenged,
       ChallengeOfOtherRound, FallbackChallenge, LeadRound, Polling, RoundResultTaken
  <1>3. CASE Retry(n)
    BY <1>3 DEF Retry, Stopped, RegistrationRetry, GroupReadyRetry, ChallengeRetry, CollectRetry,
       Polling
  <1>4. CASE Expire(n)
    BY <1>4 DEF Expire, Stopped, RegistrationExpired, GroupReadyExpired, GroupReadyMissed,
       FollowExpired, BatonMissing, ChallengeExpired, RoundResultExpired, Polling
  <1> QED
    BY <1>1, <1>2, <1>3, <1>4 DEF NodeStep, Finish, Stopped

LEMMA StepsOfCollector ==
    ASSUME GenuineInv, NEW n \in Node, NodeStep(n), pc[n] = "collect"
    PROVE  Collect(n) \/ CollectRetry(n)
  <1>1. baton[n] = "idle" /\ ~InWaitFor(n)
    BY NoBatonYet DEF Led, InWaitFor
  <1>2. CASE OnDatagram(n)
    BY <1>1, <1>2 DEF OnDatagram, WaitForDefers, Barrier, GroupReadyAcked, GroupReadyReceived,
       Follow, FollowCommon, FollowNonce, FollowDrop, AwaitBaton, AwaitBatonReply, BatonReceived,
       BatonAcked
  <1>3. CASE OnReply(n)
    BY <1>3 DEF OnReply, Register, StartRegistration, RegistrationResult, Challenged,
       ChallengeOfOtherRound, FallbackChallenge, LeadRound, Polling, RoundResultTaken
  <1>4. CASE Retry(n)
    BY <1>1, <1>4 DEF Retry, RegistrationRetry, GroupReadyRetry, ChallengeRetry, BatonRetry, Polling
  <1>5. CASE Expire(n)
    BY <1>1, <1>5 DEF Expire, RegistrationExpired, GroupReadyExpired, GroupReadyMissed,
       FollowExpired, BatonMissing, ChallengeExpired, BatonExpired, RoundResultExpired, Polling
  <1> QED
    BY <1>2, <1>3, <1>4, <1>5 DEF NodeStep, Finish

-----------------------------------------------------------------------------
(* The barrier.                                                            *)

\* What A has set aside before the barrier opens is no acknowledgement it waits for.
Deferred ==
    /\ pc["A"] \in {"start", "await_registration"} => backlog["A"] = <<>>
    /\ pc["A"] = "await_ack" => \A i \in 1..Len(backlog["A"]) : ~Awaited("A", backlog["A"][i])

\* Nobody has asked for a challenge, so no round has begun.
Unbegun ==
    /\ \A r \in Round : issued[r] = None
    /\ completed = 0
    /\ \A m \in requests : m.kind # "ChallengeRequest"
    /\ \A n \in Node \ {"A"} : pc[n] \in {"await_group_ready", "follow", "error"}
BeforeBarrier == {"start", "await_registration", "await_ack"}
BarrierInv == GenuineInv /\ Deferred /\ (pc["A"] \in BeforeBarrier => Unbegun)

\* What A's steps do until the barrier opens.
LEMMA BarrierStep ==
    ASSUME GenuineInv, Deferred, NodeStep("A"), pc["A"] \in BeforeBarrier
    PROVE  /\ Deferred'
           /\ \/ pc'["A"] = "await_challenge"
              \/ /\ pc'["A"] \in BeforeBarrier \cup {"error"} /\ UNCHANGED serverState
                 /\ \A m \in requests' : m \in requests \/ m.kind # "ChallengeRequest"
           /\ Starved => Starved' \/ pc'["A"] = "error"
  <1>a. /\ pc \in [Node -> Location] /\ backlog \in [Node -> Seq(Datagram)] /\ "A" \in Node
        /\ missing \in [Node -> SUBSET Node] /\ baton["A"] = "idle"
    BY NoBatonYet DEF GenuineInv, OrderInv, TypeInv, TypeOK, NodeTypeOK, NetTypeOK, Node, Led,
       BeforeBarrier
  <1>1. CASE StartRegistration \/ RegistrationRetry \/ RegistrationExpired
    <2>1. /\ UNCHANGED <<backlog, serverState>>
          /\ \A m \in requests' : m \in requests \/ m.kind # "ChallengeRequest"
          /\ pc'["A"] \in {"await_registration", "error"} /\ pc["A"] \in {"start", "await_registration"}
      BY <1>a, <1>1 DEF StartRegistration, RegistrationRetry, RegistrationExpired, Goto, Resend, Fail,
         RequestServer, GroupRegister, nodeVars, netVars, serverVars, serverState
    <2> QED
      BY <2>1 DEF Deferred, BeforeBarrier, Starved
  <1>2. CASE RegistrationResult
    <2>1. /\ UNCHANGED <<backlog, serverState>>
          /\ \A m \in requests' : m \in requests
          /\ pc'["A"] \in {"await_ack", "error"} /\ pc["A"] = "await_registration"
      BY <1>a, <1>2 DEF RegistrationResult, Goto, TakeReply, Send, netVars
    <2> QED
      BY <1>a, <2>1 DEF Deferred, BeforeBarrier, Starved
  <1>3. CASE WaitForDefers("A")
    <2>1. PICK m \in Received("A") :
             /\ backlog["A"] = <<>> /\ ~Awaited("A", m)
             /\ backlog' = [backlog EXCEPT !["A"] = Append(@, m)]
      BY <1>3 DEF WaitForDefers
    <2>2. UNCHANGED <<pc, missing, baton, serverVars>> /\ pc["A"] = "await_ack"
      BY <1>a, <1>3 DEF WaitForDefers, nodeVars, InWaitFor, BeforeBarrier
    <2>3. backlog'["A"] = <<m>>
      BY <1>a, <2>1
    <2>4. ~Awaited("A", m)'
      BY <2>1, <2>2 DEF Awaited
    <2>5. Deferred'
      BY <2>2, <2>3, <2>4 DEF Deferred
    <2> QED
      BY <2>1, <2>2, <2>5 DEF BeforeBarrier, Starved, serverVars, serverState
  <1>4. CASE GroupReadyAcked
    <2>1. \E m \in Received("A") : Awaited("A", m)
      BY <1>4 DEF GroupReadyAcked
    <2>2. backlog["A"] # <<>> => ~Awaited("A", Head(backlog["A"]))
      BY <1>a, <1>4 DEF GroupReadyAcked, Deferred
    <2>3. backlog["A"] = <<>>
      BY <2>1, <2>2 DEF Received
    <2>4. backlog'["A"] = <<>>
      BY <1>a, <1>4, <2>3 DEF GroupReadyAcked, Exchange
    <2>5. pc'["A"] = "await_challenge" \/ UNCHANGED <<pc, serverVars>>
      BY <1>a, <1>4 DEF GroupReadyAcked, Goto
    <2> QED
      BY <2>3, <2>4, <2>5 DEF Deferred, Starved, BeforeBarrier, serverVars, serverState
  <1>5. CASE GroupReadyRetry
    <2>1. /\ UNCHANGED <<backlog, serverState, pc, missing, baton>>
          /\ \A m \in requests' : m \in requests
      BY <1>5 DEF GroupReadyRetry, Resend, RequestServer, nodeVars
    <2> QED
      BY <2>1 DEF Deferred, BeforeBarrier, Starved, Awaited
  <1>6. CASE GroupReadyExpired
    <2>1. UNCHANGED <<backlog, serverState, requests>> /\ pc'["A"] = "error"
      BY <1>a, <1>6 DEF GroupReadyExpired, Fail, Goto, netVars, serverVars, serverState
    <2> QED
      BY <2>1 DEF Deferred, BeforeBarrier
  <1> QED
    BY <1>1, <1>2, <1>3, <1>4, <1>5, <1>6, StepsBeforeBarrier DEF Register, BeforeBarrier

\* Nor does a member that waits to be told, or for the first nonce, begin anything.
LEMMA FollowerStep ==
    ASSUME GenuineInv, Unbegun, NEW n \in Node \ {"A"}, NodeStep(n)
    PROVE  /\ pc'[n] \in {"await_group_ready", "follow", "error"}
           /\ UNCHANGED <<serverState, requests>>
  <1>a. pc[n] \in {"await_group_ready", "follow", "error"} /\ pc \in [Node -> Location]
    BY DEF Unbegun, GenuineInv, OrderInv, TypeInv, TypeOK, NodeTypeOK
  <1>b. baton[n] = "idle"
    BY <1>a, NoBatonYet DEF Led
  <1>1. CASE WaitForDefers(n)
    BY <1>a, <1>1 DEF WaitForDefers, nodeVars, serverVars, serverState
  <1>2. CASE GroupReadyReceived(n)
    BY <1>a, <1>2 DEF GroupReadyReceived, Goto, serverVars, serverState
  <1>3. CASE GroupReadyMissed(n) \/ FollowExpired(n)
    BY <1>a, <1>3 DEF GroupReadyMissed, FollowExpired, Fail, Goto, serverVars, serverState
  <1>4. CASE FollowCommon(n) \/ FollowDrop(n)
    BY <1>a, <1>4 DEF FollowCommon, FollowDrop, nodeVars, serverVars, serverState
  <1>5. ~FollowNonce(n)
    <2> SUFFICES ASSUME NEW m \in Received(n), IsFollowed(n, m) PROVE FALSE
      BY DEF FollowNonce
    <2>1. Issued(m.round, m.val) /\ m.round \in Round
      BY ReceivedGenuine, DatagramFacts DEF Genuine, IsFollowed
    <2> QED
      BY <2>1 DEF Issued, Unbegun
  <1>6. ~(BatonAcked(n) \/ BatonRetry(n) \/ BatonExpired(n))
    BY <1>b DEF BatonAcked, BatonRetry, BatonExpired
  <1>7. pc[n] = "error" => Stopped(n)
    BY DEF Stopped
  <1> QED
    BY <1>a, <1>1, <1>2, <1>3, <1>4, <1>5, <1>6, <1>7, StepsOfFollower, StepsOfStopped DEF Follow

\* Without a request for a challenge the server begins no round.
LEMMA ServerWaits ==
    ASSUME TypeInv, Unbegun, ServerStep
    PROVE  Unbegun' /\ UNCHANGED <<nodeVars, netVars>>
  <1>1. UNCHANGED <<nodeVars, netVars>> /\ UNCHANGED pc
    BY DEF ServerStep, nodeVars
  <1>2. CASE BudgetCloses
    BY <1>1, <1>2 DEF BudgetCloses, Unbegun
  <1>3. ASSUME NEW m \in requests, ServeRegister(m) PROVE Unbegun'
    BY <1>1, <1>3 DEF ServeRegister, Arrive, Unbegun
  <1>4. ASSUME NEW m \in requests, ServeChallenge(m) PROVE Unbegun'
    BY <1>4 DEF ServeChallenge, Unbegun
  <1>5. ASSUME NEW m \in requests, ServeBundle(m) PROVE Unbegun'
    <2>1. ~Acceptable(m)
      BY DEF Acceptable, Unbegun, Round
    <2> QED
      BY <1>1, <1>5, <2>1 DEF ServeBundle, Arrive, Unbegun
  <1> QED
    BY <1>1, <1>2, <1>3, <1>4, <1>5 DEF ServerStep, Serve

\* Once past the barrier, or stopped, A does not come back to it.
LEMMA NoWayBack ==
    ASSUME GenuineInv, NodeStep("A"), pc["A"] \notin BeforeBarrier
    PROVE  /\ pc'["A"] \notin BeforeBarrier
           /\ pc["A"] # "error"
  <1>a. pc \in [Node -> Location] /\ "A" \in Node
    BY DEF GenuineInv, OrderInv, TypeInv, TypeOK, NodeTypeOK, Node
  <1>b. pc["A"] # "error"
    BY <1>a, StepsOfStopped, NoBatonYet DEF Stopped, Led, WaitForDefers, InWaitFor, BatonAcked,
       BatonRetry, BatonExpired
  <1> SUFFICES pc'["A"] \notin BeforeBarrier
    BY <1>b
  <1>1. CASE OnDatagram("A")
    BY <1>a, <1>1 DEF OnDatagram, WaitForDefers, Barrier, GroupReadyAcked, GroupReadyReceived, Follow,
       FollowCommon, FollowNonce, FollowDrop, AwaitBaton, AwaitBatonReply, BatonReceived,
       Collect, CollectReply, CollectDrop, CollectSignature, SubmitBundle, BatonAcked,
       Goto, BeforeBarrier, nodeVars
  <1>2. CASE OnReply("A")
    BY <1>a, <1>2 DEF OnReply, Register, StartRegistration, RegistrationResult, Challenged,
       ChallengeOfOtherRound, FallbackChallenge, LeadRound, RoundResultTaken, Goto, BeforeBarrier,
       nodeVars
  <1>3. CASE Retry("A")
    BY <1>3 DEF Retry, RegistrationRetry, GroupReadyRetry, ChallengeRetry, CollectRetry,
       BatonRetry, Resend, nodeVars
  <1>4. CASE Expire("A")
    BY <1>a, <1>4 DEF Expire, RegistrationExpired, GroupReadyExpired, GroupReadyMissed,
       FollowExpired, BatonMissing, ChallengeExpired, BatonExpired, RoundResultExpired, Fail, Goto,
       BeforeBarrier
  <1>5. CASE Finish("A")
    BY <1>a, <1>5 DEF Finish, Goto, BeforeBarrier
  <1> QED
    BY <1>1, <1>2, <1>3, <1>4, <1>5 DEF NodeStep

\* A has given up or waits on, and nothing has begun.
Closed == Unbegun /\ pc["A"] \in BeforeBarrier \cup {"error"}

LEMMA NextBarrier ==
    ASSUME GenuineInv, Deferred, [Next]_vars
    PROVE  /\ Deferred'
           /\ Starved => Starved' \/ pc'["A"] = "error"
           /\ pc["A"] = "error" => pc'["A"] = "error"
           /\ pc'["A"] \in BeforeBarrier => pc["A"] \in BeforeBarrier
           /\ Closed => Closed' \/ pc'["A"] = "await_challenge"
  <1>a. "A" \in Node /\ TypeInv /\ "error" \notin BeforeBarrier
    BY DEF GenuineInv, OrderInv, Node, BeforeBarrier
  <1>1. CASE ServerStep \/ Lose \/ UNCHANGED vars
    <2>1. UNCHANGED <<pc, missing, baton, backlog>>
      BY <1>1 DEF ServerStep, Lose, vars, nodeVars, netVars
    <2>2. Deferred' /\ (Starved => Starved')
      BY <2>1 DEF Deferred, Awaited, Starved
    <2>3. Unbegun => Unbegun'
      BY <1>a, <1>1, ServerWaits DEF Lose, vars, serverVars, nodeVars, Unbegun
    <2> QED
      BY <2>1, <2>2, <2>3 DEF Closed
  <1>2. CASE NodeStep("A")
    <2>1. CASE pc["A"] \in BeforeBarrier
      <3>1. \A n \in Node \ {"A"} : Resting(n)
        BY <1>a, <1>2, OthersRest
      <3>2. /\ Deferred' /\ (Starved => Starved' \/ pc'["A"] = "error")
            /\ \/ pc'["A"] = "await_challenge"
               \/ /\ pc'["A"] \in BeforeBarrier \cup {"error"} /\ UNCHANGED serverState
                  /\ \A m \in requests' : m \in requests \/ m.kind # "ChallengeRequest"
        BY <1>2, <2>1, BarrierStep
      <3>3. Closed => Closed' \/ pc'["A"] = "await_challenge"
        BY <3>1, <3>2 DEF Closed, Unbegun, Resting, serverState
      <3> QED
        BY <1>a, <2>1, <3>2, <3>3
    <2>2. CASE pc["A"] \notin BeforeBarrier
      <3>1. pc'["A"] \notin BeforeBarrier /\ pc["A"] # "error"
        BY <1>2, <2>2, NoWayBack
      <3> QED
        BY <2>2, <3>1 DEF Deferred, Closed, Starved, BeforeBarrier
    <2> QED
      BY <2>1, <2>2
  <1>3. ASSUME NEW n \in Node \ {"A"}, NodeStep(n)
        PROVE  /\ Deferred' /\ (Starved => Starved') /\ pc'["A"] = pc["A"]
               /\ Closed => Closed'
    <2>1. Resting("A") /\ \A k \in Node \ {n} : Resting(k)
      BY <1>a, <1>3, OthersRest
    <2>2. Unbegun => Unbegun'
      BY <1>3, <2>1, FollowerStep DEF Unbegun, Resting, serverState
    <2> QED
      BY <2>1, <2>2 DEF Resting, Deferred, Awaited, Starved, Closed
  <1> QED
    BY <1>1, <1>2, <1>3 DEF Next, Terminated

LEMMA BarrierAlways == Spec => []BarrierInv
  <1>1. Init => BarrierInv
    BY InitTypeInv, InitOrder, InitGenuine
       DEF Init, ServerInit, BarrierInv, GenuineInv, OrderInv, Deferred, Unbegun, Node
  <1>2. BarrierInv /\ [Next]_vars => BarrierInv'
    BY NextGenuine, NextBarrier DEF BarrierInv, Closed, BeforeBarrier
  <1> QED
    BY <1>1, <1>2, PTL DEF Spec

\* _send_group_ready, once wait_for() has set a message aside, ends by its deadline
\* or not at all, for any number of retries and whatever arrives.
THEOREM BarrierNeverReopens == Spec => BarrierStaysShut
  <1>1. BarrierInv /\ [Next]_vars => [Starved => Starved' \/ pc'["A"] = "error"]_vars
    BY NextBarrier DEF BarrierInv
  <1> QED
    BY <1>1, BarrierAlways, PTL DEF Spec, BarrierStaysShut

\* ... and with it ends the race: the server never issues a nonce, so nobody is asked
\* to sign, and no round is ever recorded.
THEOREM StarvedBarrierEndsRace ==
    Spec => [](Starved => [](completed = 0 /\ \A r \in Round : issued[r] = None))
  <1> DEFINE Shut == Closed /\ (Starved \/ pc["A"] = "error")
             Nothing == completed = 0 /\ \A r \in Round : issued[r] = None
  <1>1. BarrierInv /\ Starved => Shut
    BY DEF BarrierInv, Closed, Starved, BeforeBarrier
  <1>2. BarrierInv /\ Shut /\ [Next]_vars => Shut'
    <2> SUFFICES ASSUME BarrierInv, Shut, [Next]_vars PROVE Shut'
      OBVIOUS
    <2>1. Starved' \/ pc'["A"] = "error"
      BY NextBarrier DEF BarrierInv
    <2>2. Closed'
      BY <2>1, NextBarrier DEF BarrierInv, Starved
    <2> QED
      BY <2>1, <2>2
  <1>3. Shut => Nothing
    BY DEF Closed, Unbegun
  <1> HIDE DEF Shut, Nothing
  <1>4. Spec => [](Starved => []Nothing)
    BY <1>1, <1>2, <1>3, BarrierAlways, PTL DEF Spec
  <1> QED
    BY <1>4 DEF Nothing

-----------------------------------------------------------------------------
(* A lost signature.                                                       *)

\* What a step of a node may send: only who signs a nonce sends a signature.
Sends(n, d) ==
    d.kind = "SignatureReply" =>
        /\ d.src = n
        /\ \/ pc[n] \in {"await_baton", "collect"}
           \/ pc[n] = "follow" /\ \E m \in Received(n) : IsFollowed(n, m)

LEMMA KindsSent ==
    ASSUME NEW n \in Node
    PROVE  /\ \A k, g : GroupReady(k, g).kind # "SignatureReply"
           /\ \A m : \A d \in CommonAck(n, m) : d.kind # "SignatureReply"
           /\ GroupReadyAck(n).kind # "SignatureReply" /\ BatonPass(n).kind # "SignatureReply"
           /\ \A k : BatonAck(n, k).kind # "SignatureReply"
           /\ \A k, v : Nonce(n, k, v).kind # "SignatureReply"
           /\ \A ds : \A d \in Rebroadcast(n, ds) : d.kind # "SignatureReply"
           /\ \A m : \A d \in Signature(n, m) : d.src = n
  BY DEF GroupReady, CommonAck, GroupReadyAck, BatonPass, BatonAck, Nonce, Rebroadcast,
         Signature, SignatureReply

LEMMA StepSends ==
    ASSUME TypeInv, NEW n \in Node, NodeStep(n)
    PROVE  \E out : Moves(out) /\ \A d \in out : Sends(n, d)
  <1>1. ASSUME NEW m, NEW out, Exchange(n, m, out), \A d \in out : Sends(n, d)
        PROVE  \E o : Moves(o) /\ \A d \in o : Sends(n, d)
    BY <1>1, ExchangeMoves
  <1>2. ASSUME NEW out, datagrams' \subseteq datagrams \cup out, UNCHANGED backlog,
               \A d \in out : Sends(n, d)
        PROVE  \E o : Moves(o) /\ \A d \in o : Sends(n, d)
    BY <1>2, SendMoves
  <1> DEFINE none == {}
  <1>3. \A d \in none : Sends(n, d)
    OBVIOUS
  <1> HIDE DEF none
  <1>4. CASE UNCHANGED <<datagrams, backlog>>
    BY <1>2, <1>3, <1>4
  <1>5. CASE WaitForDefers(n)
    <2>1. Moves(none)
      BY <1>5, WaitForMoves
    <2> QED
      BY <1>3, <2>1
  <1>6. CASE n = "A" /\ Register
    <2>1. CASE StartRegistration
      BY <1>4, <2>1 DEF StartRegistration, netVars
    <2>2. CASE RegistrationResult
      <3>1. PICK m : \/ Send({GroupReady(d, m.group) : d \in Node \ {"A"}})
                     \/ UNCHANGED netVars
        BY <2>2 DEF RegistrationResult
      <3>2. CASE UNCHANGED netVars
        BY <1>4, <3>2 DEF netVars
      <3>3. CASE Send({GroupReady(d, m.group) : d \in Node \ {"A"}})
        <4>1. \A d \in {GroupReady(k, m.group) : k \in Node \ {"A"}} : Sends(n, d)
          BY KindsSent DEF Sends
        <4> QED
          BY <1>2, <3>3, <4>1 DEF Send
      <3> QED
        BY <3>1, <3>2, <3>3
    <2> QED
      BY <1>6, <2>1, <2>2 DEF Register
  <1>7. CASE Barrier(n)
    <2>1. CASE GroupReadyAcked /\ n = "A"
      <3>1. PICK m, ds : Exchange(n, m, {GroupReady(d, groupId["A"]) : d \in ds})
        BY <2>1 DEF GroupReadyAcked
      <3>2. \A d \in {GroupReady(k, groupId["A"]) : k \in ds} : Sends(n, d)
        BY KindsSent DEF Sends
      <3> QED
        BY <1>1, <3>1, <3>2
    <2>2. CASE GroupReadyReceived(n)
      <3>1. PICK m : Exchange(n, m, {GroupReadyAck(n)})
        BY <2>2 DEF GroupReadyReceived
      <3>2. \A d \in {GroupReadyAck(n)} : Sends(n, d)
        BY KindsSent DEF Sends
      <3> QED
        BY <1>1, <3>1, <3>2
    <2> QED
      BY <1>7, <2>1, <2>2 DEF Barrier
  <1>8. CASE Follow(n)
    <2>1. CASE FollowCommon(n)
      <3>1. PICK m : Exchange(n, m, CommonAck(n, m))
        BY <2>1 DEF FollowCommon
      <3>2. \A d \in CommonAck(n, m) : Sends(n, d)
        BY KindsSent DEF Sends
      <3> QED
        BY <1>1, <3>1, <3>2
    <2>2. CASE FollowNonce(n)
      <3>1. PICK m \in Received(n) : IsFollowed(n, m) /\ Exchange(n, m, Signature(n, m))
        BY <2>2 DEF FollowNonce
      <3>2. \A d \in Signature(n, m) : Sends(n, d)
        BY <2>2, <3>1, KindsSent DEF Sends, FollowNonce
      <3> QED
        BY <1>1, <3>1, <3>2
    <2>3. CASE FollowDrop(n)
      <3>1. PICK m : Exchange(n, m, none)
        BY <2>3 DEF FollowDrop, none
      <3> QED
        BY <1>1, <1>3, <3>1
    <2> QED
      BY <1>8, <2>1, <2>2, <2>3 DEF Follow
  <1>9. CASE AwaitBaton(n)
    <2>1. PICK m, out : /\ Exchange(n, m, out)
                        /\ out \in {CommonAck(n, m), Signature(n, m), {BatonAck(n, m.src)}}
      BY <1>9 DEF AwaitBaton, AwaitBatonReply, BatonReceived
    <2>2. \A d \in out : Sends(n, d)
      <3>1. pc[n] = "await_baton"
        BY <1>9 DEF AwaitBaton, AwaitBatonReply, BatonReceived
      <3> QED
        BY <2>1, <3>1, KindsSent DEF Sends
    <2> QED
      BY <1>1, <2>1, <2>2
  <1>10. CASE Collect(n)
    <2>1. \E m, out : /\ Exchange(n, m, out)
                      /\ \A d \in out : \/ d \in CommonAck(n, m) \cup Signature(n, m) \cup {BatonPass(n)}
                                        \/ \E ds : d \in Rebroadcast(n, ds)
      <3>1. CASE CollectReply(n)
        BY <3>1 DEF CollectReply
      <3>2. CASE CollectDrop(n)
        BY <3>2 DEF CollectDrop
      <3>3. CASE CollectSignature(n)
        BY <3>3 DEF CollectSignature
      <3>4. CASE SubmitBundle(n)
        BY <3>4 DEF SubmitBundle
      <3> QED
        BY <1>10, <3>1, <3>2, <3>3, <3>4 DEF Collect
    <2>2. PICK m, out : /\ Exchange(n, m, out)
                        /\ \A d \in out : \/ d \in CommonAck(n, m) \cup Signature(n, m) \cup {BatonPass(n)}
                                          \/ \E ds : d \in Rebroadcast(n, ds)
      BY <2>1
    <2>3. \A d \in out : Sends(n, d)
      <3>1. pc[n] = "collect"
        BY <1>10 DEF Collect, CollectReply, CollectDrop, CollectSignature, SubmitBundle
      <3> QED
        BY <2>2, <3>1, KindsSent DEF Sends
    <2> QED
      BY <1>1, <2>2, <2>3
  <1>11. CASE BatonAcked(n)
    <2>1. PICK m : Exchange(n, m, none)
      BY <1>11 DEF BatonAcked, none
    <2> QED
      BY <1>1, <1>3, <2>1
  <1>12. CASE Challenged(n)
    <2>1. PICK m : Send({Nonce(n, d, m.nonce) : d \in Node \ {n}}) \/ UNCHANGED netVars
      BY <1>12 DEF Challenged, ChallengeOfOtherRound, FallbackChallenge, LeadRound
    <2>2. CASE Send({Nonce(n, d, m.nonce) : d \in Node \ {n}})
      <3>1. \A d \in {Nonce(n, k, m.nonce) : k \in Node \ {n}} : Sends(n, d)
        BY KindsSent DEF Sends
      <3> QED
        BY <1>2, <2>2, <3>1 DEF Send
    <2> QED
      BY <1>4, <2>1, <2>2 DEF netVars
  <1>13. CASE RoundResultTaken(n) \/ Expire(n) \/ Finish(n)
    <2>1. UNCHANGED <<datagrams, backlog>>
      BY <1>13 DEF RoundResultTaken, Finish, Expire, RegistrationExpired, GroupReadyExpired,
         GroupReadyMissed, FollowExpired, BatonMissing, ChallengeExpired, BatonExpired,
         RoundResultExpired, Fail, netVars
    <2> QED
      BY <1>4, <2>1
  <1>14. CASE Retry(n)
    <2>1. PICK out : /\ datagrams' = datagrams \cup out /\ UNCHANGED backlog
                     /\ \A d \in out : \/ d = BatonPass(n)
                                       \/ \E ds : d \in Rebroadcast(n, ds)
                                       \/ \E k, g : d = GroupReady(k, g)
      <3>1. CASE RegistrationRetry \/ ChallengeRetry(n)
        <4>1. datagrams' = datagrams \cup none /\ UNCHANGED backlog
          BY <3>1 DEF RegistrationRetry, ChallengeRetry, Resend, none
        <4>2. \A d \in none : FALSE
          BY DEF none
        <4> QED
          BY <4>1, <4>2
      <3>2. CASE GroupReadyRetry
        BY <3>2 DEF GroupReadyRetry, Resend
      <3>3. CASE CollectRetry(n)
        BY <3>3 DEF CollectRetry, Resend
      <3>4. CASE BatonRetry(n)
        BY <3>4 DEF BatonRetry, Resend
      <3> QED
        BY <1>14, <3>1, <3>2, <3>3, <3>4 DEF Retry
    <2>2. \A d \in out : Sends(n, d)
      BY <2>1, KindsSent DEF Sends
    <2> QED
      BY <1>2, <2>1, <2>2
  <1> QED
    BY <1>5, <1>6, <1>7, <1>8, <1>9, <1>10, <1>11, <1>12, <1>13, <1>14
       DEF NodeStep, OnDatagram, OnReply

\* Without a new signature of k none is on its way after the step either.
NoneOf(k) ==
    /\ \A m \in datagrams : ~SignatureOf(k, m)
    /\ \A i \in 1..Len(backlog["A"]) : ~SignatureOf(k, backlog["A"][i])

LEMMA NoneArrives ==
    ASSUME NEW k, NoneOf(k), NEW out, Moves(out), \A d \in out : ~SignatureOf(k, d)
    PROVE  NoneOf(k)'
  <1>1. \A m \in datagrams' : ~SignatureOf(k, m)
    BY DEF NoneOf, Moves
  <1>2. ASSUME NEW i \in 1..Len(backlog'["A"]), NEW d, d = backlog'["A"][i] PROVE ~SignatureOf(k, d)
    BY <1>2 DEF NoneOf, Moves, Node
  <1> QED
    BY <1>1, <1>2 DEF NoneOf, SignatureOf

\* Who does not answer does not sign.
LEMMA DeafStep ==
    ASSUME GenuineInv, pc["A"] = "collect", NEW k \in Node \ {"A"}, Deaf(k), NodeStep(k)
    PROVE  /\ Deaf(k)'
           /\ ~(pc[k] \in {"await_baton", "collect"})
           /\ ~(pc[k] = "follow" /\ \E m \in Received(k) : IsFollowed(k, m))
  <1>a. /\ pc \in [Node -> Location] /\ round \in [Node -> Round] /\ completed \in 0..3
        /\ k \in Node /\ TypeInv
    BY DEF GenuineInv, OrderInv, TypeInv, TypeOK, NodeTypeOK, ServerTypeOK
  <1>1. CASE Stopped(k)
    <2>1. UNCHANGED pc
      BY <1>1, StepsOfStopped DEF WaitForDefers, BatonAcked, BatonRetry, BatonExpired, Resend, nodeVars
    <2> QED
      BY <1>1, <2>1 DEF Stopped, Deaf
  <1>2. CASE k = "C" /\ pc[k] = "follow" /\ round[k] # 1
    <2>1. ~(\E m \in Received(k) : IsFollowed(k, m))
      <3> SUFFICES ASSUME NEW m \in Received(k), IsFollowed(k, m) PROVE FALSE
        OBVIOUS
      <3>1. completed >= round[k] - 1 /\ round[k] >= 2
        BY <1>a, <1>2, ReceivedTimely DEF GenuineInv, Timely, IsFollowed, Round
      <3>2. completed <= 1 /\ (completed = 1 => Led("A"))
        BY DEF GenuineInv, OrderInv, RelayOrder, OnlyRoundOneCompletes, LeadOrder
      <3> QED
        BY <1>a, <3>1, <3>2 DEF Led, Round
    <2>2. Deaf(k)'
      <3>1. CASE WaitForDefers(k) \/ FollowCommon(k) \/ FollowDrop(k)
        BY <1>2, <3>1 DEF WaitForDefers, FollowCommon, FollowDrop, nodeVars, Deaf
      <3>2. CASE FollowExpired(k)
        BY <1>a, <3>2 DEF FollowExpired, Fail, Goto, Deaf, Stopped
      <3>3. ~FollowNonce(k) /\ ~GroupReadyReceived(k) /\ ~GroupReadyMissed(k)
        BY <1>2, <2>1 DEF FollowNonce, GroupReadyReceived, GroupReadyMissed
      <3> QED
        BY <1>a, <1>2, <3>1, <3>2, <3>3, StepsOfFollower DEF Follow
    <2> QED
      BY <1>2, <2>1, <2>2
  <1> QED
    BY <1>1, <1>2 DEF Deaf

\* A collects on, and still misses k.
LEMMA CollectorStep ==
    ASSUME GenuineInv, pc["A"] = "collect", NEW k \in Node \ {"A"}, k \in missing["A"], NoneOf(k),
           NodeStep("A")
    PROVE  pc'["A"] = "collect" /\ k \in missing'["A"]
  <1>a. "A" \in Node /\ missing \in [Node -> SUBSET Node] /\ backlog \in [Node -> Seq(Datagram)]
    BY DEF Node, GenuineInv, OrderInv, TypeInv, TypeOK, NodeTypeOK, NetTypeOK
  <1>1. CASE CollectReply("A") \/ CollectDrop("A") \/ CollectRetry("A")
    BY <1>1 DEF CollectReply, CollectDrop, CollectRetry, Resend, nodeVars
  <1>2. ASSUME NEW m \in Received("A"), IsSignature("A", m) PROVE m.src # k
    <2>1. CASE backlog["A"] = <<>>
      BY <1>2, <2>1 DEF Received, NoneOf, SignatureOf, IsSignature
    <2>2. CASE backlog["A"] # <<>>
      <3>1. m = backlog["A"][1] /\ 1 \in 1..Len(backlog["A"])
        BY <1>a, <2>2 DEF Received
      <3> QED
        BY <1>2, <3>1 DEF NoneOf, SignatureOf, IsSignature
    <2> QED
      BY <2>1, <2>2
  <1>3. CASE CollectSignature("A")
    BY <1>a, <1>2, <1>3 DEF CollectSignature
  <1>4. ~SubmitBundle("A")
    BY <1>2 DEF SubmitBundle
  <1> QED
    BY <1>a, <1>1, <1>3, <1>4, StepsOfCollector DEF Collect

LEMMA NextLost == GenuineInv /\ SignatureLost /\ [Next]_vars => SignatureLost'
  <1> SUFFICES ASSUME GenuineInv, pc["A"] = "collect", NEW k \in Node \ {"A"}, Unsigned(k), [Next]_vars
               PROVE  pc'["A"] = "collect" /\ Unsigned(k)'
    BY DEF SignatureLost
  <1>a. "A" \in Node /\ TypeInv /\ k \in missing["A"] /\ Deaf(k) /\ NoneOf(k)
    BY DEF Node, GenuineInv, OrderInv, Unsigned, NoneOf
  <1> SUFFICES pc'["A"] = "collect" /\ k \in missing'["A"] /\ Deaf(k)' /\ NoneOf(k)'
    BY DEF Unsigned, NoneOf
  <1>1. CASE ServerStep \/ Lose \/ UNCHANGED vars
    <2>1. UNCHANGED <<pc, missing, round, backlog>> /\ datagrams' \subseteq datagrams
      BY <1>1 DEF ServerStep, Lose, vars, nodeVars, netVars
    <2> QED
      BY <1>a, <2>1 DEF Deaf, Stopped, NoneOf, SignatureOf
  <1>2. ASSUME NEW n \in Node, NodeStep(n) PROVE NoneOf(k)'
    <2>1. PICK out : Moves(out) /\ \A d \in out : Sends(n, d)
      BY <1>a, <1>2, StepSends
    <2>2. \A d \in out : ~SignatureOf(k, d)
      BY <1>2, <1>a, <2>1, DeafStep DEF Sends, SignatureOf
    <2> QED
      BY <1>a, <2>1, <2>2, NoneArrives
  <1>3. CASE NodeStep("A")
    <2>1. Deaf(k)'
      BY <1>a, <1>3, OthersRest DEF Resting, Deaf, Stopped
    <2> QED
      BY <1>a, <1>2, <1>3, <2>1, CollectorStep
  <1>4. ASSUME NEW n \in Node \ {"A"}, NodeStep(n)
        PROVE  pc'["A"] = "collect" /\ k \in missing'["A"] /\ Deaf(k)'
    <2>1. Resting("A")
      BY <1>a, <1>4, OthersRest
    <2>2. Deaf(k)'
      <3>1. CASE n = k
        BY <1>a, <1>4, <3>1, DeafStep
      <3>2. CASE n # k
        BY <1>a, <1>4, <3>2, OthersRest DEF Resting, Deaf, Stopped
      <3> QED
        BY <3>1, <3>2
    <2> QED
      BY <1>a, <2>1, <2>2 DEF Resting
  <1> QED
    BY <1>1, <1>2, <1>3, <1>4 DEF Next, Terminated

\* _lead_round rebroadcasts without a deadline: once the signature of a member that no
\* longer answers is lost, no step of anybody brings it back.
THEOREM LostSignatureStaysLost == Spec => LostForGood
  <1>1. GenuineInv /\ [Next]_vars => [SignatureLost => SignatureLost']_vars
    BY NextLost
  <1> QED
    BY <1>1, GenuineAlways, PTL DEF Spec, LostForGood

\* ... so A collects for good and no round is ever recorded.
THEOREM LostSignatureEndsRace == Spec => [](SignatureLost => [](pc["A"] = "collect" /\ completed = 0))
  <1> DEFINE Stuck == pc["A"] = "collect" /\ completed = 0
  <1>1. GenuineInv /\ SignatureLost => Stuck
    BY DEF GenuineInv, OrderInv, RelayOrder, OnlyRoundOneCompletes, LeadOrder, Led, SignatureLost,
           TypeInv, TypeOK, ServerTypeOK
  <1> HIDE DEF Stuck
  <1>2. Spec => [](SignatureLost => []Stuck)
    BY <1>1, NextLost, GenuineAlways, PTL DEF Spec
  <1> QED
    BY <1>2 DEF Stuck
=============================================================================
