-------------------------- MODULE PowClient_proofs --------------------------
(***************************************************************************)
(* Proofs about PowClient: its runs of ensure_libsodium are those of       *)
(* LibsodiumBootstrap, its types, whose verdict a run shows, that its      *)
(* count of zero bits is the server's, which nonce the search ends with,   *)
(* and what a refusal is due to.                                           *)
(***************************************************************************)
EXTENDS PowClient, LibsodiumBootstrap_proofs, FiniteSetTheorems, WellFoundedInduction

\* A run that has submitted is, or was, online at an address no other run is at.
PortsInv ==
    /\ \A p \in Process : stage[p] = "online" => port[p] \in Port
    /\ \A p, q \in Process :
          stage[p] = "online" /\ stage[q] = "online" /\ port[p] = port[q] => p = q
MailInv == \A m \in mail : stage[m.run] \in {"online", "ended"} /\ port[m.run] \in Port

\* What the server has sent is about a submission, and goes to whom it came from.
RepliesInv ==
    \A r \in replies : r.from = "server" =>
        /\ r.about \in mail
        /\ r.to = port[r.about.run]
        /\ r.success => r.about \in accepted

\* Only a run that is or was online has a response.
ResponseInv ==
    \A p \in Process : response[p] # None => stage[p] \in {"online", "ended"}

ClientInv ==
    /\ TypeOK
    /\ PortsInv
    /\ MailInv
    /\ RepliesInv
    /\ ResponseInv
    /\ VerdictIsServers

ConstantsFacts ==
    /\ 0 \in Nonce
    /\ \A e \in Email : Canonical[e] \in Email
    /\ Port \subseteq Nat
    /\ None \notin Nat

-----------------------------------------------------------------------------
LEMMA Constants == ConstantsFacts
  BY PowAssumption, EmailAssumption, NobodyAssumption DEF ConstantsFacts, Nonce, Port

\* What a step does to the files is a step of LibsodiumBootstrap, or nothing.
LEMMA StepsBootstrap ==
    ASSUME [Next]_vars
    PROVE  [BootNext]_bootVars
<1> USE DEF Offline
<1>1. CASE UNCHANGED vars
  BY <1>1 DEF vars
<1>2. ASSUME NEW p \in Process, Begin(p) \/ Submit(p)
      PROVE  UNCHANGED bootVars
  BY <1>2 DEF Begin, Submit
<1>3. ASSUME NEW p \in Process, Mine(p) \/ MineOnly(p) \/ Verdict(p) \/ TimesOut(p)
      PROVE  UNCHANGED bootVars
  BY <1>3 DEF Mine, MineOnly, Verdict, TimesOut
<1>4. ASSUME NEW p \in Process, GoOnline(p) \/ CannotLoad(p)
      PROVE  UNCHANGED bootVars
  BY <1>4 DEF GoOnline, CannotLoad
<1>5. ASSUME NEW p \in Process, Ensure(p) \/ Bootstrap(p) \/ Downloaded(p) \/ Killed(p)
      PROVE  [BootNext]_bootVars
  BY <1>5 DEF Ensure, Bootstrap, Downloaded, Killed, BootNext
<1>6. ASSUME NEW p \in Process, NEW r \in replies, OnResponse(p, r)
      PROVE  UNCHANGED bootVars
  BY <1>6 DEF OnResponse
<1>7. ASSUME NEW m \in mail, Serve(m)
      PROVE  UNCHANGED bootVars
  BY <1>7 DEF Serve
<1> QED
  BY <1>1, <1>2, <1>3, <1>4, <1>5, <1>6, <1>7 DEF Next, Run

\* The runs of the program use the folder as LibsodiumBootstrap says.
THEOREM ClientsBootstrap == Spec => BootSpec
<1>1. Init => BootInit
  BY DEF Init
<1>2. [Next]_vars => [BootNext]_bootVars
  BY StepsBootstrap
<1> QED
  BY <1>1, <1>2, PTL DEF Spec, BootSpec

\* Unless a run of the program was killed while it unpacked or copied, or two were in
\* ensure_libsodium at once, whoever is sent to bin finds the whole preferred build.
THEOREM ClientFindsSoundLibrary == Spec => []FoundIsSound
  BY ClientsBootstrap, LoneBootstrapIsSound, PTL

\* No run of the program writes an archive or copy that is settled, be it whole or torn,
\* however many run at once and whenever they are killed.
THEOREM ClientKeepsSettled == Spec => SettledFileStays
  BY ClientsBootstrap, SettledFilesStay, PTL

-----------------------------------------------------------------------------
LEMMA ClientInitInv == Init => ClientInv
<1> SUFFICES ASSUME Init PROVE ClientInv
  OBVIOUS
<1>1. TypeOK
  <2>1. BootTypeOK
    BY BootInitInv DEF Init, BootInv
  <2>2. args \in [Process -> Argument] /\ tried \in [Process -> Nonce]
    BY ArgumentsAssumption, Constants DEF Init, ConstantsFacts
  <2>3. replies \subseteq Reply
    <3>1. \A a \in Port : [from |-> "peer", to |-> a, success |-> TRUE, about |-> None] \in Reply
      BY DEF Reply
    <3>2. replies = PeerReplies
      BY DEF Init
    <3> QED
      BY <3>1, <3>2 DEF PeerReplies
  <2> QED
    BY <2>1, <2>2, <2>3 DEF Init, TypeOK
<1>2. PortsInv /\ MailInv /\ RepliesInv /\ ResponseInv /\ VerdictIsServers
  BY DEF Init, PortsInv, MailInv, RepliesInv, ResponseInv, VerdictIsServers, PeerReplies
<1> QED
  BY <1>1, <1>2 DEF ClientInv

\* Every step preserves the types.
LEMMA ClientTypeStep ==
    ASSUME ClientInv, [Next]_vars
    PROVE  TypeOK'
<1>1. BootTypeOK'
  BY StepsBootstrap, BootTypeStep DEF ClientInv, TypeOK
<1> DEFINE ClientTypeOK ==
      /\ args \in [Process -> Argument]
      /\ stage \in [Process -> {"start", "mining", "solved", "online", "ended"}]
      /\ tried \in [Process -> Nonce]
      /\ port \in [Process -> Nat]
      /\ response \in [Process -> Reply \cup {None}]
      /\ outcome \in [Process -> {"none", "mined", "accepted", "rejected", "error", "killed"}]
      /\ mail \subseteq Submission
      /\ replies \subseteq Reply
      /\ registered \in [Key -> Email \cup {None}]
      /\ accepted \subseteq mail
<1> SUFFICES ClientTypeOK'
  BY <1>1 DEF TypeOK
<1>2. ClientTypeOK
  BY DEF ClientInv, TypeOK
<1>3. CASE UNCHANGED vars
  BY <1>2, <1>3 DEF vars, clientVars
<1>4. ASSUME NEW p \in Process, Begin(p)
      PROVE  ClientTypeOK'
  BY <1>2, <1>4, Constants DEF Begin, Stop, Offline, ConstantsFacts, ArgumentsValid
<1>5. ASSUME NEW p \in Process, Mine(p)
      PROVE  ClientTypeOK'
  <2>1. tried[p] < MaxNonce => tried[p] + 1 \in Nonce
    BY <1>2, PowAssumption DEF Nonce
  <2> QED
    BY <1>2, <1>5, <2>1 DEF Mine, Stop, Offline
<1>6. ASSUME NEW p \in Process, MineOnly(p) \/ Verdict(p) \/ TimesOut(p)
      PROVE  ClientTypeOK'
  BY <1>2, <1>6 DEF MineOnly, Verdict, TimesOut, Stop, Offline
<1>7. ASSUME NEW p \in Process, CannotLoad(p) \/ Killed(p)
      PROVE  ClientTypeOK'
  BY <1>2, <1>7 DEF CannotLoad, Killed, Stop, Offline
<1>8. ASSUME NEW p \in Process, Ensure(p) \/ Bootstrap(p) \/ Downloaded(p)
      PROVE  ClientTypeOK'
  BY <1>2, <1>8 DEF Ensure, Bootstrap, Downloaded, clientVars
<1>9. ASSUME NEW p \in Process, GoOnline(p)
      PROVE  ClientTypeOK'
  BY <1>2, <1>9, Constants DEF GoOnline, ConstantsFacts
<1>10. ASSUME NEW p \in Process, Submit(p)
       PROVE  ClientTypeOK'
  <2>1. EmailOf(p) \in Email
    BY <1>2, Constants DEF EmailOf, ConstantsFacts, Argument
  <2>2. SubmissionOf(p) \in Submission
    BY <1>2, <2>1 DEF SubmissionOf, Submission, Argument
  <2> QED
    BY <1>2, <1>10, <2>2 DEF Submit
<1>11. ASSUME NEW p \in Process, NEW r \in replies, OnResponse(p, r)
       PROVE  ClientTypeOK'
  BY <1>2, <1>11 DEF OnResponse
<1>12. ASSUME NEW m \in mail, Serve(m)
       PROVE  ClientTypeOK'
  <2>1. m \in Submission /\ port[m.run] \in Port
    BY <1>2 DEF ClientInv, MailInv
  <2>2. Canonical[m.email] \in Email
    BY <2>1, Constants DEF ConstantsFacts, Submission
  <2>3. \A b \in BOOLEAN :
          [from |-> "server", to |-> port[m.run], success |-> b, about |-> m] \in Reply
    BY <2>1 DEF Reply
  <2>4. (Valid(m) /\ Registrable(m)) \in BOOLEAN
    OBVIOUS
  <2>5. replies' \subseteq Reply
    BY <1>2, <1>12, <2>3, <2>4 DEF Serve
  <2> QED
    BY <1>2, <1>12, <2>2, <2>5 DEF Serve
<1> QED
  BY <1>3, <1>4, <1>5, <1>6, <1>7, <1>8, <1>9, <1>10, <1>11, <1>12 DEF Next, Run

\* Addresses, mail, replies and verdicts after a step of a run that sends and hears
\* nothing: it may only come online or end.
LEMMA Quiet ==
    ASSUME ClientInv, NEW p \in Process,
           stage \in [Process -> {"start", "mining", "solved", "online", "ended"}],
           stage[p] # "ended",
           \E s \in {"mining", "solved", "ended"} : stage' = [stage EXCEPT ![p] = s],
           stage[p] = "online" => stage'[p] = "ended",
           UNCHANGED <<port, response, mail, replies, accepted>>
    PROVE  PortsInv' /\ MailInv' /\ RepliesInv' /\ ResponseInv' /\ VerdictIsServers'
<1>1. \A q \in Process :
        /\ q # p => stage'[q] = stage[q]
        /\ stage'[q] = "online" => stage[q] = "online"
        /\ stage[q] \in {"online", "ended"} => stage'[q] \in {"online", "ended"}
        /\ stage[q] = "ended" => stage'[q] = "ended"
  OBVIOUS
<1>2. \A m \in mail : m.run \in Process
  BY DEF ClientInv, TypeOK, Submission
<1>3. PortsInv' /\ RepliesInv' /\ ResponseInv'
  BY <1>1 DEF ClientInv, PortsInv, RepliesInv, ResponseInv
<1>4. MailInv'
  BY <1>1, <1>2 DEF ClientInv, MailInv
<1>5. VerdictIsServers'
  BY <1>1, <1>2 DEF ClientInv, VerdictIsServers
<1> QED
  BY <1>3, <1>4, <1>5

\* Whose verdict a run shows, and what it rests on.
LEMMA ClientPartsStep ==
    ASSUME ClientInv, [Next]_vars
    PROVE  PortsInv' /\ MailInv' /\ RepliesInv' /\ ResponseInv' /\ VerdictIsServers'
<1> DEFINE Parts == PortsInv /\ MailInv /\ RepliesInv /\ ResponseInv /\ VerdictIsServers
<1>0. Parts /\ stage \in [Process -> {"start", "mining", "solved", "online", "ended"}]
  BY DEF ClientInv, TypeOK
<1>1. \A m \in mail : m.run \in Process
  BY DEF ClientInv, TypeOK, Submission
<1>2. CASE UNCHANGED <<stage, port, response, mail, replies, accepted>>
  BY <1>0, <1>2 DEF PortsInv, MailInv, RepliesInv, ResponseInv, VerdictIsServers
<1>3. CASE UNCHANGED vars
  BY <1>2, <1>3 DEF vars, clientVars
<1>4. ASSUME NEW p \in Process, Begin(p)
      PROVE  Parts'
  BY <1>0, <1>4, Quiet DEF Begin, Stop, Offline
<1>5. ASSUME NEW p \in Process, Mine(p)
      PROVE  Parts'
  <2>1. CASE UNCHANGED stage
    BY <1>2, <1>5, <2>1 DEF Mine, Offline
  <2>2. CASE ~UNCHANGED stage
    BY <1>0, <1>5, <2>2, Quiet DEF Mine, Stop, Offline
  <2> QED
    BY <2>1, <2>2
<1>6. ASSUME NEW p \in Process, MineOnly(p) \/ Verdict(p) \/ TimesOut(p)
      PROVE  Parts'
  BY <1>0, <1>6, Quiet DEF MineOnly, Verdict, TimesOut, Stop, Offline
<1>7. ASSUME NEW p \in Process, CannotLoad(p) \/ Killed(p)
      PROVE  Parts'
  BY <1>0, <1>7, Quiet DEF CannotLoad, Killed, Stop, Offline
<1>8. ASSUME NEW p \in Process, Ensure(p) \/ Bootstrap(p) \/ Downloaded(p)
      PROVE  Parts'
  BY <1>2, <1>8 DEF Ensure, Bootstrap, Downloaded, clientVars
<1>9. ASSUME NEW p \in Process, GoOnline(p)
      PROVE  Parts'
  <2>1. PICK a \in Port : Free(a) /\ port' = [port EXCEPT ![p] = a]
    BY <1>9 DEF GoOnline
  <2>2. stage[p] = "solved" /\ stage' = [stage EXCEPT ![p] = "online"]
        /\ UNCHANGED <<response, mail, replies, accepted>>
    BY <1>9 DEF GoOnline
  <2>3. port \in [Process -> Nat]
    BY DEF ClientInv, TypeOK
  <2>4. \A q \in Process \ {p} : stage'[q] = stage[q] /\ port'[q] = port[q]
    BY <1>0, <2>1, <2>2, <2>3
  <2>5. \A m \in mail : m.run # p
    BY <1>0, <2>2 DEF MailInv
  <2>6. response[p] = None
    BY <1>0, <2>2 DEF ResponseInv
  <2>7. PortsInv'
    BY <1>0, <2>1, <2>2, <2>3, <2>4 DEF PortsInv, Free
  <2>8. MailInv' /\ RepliesInv' /\ ResponseInv'
    BY <1>0, <1>1, <2>2, <2>4, <2>5, <2>6 DEF MailInv, RepliesInv, ResponseInv
  <2>9. VerdictIsServers'
    BY <1>0, <1>1, <2>2, <2>4, <2>5, <2>6 DEF VerdictIsServers
  <2> QED
    BY <2>7, <2>8, <2>9
<1>10. ASSUME NEW p \in Process, Submit(p)
       PROVE  Parts'
  <2>1. SubmissionOf(p).run = p
    BY DEF SubmissionOf
  <2>2. stage[p] = "online" /\ mail' = mail \cup {SubmissionOf(p)}
        /\ UNCHANGED <<stage, port, response, replies, accepted>>
    BY <1>10 DEF Submit
  <2>3. MailInv'
    BY <1>0, <2>1, <2>2 DEF MailInv, PortsInv
  <2> QED
    BY <1>0, <2>2, <2>3 DEF PortsInv, RepliesInv, ResponseInv, VerdictIsServers
<1>11. ASSUME NEW p \in Process, NEW r \in replies, OnResponse(p, r)
       PROVE  Parts'
  <2>1. /\ stage[p] = "online" /\ r.to = port[p] /\ r.from = "server"
        /\ response' = [response EXCEPT ![p] = r]
        /\ UNCHANGED <<stage, port, mail, replies, accepted>>
    BY <1>11 DEF OnResponse
  <2>2. r.about \in mail /\ port[r.about.run] = port[p] /\ (r.success => r.about \in accepted)
    BY <1>0, <2>1 DEF RepliesInv
  <2>3. r.about.run = p \/ stage[r.about.run] = "ended"
    BY <1>0, <1>1, <2>1, <2>2 DEF MailInv, PortsInv
  <2>4. response \in [Process -> Reply \cup {None}]
    BY DEF ClientInv, TypeOK
  <2> QED
    BY <1>0, <2>1, <2>2, <2>3, <2>4
       DEF PortsInv, MailInv, RepliesInv, ResponseInv, VerdictIsServers
<1>12. ASSUME NEW m \in mail, Serve(m)
       PROVE  Parts'
  <2> DEFINE ok == Valid(m) /\ Registrable(m)
             reply == [from |-> "server", to |-> port[m.run], success |-> ok, about |-> m]
  <2>1. /\ replies' = replies \cup {reply}
        /\ accepted' = IF ok THEN accepted \cup {m} ELSE accepted
        /\ UNCHANGED <<stage, port, response, mail>>
    BY <1>12 DEF Serve
  <2>2. reply.about = m /\ reply.to = port[m.run] /\ reply.success = ok
    OBVIOUS
  <2>3. accepted \subseteq accepted' /\ (ok => m \in accepted')
    BY <2>1
  <2> HIDE DEF reply, ok
  <2>4. RepliesInv'
    BY <1>0, <2>1, <2>2, <2>3 DEF RepliesInv
  <2>5. VerdictIsServers'
    BY <1>0, <2>1, <2>3 DEF VerdictIsServers
  <2> QED
    BY <1>0, <2>1, <2>4, <2>5 DEF PortsInv, MailInv, ResponseInv
<1> QED
  BY <1>3, <1>4, <1>5, <1>6, <1>7, <1>8, <1>9, <1>10, <1>11, <1>12 DEF Next, Run

\* In every reachable state.
THEOREM ClientInvariant == Spec => []ClientInv
<1>1. ClientInv /\ [Next]_vars => ClientInv'
  BY ClientTypeStep, ClientPartsStep DEF ClientInv
<1> QED
  BY ClientInitInv, <1>1, PTL DEF Spec

\* Every variable holds values of its kind.
THEOREM ClientTypeCorrect == Spec => []TypeOK
<1>1. ClientInv => TypeOK
  BY DEF ClientInv
<1> QED
  BY ClientInvariant, <1>1, PTL

\* A verdict is the server's, on the submission of this run or of one that listened
\* at the same address and has ended; "accepted" means that the server has accepted it.
THEOREM VerdictComesFromServer == Spec => []VerdictIsServers
<1>1. ClientInv => VerdictIsServers
  BY DEF ClientInv
<1> QED
  BY ClientInvariant, <1>1, PTL

-----------------------------------------------------------------------------
(* The proof of work: the program counts whole bytes and then the bits of  *)
(* one byte, the server looks at bit after bit.                            *)

\* A set of natural numbers that is not empty has a least element.
LEMMA LeastExists ==
    ASSUME NEW S \in SUBSET Nat, S # {}
    PROVE  \E x \in S : \A y \in S : x <= y
<1> DEFINE R == OpToRel(<, Nat)
<1>1. IsWellFoundedOn(R, Nat)
  BY NatLessThanWellFounded
<1>2. \A x, y \in Nat : y < x => <<y, x>> \in R
  BY DEF OpToRel
<1> HIDE DEF R
<1>3. PICK x \in S : \A y \in S : ~(<<y, x>> \in R)
  BY <1>1, WFMin
<1>4. \A y \in S : x <= y
  <2> TAKE y \in S
  <2>1. x \in Nat /\ y \in Nat /\ ~(y < x)
    BY <1>2, <1>3
  <2> QED
    BY <2>1
<1> QED
  BY <1>4

LEMMA Powers ==
    /\ 2^0 = 1 /\ 2^1 = 2 /\ 2^2 = 4 /\ 2^3 = 8
    /\ 2^4 = 16 /\ 2^5 = 32 /\ 2^6 = 64 /\ 2^7 = 128
  OBVIOUS

LEMMA PowersOf ==
    ASSUME NEW k \in 0..7
    PROVE  \/ (k = 0 /\ 2^k = 1) \/ (k = 1 /\ 2^k = 2) \/ (k = 2 /\ 2^k = 4)
           \/ (k = 3 /\ 2^k = 8) \/ (k = 4 /\ 2^k = 16) \/ (k = 5 /\ 2^k = 32)
           \/ (k = 6 /\ 2^k = 64) \/ (k = 7 /\ 2^k = 128)
<1>1. k \in {0, 1, 2, 3, 4, 5, 6, 7}
  OBVIOUS
<1>2. CASE k = 0
  BY <1>2, Powers
<1>3. CASE k = 1
  BY <1>3, Powers
<1>4. CASE k = 2
  BY <1>4, Powers
<1>5. CASE k = 3
  BY <1>5, Powers
<1>6. CASE k = 4
  BY <1>6, Powers
<1>7. CASE k = 5
  BY <1>7, Powers
<1>8. CASE k = 6
  BY <1>8, Powers
<1>9. CASE k = 7
  BY <1>9, Powers
<1> QED
  BY <1>1, <1>2, <1>3, <1>4, <1>5, <1>6, <1>7, <1>8, <1>9

\* A byte that has l bits is at least the powers of two below l, and no others.
Spans(b, l) ==
    /\ b >= 1 <=> 0 < l
    /\ b >= 2 <=> 1 < l
    /\ b >= 4 <=> 2 < l
    /\ b >= 8 <=> 3 < l
    /\ b >= 16 <=> 4 < l
    /\ b >= 32 <=> 5 < l
    /\ b >= 64 <=> 6 < l
    /\ b >= 128 <=> 7 < l

\* int.bit_length() of every byte.
LEMMA BitLengths ==
    ASSUME NEW b \in Byte
    PROVE  /\ BitLength(b) \in 0..8
           /\ Spans(b, BitLength(b))
           /\ b # 0 => BitLength(b) \in 1..8
<1>1. b \in 0..255
  BY DEF Byte
<1>2. PICK l \in 0..8 : Spans(b, l)
  <2>1. \/ Spans(b, 0) \/ Spans(b, 1) \/ Spans(b, 2) \/ Spans(b, 3) \/ Spans(b, 4)
        \/ Spans(b, 5) \/ Spans(b, 6) \/ Spans(b, 7) \/ Spans(b, 8)
    BY <1>1 DEF Spans
  <2> QED
    BY <2>1
<1>3. {k \in 0..7 : b >= 2^k} = 0..(l - 1)
  <2>1. ASSUME NEW k \in 0..7 PROVE b >= 2^k <=> k < l
    <3> DEFINE power == 2^k
    <3>1. \/ (k = 0 /\ power = 1) \/ (k = 1 /\ power = 2) \/ (k = 2 /\ power = 4)
          \/ (k = 3 /\ power = 8) \/ (k = 4 /\ power = 16) \/ (k = 5 /\ power = 32)
          \/ (k = 6 /\ power = 64) \/ (k = 7 /\ power = 128)
      BY PowersOf
    <3> HIDE DEF power
    <3>2. b >= power <=> k < l
      BY <1>2, <3>1 DEF Spans
    <3> QED
      BY <3>2 DEF power
  <2>2. ASSUME NEW k PROVE k \in 0..(l - 1) <=> k \in 0..7 /\ k < l
    OBVIOUS
  <2> QED
    BY <2>1, <2>2, Zenon
<1>4. Cardinality(0..(l - 1)) = l
  BY FS_Interval
<1>5. b # 0 => l \in 1..8
  BY <1>1, <1>2 DEF Spans
<1> QED
  BY <1>2, <1>3, <1>4, <1>5 DEF BitLength

\* The count of a byte is that of its leading zero bits.
LEMMA ByteBits ==
    ASSUME NEW b \in Byte, NEW j \in 0..8
    PROVE  8 - BitLength(b) >= j <=> \A i \in 0..(j - 1) : (b \div 2^(7 - i)) % 2 = 0
<1> DEFINE bit(i) == (b \div 2^(7 - i)) % 2
           l == BitLength(b)
<1>1. b \in 0..255 /\ l \in 0..8 /\ Spans(b, l)
  BY BitLengths DEF Byte
<1>2. /\ bit(0) = (b \div 128) % 2 /\ bit(1) = (b \div 64) % 2 /\ bit(2) = (b \div 32) % 2
      /\ bit(3) = (b \div 16) % 2 /\ bit(4) = (b \div 8) % 2 /\ bit(5) = (b \div 4) % 2
      /\ bit(6) = (b \div 2) % 2 /\ bit(7) = (b \div 1) % 2
  BY Powers
<1> HIDE DEF bit, l
<1>3. (\A i \in 0..(j - 1) : bit(i) = 0) <=>
         /\ 0 < j => bit(0) = 0
         /\ 1 < j => bit(1) = 0
         /\ 2 < j => bit(2) = 0
         /\ 3 < j => bit(3) = 0
         /\ 4 < j => bit(4) = 0
         /\ 5 < j => bit(5) = 0
         /\ 6 < j => bit(6) = 0
         /\ 7 < j => bit(7) = 0
  OBVIOUS
<1>4. 8 - l >= j <=> \A i \in 0..(j - 1) : bit(i) = 0
  BY <1>1, <1>2, <1>3 DEF Spans
<1> QED
  BY <1>4 DEF bit, l

LEMMA DivMod ==
    ASSUME NEW q \in Nat, NEW i \in 0..7
    PROVE  (8 * q + i) \div 8 = q /\ (8 * q + i) % 8 = i
  OBVIOUS

LEMMA Position ==
    ASSUME NEW k \in Nat
    PROVE  \E q \in Nat, i \in 0..7 : k = 8 * q + i
<1>1. k = 8 * (k \div 8) + (k % 8)
  OBVIOUS
<1> QED
  BY <1>1

\* The bits of a byte in a digest.
LEMMA BitOf ==
    ASSUME NEW d \in Seq(Byte), NEW q \in Nat, NEW i \in 0..7
    PROVE  /\ Bit(d, 8 * q + i) = (d[q + 1] \div 2^(7 - i)) % 2
           /\ d[q + 1] = 0 => Bit(d, 8 * q + i) = 0
<1>1. Bit(d, 8 * q + i) = (d[q + 1] \div 2^(7 - i)) % 2
  BY DivMod DEF Bit
<1>2. ASSUME NEW m \in 0..7 PROVE (0 \div 2^m) % 2 = 0
  <2>1. \A x \in {1, 2, 4, 8, 16, 32, 64, 128} : (0 \div x) % 2 = 0
    OBVIOUS
  <2>2. 2^m \in {1, 2, 4, 8, 16, 32, 64, 128}
    BY PowersOf
  <2> QED
    BY <2>1, <2>2
<1>3. 7 - i \in 0..7
  OBVIOUS
<1> QED
  BY <1>1, <1>2, <1>3

\* leading_zero_bits() counts what the server counts, for digests of any length.
THEOREM CountsLeadingZeros ==
    ASSUME NEW d \in Seq(Byte), NEW n \in Nat
    PROVE  LeadingZeroBits(d) >= n <=> BeginsWithZeros(d, n)
<1> DEFINE nonzero == {i \in 1..Len(d) : d[i] # 0}
           first == CHOOSE i \in nonzero : \A j \in nonzero : i <= j
<1>0. Len(d) \in Nat /\ \A i \in 1..Len(d) : d[i] \in Byte
  OBVIOUS
<1>1. ASSUME NEW z \in 0..Len(d), \A i \in 1..z : d[i] = 0, NEW k \in Nat, k < 8 * z
      PROVE  Bit(d, k) = 0
  <2>1. PICK q \in Nat, i \in 0..7 : k = 8 * q + i
    BY Position
  <2>2. q + 1 \in 1..z
    BY <1>1, <2>1
  <2> QED
    BY <1>1, <2>1, <2>2, BitOf
<1>2. CASE nonzero = {}
  <2>1. \A i \in 1..Len(d) : d[i] = 0
    BY <1>2
  <2>2. LeadingZeroBits(d) = 8 * Len(d)
    BY <1>2 DEF LeadingZeroBits
  <2>3. \A k \in Nat : k < 8 * Len(d) => Bit(d, k) = 0
    BY <1>0, <1>1, <2>1
  <2> QED
    BY <1>0, <2>2, <2>3 DEF BeginsWithZeros
<1>3. CASE nonzero # {}
  <2>1. first \in nonzero /\ \A j \in nonzero : first <= j
    <3>1. nonzero \in SUBSET Nat
      OBVIOUS
    <3>2. \E i \in nonzero : \A j \in nonzero : i <= j
      BY <1>3, <3>1, LeastExists
    <3> QED
      BY <3>2
  <2>2. LeadingZeroBits(d) = 8 * first - BitLength(d[first])
    BY <1>3 DEF LeadingZeroBits
  <2> HIDE DEF first
  <2> DEFINE z == first - 1
             b == d[first]
  <2>3. z \in Nat /\ z \in 0..Len(d) /\ z + 1 <= Len(d) /\ first = z + 1
    BY <1>0, <2>1
  <2>4. \A i \in 1..z : d[i] = 0
    BY <1>0, <2>1, <2>3
  <2>5. b \in Byte /\ b \in 0..255 /\ b # 0 /\ b = d[z + 1]
    BY <1>0, <2>1, <2>3 DEF Byte
  <2>6. \A k \in Nat : k < 8 * z => Bit(d, k) = 0
    BY <1>1, <2>3, <2>4
  <2>7. LeadingZeroBits(d) = 8 * (z + 1) - BitLength(b)
    BY <2>2, <2>3
  <2> HIDE DEF z, b
  <2>8. BitLength(b) \in 1..8
    BY <2>5, BitLengths
  <2>9. LeadingZeroBits(d) = 8 * z + (8 - BitLength(b))
    BY <2>3, <2>7, <2>8
  <2>10. ASSUME NEW i \in 0..7
        PROVE  Bit(d, 8 * z + i) = (b \div 2^(7 - i)) % 2
    BY <2>3, <2>5, BitOf
  <2>11. ASSUME NEW j \in 0..8
        PROVE  8 - BitLength(b) >= j <=> \A i \in 0..(j - 1) : Bit(d, 8 * z + i) = 0
    <3>1. \A i \in 0..(j - 1) : i \in 0..7
      OBVIOUS
    <3> QED
      BY <2>5, <2>10, <3>1, ByteBits DEF Byte
  <2>12. ASSUME LeadingZeroBits(d) >= n
         PROVE  BeginsWithZeros(d, n)
    <3>1. n <= 8 * Len(d)
      BY <1>0, <2>3, <2>8, <2>9, <2>12
    <3>2. ASSUME NEW k \in 0..(n - 1), k >= 8 * z
          PROVE  Bit(d, k) = 0
      <4> DEFINE j == n - 8 * z
                 i == k - 8 * z
      <4>1. j \in 0..8 /\ 8 - BitLength(b) >= j
        BY <2>3, <2>8, <2>9, <2>12, <3>2
      <4>2. i \in 0..(j - 1) /\ k = 8 * z + i
        BY <2>3, <3>2
      <4> HIDE DEF i, j
      <4> QED
        BY <2>11, <4>1, <4>2
    <3> QED
      BY <2>3, <2>6, <3>1, <3>2 DEF BeginsWithZeros
  <2>13. ASSUME BeginsWithZeros(d, n), ~(LeadingZeroBits(d) >= n)
         PROVE  FALSE
    <3> DEFINE j == 9 - BitLength(b)
    <3>1. j \in 1..8 /\ 8 * z + j <= n
      BY <2>3, <2>8, <2>9, <2>13
    <3>2. \A i \in 0..(j - 1) : Bit(d, 8 * z + i) = 0
      <4> TAKE i \in 0..(j - 1)
      <4>1. 8 * z + i \in 0..(n - 1)
        BY <2>3, <3>1
      <4> QED
        BY <2>13, <4>1 DEF BeginsWithZeros
    <3>3. 8 - BitLength(b) >= j
      BY <2>11, <3>1, <3>2
    <3> QED
      BY <2>8, <3>3
  <2> QED
    BY <2>12, <2>13
<1> QED
  BY <1>2, <1>3

\* Who begins with more zero bits begins with fewer.
LEMMA FewerZeros ==
    ASSUME NEW d \in Seq(Byte), NEW n \in Nat, NEW k \in 0..n, BeginsWithZeros(d, n)
    PROVE  BeginsWithZeros(d, k)
<1>1. Len(d) \in Nat
  OBVIOUS
<1> QED
  BY <1>1 DEF BeginsWithZeros

-----------------------------------------------------------------------------
(* The search, and what the server says to its result.                     *)

From(p) == IF args[p].nonce = None THEN 0 ELSE args[p].nonce
Unsolved(p) == \A n \in Nonce : n >= From(p) /\ n < tried[p] => ~Solves(p, n)

\* The search has passed over no solution, and what is submitted is one.
SearchInv ==
    \A p \in Process : stage[p] \in {"mining", "solved", "online"} =>
        /\ ~args[p].submitOnly => Unsolved(p)
        /\ args[p].submitOnly => stage[p] # "mining"
        /\ stage[p] # "mining" => Solves(p, tried[p])
MailSolves ==
    \A m \in mail :
        /\ m.key = args[m.run].key /\ m.email = EmailOf(m.run) /\ m.url = args[m.run].url
        /\ Solves(m.run, m.nonce)

LEMMA DigestsAreBytes ==
    ASSUME TypeOK, NEW p \in Process, NEW n \in Nonce
    PROVE  DigestOf(p, n) \in Seq(Byte) /\ EmailOf(p) \in Email /\ args[p].difficulty \in Nat
<1>1. args[p] \in Argument
  BY DEF TypeOK
<1>2. EmailOf(p) \in Email
  BY <1>1, Constants DEF EmailOf, Argument, ConstantsFacts
<1> QED
  BY <1>1, <1>2, PowAssumption DEF DigestOf, Argument

\* Nothing of a run changes but what is named.
LEMMA SearchUntouched ==
    ASSUME SearchInv, UNCHANGED <<args, tried>>,
           \A p \in Process : \/ stage'[p] \in {stage[p], "ended"}
                             \/ (stage[p] = "solved" /\ stage'[p] = "online")
    PROVE  SearchInv'
  BY DEF SearchInv, EmailOf, Unsolved, From, Solves, DigestOf

LEMMA SearchStep ==
    ASSUME ClientInv, SearchInv, [Next]_vars
    PROVE  SearchInv'
<1>1. /\ TypeOK
      /\ args \in [Process -> Argument]
      /\ stage \in [Process -> {"start", "mining", "solved", "online", "ended"}]
      /\ tried \in [Process -> Nonce]
  BY DEF ClientInv, TypeOK
<1>2. CASE UNCHANGED vars
  BY <1>2, SearchUntouched DEF vars, clientVars
<1>3. ASSUME NEW p \in Process, Begin(p)
      PROVE  SearchInv'
  <2>1. CASE ~ArgumentsValid(p)
    BY <1>1, <1>3, <2>1, SearchUntouched DEF Begin, Stop, Offline
  <2>2. CASE ArgumentsValid(p)
    <3>1. /\ UNCHANGED args
          /\ \A q \in Process \ {p} : stage'[q] = stage[q] /\ tried'[q] = tried[q]
          /\ tried'[p] = From(p)
          /\ stage'[p] = IF args[p].submitOnly THEN "solved" ELSE "mining"
      BY <1>1, <1>3, <2>2 DEF Begin, Offline, From
    <3>2. /\ args[p].submitOnly => Solves(p, From(p))
          /\ From(p) \in Nat
      BY <1>1, <2>2, PowAssumption DEF ArgumentsValid, From, Nonce
    <3>3. Unsolved(p)'
      BY <3>1, <3>2, PowAssumption DEF Unsolved, From, Nonce
    <3> QED
      BY <3>1, <3>2, <3>3 DEF SearchInv, EmailOf, Unsolved, From, Solves, DigestOf
  <2> QED
    BY <2>1, <2>2
<1>4. ASSUME NEW p \in Process, Mine(p)
      PROVE  SearchInv'
  <2>1. CASE Solves(p, tried[p])
    <3>1. stage[p] = "mining" /\ stage' = [stage EXCEPT ![p] = "solved"] /\ UNCHANGED <<args, tried>>
      BY <1>4, <2>1 DEF Mine, Offline
    <3> QED
      BY <1>1, <2>1, <3>1 DEF SearchInv, EmailOf, Unsolved, From, Solves, DigestOf
  <2>2. CASE ~Solves(p, tried[p]) /\ tried[p] < MaxNonce
    <3>1. stage[p] = "mining" /\ tried' = [tried EXCEPT ![p] = @ + 1] /\ UNCHANGED <<args, stage>>
      BY <1>4, <2>2 DEF Mine, Offline
    <3>2. Unsolved(p) => Unsolved(p)'
      <4>1. tried[p] \in Nat /\ tried'[p] = tried[p] + 1 /\ Nonce \subseteq Nat
        BY <1>1, <3>1, PowAssumption DEF Nonce
      <4> QED
        BY <2>2, <3>1, <4>1 DEF Unsolved, From, Solves, DigestOf, EmailOf
    <3> QED
      BY <1>1, <3>1, <3>2 DEF SearchInv, EmailOf, Unsolved, From, Solves, DigestOf
  <2>3. CASE ~Solves(p, tried[p]) /\ ~(tried[p] < MaxNonce)
    BY <1>1, <1>4, <2>3, SearchUntouched DEF Mine, Stop, Offline
  <2> QED
    BY <2>1, <2>2, <2>3
<1>5. ASSUME NEW p \in Process,
             MineOnly(p) \/ Verdict(p) \/ TimesOut(p) \/ CannotLoad(p) \/ Killed(p)
      PROVE  SearchInv'
  BY <1>1, <1>5, SearchUntouched DEF MineOnly, Verdict, TimesOut, CannotLoad, Killed, Stop, Offline
<1>6. ASSUME NEW p \in Process, Ensure(p) \/ Bootstrap(p) \/ Downloaded(p)
      PROVE  SearchInv'
  BY <1>6, SearchUntouched DEF Ensure, Bootstrap, Downloaded, clientVars
<1>7. ASSUME NEW p \in Process, GoOnline(p)
      PROVE  SearchInv'
  BY <1>1, <1>7, SearchUntouched DEF GoOnline
<1>8. ASSUME NEW p \in Process, Submit(p)
      PROVE  SearchInv'
  BY <1>8, SearchUntouched DEF Submit
<1>9. ASSUME NEW p \in Process, NEW r \in replies, OnResponse(p, r)
      PROVE  SearchInv'
  BY <1>9, SearchUntouched DEF OnResponse
<1>10. ASSUME NEW m \in mail, Serve(m)
       PROVE  SearchInv'
  BY <1>10, SearchUntouched DEF Serve
<1> QED
  BY <1>2, <1>3, <1>4, <1>5, <1>6, <1>7, <1>8, <1>9, <1>10 DEF Next, Run

\* The command line of a run stays; mail and the server change only as they may.
LEMMA ServerSteps ==
    ASSUME [Next]_vars
    PROVE  /\ UNCHANGED args
           /\ \/ UNCHANGED mail
              \/ \E p \in Process :
                    stage[p] = "online" /\ mail' = mail \cup {SubmissionOf(p)}
           /\ \/ UNCHANGED <<replies, registered>>
              \/ \E m \in mail : Serve(m)
<1> USE DEF Offline
<1>1. CASE UNCHANGED vars
  BY <1>1 DEF vars, clientVars
<1>2. ASSUME NEW p \in Process, Begin(p) \/ Mine(p) \/ MineOnly(p) \/ Verdict(p) \/ TimesOut(p)
      PROVE  UNCHANGED <<args, mail, replies, registered>>
  BY <1>2 DEF Begin, Mine, MineOnly, Verdict, TimesOut
<1>3. ASSUME NEW p \in Process, GoOnline(p) \/ CannotLoad(p) \/ Killed(p)
      PROVE  UNCHANGED <<args, mail, replies, registered>>
  BY <1>3 DEF GoOnline, CannotLoad, Killed
<1>4. ASSUME NEW p \in Process, Ensure(p) \/ Bootstrap(p) \/ Downloaded(p)
      PROVE  UNCHANGED <<args, mail, replies, registered>>
  BY <1>4 DEF Ensure, Bootstrap, Downloaded, clientVars
<1>5. ASSUME NEW p \in Process, Submit(p)
      PROVE  /\ UNCHANGED <<args, replies, registered>>
             /\ stage[p] = "online" /\ mail' = mail \cup {SubmissionOf(p)}
  BY <1>5 DEF Submit
<1>6. ASSUME NEW p \in Process, NEW r \in replies, OnResponse(p, r)
      PROVE  UNCHANGED <<args, mail, replies, registered>>
  BY <1>6 DEF OnResponse
<1>7. ASSUME NEW m \in mail, Serve(m)
      PROVE  UNCHANGED <<args, mail>>
  BY <1>7 DEF Serve
<1> QED
  BY <1>1, <1>2, <1>3, <1>4, <1>5, <1>6, <1>7 DEF Next, Run

LEMMA MailStep ==
    ASSUME ClientInv, SearchInv, MailSolves, [Next]_vars
    PROVE  MailSolves'
<1>1. UNCHANGED args
  BY ServerSteps
<1>2. ASSUME NEW m \in mail'
      PROVE  /\ m.key = args[m.run].key /\ m.email = EmailOf(m.run) /\ m.url = args[m.run].url
             /\ Solves(m.run, m.nonce)
  <2>1. CASE m \in mail
    BY <2>1 DEF MailSolves
  <2>2. CASE m \notin mail
    <3>1. PICK p \in Process : stage[p] = "online" /\ m = SubmissionOf(p)
      BY <2>2, ServerSteps
    <3>2. Solves(p, tried[p])
      BY <3>1 DEF SearchInv
    <3> QED
      BY <3>1, <3>2 DEF SubmissionOf
  <2> QED
    BY <2>1, <2>2
<1> QED
  BY <1>1, <1>2 DEF MailSolves, EmailOf, Solves, DigestOf

\* What the server takes it refuses only for the key, if as many bits were asked for.
LEMMA CauseStep ==
    ASSUME ClientInv, MailSolves, RejectedHasCause, [Next]_vars
    PROVE  RejectedHasCause'
<1> DEFINE Cause(r) ==
      ~Takes(r.about) \/ registered[r.about.key] \notin {None, Canonical[r.about.email]}
<1>1. TypeOK /\ RepliesInv
  BY DEF ClientInv
<1>2. UNCHANGED args
  BY ServerSteps
<1>3. CASE UNCHANGED <<replies, registered>>
  BY <1>2, <1>3 DEF RejectedHasCause
<1>4. ASSUME NEW m \in mail, Serve(m)
      PROVE  RejectedHasCause'
  <2>1. /\ m \in Submission /\ m.run \in Process /\ m.nonce \in Nonce
        /\ registered \in [Key -> Email \cup {None}]
        /\ \A e \in Email : Canonical[e] # None
    BY <1>1, EmailAssumption, NobodyAssumption DEF TypeOK, Submission
  <2> DEFINE ok == Valid(m) /\ Registrable(m)
  <2>2. \A k \in Key : registered[k] # None => registered'[k] = registered[k]
    BY <1>4, <2>1 DEF Serve, Registrable, Submission
  <2>3. ASSUME NEW r \in replies, r.from = "server"
        PROVE  r.about \in mail /\ r.about.key \in Key
    BY <1>1, <2>3 DEF RepliesInv, TypeOK, Submission
  <2>4. ASSUME args[m.run].difficulty >= ServerDifficulty, ~ok, Takes(m)
        PROVE  UNCHANGED registered /\ registered[m.key] \notin {None, Canonical[m.email]}
    <3>1. /\ DigestOf(m.run, m.nonce) = Digest[<<m.email, m.url, m.nonce>>]
          /\ Solves(m.run, m.nonce)
      BY DEF MailSolves, DigestOf
    <3>2. BeginsWithZeros(Digest[<<m.email, m.url, m.nonce>>], args[m.run].difficulty)
      BY <1>1, <2>1, <3>1, DigestsAreBytes, CountsLeadingZeros DEF Solves, IsValidPow
    <3>3. Valid(m)
      <4>1. ServerDifficulty \in 0..args[m.run].difficulty
        BY <1>1, <2>1, <2>4, DigestsAreBytes, PowAssumption
      <4> QED
        BY <1>1, <2>1, <2>4, <3>1, <3>2, <4>1, DigestsAreBytes, FewerZeros DEF Valid
    <3> QED
      BY <1>4, <2>4, <3>3 DEF Serve, Registrable
  <2>5. ASSUME NEW r \in replies', r.from = "server", ~r.success,
               args[r.about.run].difficulty >= ServerDifficulty
        PROVE  Cause(r)'
    <3>1. CASE r \in replies
      BY <2>2, <2>3, <2>5, <3>1 DEF RejectedHasCause, Takes
    <3>2. CASE r \notin replies
      <4>1. r = [from |-> "server", to |-> port[m.run], success |-> ok, about |-> m]
        BY <1>4, <3>2 DEF Serve
      <4>2. r.about = m /\ r.success = ok
        BY <4>1
      <4> QED
        BY <2>4, <2>5, <4>2 DEF Takes
    <3> QED
      BY <3>1, <3>2
  <2> QED
    BY <1>2, <2>5 DEF RejectedHasCause
<1> QED
  BY <1>3, <1>4, ServerSteps

LEMMA SearchInvariant == Spec => [](SearchInv /\ MailSolves /\ RejectedHasCause)
<1>1. Init => SearchInv /\ MailSolves /\ RejectedHasCause
  BY DEF Init, SearchInv, MailSolves, RejectedHasCause, PeerReplies
<1>2. ClientInv /\ SearchInv /\ MailSolves /\ RejectedHasCause /\ [Next]_vars
         => (SearchInv /\ MailSolves /\ RejectedHasCause)'
  BY SearchStep, MailStep, CauseStep
<1> QED
  BY <1>1, <1>2, ClientInvariant, PTL DEF Spec

\* mine_pow() ends with the first solution from where it began, as the server counts;
\* who brings a nonce goes on only with a solution.
THEOREM SearchFindsFirst == Spec => []SolvedIsFirst
<1>1. TypeOK /\ SearchInv => SolvedIsFirst
  <2> SUFFICES ASSUME TypeOK, SearchInv, NEW p \in Process, stage[p] \in {"solved", "online"}
               PROVE  /\ BeginsWithZeros(DigestOf(p, tried[p]), args[p].difficulty)
                      /\ ~args[p].submitOnly =>
                            \A n \in Nonce : BeginsWithZeros(DigestOf(p, n), args[p].difficulty) =>
                               n >= tried[p] \/ (args[p].nonce # None /\ n < args[p].nonce)
    BY DEF SolvedIsFirst
  <2>1. \A n \in Nonce : Solves(p, n) <=> BeginsWithZeros(DigestOf(p, n), args[p].difficulty)
    BY DigestsAreBytes, CountsLeadingZeros DEF Solves, IsValidPow
  <2>2. /\ tried[p] \in Nonce /\ Solves(p, tried[p])
        /\ ~args[p].submitOnly => Unsolved(p)
    BY DEF SearchInv, TypeOK
  <2>3. args[p].nonce \in Nat \cup {None} /\ Nonce \subseteq Nat
    BY PowAssumption DEF TypeOK, Argument, Nonce
  <2>4. ASSUME ~args[p].submitOnly, NEW n \in Nonce, Solves(p, n)
        PROVE  n >= tried[p] \/ (args[p].nonce # None /\ n < args[p].nonce)
    <3>1. ~(n >= From(p) /\ n < tried[p])
      BY <2>2, <2>4 DEF Unsolved
    <3> QED
      BY <2>2, <2>3, <3>1 DEF From
  <2> QED
    BY <2>1, <2>2, <2>4
<1> QED
  BY <1>1, SearchInvariant, ClientTypeCorrect, PTL

\* A run that asks for no less than the server is refused only for an address or URL
\* the server does not take, or if its key is registered with another address.
THEOREM RefusalHasCause == Spec => []RejectedHasCause
  BY SearchInvariant, PTL
=============================================================================
