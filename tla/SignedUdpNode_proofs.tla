----------------------- MODULE SignedUdpNode_proofs -----------------------
(***************************************************************************)
(* Proofs about SignedUdpNode, for any senders, team and kinds and for any *)
(* number of messages and restarts.                                        *)
(***************************************************************************)
EXTENDS SignedUdpNode, TLAPS

-----------------------------------------------------------------------------
(* Sequences as places in which messages wait.                             *)

\* The messages of a sequence are those at its indices.
LEMMA Indices == ASSUME NEW S, NEW s \in Seq(S) PROVE ToSet(s) = {s[i] : i \in 1..Len(s)}
  <1>1. DOMAIN s = 1..Len(s)
    OBVIOUS
  <1> QED BY ONLY <1>1, Zenon DEF ToSet

\* Putting a message at the end adds it, and keeps the messages apart if it is new.
LEMMA AppendElems ==
    ASSUME NEW S, NEW s \in Seq(S), NEW x \in S
    PROVE  /\ Append(s, x) \in Seq(S)
           /\ ToSet(Append(s, x)) = ToSet(s) \cup {x}
           /\ IsInjective(s) /\ x \notin ToSet(s) => IsInjective(Append(s, x))
  <1>1. /\ Append(s, x) \in Seq(S)
        /\ Len(Append(s, x)) = Len(s) + 1
        /\ \A i \in 1..Len(s) : Append(s, x)[i] = s[i]
        /\ Append(s, x)[Len(s) + 1] = x
        /\ Len(s) \in Nat
    OBVIOUS
  <1>2. ToSet(Append(s, x)) = ToSet(s) \cup {x}
    BY <1>1 DEF ToSet
  <1>3. IsInjective(s) /\ x \notin ToSet(s) => IsInjective(Append(s, x))
    BY <1>1 DEF ToSet, IsInjective
  <1> QED BY <1>1, <1>2, <1>3

\* Taking the first message away removes it and nothing else.
LEMMA HeadTail ==
    ASSUME NEW S, NEW s \in Seq(S), s # <<>>
    PROVE  /\ Head(s) \in S /\ Tail(s) \in Seq(S)
           /\ ToSet(s) = {Head(s)} \cup ToSet(Tail(s))
           /\ IsInjective(s) => IsInjective(Tail(s)) /\ Head(s) \notin ToSet(Tail(s))
           /\ Len(s) \in Nat /\ Len(Tail(s)) = Len(s) - 1
  <1>1. /\ Len(s) \in Nat /\ Len(s) >= 1
        /\ Head(s) = s[1] /\ Head(s) \in S
        /\ Tail(s) \in Seq(S) /\ Len(Tail(s)) = Len(s) - 1
        /\ \A i \in 1..(Len(s) - 1) : Tail(s)[i] = s[i + 1]
    OBVIOUS
  <1>2. ToSet(s) = {Head(s)} \cup ToSet(Tail(s))
    <2>1. \A i \in 1..Len(s) : i = 1 \/ (i - 1 \in 1..Len(Tail(s)) /\ s[i] = Tail(s)[i - 1])
      BY <1>1
    <2>2. \A i \in 1..Len(Tail(s)) : i + 1 \in 1..Len(s) /\ Tail(s)[i] = s[i + 1]
      BY <1>1
    <2>3. /\ ToSet(s) = {s[i] : i \in 1..Len(s)}
          /\ ToSet(Tail(s)) = {Tail(s)[i] : i \in 1..Len(Tail(s))}
      BY Indices, <1>1
    <2>4. \A x \in ToSet(s) : x = Head(s) \/ x \in ToSet(Tail(s))
      BY <1>1, <2>1, <2>3
    <2>5. \A x \in ToSet(Tail(s)) : x \in ToSet(s)
      BY <2>2, <2>3
    <2>6. Head(s) \in ToSet(s)
      BY <1>1, <2>3
    <2> QED BY <2>4, <2>5, <2>6
  <1>3. IsInjective(s) => IsInjective(Tail(s)) /\ Head(s) \notin ToSet(Tail(s))
    BY <1>1 DEF ToSet, IsInjective
  <1> QED BY <1>1, <1>2, <1>3

\* One message on its own, or none.
LEMMA OneElem ==
    /\ ToSet(<<>>) = {} /\ IsInjective(<<>>)
    /\ \A x : ToSet(<<x>>) = {x} /\ IsInjective(<<x>>)
  <1>1. Len(<<>>) = 0 /\ \A x : Len(<<x>>) = 1 /\ <<x>>[1] = x
    OBVIOUS
  <1> QED BY <1>1 DEF ToSet, IsInjective

-----------------------------------------------------------------------------
(* Type correctness.                                                       *)

\* Cutting the only message out of a sequence leaves nothing behind.
LEMMA CutOut ==
    ASSUME NEW S, NEW s \in Seq(S), Len(s) <= 1, NEW i \in 1..Len(s)
    PROVE  /\ s # <<>> /\ s[i] = Head(s) /\ s[i] \in S
           /\ RemoveAt(s, i) = <<>>
           /\ Tail(s) = <<>>
  <1>1. Len(s) = 1 /\ i = 1
    <2>1. Len(s) \in Nat
      OBVIOUS
    <2>2. \A n \in Nat : \A j \in 1..n : n <= 1 => n = 1 /\ j = 1
      OBVIOUS
    <2> QED BY <2>1, <2>2
  <1>2. s # <<>> /\ s[i] = Head(s) /\ s[i] \in S
    BY <1>1
  <1>3. SubSeq(s, 1, 0) = <<>> /\ SubSeq(s, 2, 1) = <<>>
    <2>1. /\ SubSeq(s, 1, 0) \in Seq(S) /\ Len(SubSeq(s, 1, 0)) = 0
          /\ SubSeq(s, 2, 1) \in Seq(S) /\ Len(SubSeq(s, 2, 1)) = 0
      BY <1>1
    <2> QED BY <2>1
  <1>4. Tail(s) = <<>>
    <2>1. Tail(s) \in Seq(S) /\ Len(Tail(s)) = 0
      BY <1>1, <1>2
    <2> QED BY <2>1
  <1>5. <<>> \o <<>> = <<>>
    OBVIOUS
  <1> QED BY <1>1, <1>2, <1>3, <1>4, <1>5 DEF RemoveAt

\* The messages sent are datagrams.
LEMMA SendTyped ==
    ASSUME TypeOK, NEW s \in Senders, NEW k \in Kinds, Send(s, k)
    PROVE  /\ sequence'[s] = sequence[s] + 1
           /\ sequence' \in [Senders -> 0..MaxSequence]
           /\ [sender |-> s, life |-> life[s], sequence |-> sequence'[s], kind |-> k, intact |-> TRUE]
                 \in Datagram
  <1>1. /\ sequence[s] \in 0..MaxSequence /\ sequence[s] < MaxSequence /\ life[s] \in 0..MaxLives
        /\ sequence' = [sequence EXCEPT ![s] = @ + 1]
    <2>1. sequence[s] < MaxSequence /\ sequence' = [sequence EXCEPT ![s] = @ + 1]
      BY DEF Send
    <2> QED BY <2>1 DEF TypeOK
  <1>2. sequence[s] + 1 \in 1..MaxSequence
    BY <1>1, BoundAssumption
  <1>3. sequence'[s] = sequence[s] + 1 /\ sequence' \in [Senders -> 0..MaxSequence]
    <2>1. sequence \in [Senders -> 0..MaxSequence] /\ sequence[s] + 1 \in 0..MaxSequence
      BY <1>2 DEF TypeOK
    <2> QED BY <1>1, <2>1
  <1> QED BY <1>1, <1>2, <1>3 DEF Datagram

\* A damaged copy differs in nothing but its signature.
LEMMA DamagedCopy ==
    ASSUME NEW d \in Datagram
    PROVE  /\ [d EXCEPT !.intact = FALSE] \in Datagram
           /\ ~[d EXCEPT !.intact = FALSE].intact
           /\ [d EXCEPT !.intact = FALSE].sender = d.sender
           /\ [d EXCEPT !.intact = FALSE].life = d.life
           /\ [d EXCEPT !.intact = FALSE].sequence = d.sequence
           /\ [d EXCEPT !.intact = FALSE].kind = d.kind
  BY DEF Datagram

\* One step keeps the state well typed and sets no second message aside.
LEMMA TypedStep ==
    ASSUME TypeOK, SetsOneAside, [Next]_vars
    PROVE  TypeOK' /\ SetsOneAside'
  <1> USE BoundAssumption DEF SetsOneAside
  <1>1. ASSUME NEW s \in Senders, NEW k \in Kinds, Send(s, k)
        PROVE  TypeOK' /\ SetsOneAside'
    BY <1>1, SendTyped DEF Send, TypeOK
  <1>2. ASSUME NEW s \in Senders, Restart(s)
        PROVE  TypeOK' /\ SetsOneAside'
    <2>1. life[s] + 1 \in 0..MaxLives
      BY <1>2 DEF Restart, TypeOK
    <2> QED BY <1>2, <2>1 DEF Restart, TypeOK
  <1>3. ASSUME NEW d \in network, Damage(d)
        PROVE  TypeOK' /\ SetsOneAside'
    <2>1. [d EXCEPT !.intact = FALSE] \in Datagram
      BY DamagedCopy DEF TypeOK
    <2> QED BY <1>3, <2>1 DEF Damage, senderVars, TypeOK
  <1>4. ASSUME NEW d \in network, OnDatagram(d)
        PROVE  TypeOK' /\ SetsOneAside'
    <2>1. d \in Datagram /\ d.sequence \in 1..MaxSequence
      BY DEF TypeOK, Datagram
    <2> QED BY <1>4, <2>1, AppendElems DEF OnDatagram, senderVars, TypeOK
  <1>5. ASSUME ReceiveSetAside PROVE TypeOK' /\ SetsOneAside'
    BY <1>5, AppendElems, HeadTail DEF ReceiveSetAside, senderVars, TypeOK
  <1>6. ASSUME ReceiveQueued PROVE TypeOK' /\ SetsOneAside'
    BY <1>6, AppendElems, HeadTail DEF ReceiveQueued, senderVars, TypeOK
  <1>7. ASSUME NEW k \in Kinds, WaitForSetAside(k)
        PROVE  TypeOK' /\ SetsOneAside'
    <2>1. PICK i \in 1..Len(backlog) :
             /\ read' = Append(read, backlog[i])
             /\ backlog' = RemoveAt(backlog, i)
      BY <1>7 DEF WaitForSetAside
    <2>2. backlog' = <<>> /\ backlog[i] \in Datagram
      BY <2>1, CutOut DEF TypeOK, SetsOneAside
    <2>3. read' \in Seq(Datagram)
      BY <2>1, <2>2, AppendElems DEF TypeOK
    <2>4. UNCHANGED <<senderVars, network, seen, queue, wanted, caller>>
      BY <1>7 DEF WaitForSetAside
    <2>5. Len(backlog') = 0 /\ backlog' \in Seq(Datagram)
      BY <2>2
    <2> QED BY <2>3, <2>4, <2>5 DEF senderVars, TypeOK
  <1>8. ASSUME NEW k \in Kinds, WaitFor(k)
        PROVE  TypeOK' /\ SetsOneAside'
    BY <1>8 DEF WaitFor, senderVars, TypeOK
  <1>9. ASSUME WaitForReturns PROVE TypeOK' /\ SetsOneAside'
    BY <1>9, AppendElems, HeadTail DEF WaitForReturns, senderVars, TypeOK
  <1>10. ASSUME WaitForSetsAside PROVE TypeOK' /\ SetsOneAside'
    <2>1. Head(queue) \in Datagram /\ Tail(queue) \in Seq(Datagram)
      BY <1>10, HeadTail DEF WaitForSetsAside, TypeOK
    <2> QED BY <1>10, <2>1 DEF WaitForSetsAside, senderVars, TypeOK
  <1>11. ASSUME WaitForExpires PROVE TypeOK' /\ SetsOneAside'
    BY <1>11 DEF WaitForExpires, senderVars, TypeOK
  <1>12. ASSUME BarrierOpens \/ BundleSent \/ SessionEnds
         PROVE  TypeOK' /\ SetsOneAside'
    BY <1>12 DEF BarrierOpens, BundleSent, SessionEnds, senderVars, TypeOK
  <1>13. ASSUME UNCHANGED vars PROVE TypeOK' /\ SetsOneAside'
    BY <1>13 DEF vars, senderVars, TypeOK
  <1> QED
    BY <1>1, <1>2, <1>3, <1>4, <1>5, <1>6, <1>7, <1>8, <1>9, <1>10, <1>11, <1>12, <1>13
       DEF Next, Receive, WaitForSteps

\* The initial state is well typed and nothing is set aside in it.
LEMMA TypedInit == Init => TypeOK /\ SetsOneAside
  BY TeamAssumption, BoundAssumption DEF Init, TypeOK, SetsOneAside

\* Every variable of the node, its senders and its network always holds values of
\* its kind, and wait_for() never has more than one message set aside.
THEOREM NodeTyped == Spec => [](TypeOK /\ SetsOneAside)
  <1>1. TypeOK /\ SetsOneAside /\ [Next]_vars => (TypeOK /\ SetsOneAside)'
    BY TypedStep
  <1> QED BY TypedInit, <1>1, PTL DEF Spec

-----------------------------------------------------------------------------
(* The numbers on the network.                                             *)

\* A sender's steps and the network keep the numbering; nobody else touches it.
LEMMA NumberedStep ==
    ASSUME TypeOK, Numbered, [Next]_vars
    PROVE  Numbered'
  <1>1. ASSUME NEW s \in Senders, NEW k \in Kinds, Send(s, k)
        PROVE  Numbered'
    <2> DEFINE new == [sender |-> s, life |-> life[s], sequence |-> sequence'[s],
                       kind |-> k, intact |-> TRUE]
    <2>1. /\ network' = network \cup {new} /\ life' = life
          /\ sequence'[s] = sequence[s] + 1
          /\ \A r \in Senders : r # s => sequence'[r] = sequence[r]
      BY <1>1, SendTyped DEF Send, TypeOK
    <2>2. /\ sequence[s] \in Nat /\ life[s] \in Nat
          /\ new.sender = s /\ new.life = life[s] /\ new.sequence = sequence[s] + 1
      BY <2>1 DEF TypeOK
    <2>3. \A d \in network : /\ d.sender \in Senders
                             /\ d.sequence \in Nat /\ sequence[d.sender] \in Nat
      BY DEF TypeOK, Datagram
    <2>4. \A d \in network : d.sender = s /\ d.life = life[s] => d.sequence <= sequence[s]
      BY DEF Numbered
    <2> HIDE DEF new
    <2>5. \A d \in network' :
             /\ d.life <= life'[d.sender]
             /\ d.life = life'[d.sender] => d.sequence <= sequence'[d.sender]
      <3>1. ASSUME NEW d \in network
            PROVE  /\ d.life <= life'[d.sender]
                   /\ d.life = life'[d.sender] => d.sequence <= sequence'[d.sender]
        BY <2>1, <2>2, <2>3 DEF Numbered
      <3>2. new.life <= life'[new.sender] /\ new.sequence <= sequence'[new.sender]
        BY <2>1, <2>2
      <3> QED BY <2>1, <3>1, <3>2
    <2>6. \A d \in network :
             ~(d.sender = new.sender /\ d.life = new.life /\ d.sequence = new.sequence)
      BY <2>2, <2>3, <2>4
    <2>7. \A d, e \in network' :
             d.sender = e.sender /\ d.life = e.life /\ d.sequence = e.sequence => d.kind = e.kind
      BY <2>1, <2>6 DEF Numbered
    <2> QED BY <2>5, <2>7 DEF Numbered
  <1>2. ASSUME NEW s \in Senders, Restart(s)
        PROVE  Numbered'
    <2>1. /\ network' = network
          /\ life'[s] = life[s] + 1 /\ life[s] \in Nat
          /\ \A r \in Senders : r # s => life'[r] = life[r] /\ sequence'[r] = sequence[r]
      BY <1>2 DEF Restart, TypeOK
    <2>2. \A d \in network : d.sender \in Senders /\ d.life \in Nat
      BY DEF TypeOK, Datagram
    <2> QED BY <2>1, <2>2 DEF Numbered
  <1>3. ASSUME NEW d \in network, Damage(d)
        PROVE  Numbered'
    <2>1. d \in Datagram
      BY DEF TypeOK
    <2> DEFINE copy == [d EXCEPT !.intact = FALSE]
    <2>2. /\ copy.sender = d.sender /\ copy.life = d.life
          /\ copy.sequence = d.sequence /\ copy.kind = d.kind
      BY <2>1, DamagedCopy
    <2>3. network' = network \cup {copy} /\ life' = life /\ sequence' = sequence
      BY <1>3 DEF Damage, senderVars
    <2> HIDE DEF copy
    <2> QED BY <2>2, <2>3 DEF Numbered
  <1>4. ASSUME UNCHANGED <<life, sequence, network>> PROVE Numbered'
    BY <1>4 DEF Numbered
  <1>5. ASSUME NEW d \in network, OnDatagram(d) PROVE Numbered'
    BY <1>5, <1>4 DEF OnDatagram, senderVars
  <1>6. ASSUME Receive PROVE Numbered'
    BY <1>6, <1>4 DEF Receive, ReceiveSetAside, ReceiveQueued, senderVars
  <1>7. ASSUME NEW k \in Kinds, WaitForSetAside(k) \/ WaitFor(k) PROVE Numbered'
    BY <1>7, <1>4 DEF WaitForSetAside, WaitFor, senderVars
  <1>8. ASSUME WaitForSteps PROVE Numbered'
    BY <1>8, <1>4 DEF WaitForSteps, WaitForReturns, WaitForSetsAside, WaitForExpires, senderVars
  <1>9. ASSUME BarrierOpens \/ BundleSent \/ SessionEnds PROVE Numbered'
    BY <1>9, <1>4 DEF BarrierOpens, BundleSent, SessionEnds, senderVars
  <1>10. ASSUME UNCHANGED vars PROVE Numbered'
    BY <1>10, <1>4 DEF vars, senderVars
  <1> QED BY <1>1, <1>2, <1>3, <1>5, <1>6, <1>7, <1>8, <1>9, <1>10 DEF Next

-----------------------------------------------------------------------------
(* Nothing accepted is lost, doubled or forged.                            *)

\* A step that only moves accepted messages keeps the bookkeeping.
LEMMA OnlyMoved ==
    ASSUME Conserved, Authentic, Accepted' = Accepted, seen' = seen, network \subseteq network',
           IsInjective(read'), IsInjective(queue'), IsInjective(backlog'),
           ToSet(read') \cap ToSet(queue') = {},
           ToSet(backlog') \cap (ToSet(read') \cup ToSet(queue')) = {}
    PROVE  Conserved' /\ Authentic'
  BY DEF Conserved, Authentic

\* A message taken from the front of the queue, or from the place set aside, has
\* not been read before.
LEMMA HeadOfQueue ==
    ASSUME TypeOK, Conserved, queue # <<>>
    PROVE  /\ Head(queue) \in Datagram /\ Head(queue) \in Accepted
           /\ Head(queue) \notin ToSet(read) /\ Head(queue) \notin ToSet(Tail(queue))
           /\ ToSet(queue) = {Head(queue)} \cup ToSet(Tail(queue)) /\ IsInjective(Tail(queue))
  <1>1. queue \in Seq(Datagram) /\ IsInjective(queue) /\ ToSet(read) \cap ToSet(queue) = {}
    BY DEF TypeOK, Conserved
  <1> QED BY <1>1, HeadTail DEF Accepted

LEMMA HeadOfBacklog ==
    ASSUME TypeOK, Conserved, SetsOneAside, backlog # <<>>
    PROVE  /\ Head(backlog) \in Datagram /\ Head(backlog) \in Accepted
           /\ Head(backlog) \notin ToSet(read) /\ Head(backlog) \notin ToSet(queue)
           /\ ToSet(backlog) = {Head(backlog)} /\ Tail(backlog) = <<>>
  <1>1. backlog \in Seq(Datagram) /\ Len(backlog) <= 1
        /\ ToSet(backlog) \cap (ToSet(read) \cup ToSet(queue)) = {}
    BY DEF TypeOK, Conserved, SetsOneAside
  <1>2. /\ Head(backlog) \in Datagram
        /\ ToSet(backlog) = {Head(backlog)} \cup ToSet(Tail(backlog))
    BY <1>1, HeadTail
  <1>3. 1 \in 1..Len(backlog)
    BY <1>1
  <1>4. Tail(backlog) = <<>>
    BY <1>1, <1>3, CutOut
  <1> QED BY <1>1, <1>2, <1>4, OneElem DEF Accepted

\* Accepting a datagram notes its number and queues it once.
LEMMA AcceptStep ==
    ASSUME TypeOK, Conserved, Authentic, NEW d \in network, OnDatagram(d)
    PROVE  Conserved' /\ Authentic'
  <1>1. /\ d \in Datagram /\ d.sender \in Team /\ Decodes(d)
        /\ d.sequence \notin seen[d.sender]
        /\ queue' = Append(queue, d)
        /\ read' = read /\ backlog' = backlog /\ network' = network
        /\ seen'[d.sender] = seen[d.sender] \cup {d.sequence}
        /\ \A s \in Team : s # d.sender => seen'[s] = seen[s]
    BY DEF OnDatagram, Replayed, Decodes, TypeOK
  <1>2. \A e \in Accepted : ~(e.sender = d.sender /\ e.sequence = d.sequence)
    BY <1>1 DEF Conserved
  <1>3. d \notin Accepted
    BY <1>2
  <1>4. ToSet(queue') = ToSet(queue) \cup {d} /\ IsInjective(queue')
    BY <1>1, <1>3, AppendElems DEF TypeOK, Conserved, Accepted
  <1>5. Accepted' = Accepted \cup {d}
    BY <1>1, <1>4 DEF Accepted
  <1>6. ASSUME NEW s \in Team
        PROVE  seen'[s] = {e.sequence : e \in {f \in Accepted' : f.sender = s}}
    <2>1. seen[s] = {e.sequence : e \in {f \in Accepted : f.sender = s}}
      BY DEF Conserved
    <2>2. CASE s = d.sender
      BY <1>1, <1>5, <2>1, <2>2
    <2>3. CASE s # d.sender
      BY <1>1, <1>5, <2>1, <2>3
    <2> QED BY <2>2, <2>3
  <1>7. \A e, f \in Accepted' : e.sender = f.sender /\ e.sequence = f.sequence => e = f
    BY <1>2, <1>5 DEF Conserved
  <1>8. /\ IsInjective(read') /\ IsInjective(backlog')
        /\ ToSet(read') \cap ToSet(queue') = {}
        /\ ToSet(backlog') \cap (ToSet(read') \cup ToSet(queue')) = {}
    BY <1>1, <1>3, <1>4 DEF Conserved, Accepted
  <1>9. Authentic'
    BY <1>1, <1>5 DEF Authentic, Decodes
  <1> QED BY <1>4, <1>6, <1>7, <1>8, <1>9 DEF Conserved

\* Handing a message to the caller moves it, whichever place it comes from.
LEMMA ReadStep ==
    ASSUME TypeOK, SetsOneAside, Conserved, Authentic,
           \/ ReceiveSetAside \/ ReceiveQueued \/ WaitForReturns
           \/ \E k \in Kinds : WaitForSetAside(k)
    PROVE  Conserved' /\ Authentic'
  <1> DEFINE Take(x, q, b) == /\ read' = Append(read, x) /\ queue' = q /\ backlog' = b
                              /\ seen' = seen /\ network' = network
  <1>1. CASE queue # <<>> /\ Take(Head(queue), Tail(queue), backlog)
    <2>1. ToSet(read') = ToSet(read) \cup {Head(queue)} /\ IsInjective(read')
      BY <1>1, HeadOfQueue, AppendElems DEF TypeOK, Conserved
    <2>2. Accepted' = Accepted
      BY <1>1, <2>1, HeadOfQueue DEF Accepted
    <2>3. /\ IsInjective(queue') /\ IsInjective(backlog')
          /\ ToSet(read') \cap ToSet(queue') = {}
          /\ ToSet(backlog') \cap (ToSet(read') \cup ToSet(queue')) = {}
      BY <1>1, <2>1, HeadOfQueue DEF Conserved
    <2> QED BY <1>1, <2>1, <2>2, <2>3, OnlyMoved
  <1>2. CASE backlog # <<>> /\ Take(Head(backlog), queue, <<>>)
    <2>1. ToSet(read') = ToSet(read) \cup {Head(backlog)} /\ IsInjective(read')
      BY <1>2, HeadOfBacklog, AppendElems DEF TypeOK, Conserved
    <2>2. ToSet(backlog') = {} /\ IsInjective(backlog')
      BY <1>2, OneElem
    <2>3. Accepted' = Accepted
      BY <1>2, <2>1, <2>2, HeadOfBacklog DEF Accepted
    <2>4. /\ IsInjective(queue')
          /\ ToSet(read') \cap ToSet(queue') = {}
          /\ ToSet(backlog') \cap (ToSet(read') \cup ToSet(queue')) = {}
      BY <1>2, <2>1, <2>2, HeadOfBacklog DEF Conserved
    <2> QED BY <1>2, <2>1, <2>2, <2>3, <2>4, OnlyMoved
  <1>3. ASSUME ReceiveSetAside PROVE Conserved' /\ Authentic'
    BY <1>2, <1>3, HeadOfBacklog DEF ReceiveSetAside
  <1>4. ASSUME ReceiveQueued PROVE Conserved' /\ Authentic'
    BY <1>1, <1>4 DEF ReceiveQueued
  <1>5. ASSUME WaitForReturns PROVE Conserved' /\ Authentic'
    BY <1>1, <1>5 DEF WaitForReturns
  <1>6. ASSUME NEW k \in Kinds, WaitForSetAside(k) PROVE Conserved' /\ Authentic'
    <2>1. PICK i \in 1..Len(backlog) :
             read' = Append(read, backlog[i]) /\ backlog' = RemoveAt(backlog, i)
      BY <1>6 DEF WaitForSetAside
    <2>2. backlog # <<>> /\ backlog[i] = Head(backlog) /\ backlog' = <<>>
      BY <2>1, CutOut DEF TypeOK, SetsOneAside
    <2>3. UNCHANGED <<seen, network, queue>>
      BY <1>6 DEF WaitForSetAside
    <2> QED BY <1>2, <2>1, <2>2, <2>3
  <1> QED BY <1>3, <1>4, <1>5, <1>6

\* Setting a message aside moves it from the queue to the backlog.
LEMMA SetAsideStep ==
    ASSUME TypeOK, Conserved, Authentic, WaitForSetsAside
    PROVE  Conserved' /\ Authentic'
  <1>1. /\ backlog = <<>> /\ queue # <<>>
        /\ backlog' = <<Head(queue)>> /\ queue' = Tail(queue)
        /\ read' = read /\ seen' = seen /\ network' = network
    BY DEF WaitForSetsAside
  <1>2. ToSet(backlog) = {} /\ ToSet(backlog') = {Head(queue)} /\ IsInjective(backlog')
    BY <1>1, OneElem
  <1>3. Accepted' = Accepted
    BY <1>1, <1>2, HeadOfQueue DEF Accepted
  <1>4. /\ IsInjective(read') /\ IsInjective(queue')
        /\ ToSet(read') \cap ToSet(queue') = {}
        /\ ToSet(backlog') \cap (ToSet(read') \cup ToSet(queue')) = {}
    BY <1>1, <1>2, HeadOfQueue DEF Conserved
  <1> QED BY <1>1, <1>2, <1>3, <1>4, OnlyMoved

-----------------------------------------------------------------------------
(* The inductive invariant, and what follows from it.                      *)

IInv == TypeOK /\ SetsOneAside /\ Numbered /\ Conserved /\ Authentic

LEMMA InvariantInit == Init => IInv
  <1> SUFFICES ASSUME Init PROVE IInv
    OBVIOUS
  <1>1. Numbered
    BY DEF Init, Numbered
  <1>2. /\ read = <<>> /\ queue = <<>> /\ backlog = <<>>
        /\ \A s \in Team : seen[s] = {}
    BY DEF Init
  <1>3. Accepted = {}
    BY <1>2, OneElem DEF Accepted
  <1>4. Conserved
    BY <1>2, <1>3, OneElem DEF Conserved
  <1>5. Authentic
    BY <1>3 DEF Authentic
  <1> QED BY TypedInit, <1>1, <1>4, <1>5 DEF IInv

LEMMA InvariantStep == IInv /\ [Next]_vars => IInv'
  <1> SUFFICES ASSUME IInv, [Next]_vars PROVE Conserved' /\ Authentic'
    BY TypedStep, NumberedStep DEF IInv
  <1> USE DEF IInv
  <1>1. ASSUME seen' = seen, network \subseteq network',
               read' = read, queue' = queue, backlog' = backlog
        PROVE  Conserved' /\ Authentic'
    <2>1. Accepted' = Accepted
      BY <1>1 DEF Accepted
    <2> QED BY <1>1, <2>1, OnlyMoved DEF Conserved
  <1>2. ASSUME NEW s \in Senders, Restart(s) \/ \E k \in Kinds : Send(s, k)
        PROVE  Conserved' /\ Authentic'
    BY <1>1, <1>2 DEF Restart, Send
  <1>3. ASSUME NEW d \in network, Damage(d)
        PROVE  Conserved' /\ Authentic'
    BY <1>1, <1>3 DEF Damage
  <1>4. ASSUME NEW d \in network, OnDatagram(d)
        PROVE  Conserved' /\ Authentic'
    BY <1>4, AcceptStep
  <1>5. ASSUME Receive \/ WaitForReturns \/ \E k \in Kinds : WaitForSetAside(k)
        PROVE  Conserved' /\ Authentic'
    BY <1>5, ReadStep DEF Receive
  <1>6. ASSUME WaitForSetsAside PROVE Conserved' /\ Authentic'
    BY <1>6, SetAsideStep
  <1>7. ASSUME WaitForExpires \/ \E k \in Kinds : WaitFor(k)
        PROVE  Conserved' /\ Authentic'
    BY <1>1, <1>7 DEF WaitForExpires, WaitFor
  <1>8. ASSUME BarrierOpens \/ BundleSent \/ SessionEnds
        PROVE  Conserved' /\ Authentic'
    BY <1>1, <1>8 DEF BarrierOpens, BundleSent, SessionEnds
  <1>9. ASSUME UNCHANGED vars PROVE Conserved' /\ Authentic'
    BY <1>1, <1>9 DEF vars
  <1> QED BY <1>2, <1>3, <1>4, <1>5, <1>6, <1>7, <1>8, <1>9 DEF Next, WaitForSteps

LEMMA Invariant == Spec => []IInv
  BY InvariantInit, InvariantStep, PTL DEF Spec

\* A sequence number names one message of a sender's life, and never a number its
\* counter has not reached.
THEOREM NumbersAreUnique == Spec => []Numbered
  <1>1. IInv => Numbered
    BY DEF IInv
  <1> QED BY Invariant, <1>1, PTL

\* receive() and wait_for(), called in whatever order and abandoned by whatever
\* deadline, neither lose nor double what the codec has accepted.
THEOREM NothingIsLost == Spec => []Conserved
  <1>1. IInv => Conserved
    BY DEF IInv
  <1> QED BY Invariant, <1>1, PTL

\* Strangers' and damaged datagrams are never accepted.
THEOREM OnlyTeamIsHeard == Spec => []Authentic
  <1>1. IInv => Authentic
    BY DEF IInv
  <1> QED BY Invariant, <1>1, PTL

\* The replay check refuses only what has been accepted before, or what bears the
\* number of an accepted message of another life of its sender: within a life no
\* fresh message is ever lost to the check.
THEOREM ReplayCheckIsExact == Spec => []RefusedOnlyIfAccepted
  <1>1. ASSUME IInv, NEW d \in network, Decodes(d), Replayed(d)
        PROVE  \/ d \in Accepted
               \/ \E e \in Accepted :
                     e.sender = d.sender /\ e.sequence = d.sequence /\ e.life # d.life
    <2>1. PICK e \in Accepted : e.sender = d.sender /\ e.sequence = d.sequence
      BY <1>1 DEF IInv, Conserved, Replayed, Decodes
    <2>2. CASE e.life = d.life
      <3>1. e \in network /\ e.intact
        BY <1>1 DEF IInv, Authentic
      <3>2. d \in Datagram /\ e \in Datagram
        BY <1>1, <3>1 DEF IInv, TypeOK
      <3>3. d.kind = e.kind
        BY <1>1, <2>1, <2>2, <3>1 DEF IInv, Numbered
      <3>4. d.intact = TRUE /\ e.intact = TRUE
        BY <1>1, <3>1, <3>2 DEF Decodes, Datagram
      <3>5. d = e
        BY <2>1, <2>2, <3>2, <3>3, <3>4 DEF Datagram
      <3> QED BY <3>5
    <2>3. CASE e.life # d.life
      BY <2>1, <2>3
    <2> QED BY <2>2, <2>3
  <1>2. IInv => RefusedOnlyIfAccepted
    BY <1>1 DEF RefusedOnlyIfAccepted
  <1> QED BY Invariant, <1>2, PTL

-----------------------------------------------------------------------------
(* The node implements the channel.                                        *)

Posted == {d \in network : d.sender \in Team /\ d.intact}

\* A message handed to the caller was posted and had not been delivered.
LEMMA DeliversOnce ==
    ASSUME IInv, NEW x \in Accepted, x \notin ToSet(read),
           read' = Append(read, x), network' = network
    PROVE  Channel!Deliver
  <1>1. x \in Posted
    BY DEF IInv, Authentic, Posted
  <1>2. \A i \in 1..Len(read) : read[i] # x
    BY Indices DEF IInv, TypeOK
  <1>3. Posted' = Posted
    BY DEF Posted
  <1> QED BY <1>1, <1>2, <1>3 DEF Channel!Deliver, Posted

\* Every step of the node is a step of the channel, or none.
LEMMA ChannelStep == IInv /\ [Next]_vars => [Channel!ChannelNext]_(Channel!channelVars)
  <1> SUFFICES ASSUME IInv, [Next]_vars
               PROVE  [Channel!ChannelNext]_(Channel!channelVars)
    OBVIOUS
  <1>1. ASSUME network' = network, read' = read
        PROVE  UNCHANGED Channel!channelVars
    BY <1>1 DEF Channel!channelVars
  <1>2. ASSUME NEW s \in Senders, NEW k \in Kinds, Send(s, k)
        PROVE  Channel!Post \/ UNCHANGED Channel!channelVars
    <2> DEFINE new == [sender |-> s, life |-> life[s], sequence |-> sequence'[s],
                       kind |-> k, intact |-> TRUE]
    <2>1. network' = network \cup {new} /\ read' = read
      BY <1>2 DEF Send
    <2>2. new \in Datagram /\ new.sequence = sequence[s] + 1 /\ sequence[s] \in Nat
      BY <1>2, SendTyped DEF IInv, TypeOK
    <2>3. new.sender = s /\ new.life = life[s] /\ new.intact
      OBVIOUS
    <2> HIDE DEF new
    <2>4. new \notin network
      BY <2>2, <2>3 DEF IInv, Numbered
    <2>5. CASE s \in Team
      <3>1. Posted' = Posted \cup {new}
        BY <2>1, <2>3, <2>5 DEF Posted
      <3>2. new \in {d \in Datagram : d.sender \in Team /\ d.intact} \ Posted
        BY <2>2, <2>3, <2>4, <2>5 DEF Posted
      <3> QED BY <2>1, <3>1, <3>2 DEF Channel!Post, Posted
    <2>6. CASE s \notin Team
      <3>1. Posted' = Posted
        BY <2>1, <2>3, <2>6 DEF Posted
      <3> QED BY <2>1, <3>1 DEF Channel!channelVars, Posted
    <2> QED BY <2>5, <2>6
  <1>3. ASSUME NEW d \in network, Damage(d)
        PROVE  UNCHANGED Channel!channelVars
    <2> DEFINE copy == [d EXCEPT !.intact = FALSE]
    <2>1. d \in Datagram
      BY DEF IInv, TypeOK
    <2>2. ~copy.intact
      BY <2>1, DamagedCopy
    <2>3. network' = network \cup {copy} /\ read' = read
      BY <1>3 DEF Damage
    <2> HIDE DEF copy
    <2>4. Posted' = Posted
      BY <2>2, <2>3 DEF Posted
    <2> QED BY <2>3, <2>4 DEF Channel!channelVars, Posted
  <1>4. ASSUME ReceiveQueued \/ WaitForReturns PROVE Channel!Deliver
    BY <1>4, HeadOfQueue, DeliversOnce DEF IInv, ReceiveQueued, WaitForReturns
  <1>5. ASSUME ReceiveSetAside PROVE Channel!Deliver
    BY <1>5, HeadOfBacklog, DeliversOnce DEF IInv, ReceiveSetAside
  <1>6. ASSUME NEW k \in Kinds, WaitForSetAside(k) PROVE Channel!Deliver
    <2>1. PICK i \in 1..Len(backlog) : read' = Append(read, backlog[i])
      BY <1>6 DEF WaitForSetAside
    <2>2. backlog # <<>> /\ backlog[i] = Head(backlog)
      BY <2>1, CutOut DEF IInv, TypeOK, SetsOneAside
    <2>3. network' = network
      BY <1>6 DEF WaitForSetAside
    <2> QED BY <2>1, <2>2, <2>3, HeadOfBacklog, DeliversOnce DEF IInv
  <1>7. ASSUME NEW d \in network, OnDatagram(d) PROVE UNCHANGED Channel!channelVars
    BY <1>1, <1>7 DEF OnDatagram
  <1>8. ASSUME \/ WaitForSetsAside \/ WaitForExpires \/ UNCHANGED vars
               \/ \E k \in Kinds : WaitFor(k)
               \/ \E s \in Senders : Restart(s)
               \/ BarrierOpens \/ BundleSent \/ SessionEnds
        PROVE  UNCHANGED Channel!channelVars
    BY <1>1, <1>8 DEF WaitForSetsAside, WaitForExpires, vars, WaitFor, Restart,
                      BarrierOpens, BundleSent, SessionEnds
  <1> QED
    BY <1>2, <1>3, <1>4, <1>5, <1>6, <1>7, <1>8
       DEF Next, Receive, WaitForSteps, Channel!ChannelNext

\* The node implements a channel that delivers every message at most once, whatever
\* the network repeats, damages or reorders and whoever is started again.
THEOREM ImplementsChannel == Spec => DeliversAtMostOnce
  <1>1. Init => Channel!ChannelInit
    BY DEF Init, Channel!ChannelInit
  <1> QED BY <1>1, Invariant, ChannelStep, PTL DEF Spec, DeliversAtMostOnce, Channel!ChannelSpec
=============================================================================
