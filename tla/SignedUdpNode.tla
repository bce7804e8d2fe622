--------------------------- MODULE SignedUdpNode ---------------------------
(***************************************************************************)
(* SignedUdpNode and SignedUdpCodec (udp_runtime.py, udp_protocol.py): one *)
(* node that reads what the nodes of `Senders` send it, and the calls by   *)
(* which its session (race.py) reads: at the barrier and while it passes   *)
(* the baton only wait_for(), in the rounds between only receive().        *)
(*                                                                         *)
(* `network` only grows: a datagram in it may arrive never, once or again  *)
(* and again, and datagrams overtake one another.  A datagram damaged on   *)
(* its way is one that is not `intact`: its signature does not verify.     *)
(***************************************************************************)
EXTENDS Naturals, SequencesExt

CONSTANTS
    Senders,      \* whoever sends to the node's port
    Team,         \* allowed_pubkeys
    Kinds,        \* the message kinds
    None,         \* no wait_for is running
    MaxSequence,  \* bound on the messages a sender sends in one life
    MaxLives      \* bound on the lives of a sender

ASSUME TeamAssumption == Team \subseteq Senders
ASSUME KindsAssumption == None \notin Kinds
ASSUME BoundAssumption == MaxSequence \in Nat /\ MaxLives \in Nat

VARIABLES
    life,       \* how often each sender's process has been started anew
    sequence,   \* SignedUdpNode._sequence of each sender
    network,    \* the datagrams sent to the node
    seen,       \* SignedUdpCodec._seen_sequences
    queue,      \* SignedUdpNode._queue
    backlog,    \* SignedUdpNode._backlog
    caller,     \* the part of the session that reads: "barrier", "rounds", "baton", or "gone"
    wanted,     \* the kind a running wait_for waits for, or None
    read        \* the messages receive() and wait_for() have returned, in turn

senderVars == <<life, sequence>>
vars == <<senderVars, network, seen, queue, backlog, caller, wanted, read>>

Datagram == [sender: Senders, life: 0..MaxLives, sequence: 1..MaxSequence,
             kind: Kinds, intact: BOOLEAN]

\* What the codec has let through, wherever it is now.
Accepted == ToSet(read) \cup ToSet(queue) \cup ToSet(backlog)

-----------------------------------------------------------------------------
(* The senders and the network                                             *)

\* A sender that numbers its messages per kind of caller instead of once.
BrokenSend(s, k) ==
    /\ sequence[s] < MaxSequence
    /\ network' = network \cup
          {[sender |-> s, life |-> life[s], sequence |-> sequence[s], kind |-> k, intact |-> TRUE]}
    /\ \/ sequence' = [sequence EXCEPT ![s] = @ + 1]
       \/ UNCHANGED sequence
    /\ UNCHANGED <<life, seen, queue, backlog, wanted, read, caller>>

\* send() and encode(): the counter first, then the datagram.
Send(s, k) ==
    /\ sequence[s] < MaxSequence
    /\ sequence' = [sequence EXCEPT ![s] = @ + 1]
    /\ network' = network \cup
          {[sender |-> s, life |-> life[s], sequence |-> sequence'[s], kind |-> k, intact |-> TRUE]}
    /\ UNCHANGED <<life, seen, queue, backlog, wanted, read, caller>>

\* The program is started again on a sender: its counter starts from zero.
Restart(s) ==
    /\ life[s] < MaxLives
    /\ life' = [life EXCEPT ![s] = @ + 1]
    /\ sequence' = [sequence EXCEPT ![s] = 0]
    /\ UNCHANGED <<network, seen, queue, backlog, wanted, read, caller>>

\* A copy is damaged on its way.
Damage(d) ==
    /\ network' = network \cup {[d EXCEPT !.intact = FALSE]}
    /\ UNCHANGED <<senderVars, seen, queue, backlog, wanted, read, caller>>

-----------------------------------------------------------------------------
(* The receiving side.  While wait_for() holds a message that does not     *)
(* match, it hands it to itself again and again without awaiting: nothing  *)
(* else of the process runs, the datagram callback included.               *)

Spinning == wanted # None /\ backlog # <<>>

\* decode(): known sender, signature, then replay.
Decodes(d) == d.sender \in Team /\ d.intact
\* A codec that remembers only the highest number of each sender.
BrokenReplayed(d) == \E n \in seen[d.sender] : d.sequence = n /\ \A m \in seen[d.sender] : m <= n

Replayed(d) == d.sequence \in seen[d.sender]

\* The sequence number is noted before the signature is verified.
BrokenOnDatagram(d) ==
    /\ caller # "gone"
    /\ ~Spinning
    /\ d.sender \in Team
    /\ seen' = [seen EXCEPT ![d.sender] = @ \cup {d.sequence}]
    /\ queue' = IF d.intact /\ ~Replayed(d) THEN Append(queue, d) ELSE queue
    /\ UNCHANGED <<senderVars, network, backlog, wanted, read, caller>>

\* _on_datagram(), until stop() closes the socket: a datagram that does not decode,
\* or is a replay, is dropped.
OnDatagram(d) ==
    /\ caller # "gone"
    /\ ~Spinning
    /\ Decodes(d) /\ ~Replayed(d)
    /\ seen' = [seen EXCEPT ![d.sender] = @ \cup {d.sequence}]
    /\ queue' = Append(queue, d)
    /\ UNCHANGED <<senderVars, network, backlog, wanted, read, caller>>

\* receive(): what was set aside first, then the queue.  A timeout changes nothing.
ReceiveSetAside ==
    /\ caller = "rounds"
    /\ backlog # <<>>
    /\ read' = Append(read, Head(backlog))
    /\ backlog' = Tail(backlog)
    /\ UNCHANGED <<senderVars, network, seen, queue, wanted, caller>>

ReceiveQueued ==
    /\ caller = "rounds"
    /\ backlog = <<>> /\ queue # <<>>
    /\ read' = Append(read, Head(queue))
    /\ queue' = Tail(queue)
    /\ UNCHANGED <<senderVars, network, seen, backlog, wanted, caller>>

\* wait_for(): a message set aside that matches is returned at once ...
WaitForSetAside(k) ==
    /\ caller \in {"barrier", "baton"} /\ wanted = None
    /\ \E i \in 1..Len(backlog) :
          /\ backlog[i].kind = k
          /\ \A j \in 1..(i - 1) : backlog[j].kind # k
          /\ read' = Append(read, backlog[i])
          /\ backlog' = RemoveAt(backlog, i)
    /\ UNCHANGED <<senderVars, network, seen, queue, wanted, caller>>

\* ... otherwise it waits;
WaitFor(k) ==
    /\ caller \in {"barrier", "baton"} /\ wanted = None
    /\ \A i \in 1..Len(backlog) : backlog[i].kind # k
    /\ wanted' = k
    /\ UNCHANGED <<senderVars, network, seen, queue, backlog, read, caller>>

WaitForReturns ==
    /\ wanted # None /\ backlog = <<>> /\ queue # <<>>
    /\ Head(queue).kind = wanted
    /\ read' = Append(read, Head(queue))
    /\ queue' = Tail(queue)
    /\ wanted' = None
    /\ UNCHANGED <<senderVars, network, seen, backlog, caller>>

\* A message that does not match is dropped, or set aside and left in the queue.
BrokenWaitForSetsAside ==
    /\ wanted # None /\ backlog = <<>> /\ queue # <<>>
    /\ Head(queue).kind # wanted
    /\ queue' = Tail(queue)
    /\ UNCHANGED <<senderVars, network, seen, backlog, wanted, read, caller>>
BrokenCopySetsAside ==
    /\ wanted # None /\ backlog = <<>> /\ queue # <<>>
    /\ Head(queue).kind # wanted
    /\ backlog' = <<Head(queue)>>
    /\ UNCHANGED <<senderVars, network, seen, queue, wanted, read, caller>>

WaitForSetsAside ==
    /\ wanted # None /\ backlog = <<>> /\ queue # <<>>
    /\ Head(queue).kind # wanted
    /\ backlog' = <<Head(queue)>>
    /\ queue' = Tail(queue)
    /\ UNCHANGED <<senderVars, network, seen, wanted, read, caller>>

\* The missing answer of receive() is set aside like a message.
BrokenWaitForExpires ==
    /\ wanted # None
    /\ wanted' = None
    /\ backlog' = Append(backlog, None)
    /\ UNCHANGED <<senderVars, network, seen, queue, read, caller>>

\* ... until the deadline.
WaitForExpires ==
    /\ wanted # None
    /\ wanted' = None
    /\ UNCHANGED <<senderVars, network, seen, queue, backlog, read, caller>>

-----------------------------------------------------------------------------
(* The session, run(): the barrier, the rounds, the baton.                 *)

BarrierOpens ==
    /\ caller = "barrier" /\ wanted = None
    /\ caller' = "rounds"
    /\ UNCHANGED <<senderVars, network, seen, queue, backlog, wanted, read>>

BundleSent ==
    /\ caller = "rounds"
    /\ caller' = "baton"
    /\ UNCHANGED <<senderVars, network, seen, queue, backlog, wanted, read>>

\* It returns, or a deadline passes and it raises; a wait_for() ends with it.
SessionEnds ==
    /\ caller # "gone"
    /\ caller' = "gone"
    /\ wanted' = None
    /\ UNCHANGED <<senderVars, network, seen, queue, backlog, read>>

\* group_ready_timeout passes.
BarrierExpires == caller = "barrier" /\ SessionEnds

-----------------------------------------------------------------------------
Init ==
    /\ life = [s \in Senders |-> 0]
    /\ sequence = [s \in Senders |-> 0]
    /\ network = {}
    /\ seen = [s \in Team |-> {}]
    /\ queue = <<>>
    /\ backlog = <<>>
    /\ caller = "barrier"
    /\ wanted = None
    /\ read = <<>>

Receive == ReceiveSetAside \/ ReceiveQueued
WaitForSteps == WaitForReturns \/ WaitForSetsAside \/ WaitForExpires
Next ==
    \/ \E s \in Senders : Restart(s) \/ \E k \in Kinds : Send(s, k)
    \/ \E d \in network : Damage(d) \/ OnDatagram(d)
    \/ Receive
    \/ \E k \in Kinds : WaitForSetAside(k) \/ WaitFor(k)
    \/ WaitForSteps
    \/ BarrierOpens \/ BundleSent \/ SessionEnds

Spec == Init /\ [][Next]_vars

\* The rounds call receive() again and again until they end, and the barrier, which
\* never calls it, has a deadline.
FairSpec == Spec /\ WF_vars(Receive) /\ WF_vars(BarrierExpires)
-----------------------------------------------------------------------------
(* What the code guarantees.                                               *)

\* Every variable holds values of its kind.
TypeOK ==
    /\ life \in [Senders -> 0..MaxLives]
    /\ sequence \in [Senders -> 0..MaxSequence]
    /\ network \subseteq Datagram
    /\ seen \in [Team -> SUBSET (1..MaxSequence)]
    /\ queue \in Seq(Datagram)
    /\ backlog \in Seq(Datagram)
    /\ caller \in {"barrier", "rounds", "baton", "gone"}
    /\ wanted \in Kinds \cup {None}
    /\ read \in Seq(Datagram)

\* A sequence number names one message of a sender's life: nothing on the network
\* is numbered beyond the counter, and equal numbers mean equal contents.
Numbered ==
    /\ \A d \in network :
          /\ d.life <= life[d.sender]
          /\ d.life = life[d.sender] => d.sequence <= sequence[d.sender]
    /\ \A d, e \in network :
          d.sender = e.sender /\ d.life = e.life /\ d.sequence = e.sequence => d.kind = e.kind

\* Nothing accepted is lost or doubled inside the node, however receive() and
\* wait_for() are mixed: the numbers the codec has noted are those of the messages
\* read, queued or set aside, each under its own number, in one of the three
\* places and there once.
Conserved ==
    /\ \A s \in Team : seen[s] = {d.sequence : d \in {e \in Accepted : e.sender = s}}
    /\ \A d, e \in Accepted : d.sender = e.sender /\ d.sequence = e.sequence => d = e
    /\ IsInjective(read) /\ IsInjective(queue) /\ IsInjective(backlog)
    /\ ToSet(read) \cap ToSet(queue) = {}
    /\ ToSet(backlog) \cap (ToSet(read) \cup ToSet(queue)) = {}

\* Only what a member of the team sent, undamaged, is ever accepted.
Authentic == \A d \in Accepted : d \in network /\ d.sender \in Team /\ d.intact

\* wait_for() sets at most one message aside: the next one is not even looked at,
\* in this call or the following ones, before receive() takes the first.
SetsOneAside == Len(backlog) <= 1

\* An undamaged datagram is refused for two reasons only: it has been accepted
\* before, or its sender, in another life, has used its number for a message that
\* has.  A fresh number is never refused, whatever was damaged, forged or overtaken.
RefusedOnlyIfAccepted ==
    \A d \in network : Decodes(d) /\ Replayed(d) =>
        \/ d \in Accepted
        \/ \E e \in Accepted :
              e.sender = d.sender /\ e.sequence = d.sequence /\ e.life # d.life

\* The node implements a channel that delivers at most once, whatever the network
\* repeats and in whatever order the callers mix receive() and wait_for().
Channel == INSTANCE AtMostOnceChannel WITH
    Item <- {d \in Datagram : d.sender \in Team /\ d.intact},
    posted <- {d \in network : d.sender \in Team /\ d.intact}, delivered <- read
DeliversAtMostOnce == Channel!ChannelSpec

\* What has been accepted is finally read, also what a wait_for() for something
\* else took from the queue at the barrier, unless the session leaves its rounds
\* first: the baton's wait_for() calls and the end leave unread whatever is there.
AcceptedIsRead ==
    \A s \in Team, l \in 0..MaxLives, q \in 1..MaxSequence, k \in Kinds :
        LET d == [sender |-> s, life |-> l, sequence |-> q, kind |-> k, intact |-> TRUE]
        IN  d \in Accepted ~> (d \in ToSet(read) \/ caller \in {"baton", "gone"})
=============================================================================
