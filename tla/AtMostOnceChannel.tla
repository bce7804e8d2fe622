------------------------- MODULE AtMostOnceChannel -------------------------
(***************************************************************************)
(* What a user of SignedUdpNode may rely on: every item posted is new, and *)
(* an item is delivered at most once, in any order or never.               *)
(***************************************************************************)
EXTENDS Naturals, Sequences
CONSTANT Item
VARIABLES posted,     \* what the team has sent
          delivered   \* what receive() and wait_for() have returned, in turn

channelVars == <<posted, delivered>>

ChannelInit == posted = {} /\ delivered = <<>>

Post == \E x \in Item \ posted : posted' = posted \cup {x} /\ UNCHANGED delivered
Deliver ==
    /\ \E x \in posted :
          /\ \A i \in 1..Len(delivered) : delivered[i] # x
          /\ delivered' = Append(delivered, x)
    /\ UNCHANGED posted

ChannelNext == Post \/ Deliver
ChannelSpec == ChannelInit /\ [][ChannelNext]_channelVars
=============================================================================
