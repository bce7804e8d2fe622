-------------------------- MODULE MCSignedUdpNode --------------------------
(* SignedUdpNode for TLC: one sender whose messages are of two kinds, so   *)
(* that one can be waited for and the other set aside.                     *)
EXTENDS SignedUdpNode
CONSTANTS p, k1, k2

OneSender == {p}
TwoKinds == {k1, k2}
=============================================================================
