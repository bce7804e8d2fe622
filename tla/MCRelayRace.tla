---------------------------- MODULE MCRelayRace ----------------------------
(* RelayRace for TLC: nonces are interchangeable. *)
EXTENDS RelayRace, TLC
NonceSymmetry == Permutations(Nonces)
=============================================================================
