---------------------------- MODULE MCPrepPhase ----------------------------
(* PrepPhase for TLC. *)
EXTENDS PrepPhase
CONSTANTS a, b, c

\* The walkers reach everybody, and every member may begin with either program.
EveryPair == Member \X Member
EveryPlan == [Member -> {"discovering", "announcing", "racing"}]
=============================================================================
