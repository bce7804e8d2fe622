------------------------ MODULE MCEndpointDiscovery ------------------------
(* EndpointDiscovery for TLC. *)
EXTENDS EndpointDiscovery
CONSTANTS a, b, c

\* The walkers reach everybody, the next in a ring, or the neighbours in a line.
EveryPair == Member \X Member
Ring == {<<a, b>>, <<b, c>>, <<c, a>>}
Line == {<<a, b>>, <<b, a>>, <<b, c>>, <<c, b>>}
=============================================================================
