----------------------------- MODULE Rendezvous -----------------------------
(***************************************************************************)
(* What learning the team's endpoints promises, with neither packets nor   *)
(* peers nor tasks.  A member tells others where it is in its present      *)
(* life; what a member knows of another is what that one has once told it; *)
(* it relies on what it knows when it knows everybody, and a new life      *)
(* starts from nothing.                                                    *)
(***************************************************************************)
EXTENDS Naturals

CONSTANT Member

VARIABLES
    generation, \* the present life of each member
    told,       \* <<m, n, e>>: m has told n that it is at e
    known,      \* where each member knows each other to be, 0 if it does not
    relied      \* where each member sends to, 0 if it does not send yet

rendezvousVars == <<generation, told, known, relied>>

Nobody == [m \in Member |-> 0]
Given(n) == [m \in Member |-> IF m = n THEN 0 ELSE 1]

\* A member begins with nothing, or with what its user has been told by the others.
RendezvousInit ==
    /\ generation = [n \in Member |-> 1]
    /\ told = {}
    /\ known = [n \in Member |-> Nobody]
    /\ \E users \in SUBSET Member :
          relied = [n \in Member |-> IF n \in users THEN Given(n) ELSE Nobody]

Tell(n) ==
    /\ \E ms \in SUBSET Member : told' = told \cup {<<n, m, generation[n]>> : m \in ms}
    /\ UNCHANGED <<generation, known, relied>>
Learn(n, m) ==
    /\ \E e \in 1..generation[m] :
          <<m, n, e>> \in told /\ known' = [known EXCEPT ![n][m] = e]
    /\ UNCHANGED <<generation, told, relied>>
Rely(n) ==
    /\ \A m \in Member \ {n} : known[n][m] # 0
    /\ relied' = [relied EXCEPT ![n] = known[n]]
    /\ UNCHANGED <<generation, told, known>>
Renew(n) ==
    /\ generation' = [generation EXCEPT ![n] = @ + 1]
    /\ known' = [known EXCEPT ![n] = Nobody]
    /\ relied' = [relied EXCEPT ![n] = Nobody]
    /\ UNCHANGED told

RendezvousNext ==
    \E n \in Member : Tell(n) \/ Rely(n) \/ Renew(n) \/ \E m \in Member : Learn(n, m)
RendezvousSpec == RendezvousInit /\ [][RendezvousNext]_rendezvousVars
=============================================================================
