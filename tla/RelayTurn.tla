----------------------------- MODULE RelayTurn -----------------------------
(***************************************************************************)
(* What the relay promises, whatever the network does: the rounds take     *)
(* turns.  The submitter of the current round obtains the challenge, every *)
(* member signs it, only then is the round submitted, and only an accepted *)
(* submission passes the turn on.                                          *)
(***************************************************************************)
EXTENDS Naturals

CONSTANTS Member,     \* the team
          Submitter   \* Submitter[r]: the member who submits round r

VARIABLES turn,     \* the round being raced, 4 when all are over
          stage,    \* of the current round
          signers   \* who has signed the current round's nonce

turnVars == <<turn, stage, signers>>

TurnInit == turn = 1 /\ stage = "idle" /\ signers = {}

\* The submitter signs the nonce it is given.
Begin ==
    /\ turn <= 3 /\ stage = "idle"
    /\ stage' = "collecting"
    /\ signers' = {Submitter[turn]}
    /\ UNCHANGED turn

Endorse ==
    /\ stage = "collecting"
    /\ \E n \in Member \ signers : signers' = signers \cup {n}
    /\ UNCHANGED <<turn, stage>>

Submit ==
    /\ stage = "collecting" /\ signers = Member
    /\ stage' = "submitted"
    /\ UNCHANGED <<turn, signers>>

Accept ==
    /\ stage = "submitted"
    /\ turn' = turn + 1
    /\ stage' = "idle"
    /\ signers' = {}

TurnNext == Begin \/ Endorse \/ Submit \/ Accept
TurnSpec == TurnInit /\ [][TurnNext]_turnVars
=============================================================================
