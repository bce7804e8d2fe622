---------------------------- MODULE MCPowClient ----------------------------
(* PowClient for TLC: digests of two bytes, twelve zero bits asked for. *)
EXTENDS PowClient, TLC
CONSTANTS p1, p2, ann, Ann, joe, odd, stranger, u1, u2, bad, k

Emails == {ann, Ann, joe, odd, stranger}
CanonicalEmail == (Ann :> ann) @@ [e \in Emails |-> e]

\* Just enough, one bit too few, too many, and none at all; not in the same order
\* for every preimage.
Digests ==
    [x \in Emails \X {u1, u2, bad} \X (0..2) |->
        CASE x[1] = Ann -> <<0, 15 + x[3]>>
          [] x[1] # Ann /\ x[2] = u1 -> CASE x[3] = 0 -> <<0, 16>> [] x[3] = 1 -> <<0, 15>> [] OTHER -> <<0, 0>>
          [] OTHER -> CASE x[3] = 0 -> <<1, 0>> [] x[3] = 1 -> <<128, 0>> [] OTHER -> <<0, 1>>]

Command(e, u, m, n) ==
    [key |-> k, email |-> e, asTyped |-> FALSE, url |-> u, difficulty |-> 12,
     mineOnly |-> m = "mine", submitOnly |-> m = "submit", nonce |-> n]
Commands ==
    {Command(Ann, u1, "full", None),
     Command(ann, u2, "full", 1),
     Command(joe, u1, "submit", 1),
     Command(ann, u1, "submit", 0),
     Command(ann, u1, "mine", 2),
     Command(joe, u2, "full", 3),
     Command(stranger, u1, "full", None),
     Command(ann, bad, "full", None),
     Command(odd, u1, "submit", 1),
     [Command(Ann, u2, "full", 1) EXCEPT !.asTyped = TRUE],
     [Command(ann, u1, "full", None) EXCEPT !.difficulty = 11]}

\* The count of leading zeros is right for every digest of this size.
ASSUME LeadingZerosAssumption ==
    \A x, y \in Byte, n \in 0..17 :
        LeadingZeroBits(<<x, y>>) >= n <=> BeginsWithZeros(<<x, y>>, n)

Machine(w, g, s, u, f) ==
    [skip |-> FALSE, windows |-> w, given |-> g, system |-> s, url |-> u, fits |-> f]
\* Windows without the library, for x64 and not, and with it; others with a download or
\* with LIBSODIUM_DIR.
Machines ==
    {Machine(TRUE, FALSE, FALSE, FALSE, TRUE), Machine(TRUE, FALSE, FALSE, FALSE, FALSE),
     Machine(TRUE, FALSE, TRUE, FALSE, TRUE),
     Machine(FALSE, FALSE, FALSE, TRUE, TRUE), Machine(FALSE, TRUE, FALSE, FALSE, TRUE)}
=============================================================================
