---------------------------- MODULE ProofOfWork ----------------------------
(***************************************************************************)
(* The proof of work of Lab 1 (pow.py): a digest is a sequence of bytes,   *)
(* and a nonce is a solution if enough of its first bits are zero.         *)
(***************************************************************************)
EXTENDS Naturals, Sequences, FiniteSets

Byte == 0..255

\* int.bit_length() of a byte
BitLength(b) == Cardinality({k \in 0..7 : b >= 2^k})

\* A byte that is not zero ends the count at its own first bit.
BrokenLeadingZeroBits(d) ==
    LET nonzero == {i \in 1..Len(d) : d[i] # 0}
    IN  IF nonzero = {} THEN 8 * Len(d)
        ELSE 8 * (CHOOSE i \in nonzero : \A j \in nonzero : i <= j)

\* leading_zero_bits(): eight for each zero byte, then those of the first other one
LeadingZeroBits(d) ==
    LET nonzero == {i \in 1..Len(d) : d[i] # 0}
        first == CHOOSE i \in nonzero : \A j \in nonzero : i <= j
    IN  IF nonzero = {} THEN 8 * Len(d) ELSE 8 * first - BitLength(d[first])

IsValidPow(d, difficulty) == LeadingZeroBits(d) >= difficulty

\* What the server asks for (docs/Lab1.md, "The Challenge"), bit by bit.
Bit(d, k) == (d[(k \div 8) + 1] \div 2^(7 - (k % 8))) % 2
BeginsWithZeros(d, k) == k <= 8 * Len(d) /\ \A i \in 0..(k - 1) : Bit(d, i) = 0
=============================================================================
