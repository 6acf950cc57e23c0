----------------------------- MODULE MCRunLease -----------------------------
EXTENDS RunLease, TLC

CONSTANTS w1, w2, n1, n2

\* Two workers on different hosts, and two that share an identity (a pid that
\* comes back, or a host name so long that the pid is cut off).
Together == [w \in Worker |-> n1]

Symmetry == Permutations(Token) \cup Permutations(Worker)
=============================================================================
