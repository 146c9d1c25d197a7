------------------------------ MODULE MCDnssec ------------------------------
EXTENDS Dnssec, TLC

CONSTANTS r1, r2, s1

Symmetry == Permutations(Requests)

=============================================================================
