--------------------------- MODULE MCVerification ---------------------------
EXTENDS Verification

CONSTANTS r1, n1

Delegated == [configured |-> {n1}, resolved |-> {n1}, error |-> FALSE]
Unanswered == [configured |-> {n1}, resolved |-> {}, error |-> TRUE]

MCDelegations == {Delegated, Unanswered}

=============================================================================
