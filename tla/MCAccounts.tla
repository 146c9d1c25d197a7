----------------------------- MODULE MCAccounts -----------------------------
(* Small instances of Accounts for TLC. *)
EXTENDS Accounts, TLC

Symmetric == Permutations(Requests) \cup Permutations(Users \ {First})

=============================================================================
