----------------------------- MODULE MCRecords -----------------------------
EXTENDS Records, TLC

(* The threads, the contents and the record sets of one class are alike. *)
Symmetry ==
  Permutations(Requests) \cup Permutations(Content) \cup Permutations(Address)
=============================================================================
