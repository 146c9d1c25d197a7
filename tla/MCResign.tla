------------------------------ MODULE MCResign ------------------------------
EXTENDS Resign

CONSTANTS a, b, c

(* One zone of the cohort comes due a tick after the others. *)
MCJitter == [z \in Zones |-> IF z = c THEN 1 ELSE 0]
=============================================================================
