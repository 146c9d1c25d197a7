---------------------------- MODULE ZoneRecords ----------------------------
(***************************************************************************)
(* What a user may expect of record editing: an edit changes its record    *)
(* set at one instant, whatever others do to the zone; a rename is two     *)
(* such changes, first at the old name and then at the new one; and an     *)
(* edit that has not been carried out may be given up.  Nobody's records   *)
(* change otherwise.                                                       *)
(***************************************************************************)
EXTENDS RecordEdits

CONSTANTS Requests, Nothing

VARIABLES
  published,  \* the zone
  want        \* want[r]: the edit r is asked for, or what is left of it

Init ==
  /\ published \in [Rrset -> RecordSet]
  /\ want = [r \in Requests |-> Nothing]

Ask(r) ==
  /\ want[r] = Nothing
  /\ want'[r] \in AnyEdit
  /\ want' = [want EXCEPT ![r] = want'[r]]
  /\ UNCHANGED published

Do(r) ==
  LET e == want[r] IN
  /\ e # Nothing
  /\ published' = [published EXCEPT ![e.at] = After(e, @)]
  /\ want' = [want EXCEPT ![r] = IF e.op = "rename" THEN SecondHalf(e) ELSE Nothing]

GiveUp(r) ==
  /\ want' = [want EXCEPT ![r] = Nothing]
  /\ UNCHANGED published

Next == \E r \in Requests : Ask(r) \/ Do(r) \/ GiveUp(r)

Spec == Init /\ [][Next]_<<published, want>>
=============================================================================
