---------------------------- MODULE MCZoneAdmin ----------------------------
EXTENDS ZoneAdmin, TLC

(* The threads, the user zones and the per-zone keys are interchangeable. *)
Symmetry ==
  Permutations(Requests) \cup Permutations(UserZone)
    \cup Permutations(Key \ Globals)

(* The state as a run without NoLeakedKeys tells it apart: no action reads lost. *)
WithoutLost == <<pdnsVars, owned, pc, job, regVars, bootVars, hurt>>
=============================================================================
