SPECIFICATION Spec
CONSTANTS
  r1 = r1
  r2 = r2
  s1 = s1
  Requests = {r1, r2}
  Servers = {s1}
  MaxOps = 3
  MaxFaults = 1
SYMMETRY Symmetry
INVARIANTS
  TypeOK
  SwitchIsWhole
  OneKeyIfApart
  OutageIsSeen
