SPECIFICATION Spec
CONSTANTS
  a = a
  b = b
  c = c
  Zones = {a, b, c}
  Quiet = 4
  Jitter <- MCJitter
  CapDivisor = 2
  NoRow = NoRow
  NoZone = NoZone
  MaxTime = 9
  MaxChanges = 3
  MaxFailures = 1
INVARIANTS
  TypeOK
  BumpsOnlyQuiet
  Fresh
  PeakCeilingIfNoFailure
CHECK_DEADLOCK FALSE
