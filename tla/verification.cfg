SPECIFICATION FairSpec
CONSTANTS
  r1 = r1
  n1 = n1
  Timer = Timer
  NoRow = NoRow
  Untouched = Untouched
  N = 2
  Requests = {r1}
  Names = {n1}
  Delegations <- MCDelegations
  MaxFaults = 1
INVARIANTS
  TypeOK
  CirclesNeedDisorder
PROPERTIES
  StatusesSettle
