SPECIFICATION Spec
CONSTANTS
  N = 2
  Zones = {z1, z2}
  Runs = {r1, r2}
  MaxEvents = 2
INVARIANTS
  TypeOK
  InSyncAtRest
PROPERTIES
  FollowsCatalogs
  Converges
