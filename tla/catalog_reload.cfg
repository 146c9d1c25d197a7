SPECIFICATION Spec
CONSTANTS
  N = 1
  Zones = {z1, z2}
  Runs = {r1}
  MaxEvents = 2
PROPERTIES
  ExitZeroIsInSync
