SPECIFICATION Spec
CONSTANTS
  Users = {a, b}
  Zones = {z}
  First = a
  Requests = {r1, r2}
  MaxRequests = 3
SYMMETRY Symmetric
INVARIANTS
  TypeOK
  NeverEmpty
  OneOwnerIfApart
  TemporaryIsForcedIfApart
PROPERTIES
  OwnerKeptIfApart
  NewPasswordStaysIfApart
CHECK_DEADLOCK FALSE
