SPECIFICATION Spec
CONSTANTS
  Requests = {r1, r2}
  UserZone = {z1, z2}
  Catalog = cat
  Key = {p, x, k1}
  Primary = p
  Extra = {x}
  Range = {any}
  AnySource = {any}
  NoKey = NoKey
  NoZone = NoZone
  Ops = {"createCustom", "toCatalog", "keyAdd", "keyDel", "updAdd", "updDel", "delete"}
  OnePerZone = TRUE
  FreshPages = TRUE
  Faults = TRUE
VIEW WithoutLost
SYMMETRY Symmetry
INVARIANTS
  ReferencedKeysExist
  OneTrustDomain
  GateUnlessHurt
  ZonesOwned
PROPERTIES
  DeletedUnreferenced
