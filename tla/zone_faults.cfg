SPECIFICATION Spec
CONSTANTS
  Requests = {r1}
  UserZone = {z1}
  Catalog = cat
  Key = {p, x, k1}
  Primary = p
  Extra = {x}
  Range = {any, lan}
  AnySource = {any}
  NoKey = NoKey
  NoZone = NoZone
  Ops = {"createCatalog", "createCustom", "toCustom", "toCatalog", "keyAdd", "keyDel", "updAdd", "updDel", "setIps", "setTargets", "clearTargets", "delete"}
  OnePerZone = FALSE
  FreshPages = FALSE
  Faults = TRUE
SYMMETRY Symmetry
INVARIANTS
  StampRepairs
PROPERTIES
  RestrictionKept
