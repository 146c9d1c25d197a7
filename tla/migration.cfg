SPECIFICATION FairSpec
CONSTANTS
  u1 = u1
  u2 = u2
  Users = {u1, u2}
  Nobody = Nobody
  N = 5
  Legacy <- MCLegacy
  Names <- MCNames
  Canonical <- MCCanonical
  Rows <- MCRows
  NoZone = NoZone
  Own = Own
  MaxFaults = 2
INVARIANTS
  TypeOK
  RunIsComplete
  HistoryOnce
PROPERTIES
  EventuallyMigrated
