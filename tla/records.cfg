SPECIFICATION Spec
CONSTANTS
  Address = {x1, x2}
  Text = {t}
  Soa = {soa}
  Content = {a, b}
  Ttl = {zero, short}
  ZeroTtl = zero
  DeleteTtl = short
  Requests = {r1, r2}
  Nothing = Nothing
  OnePerRrset = TRUE
  Faults = TRUE
  MaxEdits = 3
SYMMETRY Symmetry
INVARIANTS
  TypeOK
  
PROPERTIES
  EditsAreAtomic
  NoOpIsToldIfNoFailure
CHECK_DEADLOCK FALSE
