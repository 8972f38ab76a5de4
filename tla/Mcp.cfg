SPECIFICATION Spec
CONSTANTS
  a = a
  a_b = a_b
  t = t
  b_t = b_t
  n1 = n1
  n2 = n2
  None = None
  Servers = {a, a_b}
  Tools = {t, b_t}
  Names = {n1, n2}
  Order <- MCOrder
  Offers <- MCOffers
  ExposedName <- MCExposedName
  ServerIds = {3, 9}
  MaxId = 4
  MaxInbox = 1
CHECK_DEADLOCK FALSE
INVARIANTS OwnAnswer
PROPERTIES RequestEnds
