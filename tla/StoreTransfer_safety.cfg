\* Two transfers after the same product, one of them with two lines, two
\* requests at once, and the till selling in between.
SPECIFICATION Spec
CONSTANTS
  t1 = t1
  t2 = t2
  p1 = p1
  p2 = p2
  Transfers = {t1, t2}
  Products = {p1, p2}
  Requests = {r1, r2}
  Ordered <- MCOrdered
  Stock <- MCStock
  LegacyRows = {p1}
  None = None
SYMMETRY Symmetry
INVARIANTS
  TypeOK
  MovementsMatchLines
  StatusFollowsLines
  StockAddsUp
PROPERTIES
  ClosedIsFinal
\* All transfers are closed and the store is sold out.
CHECK_DEADLOCK FALSE
