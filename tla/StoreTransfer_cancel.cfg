\* One transfer, one request at a time.
SPECIFICATION Spec
CONSTANTS
  t1 = t1
  t2 = t2
  p1 = p1
  p2 = p2
  Transfers = {t1}
  Products = {p1, p2}
  Requests = {r1}
  Ordered <- MCOrdered
  Stock <- MCStock
  LegacyRows = {p1}
  None = None
PROPERTIES
  CancelRestoresStock
CHECK_DEADLOCK FALSE
