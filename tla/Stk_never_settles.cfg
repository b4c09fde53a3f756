\* One push, no fault of any kind, and no cashier beside the checkout.
SPECIFICATION Spec
CONSTANTS
  Pump = pump
  Cashiers = {}
  MaxRows = 1
  MaxPushes = 1
  Mismatched = {}
  MaxInHand = 1
  MaxFaults = 0
PROPERTIES
  PaidSaleSettles

\* One sale: its story may end.
CHECK_DEADLOCK FALSE
