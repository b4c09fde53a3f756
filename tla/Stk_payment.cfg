\* One cashier beside the pump, three rows, two pushes, one of which reports
\* another amount; a crash and a loss.
SPECIFICATION FairSpec
CONSTANTS
  Pump = pump
  Cashiers = {c1}
  MaxRows = 3
  MaxPushes = 2
  Mismatched = {2}
  MaxInHand = 1
  MaxFaults = 1
INVARIANTS
  TypeOK
  PaidPushIsOnRecord
PROPERTIES
  SweepIsSafe
  UnsentRowCloses

\* One sale: its story may end.
CHECK_DEADLOCK FALSE
