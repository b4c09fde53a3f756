\* One legacy row and one sale, two replays at once, one failure.
SPECIFICATION Spec
CONSTANTS
  Till = till
  Syncs = {y1, y2}
  NoOne = NoOne
  MaxSales = 2
  LegacySales = 1
  Posts = {i1, i2}
  MaxKeys = 2
  Stock = 3
  MaxTrouble = 1
SYMMETRY Symmetry
INVARIANTS
  TypeOK
  StockMatchesSales
  DoubleSaleOnlyThroughHoles
  EffectsOncePerRecord
PROPERTIES
  QueueKeepsItsWord
\* All sales are rung up and the queue is empty: the till may rest.
CHECK_DEADLOCK FALSE
