\* A debt of three over two installments, two requests at once, payments past
\* the plan at any time.
SPECIFICATION Spec
CONSTANTS
  i1 = i1
  i2 = i2
  Installments = {i1, i2}
  Requests = {r1, r2}
  Due <- MCDue
  Total = 3
  Owed = 3
  None = None
SYMMETRY Symmetry
INVARIANTS
  TypeOK
  LedgerAddsUp
  InstallmentsHold
  PlanRowMatches
PROPERTIES
  DecisionsStand
\* The plan is deleted and the debt is paid.
CHECK_DEADLOCK FALSE
