\* One payslip, two handlers, two rows: a first attempt and its retry.
SPECIFICATION Spec
CONSTANTS
  Payslips = {p1}
  Foreign = {}
  Phoneless = {}
  Handlers = {h1, h2}
  Rows = {r1, r2}
  Modes = {"daraja"}
  MaxAttempts = 2
  MaxCrashes = 1
  MaxLosses = 1
  NoOne = NoOne
SYMMETRY Symmetry
INVARIANTS
  TypeOK
  DoublePayOnlyThroughHoles
  RecordsAreTrue
  SettledOnceUnlessCrashed
