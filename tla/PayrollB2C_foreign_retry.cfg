\* One payslip of this run, one of a run that is not posted, one handler.
SPECIFICATION Spec
CONSTANTS
  Payslips = {p1}
  Foreign = {q1}
  Phoneless = {}
  Handlers = {h1}
  Rows = {r1, r2}
  Modes = {"daraja"}
  MaxAttempts = 2
  MaxCrashes = 0
  MaxLosses = 0
  NoOne = NoOne
INVARIANTS
  OnlyOwnPayslipsSent
