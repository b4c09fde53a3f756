\* One handler at a time, two payslips of which one has no phone number, and
\* either provider; crashes and losses once each.
SPECIFICATION FairSpec
CONSTANTS
  Payslips = {p1, p2}
  Foreign = {}
  Phoneless = {p2}
  Handlers = {h1}
  Rows = {r1, r2}
  Modes = {"daraja", "mock"}
  MaxAttempts = 2
  MaxCrashes = 1
  MaxLosses = 1
  NoOne = NoOne
PROPERTIES
  StuckRowsResolve
  PaidMoneyReachesPayslip
