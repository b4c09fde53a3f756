\* Two owners, two requests at a time.
SPECIFICATION RunSpec
CONSTANTS
  Users = {u1, u2}
  Requests = {q1, q2}
  NoUser = NoUser
  MaxRuns = 2
  MaxCorrections = 1
  MaxPrepares = 2
  MaxTrouble = 2
SYMMETRY Symmetry
INVARIANTS
  RunTypeOK
  WhatIsPaidIsBooked
  BookedOnce
  UndoneBooksOnlyThroughHoles
  TwinsNeedARace
CHECK_DEADLOCK FALSE
