\* Two requests over two types, two calls at once.
SPECIFICATION Spec
CONSTANTS
  annual = annual
  sick = sick
  Leaves = {l1, l2}
  Types = {annual, sick}
  Calls = {c1, c2}
  Listed <- MCListed
  Days = {1, 2}
  Entitled <- MCEntitled
  Standard = 1
  Steps <- MCSteps
  Grants <- MCGrants
  Most = 2
  MaxCalls = 4
  None = None
SYMMETRY Symmetry
INVARIANTS
  TypeOK
  BalancesFollowRequests
  NeverOverCommitted
PROPERTIES
  DecisionsStand
\* All requests are decided and nothing is left to adjust.
CHECK_DEADLOCK FALSE
