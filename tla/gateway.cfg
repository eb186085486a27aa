CONSTANTS
  Calls = {c1, c2}
  Users = {u}
  Keys = {k1, k2}
  Projects = {P, Q}
  None = None
  First = P
  FirstKey = k1
  Starts <- MCStarts
  Limit <- MCLimit
  Enforced = TRUE
  MaxEvents = 1
SPECIFICATION Spec
INVARIANTS
  ActsWithinAuthority
  BudgetIsPerCredential
CHECK_DEADLOCK FALSE
SYMMETRY MCCalls
