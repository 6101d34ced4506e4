SPECIFICATION Spec
CONSTANTS
  Requests = {r1}
  Budget = 2
  MaxAttempts = 2
  NoReq = NoReq
SYMMETRY Symmetry
INVARIANT BudgetCoversCapture
CHECK_DEADLOCK FALSE
