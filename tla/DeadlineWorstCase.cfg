SPECIFICATION Spec
CONSTANTS
  Requests = {r1, r2, r3}
  Budget = 2
  MaxAttempts = 2
  NoReq = NoReq
SYMMETRY Symmetry
INVARIANTS TypeOK WaitsTwoBudgets WorstCase
CHECK_DEADLOCK FALSE
