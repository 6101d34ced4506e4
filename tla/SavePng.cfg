SPECIFICATION Spec
CONSTANTS
  Requests = {r1, r2}
  Pictures <- OneDir
  StateDir = "state"
  Stamps = {0, 1}
  MaxAttempts = 2
  None = "none"
INVARIANTS TypeOK OwnImage NoNameMeansNone
PROPERTY KeepsFiles
CHECK_DEADLOCK FALSE
