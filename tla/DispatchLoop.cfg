SPECIFICATION FairSpec
CONSTANTS
  Threads = {t1, t2}
  Events = 2
  MaxFaults = 3
  None = None
INVARIANTS TypeOK SleepsOnEmptyQueue ReadableUntilRead
PROPERTY Returns
CHECK_DEADLOCK FALSE
