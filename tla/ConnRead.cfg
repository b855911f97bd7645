SPECIFICATION ReadFairSpec
CONSTANTS
  Frame = {f1, f2}
  MaxSets = 3
CHECK_DEADLOCK FALSE
INVARIANTS StreamInOrder DeadlineExact
PROPERTIES CloseAfterDrain BlockedReadReturns
