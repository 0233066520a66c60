CONSTANTS
  Caller = {c1, c2}
  Loop = {l1, l2}
  NoCall = NoCall
SPECIFICATION MCSpec
INVARIANTS TypeOK RunsOnce OneThread
PROPERTY CallReturns
CHECK_DEADLOCK FALSE
