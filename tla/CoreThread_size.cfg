CONSTANTS
  Caller = {c1, c2}
  Loop = {l1, l2}
  NoCall = NoCall
SPECIFICATION MCSpec
INVARIANT SizeOfTheMemory
CHECK_DEADLOCK FALSE
