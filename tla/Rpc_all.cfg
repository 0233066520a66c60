SPECIFICATION FairSpec
CONSTANTS
  c1 = c1
  c2 = c2
  Call = {c1, c2}
  NilUid = NilUid
  MaxEvents = 1
INVARIANTS TypeOK OkMeansAnswered LateAnswerIsNoRequest CleanupOwnsItsTasks
PROPERTY EveryCallReturns
CHECK_DEADLOCK FALSE
