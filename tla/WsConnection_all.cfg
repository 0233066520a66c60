SPECIFICATION FairSpec
CONSTANTS
  g1 = g1
  g2 = g2
  Sender = {g1, g2}
  Reader = Reader
  PingPong = TRUE
  ReaderWrites = TRUE
INVARIANTS TypeOK DoneOnce
PROPERTIES NoSendAfterDone EndsWhenLost WriteEnds
CHECK_DEADLOCK FALSE
