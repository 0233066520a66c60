CONSTANTS
  Button <- MCButton
  Key <- MCKey
  NoKey = NoKey
  Delta <- MCDelta
  Half = 4
  MaxMotion = 5
SPECIFICATION MCSpec
INVARIANTS TypeOK MotionIsKept 
PROPERTY CacheSettles
CHECK_DEADLOCK FALSE
