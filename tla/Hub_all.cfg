SPECIFICATION Spec
CONSTANTS
  w1 = w1
  w2 = w2
  near = near
  far = far
  one = one
  other = other
  Worker <- MCWorker
  NoWorker = NoWorker
  Room = {r1}
  NoRoom = NoRoom
  Zone = {near, far}
  AnyZone = AnyZone
  ZoneOf <- MCZoneOf
  PingServer <- MCMachine
  Machine <- MCMachine
  MaxPing = 2
INVARIANTS TypeOK LinkIsHonoured SavedGameIsFound FreeWorkerIsFound FastestIsFresh
CHECK_DEADLOCK FALSE
