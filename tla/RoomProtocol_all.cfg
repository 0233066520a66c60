CONSTANTS
  User = {u1, u2}
  Room = {r1, r2}
  NoRoom = NoRoom
SPECIFICATION FairSpec
CHECK_DEADLOCK FALSE
INVARIANTS TypeOK FreeWorkerIsIdle PlayerIsInRoom RoomHasUsers RoomIdFollowsRoom
PROPERTIES ImplementsLease IsAnEntryOfTheHub StartReturns RoomEndsAfterAllLeft
