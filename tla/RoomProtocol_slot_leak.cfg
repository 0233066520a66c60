CONSTANTS
  User = {u1, u2}
  Room = {r1, r2}
  NoRoom = NoRoom
SPECIFICATION Spec
CHECK_DEADLOCK FALSE
INVARIANT NoPlayersNoSlot
SYMMETRY Symmetry
