SPECIFICATION Spec
CONSTANTS
  g1 = g1
  g2 = g2
  Game = {g1, g2}
  NoGame = NoGame
INVARIANT ExclusiveUse
CHECK_DEADLOCK FALSE
SYMMETRY Symmetry
