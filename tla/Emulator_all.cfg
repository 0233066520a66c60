SPECIFICATION FairSpec
CONSTANTS
  g1 = g1
  g2 = g2
  Game = {g1, g2}
  NoGame = NoGame
INVARIANTS TypeOK OneCallAtATime QuitKeepsTheGame
PROPERTIES HandlerReturns UnhurriedEnds
CHECK_DEADLOCK FALSE
