SPECIFICATION LifeSpec
CONSTANTS
  NumNodes = 2
  Keys <- MCKeys
  Home <- MCHome
  Data = {d0}
  Nil = Nil
  k0 = k0
  k1 = k1
  Fuel = 5
CHECK_DEADLOCK FALSE
INVARIANTS
  TypeOK
  OneAnswerInFlight
PROPERTIES
  NoAnswerLost
  GetReturns
  ShutdownCompletes
