SPECIFICATION BusySpec
CONSTANTS
  NumNodes = 3
  Keys <- MCKeys
  Home <- MCHome
  Data = {d0, d1}
  Nil = Nil
  k0 = k0
  k1 = k1
  Fuel = 5
CHECK_DEADLOCK FALSE
INVARIANTS
  AnswerIsForTheKey
  ReadYourWrites
PROPERTY
  ImplementsRegister
