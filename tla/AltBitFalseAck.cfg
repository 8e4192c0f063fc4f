SPECIFICATION Spec
CONSTANTS
  DelayStyle = "ONE"
  MinDelay = 1
  MaxDelay = 1
  MaxMsgsRec = 1
  Size = 3
  Drop <- Maybe
  Duplicate <- Never
  Reorder <- Never
  IntBits = 8
  N = 2
  Neighbors <- Pair
  Tests = 1
  LastRound = 8
  TimeOutRate = 2
INVARIANT EverySatisfiedWasReceived
