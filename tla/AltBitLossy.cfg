SPECIFICATION Spec
CONSTANTS
  DelayStyle = "UNIFORM"
  MinDelay = 1
  MaxDelay = 2
  MaxMsgsRec = 1
  Size = 2
  Drop <- Maybe
  Duplicate <- Maybe
  Reorder <- Never
  IntBits = 8
  N = 2
  Neighbors <- Pair
  Tests = 1
  LastRound = 7
  TimeOutRate = 1
INVARIANT SatisfiedWasReceived
PROPERTY ReceiverNeverGoesBack
