SPECIFICATION Spec
CONSTANTS
  DelayStyle = "ONE"
  MinDelay = 1
  MaxDelay = 1
  MaxMsgsRec = 1
  Size = 2
  Drop <- Maybe
  Duplicate <- Maybe
  Reorder <- Maybe
  IntBits = 8
  N = 2
  Neighbors <- Pair
  Tests = 1
  LastRound = 14
  TimeOutRate = 1
INVARIANTS StopAndWait ResendsAreSpaced RecoversFromLoss
PROPERTIES RefinesDataLink
