SPECIFICATION FairSpec
CONSTANTS
  DelayStyle = "UNIFORM"
  MinDelay = 0
  MaxDelay = 2
  MaxMsgsRec = 1
  Size = 2
  Drop <- Maybe
  Duplicate <- Maybe
  Reorder <- Never
  IntBits = 6
  N = 2
  Neighbors <- OneWay
  Tests = 2
  LastRound = 3
  MaxSends = 2
  MaxCrash = 1
INVARIANTS TypeOK SynchronousDelivery InOrderDelivery Conservation ThroughputBudget
PROPERTIES ChannelOwnership Termination
