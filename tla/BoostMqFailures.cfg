SPECIFICATION FairSpec
CONSTANTS
  N = 2
  Tests = 3
  MayTimeOut = TRUE
  MaxCrashes = 2
  Stale = TRUE
INVARIANTS StartBarrier NoMessageOfAnotherTest SuccessIsComplete ExitStatus CleanShutdown
PROPERTY ExperimentEnds
