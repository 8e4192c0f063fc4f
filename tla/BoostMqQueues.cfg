SPECIFICATION Spec
CONSTANTS
  N = 2
  Tests = 2
  MayTimeOut = FALSE
  MaxCrashes = 0
  Stale = FALSE
INVARIANT TestHasItsQueues
