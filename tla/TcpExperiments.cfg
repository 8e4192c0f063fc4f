SPECIFICATION FairSpec
CONSTANTS
  Scenarios <- Small
INVARIANTS OwnersAgree StartBarrier StopIsDue NoMessageOfAnotherExperiment
PROPERTY ExperimentsEnd
CHECK_DEADLOCK FALSE
