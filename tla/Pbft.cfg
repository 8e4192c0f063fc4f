SPECIFICATION Spec
CONSTANTS
  Scenarios <- FourAndFive
  None = None
INVARIANTS PreparedOnce Agreement StableIsShared OnlySubmitted
