SPECIFICATION Spec
CONSTANT
  Scenarios <- TwoAndThree
INVARIANTS LongestChain TipIsALeaf BranchSpendsOnce CoherentRelease ReportMatchesLedgers
