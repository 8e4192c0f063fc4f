SPECIFICATION Spec
CONSTANTS
  p0 = p0
  p1 = p1
  p2 = p2
  Peers = {p0, p1, p2}
  FirstLeader = p0
  None = None
  Bounds <- Scenarios
INVARIANTS CommittedByMajority QueuedOnce OneVotePerTerm LeadersAreElected
