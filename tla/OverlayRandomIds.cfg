SPECIFICATION Spec
CONSTANTS
  Configs <- RandomIds
  MaxHops = 0
  None = None
INVARIANT ShuffledTopology
CHECK_DEADLOCK FALSE
