SPECIFICATION FairSpec
CONSTANTS
  Configs <- AllConfigs
  MaxHops = 10
  None = None
INVARIANTS TopologyAsDocumented LogarithmicHops
PROPERTY LookupsEnd
CHECK_DEADLOCK FALSE
