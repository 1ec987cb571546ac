CONSTANTS
  Runs = {"audit", "cli", "force", "regen"}
  Kind <- CliKind
  Cap <- CliCap
  Tasks = {1, 2, 3, 4, 5, 6}
  RunOf <- CliRunOf
  Request <- CliRequest
  EstimatedCost <- CliEstimate
  Costs = {0}
  MaxCost = 0
  MaxConcurrency = 1
  EvictDays = {}
  MaxNow = 0
  None = None
SPECIFICATION FairSpec
 
PROPERTY RunsEnd
CHECK_DEADLOCK FALSE
