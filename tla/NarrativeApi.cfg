CONSTANTS
  Runs = {"audit", "get"}
  Kind <- ApiKind
  Cap <- ApiCap
  Tasks = {1, 2, 3, 4}
  RunOf <- ApiRunOf
  Request <- ApiRequest
  EstimatedCost <- ApiEstimate
  Costs = {0, 2}
  MaxCost = 2
  MaxConcurrency = 2
  EvictDays = {0}
  MaxNow = 1
  None = None
SPECIFICATION Spec
INVARIANT TypeOK
INVARIANT OvershootBounded
INVARIANT BatchAccounted
INVARIANT MetadataOfBody
INVARIANT SpentWasBilled
PROPERTY NoCallForStoredContent
PROPERTY EvictionSparesUsed
PROPERTY ServiceSpec
CHECK_DEADLOCK FALSE
