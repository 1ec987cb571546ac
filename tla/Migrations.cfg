CONSTANTS
  Commands = {extract, audit}
  Requests = {get, post}
  Lifespan = Lifespan
  MaxKills = 2
SPECIFICATION Spec
INVARIANTS TypeOK ReadyFindsSchema RequestsApplyNothing FatalOnlyAtColumn
