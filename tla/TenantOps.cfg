CONSTANTS
  Ops = {"mint", "cliMint", "revoke", "add", "extract", "remove"}
  Kind <- OpKind
  Target <- OpTarget
  Label <- OpLabel
  First = {"a"}
  MaxStarted = 3
  MaxCrashes = 1
  Empty = Empty
  Torn = Torn
  None = None
SPECIFICATION Spec
INVARIANT TypeOK
INVARIANT AloneRewritesWhole
INVARIANT AloneKeysKept
INVARIANT AloneRevokedRejected
INVARIANT RowsFindable
CHECK_DEADLOCK FALSE
