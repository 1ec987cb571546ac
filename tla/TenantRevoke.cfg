CONSTANTS
  Ops = {"mint", "cliMint", "revoke"}
  Kind <- OpKind
  Target <- OpTarget
  Label <- OpLabel
  First = {"a"}
  MaxStarted = 3
  MaxCrashes = 0
  Empty = Empty
  Torn = Torn
  None = None
SPECIFICATION Spec
INVARIANT RevokedRejected
CHECK_DEADLOCK FALSE
