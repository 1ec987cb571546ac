CONSTANTS
  Jobs = {"boot", "train", "promote", "force", "request"}
  Kind <- StackKind
  Boot = "boot"
  Alerts <- StackAlerts
  WindowRows = {99, 100}
  MaxVersion = 3
  MaxCrashes = 1
  None = None
SPECIFICATION Spec
INVARIANT RowsByTheirVersion
CHECK_DEADLOCK FALSE
