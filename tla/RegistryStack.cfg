CONSTANTS
  Jobs = {"boot", "train", "promote", "request"}
  Kind <- StackKindOf
  Boot = "boot"
  Alerts <- StackAlerts
  WindowRows = {99, 100}
  MaxVersion = 3
  MaxCrashes = 1
  None = None
SPECIFICATION FairSpec
INVARIANT TypeOK
INVARIANT ChampionWasChallenger
INVARIANT GatedNeverOlder
INVARIANT CheckedRequestScores
INVARIANT SentinelMeansScored
PROPERTY ChallengerNeverOlder
 
CHECK_DEADLOCK FALSE
