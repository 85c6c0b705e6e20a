SPECIFICATION FairSpec
CONSTANTS
  Requests = {r1}
  Asks <- AllAsks
  Pinned = "V1"
  Versions = {"V1", "V2"}
  Probed = TRUE
  MaxReplacements = 2
  MaxCrashes = 1
INVARIANTS
  ServiceTypeOK
  FreshnessStated
  NativeDigestIdentifiesBars
  QuietAnswersCurrent
  ReadyServes
PROPERTIES
  KeepsLedger
CHECK_DEADLOCK FALSE
