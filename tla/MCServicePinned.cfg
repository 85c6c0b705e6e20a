SPECIFICATION Spec
CONSTANTS
  Requests = {r1, r2}
  Asks <- ServedAsks
  Pinned = "V1"
  Versions = {"V1", "V2"}
  Probed = FALSE
  MaxReplacements = 2
  MaxCrashes = 0
INVARIANTS
  FallbackIsPinned
CHECK_DEADLOCK FALSE
