SPECIFICATION Spec
CONSTANTS
  Feeds <- MCFeeds
  Days = 17
  WeekDays = 3
  Sessions = 2
  Holes <- MCHoles
  KlineLimit = 14
  History = 13
  SessionLimit = 9
  Contracts <- MCContracts
  MinimumMaturity = 2
  PerFive = 2
  PerHour = 2
  PerFour = 2
  ToleratedGap = 3
  TemporalGap = 2
INVARIANTS
  MarketTypeOK
  OpenBarOnlyAtMidnight
  FreshestServed
  NoAnomalyNoHole
  JoinLagBounded
  HourFromEitherPath
PROPERTIES
  ClosedWeeksFinal
  JoinIsCausal
  AlignmentExtends
CHECK_DEADLOCK FALSE
