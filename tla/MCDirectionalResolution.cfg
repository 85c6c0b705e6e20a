SPECIFICATION Spec
CONSTANTS
  Menu <- MCMenu
  Corrections <- MCCorrections
  Queries <- MCQueries
  WilsonLower <- MCWilsonLower
  MinimumSegment = 4
  Unit = 100
  DistanceScale = 60
  NearScale = 10
INVARIANTS
  ResolutionTypeOK
  BasisPointsFaithful
  HorizonFromEvidence
  UngatedNeedsUnanimity
  PublishedIsScored
PROPERTIES
  TestTunesThroughLabels
CHECK_DEADLOCK FALSE
