SPECIFICATION MCSpec
CONSTANTS
  GeometryWindow = 3
  MinimumGeometryPoints = 2
  OperatorWindow = 3
  MinimumOperatorTransitions = 2
  VariationReferenceWindow = 3
  TauWindows = 3
  HysteresisGraceWindows = 2
  CoherenceThreshold = 1
  CoherenceMax = 2
  CapacityMax = 2
  MaxIndex = 9
INVARIANTS
  TypeOK
  DeficitExposureBounded
  NoPrematureCrystallization
  CrystallizedExactly
  DisruptionDiagnosed
  CrystallizationExpires
PROPERTIES
  AlertAccounting
  KeepsTransportPromise
CHECK_DEADLOCK FALSE
