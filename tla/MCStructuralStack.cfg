SPECIFICATION StackSpec
CONSTANTS
  GeometryWindow = 2
  MinimumGeometryPoints = 2
  OperatorWindow = 2
  MinimumOperatorTransitions = 1
  VariationReferenceWindow = 1
  TauWindows = 1
  HysteresisGraceWindows = 1
  CoherenceThreshold = 1
  CoherenceMax = 1
  CapacityMax = 0
  OdceWindow = 3
  OdceMinimumSupport = 2
  KMemScale = 2
  DecayParts = 2
  MaxIndex = 6
INVARIANTS
  StackTypeOK
  KMemFollowsTransport
  OrganizationWarmup
PROPERTIES
  KMemStrictlyPrior
CHECK_DEADLOCK FALSE
