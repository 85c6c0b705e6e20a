SPECIFICATION Spec
CONSTANTS
  Trajectories <- MCTrajectories
  Openings <- MCOpenings
  Moves <- MCMoves
  Barrier = 2
  Horizon = 3
  CorpusBars = 15
  MaxBars = 18
  DynamicsWarmup = 3
  MinimumFrames = 8
  MinimumTraining = 4
  Unit = 100
  DistanceScale = 6
  NearScale = 40
PROPERTIES
  AuditsNotRewritten
CHECK_DEADLOCK FALSE
