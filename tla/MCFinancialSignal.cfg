SPECIFICATION Spec
CONSTANTS
  EmaFast = 5
  EmaSlow = 6
  MacdFast = 2
  MacdSlow = 3
  MacdSignal = 3
  WilderPeriod = 2
  BandPeriod = 4
  BandWidth = 1
  MinBars = 6
  Scale = 36864
  Openings <- MCOpenings
  Moves <- MCMoves
  MaxBars = 14
  DaysPerWeek = 2
  Requests <- MCRequests
INVARIANTS
  UnbiasedReading
  NoContradictedDirection
PROPERTIES
  NoRepaint
CHECK_DEADLOCK FALSE
