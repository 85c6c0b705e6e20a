SPECIFICATION Spec
CONSTANTS
  MinimumBars = 10
  MinimumFrames = 8
  MinimumSegment = 2
  FrameWarmup = 2
  Boundary = 8
  FastPassages = {1}
  MaxBars = 10
  MaxFlatBars = 3
INVARIANTS
  SplitHasNoLookahead
CHECK_DEADLOCK FALSE
