SPECIFICATION Spec
CONSTANTS
  None = None
  Files <- MCFiles
  Paths <- MCPaths
  Launches <- MCLaunches
  Sprays <- MCSprays
  WrongAgentSamples = 2
  MaxRepositions = 0
  MaxPresses = 1
INVARIANT PlacedForLaterSteps
CHECK_DEADLOCK FALSE
