SPECIFICATION FairSpec
CONSTANTS
  None = None
  Files <- MCFiles
  Paths <- MCPaths
  Launches <- MCLaunches
  Sprays <- MCSprays
  WrongAgentSamples = 2
  MaxRepositions = 1
  MaxPresses = 1
INVARIANTS IInv LogIsARun ExtinguishedForReal PassedMeansSafe LoadedIsPlayable ServerAgrees RepositionIsNeutral
PROPERTIES IsAnAttempt AnswersTheStepDrawn EveryDrillIsStored
CHECK_DEADLOCK FALSE
