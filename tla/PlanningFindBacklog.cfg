SPECIFICATION Spec
CONSTANTS
  LastDay <- MCLastDay
  Today <- MCToday
  BoardData <- MCBoardData
  Hashes <- MCHashes
  TaskFilters <- MCTaskFilters
  TableFilters <- MCTableFilters
  Plans <- MCPlans
  Scenarios <- MCScenarios
INVARIANT BacklogKeepsEpics
CHECK_DEADLOCK FALSE
