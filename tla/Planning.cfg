\* The planning workspace: the computations of the views over four boards, every column order of a board
\* with four columns, and the choices of the user with loads, other clients and saves of the Sprint plan.
SPECIFICATION Spec
CONSTANTS
  LastDay <- MCLastDay
  Today <- MCToday
  BoardData <- MCBoardData
  Hashes <- MCHashes
  TaskFilters <- MCTaskFilters
  TableFilters <- MCTableFilters
  Plans <- MCPlans
  Scenarios <- MCScenarios
INVARIANTS
  TypeOK
  AddressNamesThePage
  ChainIsComplete
  NoWorkIsLost
  RowsShowEachOnce
  ChainReadsInOrder
  BrowserMatchesServer
  ChartIsSound
  FieldsShowThePlan
PROPERTIES
  SelectionStaysInSight
  DraftIsKept
  CadenceSaveEnds
\* The user may stop at any time.
CHECK_DEADLOCK FALSE
