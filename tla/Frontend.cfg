\* The browser application: sixteen kinds of concurrent use, all interleavings of the answers.
SPECIFICATION Spec
CONSTANTS
  Users <- TwoUsers
  InitialAccess <- TwoBoards
  MaxTickets = 4
  MaxBoards = 3
  Routes <- SomeRoutes
  Scenarios <- FrontendScenarios
INVARIANTS
  TypeOK
  ScreenMatchesSession
  EditorOwnsItsMutation
  OneWriterPerTicket
  NoBacklogAbove
  QuietPageIsFresh
PROPERTIES
  DraftsAreKept
  RequestsSettle
\* The user may stop at any time.
CHECK_DEADLOCK FALSE
