\* The browser application: does a ticket ever reopen older than its confirmed save?
SPECIFICATION Spec
CONSTANTS
  Users <- TwoUsers
  InitialAccess <- TwoBoards
  MaxTickets = 4
  MaxBoards = 3
  Routes <- SomeRoutes
  Scenarios <- OvertakenReload
PROPERTIES
  ReopensFresh
\* The user may stop at any time.
CHECK_DEADLOCK FALSE
