SPECIFICATION Spec
CONSTANTS
  c1 = c1
  c2 = c2
  ColumnNames <- ShortBoard
  MaxTickets = 4
  RepeatDays <- Weekly
  Clients <- OneClient
  Requests <- ParentRequests
  MaxClock = 1
  InitialStores <- ParentStores
INVARIANTS ParentsAcyclic NothingDangles
PROPERTIES MoveKeepsOrder
