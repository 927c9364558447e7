SPECIFICATION Spec
CONSTANTS
  c1 = c1
  c2 = c2
  ColumnNames <- ShortBoard
  MaxTickets = 5
  RepeatDays <- Weekly
  Clients <- OneClient
  Requests <- TreeRequests
  MaxClock = 3
  InitialStores <- TreeStores
INVARIANTS TypeOK EpicsClosed HistoryComplete EpisodesOrdered
PROPERTIES CompletionFollowsColumn HistoryImmutable RepeatsExactlyOnce
