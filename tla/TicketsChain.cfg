SPECIFICATION Spec
CONSTANTS
  c1 = c1
  c2 = c2
  ColumnNames <- CustomBoard
  MaxTickets = 4
  RepeatDays <- Weekly
  Clients <- OneClient
  Requests <- ChainRequests
  MaxClock = 2
  InitialStores <- ChainStores
INVARIANTS LinksAcyclic
PROPERTIES GateRespected OlderClientsKeepExtras
