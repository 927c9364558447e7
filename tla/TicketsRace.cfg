SPECIFICATION Spec
CONSTANTS
  c1 = c1
  c2 = c2
  ColumnNames <- GatedBoard
  MaxTickets = 8
  RepeatDays <- Weekly
  Clients <- TwoClients
  Requests <- RaceRequests
  MaxClock = 7
  InitialStores <- RaceStores
PROPERTY RepeatsExactlyOnce
SYMMETRY ClientSymmetry
