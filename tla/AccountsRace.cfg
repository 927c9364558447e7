SPECIFICATION Spec
CONSTANTS
  c1 = c1
  c2 = c2
  Names <- ThreeNames
  MaxUsers = 3
  MaxBoards = 2
  MaxTokens = 3
  MaxVersion = 2
  AllowSignup = TRUE
  Clients <- TwoClients
  Requests <- RaceRequests
  InitialStores <- RaceStores
INVARIANTS SessionsCurrent AdminRemains
PROPERTY PasswordNeedsSession
SYMMETRY ClientSymmetry
