SPECIFICATION Spec
CONSTANTS
  c1 = c1
  c2 = c2
  Names <- ThreeNames
  MaxUsers = 3
  MaxBoards = 2
  MaxTokens = 2
  MaxVersion = 1
  AllowSignup = TRUE
  Clients <- TwoClients
  Requests <- DuelRequests
  InitialStores <- DuelStores
INVARIANT AdminRemains
SYMMETRY ClientSymmetry
