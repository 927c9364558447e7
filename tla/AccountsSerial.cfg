SPECIFICATION Spec
CONSTANTS
  c1 = c1
  c2 = c2
  Names <- ThreeNames
  MaxUsers = 3
  MaxBoards = 3
  MaxTokens = 2
  MaxVersion = 2
  AllowSignup = TRUE
  Clients <- OneClient
  Requests <- SerialRequests
  InitialStores <- SerialStores
INVARIANTS TypeOK OwnerKeepsAccess AccountsStay
