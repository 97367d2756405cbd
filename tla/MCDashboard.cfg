SPECIFICATION FairDashboardSpec
CONSTANTS
  None = None
  Calls = {timer, button}
  PageSize = 1
  MaxRows = 2
  MaxMeshes = 1
  MaxLives = 2
  MaxFailures = 1
INVARIANTS
  DashboardInv
PROPERTIES
  LoneRefreshIsCoherent
  ShowsServerInTheEnd
