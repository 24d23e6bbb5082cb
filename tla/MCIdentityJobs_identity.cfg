SPECIFICATION Spec
CONSTANTS
  Call = {c1, c2}
  Shutdown = shutdown
  c1 = c1
  c2 = c2
  Requests <- StartIfStale
  MaxFlights = 2
  MaxGen = 1
  MaxDay = 2
  MaxFaults = 1
INVARIANT PendingFits
INVARIANT RecoverySparesFlights
PROPERTY ImplementsSharing
