SPECIFICATION FairSpec
CONSTANTS
  Call = {c1, c2}
  Shutdown = shutdown
  c1 = c1
  c2 = c2
  Requests <- MixedRequests
  MaxFlights = 1
  MaxGen = 2
  MaxDay = 1
  MaxFaults = 1
PROPERTY CallsAnswered
PROPERTY RunningJobSettles
