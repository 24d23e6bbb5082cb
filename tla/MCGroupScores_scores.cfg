SPECIFICATION Spec
CONSTANTS
  p1 = p1
  p2 = p2
  Player = {p1, p2}
  Call = {c1, c2}
  Chart = {h1}
  DayLength = 2
  ResetHour = 1
  Requests <- SomeRequests
  Qualities = {1, 2}
  MaxClock = 2
  MaxRating = 1
  Budgets <- SomeBudgets
  Reader = {r1}
  AtOnce = 1
INVARIANT FullScoresWhole
INVARIANT RankingAccountsForMembers
INVARIANT ReportIsOneSnapshot
PROPERTY FullNeverGoesBack
SYMMETRY Calls
CHECK_DEADLOCK FALSE
