SPECIFICATION FairSpec
CONSTANTS
  Proc = {p1}
  Caller = {c1}
  Source = {s1, s2}
  p1 = p1
  c1 = c1
  s1 = s1
  s2 = s2
  NoProc = NoProc
  MaxJobs = 1
  MaxFaults = 1
  MaxCrashes = 1
INVARIANT OutcomeMatchesRows
PROPERTY RunningJobSettles
