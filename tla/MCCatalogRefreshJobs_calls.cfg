SPECIFICATION Spec
CONSTANTS
  Proc = {p1}
  Caller = {c1, c2}
  Source = {s1}
  p1 = p1
  c1 = c1
  c2 = c2
  s1 = s1
  NoProc = NoProc
  MaxJobs = 2
  MaxFaults = 1
  MaxCrashes = 0
SYMMETRY CallerSymmetry
INVARIANT SingleActiveJob
INVARIANT RunningJobAttended
INVARIANT RecordedTerminalFits
