SPECIFICATION Spec
CONSTANTS
  Proc = {p1, p2}
  Caller = {c1}
  Source = {s1}
  p1 = p1
  p2 = p2
  c1 = c1
  s1 = s1
  NoProc = NoProc
  MaxJobs = 1
  MaxFaults = 1
  MaxCrashes = 1
SYMMETRY ProcSymmetry
INVARIANT TaskRunsUnderLock
PROPERTY ImplementsLifecycle
