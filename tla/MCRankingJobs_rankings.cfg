SPECIFICATION Spec
CONSTANTS
  Shutdown = Shutdown
  Call = {c1, c2}
  c1 = c1
  c2 = c2
  Key = {k1}
  k1 = k1
  MaxGen = 2
  MaxFaults = 2
  MaxStarts = 1
SYMMETRY CallSymmetry
INVARIANT SnapshotIsCompleted
INVARIANT InterruptedHasNoTask
INVARIANT RunningJobAttended
INVARIANT ShutdownDrains
