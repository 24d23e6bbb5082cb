SPECIFICATION Spec
CONSTANTS
  Private = Private
  Call = {c1, c2}
  c1 = c1
  c2 = c2
  Context = {g1}
  g1 = g1
  MaxLinks = 2
  MaxRefresh = 1
  MaxFaults = 0
  MaxCrashes = 0
SYMMETRY CallSymmetry
INVARIANT UnboundStaysUnbound
