SPECIFICATION Spec
CONSTANTS
  Private = Private
  Call = {c1, c2, c3}
  c1 = c1
  c2 = c2
  c3 = c3
  Context = {g1}
  g1 = g1
  MaxLinks = 2
  MaxRefresh = 2
  MaxFaults = 1
  MaxCrashes = 1
SYMMETRY CallSymmetry
INVARIANT ClaimIsExclusive
INVARIANT StoredTokenIsCurrent
INVARIANT RejectedTokenNotReused
