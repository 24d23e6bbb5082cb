SPECIFICATION FilesSpec
CONSTANTS
  Lxns = Lxns
  DivingFish = DivingFish
  DxData = DxData
  songs = songs
  aliases = aliases
  music = music
  dxdata = dxdata
  Doc = Doc
  EtagFile = EtagFile
  c1 = c1
  c2 = c2
  a1 = a1
  Alias = {a1}
  Caller = {c1, c2}
  Setups <- MCSetups
  Targets <- MCTargets
  Optional <- MCOptional
  Tagged <- MCTagged
  MaxVersion = 1
  MaxCrashes = 1
  Calls = 3
  Stem = {rating_ranking}
  rating_ranking = rating_ranking
  Slots = 2
  MaxFiles = 1
  Ttl = 2
  Attempts = 2
  MaxSeconds = 2
  MaxSaveFaults = 1
SYMMETRY CallerSymmetry
INVARIANT BundlesWhole
INVARIANT AckedAliasServed
INVARIANT RefreshReloadUndisturbed
PROPERTY ServedWasOnDisk
PROPERTY ImagesKept
