SPECIFICATION Spec
CONSTANTS
  Names = {f1, f2, f3}
  Attachers = {a1, a2}
  NameCap = 2
  rel = rel
  abs = abs
  RelPaths <- MCRel
  AbsPaths <- MCAbs
  Strip <- MCStrip
  None = None
  MaxCrashes = 1
  MaxFails = 1
SYMMETRY Symmetry
CHECK_DEADLOCK FALSE
INVARIANTS
  DiskAgrees InjectionTargetLives CapHeld ManifestCurrent PersistedReturns
