SPECIFICATION Spec
CONSTANTS
  Indexes = {0}
  MaxPieces = 0
  MaxRetries = 1
  Servers = {}
  Transports <- MCTransports
  None = None
  Calls = {c1, c2}
  Dirs = {home, sub}
  Home = home
  Nowhere = Nowhere
  Files = {f}
  FileOf <- MCFileOf
  Codes = {0, 1}
  MaxSteps = 2
CHECK_DEADLOCK FALSE
INVARIANTS
  ExitCodeIsReal
