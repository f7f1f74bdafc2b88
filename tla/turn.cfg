SPECIFICATION FairSpec
CONSTANTS
  Indexes <- MCIndexes
  MaxPieces = 1
  MaxRetries = 1
  Servers = {a}
  Transports <- MCTransports
  None = None
  Calls = {c1}
  Dirs = {home}
  Home = home
  Nowhere = Nowhere
  Files = {f}
  FileOf <- MCFileOf
  Codes = {0}
  MaxSteps = 1
CHECK_DEADLOCK FALSE
INVARIANTS
  RepliesAreExact NoOrphan LinksAreReleased
PROPERTIES
  BackgroundIsKept AbortedDies TurnLetsGo
