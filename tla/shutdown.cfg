SPECIFICATION FairSpec
CONSTANTS
  Client = c
  Mixes <- MCMixes
  Chans = {c}
  BufCap = 2
  ChanCap = 2
  MaxSeq = 3
  OutCap = 1
  WireCap = 0
CHECK_DEADLOCK FALSE
INVARIANTS
  StreamIsHonest FarewellIsWhole StopIsClean
PROPERTIES
  ReaderEnds StopEnds
