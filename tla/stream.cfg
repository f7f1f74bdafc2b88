SPECIFICATION FairSpec
CONSTANTS
  Chans = {c1, c2}
  SyncClients = {c2}
  BufCap = 2
  ChanCap = 1
  MaxSeq = 4
  MaxStale = 1
  MaxBreaks = 1
CHECK_DEADLOCK FALSE
INVARIANTS
  HubIsGapless StreamGapless ExactlyOnce ViewAgrees
PROPERTIES
  EventsArrive
