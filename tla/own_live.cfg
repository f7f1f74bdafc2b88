SPECIFICATION FairSpec
CONSTANTS
  Nodes = {n1, n2}
  Creates = {k}
  Messages = {m1}
  Cancels = {}
  Deletes = {d}
  NoNode = NoNode
  NoReq = NoReq
  MaxLeases = 2
  MaxCrashes = 1
  MaxLapses = 0
  MaxEvictions = 1
  MaxFails = 1
CHECK_DEADLOCK FALSE
PROPERTIES
  Revived RequestsEnd
