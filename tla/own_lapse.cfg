SPECIFICATION RecoverySpec
CONSTANTS
  Nodes = {n1, n2}
  Creates = {k}
  Messages = {m1}
  Cancels = {}
  Deletes = {}
  NoNode = NoNode
  NoReq = NoReq
  MaxLeases = 4
  MaxCrashes = 0
  MaxLapses = 2
  MaxEvictions = 0
  MaxFails = 1
CHECK_DEADLOCK FALSE
PROPERTIES
  LapseHeals
