SPECIFICATION Spec
CONSTANTS
  Nodes = {n1, n2}
  Creates = {k}
  Messages = {m1, m2}
  Cancels = {}
  Deletes = {}
  NoNode = NoNode
  NoReq = NoReq
  MaxLeases = 2
  MaxCrashes = 1
  MaxLapses = 0
  MaxEvictions = 2
  MaxFails = 1
CHECK_DEADLOCK FALSE
INVARIANTS
  ServerIsTheRecorded AdoptionsHaveAdopters
PROPERTIES
  TenureSpec
