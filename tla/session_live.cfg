SPECIFICATION FairSpec
CONSTANTS
  Turns = {t1}
  Msgs = {m1}
  Cancels = {}
  Teardowns = {k1}
  Procs = {}
  Sandboxes = {s1, s2}
  Sweeper = Sweeper
  Creator = Creator
  None = None

CHECK_DEADLOCK FALSE
INVARIANTS
  SandboxesAccounted
PROPERTIES
  TurnEnds SandboxesFreed
