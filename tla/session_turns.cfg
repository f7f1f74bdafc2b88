SPECIFICATION Spec
CONSTANTS
  Turns = {t1, t2}
  Msgs = {m1, m2}
  Cancels = {c1}
  Teardowns = {}
  Procs = {p1}
  Sandboxes = {s1}
  Sweeper = Sweeper
  Creator = Creator
  None = None
SYMMETRY Symmetry
CHECK_DEADLOCK FALSE
INVARIANTS
  TurnsAreShown CancelledOnlyIfAsked ExitsConserved
