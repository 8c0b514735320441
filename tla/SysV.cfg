CONSTANTS
  Procs = {p1, p2, p3}
  None = None
  Reuse = TRUE
SPECIFICATION FairSpec
INVARIANTS OneRunning NamesNoOther RestartWaits RunningNamed
PROPERTY CommandEnds
CHECK_DEADLOCK FALSE
