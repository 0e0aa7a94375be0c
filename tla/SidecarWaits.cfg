SPECIFICATION FairSidecarSpec
CONSTANTS
  Tasks = {t1, t2}
  Procs = {p1}
  None = None
PROPERTY EnsureStartedReturns
CHECK_DEADLOCK FALSE
