SPECIFICATION Spec
CONSTANTS
  Tasks = {1, 2, 3}
  Procs = {1, 2}
  None = None
  Subscribers = {c1}
  MaxRuns = 1
  MaxEvents = 2
  Folk = {n1, n2}
  Holders = {n1}
  Spots = {v1}
  Paths = {road}
  Topics = {t1, t2}
  SeedTopics = {t1}
  Goals = {t2}
  SourceCount = 2
  MaxBatches = 2
  RumorsCap = 1
  Budgets <- MCBudgets
INVARIANTS
  ServicesTypeOK
  NoStrayProcess
  StateMatchesChild
  SecretsKept
  NothingForgotten
  RumorsMirrored
PROPERTIES
  ReadyIsKept
  TasksEnd
  FeedEnds
CHECK_DEADLOCK FALSE
