SPECIFICATION FairStoreSpec
CONSTANTS
  Chats = {1, 2}
  Requests = {q1}
  Notes = {n1}
  Workers = {w1, w2}
  Calls = {"turn", "branch", "create", "portrait", "activate", "delete", "reset", "fault"}
  MaxRewind = 1
  MaxTurns = 1
  None = None
INVARIANT PointerLive
PROPERTY GateFreed
ACTION_CONSTRAINT DrawnInOrder
