SPECIFICATION StoreSpec
CONSTANTS
  Chats = {A, B}
  Requests = {q1, q2, q3}
  Notes = {n1}
  Workers = {w1, w2}
  Calls = {"turn", "edit", "branch", "view", "create", "peek", "delete", "restart"}
  MaxRewind = 2
  MaxTurns = 3
  None = None
SYMMETRY StoreSymmetry
ACTION_CONSTRAINT Scenes
INVARIANTS
  StoreTypeOK
  TablesFit
  PathTables
PROPERTIES
  PathSticks
  PathPlayedOnce
