SPECIFICATION StoreSpec
CONSTANTS
  Chats = {A}
  Requests = {q1}
  Notes = {n1}
  Workers = {w1, w2}
  Calls = {"view", "save", "create", "delete"}
  MaxRewind = 1
  MaxTurns = 1
  None = None
SYMMETRY StoreSymmetry
PROPERTY DeletedStaysDeleted
