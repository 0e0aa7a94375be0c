SPECIFICATION StoreSpec
CONSTANTS
  Chats = {A}
  Requests = {q1}
  Notes = {n1}
  Workers = {w1, w2}
  Calls = {"turn", "save", "restart"}
  MaxRewind = 1
  MaxTurns = 1
  None = None
SYMMETRY StoreSymmetry
PROPERTY CommitSticks
