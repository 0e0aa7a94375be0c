SPECIFICATION StoreSpec
CONSTANTS
  Chats = {A, B}
  Requests = {q1, q2}
  Notes = {n1}
  Workers = {w1, w2}
  Calls = {"turn", "edit", "branch", "create"}
  MaxRewind = 2
  MaxTurns = 2
  None = None
SYMMETRY StoreSymmetry
PROPERTY ReceiptIsProof
