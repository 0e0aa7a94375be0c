SPECIFICATION LiveSpec
CONSTANTS
  Chats = {A}
  Requests = {r1, r2}
  Texts = {t1}
  Payloads <- MCPayloads
  Handlers = {h1, h2}
  Cancels = {x1}
  Deletes = {d1, d2}
  Second = h2
  Own = r1
  None = None
INVARIANTS
  DeletesSettle
PROPERTIES
  CancelledTurnEnds
  StopsAreAnswered
CHECK_DEADLOCK FALSE
