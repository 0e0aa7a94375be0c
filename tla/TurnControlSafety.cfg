SPECIFICATION SafetySpec
CONSTANTS
  Chats = {A}
  Requests = {r1}
  Texts = {t1, t2}
  Payloads <- MCPayloads
  Handlers = {h1, h2}
  Cancels = {x1}
  Deletes = {d1}
  None = None
  MaxActions = 2
  Reconnects = 1
  MaxTroubles = 2
SYMMETRY ControlSymmetry
INVARIANTS
  TurnTypesOK
  OneLiveTurnPerRequest
  NoOrphanModelTask
  TerminalTellsTheTruth
  ScreenTrue
  StopHolds
PROPERTIES
  CancelIsFinal
  KeepsPromise
CHECK_DEADLOCK FALSE
