SPECIFICATION ExchangeSpec
CONSTANTS
  Npcs = {n1, n2}
  Venues = {v1}
  KeepExchanges = 1
  MaxTalks = 1
  MaxAsks = 2
  MaxChanges = 0
INVARIANT PrivateStays
CHECK_DEADLOCK FALSE
