CONSTANTS
    ada = ada
    east = east
    None = None
    Rooms <- MCRooms
    Actors = {ada}
    Threshold = 1
    RoadBudget = TRUE
    Seeds <- MCSeeds
    SeedItems <- MCSeedItems
    Heads = {"lamp"}
    Profiles <- MCProfiles
    Amounts = {1}
    MaxClock = 2
    MaxPlaces = 3
    MaxEdges = 3
    Requests = {r1, r2}
    Flows = {f1}
    Logouts = {o1}
    MaxSerial = 3
    Attempts = 2
    Absent = Absent
    Second = r2
    Subscribers = {c1, c2}
    MaxRuns = 2
    MaxEvents = 1
    Turns = {a1, a2}
    Editors = {e1}
    Removers = {d1}
    Messages = {hello, again}
    Nobody = Nobody
    Knowledge = {k1}
    KeepTurns = 2
    MaxHops = 2
    MaxCalls = 1
    MaxTurns = 4
    Npcs = {n1, n2}
    Venues = {v1, v2}
    KeepExchanges = 1
    MaxTalks = 2
    MaxAsks = 3
    MaxChanges = 1
SPECIFICATION PartsSpec
INVARIANTS PartsTypeOK ViewsAgree PassagePaired
    RefreshTokenSafe LogoutSticks NotFoundIsTrue
    RequestWellFormed DeliveredIsHeld CardCurrent BeatsToldOnce
PROPERTIES NothingConjured ArchitectKeeps KeepsFeedPromise
CHECK_DEADLOCK FALSE
