CONSTANTS
    ada = ada
    east = east
    None = None
    Rooms <- MCRooms
    Actors = {ada}
    Threshold = 1
    RoadBudget = TRUE
    Seeds <- MCSeeds
    SeedItems <- MCSeedItems
    Heads = {"lamp"}
    Profiles <- LongWays
    Amounts = {1}
    MaxClock = 3
    MaxPlaces = 3
    MaxEdges = 3
SPECIFICATION Spec
PROPERTY ClockNeverRewinds
CONSTRAINT Small
CHECK_DEADLOCK FALSE
