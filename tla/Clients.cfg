SPECIFICATION MCSpec
CONSTANTS
    Users <- MCUsers
    DemoRole <- MCDemoRole
    External <- MCExternal
    Events <- MCEvents
    Seats <- MCSeats
    Invited = 5
    Nobody = "nobody"
    Draws <- MCDraws
    ChunkSize = 3
    MaxRuns = 2
    MaxActs = 2
    Responses <- MCResponses
    Visited = {"conf"}
    MaxAgentTurns = 3
    MaxMoves = 1
    Rows <- MCRows
    Others <- MCOthers
    Asked = {Absent, 0, 1, 2, 3}
    Absent = Absent
    DefaultLimit = 1
    MaxLimit = 2
    MaxClock = 2
    NoCursor = NoCursor
INVARIANTS PagesAscend OwedListed SeedIsWhole FailureExplained DatasetFits EveryCallAnswered
PROPERTIES TraversalEnds Concludes
CHECK_DEADLOCK FALSE
