SPECIFICATION ApiSpec
CONSTANTS
    Game = Game
    Rpc = Rpc
    INVALID = INVALID
    Handle = {h1}
    DefaultMax = 2
    Sizes <- MCSizes
    Offsets <- MCOffsets
    Counts <- MCCounts
    MaxEvents = 3
    MaxSessions = 0
    MaxRequests = 3
    Name = {n1, n2}
    NoName = NoName
INVARIANTS
    AtMostOneLate
    HistoryIsRecent
    HistoryAnswerFits
CHECK_DEADLOCK FALSE
