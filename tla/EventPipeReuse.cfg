\* The client a reused handle value cuts off.
SPECIFICATION Spec
CONSTANTS
    Game = Game
    Rpc = Rpc
    INVALID = INVALID
    Handle = {h1, h2}
    DefaultMax = 2
    MaxEvents = 2
    MaxSessions = 2
PROPERTIES
    ClientStays
CHECK_DEADLOCK FALSE
