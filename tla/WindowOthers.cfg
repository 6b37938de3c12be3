\* A window of the game and one of another client.
SPECIFICATION Spec
CONSTANTS
    Game = Game
    None = None
    MaxWindows = 1
    Other = {x}
    MaxIcons = 1
INVARIANTS
    UsesOwnWindow
CHECK_DEADLOCK FALSE
