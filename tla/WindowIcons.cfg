\* Two windows, a large and a small icon.
SPECIFICATION Spec
CONSTANTS
    Game = Game
    None = None
    MaxWindows = 2
    Other = {}
    MaxIcons = 2
INVARIANTS
    RestoredIsGames
CHECK_DEADLOCK FALSE
