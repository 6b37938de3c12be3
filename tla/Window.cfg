\* Two windows of the game and one of another client; three icons: two sizes at
\* once and one more.
SPECIFICATION Spec
CONSTANTS
    Game = Game
    None = None
    MaxWindows = 2
    Other = {x}
    MaxIcons = 3
INVARIANTS
    UsesOpenWindow
    IconsHeld
    BackupIsGames
\* A request for an icon waits at the bound on icons.
CHECK_DEADLOCK FALSE
