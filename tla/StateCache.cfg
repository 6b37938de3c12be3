\* Three screens, two zones and a map, a player hurt, in a fight or gone.
SPECIFICATION StateSpec
CONSTANTS
    Me = Me
    Guid = {Me}
    NoGuid = NoGuid
    NotAGuid = NotAGuid
    Null = Null
    PartyMax = 0
    RaidMax = 0
    AuraMax = 1
    Image <- MCImage
    Start <- Login
    NoPlace = NoPlace
    NoPlayer = NoPlayer
INVARIANTS
    FollowerKnows
PROPERTIES
    ScreensChain
    ScreenIsTold
