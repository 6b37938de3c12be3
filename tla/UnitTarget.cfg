\* The player alone, with and without a target.
SPECIFICATION Spec
CONSTANTS
    a = a
    b = b
    Me = Me
    Guid = {Me, a, b}
    NoGuid = NoGuid
    NotAGuid = NotAGuid
    Null = Null
    PartyMax = 2
    RaidMax = 3
    AuraMax = 2
    Object <- MCObject
    Leaders = {Me, a}
    Bit = {1, 2, 3}
    Word <- MCWord
INVARIANTS
    TargetAgrees
