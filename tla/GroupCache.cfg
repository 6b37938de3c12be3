\* The player and two others: enough for a member to be exchanged for another
\* and for a raid whose own subgroup is part of it.
SPECIFICATION Spec
CONSTANTS
    a = a
    b = b
    Me = Me
    Guid = {Me, a, b}
    NoGuid = NoGuid
    NotAGuid = NotAGuid
    Null = Null
    PartyMax = 2
    RaidMax = 3
    AuraMax = 2
    Object <- MCObject
    Leaders = {Me, a}
    Bit = {1, 2, 3}
    Word <- MCWord
INVARIANTS
    PartyIsCurrent
    AnswersAgree
    PartyTokensAreMembers
PROPERTIES
    RebuiltOnlyOnChange
