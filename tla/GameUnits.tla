----------------------------- MODULE GameUnits ------------------------------
(***************************************************************************)
(* How src/core finds units in the memory of the game and what it reads of *)
(* them: unit tokens (UnitResolver), the object manager, WoWObject, Unit   *)
(* and the two layers of getters above them (UnitAPI, ObjectAPI), as       *)
(* operators on the memory.                                                *)
(*                                                                         *)
(* A memory m is a record: the GUIDs of the player (local) and of the unit *)
(* under the mouse, the tables of party and raid and their leaders, and    *)
(* the objects by GUID.                                                    *)
(*                                                                         *)
(* A pointer to an object is the object itself: handles are made and used  *)
(* in one call on the game thread.  A GUID is a value.  Name, level, race, *)
(* class, position, rotation and the maxima are read like health, swimming *)
(* and flying like moving; they are left out.  Memory::safeRead yields 0   *)
(* for an address that cannot be read.                                     *)
(***************************************************************************)
EXTENDS Integers, Sequences

CONSTANTS
    Guid,     \* GUIDs of units
    NoGuid,   \* NULL_GUID, also a null pointer in the raid table
    NotAGuid, \* two pointers, read as a GUID
    Null,     \* null pointer to an object
    PartyMax, \* PARTY_MAX_MEMBERS
    RaidMax,  \* RAID_MAX_MEMBERS
    AuraMax   \* the 40 auras hasAura() looks at at most

VARIABLE mem  \* the memory of the game

ASSUME UnitsAssumption ==
    /\ NoGuid \notin Guid /\ NotAGuid \notin Guid \cup {NoGuid}
    /\ PartyMax \in Nat /\ RaidMax \in Nat /\ AuraMax \in Nat

GHOST == 8326  \* the aura of a released spirit

-----------------------------------------------------------------------------
(* Objects.                                                                *)

\* FIND_OBJ_BY_GUID looks for units and players only.
GetObjectByGUID(m, g) ==
    IF g \in Guid /\ m.objects[g] # Null /\ m.objects[g].mask \cap {"unit", "player"} # {}
      THEN m.objects[g] ELSE Null

\* An object without its data pointer is one that is going away.
IsValid(o) == o # Null /\ o.data

\* getTypeMask() of an object without data is 0.
TypeMask(o) == IF o.data THEN o.mask ELSE {}

IsUnit(o) == TypeMask(o) \cap {"unit", "player"} # {}

UnitExists(o) == IsValid(o) /\ IsUnit(o)

-----------------------------------------------------------------------------
(* Unit.  The second aura table is used when the first count is -1.        *)

HasAura(o, spell) ==
    LET count == IF o.firstCount = -1 THEN o.secondCount ELSE o.firstCount
        table == IF o.firstCount = -1 THEN o.second ELSE o.first
    IN /\ IsValid(o)
       /\ count \in 1 .. AuraMax
       /\ \E i \in 1 .. count : i <= Len(table) /\ table[i] = spell

\* A ghost counts as dead, and so does a unit whose dynamic flag says so.
IsDead(o) == HasAura(o, GHOST) \/ o.health <= 0 \/ o.feigned

IsCasting(o) == o.casting \/ o.channeling

\* The value for the unit's power type.  Rage and runic power are stored times
\* ten; focus, happiness and runes are 0.
GetPower(o) ==
    IF o.powerType \notin DOMAIN o.power THEN 0
    ELSE IF o.powerType \in {"rage", "runic"} THEN o.power[o.powerType] \div 10
    ELSE o.power[o.powerType]

\* Unit::getTargetGUID reads at UNIT_DATA_OFFSET + TARGET_GUID (0x18 + 0x48),
\* where the health and the mana are: HEALTH is 0x48, too.
GetTargetGUID(o) ==
    IF o.health = 0 /\ o.power["mana"] = 0 THEN NoGuid
    ELSE <<o.health, o.power["mana"]>>

\* The flags of unit.state, each read on its own.
StateOf(o) ==
    [dead |-> IsDead(o), ghost |-> HasAura(o, GHOST), inCombat |-> o.inCombat,
     mounted |-> o.mounted, moving |-> o.moving, casting |-> IsCasting(o),
     channeling |-> o.channeling]

\* The fields of unit.get and those of a group member.
UnitOf(o) ==
    [health |-> o.health, power |-> GetPower(o), state |-> StateOf(o),
     target |-> GetTargetGUID(o), attacking |-> o.attacking]

-----------------------------------------------------------------------------
(* Tokens.  A token is a record: its word ("other" for what is not known)  *)
(* and the sequence of digits after it.                                    *)

\* Mutant: the last slot of the table is out of reach.
PartyMember_LessOne(m, digits) ==
    IF Head(digits) \in 1 .. PartyMax - 1 THEN m.party[Head(digits)] ELSE NoGuid

\* The game's table of the party holds GUIDs.  Only the first digit is read.
PartyMember(m, digits) ==
    IF Head(digits) \in 1 .. PartyMax THEN m.party[Head(digits)] ELSE NoGuid

Number(digits) ==
    LET f[i \in 0 .. Len(digits)] == IF i = 0 THEN 0 ELSE f[i - 1] * 10 + digits[i]
    IN f[Len(digits)]

\* The table of the raid holds pointers (readRaidGuids); here two neighbours
\* are read as one GUID, for the upper indices from beyond the table, where
\* there is no GUID of a unit either.
RaidMember(m, digits) ==
    LET n == Number(digits)
    IN IF \/ n \notin 1 .. RaidMax
          \/ 2 * n <= RaidMax /\ m.raid[2 * n - 1] = NoGuid /\ m.raid[2 * n] = NoGuid
         THEN NoGuid ELSE NotAGuid

\* Here the target is read at TARGET_GUID of the object data itself.
TargetOfPlayer(m) ==
    LET o == GetObjectByGUID(m, m.local)
    IN IF IsValid(o) THEN o.target ELSE NoGuid

\* ResolveUnitToken: NoGuid where it returns false.  A party or raid word
\* without digits and every other word are unknown.
ResolveUnitToken(m, t) ==
    CASE t.word = "player" -> m.local
      [] t.word = "target" -> TargetOfPlayer(m)
      [] t.word = "mouseover" -> m.mouseover
      [] t.word = "party" /\ t.digits # <<>> -> PartyMember(m, t.digits)
      [] t.word = "raid" /\ t.digits # <<>> -> RaidMember(m, t.digits)
      [] OTHER -> NoGuid

\* CoreAPI::Unit::Get: the handle, Null where it is a null handle.
GetUnit(m, t) == GetObjectByGUID(m, ResolveUnitToken(m, t))

-----------------------------------------------------------------------------
(* The unit.* and object.* methods.                                        *)

\* unit.get and its parts unit.state, unit.position and unit.mapPosition.
UnitGet(m, t) ==
    IF UnitExists(GetUnit(m, t))
      THEN [exists |-> TRUE, guid |-> ResolveUnitToken(m, t), unit |-> UnitOf(GetUnit(m, t))]
      ELSE [exists |-> FALSE]

\* CoreAPI::Object::GetType: the most special type of the mask.
GetType(o) ==
    IF "player" \in TypeMask(o) THEN "player"
    ELSE IF "unit" \in TypeMask(o) THEN "unit"
    ELSE "object"

\* object.exists, object.getType, object.isUnit and object.isPlayer.
ObjectGet(m, t) ==
    LET o == GetUnit(m, t)
    IN [exists |-> IsValid(o),
        type |-> IF IsValid(o) THEN GetType(o) ELSE "none",
        isUnit |-> o # Null /\ IsUnit(o),
        isPlayer |-> o # Null /\ "player" \in TypeMask(o)]
=============================================================================
