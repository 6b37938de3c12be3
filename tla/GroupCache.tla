----------------------------- MODULE GroupCache -----------------------------
(***************************************************************************)
(* CoreAPI::Group (src/core/api/GroupAPI.cpp) and the methods group.get    *)
(* and group.combatSummary (src/rpc/handlers/core/GroupRpc.cpp): what is   *)
(* known of the group is built once and kept as long as a checksum of the  *)
(* group's GUIDs stays the same.                                           *)
(*                                                                         *)
(* The methods run as one task on the game thread, between two changes of  *)
(* the game (TaskQueue models how they get there, and back).  The game is  *)
(* external: who is in the group, which units are loaded and how they are. *)
(***************************************************************************)
EXTENDS GameUnits, FiniteSets, SequencesExt

CONSTANTS
    Me,      \* the player's own GUID
    Object,  \* the forms a loaded unit may have
    Leaders, \* GUIDs that may lead a group
    Bit,     \* the bits of a checksum
    Word     \* [Guid -> the bits set in low ^ high]

ASSUME GroupAssumption ==
    /\ Me \in Guid /\ Leaders \subseteq Guid
    /\ Null \notin Object
    /\ Word \in [Guid -> SUBSET Bit]

VARIABLES
    cache,  \* GroupCache: info, checksum, valid
    built,  \* history: party and raid table when the cache was built
    told    \* history: last answers since the tables last changed

vars == <<mem, cache, built, told>>

None == [valid |-> FALSE, type |-> "none", leader |-> NoGuid, members |-> {}]
NotAsked == <<>>  \* else a sequence of one answer

-----------------------------------------------------------------------------
(* The group, as the game keeps it.                                        *)

\* A table of n slots with the GUIDs of S.
Table(S, n) ==
    LET s == SetToSeq(S)
    IN [i \in 1 .. n |-> IF i <= Len(s) THEN s[i] ELSE NoGuid]

Others == Guid \ {Me}

NoGroup ==
    [party |-> Table({}, PartyMax), raid |-> Table({}, RaidMax),
     partyLeader |-> NoGuid, raidLeader |-> NoGuid]

\* The player is in the table of the raid, but not in that of the party.
Party ==
    {[NoGroup EXCEPT !.party = Table(S, PartyMax), !.partyLeader = l] :
        S \in {S \in SUBSET Others : S # {} /\ Cardinality(S) <= PartyMax},
        l \in Leaders}

\* In a raid the party table is the player's own subgroup.
Raid ==
    UNION {{[party |-> Table(S, PartyMax), raid |-> Table(R \cup {Me}, RaidMax),
             partyLeader |-> p, raidLeader |-> l] :
                S \in {S \in SUBSET R : Cardinality(S) <= PartyMax},
                l \in Leaders \cap (R \cup {Me}), p \in {NoGuid, Me}} :
           R \in {R \in SUBSET Others : Cardinality(R) < RaidMax}}

Rosters == {NoGroup} \cup Raid
    \cup {r \in Party : r.partyLeader \in {r.party[i] : i \in 1 .. PartyMax} \cup {Me}}

With(m, r) ==
    [m EXCEPT !.party = r.party, !.raid = r.raid,
              !.partyLeader = r.partyLeader, !.raidLeader = r.raidLeader]

-----------------------------------------------------------------------------
(* The cache.                                                              *)

\* GUIDs in a table.
InTable(table) == {table[i] : i \in DOMAIN table} \ {NoGuid}

\* Mutant: the loop over the raid table only.
Checksum_NoParty(m) ==
    {b \in Bit : Cardinality({i \in DOMAIN m.raid :
        m.raid[i] # NoGuid /\ b \in Word[m.raid[i]]}) % 2 = 1}

\* computeChecksum: a bit is set if it is set in an odd number of words.
Checksum(m) ==
    LET odd(table, b) == {i \in DOMAIN table : table[i] # NoGuid /\ b \in Word[table[i]]}
    IN {b \in Bit :
          (Cardinality(odd(m.party, b)) + Cardinality(odd(m.raid, b))) % 2 = 1}

\* buildMember; members whose unit is not loaded get none.
BuildMember(m, g) == [guid |-> g, unit |-> UnitOf(GetObjectByGUID(m, g))]

\* buildGroup: the raid, if there is one, goes before the party.
BuildGroup(m) ==
    LET leader == IF m.raidLeader # NoGuid THEN m.raidLeader ELSE m.partyLeader
        guids == (IF m.partyLeader # NoGuid THEN InTable(m.party) ELSE {})
                   \cup (IF m.raidLeader # NoGuid THEN InTable(m.raid) ELSE {})
        loaded == {g \in guids \ {m.local} : UnitExists(GetObjectByGUID(m, g))}
    IN IF leader = NoGuid \/ m.local = NoGuid
         THEN [None EXCEPT !.leader = leader]
         ELSE [valid |-> TRUE,
               type |-> IF m.raidLeader # NoGuid THEN "raid" ELSE "party",
               leader |-> leader,
               members |-> {BuildMember(m, g) : g \in loaded}]

Fresh == cache.valid /\ cache.checksum = Checksum(mem)

\* Mutant: the checksum is not stored.
GetOrBuildGroup_NoChecksum ==
    IF Fresh THEN UNCHANGED <<cache, built>>
    ELSE /\ cache' = [info |-> BuildGroup(mem), checksum |-> cache.checksum, valid |-> TRUE]
         /\ built' = <<mem.party, mem.raid>>

\* getOrBuildGroup
GetOrBuildGroup ==
    IF Fresh THEN UNCHANGED <<cache, built>>
    ELSE /\ cache' = [info |-> BuildGroup(mem), checksum |-> Checksum(mem), valid |-> TRUE]
         /\ built' = <<mem.party, mem.raid>>

\* GetCombatSummary over the members of a group.
Summary(info) ==
    LET with(flag) == {x \in info.members : x.unit.state[flag]}
        attacking == {x \in info.members : x.unit.attacking}
    IN [countInCombat |-> Cardinality(with("inCombat")),
        countDead |-> Cardinality(with("dead")),
        anyCasting |-> with("casting") \cup with("channeling") # {},
        anyEngaging |-> with("inCombat") \cup attacking \cup with("casting") # {}]

-----------------------------------------------------------------------------
Init ==
    /\ mem = With([local |-> NoGuid, mouseover |-> NoGuid, party |-> <<>>, raid |-> <<>>,
                   partyLeader |-> NoGuid, raidLeader |-> NoGuid,
                   objects |-> [g \in Guid |-> Null]], NoGroup)
    /\ cache = [info |-> None, checksum |-> {}, valid |-> FALSE]
    /\ built = <<>>
    /\ told = [group |-> NotAsked, summary |-> NotAsked]

\* group.get
Get ==
    /\ GetOrBuildGroup
    /\ told' = [told EXCEPT !.group = <<cache'.info>>]
    /\ UNCHANGED mem

\* Mutant: the summary is taken of the members as they are now.
CombatSummary_Now ==
    /\ UNCHANGED <<cache, built>>
    /\ told' = [told EXCEPT !.summary = <<Summary(BuildGroup(mem))>>]
    /\ UNCHANGED mem

\* group.combatSummary
CombatSummary ==
    /\ GetOrBuildGroup
    /\ told' = [told EXCEPT !.summary = <<Summary(cache'.info)>>]
    /\ UNCHANGED mem

\* The game: the group changes, a unit is loaded, changes or goes, the player
\* enters or leaves the world, which may go along with a group.
Regroup(r) ==
    /\ mem' = With(mem, r)
    /\ told' = IF <<mem'.party, mem'.raid>> # <<mem.party, mem.raid>>
                 THEN [group |-> NotAsked, summary |-> NotAsked] ELSE told
    /\ UNCHANGED <<cache, built>>

ObjectChanges(g, o) ==
    /\ mem.local = Me
    /\ g = Me => o # Null
    /\ mem' = [mem EXCEPT !.objects[g] = o]
    /\ UNCHANGED <<cache, built, told>>

EnterWorld(o) ==
    /\ mem.local = NoGuid
    /\ mem' = [mem EXCEPT !.local = Me, !.objects[Me] = o]
    /\ UNCHANGED <<cache, built, told>>

LeaveWorld ==
    /\ mem.local = Me
    /\ mem' = [mem EXCEPT !.local = NoGuid, !.objects = [g \in Guid |-> Null]]
    /\ UNCHANGED <<cache, built, told>>

Next ==
    \/ Get \/ CombatSummary
    \/ \E r \in Rosters : Regroup(r)
    \/ \E g \in Guid, o \in Object \cup {Null} : ObjectChanges(g, o)
    \/ \E o \in Object : EnterWorld(o)
    \/ LeaveWorld

Spec == Init /\ [][Next]_vars

-----------------------------------------------------------------------------
Odd(S) == {b \in Bit : Cardinality({g \in S : b \in Word[g]}) % 2 = 1}

\* No two sets of GUIDs have one checksum, which 32 bits cannot promise.
Independent == \A S, T \in SUBSET Guid : Odd(S) = Odd(T) => S = T

InParty == mem.partyLeader # NoGuid /\ mem.raidLeader = NoGuid

(* In a party group.get never names a player who is not in it, however the *)
(* group changed since it was built: a party that became a raid and back,  *)
(* or changed a member for another, is noticed by its checksum.            *)
PartyIsCurrent ==
    Independent /\ InParty /\ told.group # NotAsked /\ told.group[1].valid =>
      /\ told.group[1].type = "party"
      /\ {x.guid : x \in told.group[1].members} \subseteq InTable(mem.party)

(* "Group data is rebuilt only when the group composition changes"         *)
(* (docs/EN/03-methods/group.md:3).                                        *)
RebuiltOnlyOnChange ==
    [][cache.valid /\ cache' # cache => built # <<mem.party, mem.raid>>]_vars

(* While the composition stays, group.get and group.combatSummary tell of  *)
(* one reading of the members, though their units change meanwhile.        *)
AnswersAgree ==
    told.group # NotAsked /\ told.summary # NotAsked =>
      /\ told.summary[1].countDead =
           Cardinality({x \in told.group[1].members : x.unit.state.dead})
      /\ told.summary[1].countInCombat =
           Cardinality({x \in told.group[1].members : x.unit.state.inCombat})

PartyToken == {[word |-> "party", digits |-> <<i>>] : i \in 0 .. 9}
Named(T) == {UnitGet(mem, t).guid : t \in {t \in T : UnitGet(mem, t).exists}}

(* The tokens party1, party2, ... of unit.get name the members group.get   *)
(* would list for a party: the resolver and the cache read one table.      *)
PartyTokensAreMembers ==
    InParty /\ mem.local = Me =>
      Named(PartyToken) = {x.guid : x \in BuildGroup(mem).members}

RaidToken == {[word |-> "raid", digits |-> <<i>>] : i \in 0 .. 9}

(* Token "raidN" names a member of the raid (docs/EN/03-methods/unit.md:3).*)
RaidTokensAreMembers ==
    mem.raidLeader # NoGuid /\ mem.local = Me =>
      {x.guid : x \in BuildGroup(mem).members} \subseteq Named(RaidToken)

(* The target that unit.get reports for the player is the unit the token   *)
(* "target" names (docs/EN/03-methods/unit.md).                            *)
TargetAgrees ==
    LET player == [word |-> "player", digits |-> <<>>]
        target == [word |-> "target", digits |-> <<>>]
    IN UnitGet(mem, player).exists =>
         UnitGet(mem, player).unit.target = ResolveUnitToken(mem, target)
=============================================================================
