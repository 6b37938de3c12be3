----------------------------- MODULE PollProofs ------------------------------
(***************************************************************************)
(* Proofs about what the SDK learns by looking at the memory of the game.  *)
(* GroupCache: for any game, whatever its tables hold, and for any         *)
(* checksum words, also those of different groups that collide.            *)
(* StateCache: for any memories, in any order.  LoadingPoll: for every     *)
(* throttle, timeout, set of flags and spacing of the polls.               *)
(***************************************************************************)
EXTENDS GroupCache, StateCache, LoadingPoll, FiniteSetTheorems, TLAPS

\* The records keep their fields.
Shape ==
    /\ {"party", "raid"} \subseteq DOMAIN mem
    /\ told = [group |-> told.group, summary |-> told.summary]

\* The checksum that is kept is that of the tables at the last build.
ChecksumOfBuilt ==
    cache.valid => cache.checksum = Checksum([party |-> built[1], raid |-> built[2]])

\* What has been answered since the tables changed is what is still kept.
ToldIsKept ==
    /\ told.group # NotAsked => Fresh /\ told.group = <<cache.info>>
    /\ told.summary # NotAsked => Fresh /\ told.summary = <<Summary(cache.info)>>

GInv == Shape /\ ChecksumOfBuilt /\ ToldIsKept

-----------------------------------------------------------------------------
\* The checksum depends on the two tables only.
LEMMA ChecksumOfTables ==
    ASSUME NEW m, NEW n, m.party = n.party, m.raid = n.raid
    PROVE  Checksum(m) = Checksum(n)
BY DEF Checksum

LEMMA InitHolds == Init => GInv
BY DEF Init, With, GInv, Shape, ChecksumOfBuilt, ToldIsKept, NotAsked

\* What a request leaves is fresh; it changes nothing that was.
LEMMA RequestKeeps ==
    ASSUME GInv, GetOrBuildGroup, UNCHANGED mem
    PROVE  /\ ChecksumOfBuilt' /\ Fresh'
           /\ Fresh => cache' = cache
<1>1. CASE Fresh
  BY <1>1 DEF GetOrBuildGroup, GInv, ChecksumOfBuilt, Fresh
<1>2. CASE ~Fresh
  <2>1. /\ cache'.checksum = Checksum(mem) /\ cache'.valid
        /\ built' = <<mem.party, mem.raid>>
    BY <1>2 DEF GetOrBuildGroup
  <2>2. Checksum(mem) = Checksum([party |-> built'[1], raid |-> built'[2]])
    BY <2>1, ChecksumOfTables
  <2> QED BY <1>2, <2>1, <2>2 DEF ChecksumOfBuilt, Fresh
<1> QED BY <1>1, <1>2

\* The game changes none of the caches, and a change of the tables makes the
\* answers given before it not count.
LEMMA GameKeeps ==
    ASSUME GInv, UNCHANGED <<cache, built>>, {"party", "raid"} \subseteq DOMAIN mem',
           \/ told' = told /\ mem'.party = mem.party /\ mem'.raid = mem.raid
           \/ told' = [group |-> NotAsked, summary |-> NotAsked]
    PROVE  GInv'
<1>1. ChecksumOfBuilt'
  BY DEF GInv, ChecksumOfBuilt
<1>2. CASE told' = told /\ mem'.party = mem.party /\ mem'.raid = mem.raid
  <2>1. Checksum(mem') = Checksum(mem)
    BY <1>2, ChecksumOfTables
  <2> QED BY <1>1, <1>2, <2>1 DEF GInv, Shape, ToldIsKept, Fresh
<1>3. CASE told' = [group |-> NotAsked, summary |-> NotAsked]
  BY <1>1, <1>3 DEF GInv, Shape, ToldIsKept
<1> QED BY <1>2, <1>3

LEMMA StepHolds == GInv /\ [Next]_vars => GInv'
<1> SUFFICES ASSUME GInv, [Next]_vars PROVE GInv'
  OBVIOUS
<1>1. CASE UNCHANGED vars
  BY <1>1, GameKeeps DEF vars, GInv, Shape
<1>2. CASE Get
  <2>1. told' = [group |-> <<cache'.info>>, summary |-> told.summary]
    BY <1>2 DEF Get, GInv, Shape
  <2> QED BY <1>2, <2>1, RequestKeeps DEF Get, GInv, Shape, ToldIsKept
<1>3. CASE CombatSummary
  <2>1. told' = [group |-> told.group, summary |-> <<Summary(cache'.info)>>]
    BY <1>3 DEF CombatSummary, GInv, Shape
  <2> QED BY <1>3, <2>1, RequestKeeps DEF CombatSummary, GInv, Shape, ToldIsKept
<1>4. ASSUME NEW r \in Rosters, Regroup(r) PROVE GInv'
  <2>1. {"party", "raid"} \subseteq DOMAIN mem'
    BY <1>4 DEF Regroup, With, GInv, Shape
  <2> QED BY <1>4, <2>1, GameKeeps DEF Regroup
<1>5. ASSUME NEW g \in Guid, NEW o, ObjectChanges(g, o) PROVE GInv'
  BY <1>5, GameKeeps DEF ObjectChanges, GInv, Shape
<1>6. ASSUME NEW o \in Object, EnterWorld(o) PROVE GInv'
  BY <1>6, GameKeeps DEF EnterWorld, GInv, Shape
<1>7. CASE LeaveWorld
  BY <1>7, GameKeeps DEF LeaveWorld, GInv, Shape
<1> QED BY <1>1, <1>2, <1>3, <1>4, <1>5, <1>6, <1>7 DEF Next

-----------------------------------------------------------------------------
(* group.get and group.combatSummary tell of one reading of the members    *)
(* until the tables change, however the units change meanwhile.            *)
THEOREM AnswersAlwaysAgree == Spec => []AnswersAgree
<1>1. GInv => AnswersAgree
  <2> SUFFICES ASSUME GInv, told.group # NotAsked, told.summary # NotAsked
               PROVE  AnswersAgree
    BY DEF AnswersAgree
  <2>1. told.group[1] = cache.info /\ told.summary[1] = Summary(cache.info)
    BY DEF GInv, ToldIsKept
  <2>2. /\ Summary(cache.info).countDead =
             Cardinality({x \in cache.info.members : x.unit.state.dead})
        /\ Summary(cache.info).countInCombat =
             Cardinality({x \in cache.info.members : x.unit.state.inCombat})
    BY DEF Summary
  <2> QED BY <2>1, <2>2 DEF AnswersAgree
<1> QED BY <1>1, InitHolds, StepHolds, PTL DEF Spec

(* "Group data is rebuilt only when the group composition changes"         *)
(* (docs/EN/03-methods/group.md:3): a build finds other tables than the    *)
(* one before it.                                                          *)
THEOREM RebuildsFollowChanges == Spec => RebuiltOnlyOnChange
<1>1. GInv /\ [Next]_vars =>
        [cache.valid /\ cache' # cache => built # <<mem.party, mem.raid>>]_vars
  <2> SUFFICES ASSUME GInv, Next, cache.valid, cache' # cache, built = <<mem.party, mem.raid>>
               PROVE  FALSE
    OBVIOUS
  <2>1. Checksum([party |-> built[1], raid |-> built[2]]) = Checksum(mem)
    BY ChecksumOfTables
  <2>2. Fresh
    BY <2>1 DEF GInv, ChecksumOfBuilt, Fresh
  <2> QED
    BY <2>2 DEF Next, Get, CombatSummary, GetOrBuildGroup, Regroup, ObjectChanges,
                EnterWorld, LeaveWorld
<1> QED BY <1>1, InitHolds, StepHolds, PTL DEF Spec, RebuiltOnlyOnChange

-----------------------------------------------------------------------------
(* The tokens of a party: the invariant is that its table has PartyMax     *)
(* slots, and none of them holds the player.                               *)

SlotsAreOthers ==
    /\ "party" \in DOMAIN mem
    /\ mem.party \in [1 .. PartyMax -> Others \cup {NoGuid}]

LEMMA TableOf ==
    ASSUME NEW S, IsFiniteSet(S), NEW n \in Nat
    PROVE  Table(S, n) \in [1 .. n -> S \cup {NoGuid}]
<1>1. Cardinality(S) \in Nat /\ ExistsBijection(1 .. Cardinality(S), S)
  BY FS_CardinalityType
<1>2. PICK f \in [1 .. Cardinality(S) -> S] : IsInjective(f)
  BY <1>1 DEF ExistsBijection, Bijection, Injection, IsInjective
<1>3. SetToSeq(S) \in [1 .. Cardinality(S) -> S]
  BY <1>2 DEF SetToSeq
<1>4. Len(SetToSeq(S)) = Cardinality(S)
  BY <1>1, <1>3
<1>5. ASSUME NEW i \in 1 .. n
      PROVE  (IF i <= Len(SetToSeq(S)) THEN SetToSeq(S)[i] ELSE NoGuid) \in S \cup {NoGuid}
  BY <1>1, <1>3, <1>4
<1> QED BY <1>5 DEF Table

LEMMA RosterSlots ==
    ASSUME IsFiniteSet(Guid), NEW r \in Rosters
    PROVE  r.party \in [1 .. PartyMax -> Others \cup {NoGuid}]
<1>1. \A S \in SUBSET Others : Table(S, PartyMax) \in [1 .. PartyMax -> Others \cup {NoGuid}]
  <2> SUFFICES ASSUME NEW S \in SUBSET Others
               PROVE  Table(S, PartyMax) \in [1 .. PartyMax -> Others \cup {NoGuid}]
    OBVIOUS
  <2>1. IsFiniteSet(S)
    BY FS_Subset DEF Others
  <2>2. Table(S, PartyMax) \in [1 .. PartyMax -> S \cup {NoGuid}]
    BY <2>1, TableOf, UnitsAssumption
  <2> QED BY <2>2
<1>2. r = NoGroup \/ r \in Raid \/ r \in Party
  BY DEF Rosters
<1>3. \E S \in SUBSET Others : r.party = Table(S, PartyMax)
  <2>1. CASE r = NoGroup
    <3>1. r.party = Table({}, PartyMax)
      BY <2>1 DEF NoGroup
    <3> QED BY <3>1
  <2>2. CASE r \in Raid
    <3> DEFINE Raiders(R) ==
                 {[party |-> Table(S, PartyMax), raid |-> Table(R \cup {Me}, RaidMax),
                   partyLeader |-> p, raidLeader |-> l] :
                     S \in {S \in SUBSET R : Cardinality(S) <= PartyMax},
                     l \in Leaders \cap (R \cup {Me}), p \in {NoGuid, Me}}
    <3>1. Raid = UNION {Raiders(R) : R \in {R \in SUBSET Others : Cardinality(R) < RaidMax}}
      BY DEF Raid
    <3>2. \A R : r \in Raiders(R) => \E S \in SUBSET R : r.party = Table(S, PartyMax)
      OBVIOUS
    <3> HIDE DEF Raiders
    <3>3. PICK R \in SUBSET Others : r \in Raiders(R)
      BY <2>2, <3>1
    <3> QED BY <3>2, <3>3
  <2>3. CASE r \in Party
    <3> DEFINE In(S, l) == [NoGroup EXCEPT !.party = Table(S, PartyMax), !.partyLeader = l]
    <3>1. \A S, l : In(S, l).party = Table(S, PartyMax)
      BY DEF NoGroup
    <3>2. Party = {In(S, l) : S \in {S \in SUBSET Others : S # {} /\ Cardinality(S) <= PartyMax},
                              l \in Leaders}
      BY DEF Party
    <3> HIDE DEF In
    <3>3. PICK S \in SUBSET Others, l \in Leaders : r = In(S, l)
      BY <2>3, <3>2
    <3> QED BY <3>1, <3>3
  <2> QED BY <1>2, <2>1, <2>2, <2>3
<1> QED BY <1>1, <1>3

LEMMA InitSlots == ASSUME IsFiniteSet(Guid), Init PROVE SlotsAreOthers
<1>1. NoGroup \in Rosters
  BY DEF Rosters
<1>2. "party" \in DOMAIN mem /\ mem.party = NoGroup.party
  BY DEF Init, With
<1> QED BY <1>1, <1>2, RosterSlots DEF SlotsAreOthers

LEMMA StepSlots ==
    ASSUME IsFiniteSet(Guid), SlotsAreOthers, [Next]_vars PROVE SlotsAreOthers'
<1>1. ASSUME NEW r \in Rosters, Regroup(r) PROVE SlotsAreOthers'
  <2>1. "party" \in DOMAIN mem' /\ mem'.party = r.party
    BY <1>1 DEF Regroup, With, SlotsAreOthers
  <2> QED BY <2>1, RosterSlots DEF SlotsAreOthers
<1>2. ASSUME UNCHANGED mem PROVE SlotsAreOthers'
  BY <1>2 DEF SlotsAreOthers
<1>3. ASSUME "party" \in DOMAIN mem', mem'.party = mem.party PROVE SlotsAreOthers'
  BY <1>3 DEF SlotsAreOthers
<1>4. CASE Get \/ CombatSummary \/ UNCHANGED vars
  BY <1>2, <1>4 DEF Get, CombatSummary, vars
<1>5. ASSUME NEW g \in Guid, NEW o, ObjectChanges(g, o) PROVE SlotsAreOthers'
  BY <1>3, <1>5 DEF ObjectChanges, SlotsAreOthers
<1>6. ASSUME NEW o \in Object, EnterWorld(o) PROVE SlotsAreOthers'
  BY <1>3, <1>6 DEF EnterWorld, SlotsAreOthers
<1>7. CASE LeaveWorld
  BY <1>3, <1>7 DEF LeaveWorld, SlotsAreOthers
<1> QED BY <1>1, <1>4, <1>5, <1>6, <1>7 DEF Next

\* What the resolver makes of one digit after "party".
LEMMA PartyToken1 ==
    ASSUME NEW i \in 0 .. 9
    PROVE  ResolveUnitToken(mem, [word |-> "party", digits |-> <<i>>]) =
             (IF i \in 1 .. PartyMax THEN mem.party[i] ELSE NoGuid)
<1> DEFINE t == [word |-> "party", digits |-> <<i>>]
<1>1. t.word = "party" /\ t.digits # <<>> /\ Head(t.digits) = i
  OBVIOUS
<1>2. ResolveUnitToken(mem, t) = PartyMember(mem, t.digits)
  BY <1>1 DEF ResolveUnitToken
<1> QED BY <1>1, <1>2 DEF PartyMember

\* The members that buildGroup would list for a party.
LEMMA PartyMembers ==
    ASSUME SlotsAreOthers, InParty, mem.local = Me
    PROVE  {x.guid : x \in BuildGroup(mem).members} =
             {g \in InTable(mem.party) : UnitExists(GetObjectByGUID(mem, g))}
<1> DEFINE guids == InTable(mem.party) \cup {}
           loaded == {g \in guids \ {mem.local} : UnitExists(GetObjectByGUID(mem, g))}
<1>1. Me # NoGuid /\ Me \notin InTable(mem.party)
  BY GroupAssumption, UnitsAssumption DEF SlotsAreOthers, InTable, Others
<1>2. BuildGroup(mem).members = {BuildMember(mem, g) : g \in loaded}
  BY <1>1 DEF BuildGroup, InParty
<1>3. \A g : BuildMember(mem, g).guid = g
  BY DEF BuildMember
<1>4. {x.guid : x \in BuildGroup(mem).members} = loaded
  BY <1>2, <1>3
<1> QED BY <1>1, <1>4

LEMMA TokensOfParty ==
    ASSUME PartyMax <= 9, SlotsAreOthers, InParty, mem.local = Me
    PROVE  Named(PartyToken) =
             {g \in InTable(mem.party) : UnitExists(GetObjectByGUID(mem, g))}
<1> DEFINE Tok(i) == [word |-> "party", digits |-> <<i>>]
           Slot(i) == IF i \in 1 .. PartyMax THEN mem.party[i] ELSE NoGuid
<1>1. \A i \in 0 .. 9 : ResolveUnitToken(mem, Tok(i)) = Slot(i)
  BY PartyToken1
<1>2. \A i \in 0 .. 9 : UnitGet(mem, Tok(i)).exists <=> UnitExists(GetObjectByGUID(mem, Slot(i)))
  BY <1>1 DEF UnitGet, GetUnit
<1>3. \A i \in 0 .. 9 : UnitGet(mem, Tok(i)).exists => UnitGet(mem, Tok(i)).guid = Slot(i)
  BY <1>1 DEF UnitGet, GetUnit
<1>4. \A g : UnitExists(GetObjectByGUID(mem, g)) => g # NoGuid
  BY UnitsAssumption DEF UnitExists, IsValid, GetObjectByGUID
<1>5. /\ PartyMax \in Nat /\ DOMAIN mem.party = 1 .. PartyMax
      /\ \A i \in 1 .. PartyMax : i \in 0 .. 9
  BY UnitsAssumption DEF SlotsAreOthers
<1>6. ASSUME NEW g \in Named(PartyToken)
      PROVE  g \in InTable(mem.party) /\ UnitExists(GetObjectByGUID(mem, g))
  <2>1. PICK i \in 0 .. 9 : UnitGet(mem, Tok(i)).exists /\ g = UnitGet(mem, Tok(i)).guid
    BY <1>6 DEF Named, PartyToken
  <2>2. g = Slot(i) /\ UnitExists(GetObjectByGUID(mem, g))
    BY <1>2, <1>3, <2>1
  <2>3. g # NoGuid /\ i \in 1 .. PartyMax /\ g = mem.party[i]
    BY <1>4, <2>2
  <2> QED BY <1>5, <2>2, <2>3 DEF InTable
<1>7. ASSUME NEW g \in InTable(mem.party), UnitExists(GetObjectByGUID(mem, g))
      PROVE  g \in Named(PartyToken)
  <2>1. PICK i \in 1 .. PartyMax : g = mem.party[i]
    BY <1>5 DEF InTable
  <2>2. i \in 0 .. 9 /\ g = Slot(i)
    BY <1>5, <2>1
  <2>3. UnitGet(mem, Tok(i)).exists /\ UnitGet(mem, Tok(i)).guid = g
    BY <1>2, <1>3, <1>7, <2>2
  <2>4. Tok(i) \in PartyToken
    BY <2>2 DEF PartyToken
  <2> QED BY <2>3, <2>4 DEF Named
<1> QED BY <1>6, <1>7

(* The tokens party1, party2, ... name the loaded members of the party,    *)
(* for any table that one digit can index (the game's has four slots).     *)
THEOREM TokensNameMembers ==
    ASSUME PartyMax <= 9, IsFiniteSet(Guid)
    PROVE  Spec => []PartyTokensAreMembers
<1>1. SlotsAreOthers => PartyTokensAreMembers
  BY PartyMembers, TokensOfParty DEF PartyTokensAreMembers
<1>2. SlotsAreOthers /\ [Next]_vars => SlotsAreOthers'
  BY StepSlots
<1>3. Init => SlotsAreOthers
  BY InitSlots
<1> QED BY <1>1, <1>2, <1>3, PTL DEF Spec

-----------------------------------------------------------------------------
(* The checksum tells groups apart as far as words do: what the loops over *)
(* the tables come to, as sets of GUIDs.                                   *)

\* A table that is long enough holds each GUID of its set in one slot.
LEMMA TableHolds ==
    ASSUME NEW S \in SUBSET Guid, IsFiniteSet(S), NEW n \in Nat, Cardinality(S) <= n
    PROVE  /\ Table(S, n) \in [1 .. n -> S \cup {NoGuid}]
           /\ InTable(Table(S, n)) = S
           /\ \A i, j \in 1 .. n :
                Table(S, n)[i] = Table(S, n)[j] /\ Table(S, n)[i] # NoGuid => i = j
<1> DEFINE c == Cardinality(S)
           f == SetToSeq(S)
           T == Table(S, n)
<1>1. c \in Nat /\ ExistsBijection(1 .. c, S)
  BY FS_CardinalityType
<1>2. f \in [1 .. c -> S] /\ IsInjective(f)
  <2>1. \E g \in [1 .. c -> S] : IsInjective(g)
    BY <1>1 DEF ExistsBijection, Bijection, Injection
  <2> QED BY <2>1 DEF SetToSeq
<1>3. f \in Injection(1 .. c, S)
  BY <1>2 DEF Injection
<1>4. Cardinality(1 .. c) = c
  BY <1>1, FS_Interval
<1>5. f \in Surjection(1 .. c, S)
  BY <1>3, <1>4, FS_Injection
<1>6. Len(f) = c
  BY <1>1, <1>2
<1>7. T \in [1 .. n -> S \cup {NoGuid}]
  BY TableOf
<1>8. \A i \in 1 .. n : T[i] = IF i <= c THEN f[i] ELSE NoGuid
  BY <1>6 DEF Table
<1>9. NoGuid \notin S
  BY UnitsAssumption
<1> HIDE DEF f, T, c
<1>10. \A i \in 1 .. n : T[i] # NoGuid => i \in 1 .. c /\ T[i] = f[i]
  BY <1>1, <1>8
<1>11. \A g \in S : \E i \in 1 .. n : T[i] = g
  <2> SUFFICES ASSUME NEW g \in S PROVE \E i \in 1 .. n : T[i] = g
    OBVIOUS
  <2>1. PICK i \in 1 .. c : f[i] = g
    BY <1>5 DEF Surjection
  <2>2. i \in 1 .. n /\ T[i] = g
    BY <1>1, <1>8, <2>1 DEF c
  <2> QED BY <2>2
<1>12. InTable(T) = S
  BY <1>7, <1>9, <1>11 DEF InTable
<1>13. ASSUME NEW i \in 1 .. n, NEW k \in 1 .. n, T[i] = T[k], T[i] # NoGuid PROVE i = k
  BY <1>2, <1>10, <1>13 DEF IsInjective
<1> QED BY <1>7, <1>12, <1>13 DEF T

\* The GUIDs of S whose word has bit b.
Having(S, b) == {g \in S : b \in Word[g]}

\* The slots of a table whose word has bit b (odd in Checksum).
Slots(table, b) == {i \in DOMAIN table : table[i] # NoGuid /\ b \in Word[table[i]]}

LEMMA SlotsHaving ==
    ASSUME NEW S \in SUBSET Guid, IsFiniteSet(S), NEW n \in Nat, Cardinality(S) <= n, NEW b
    PROVE  /\ Cardinality(Slots(Table(S, n), b)) = Cardinality(Having(S, b))
           /\ Cardinality(Having(S, b)) \in Nat
<1> DEFINE T == Table(S, n)
           A == Slots(T, b)
           B == Having(S, b)
           h == [i \in A |-> T[i]]
<1>1. /\ T \in [1 .. n -> S \cup {NoGuid}] /\ InTable(T) = S
      /\ \A i, j \in 1 .. n : T[i] = T[j] /\ T[i] # NoGuid => i = j
  BY TableHolds
<1>2. IsFiniteSet(A)
  <2>1. A \in SUBSET (1 .. n)
    BY <1>1 DEF Slots
  <2>2. IsFiniteSet(1 .. n)
    BY FS_Interval
  <2> QED BY <2>1, <2>2, FS_Subset
<1> HIDE DEF T
<1>3. h \in [A -> B]
  BY <1>1 DEF Slots, Having
<1>4. IsInjective(h)
  BY <1>1 DEF Slots, IsInjective
<1>5. \A g \in B : \E i \in A : h[i] = g
  BY <1>1 DEF Slots, Having, InTable
<1>6. ExistsBijection(A, B)
  <2> HIDE DEF A, B, h
  <2>1. h \in Bijection(A, B)
    BY <1>3, <1>4, <1>5 DEF Bijection, Injection, Surjection
  <2> QED BY <2>1 DEF ExistsBijection
<1>7. Cardinality(A) = Cardinality(B)
  <2> HIDE DEF A, B
  <2> QED BY <1>2, <1>6, FS_Bijection
<1>8. Cardinality(B) \in Nat
  <2>1. B \in SUBSET S
    BY DEF Having
  <2>2. IsFiniteSet(B)
    BY <2>1, FS_Subset
  <2> QED BY <2>2, FS_CardinalityType
<1> QED BY <1>7, <1>8 DEF T

\* The checksum of a group whose party table holds S, all of them in the raid
\* table, too, if there is a raid, is that of the GUIDs in one table only.
LEMMA Parity ==
    ASSUME NEW q \in Nat, NEW s \in Nat, NEW d \in Nat, d = q - s
    PROVE  (s + q) % 2 = 1 <=> d % 2 = 1
<1>1. s + q = d + 2 * s
  OBVIOUS
<1> QED BY <1>1

LEMMA RaidChecksum ==
    ASSUME IsFiniteSet(Guid), NEW Q \in SUBSET Guid, NEW S \in SUBSET Q,
           Cardinality(S) <= PartyMax, Cardinality(Q) <= RaidMax,
           NEW m, m.party = Table(S, PartyMax), m.raid = Table(Q, RaidMax)
    PROVE  Checksum(m) = Odd(Q \ S)
<1>1. IsFiniteSet(Q) /\ IsFiniteSet(S) /\ S \in SUBSET Guid /\ PartyMax \in Nat /\ RaidMax \in Nat
  BY FS_Subset, UnitsAssumption
<1>2. ASSUME NEW b \in Bit
      PROVE  (Cardinality(Slots(m.party, b)) + Cardinality(Slots(m.raid, b))) % 2 = 1
               <=> Cardinality(Having(Q \ S, b)) % 2 = 1
  <2>1. /\ Cardinality(Slots(m.party, b)) = Cardinality(Having(S, b))
        /\ Cardinality(Slots(m.raid, b)) = Cardinality(Having(Q, b))
        /\ Cardinality(Having(S, b)) \in Nat /\ Cardinality(Having(Q, b)) \in Nat
    BY <1>1, SlotsHaving
  <2>2. /\ Having(Q \ S, b) = Having(Q, b) \ Having(S, b)
        /\ Having(Q, b) \cap Having(S, b) = Having(S, b)
        /\ Having(Q, b) \in SUBSET Q
    BY DEF Having
  <2>3. IsFiniteSet(Having(Q, b))
    BY <1>1, <2>2, FS_Subset
  <2>4. /\ Cardinality(Having(Q \ S, b)) = Cardinality(Having(Q, b)) - Cardinality(Having(S, b))
        /\ Cardinality(Having(Q \ S, b)) \in Nat
    BY <2>2, <2>3, FS_Difference, FS_CardinalityType
  <2> QED BY <2>1, <2>4, Parity
<1>3. Checksum(m) = {b \in Bit :
         (Cardinality(Slots(m.party, b)) + Cardinality(Slots(m.raid, b))) % 2 = 1}
  BY DEF Checksum, Slots
<1>4. Odd(Q \ S) = {b \in Bit : Cardinality(Having(Q \ S, b)) % 2 = 1}
  BY DEF Odd, Having
<1> QED BY <1>2, <1>3, <1>4

LEMMA PartyChecksum ==
    ASSUME IsFiniteSet(Guid), NEW S \in SUBSET Guid, Cardinality(S) <= PartyMax,
           NEW m, m.party = Table(S, PartyMax), m.raid = Table({}, RaidMax)
    PROVE  Checksum(m) = Odd(S)
<1>1. IsFiniteSet(S) /\ PartyMax \in Nat /\ RaidMax \in Nat
  BY FS_Subset, UnitsAssumption
<1>2. ASSUME NEW b \in Bit
      PROVE  (Cardinality(Slots(m.party, b)) + Cardinality(Slots(m.raid, b))) % 2 = 1
               <=> Cardinality(Having(S, b)) % 2 = 1
  <2>1. /\ Cardinality(Slots(m.party, b)) = Cardinality(Having(S, b))
        /\ Cardinality(Slots(m.raid, b)) = Cardinality(Having({}, b))
        /\ Cardinality(Having(S, b)) \in Nat
    BY <1>1, SlotsHaving, FS_EmptySet
  <2>2. Cardinality(Having({}, b)) = 0
    <3>1. Having({}, b) = {}
      BY DEF Having
    <3> QED BY <3>1, FS_EmptySet
  <2> QED BY <2>1, <2>2
<1>3. Checksum(m) = {b \in Bit :
         (Cardinality(Slots(m.party, b)) + Cardinality(Slots(m.raid, b))) % 2 = 1}
  BY DEF Checksum, Slots
<1>4. Odd(S) = {b \in Bit : Cardinality(Having(S, b)) % 2 = 1}
  BY DEF Odd, Having
<1> QED BY <1>2, <1>3, <1>4

-----------------------------------------------------------------------------
(* What group.get names in a party is in it.                               *)

\* The forms a group has in memory: none, a party, a raid.
NotGrouped(m) == m.partyLeader = NoGuid /\ m.raidLeader = NoGuid

PartyOf(m, S) ==
    /\ m.partyLeader # NoGuid /\ m.raidLeader = NoGuid
    /\ S \in SUBSET Others /\ Cardinality(S) <= PartyMax
    /\ m.party = Table(S, PartyMax) /\ m.raid = Table({}, RaidMax)

RaidOf(m, S, R) ==
    /\ m.raidLeader # NoGuid
    /\ R \in SUBSET Others /\ Cardinality(R) < RaidMax
    /\ S \in SUBSET R /\ Cardinality(S) <= PartyMax
    /\ m.party = Table(S, PartyMax) /\ m.raid = Table(R \cup {Me}, RaidMax)

Grouped(m) == NotGrouped(m) \/ (\E S : PartyOf(m, S)) \/ (\E S, R : RaidOf(m, S, R))

\* The group that is kept is a party with the checksum of its members, or it
\* has the checksum of a set with the player in it, as only raids do.
KeptParty(info, checksum) ==
    \E S \in SUBSET Others :
      /\ checksum = Odd(S) /\ info.type = "party"
      /\ {x.guid : x \in info.members} \subseteq S

KeptRaid(checksum) == \E T \in SUBSET Guid : Me \in T /\ checksum = Odd(T)

PartyInv ==
    /\ {"party", "raid", "partyLeader", "raidLeader"} \subseteq DOMAIN mem
    /\ Grouped(mem)
    /\ cache.valid /\ cache.info.valid =>
         KeptParty(cache.info, cache.checksum) \/ KeptRaid(cache.checksum)

LEMMA RosterGrouped == ASSUME NEW r \in Rosters PROVE Grouped(r)
<1>1. r = NoGroup \/ r \in Raid \/ r \in Party
  BY DEF Rosters
<1>2. CASE r = NoGroup
  BY <1>2 DEF NoGroup, Grouped, NotGrouped
<1>3. CASE r \in Raid
  <2> DEFINE Roster(S, R, l, p) ==
               [party |-> Table(S, PartyMax), raid |-> Table(R \cup {Me}, RaidMax),
                partyLeader |-> p, raidLeader |-> l]
             Raiders(R) ==
               {Roster(S, R, l, p) : S \in {S \in SUBSET R : Cardinality(S) <= PartyMax},
                                     l \in Leaders \cap (R \cup {Me}), p \in {NoGuid, Me}}
  <2>1. Raid = UNION {Raiders(R) : R \in {R \in SUBSET Others : Cardinality(R) < RaidMax}}
    BY DEF Raid
  <2>2. \A S, R, l, p : /\ Roster(S, R, l, p).party = Table(S, PartyMax)
                        /\ Roster(S, R, l, p).raid = Table(R \cup {Me}, RaidMax)
                        /\ Roster(S, R, l, p).raidLeader = l
    OBVIOUS
  <2> HIDE DEF Roster
  <2>3. \A R : r \in Raiders(R) =>
          \E S \in SUBSET R : Cardinality(S) <= PartyMax /\ \E l \in Leaders : \E p : r = Roster(S, R, l, p)
    OBVIOUS
  <2> HIDE DEF Raiders
  <2>4. PICK R \in SUBSET Others : Cardinality(R) < RaidMax /\ r \in Raiders(R)
    BY <1>3, <2>1
  <2>5. PICK S \in SUBSET R : Cardinality(S) <= PartyMax /\ \E l \in Leaders : \E p : r = Roster(S, R, l, p)
    BY <2>3, <2>4
  <2>6. RaidOf(r, S, R)
    BY <2>2, <2>4, <2>5, GroupAssumption, UnitsAssumption DEF RaidOf
  <2> QED BY <2>6 DEF Grouped
<1>4. CASE r \in Party
  <2> DEFINE In(S, l) == [NoGroup EXCEPT !.party = Table(S, PartyMax), !.partyLeader = l]
  <2>1. \A S, l : /\ In(S, l).party = Table(S, PartyMax) /\ In(S, l).raid = Table({}, RaidMax)
                  /\ In(S, l).partyLeader = l /\ In(S, l).raidLeader = NoGuid
    BY DEF NoGroup
  <2>2. Party = {In(S, l) : S \in {S \in SUBSET Others : S # {} /\ Cardinality(S) <= PartyMax},
                            l \in Leaders}
    BY DEF Party
  <2> HIDE DEF In
  <2>3. PICK S \in SUBSET Others, l \in Leaders : Cardinality(S) <= PartyMax /\ r = In(S, l)
    BY <1>4, <2>2
  <2>4. PartyOf(r, S)
    BY <2>1, <2>3, GroupAssumption, UnitsAssumption DEF PartyOf
  <2> QED BY <2>4 DEF Grouped
<1> QED BY <1>1, <1>2, <1>3, <1>4

\* What a build keeps.
LEMMA BuiltIsKept ==
    ASSUME IsFiniteSet(Guid), Grouped(mem), BuildGroup(mem).valid
    PROVE  KeptParty(BuildGroup(mem), Checksum(mem)) \/ KeptRaid(Checksum(mem))
<1>1. ASSUME NEW S, PartyOf(mem, S) PROVE KeptParty(BuildGroup(mem), Checksum(mem))
  <2>1. /\ S \in SUBSET Guid /\ Cardinality(S) <= PartyMax
        /\ mem.party = Table(S, PartyMax) /\ mem.raid = Table({}, RaidMax)
    BY <1>1 DEF PartyOf, Others
  <2>2. Checksum(mem) = Odd(S)
    BY <2>1, PartyChecksum
  <2>3. InTable(mem.party) = S
    BY <2>1, TableHolds, FS_Subset, UnitsAssumption
  <2> DEFINE loaded == {g \in ((InTable(mem.party) \cup {}) \ {mem.local}) :
                          UnitExists(GetObjectByGUID(mem, g))}
  <2>4. mem.partyLeader # NoGuid /\ mem.raidLeader = NoGuid
    BY <1>1 DEF PartyOf
  <2>5. mem.local # NoGuid
    BY <2>4 DEF BuildGroup, None
  <2>6. /\ BuildGroup(mem).type = "party"
        /\ BuildGroup(mem).members = {BuildMember(mem, g) : g \in loaded}
    BY <2>4, <2>5 DEF BuildGroup
  <2>7. \A g : BuildMember(mem, g).guid = g
    BY DEF BuildMember
  <2>8. {x.guid : x \in BuildGroup(mem).members} \subseteq S
    BY <2>3, <2>6, <2>7
  <2> QED BY <1>1, <2>2, <2>6, <2>8 DEF KeptParty, PartyOf
<1>2. ASSUME NEW S, NEW R, RaidOf(mem, S, R) PROVE KeptRaid(Checksum(mem))
  <2> DEFINE Q == R \cup {Me}
  <2>1. Q \in SUBSET Guid /\ S \in SUBSET Q /\ Me \in Q \ S
    BY <1>2, GroupAssumption DEF RaidOf, Others
  <2>2. IsFiniteSet(R) /\ Cardinality(R) \in Nat /\ Me \notin R
    BY <1>2, FS_Subset, FS_CardinalityType DEF RaidOf, Others
  <2>3. Cardinality(Q) = Cardinality(R) + 1
    BY <2>2, FS_AddElement
  <2>4. Cardinality(Q) <= RaidMax /\ Cardinality(S) <= PartyMax
    BY <1>2, <2>2, <2>3, UnitsAssumption DEF RaidOf
  <2>5. mem.party = Table(S, PartyMax) /\ mem.raid = Table(Q, RaidMax)
    BY <1>2 DEF RaidOf
  <2> HIDE DEF Q
  <2>6. Checksum(mem) = Odd(Q \ S)
    BY <2>1, <2>4, <2>5, RaidChecksum
  <2> QED BY <2>1, <2>6 DEF KeptRaid
<1>3. ~NotGrouped(mem)
  BY DEF NotGrouped, BuildGroup, None
<1> QED BY <1>1, <1>2, <1>3 DEF Grouped

LEMMA InitParty == Init => PartyInv
<1> SUFFICES ASSUME Init PROVE PartyInv
  OBVIOUS
<1>1. /\ {"party", "raid", "partyLeader", "raidLeader"} \subseteq DOMAIN mem
      /\ mem.partyLeader = NoGuid /\ mem.raidLeader = NoGuid
  BY DEF Init, With, NoGroup
<1> QED BY <1>1 DEF Init, PartyInv, Grouped, NotGrouped

LEMMA StepParty ==
    ASSUME IsFiniteSet(Guid), PartyInv, [Next]_vars PROVE PartyInv'
<1>1. CASE (Get \/ CombatSummary)
  <2>1. mem' = mem /\ GetOrBuildGroup
    BY <1>1 DEF Get, CombatSummary
  <2>2. CASE Fresh
    BY <2>1, <2>2 DEF GetOrBuildGroup, PartyInv, Grouped, NotGrouped, PartyOf, RaidOf, KeptParty
  <2>3. CASE ~Fresh
    <3>1. cache'.info = BuildGroup(mem) /\ cache'.checksum = Checksum(mem)
      BY <2>1, <2>3 DEF GetOrBuildGroup
    <3>2. cache'.info.valid =>
            KeptParty(cache'.info, cache'.checksum) \/ KeptRaid(cache'.checksum)
      BY <3>1, BuiltIsKept DEF PartyInv
    <3> QED BY <2>1, <3>2 DEF PartyInv, Grouped, NotGrouped, PartyOf, RaidOf, KeptParty, KeptRaid
  <2> QED BY <2>2, <2>3
<1>2. ASSUME UNCHANGED cache, DOMAIN mem' = DOMAIN mem,
             NEW r, Grouped(r), mem'.party = r.party, mem'.raid = r.raid,
             mem'.partyLeader = r.partyLeader, mem'.raidLeader = r.raidLeader
      PROVE  PartyInv'
  <2>1. Grouped(mem)'
    BY <1>2 DEF Grouped, NotGrouped, PartyOf, RaidOf
  <2> QED BY <1>2, <2>1 DEF PartyInv, KeptParty, KeptRaid
<1>3. ASSUME NEW r \in Rosters, Regroup(r) PROVE PartyInv'
  <2>1. /\ UNCHANGED cache /\ DOMAIN mem' = DOMAIN mem
        /\ mem'.party = r.party /\ mem'.raid = r.raid
        /\ mem'.partyLeader = r.partyLeader /\ mem'.raidLeader = r.raidLeader
    BY <1>3 DEF Regroup, With, PartyInv
  <2> QED BY <1>2, <2>1, RosterGrouped
<1>4. ASSUME UNCHANGED cache, DOMAIN mem' = DOMAIN mem, mem'.party = mem.party,
             mem'.raid = mem.raid, mem'.partyLeader = mem.partyLeader,
             mem'.raidLeader = mem.raidLeader
      PROVE  PartyInv'
  BY <1>2, <1>4 DEF PartyInv
<1>5. ASSUME NEW g \in Guid, NEW o, ObjectChanges(g, o) PROVE PartyInv'
  BY <1>4, <1>5 DEF ObjectChanges, PartyInv
<1>6. ASSUME NEW o \in Object, EnterWorld(o) PROVE PartyInv'
  BY <1>4, <1>6 DEF EnterWorld, PartyInv
<1>7. CASE LeaveWorld
  BY <1>4, <1>7 DEF LeaveWorld, PartyInv
<1>8. CASE UNCHANGED vars
  BY <1>4, <1>8 DEF vars
<1> QED BY <1>1, <1>3, <1>5, <1>6, <1>7, <1>8 DEF Next

(* In a party group.get names nobody who is not in it, as long as no two   *)
(* sets of GUIDs have one checksum: the checksum of a party is never that  *)
(* of another party, nor of a raid, whose table has the player in it.      *)
THEOREM PartyStaysCurrent == ASSUME IsFiniteSet(Guid) PROVE Spec => []PartyIsCurrent
<1>1. GInv /\ PartyInv => PartyIsCurrent
  <2> SUFFICES ASSUME GInv, PartyInv, Independent, InParty, told.group # NotAsked,
                      told.group[1].valid
               PROVE  /\ told.group[1].type = "party"
                      /\ {x.guid : x \in told.group[1].members} \subseteq InTable(mem.party)
    BY DEF PartyIsCurrent
  <2>1. told.group[1] = cache.info /\ cache.valid /\ cache.checksum = Checksum(mem)
    BY DEF GInv, ToldIsKept, Fresh
  <2>2. PICK P : PartyOf(mem, P)
    BY DEF InParty, PartyInv, Grouped, NotGrouped, RaidOf
  <2>3. P \in SUBSET Guid /\ Cardinality(P) <= PartyMax /\ Me \notin P
        /\ mem.party = Table(P, PartyMax) /\ mem.raid = Table({}, RaidMax)
    BY <2>2 DEF PartyOf, Others
  <2>4. Checksum(mem) = Odd(P)
    BY <2>3, PartyChecksum
  <2>5. InTable(mem.party) = P
    BY <2>3, TableHolds, FS_Subset, UnitsAssumption
  <2>6. ~KeptRaid(cache.checksum)
    BY <2>1, <2>3, <2>4 DEF KeptRaid, Independent
  <2>7. PICK S \in SUBSET Others : /\ Checksum(mem) = Odd(S) /\ cache.info.type = "party"
                                   /\ {x.guid : x \in cache.info.members} \subseteq S
    BY <2>1, <2>6 DEF PartyInv, KeptParty
  <2>8. S = P
    BY <2>3, <2>4, <2>7 DEF Independent, Others
  <2> QED BY <2>1, <2>5, <2>7, <2>8
<1>2. PartyInv /\ [Next]_vars => PartyInv'
  BY StepParty
<1> QED BY <1>1, <1>2, InitHolds, StepHolds, InitParty, PTL DEF Spec

-----------------------------------------------------------------------------
(* StateCache.                                                             *)

\* What update() copied is what it replaces.  A listener has the entry that is
\* kept; between the store and the events it may still have the one before.
PlayerFollows ==
    /\ pc = "copied" => prev = entries
    /\ view.player # NoPlayer => entries.player.valid
    /\ view.player # NoPlayer /\ pc # "stored" => view.player = ViewOfPlayer(entries.player)
    /\ view.player # NoPlayer /\ pc = "stored" =>
         \/ view.player = ViewOfPlayer(entries.player)
         \/ prev.player.valid /\ view.player = ViewOfPlayer(prev.player)

PlaceFollows ==
    /\ view.place # NoPlace => entries.world.valid
    /\ view.place # NoPlace /\ pc # "stored" => view.place = Place(entries.world)
    /\ view.place # NoPlace /\ pc = "stored" =>
         \/ view.place = Place(entries.world)
         \/ prev.world.valid /\ view.place = Place(prev.world)

StateShape ==
    /\ view = [player |-> view.player, place |-> view.place]
    /\ pc \in {"game", "copied", "stored", "emitted"}

StateInv == StateShape /\ PlayerFollows /\ PlaceFollows

\* The screen of the last event is the screen remembered.
PipeIsLast == pipe.new = last

-----------------------------------------------------------------------------
\* The events of an update bring a listener from what was to what is, and do no
\* harm to one that has it already.
LEMMA PlayerEvents ==
    ASSUME NEW p, NEW q, NEW v, v \in {ViewOfPlayer(p), ViewOfPlayer(q)}
    PROVE  EmitPlayer(p, q, v) = ViewOfPlayer(q)
BY DEF EmitPlayer, ViewOfPlayer

LEMMA PlaceEvents ==
    ASSUME NEW p, NEW q, NEW v, v \in {Place(p), Place(q)}
    PROVE  EmitPlace(p, q, v) = Place(q)
BY DEF EmitPlace, Place

LEMMA StateInitHolds == StateInit => StateInv /\ PipeIsLast
BY DEF StateInit, StateInv, PipeIsLast, StateShape, PlayerFollows, PlaceFollows

LEMMA StateStepHolds == StateInv /\ [StateNext]_stateVars => StateInv'
<1> SUFFICES ASSUME StateInv, [StateNext]_stateVars PROVE StateInv'
  OBVIOUS
<1> USE DEF StateInv, StateShape, PlayerFollows, PlaceFollows
<1>1. CASE UNCHANGED stateVars
  BY <1>1 DEF stateVars
<1>2. CASE UpdateCopy
  BY <1>2 DEF UpdateCopy
<1>3. CASE UpdateStore
  <2>1. view'.place = view.place /\ view'.player \in {view.player, NoPlayer}
    BY <1>3 DEF UpdateStore
  <2>2. entries'.world.valid
    BY <1>3 DEF UpdateStore, ReadWorld
  <2>3. view'.player # NoPlayer => entries'.player.valid
    BY <1>3 DEF UpdateStore
  <2>4. prev' = entries /\ pc' = "stored"
    BY <1>3 DEF UpdateStore
  <2>5. view' = [player |-> view'.player, place |-> view'.place]
    BY <1>3 DEF UpdateStore
  <2> QED BY <1>3, <2>1, <2>2, <2>3, <2>4, <2>5 DEF UpdateStore
<1>4. CASE UpdateEmit
  <2>1. /\ view'.player # NoPlayer => view'.player = ViewOfPlayer(entries.player) /\ entries.player.valid
        /\ view'.place # NoPlace => view'.place = Place(entries.world) /\ entries.world.valid
    BY <1>4, PlayerEvents, PlaceEvents DEF UpdateEmit
  <2> QED BY <1>4, <2>1 DEF UpdateEmit
<1>5. CASE UpdateScreen
  BY <1>5 DEF UpdateScreen
<1>6. CASE GetPlayer
  BY <1>6 DEF GetPlayer
<1>7. CASE GetWorld
  BY <1>7 DEF GetWorld
<1>8. ASSUME NEW m \in Image, Play(m) PROVE StateInv'
  BY <1>8 DEF Play
<1> QED BY <1>1, <1>2, <1>3, <1>4, <1>5, <1>6, <1>7, <1>8 DEF StateNext, Update

-----------------------------------------------------------------------------
(* Whoever asks once, at any point of an update, and then applies the      *)
(* events of the bus has what the cache has when the update is through.    *)
THEOREM FollowersKnow == StateSpec => []FollowerKnows
<1>1. StateInv => FollowerKnows
  BY DEF StateInv, StateShape, PlayerFollows, PlaceFollows, FollowerKnows
<1> QED BY <1>1, StateInitHolds, StateStepHolds, PTL DEF StateSpec

LEMMA StepPipe == PipeIsLast /\ [StateNext]_stateVars => PipeIsLast'
BY DEF PipeIsLast, StateNext, stateVars, Update, UpdateCopy, UpdateStore, UpdateEmit, UpdateScreen, GetPlayer,
       GetWorld, Play

(* The events client.screenChanged are a chain: each begins where the one  *)
(* before ended, and none goes from a screen to itself.                    *)
THEOREM ScreensFormChain == StateSpec => ScreensChain
<1>1. PipeIsLast /\ [StateNext]_stateVars =>
        [pipe' # pipe => pipe'.old = pipe.new /\ pipe'.new # pipe'.old]_stateVars
  BY DEF PipeIsLast, StateNext, stateVars, Update, UpdateCopy, UpdateStore, UpdateEmit, UpdateScreen, GetPlayer,
         GetWorld, Play
<1> QED BY <1>1, StateInitHolds, StepPipe, PTL DEF StateSpec, ScreensChain

-----------------------------------------------------------------------------
(* LoadingPoll.                                                            *)

\* Outside a loading nothing is remembered of the last one.
Closed == ~loading => seen = {} /\ lastEmitted = -1

\* The throttle's clock is never ahead of the last progress event.
ThrottleBehind == loading => sinceProgress <= quiet

\* Until real progress is noted, only the first value can have been reported.
OnlyFirst == loading /\ ~hadReal => seen \subseteq {firstProgress}

LoadingInv == TypeOK /\ LoadingOutsideWorld /\ Closed /\ ThrottleBehind /\ OnlyFirst

\* An age stays within its limit, never falls, and keeps the order of two.
LEMMA AgedFacts ==
    ASSUME NEW limit \in Nat, NEW dt \in Nat,
           NEW a \in 0 .. limit, NEW b \in 0 .. limit, a <= b
    PROVE  /\ Aged(a, dt, limit) \in 0 .. limit
           /\ Aged(a, dt, limit) >= a
           /\ Aged(a, dt, limit) <= Aged(b, dt, limit)
BY DEF Aged

LEMMA AgedRange ==
    ASSUME NEW limit \in Nat, NEW dt \in Nat, NEW a \in 0 .. limit
    PROVE  Aged(a, dt, limit) \in 0 .. limit
BY DEF Aged

LEMMA AgesRange ==
    ASSUME TypeOK, NEW dt \in Gap
    PROVE  /\ Aged(quiet, dt, Throttle) \in 0 .. Throttle
           /\ Aged(sinceProgress, dt, Throttle) \in 0 .. Throttle
           /\ Aged(sinceStartup, dt, StartupTimeout + 1) \in 0 .. StartupTimeout + 1
<1>1. dt \in Nat /\ Throttle \in Nat /\ StartupTimeout + 1 \in Nat
  BY LoadingAssumption
<1>2. /\ quiet \in 0 .. Throttle /\ sinceProgress \in 0 .. Throttle
      /\ sinceStartup \in 0 .. StartupTimeout + 1
  BY DEF TypeOK
<1> QED BY <1>1, <1>2, AgedRange

\* What PollFlag may be called with.
Input(flag, inWorld, prog, dt) ==
    flag \in Flag \cup {-1} /\ inWorld \in BOOLEAN /\ prog \in Progress /\ dt \in Gap

LEMMA PollCases ==
    ASSUME PollNext
    PROVE  \E flag \in Flag \cup {-1}, inWorld \in BOOLEAN, prog \in Progress, dt \in Gap :
             PollFlag(flag, inWorld, prog, dt)
BY DEF PollNext, Poll

LEMMA EventNames ==
    /\ <<>> \in Seq({"startup", "progress", "finished"})
    /\ <<"startup">> \in Seq({"startup", "progress", "finished"})
    /\ <<"progress">> \in Seq({"startup", "progress", "finished"})
    /\ <<"finished">> \in Seq({"startup", "progress", "finished"})
    /\ <<"progress">> \o <<>> = <<"progress">>
    /\ <<>> \o <<"finished">> = Append(<<>>, "finished")
    /\ <<"progress">> \o <<"finished">> = Append(<<"progress">>, "finished")
    /\ Append(<<>>, "finished") \in Seq({"startup", "progress", "finished"})
    /\ Append(<<"progress">>, "finished") \in Seq({"startup", "progress", "finished"})
    /\ <<>> \o <<>> = <<>>
OBVIOUS

-----------------------------------------------------------------------------
LEMMA InitLoading == PollInit => LoadingInv
<1> SUFFICES ASSUME PollInit PROVE LoadingInv
  OBVIOUS
<1>1. out \in Seq({"startup", "progress", "finished"})
  BY EventNames DEF PollInit
<1>2. /\ sinceProgress \in 0 .. Throttle /\ quiet \in 0 .. Throttle
      /\ sinceStartup \in 0 .. StartupTimeout + 1
  BY LoadingAssumption DEF PollInit
<1>3. TypeOK
  BY <1>1, <1>2 DEF PollInit, TypeOK
<1> QED BY <1>3 DEF PollInit, LoadingInv, LoadingOutsideWorld, Closed, ThrottleBehind, OnlyFirst

LEMMA PollStartupKeeps ==
    ASSUME LoadingInv, NEW flag, NEW inWorld, NEW prog, NEW dt, Input(flag, inWorld, prog, dt),
           gap' = dt, PollStartup(flag, inWorld, prog, dt)
    PROVE  LoadingInv'
<1> USE LoadingAssumption DEF LoadingInv, Input, PollStartup, Remember, Ready
<1>1. Aged(quiet, dt, Throttle) \in 0 .. Throttle
  BY AgesRange
<1>2. TypeOK'
  <2>1. out' \in Seq({"startup", "progress", "finished"})
    BY EventNames
  <2>2. /\ loading' \in BOOLEAN /\ lastFlag' \in Flag \cup {-1}
        /\ lastInWorld' \in BOOLEAN /\ hadReal' \in BOOLEAN
    OBVIOUS
  <2>3. /\ lastEmitted' \in Progress \cup {-1}
        /\ firstProgress' \in Progress \cup {-1}
        /\ idleProgress' \in Progress \cup {-1}
    OBVIOUS
  <2>4. /\ sinceProgress' \in 0 .. Throttle /\ sinceStartup' \in 0 .. StartupTimeout + 1
        /\ quiet' \in 0 .. Throttle /\ seen' \in SUBSET Progress
        /\ gap' \in Gap \cup {0}
    BY <1>1
  <2> QED BY <2>1, <2>2, <2>3, <2>4 DEF TypeOK
<1>3. LoadingOutsideWorld'
  BY DEF LoadingOutsideWorld
<1>4. Closed' /\ OnlyFirst'
  BY DEF Closed, OnlyFirst
<1>5. ThrottleBehind'
  BY <1>1 DEF ThrottleBehind
<1> QED BY <1>2, <1>3, <1>4, <1>5

LEMMA PollIdleKeeps ==
    ASSUME LoadingInv, NEW flag, NEW inWorld, NEW prog, NEW dt, Input(flag, inWorld, prog, dt),
           gap' = dt, PollIdle(flag, inWorld, prog, dt)
    PROVE  LoadingInv'
<1> USE LoadingAssumption DEF LoadingInv, Input, PollIdle, Remember
<1>1. /\ Aged(quiet, dt, Throttle) \in 0 .. Throttle
      /\ Aged(sinceProgress, dt, Throttle) \in 0 .. Throttle
      /\ Aged(sinceStartup, dt, StartupTimeout + 1) \in 0 .. StartupTimeout + 1
  BY AgesRange
<1>2. TypeOK'
  BY <1>1, EventNames DEF TypeOK
<1>3. ~loading /\ ~loading'
  OBVIOUS
<1> QED BY <1>2, <1>3 DEF LoadingOutsideWorld, Closed, ThrottleBehind, OnlyFirst

LEMMA PollLoadingKeeps ==
    ASSUME LoadingInv, NEW flag, NEW inWorld, NEW prog, NEW dt, Input(flag, inWorld, prog, dt),
           gap' = dt, PollLoading(flag, inWorld, prog, dt)
    PROVE  LoadingInv'
<1> USE LoadingAssumption DEF LoadingInv, Input
<1>1. /\ Aged(quiet, dt, Throttle) \in 0 .. Throttle
      /\ Aged(sinceProgress, dt, Throttle) \in 0 .. Throttle
      /\ Aged(sinceStartup, dt, StartupTimeout + 1) \in 0 .. StartupTimeout + 1
  BY AgesRange
<1>2. Aged(sinceProgress, dt, Throttle) <= Aged(quiet, dt, Throttle)
  BY AgedFacts DEF TypeOK, ThrottleBehind, PollLoading
<1>3. TypeOK'
  <2>1. out' \in Seq({"startup", "progress", "finished"})
    BY EventNames DEF PollLoading
  <2>2. /\ loading' \in BOOLEAN /\ lastFlag' \in Flag \cup {-1}
        /\ lastInWorld' \in BOOLEAN /\ hadReal' \in BOOLEAN
    BY DEF TypeOK, PollLoading, Remember, Real
  <2>3. /\ lastEmitted' \in Progress \cup {-1}
        /\ firstProgress' \in Progress \cup {-1}
        /\ idleProgress' \in Progress \cup {-1}
    BY DEF TypeOK, PollLoading
  <2>4. /\ sinceProgress' \in 0 .. Throttle /\ sinceStartup' \in 0 .. StartupTimeout + 1
        /\ quiet' \in 0 .. Throttle /\ seen' \in SUBSET Progress
        /\ gap' \in Gap \cup {0}
    BY <1>1 DEF TypeOK, PollLoading
  <2> QED BY <2>1, <2>2, <2>3, <2>4 DEF TypeOK
<1>4. LoadingOutsideWorld'
  BY DEF LoadingOutsideWorld, PollLoading, Remember, Finishes
<1>5. Closed'
  BY DEF Closed, PollLoading
<1>6. ThrottleBehind'
  BY <1>2 DEF ThrottleBehind, PollLoading
<1>7. OnlyFirst'
  BY DEF OnlyFirst, PollLoading, Real, Closed
<1> QED BY <1>3, <1>4, <1>5, <1>6, <1>7

LEMMA StepLoading == LoadingInv /\ [PollNext]_pollVars => LoadingInv'
<1> SUFFICES ASSUME LoadingInv, [PollNext]_pollVars PROVE LoadingInv'
  OBVIOUS
<1>1. CASE PollNext
  <2>1. PICK flag \in Flag \cup {-1}, inWorld \in BOOLEAN, prog \in Progress, dt \in Gap :
          PollFlag(flag, inWorld, prog, dt)
    BY <1>1, PollCases
  <2>2. Input(flag, inWorld, prog, dt)
    BY DEF Input
  <2> QED BY <2>1, <2>2, PollStartupKeeps, PollIdleKeeps, PollLoadingKeeps DEF PollFlag
<1>2. CASE UNCHANGED pollVars
  BY <1>2 DEF pollVars, game, LoadingInv, TypeOK, LoadingOutsideWorld, Closed, ThrottleBehind, OnlyFirst
<1> QED BY <1>1, <1>2

LEMMA LoadingInvariance == PollSpec => []LoadingInv
BY InitLoading, StepLoading, PTL DEF PollSpec

(* The state of PollFlag has its types: flags, progress values and ages    *)
(* stay in range for every throttle and timeout.                           *)
THEOREM LoadingTypeCorrect == PollSpec => []TypeOK
<1>1. LoadingInv => TypeOK
  BY DEF LoadingInv
<1> QED BY <1>1, LoadingInvariance, PTL

(* No poll leaves a loading open in the world: PollFlag always notices the *)
(* entry it waits for.                                                     *)
THEOREM NoLoadingInWorld == PollSpec => []LoadingOutsideWorld
<1>1. LoadingInv => LoadingOutsideWorld
  BY DEF LoadingInv
<1> QED BY <1>1, LoadingInvariance, PTL

-----------------------------------------------------------------------------
LEMMA InitEvents == PollInit => Events!Init
BY DEF PollInit, Events!Init

LEMMA StartupRefines ==
    ASSUME LoadingInv, NEW flag, NEW inWorld, NEW prog, NEW dt, Input(flag, inWorld, prog, dt),
           gap' = dt, PollStartup(flag, inWorld, prog, dt)
    PROVE  Events!Next
<1>1. Events!Startup(dt)
  BY DEF PollStartup, Events!Startup, Events!Age, Aged, LoadingInv, Closed, Ready
<1> QED BY <1>1 DEF Events!Next, Input

LEMMA IdleRefines ==
    ASSUME LoadingInv, NEW flag, NEW inWorld, NEW prog, NEW dt, Input(flag, inWorld, prog, dt),
           gap' = dt, PollIdle(flag, inWorld, prog, dt)
    PROVE  Events!Next
<1>1. Events!Pass(dt)
  BY DEF PollIdle, Events!Pass, Events!Age, Aged
<1> QED BY <1>1 DEF Events!Next, Input

\* A loading given up has reported at most one value.
LEMMA GivenUpUnmoved ==
    ASSUME LoadingInv, NEW inWorld, NEW prog \in Progress, NEW dt, loading,
           GivesUp(inWorld, prog, dt)
    PROVE  /\ ~Events!Moved(seen)
           /\ Reports(prog, dt) => ~Events!Moved(seen \cup {prog})
BY DEF GivesUp, Real, LoadingInv, OnlyFirst, Events!Moved

LEMMA LoadingRefines ==
    ASSUME LoadingInv, NEW flag, NEW inWorld, NEW prog, NEW dt, Input(flag, inWorld, prog, dt),
           gap' = dt, PollLoading(flag, inWorld, prog, dt)
    PROVE  Events!Next
<1> DEFINE finishes == Finishes(inWorld)
           gives == GivesUp(inWorld, prog, dt)
<1>1. loading /\ prog \in Progress /\ dt \in Gap /\ dt \in Nat
  BY LoadingAssumption DEF PollLoading, Input
<1>2. gives => ~Events!Moved(seen) /\ (Reports(prog, dt) => ~Events!Moved(seen \cup {prog}))
  BY <1>1, GivenUpUnmoved
<1>3. ~(finishes /\ gives)
  BY DEF Finishes, GivesUp
<1>4. CASE Reports(prog, dt)
  <2>1. Aged(sinceProgress, dt, Throttle) <= Aged(quiet, dt, Throttle)
    BY <1>1, AgedFacts, LoadingAssumption DEF LoadingInv, TypeOK, ThrottleBehind
  <2>2. Aged(quiet, dt, Throttle) \in 0 .. Throttle
    BY <1>1, AgesRange DEF LoadingInv
  <2>3. Aged(sinceProgress, dt, Throttle) \in 0 .. Throttle
    BY <1>1, AgesRange DEF LoadingInv
  <2>4. Aged(quiet, dt, Throttle) = Throttle
    BY <1>4, <2>1, <2>2, <2>3, LoadingAssumption DEF Reports
  <2>5. Events!Age(dt) = Throttle
    BY <2>4 DEF Events!Age, Aged
  <2>6. Events!Continue(<<"progress">>, seen \cup {prog}, prog)
    BY <1>1, <1>2, <1>3, <1>4, EventNames DEF PollLoading, Events!Continue
  <2>7. Events!Report(dt, prog)
    BY <1>1, <1>4, <2>5, <2>6 DEF PollLoading, Events!Report, Reports
  <2> QED BY <1>1, <2>7 DEF Events!Next
<1>5. CASE ~Reports(prog, dt)
  <2>1. Events!Continue(<<>>, seen, lastEmitted)
    BY <1>1, <1>2, <1>3, <1>5, EventNames DEF PollLoading, Events!Continue
  <2>2. Events!Pass(dt)
    BY <1>1, <1>5, <2>1 DEF PollLoading, Events!Pass, Events!Age, Aged
  <2> QED BY <1>1, <2>2 DEF Events!Next
<1> QED BY <1>4, <1>5

LEMMA StepEvents == LoadingInv /\ [PollNext]_pollVars => [Events!Next]_(Events!vars)
<1> SUFFICES ASSUME LoadingInv, [PollNext]_pollVars PROVE [Events!Next]_(Events!vars)
  OBVIOUS
<1>1. CASE PollNext
  <2>1. PICK flag \in Flag \cup {-1}, inWorld \in BOOLEAN, prog \in Progress, dt \in Gap :
          PollFlag(flag, inWorld, prog, dt)
    BY <1>1, PollCases
  <2>2. Input(flag, inWorld, prog, dt)
    BY DEF Input
  <2> QED BY <2>1, <2>2, StartupRefines, IdleRefines, LoadingRefines DEF PollFlag
<1>2. CASE UNCHANGED pollVars
  BY <1>2 DEF pollVars, game, Events!vars
<1> QED BY <1>1, <1>2

(* The polls implement LoadingEvents: loading.finished is paired with      *)
(* loading.startup, progress events are Throttle apart across loadings,    *)
(* and a loading is dropped only while its progress has not moved.         *)
THEOREM LoadingRefinement == PollSpec => ImplementsLoadingEvents
<1> QED BY InitEvents, StepEvents, LoadingInvariance, PTL
        DEF PollSpec, Events!Spec, ImplementsLoadingEvents
=============================================================================
