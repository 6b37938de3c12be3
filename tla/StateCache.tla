----------------------------- MODULE StateCache -----------------------------
(***************************************************************************)
(* Runtime::StateCache (src/runtime/state/StateCache.cpp): once in a frame *)
(* the render thread reads the player, the world and the screen, keeps     *)
(* them for the RPC thread and tells what has changed, on the event bus    *)
(* (src/runtime/events/EventBus.cpp) and on the event pipe.                *)
(*                                                                         *)
(* The mutex of the cache is held while a pair of entries is copied or     *)
(* stored; between these steps the RPC thread answers player.* and         *)
(* world.getState.  The game runs on the render thread, too: its memory    *)
(* changes only between two updates.  The bus has no subscriber in src/;   *)
(* a listener that may be added is what the history variable view is.      *)
(***************************************************************************)
EXTENDS GameUnits

CONSTANTS
    Image,    \* the memories of the game
    Start,    \* the memory the first frame may see
    NoPlace,  \* a listener that has not heard of a place
    NoPlayer  \* a listener that does not know the player

ASSUME StateAssumption == Start \in Image

VARIABLES
    pc,     \* step of update() the render thread is at
    prev,   \* its copy of the entries before
    entries,\* m_player and m_world
    last,   \* m_lastScreen
    pipe,   \* history: the last client.screenChanged
    view    \* history: player and place as a listener of the bus has them

stateVars == <<mem, pc, prev, entries, last, pipe, view>>

Screen == {"unknown", "login", "charselect", "world"}

-----------------------------------------------------------------------------
(* What is read.                                                           *)

InvalidPlayer == [valid |-> FALSE]
InvalidWorld == [valid |-> FALSE]

\* Player::local()
Local(m) == GetObjectByGUID(m, m.local)

\* The getters of CoreAPI::Player.  xp, afk, dnd, underwater and the place of
\* the player are read like health and left out.
Player(m) ==
    LET u == UnitOf(Local(m))
    IN [guid |-> m.local, health |-> u.health, power |-> u.power, target |-> u.target,
        state |-> u.state]

\* readPlayer: channeling is always FALSE, but casting includes it.
ReadPlayer(m) ==
    IF ~UnitExists(Local(m)) THEN InvalidPlayer
    ELSE [valid |-> TRUE, guid |-> Player(m).guid, health |-> Player(m).health,
          power |-> Player(m).power, target |-> Player(m).target,
          state |-> [Player(m).state EXCEPT !.channeling = FALSE]]

\* WorldInfo::getContinent: the number of the continent whose map the entry of
\* the area names, in the order of the game's table of continents.
GetContinent(w) ==
    LET area == IF w.area = -1 THEN -1 ELSE w.area2
        found == {i \in DOMAIN w.maps : w.maps[i] = w.areaMap[area]}
    IN IF area \notin DOMAIN w.areaMap \/ found = {} THEN w.continent + 1
       ELSE CHOOSE i \in found : \A j \in found : i <= j

\* WorldReader::read, but for the names of zone and subzone and for two numbers
\* no one asks for.
WorldInfo(w) == [map |-> w.map, zone |-> w.zone, continent |-> GetContinent(w)]

\* readWorld: valid whatever it finds.
ReadWorld(m) ==
    [valid |-> TRUE, map |-> WorldInfo(m.world).map, zone |-> WorldInfo(m.world).zone,
     continent |-> WorldInfo(m.world).continent,
     inWorld |-> m.world.inWorld, loading |-> ~m.world.inGame]

\* Glue::getScreen: a name it does not know is Screen::UNKNOWN.
GetScreen(m) ==
    IF m.world.inWorld THEN "world"
    ELSE IF m.world.screenName \in {"login", "charselect"} THEN m.world.screenName
    ELSE "unknown"

-----------------------------------------------------------------------------
(* What is told.                                                           *)

Place(w) == [map |-> w.map, zone |-> w.zone]

\* What a listener takes from an entry it asks for, and from an event.
ViewOfPlayer(p) == [health |-> p.health, target |-> p.target, inCombat |-> p.state.inCombat]

\* player.healthChanged, player.targetChanged, combat.started and combat.ended
\* as a listener with view v applies them.
EmitPlayer(p, q, v) ==
    [health |-> IF p.health # q.health THEN q.health ELSE v.health,
     target |-> IF p.target # q.target THEN q.target ELSE v.target,
     inCombat |-> IF p.state.inCombat # q.state.inCombat THEN q.state.inCombat
                                                         ELSE v.inCombat]

\* world.zoneChanged
EmitPlace(p, q, v) == IF p.map # q.map \/ p.zone # q.zone THEN Place(q) ELSE v

-----------------------------------------------------------------------------
StateInit ==
    /\ mem = Start
    /\ pc = "game"
    /\ entries = [player |-> InvalidPlayer, world |-> InvalidWorld]
    /\ prev = entries
    /\ last = "unknown"
    /\ pipe = [old |-> "unknown", new |-> "unknown"]
    /\ view = [player |-> NoPlayer, place |-> NoPlace]

\* The game, between two frames.
Play(m) ==
    /\ pc = "game"
    /\ mem' = m
    /\ UNCHANGED <<pc, prev, entries, last, pipe, view>>

\* RenderFrame_Hook, after the frame: update() copies the entries.
UpdateCopy ==
    /\ pc = "game"
    /\ prev' = entries
    /\ pc' = "copied"
    /\ UNCHANGED <<mem, entries, last, pipe, view>>

\* Mutant: the entries are copied only now, when they are replaced.
UpdateStore_CopyLate ==
    /\ pc = "copied"
    /\ entries' = [player |-> ReadPlayer(mem), world |-> ReadWorld(mem)]
    /\ prev' = entries'
    /\ pc' = "stored"
    /\ view' = IF entries'.player.valid THEN view ELSE [view EXCEPT !.player = NoPlayer]
    /\ UNCHANGED <<mem, last, pipe>>

\* Both entries are read and stored.  A listener cannot go on from a player
\* that is gone: nothing is told of one that comes back.
UpdateStore ==
    /\ pc = "copied"
    /\ entries' = [player |-> ReadPlayer(mem), world |-> ReadWorld(mem)]
    /\ pc' = "stored"
    /\ view' = IF entries'.player.valid THEN view ELSE [view EXCEPT !.player = NoPlayer]
    /\ UNCHANGED <<mem, prev, last, pipe>>

\* The events of the bus, for what was valid before and is valid now.
UpdateEmit ==
    /\ pc = "stored"
    /\ pc' = "emitted"
    /\ view' = [player |-> IF prev.player.valid /\ entries.player.valid /\ view.player # NoPlayer
                             THEN EmitPlayer(prev.player, entries.player, view.player)
                             ELSE view.player,
                place |-> IF prev.world.valid /\ entries.world.valid /\ view.place # NoPlace
                            THEN EmitPlace(prev.world, entries.world, view.place)
                            ELSE view.place]
    /\ UNCHANGED <<mem, prev, entries, last, pipe>>

\* Mutant: the screen is not remembered.
UpdateScreen_Forgotten ==
    /\ pc = "emitted"
    /\ pc' = "game"
    /\ IF GetScreen(mem) # last
         THEN pipe' = [old |-> last, new |-> GetScreen(mem)]
         ELSE UNCHANGED pipe
    /\ UNCHANGED <<mem, prev, entries, last, view>>

\* Mutant: a screen the code has no name for is not a change.
UpdateScreen_KnownOnly ==
    /\ pc = "emitted"
    /\ pc' = "game"
    /\ IF GetScreen(mem) \notin {last, "unknown"}
         THEN /\ pipe' = [old |-> last, new |-> GetScreen(mem)]
              /\ last' = GetScreen(mem)
         ELSE UNCHANGED <<last, pipe>>
    /\ UNCHANGED <<mem, prev, entries, view>>

\* client.screenChanged, on the bus and on the event pipe.
UpdateScreen ==
    /\ pc = "emitted"
    /\ pc' = "game"
    /\ IF GetScreen(mem) # last
         THEN /\ pipe' = [old |-> last, new |-> GetScreen(mem)]
              /\ last' = GetScreen(mem)
         ELSE UNCHANGED <<last, pipe>>
    /\ UNCHANGED <<mem, prev, entries, view>>

\* player.getHealth, getPosition, getTarget and getState: an error if there is
\* no valid entry.
GetPlayer ==
    /\ entries.player.valid
    /\ view' = [view EXCEPT !.player = ViewOfPlayer(entries.player)]
    /\ UNCHANGED <<mem, pc, prev, entries, last, pipe>>

\* world.getState
GetWorld ==
    /\ entries.world.valid
    /\ view' = [view EXCEPT !.place = Place(entries.world)]
    /\ UNCHANGED <<mem, pc, prev, entries, last, pipe>>

Update == UpdateCopy \/ UpdateStore \/ UpdateEmit \/ UpdateScreen

StateNext == Update \/ GetPlayer \/ GetWorld \/ \E m \in Image : Play(m)

\* Frames are rendered as long as the game runs.
StateSpec == StateInit /\ [][StateNext]_stateVars /\ WF_stateVars(Update)

-----------------------------------------------------------------------------
(* A listener that asks once and then applies the events of the bus has    *)
(* what the cache has when update() is through, whenever it asked, as long *)
(* as the player has not been away in between: update() compares what it   *)
(* replaces with what it stores.                                           *)
FollowerKnows ==
    pc \in {"game", "emitted"} =>
      /\ view.player # NoPlayer => view.player = ViewOfPlayer(entries.player)
      /\ view.place # NoPlace => view.place = Place(entries.world)

(* The events client.screenChanged are a chain: each begins where the one  *)
(* before ended, and none goes from a screen to itself.                    *)
ScreensChain == [][pipe' # pipe => pipe'.old = pipe.new /\ pipe'.new # pipe'.old]_stateVars

(* A screen that stays is told, so whoever follows client.screenChanged    *)
(* (docs/EN/03-methods/events.md:240) comes to know it.                    *)
ScreenIsTold ==
    \A s \in Screen : <>[](GetScreen(mem) = s) => <>[](pipe.new = s)
=============================================================================
