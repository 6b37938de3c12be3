---------------------------- MODULE MCStateCache ----------------------------
(* TLC's instance of StateCache: a few moments of a session, which follow  *)
(* one another in any order.                                               *)
EXTENDS StateCache

CONSTANTS Me

Healthy ==
    [mask |-> {"unit", "player"}, data |-> TRUE, health |-> 2, feigned |-> FALSE,
     power |-> [mana |-> 1, rage |-> 0, energy |-> 0, runic |-> 0],
     powerType |-> "mana", firstCount |-> 0, first |-> <<>>,
     secondCount |-> 0, second |-> <<>>, inCombat |-> FALSE, mounted |-> FALSE,
     moving |-> FALSE, casting |-> FALSE, channeling |-> FALSE,
     attacking |-> FALSE, target |-> NoGuid]

\* Two maps in the table of continents; area 1 is on the second.
World ==
    [map |-> 0, zone |-> 1, area |-> 0, area2 |-> 1, areaMap |-> <<7, 9>>,
     maps |-> <<5, 7>>, continent |-> 0, inWorld |-> TRUE, inGame |-> TRUE,
     screenName |-> "charselect"]

Playing(o, w) == [local |-> Me, objects |-> [g \in Guid |-> o], world |-> w]
Outside(name) ==
    [local |-> NoGuid, objects |-> [g \in Guid |-> Null],
     world |-> [World EXCEPT !.area = -1, !.inWorld = FALSE, !.inGame = FALSE,
                             !.screenName = name]]

Login == Outside("login")

MCImage ==
    {Outside(n) : n \in {"login", "charselect", "movie"}}
    \cup {Playing(o, w) :
            o \in {Healthy, [Healthy EXCEPT !.inCombat = TRUE],
                   [Healthy EXCEPT !.health = 0, !.channeling = TRUE]},
            w \in {World, [World EXCEPT !.zone = 2, !.area2 = 3]}}
    \* on the way to another map
    \cup {Playing(Null, [World EXCEPT !.map = 1, !.inGame = FALSE])}
=============================================================================
