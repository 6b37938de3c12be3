---------------------------- MODULE MCGroupCache ----------------------------
(* TLC's instance of GroupCache: the player and two others.                *)
EXTENDS GroupCache

CONSTANTS a, b

\* A unit without anything remarkable, and what the others differ in.
Calm ==
    [mask |-> {"unit", "player"}, data |-> TRUE, health |-> 1, feigned |-> FALSE,
     power |-> [mana |-> 1, rage |-> 15, energy |-> 0, runic |-> 0],
     powerType |-> "rage", firstCount |-> 0, first |-> <<>>,
     secondCount |-> 0, second |-> <<>>, inCombat |-> FALSE, mounted |-> FALSE,
     moving |-> FALSE, casting |-> FALSE, channeling |-> FALSE,
     attacking |-> FALSE, target |-> NoGuid]

\* Channels out of combat, with a target.
Channeler == [Calm EXCEPT !.channeling = TRUE, !.target = a]
\* In combat; a released spirit, whose auras are in the second table.
Spirit == [Calm EXCEPT !.inCombat = TRUE, !.firstCount = -1,
                       !.secondCount = 2, !.second = <<1, GHOST>>]
\* An object that is going away.
Leaving == [Calm EXCEPT !.data = FALSE]

MCObject == {Channeler, Spirit, Leaving}
MCWord == [g \in Guid |-> CASE g = Me -> {1} [] g = a -> {2} [] OTHER -> {3}]
=============================================================================
