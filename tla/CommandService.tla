--------------------------- MODULE CommandService ---------------------------
(***************************************************************************)
(* What the injector's command line promises (docs/EN/02-injection.md,     *)
(* src/injector/main.cpp): once the game has been resumed the commands     *)
(* are gone through in the order given; each is either dispatched, once,   *)
(* and then told as answered, or never dispatched and told as not sent;    *)
(* and the next one is begun only then.  Nothing is said about pipes,      *)
(* handles, other clients or the server's thread.                          *)
(***************************************************************************)
EXTENDS Naturals, Sequences

CONSTANT Commands  \* number of commands

VARIABLES
    phase,      \* "starting", "serving", or "gone": given up before a command
    dispatched, \* commands dispatched, in order
    outcome     \* [1 .. Commands -> what was told of it]

vars == <<phase, dispatched, outcome>>

\* The command whose turn it is: all before it have been told of.
Current(k) == outcome[k] = "none" /\ \A j \in 1 .. Commands : j < k => outcome[j] # "none"

IsDispatched(k) == \E i \in DOMAIN dispatched : dispatched[i] = k

Init ==
    /\ phase = "starting"
    /\ dispatched = <<>>
    /\ outcome = [k \in 1 .. Commands |-> "none"]

Decide ==
    /\ phase = "starting"
    /\ phase' \in {"serving", "gone"}
    /\ UNCHANGED <<dispatched, outcome>>

Dispatch(k) ==
    /\ phase = "serving"
    /\ Current(k) /\ ~IsDispatched(k)
    /\ dispatched' = Append(dispatched, k)
    /\ UNCHANGED <<phase, outcome>>

Answer(k) ==
    /\ phase = "serving"
    /\ Current(k) /\ IsDispatched(k)
    /\ outcome' = [outcome EXCEPT ![k] = "response"]
    /\ UNCHANGED <<phase, dispatched>>

Refuse(k) ==
    /\ phase = "serving"
    /\ Current(k) /\ ~IsDispatched(k)
    /\ outcome' = [outcome EXCEPT ![k] = "notSent"]
    /\ UNCHANGED <<phase, dispatched>>

Next == Decide \/ \E k \in 1 .. Commands : Dispatch(k) \/ Answer(k) \/ Refuse(k)

Spec == Init /\ [][Next]_vars
=============================================================================
