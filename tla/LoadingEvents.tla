--------------------------- MODULE LoadingEvents ---------------------------
(***************************************************************************)
(* What a client of the event pipe may rely on in the loading.* events     *)
(* (src/hooks/LoadingHooks.cpp): loading.startup opens a loading; only an  *)
(* open one has loading.progress and loading.finished; progress events     *)
(* carry a new value and are Throttle apart, across loadings too; and a    *)
(* loading is dropped without loading.finished only while the values       *)
(* reported have not moved.  Nothing is said about flags and polls.        *)
(***************************************************************************)
EXTENDS Integers, Sequences

CONSTANTS Throttle,  \* least time between two progress events
          Progress,  \* progress values
          None,      \* no progress reported in this loading
          Gap        \* how far the clock moves in one step

VARIABLES
    open,   \* is a loading open
    seen,   \* progress values reported in the open loading
    last,   \* the last one
    gap,    \* time since the step before this one
    quiet,  \* time since the last progress event, counted up to Throttle
    out     \* the events of the last step

vars == <<open, seen, last, gap, quiet, out>>

Init == /\ open = FALSE /\ seen = {} /\ last = None
        /\ gap = 0 /\ quiet = Throttle /\ out = <<>>

Age(dt) == IF quiet + dt > Throttle THEN Throttle ELSE quiet + dt

Moved(values) == \E p, q \in values : p # q

\* A step of an open loading: it stays open, is finished, or is dropped.
Continue(events, values, value) ==
    \/ open' = TRUE /\ out' = events /\ seen' = values /\ last' = value
    \/ /\ open' = FALSE /\ seen' = {} /\ last' = None
       /\ \/ out' = Append(events, "finished")
          \/ out' = events /\ ~Moved(values)

Startup(dt) ==
    /\ ~open /\ open' = TRUE
    /\ out' = <<"startup">>
    /\ quiet' = Age(dt)
    /\ UNCHANGED <<seen, last>>

Report(dt, p) ==
    /\ open
    /\ Age(dt) = Throttle /\ p # last
    /\ quiet' = 0
    /\ Continue(<<"progress">>, seen \cup {p}, p)

Pass(dt) ==
    /\ quiet' = Age(dt)
    /\ IF open THEN Continue(<<>>, seen, last)
               ELSE out' = <<>> /\ UNCHANGED <<open, seen, last>>

Next ==
    \E dt \in Gap :
        /\ gap' = dt
        /\ Startup(dt) \/ Pass(dt) \/ \E p \in Progress : Report(dt, p)

Spec == Init /\ [][Next]_vars
=============================================================================
