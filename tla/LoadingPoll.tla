---------------------------- MODULE LoadingPoll -----------------------------
(***************************************************************************)
(* Hooks::Loading::PollFlag (src/hooks/LoadingHooks.cpp), which the game   *)
(* thread calls once a frame: it guesses from a flag, a progress value and *)
(* the in-world flag of the game when a loading begins, moves and ends.    *)
(*                                                                         *)
(* The handler is one action; it has three disjuncts because a call that   *)
(* finds s_loading set, one that sets it, and one that leaves it clear     *)
(* take disjoint ways through the four ifs.  Times are kept as ages, which *)
(* stop at the threshold they are compared with.                           *)
(***************************************************************************)
EXTENDS Integers, Sequences

CONSTANTS
    Throttle,        \* the 100 ms between progress events
    StartupTimeout,  \* the 5000 ms a loading may show no real progress
    Full,            \* the progress 1.0f; values are 0 .. Full
    Flag,            \* values of LOADING_FLAG other than -1
    Gap              \* times between two polls

Progress == 0 .. Full

ASSUME LoadingAssumption ==
    /\ Throttle \in Nat \ {0}
    /\ StartupTimeout \in Nat
    /\ Full \in Nat \ {0}
    /\ Flag \subseteq Nat
    /\ Gap \subseteq Nat

VARIABLES
    loading,        \* s_loading
    lastFlag,       \* s_lastFlag
    lastInWorld,    \* s_lastInWorld
    lastEmitted,    \* s_lastEmittedProgress
    sinceProgress,  \* now - s_lastProgressTime
    sinceStartup,   \* now - s_startupTime
    firstProgress,  \* s_firstProgress
    hadReal,        \* s_hadRealProgress
    idleProgress,   \* s_idleProgress
    out,            \* history: events pushed by the last poll
    seen,           \* history: progress values reported in this loading
    gap,            \* history: time between the last two polls
    quiet           \* history: time since the last progress event

game == <<lastFlag, lastInWorld>>
pollVars == <<loading, game, lastEmitted, sinceProgress, sinceStartup,
              firstProgress, hadReal, idleProgress, out, seen, gap, quiet>>

PollInit ==
    /\ loading = FALSE
    /\ lastFlag = -1 /\ lastInWorld = FALSE
    /\ lastEmitted = -1 /\ firstProgress = -1 /\ idleProgress = -1
    /\ hadReal = FALSE
    /\ sinceProgress = Throttle
    /\ sinceStartup = StartupTimeout + 1
    /\ out = <<>> /\ seen = {} /\ gap = 0 /\ quiet = Throttle

\* An age after dt more, counted up to limit.
Aged(age, dt, limit) == IF age + dt > limit THEN limit ELSE age + dt

\* What a poll reads from the game becomes s_lastFlag and s_lastInWorld at its
\* end, also after the give-up, whose own s_lastFlag = -1 is overwritten.
Remember(flag, inWorld) == lastFlag' = flag /\ lastInWorld' = inWorld

Ready(flag, inWorld) == ~loading /\ flag # -1 /\ ~inWorld

\* The three signs of a loading: a new flag, a world just left, or a progress
\* value that moves below Full.
Wakes(flag, prog) ==
    \/ flag # lastFlag
    \/ lastInWorld
    \/ prog < Full /\ prog # idleProgress /\ idleProgress # -1

\* Mutant: the throttle starts anew with each loading, already expired.
PollStartup_NoThrottle(flag, inWorld, prog, dt) ==
    /\ Ready(flag, inWorld) /\ Wakes(flag, prog)
    /\ loading' = TRUE
    /\ lastEmitted' = -1
    /\ firstProgress' = prog
    /\ hadReal' = FALSE
    /\ idleProgress' = -1
    /\ sinceProgress' = Throttle /\ sinceStartup' = 0
    /\ out' = <<"startup">> /\ seen' = {} /\ quiet' = Aged(quiet, dt, Throttle)
    /\ Remember(flag, inWorld)

\* A poll that starts a loading.  It reports no progress yet: the throttle
\* starts now.
PollStartup(flag, inWorld, prog, dt) ==
    /\ Ready(flag, inWorld) /\ Wakes(flag, prog)
    /\ loading' = TRUE
    /\ lastEmitted' = -1
    /\ firstProgress' = prog
    /\ hadReal' = FALSE
    /\ idleProgress' = -1
    /\ sinceProgress' = 0 /\ sinceStartup' = 0
    /\ out' = <<"startup">> /\ seen' = {} /\ quiet' = Aged(quiet, dt, Throttle)
    /\ Remember(flag, inWorld)

\* A poll outside a loading that starts none.
PollIdle(flag, inWorld, prog, dt) ==
    /\ ~loading
    /\ ~(Ready(flag, inWorld) /\ Wakes(flag, prog))
    /\ idleProgress' = IF Ready(flag, inWorld) THEN prog ELSE idleProgress
    /\ sinceProgress' = Aged(sinceProgress, dt, Throttle)
    /\ sinceStartup' = Aged(sinceStartup, dt, StartupTimeout + 1)
    /\ out' = <<>> /\ quiet' = Aged(quiet, dt, Throttle)
    /\ Remember(flag, inWorld)
    /\ UNCHANGED <<loading, lastEmitted, firstProgress, hadReal, seen>>

Reports(prog, dt) ==
    Aged(sinceProgress, dt, Throttle) >= Throttle /\ prog # lastEmitted

\* s_hadRealProgress after the progress part of the poll.
Real(prog, dt) == hadReal \/ (Reports(prog, dt) /\ prog # firstProgress)

Finishes(inWorld) == inWorld /\ ~lastInWorld

\* Mutant: the give-up is left out.
GivesUp_Never(inWorld, prog, dt) == FALSE

\* More than StartupTimeout after its start, and progress has not moved.
GivesUp(inWorld, prog, dt) ==
    /\ ~inWorld
    /\ Aged(sinceStartup, dt, StartupTimeout + 1) > StartupTimeout
    /\ ~Real(prog, dt)

\* Mutant: the in-world flag alone ends a loading only with a known flag.
PollLoading_FlagGone(flag, inWorld, prog, dt) ==
    LET reports == Reports(prog, dt)
        finishes == Finishes(inWorld) /\ flag # -1
        ends == finishes \/ GivesUp(inWorld, prog, dt)
        values == IF reports THEN seen \cup {prog} ELSE seen
    IN  /\ loading
        /\ loading' = ~ends
        /\ hadReal' = Real(prog, dt)
        /\ lastEmitted' = IF ends THEN -1 ELSE IF reports THEN prog ELSE lastEmitted
        /\ sinceProgress' = IF reports THEN 0 ELSE Aged(sinceProgress, dt, Throttle)
        /\ sinceStartup' = Aged(sinceStartup, dt, StartupTimeout + 1)
        /\ out' = (IF reports THEN <<"progress">> ELSE <<>>)
                    \o (IF finishes THEN <<"finished">> ELSE <<>>)
        /\ seen' = IF ends THEN {} ELSE values
        /\ quiet' = IF reports THEN 0 ELSE Aged(quiet, dt, Throttle)
        /\ Remember(flag, inWorld)
        /\ UNCHANGED <<firstProgress, idleProgress>>

\* A poll inside a loading: a progress event, then its end if it ends.
PollLoading(flag, inWorld, prog, dt) ==
    LET reports == Reports(prog, dt)
        finishes == Finishes(inWorld)
        ends == finishes \/ GivesUp(inWorld, prog, dt)
        values == IF reports THEN seen \cup {prog} ELSE seen
    IN  /\ loading
        /\ loading' = ~ends
        /\ hadReal' = Real(prog, dt)
        /\ lastEmitted' = IF ends THEN -1 ELSE IF reports THEN prog ELSE lastEmitted
        /\ sinceProgress' = IF reports THEN 0 ELSE Aged(sinceProgress, dt, Throttle)
        /\ sinceStartup' = Aged(sinceStartup, dt, StartupTimeout + 1)
        /\ out' = (IF reports THEN <<"progress">> ELSE <<>>)
                    \o (IF finishes THEN <<"finished">> ELSE <<>>)
        /\ seen' = IF ends THEN {} ELSE values
        /\ quiet' = IF reports THEN 0 ELSE Aged(quiet, dt, Throttle)
        /\ Remember(flag, inWorld)
        /\ UNCHANGED <<firstProgress, idleProgress>>

PollFlag(flag, inWorld, prog, dt) ==
    /\ gap' = dt
    /\ \/ PollStartup(flag, inWorld, prog, dt)
       \/ PollIdle(flag, inWorld, prog, dt)
       \/ PollLoading(flag, inWorld, prog, dt)

Poll(dt) ==
    \E flag \in Flag \cup {-1}, inWorld \in BOOLEAN, prog \in Progress :
        PollFlag(flag, inWorld, prog, dt)

PollNext == \E dt \in Gap : Poll(dt)

\* Frames keep coming and the clock keeps ticking between them.
Fairness == WF_pollVars(\E dt \in Gap \ {0} : Poll(dt))

PollSpec == PollInit /\ [][PollNext]_pollVars /\ Fairness

-----------------------------------------------------------------------------
TypeOK ==
    /\ loading \in BOOLEAN
    /\ lastFlag \in Flag \cup {-1} /\ lastInWorld \in BOOLEAN
    /\ lastEmitted \in Progress \cup {-1}
    /\ firstProgress \in Progress \cup {-1}
    /\ idleProgress \in Progress \cup {-1}
    /\ hadReal \in BOOLEAN
    /\ sinceProgress \in 0 .. Throttle /\ quiet \in 0 .. Throttle
    /\ sinceStartup \in 0 .. StartupTimeout + 1
    /\ out \in Seq({"startup", "progress", "finished"})
    /\ seen \in SUBSET Progress /\ gap \in Gap \cup {0}

(* No loading stays open in the world: the test for a change of the        *)
(* in-world flag does not miss an entry, so loading.finished comes with    *)
(* the first poll that finds the world.                                    *)
LoadingOutsideWorld == loading => ~lastInWorld

(* A loading whose progress does not move is given up or finished: a wrong *)
(* guess does not block the next loading.  Only frames are needed for it.  *)
NoIdleLoading == (loading /\ ~hadReal) ~> (~loading \/ hadReal)

Events == INSTANCE LoadingEvents WITH
              open <- loading, last <- lastEmitted, None <- -1

(* The events PollFlag pushes are those LoadingEvents allows: each         *)
(* loading.finished has its own loading.startup, progress events are at    *)
(* least 100 ms apart (docs/EN/03-methods/events.md:248) even when one     *)
(* loading follows another, and a loading whose reported progress moved is *)
(* not dropped silently.                                                   *)
ImplementsLoadingEvents == Events!Spec
=============================================================================
