\* Two clients one after the other, three events from two threads.  Of two handle
\* values a new instance gets the one just closed or the other.
SPECIFICATION Spec
CONSTANTS
    Game = Game
    Rpc = Rpc
    INVALID = INVALID
    Handle = {h1, h2}
    DefaultMax = 2
    MaxEvents = 3
    MaxSessions = 2
INVARIANTS
    NoInstanceLeft
    AcceptorWakes
    WireOrder
PROPERTIES
    ClientKept
    AudienceIsServed
    LeaverIsReplaced
    ImplementsEventStream
\* Events and sessions are bounded: the model may run out of both.
CHECK_DEADLOCK FALSE
