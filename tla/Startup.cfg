\* Two commands, with and without waiting for the pipe, and two other clients
\* that connect twice each.
SPECIFICATION Spec
CONSTANTS
    Injector = Injector
    Cli = {c1, c2}
    Commands = 2
    Modes = {TRUE, FALSE}
    MaxCalls = 2
INVARIANTS
    SentIsAnswered
    CommandsInOrder
PROPERTIES
    InjectorEnds
    ServerReturns
    ImplementsCommandService
\* The injector ends and the other clients may all have left.
CHECK_DEADLOCK FALSE
