\* The injector alone, as recommended: it waits for the pipe, sends two commands.
SPECIFICATION Spec
CONSTANTS
    Injector = Injector
    Cli = {}
    Commands = 2
    Modes = {TRUE}
    MaxCalls = 0
INVARIANTS
    CommandsAnswered
CHECK_DEADLOCK FALSE
