\* The injector alone, as recommended, without commands.
SPECIFICATION Spec
CONSTANTS
    Injector = Injector
    Cli = {}
    Commands = 0
    Modes = {TRUE}
    MaxCalls = 0
INVARIANTS
    ReadyBeforeFrame
CHECK_DEADLOCK FALSE
