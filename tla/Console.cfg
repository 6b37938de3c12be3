\* Two threads of the game that print twice each, and a log of at most two
\* messages.  The process may end, so the model may stop.
SPECIFICATION Spec
CONSTANTS
    Printer = {main, other}
    NoThread = NoThread
    MaxPrints = 2
    DefaultMax = 2
    Method <- MCMethod
    NoMethod = NoMethod
    Absent = Absent
    Misfit = Misfit
    Request <- MCRequest
INVARIANTS
    CapturedUnlessBusy
    LogIsRecent
    RepliesFit
PROPERTIES
    PrintReturns
CHECK_DEADLOCK FALSE
