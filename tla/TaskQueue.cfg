\* Two callers, although the program has one RPC thread: the class locks its
\* mutex for any number of them.
SPECIFICATION Spec
CONSTANTS
    Caller = {c1, c2}
    VoidTask = {v1, v2}
    ExecTask = {t1, t2}
    NoTask = NoTask
INVARIANTS
    InOnePlace
    RunsInOrder
PROPERTIES
    ExecuteReturns
    HandedOverRuns
    ImplementsExecutor
\* Every task has run and nobody calls again: the model may stop.
CHECK_DEADLOCK FALSE
