\* Times in units: a progress event every 2, a give-up after 3, polls 0 to 2
\* apart, so that thresholds are met exactly and overshot.  Three progress
\* values: the first, one in between, and Full.
SPECIFICATION PollSpec
CONSTANTS
    Throttle = 2
    StartupTimeout = 3
    Full = 2
    Flag = {0, 1}
    Gap = {0, 1, 2}
INVARIANTS
    LoadingOutsideWorld
PROPERTIES
    NoIdleLoading
    ImplementsLoadingEvents
