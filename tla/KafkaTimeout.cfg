SPECIFICATION DeadlineSpec
CONSTANTS
    Exchanges = 3
    Awaits = FALSE
    HasTimeout = TRUE
INVARIANTS
    TimeoutIsOwn
