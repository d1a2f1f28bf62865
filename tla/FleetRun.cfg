SPECIFICATION Spec
CONSTANTS
    w1 = w1
    w2 = w2
    N = 3
    Workers <- MCWorkers
    WithReference <- MCWithReference
    HasRunBudget = TRUE
    CallerEndings <- MCCallerEndings
SYMMETRY WorkerSymmetry
INVARIANTS
    SlotOwnership
    NeverStartedUntouched
    EveryTargetDisposed
PROPERTIES
    ImplementsContract
