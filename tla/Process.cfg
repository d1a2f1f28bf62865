SPECIFICATION HungSpec
CONSTANTS
    w1 = w1
    w2 = w2
    N = 2
    Workers <- MCOneWorker
    WithReference <- MCWithReference
    HasRunBudget = TRUE
    CallerEndings <- MCCallerEndings
    MaxSignals = 3
INVARIANTS
    ExitCodeTruthful
    OneSignalNeverAborts
PROPERTIES
    EveryInvocationEnds
