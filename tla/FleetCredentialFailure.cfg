SPECIFICATION Spec
CONSTANTS
    w1 = w1
    w2 = w2
    N = 2
    Workers <- MCWorkers
    WithReference <- MCFirstOnly
    HasRunBudget = TRUE
    CallerEndings <- MCCallerEndings
INVARIANTS
    CredentialFailureIsReal
