SPECIFICATION PartsSpec
CONSTANTS
    n1 = n1
    n2 = n2
    n3 = n3
    IDs <- MCNodes
    V <- MCNodes
    Vertex <- MCNodes
    RuleIDs = {"r1", "r2", "r3"}
    MaxAdds = 3
    Inputs <- MCInputs
    Runs <- MCRuns
    Exchanges = 4
    Awaits = TRUE
    HasTimeout = TRUE
    MaxAddr = 3
    Addr <- MCAddr
INVARIANTS
    FreezeNeverRefuses
    CycleRefusalIsExact
    WalkIsReachability
    SearchIsExact
    OrderDecidesNothing
    NothingLostOrInvented
    MergedIsAdmissible
    SharedIsFaithful
    TimeoutIsOwn
    OneOwner
    NothingLeaks
    EveryAddressAccounted
PROPERTIES
    SearchesTerminate
    CancelUnblocks
    NoFalseBlame
    SweepReturns
