SPECIFICATION JourneysSpec
CONSTANTS
    MaxAddr = 1
    Addr <- MCAddr
    MaxPages = 2
    MaxPods = 2
    MaxSlices = 3
    MaxEndpoints = 2
    PageSize = 2
    Slices <- MCSlices
INVARIANTS
    OneReadySuppresses
