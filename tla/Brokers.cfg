SPECIFICATION JourneysSpec
CONSTANTS
    MaxAddr = 2
    Addr <- MCAddr
    MaxPages = 2
    MaxPods = 2
    MaxSlices = 3
    MaxEndpoints = 2
    PageSize = 2
    Slices <- MCSlices
INVARIANTS
    RabbitCredentialDiscipline
    TuneIsHonoured
    RabbitRunFaithful
    K8sCredentialBound
    K8sAbsenceIsMeasured
    K8sIncompleteIsExact
