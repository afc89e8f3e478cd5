SPECIFICATION Spec
CONSTANTS
    NumWorkers = 3
    OffloadFactor = 1
    Item <- MCItem
    Root <- MCRoot
    Parent <- MCParent
    Forward <- MCForward
    Buggy <- MCNoBug
    VE_OK = VE_OK
    NoVerdict = NoVerdict
    NoItem = NoItem
INVARIANTS
    TypeOK
    RemainingAccurate
    RunExactlyOnce
    NoEarlyExit
    TotalExact
