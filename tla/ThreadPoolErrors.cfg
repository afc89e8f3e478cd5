SPECIFICATION FairSpec
CONSTANTS
    NumWorkers = 3
    OffloadFactor = 1
    Item <- SmallItem
    Root <- MCRoot
    Parent <- SmallParent
    Forward <- MCForward
    Buggy <- MCTwoBugs
    VE_OK = VE_OK
    NoVerdict = NoVerdict
    NoItem = NoItem
PROPERTIES
    ImplementsExploration
    Progress
