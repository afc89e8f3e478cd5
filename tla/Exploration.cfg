SPECIFICATION Spec
CONSTANTS
    NumThreads = 3
    Word = {1, 2}
    Pooled <- RevisitTrees
    Program <- AllPrograms
INVARIANTS
    GraphsWellFormed
    QueuedItemsFresh
    KeptStoresAreLater
    OnlyConsistent
    Exhaustive
    NoDuplicates
