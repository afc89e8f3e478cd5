SPECIFICATION Spec
CONSTANTS
    Threads <- MCThreads
    Code <- MCCode
    Child <- MCChild
    Values = {0, 1}
    MaxRevisits = 3
INVARIANTS
    GraphAsProgram
    CacheFaithful
    DispatchAgrees
PROPERTIES
    EveryExecutionEnds
