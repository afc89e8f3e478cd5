SPECIFICATION Spec
CONSTANTS
    NumThreads = 3
    Word = {1, 2}
    Pooled = {}
    Program <- SplitPrograms
INVARIANT AlwaysExhaustive
