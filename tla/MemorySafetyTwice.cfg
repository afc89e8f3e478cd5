CONSTANTS
    Programs <- FreedTwice
    Static <- Statics
    MaxRevisits = 1
SPECIFICATION Spec
INVARIANT DoubleFreesReported
