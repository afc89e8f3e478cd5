CONSTANTS
    NaN = NaN
    NoReg = NoReg
    PtrWidth = 3
    Programs <- MCPrograms
    LoadValues <- MCLoadValues
SPECIFICATION Spec
CHECK_DEADLOCK FALSE
INVARIANT FilterSound
PROPERTY LoopPassesSound
