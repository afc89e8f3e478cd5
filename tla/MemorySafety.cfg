CONSTANTS
    Programs <- CorrectAndFaulty
    Static <- Statics
    MaxRevisits = 2
SPECIFICATION Spec
INVARIANTS
    ErrorsExact
    LinksAndViewsExact
