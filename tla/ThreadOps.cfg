CONSTANTS
  Cases <- MCCases
  MaxRevisits = 3
SPECIFICATION Spec
INVARIANTS
    CriticalSections
    NoLostWakeup
    ReplayFaithful
    LivenessErrorReal
PROPERTIES
    EveryExecutionEnds
